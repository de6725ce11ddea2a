------------------------------- MODULE Phase1 -------------------------------
(***************************************************************************)
(* The probes that phase 1 of a validation sends to an OAI-PMH endpoint    *)
(* and how it judges the error codes of an answer (oai/phase1.py,          *)
(* oai/phase1_tests_data.py).                                              *)
(***************************************************************************)
EXTENDS FiniteSets

CONSTANT Absent   \* an argument that the query does not have

\* What the arguments of the probes say.
Texts ==
  {"oai_dc", "illegal_mdp", "ivo_managed", "really_wrong_set", "some_random_date", "2001",
   "2002-01-01T00:00:00Z", "2001-01-01T00:00:00Z", "2001-01-01", "2000-01-01", "1999-01-01",
   "1969-01-01T00:00:00Z", "junktoken", "really_wrong_id", "invalid\\\"id"}

ASSUME TextsAssumption == Absent \notin Texts

----------------------------------------------------------------------------
(* Judging an answer by the set of its error codes. *)

\* Errors that must come, errors that may come, or none at all.  A probe that
\* expects no error has expect = {}.
Acceptable(codes, expect, ignore, optional) ==
  \/ expect # {} /\ codes # {} /\ codes \subseteq expect \cup ignore
  \/ expect = {} /\ optional # {} /\ codes \subseteq optional \cup ignore
  \/ expect = {} /\ codes = {}

----------------------------------------------------------------------------
(* The probes. *)

Plain(verb) ==
  [verb |-> verb, prefix |-> Absent, set |-> Absent, from |-> Absent, until |-> Absent,
   token |-> Absent, identifier |-> Absent, other |-> FALSE, twice |-> FALSE]

Dc(verb) == [Plain(verb) EXCEPT !.prefix = "oai_dc"]

Case(query, expect) ==
  [query |-> query, expect |-> expect, ignore |-> {}, optional |-> {}]
Tolerant(query, optional) ==
  [query |-> query, expect |-> {}, ignore |-> {}, optional |-> optional]

BadDateCodes == {"noRecordsMatch", "badArgument"}
BadIdCodes == {"idDoesNotExist", "badArgument"}

\* Those that both ListIdentifiers and ListRecords get.
ListCases(verb) ==
  { Case(Dc(verb), {}),
    Case(Plain(verb), {"badArgument"}),
    Tolerant([Dc(verb) EXCEPT !.from = "2000-01-01", !.until = "2000-01-01"], BadDateCodes),
    Case([Dc(verb) EXCEPT !.set = "really_wrong_set", !.from = "some_random_date",
                          !.until = "some_random_date"],
         {"badArgument", "noSetHierarchy"}),
    Case([Dc(verb) EXCEPT !.from = "2001-01-01", !.until = "2002-01-01T00:00:00Z"],
         BadDateCodes),
    [Case([Plain(verb) EXCEPT !.token = "junktoken"], {"badResumptionToken"})
       EXCEPT !.ignore = {"badArgument"}] }

IdentifierCases ==
  LET L == Dc("ListIdentifiers") IN
  { Case([L EXCEPT !.set = "ivo_managed"], {}),
    Case([L EXCEPT !.from = "2000-01-01", !.until = "1999-01-01"], BadDateCodes),
    Case([L EXCEPT !.prefix = "illegal_mdp"], {"cannotDisseminateFormat", "badArgument"}),
    Case([L EXCEPT !.twice = TRUE], {"badArgument"}),
    Case([L EXCEPT !.from = "2001-01-01"], {}),
    Tolerant([L EXCEPT !.from = "2001-01-01T00:00:00Z"], {"badArgument"}),
    Case([L EXCEPT !.from = "2001"], {"badArgument"}) }

SingleCases ==
  { Case(Plain("Identify"), {}),
    Case([Plain("Identify") EXCEPT !.other = TRUE], {"badArgument"}),
    Case(Plain("ListMetadataFormats"), {}),
    Case(Plain("ListSets"), {}),
    Case([Plain("ListMetadataFormats") EXCEPT !.identifier = "really_wrong_id"], BadIdCodes),
    Case(Dc("GetRecord"), {"badArgument"}),
    Case([Dc("GetRecord") EXCEPT !.identifier = "really_wrong_id"], BadIdCodes),
    Case([Dc("GetRecord") EXCEPT !.identifier = "invalid\\\"id"], BadIdCodes),
    Case(Plain("IllegalVerb"), {"badVerb"}) }

\* OAI_PHASE1_CASES
Cases ==
  ListCases("ListIdentifiers") \cup ListCases("ListRecords") \cup IdentifierCases
    \cup {Case([Dc("ListRecords") EXCEPT !.until = "1969-01-01T00:00:00Z"], BadDateCodes)}
    \cup SingleCases
=============================================================================
