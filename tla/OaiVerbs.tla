------------------------------ MODULE OaiVerbs ------------------------------
(***************************************************************************)
(* What benson's own OAI-PMH server answers to the probes that benson      *)
(* sends to every registry in phase 1 (oai/server.py, http/oai.py,         *)
(* registry/standards_store.py).  The server and the validator are written *)
(* independently of each other; nothing but their code makes them agree,   *)
(* and the answers depend on the standards' files.                         *)
(***************************************************************************)
EXTENDS OaiList, Phase1

CONSTANT Identifier   \* the identifiers of the records

ASSUME AbsentAssumption == Absent = None

\* There are records of benson's own, none has the identifier of a probe, and 1969
\* lies before 1970.
ASSUME ServerAssumption ==
  /\ Synthetic # 0
  /\ \A i \in Records : Identifier[i] \notin Texts
  /\ -10 < Epoch

\* parse_oai_date on the texts of the probes.  All of them lie before the
\* records of the model, the last one before 1970.
ParsedDate(text) ==
  CASE text = "2002-01-01T00:00:00Z" -> [gran |-> "seconds", at |-> -1]
    [] text = "2001-01-01T00:00:00Z" -> [gran |-> "seconds", at |-> -2]
    [] text = "2001-01-01" -> [gran |-> "day", at |-> -2]
    [] text = "2000-01-01" -> [gran |-> "day", at |-> -4]
    [] text = "1999-01-01" -> [gran |-> "day", at |-> -6]
    [] text = "1969-01-01T00:00:00Z" -> [gran |-> "seconds", at |-> -10]
    [] text = None -> None
    [] OTHER -> NoDate

Formats == {"ivo_vor", "oai_dc"}

\* get_by_identifier
Known(f, identifier) == \E i \in Records : f[i] # None /\ Identifier[i] = identifier

BadPrefix(q) ==
  IF q.prefix = Absent THEN {"badArgument"}
  ELSE IF q.prefix \notin Formats THEN {"cannotDisseminateFormat"} ELSE {}

\* _validate_list_args: the first thing that is wrong.  The tokens of the probes
\* are junk; those that the server gave are OaiList's.
ListFault(q) ==
  LET from == ParsedDate(q.from)
      until == ParsedDate(q.until)
  IN
  CASE q.twice -> {"badArgument"}
    [] ~q.twice /\ q.token # Absent -> {"badResumptionToken"}
    [] ~q.twice /\ q.token = Absent /\ BadPrefix(q) # {} -> BadPrefix(q)
    [] OTHER ->
         IF q.set \notin {Absent, "ivo_managed"} THEN {"noSetHierarchy"}
         ELSE IF BadDates(from, until) THEN {"badArgument"}
         ELSE IF BeforeEpoch(until) THEN {"noRecordsMatch"} ELSE {}

ListCodes(f, q) ==
  LET S == Matching(f, [from |-> ParsedDate(q.from), until |-> ParsedDate(q.until)]) IN
  IF ListFault(q) # {} THEN ListFault(q)
  ELSE IF NoMatch(S, 0) THEN {"noRecordsMatch"} ELSE {}

IdentifyCodes(q) == IF q = Plain("Identify") THEN {} ELSE {"badArgument"}

FormatsCodes(f, q) ==
  IF q.identifier # Absent /\ ~Known(f, q.identifier) THEN {"idDoesNotExist"} ELSE {}

RecordCodes(f, q) ==
  IF q.twice \/ q.identifier = Absent \/ q.prefix = Absent THEN {"badArgument"}
  ELSE IF BadPrefix(q) # {} THEN BadPrefix(q)
  ELSE IF ~Known(f, q.identifier) THEN {"idDoesNotExist"} ELSE {}

\* dispatch_oai_verb: the error codes of the answer
Codes(f, q) ==
  CASE q.verb = "Identify" -> IdentifyCodes(q)
    [] q.verb = "ListMetadataFormats" -> FormatsCodes(f, q)
    [] q.verb = "ListSets" -> {}
    [] q.verb \in {"ListIdentifiers", "ListRecords"} -> ListCodes(f, q)
    [] q.verb = "GetRecord" -> RecordCodes(f, q)
    [] OTHER -> {"badVerb"}

----------------------------------------------------------------------------
(* Properties. *)

\* The RofR's own registry passes every probe of its own phase 1, whatever
\* standards there are, deleted ones among them: a range of dates that no record
\* can match must be refused before deleted records, which match any dates, make
\* a list of it.
OwnServerPasses ==
  \A c \in Cases : Acceptable(Codes(files, c.query), c.expect, c.ignore, c.optional)
=============================================================================
