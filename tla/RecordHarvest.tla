--------------------------- MODULE RecordHarvest ---------------------------
(***************************************************************************)
(* The harvest of phase 3: benson follows the resumption tokens of the     *)
(* registry under test and keeps the metadata of its records until it has  *)
(* enough of them (oai/phase3.py, oai/client.py, oai/xmlutil.py).          *)
(*                                                                         *)
(* The registry is the environment: it has a list, cuts it into pages as   *)
(* it likes, and may fail in any answer.  A token stands for the place in  *)
(* the list where it continues.                                            *)
(***************************************************************************)
EXTENDS Naturals, Sequences, FiniteSets, SequencesExt

CONSTANTS
  Ids,         \* identifiers of records
  MaxList,     \* bound on the registry's list
  MinPage,     \* a page holds at least so many records, if the list still has them
  Caps,        \* values of max_records
  None,        \* no identifier, no token
  Blank,       \* a token of white space: empty, but not None
  Query        \* HARVEST_QUERY: a failure of the harvest and not of a record

\* An identifier is a URI, which the key of a record without one is not.
ASSUME HarvestAssumption ==
  /\ MaxList \in Nat /\ MinPage \in Nat /\ Caps \subseteq Nat
  /\ {None, Blank} \cap Nat = {} /\ None # Blank
  /\ {None, Query} \cap Ids = {} /\ Ids \cap ({"_anon_"} \X Nat) = {}

Record == [id : Ids \cup {None}, kind : {"live", "deleted", "no metadata"}]
Lists == UNION {[1..n -> Record] : n \in 0..MaxList}

VARIABLES
  list,        \* the registry's
  cap,         \* max_records
  token,       \* where the next page starts; 0 for the first request
  read,        \* how many records the pages so far have held
  collected,   \* the place in the list whose metadata is kept under a key
  failures,    \* what HarvestStats.failures names, in order
  strayed,     \* an answer was XML, but not OAI-PMH
  harvesting   \* "no", "yes" or "over"

registry == <<list, cap>>
gathered == <<collected, failures>>
harvest == <<registry, token, read, gathered, strayed, harvesting>>

Size(docs) == Cardinality(DOMAIN docs)

\* Mutant: the record after the last one that is wanted is taken too.
FullOver(docs) == Size(docs) > cap

Full(docs) == Size(docs) >= cap

Keep(docs, key, i) == [k \in DOMAIN docs \cup {key} |-> IF k = key THEN i ELSE docs[k]]

----------------------------------------------------------------------------
(* The records of a page. *)

\* Mutant: records without an identifier are numbered by failures.
KeyByFailure(g, i) == IF list[i].id = None THEN <<"_anon_", Len(g.failures)>> ELSE list[i].id

Key(g, i) == IF list[i].id = None THEN <<"_anon_", Size(g.docs)>> ELSE list[i].id

\* One record after those that gave g.
Take(g, i) ==
  IF Full(g.docs) \/ list[i].kind = "deleted" THEN g
  ELSE IF list[i].kind = "no metadata"
       THEN [g EXCEPT !.failures = Append(@, Key(g, i))]
       ELSE [g EXCEPT !.docs = Keep(@, Key(g, i), i)]

\* g and then n records from the place after "from" on
Gather(g, from, n) ==
  LET after[k \in 0..n] == IF k = 0 THEN g ELSE Take(after[k - 1], from + k) IN after[n]

Nothing == [docs |-> <<>>, failures |-> <<>>]

----------------------------------------------------------------------------
(* Requests and their answers. *)

\* A harvest that wants no records does not even ask.
BeginHarvest ==
  /\ harvesting = "no"
  /\ list' \in Lists /\ cap' \in Caps
  /\ token' = 0 /\ read' = 0 /\ strayed' = FALSE
  /\ collected' = <<>> /\ failures' = <<>>
  /\ harvesting' = IF cap' = 0 THEN "over" ELSE "yes"

\* The conditions of the loop.
GoesOn(docs, next) == IF next = None \/ Full(docs) THEN "over" ELSE "yes"

\* Only the rest of the list may be a smaller page.
PageFits(n) ==
  LET rest == Len(list) - token IN n <= rest /\ (n >= MinPage \/ n = rest)

\* Mutant: the records of a page are gathered afresh.
AnswerPageAfresh(n, ending) ==
  /\ harvesting = "yes" /\ token \notin {None, Blank} /\ PageFits(n)
  /\ LET g == Gather(Nothing, token, n)
         next == IF token + n < Len(list) THEN token + n ELSE ending
     IN
     /\ collected' = g.docs /\ failures' = g.failures
     /\ token' = next /\ read' = read + n
     /\ harvesting' = GoesOn(g.docs, next)
  /\ UNCHANGED <<registry, strayed>>

\* A page of n records.  The last one comes without a token, or with a blank one.
AnswerPage(n, ending) ==
  /\ harvesting = "yes" /\ token \notin {None, Blank} /\ PageFits(n)
  /\ LET g == Gather([docs |-> collected, failures |-> failures], token, n)
         next == IF token + n < Len(list) THEN token + n ELSE ending
     IN
     /\ collected' = g.docs /\ failures' = g.failures
     /\ token' = next /\ read' = read + n
     /\ harvesting' = GoesOn(g.docs, next)
  /\ UNCHANGED <<registry, strayed>>

\* Mutant: an answer that is not XML ends the list.
AnswerFaultQuietly ==
  /\ harvesting = "yes"
  /\ harvesting' = "over"
  /\ UNCHANGED <<registry, token, read, gathered, strayed>>

\* Mutant: after a failed answer the harvest starts over.
AnswerFaultAgain ==
  /\ harvesting = "yes"
  /\ token' = 0 /\ read' = 0 /\ collected' = <<>> /\ failures' = <<>>
  /\ UNCHANGED <<registry, strayed, harvesting>>

\* OAI-PMH errors, which is what a blank token gets, an empty body or no XML.
AnswerFault ==
  /\ harvesting = "yes"
  /\ failures' = Append(failures, Query)
  /\ harvesting' = "over"
  /\ UNCHANGED <<registry, token, read, collected, strayed>>

\* XML without records, token or errors, such as the page of a proxy: the HTTP
\* status is not looked at.
AnswerStrays ==
  /\ harvesting = "yes"
  /\ strayed' = TRUE /\ token' = None
  /\ harvesting' = "over"
  /\ UNCHANGED <<registry, read, gathered>>

Answer ==
  \/ \E n \in 0..MaxList, ending \in {None, Blank} : AnswerPage(n, ending)
  \/ AnswerFault \/ AnswerStrays

----------------------------------------------------------------------------
(* Properties. *)

HarvestTypeOK ==
  harvesting # "no" =>
    /\ list \in Lists /\ cap \in Caps /\ read \in 0..Len(list)
    /\ token \in 0..MaxList \cup {None, Blank}
    /\ Size(collected) <= cap /\ \A k \in DOMAIN collected : collected[k] \in 1..read
    /\ strayed \in BOOLEAN

\* What has been gathered does not depend on how the registry cuts its list.
PagingTransparent ==
  harvesting # "no" => [docs |-> collected, failures |-> failures] \in
    LET g == Gather(Nothing, 0, read) IN {g, [g EXCEPT !.failures = Append(@, Query)]}

\* As long as the cap is not reached, no live record is lost: one without an
\* identifier never takes the key of another, and of several with the same
\* identifier the last one counts.
NothingLost ==
  harvesting # "no" /\ ~Full(collected) =>
    \A i \in 1..read :
      list[i].kind = "live" =>
        \E k \in DOMAIN collected :
          \/ collected[k] = i
          \/ list[i].id # None /\ k = list[i].id /\ collected[k] > i

\* A harvest that reports no failure of the harvest has read the whole list, or
\* enough of it, unless some answer was not OAI-PMH at all.
CleanMeansWhole ==
  harvesting = "over" /\ ~strayed /\ Query \notin Range(failures) =>
    read = Len(list) \/ Full(collected)
=============================================================================
