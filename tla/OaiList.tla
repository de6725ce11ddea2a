------------------------------ MODULE OaiList ------------------------------
(***************************************************************************)
(* The lists that benson's OAI-PMH server delivers, page by page, to a     *)
(* client that follows its resumption tokens while the standards' files    *)
(* change (oai/server.py, oai/resumption.py, oai/dates.py,                 *)
(* registry/standards_store.py).  ListRecords and ListIdentifiers differ   *)
(* only in what they show of a record.                                     *)
(*                                                                         *)
(* The server keeps nothing between requests: every answer is computed     *)
(* from the files as they are then, and the token holds the request and an *)
(* offset into its result.  A lost answer therefore changes nothing, and   *)
(* is not modelled; neither is one that fails on a file that is half       *)
(* written.                                                                *)
(***************************************************************************)
EXTENDS Integers, FiniteSets

CONSTANTS
  Size,        \* bound on the records, numbered in the order of the list
  Synthetic,   \* the first ones are benson's own and never change
  PageSize,    \* OAI_MAX_RECORDS
  DayLength,   \* instants of a day
  MaxTime,     \* bound of the clock
  Instants,    \* those that the dates of requests name
  Epoch,       \* the instant at which 1970 begins
  None,        \* no file, no argument, no token
  NoDate       \* an argument that is not a date: no list is given for it

ASSUME ListAssumption ==
  /\ Size \in Nat /\ Synthetic \in 0..Size
  /\ PageSize \in Nat \ {0} /\ DayLength \in Nat \ {0} /\ MaxTime \in Nat
  /\ Instants \subseteq Int /\ Epoch \in Int
ASSUME NullAssumption ==
  /\ NoDate # None
  /\ None \notin [stamp : 0..MaxTime, deleted : BOOLEAN] /\ None \notin Int
  /\ {None, NoDate} \cap [gran : {"day", "seconds"}, at : Int] = {}

Records == 1..Size
Time == 0..MaxTime

VARIABLES
  files,       \* every record's file: its datestamp and whether it is deleted
  now,
  request,     \* what the client asked for
  token,       \* the resumption token that it got last
  state,       \* "idle", "listing", "complete" or "refused"
  got,         \* the records delivered to it
  again,       \* those delivered more than once
  steady,      \* the records that have matched since it asked
  entered, left   \* whether a record came to match, or ceased to, since then

client == <<request, token, state, got, again>>
watch == <<steady, entered, left>>
vars == <<files, now, client, watch>>

Entry == [stamp : Time, deleted : BOOLEAN]

\* Arguments "from" and "until".
Date == {d \in [gran : {"day", "seconds"}, at : Instants] :
           d.gran = "day" => d.at % DayLength = 0}
Argument == Date \cup {None, NoDate}

Day(t) == t \div DayLength

----------------------------------------------------------------------------
(* Which records match a request. *)

\* Mutant: a range may end before it begins.
BadDatesUnordered(from, until) ==
  \/ from # None /\ (from = NoDate \/ from.gran = "seconds")
  \/ until = NoDate
  \/ from # None /\ until # None /\ from.gran # until.gran

\* validate_from_until: "from" may only be a day.
BadDates(from, until) ==
  \/ from # None /\ (from = NoDate \/ from.gran = "seconds")
  \/ until = NoDate
  \/ from # None /\ until # None /\ (from.gran # until.gran \/ from.at > until.at)

BeforeEpoch(until) == until # None /\ until.at < Epoch

NotBefore(t, d) == IF d.gran = "day" THEN Day(t) >= Day(d.at) ELSE t >= d.at
NotAfter(t, d) == IF d.gran = "day" THEN Day(t) <= Day(d.at) ELSE t <= d.at

\* record_in_range
InRange(t, from, until) ==
  /\ from # None => NotBefore(t, from)
  /\ until # None => NotAfter(t, until)

\* _filter_records: the only set holds every record, and a deleted record
\* matches whatever the dates.
Matching(f, q) ==
  {i \in Records : f[i] # None /\ (f[i].deleted \/ InRange(f[i].stamp, q.from, q.until))}

\* The place of i in the list of S, counted from 0.
Rank(S, i) == Cardinality({j \in S : j < i})

\* _paginate
Page(S, cursor) == {i \in S : cursor <= Rank(S, i) /\ Rank(S, i) < cursor + PageSize}

\* Mutant: a last page that is full is taken for one with a successor.
NextAlways(S, cursor) == cursor + PageSize

\* Mutant: the next page leaves a record out.
NextSkips(S, cursor) ==
  IF cursor + PageSize >= Cardinality(S) THEN None ELSE cursor + PageSize + 1

\* Mutant: the next page repeats the last record.
NextOverlaps(S, cursor) ==
  IF cursor + PageSize >= Cardinality(S) THEN None ELSE cursor + PageSize - 1

\* Mutant: the token names the page that it comes with.
NextStays(S, cursor) ==
  IF cursor + PageSize >= Cardinality(S) THEN None ELSE cursor

NextCursor(S, cursor) ==
  IF cursor + PageSize >= Cardinality(S) THEN None ELSE cursor + PageSize

----------------------------------------------------------------------------
(* Requests. *)

\* Mutant: an empty page is no answer, whichever it is.
NoMatchAnywhere(S, cursor) == Page(S, cursor) = {}

\* An empty page is refused only as the first one.
NoMatch(S, cursor) == Page(S, cursor) = {} /\ cursor = 0

Refuse ==
  /\ state' = "refused" /\ token' = None
  /\ UNCHANGED <<got, again>>

\* The page at the cursor and a token for the rest of the list.
Answer(q, cursor) ==
  LET S == Matching(files, q)
      next == NextCursor(S, cursor)
  IN
  IF NoMatch(S, cursor)
  THEN Refuse
  ELSE /\ got' = got \cup Page(S, cursor)
       /\ again' = again \cup (got \cap Page(S, cursor))
       /\ token' = next
       /\ state' = IF next = None THEN "complete" ELSE "listing"

\* What may be wrong with the arguments besides the dates.
Faults == {"none", "repeated", "no format", "unknown format", "unknown set"}

Unbounded == [from |-> None, until |-> None]

\* A client asks for a list.
Ask(from, until, fault) ==
  LET q == [from |-> from, until |-> until]
      bad == fault # "none" \/ BadDates(from, until) \/ BeforeEpoch(until)
  IN
  /\ state = "idle"
  /\ IF bad THEN Refuse ELSE Answer(q, 0)
  /\ request' = IF bad THEN Unbounded ELSE q
  /\ steady' = IF bad THEN {} ELSE Matching(files, q)
  /\ UNCHANGED <<entered, left, files, now>>

\* A request with a token is decided by what the token says.
Resume ==
  /\ state = "listing"
  /\ Answer(request, token)
  /\ UNCHANGED <<request, files, now, watch>>

\* The client is done with a list.
Forget ==
  /\ state \in {"complete", "refused"}
  /\ state' = "idle" /\ token' = None /\ got' = {} /\ again' = {}
  /\ request' = Unbounded
  /\ steady' = {} /\ entered' = FALSE /\ left' = FALSE
  /\ UNCHANGED <<files, now>>

----------------------------------------------------------------------------
(* The files change. *)

Change(i, entry) ==
  LET before == Matching(files, request)
      after == Matching(files', request)
  IN
  /\ i > Synthetic
  /\ files' = [files EXCEPT ![i] = entry]
  /\ IF state = "listing"
     THEN /\ steady' = steady \cap after
          /\ entered' = (entered \/ ~(after \subseteq before))
          /\ left' = (left \/ ~(before \subseteq after))
     ELSE UNCHANGED watch
  /\ UNCHANGED <<now, client>>

AddStandard(i) ==
  files[i] = None /\ \E t \in 0..now : Change(i, [stamp |-> t, deleted |-> FALSE])

\* Revised, or marked deleted.
ReviseStandard(i) ==
  files[i] # None /\ \E d \in BOOLEAN : Change(i, [stamp |-> now, deleted |-> d])

RemoveStandard(i) == files[i] # None /\ Change(i, None)

Tick == now < MaxTime /\ now' = now + 1 /\ UNCHANGED <<files, client, watch>>

Init ==
  /\ files \in [Records -> [stamp : {0}, deleted : {FALSE}] \cup {None}]
  /\ \A i \in 1..Synthetic : files[i] # None
  /\ now = 0
  /\ request = Unbounded
  /\ token = None /\ state = "idle" /\ got = {} /\ again = {}
  /\ steady = {} /\ entered = FALSE /\ left = FALSE

Next ==
  \/ \E from, until \in Argument, fault \in Faults : Ask(from, until, fault)
  \/ Resume \/ Forget
  \/ \E i \in Records : AddStandard(i) \/ ReviseStandard(i) \/ RemoveStandard(i)
  \/ Tick

Spec == Init /\ [][Next]_vars

\* A client that has a token uses it.
FairSpec == Spec /\ WF_vars(Resume)

----------------------------------------------------------------------------
(* Properties. *)

\* A token continues the list at a place inside it, and only a client that is
\* listing has one.
TypeOK ==
  /\ files \in [Records -> Entry \cup {None}]
  /\ now \in Time
  /\ request \in [from : Argument, until : Argument]
  /\ state \in {"idle", "listing", "complete", "refused"}
  /\ token \in IF state = "listing" THEN 1..(Size - 1) ELSE {None}
  /\ got \subseteq Records /\ again \subseteq got
  /\ steady \subseteq Records /\ entered \in BOOLEAN /\ left \in BOOLEAN

\* A client that came to the end of the list has every record that matched its
\* request all the time, whatever was added or revised in between, unless a
\* record ceased to match, which moves the rest of the list behind its back.
Complete == state = "complete" /\ ~left => steady \subseteq got

\* No record is delivered twice, unless one came to match in between.
Once == ~entered => again = {}

\* A token that was given is accepted, also when the list has shrunk below it.
TokenAccepted == [][state = "listing" => state' # "refused"]_vars

\* Every list ends, even one that changes while it is read.
ListEnds == state = "listing" ~> state # "listing"
=============================================================================
