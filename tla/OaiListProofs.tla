--------------------------- MODULE OaiListProofs ---------------------------
(***************************************************************************)
(* Theorems about OaiList, for lists and pages of any size, any dates and  *)
(* any changes of the files while a client reads the list, and about what  *)
(* the probes of OaiVerbs are answered then.                               *)
(***************************************************************************)
EXTENDS OaiVerbs, FiniteSetTheorems, TLAPS

----------------------------------------------------------------------------
(* Places in a list. *)

LEMMA ListIsFinite ==
  ASSUME NEW S \in SUBSET Records
  PROVE  IsFiniteSet(S) /\ Cardinality(S) \in 0..Size
<1>1. IsFiniteSet(Records) /\ Cardinality(Records) = Size
  BY FS_Interval, ListAssumption DEF Records
<1>2. IsFiniteSet(S) /\ Cardinality(S) <= Size
  BY <1>1, FS_Subset
<1>3. QED
  BY <1>2, FS_CardinalityType, ListAssumption

\* A record of the list has a place inside it.
LEMMA RankInside ==
  ASSUME NEW S \in SUBSET Records, NEW i \in S
  PROVE  Rank(S, i) \in Nat /\ Rank(S, i) < Cardinality(S)
<1> DEFINE B == {j \in S : j < i}
<1>1. B \in SUBSET S /\ i \notin B
  BY ListAssumption DEF Records
<1>2. IsFiniteSet(S) /\ Cardinality(S) \in Nat /\ Cardinality(B) \in Nat
  BY <1>1, ListIsFinite, ListAssumption
<1>3. Cardinality(B) <= Cardinality(S) /\ Cardinality(B) # Cardinality(S)
  BY <1>1, <1>2, FS_Subset
<1>4. QED
  BY <1>2, <1>3 DEF Rank

\* Records that join a list push the others back, never forward.
LEMMA RankGrows ==
  ASSUME NEW S \in SUBSET Records, NEW T \in SUBSET Records, S \subseteq T, NEW i \in S
  PROVE  Rank(S, i) <= Rank(T, i)
<1> DEFINE B == {j \in S : j < i}
           C == {j \in T : j < i}
<1>1. B \in SUBSET C /\ C \in SUBSET Records
  OBVIOUS
<1>2. Cardinality(B) <= Cardinality(C)
  BY <1>1, ListIsFinite, FS_Subset
<1>3. QED
  BY <1>2 DEF Rank

LEMMA MatchingRecords == ASSUME NEW f, NEW q PROVE Matching(f, q) \in SUBSET Records
BY DEF Matching

LEMMA PageRecords ==
  ASSUME NEW S \in SUBSET Records, NEW cursor
  PROVE  Page(S, cursor) \in SUBSET Records
BY DEF Page

\* A token names a place inside the list that it belongs to.
LEMMA NextInside ==
  ASSUME NEW S \in SUBSET Records, NEW cursor \in Nat, NextCursor(S, cursor) # None
  PROVE  /\ NextCursor(S, cursor) = cursor + PageSize
         /\ NextCursor(S, cursor) \in 1..(Size - 1)
BY ListIsFinite, ListAssumption DEF NextCursor

----------------------------------------------------------------------------
(* The invariant. *)

M == Matching(files, request)

\* While a client is listing, its list still holds the records that matched all
\* the time; those it does not have are at or behind its token as long as no
\* record has left, and those it has are before it as long as none has joined.
Listing ==
  state = "listing" =>
    /\ steady \subseteq M
    /\ ~left => \A i \in steady \ got : token <= Rank(M, i)
    /\ ~entered => \A i \in got \cap M : Rank(M, i) < token

\* A client that has not asked has nothing.
Idle == state = "idle" => got = {} /\ again = {} /\ ~entered /\ ~left

ListInv == TypeOK /\ Listing /\ Idle /\ Complete /\ Once

LEMMA ListInit == Init => ListInv
<1> SUFFICES ASSUME Init PROVE ListInv
  OBVIOUS
<1>1. 0 \in Time
  BY ListAssumption DEF Time
<1>2. files \in [Records -> Entry \cup {None}]
  BY <1>1 DEF Init, Entry
<1>3. request \in [from : Argument, until : Argument]
  BY DEF Init, Unbounded, Argument
<1>4. TypeOK
  BY <1>1, <1>2, <1>3 DEF Init, TypeOK
<1>5. QED
  BY <1>4 DEF Init, ListInv, Listing, Idle, Complete, Once

\* One answer: the records of a page, and what the client holds afterwards.
LEMMA AnswerDelivers ==
  ASSUME NEW S \in SUBSET Records, NEW cursor \in Nat
  PROVE  /\ \A i \in S : i \in Page(S, cursor) <=>
                           cursor <= Rank(S, i) /\ Rank(S, i) < cursor + PageSize
         /\ NextCursor(S, cursor) = None => \A i \in S : Rank(S, i) < cursor + PageSize
<1>1. \A i \in S : Rank(S, i) \in Nat /\ Rank(S, i) < Cardinality(S)
  BY RankInside
<1>2. Cardinality(S) \in Nat
  BY ListIsFinite
<1>3. cursor + PageSize \in Nat /\ cursor + PageSize # None
  BY ListAssumption, NullAssumption
<1>4. NextCursor(S, cursor) = None => cursor + PageSize >= Cardinality(S)
  BY <1>3 DEF NextCursor
<1>5. QED
  BY <1>1, <1>2, <1>3, <1>4 DEF Page

\* What an answer does to a client, when it is not the refusal of a first page.
LEMMA AnswerInv ==
  ASSUME NEW q, NEW cursor \in Nat, Answer(q, cursor), ~NoMatch(Matching(files, q), cursor)
  PROVE  LET S == Matching(files, q) IN
         /\ Page(S, cursor) \subseteq Records
         /\ got' = got \cup Page(S, cursor)
         /\ again' = again \cup (got \cap Page(S, cursor))
         /\ \/ state' = "complete" /\ token' = None
               /\ \A i \in S : Rank(S, i) < cursor + PageSize
            \/ /\ state' = "listing" /\ token' = cursor + PageSize
               /\ token' \in 1..(Size - 1)
<1> DEFINE S == Matching(files, q)
           next == NextCursor(S, cursor)
<1>1. S \in SUBSET Records /\ Page(S, cursor) \in SUBSET Records
  BY MatchingRecords, PageRecords
<1>2. /\ got' = got \cup Page(S, cursor)
      /\ again' = again \cup (got \cap Page(S, cursor))
      /\ token' = next
      /\ state' = IF next = None THEN "complete" ELSE "listing"
  BY DEF Answer
<1>3. next = None => \A i \in S : Rank(S, i) < cursor + PageSize
  BY <1>1, AnswerDelivers
<1>4. next # None => next = cursor + PageSize /\ next \in 1..(Size - 1)
  BY <1>1, NextInside
<1> HIDE DEF S, next
<1>5. QED
  BY <1>1, <1>2, <1>3, <1>4 DEF S

----------------------------------------------------------------------------
(* Every action keeps the invariant. *)

LEMMA AskInv ==
  ASSUME ListInv, NEW from \in Argument, NEW until \in Argument, NEW fault \in Faults,
         Ask(from, until, fault)
  PROVE  ListInv'
<1> DEFINE q == [from |-> from, until |-> until]
           S == Matching(files, q)
<1>1. got = {} /\ again = {} /\ ~entered /\ ~left /\ state = "idle"
  BY DEF ListInv, Idle, Ask
<1>2. /\ files' = files /\ now' = now /\ entered' = entered /\ left' = left
  BY DEF Ask
<1>3. CASE Refuse /\ request' = Unbounded /\ steady' = {}
  <2>1. request' \in [from : Argument, until : Argument]
    BY <1>3 DEF Unbounded, Argument
  <2>2. QED
    BY <1>1, <1>2, <1>3, <2>1
       DEF ListInv, TypeOK, Refuse, Listing, Idle, Complete, Once
<1>4. CASE Answer(q, 0) /\ request' = q /\ steady' = S
  <2>1. S \in SUBSET Records /\ q \in [from : Argument, until : Argument]
    BY MatchingRecords
  <2>2. CASE NoMatch(S, 0)
    <3>1. Refuse
      BY <1>4, <2>2 DEF Answer
    <3>2. QED
      BY <1>1, <1>2, <1>4, <2>1, <3>1
         DEF ListInv, TypeOK, Refuse, Listing, Idle, Complete, Once
  <2>3. CASE ~NoMatch(S, 0)
    <3>1. /\ Page(S, 0) \subseteq Records
          /\ got' = Page(S, 0) /\ again' = {}
          /\ \/ state' = "complete" /\ token' = None
                /\ \A i \in S : Rank(S, i) < 0 + PageSize
             \/ /\ state' = "listing" /\ token' = 0 + PageSize
                /\ token' \in 1..(Size - 1)
      BY <1>1, <1>4, <2>3, AnswerInv
    <3>2. \A i \in S : i \in Page(S, 0) <=> Rank(S, i) < PageSize
      <4>1. PageSize \in Nat
        BY ListAssumption
      <4>2. \A i \in S : Rank(S, i) \in Nat
        BY <2>1, RankInside
      <4> HIDE DEF S, q
      <4>3. QED
        BY <4>1, <4>2 DEF Page
    <3>3. \A i \in S : Rank(S, i) \in Nat
      BY <2>1, RankInside
    <3>4. M' = S
      BY <1>2, <1>4 DEF M
    <3> HIDE DEF S, q
    <3>5. TypeOK'
      BY <1>1, <1>2, <1>4, <2>1, <3>1 DEF ListInv, TypeOK
    <3>6. Listing'
      BY <1>4, <3>1, <3>2, <3>3, <3>4, ListAssumption DEF Listing
    <3>7. (Idle /\ Complete /\ Once)'
      BY <1>4, <3>1, <3>2, <3>3, ListAssumption DEF Idle, Complete, Once
    <3>8. QED
      BY <3>5, <3>6, <3>7 DEF ListInv
  <2>4. QED
    BY <2>2, <2>3
<1>5. QED
  BY <1>3, <1>4 DEF Ask

\* A token is at least 1, so that its request is never refused.
LEMMA ResumeAnswers == ListInv /\ Resume => ~NoMatch(Matching(files, request), token) /\ token \in 1..(Size - 1)
BY DEF ListInv, TypeOK, Resume, NoMatch

LEMMA ResumeInv ==
  ASSUME ListInv, Resume
  PROVE  ListInv'
<1>1. /\ state = "listing" /\ Answer(request, token) /\ request' = request
      /\ files' = files /\ now' = now
      /\ steady' = steady /\ entered' = entered /\ left' = left
  BY DEF Resume, watch
<1>2. ~NoMatch(M, token) /\ token \in 1..(Size - 1) /\ token \in Nat
  BY ResumeAnswers, ListAssumption DEF M
<1>3. M \in SUBSET Records /\ M' = M
  BY <1>1, MatchingRecords DEF M
<1>4. /\ Page(M, token) \subseteq Records
      /\ got' = got \cup Page(M, token)
      /\ again' = again \cup (got \cap Page(M, token))
      /\ \/ state' = "complete" /\ token' = None
            /\ \A i \in M : Rank(M, i) < token + PageSize
         \/ /\ state' = "listing" /\ token' = token + PageSize
            /\ token' \in 1..(Size - 1)
  BY <1>1, <1>2, AnswerInv DEF M
<1>5. /\ \A i \in M : i \in Page(M, token) <=> token <= Rank(M, i) /\ Rank(M, i) < token + PageSize
      /\ \A i \in M : Rank(M, i) \in Nat
      /\ Page(M, token) \subseteq M
  BY <1>2, <1>3, AnswerDelivers, RankInside DEF Page
<1>6. /\ steady \subseteq M
      /\ ~left => \A i \in steady \ got : token <= Rank(M, i)
      /\ ~entered => \A i \in got \cap M : Rank(M, i) < token
  BY <1>1 DEF ListInv, Listing
<1>7. TypeOK'
  BY <1>1, <1>4 DEF ListInv, TypeOK
<1>8. Once'
  <2>1. ~entered => got \cap Page(M, token) = {}
    BY <1>2, <1>5, <1>6
  <2>2. QED
    BY <1>1, <1>4, <2>1 DEF ListInv, Once
<1>9. Complete'
  BY <1>1, <1>4, <1>5, <1>6 DEF Complete
<1>10. Listing'
  BY <1>1, <1>2, <1>3, <1>4, <1>5, <1>6, ListAssumption DEF Listing
<1>11. QED
  BY <1>4, <1>7, <1>8, <1>9, <1>10 DEF ListInv, Idle

LEMMA ForgetInv == ListInv /\ Forget => ListInv'
<1> SUFFICES ASSUME ListInv, Forget PROVE ListInv'
  OBVIOUS
<1>1. request' \in [from : Argument, until : Argument]
  BY DEF Forget, Unbounded, Argument
<1>2. TypeOK'
  BY <1>1 DEF ListInv, TypeOK, Forget
<1>3. QED
  BY <1>2 DEF ListInv, Forget, Listing, Idle, Complete, Once

\* A change of the files keeps or moves places, and is noted when it moves one
\* out of the list or into it.
LEMMA ChangeInv ==
  ASSUME ListInv, NEW i \in Records, NEW entry \in Entry \cup {None}, Change(i, entry)
  PROVE  ListInv'
<1>1. /\ files' = [files EXCEPT ![i] = entry] /\ now' = now
      /\ request' = request /\ token' = token /\ state' = state
      /\ got' = got /\ again' = again
  BY DEF Change, client
<1>2. files' \in [Records -> Entry \cup {None}]
  BY <1>1 DEF ListInv, TypeOK
<1>3. CASE state = "listing"
  <2>1. M' = Matching(files', request) /\ M \in SUBSET Records /\ M' \in SUBSET Records
    BY <1>1, MatchingRecords DEF M
  <2>2. /\ steady' = steady \cap M'
        /\ entered' = (entered \/ ~(M' \subseteq M))
        /\ left' = (left \/ ~(M \subseteq M'))
    BY <1>3, <2>1 DEF Change, M
  <2>3. /\ ~left' => \A j \in M : j \in M' /\ Rank(M, j) <= Rank(M', j)
        /\ ~entered' => \A j \in M' : j \in M /\ Rank(M', j) <= Rank(M, j)
    BY <2>1, <2>2, RankGrows
  <2>4. \A j \in Records : Rank(M, j) \in Int /\ Rank(M', j) \in Int
    <3>1. ASSUME NEW S \in SUBSET Records, NEW j \in Records
          PROVE  Rank(S, j) \in Int
      <4>1. {k \in S : k < j} \in SUBSET Records
        OBVIOUS
      <4>2. QED
        BY <4>1, ListIsFinite, ListAssumption DEF Rank
    <3>2. QED
      BY <2>1, <3>1
  <2>5. TypeOK'
    BY <1>1, <1>2, <2>2 DEF ListInv, TypeOK
  <2>6. token \in Int /\ steady \subseteq M /\ steady \subseteq Records /\ got \subseteq Records
        /\ (~left => \A j \in steady \ got : token <= Rank(M, j))
        /\ (~entered => \A j \in got \cap M : Rank(M, j) < token)
    BY <1>3, ListAssumption DEF ListInv, TypeOK, Listing
  <2>7. Listing'
    <3>1. ASSUME ~left' PROVE \A j \in steady' \ got' : token' <= Rank(M', j)
      <4>1. ~left
        BY <2>2, <3>1, Zenon
      <4>2. \A j \in steady \ got : token <= Rank(M, j) /\ Rank(M, j) <= Rank(M', j)
        BY <2>3, <2>6, <3>1, <4>1
      <4>3. \A j \in steady \ got : Rank(M, j) \in Int /\ Rank(M', j) \in Int
        BY <2>4, <2>6
      <4>4. \A j \in steady \ got : token <= Rank(M', j)
        BY <2>6, <4>2, <4>3
      <4>5. QED
        BY <1>1, <2>2, <4>4
    <3>2. ASSUME ~entered' PROVE \A j \in got' \cap M' : Rank(M', j) < token'
      <4>1. ~entered
        BY <2>2, <3>2, Zenon
      <4>2. \A j \in got \cap M' : Rank(M, j) < token /\ Rank(M', j) <= Rank(M, j)
        BY <2>3, <2>6, <3>2, <4>1
      <4>3. \A j \in got \cap M' : Rank(M, j) \in Int /\ Rank(M', j) \in Int
        BY <2>4, <2>6
      <4>4. \A j \in got \cap M' : Rank(M', j) < token
        BY <2>6, <4>2, <4>3
      <4>5. QED
        BY <1>1, <4>4
    <3>3. QED
      BY <2>2, <3>1, <3>2 DEF Listing
  <2>8. QED
    BY <1>1, <1>3, <2>2, <2>5, <2>7 DEF ListInv, Idle, Complete, Once
<1>4. CASE state # "listing"
  <2>1. steady' = steady /\ entered' = entered /\ left' = left
    BY <1>4 DEF Change, watch
  <2>2. TypeOK'
    BY <1>1, <1>2, <2>1 DEF ListInv, TypeOK
  <2>3. QED
    BY <1>1, <1>4, <2>1, <2>2 DEF ListInv, Listing, Idle, Complete, Once
<1>5. QED
  BY <1>3, <1>4

LEMMA TickInv == ListInv /\ Tick => ListInv'
<1> SUFFICES ASSUME ListInv, Tick PROVE ListInv'
  OBVIOUS
<1>1. now' \in Time /\ files' = files /\ UNCHANGED client /\ UNCHANGED watch
  BY ListAssumption DEF Tick, ListInv, TypeOK, Time
<1>2. QED
  BY <1>1 DEF client, watch, ListInv, TypeOK, Listing, Idle, Complete, Once, M

LEMMA StepInv == ListInv /\ [Next]_vars => ListInv'
<1> SUFFICES ASSUME ListInv, [Next]_vars PROVE ListInv'
  OBVIOUS
<1>1. ASSUME NEW from \in Argument, NEW until \in Argument, NEW fault \in Faults,
             Ask(from, until, fault)
      PROVE  ListInv'
  BY <1>1, AskInv
<1>2. CASE Resume
  BY <1>2, ResumeInv
<1>3. CASE Forget
  BY <1>3, ForgetInv
<1>4. ASSUME NEW i \in Records, AddStandard(i) \/ ReviseStandard(i) \/ RemoveStandard(i)
      PROVE  ListInv'
  <2>1. now \in Time
    BY DEF ListInv, TypeOK
  <2>2. PICK entry \in Entry \cup {None} : Change(i, entry)
    <3>1. CASE AddStandard(i)
      <4>1. PICK t \in 0..now : Change(i, [stamp |-> t, deleted |-> FALSE])
        BY <3>1 DEF AddStandard
      <4>2. t \in Time
        BY <2>1, ListAssumption DEF Time
      <4>3. QED
        BY <4>1, <4>2 DEF Entry
    <3>2. CASE ReviseStandard(i)
      BY <2>1, <3>2 DEF ReviseStandard, Entry
    <3>3. CASE RemoveStandard(i)
      BY <3>3 DEF RemoveStandard
    <3>4. QED
      BY <1>4, <3>1, <3>2, <3>3
  <2>3. QED
    BY <2>2, ChangeInv
<1>5. CASE Tick
  BY <1>5, TickInv
<1>6. CASE UNCHANGED vars
  BY <1>6 DEF vars, client, watch, ListInv, TypeOK, Listing, Idle, Complete, Once, M
<1>7. QED
  BY <1>1, <1>2, <1>3, <1>4, <1>5, <1>6 DEF Next

LEMMA ListInvariant == Spec => []ListInv
BY ListInit, StepInv, PTL DEF Spec

----------------------------------------------------------------------------
(* Theorems. *)

\* The server's tokens and the client's records stay what they are meant to be.
THEOREM OaiListTyped == Spec => []TypeOK
<1>1. ListInv => TypeOK
  BY DEF ListInv
<1>2. QED
  BY <1>1, ListInvariant, PTL

\* A client that reads a list to its end misses nothing of what was in it all
\* the time, unless a record left the list meanwhile.
THEOREM OaiListComplete == Spec => []Complete
<1>1. ListInv => Complete
  BY DEF ListInv
<1>2. QED
  BY <1>1, ListInvariant, PTL

\* It gets no record twice, unless one joined the list meanwhile.
THEOREM OaiListOnce == Spec => []Once
<1>1. ListInv => Once
  BY DEF ListInv
<1>2. QED
  BY <1>1, ListInvariant, PTL

\* No token that the server gave is refused.
THEOREM OaiListTokenAccepted == Spec => TokenAccepted
<1>1. ListInv /\ [Next]_vars => [state = "listing" => state' # "refused"]_vars
  <2> SUFFICES ASSUME ListInv, Next, state = "listing" PROVE state' # "refused"
    OBVIOUS
  <2>1. CASE Resume
    <3>1. Answer(request, token) /\ token \in Nat
      BY <2>1, ResumeAnswers, ListAssumption DEF Resume
    <3>2. QED
      BY <2>1, <3>1, ResumeAnswers, AnswerInv
  <2>2. CASE Tick
    BY <2>2 DEF Tick, client
  <2>3. ASSUME NEW i \in Records, AddStandard(i) \/ ReviseStandard(i) \/ RemoveStandard(i)
        PROVE  state' # "refused"
    BY <2>3 DEF AddStandard, ReviseStandard, RemoveStandard, Change, client
  <2>4. QED
    BY <2>1, <2>2, <2>3 DEF Next, Ask, Forget
<1>2. QED
  BY <1>1, ListInvariant, PTL DEF Spec, TokenAccepted

----------------------------------------------------------------------------
(* The probes of phase 1. *)

\* The files as the probes meet them: the first record is always there.
Served(f) == f \in [Records -> Entry \cup {None}] /\ f[1] # None

LEMMA PlainFields ==
  ASSUME NEW verb
  PROVE  /\ Plain(verb).verb = verb /\ Plain(verb).prefix = None /\ Plain(verb).set = None
         /\ Plain(verb).from = None /\ Plain(verb).until = None /\ Plain(verb).token = None
         /\ Plain(verb).identifier = None /\ Plain(verb).twice = FALSE
         /\ Plain(verb).other = FALSE
BY AbsentAssumption DEF Plain

LEMMA DcFields ==
  ASSUME NEW verb
  PROVE  /\ Dc(verb).verb = verb /\ Dc(verb).prefix = "oai_dc" /\ Dc(verb).set = None
         /\ Dc(verb).from = None /\ Dc(verb).until = None /\ Dc(verb).token = None
         /\ Dc(verb).identifier = None /\ Dc(verb).twice = FALSE
BY AbsentAssumption DEF Dc, Plain

LEMMA TextsAreNot == \A text \in Texts : text # None /\ text # Absent
BY TextsAssumption, AbsentAssumption

LEMMA DatesOfProbes ==
  /\ ParsedDate(None) = None
  /\ ParsedDate("2002-01-01T00:00:00Z") = [gran |-> "seconds", at |-> -1]
  /\ ParsedDate("2001-01-01T00:00:00Z") = [gran |-> "seconds", at |-> -2]
  /\ ParsedDate("2001-01-01") = [gran |-> "day", at |-> -2]
  /\ ParsedDate("2000-01-01") = [gran |-> "day", at |-> -4]
  /\ ParsedDate("1999-01-01") = [gran |-> "day", at |-> -6]
  /\ ParsedDate("1969-01-01T00:00:00Z") = [gran |-> "seconds", at |-> -10]
  /\ ParsedDate("2001") = NoDate
BY TextsAreNot DEF ParsedDate, Texts

LEMMA DatesAreNot ==
  ASSUME NEW gran \in {"day", "seconds"}, NEW at \in Int
  PROVE  [gran |-> gran, at |-> at] \notin {None, NoDate}
BY NullAssumption

LEMMA DayGrows ==
  ASSUME NEW t \in Nat
  PROVE  Day(t) >= Day(-2)
BY ListAssumption DEF Day

\* A list that the first record is in has a first page.
LEMMA FirstPage ==
  ASSUME NEW S \in SUBSET Records, 1 \in S
  PROVE  ~NoMatch(S, 0)
<1>1. {j \in S : j < 1} = {}
  <2>1. \A j \in Records : ~(j < 1)
    BY ListAssumption DEF Records
  <2>2. QED
    BY <2>1
<1>2. Rank(S, 1) = 0
  BY <1>1, FS_EmptySet DEF Rank
<1>3. 1 \in Page(S, 0)
  BY <1>2, ListAssumption DEF Page
<1>4. QED
  BY <1>3 DEF NoMatch

\* A list request without a fault that the first record matches.
LEMMA ListServed ==
  ASSUME NEW f, Served(f), NEW q, ListFault(q) = {}, ParsedDate(q.until) = None,
         ParsedDate(q.from) \in {None, [gran |-> "day", at |-> -2]}
  PROVE  ListCodes(f, q) = {}
<1> DEFINE r == [from |-> ParsedDate(q.from), until |-> ParsedDate(q.until)]
<1>1. 1 \in Records /\ f[1] \in Entry
  BY ServerAssumption, ListAssumption DEF Served, Records
<1>2. f[1].stamp \in Nat
  BY <1>1, ListAssumption DEF Entry, Time
<1>3. InRange(f[1].stamp, r.from, r.until)
  <2>1. CASE r.from = None
    BY <2>1 DEF InRange
  <2>2. CASE r.from = [gran |-> "day", at |-> -2]
    BY <1>2, <2>2, DayGrows DEF InRange, NotBefore
  <2>3. QED
    BY <2>1, <2>2
<1> HIDE DEF r
<1>4. 1 \in Matching(f, r)
  BY <1>1, <1>3 DEF Matching, Served
<1>5. ~NoMatch(Matching(f, r), 0)
  BY <1>4, FirstPage, MatchingRecords
<1>6. QED
  BY <1>5 DEF ListCodes, r

\* A list request without dates.
LEMMA PlainListServed ==
  ASSUME NEW f, Served(f), NEW q, q.prefix = "oai_dc", q.set \in {None, "ivo_managed"},
         q.token = None, q.twice = FALSE, q.from = None, q.until = None
  PROVE  ListCodes(f, q) = {}
<1>1. ~BadDates(None, None) /\ ~BeforeEpoch(None)
  BY NullAssumption DEF BadDates, BeforeEpoch
<1>2. BadPrefix(q) = {}
  BY TextsAreNot DEF BadPrefix, Formats, Texts
<1>3. ListFault(q) = {}
  BY <1>1, <1>2, DatesOfProbes, AbsentAssumption DEF ListFault
<1>4. QED
  BY <1>3, DatesOfProbes, ListServed

\* The codes of a list request with a fault, and of any.
LEMMA ListRefused ==
  ASSUME NEW f, NEW q, ListFault(q) # {}
  PROVE  ListCodes(f, q) = ListFault(q)
BY DEF ListCodes

LEMMA ListWithin ==
  ASSUME NEW f, NEW q, ListFault(q) \subseteq BadDateCodes
  PROVE  ListCodes(f, q) \subseteq BadDateCodes
BY DEF ListCodes, BadDateCodes

\* Both list verbs.
LEMMA ListCasesPass ==
  ASSUME NEW f, Served(f), NEW verb \in {"ListIdentifiers", "ListRecords"},
         NEW c \in ListCases(verb)
  PROVE  Acceptable(Codes(f, c.query), c.expect, c.ignore, c.optional)
<1>0. ASSUME NEW q, q.verb = verb PROVE Codes(f, q) = ListCodes(f, q)
  BY <1>0 DEF Codes
<1>1. CASE c = Case(Dc(verb), {})
  <2> DEFINE q == Dc(verb)
  <2>1. /\ q.verb = verb /\ q.prefix = "oai_dc" /\ q.set = None /\ q.token = None
        /\ q.twice = FALSE /\ q.from = None /\ q.until = None
    BY DcFields
  <2> HIDE DEF q
  <2>2. Codes(f, q) = {}
    BY <1>0, <2>1, PlainListServed
  <2>3. QED
    BY <1>1, <2>2 DEF Case, Acceptable, q
<1>2. CASE c = Case(Plain(verb), {"badArgument"})
  <2>1. ListFault(Plain(verb)) = {"badArgument"}
    BY PlainFields, AbsentAssumption DEF ListFault, BadPrefix
  <2>2. Codes(f, Plain(verb)) = {"badArgument"}
    BY <1>0, <2>1, PlainFields, ListRefused
  <2>3. QED
    BY <1>2, <2>2 DEF Case, Acceptable
<1>3. CASE c = Tolerant([Dc(verb) EXCEPT !.from = "2000-01-01", !.until = "2000-01-01"],
                        BadDateCodes)
  <2> DEFINE q == [Dc(verb) EXCEPT !.from = "2000-01-01", !.until = "2000-01-01"]
  <2>1. /\ q.verb = verb /\ q.prefix = "oai_dc" /\ q.set = None /\ q.token = None
        /\ q.twice = FALSE /\ q.from = "2000-01-01" /\ q.until = "2000-01-01"
    BY AbsentAssumption DEF Dc, Plain
  <2> HIDE DEF q
  <2>2. ListFault(q) \subseteq BadDateCodes
    BY <2>1, DatesOfProbes, AbsentAssumption
       DEF ListFault, BadPrefix, Formats, BadDateCodes
  <2>3. Codes(f, q) \subseteq BadDateCodes
    BY <1>0, <2>1, <2>2, ListWithin
  <2>4. c.query = q /\ c.expect = {} /\ c.optional = BadDateCodes /\ BadDateCodes # {}
    BY <1>3 DEF Tolerant, q, BadDateCodes
  <2>5. QED
    BY <2>3, <2>4 DEF Acceptable
<1>4. CASE c = Case([Dc(verb) EXCEPT !.set = "really_wrong_set", !.from = "some_random_date",
                                     !.until = "some_random_date"],
                    {"badArgument", "noSetHierarchy"})
  <2> DEFINE q == [Dc(verb) EXCEPT !.set = "really_wrong_set", !.from = "some_random_date",
                                   !.until = "some_random_date"]
  <2>1. /\ q.verb = verb /\ q.prefix = "oai_dc" /\ q.token = None /\ q.twice = FALSE
        /\ q.set = "really_wrong_set"
    BY AbsentAssumption DEF Dc, Plain
  <2> HIDE DEF q
  <2>2. ListFault(q) = {"noSetHierarchy"}
    BY <2>1, TextsAreNot, AbsentAssumption DEF ListFault, BadPrefix, Formats, Texts
  <2>3. Codes(f, q) = {"noSetHierarchy"}
    BY <1>0, <2>1, <2>2, ListRefused
  <2>4. QED
    BY <1>4, <2>3 DEF Case, Acceptable, q
<1>5. CASE c = Case([Dc(verb) EXCEPT !.from = "2001-01-01", !.until = "2002-01-01T00:00:00Z"],
                    BadDateCodes)
  <2> DEFINE q == [Dc(verb) EXCEPT !.from = "2001-01-01", !.until = "2002-01-01T00:00:00Z"]
  <2>1. /\ q.verb = verb /\ q.prefix = "oai_dc" /\ q.token = None /\ q.twice = FALSE
        /\ q.set = None /\ q.from = "2001-01-01" /\ q.until = "2002-01-01T00:00:00Z"
    BY AbsentAssumption DEF Dc, Plain
  <2> HIDE DEF q
  <2>2. BadDates(ParsedDate(q.from), ParsedDate(q.until))
    <3>1. ParsedDate(q.from) \notin {None, NoDate} /\ ParsedDate(q.until) \notin {None, NoDate}
      BY <2>1, DatesOfProbes, DatesAreNot
    <3>2. ParsedDate(q.from).gran = "day" /\ ParsedDate(q.until).gran = "seconds"
      BY <2>1, DatesOfProbes
    <3>3. QED
      BY <3>1, <3>2 DEF BadDates
  <2>3. ListFault(q) = {"badArgument"}
    BY <2>1, <2>2, AbsentAssumption DEF ListFault, BadPrefix, Formats
  <2>4. Codes(f, q) = {"badArgument"}
    BY <1>0, <2>1, <2>3, ListRefused
  <2>5. QED
    BY <1>5, <2>4 DEF Case, Acceptable, BadDateCodes, q
<1>6. CASE c = [Case([Plain(verb) EXCEPT !.token = "junktoken"], {"badResumptionToken"})
                  EXCEPT !.ignore = {"badArgument"}]
  <2> DEFINE q == [Plain(verb) EXCEPT !.token = "junktoken"]
  <2>1. q.verb = verb /\ q.token = "junktoken" /\ q.twice = FALSE
    BY DEF Plain
  <2>2. c.query = q /\ c.expect = {"badResumptionToken"}
    BY <1>6 DEF Case
  <2> HIDE DEF q
  <2>3. ListFault(q) = {"badResumptionToken"}
    BY <2>1, TextsAreNot DEF ListFault, Texts
  <2>4. Codes(f, q) = {"badResumptionToken"}
    BY <1>0, <2>1, <2>3, ListRefused
  <2>5. QED
    BY <2>2, <2>4 DEF Acceptable
<1>7. QED
  BY <1>1, <1>2, <1>3, <1>4, <1>5, <1>6 DEF ListCases

\* ListIdentifiers alone.
LEMMA IdentifierCasesPass ==
  ASSUME NEW f, Served(f), NEW c \in IdentifierCases
  PROVE  Acceptable(Codes(f, c.query), c.expect, c.ignore, c.optional)
<1> DEFINE L == Dc("ListIdentifiers")
<1>0. ASSUME NEW q, q.verb = "ListIdentifiers" PROVE Codes(f, q) = ListCodes(f, q)
  BY <1>0 DEF Codes
<1>1. CASE c = Case([L EXCEPT !.set = "ivo_managed"], {})
  <2> DEFINE q == [L EXCEPT !.set = "ivo_managed"]
  <2>1. /\ q.verb = "ListIdentifiers" /\ q.prefix = "oai_dc" /\ q.set = "ivo_managed"
        /\ q.token = None /\ q.twice = FALSE /\ q.from = None /\ q.until = None
    BY AbsentAssumption DEF Dc, Plain
  <2> HIDE DEF q
  <2>2. Codes(f, q) = {}
    BY <1>0, <2>1, PlainListServed
  <2>3. QED
    BY <1>1, <2>2 DEF Case, Acceptable, q
<1>2. CASE c = Case([L EXCEPT !.from = "2000-01-01", !.until = "1999-01-01"], BadDateCodes)
  <2> DEFINE q == [L EXCEPT !.from = "2000-01-01", !.until = "1999-01-01"]
  <2>1. /\ q.verb = "ListIdentifiers" /\ q.token = None
        /\ q.prefix = "oai_dc" /\ q.set = None /\ q.twice = FALSE
        /\ q.from = "2000-01-01" /\ q.until = "1999-01-01"
    BY AbsentAssumption DEF Dc, Plain
  <2> HIDE DEF q
  <2>2. BadDates(ParsedDate(q.from), ParsedDate(q.until))
    <3>1. ParsedDate(q.from) \notin {None, NoDate} /\ ParsedDate(q.until) \notin {None, NoDate}
      BY <2>1, DatesOfProbes, DatesAreNot
    <3>2. ParsedDate(q.from).at = -4 /\ ParsedDate(q.until).at = -6
      BY <2>1, DatesOfProbes
    <3>3. QED
      BY <3>1, <3>2 DEF BadDates
  <2>3. ListFault(q) = {"badArgument"}
    BY <2>1, <2>2, AbsentAssumption DEF ListFault, BadPrefix, Formats
  <2>4. Codes(f, q) = {"badArgument"}
    BY <1>0, <2>1, <2>3, ListRefused
  <2>5. QED
    BY <1>2, <2>4 DEF Case, Acceptable, BadDateCodes, q
<1>3. CASE c = Case([L EXCEPT !.prefix = "illegal_mdp"], {"cannotDisseminateFormat", "badArgument"})
  <2> DEFINE q == [L EXCEPT !.prefix = "illegal_mdp"]
  <2>1. /\ q.verb = "ListIdentifiers" /\ q.token = None
        /\ q.prefix = "illegal_mdp" /\ q.twice = FALSE
    BY AbsentAssumption DEF Dc, Plain
  <2> HIDE DEF q
  <2>2. BadPrefix(q) = {"cannotDisseminateFormat"}
    BY <2>1, TextsAreNot DEF BadPrefix, Formats, Texts
  <2>3. ListFault(q) = {"cannotDisseminateFormat"}
    BY <2>1, <2>2, AbsentAssumption DEF ListFault
  <2>4. Codes(f, q) = {"cannotDisseminateFormat"}
    BY <1>0, <2>1, <2>3, ListRefused
  <2>5. QED
    BY <1>3, <2>4 DEF Case, Acceptable, BadDateCodes, q
<1>4. CASE c = Case([L EXCEPT !.twice = TRUE], {"badArgument"})
  <2> DEFINE q == [L EXCEPT !.twice = TRUE]
  <2>1. /\ q.verb = "ListIdentifiers" /\ q.token = None
        /\ q.twice = TRUE
    BY AbsentAssumption DEF Dc, Plain
  <2> HIDE DEF q
  <2>3. ListFault(q) = {"badArgument"}
    BY <2>1 DEF ListFault
  <2>4. Codes(f, q) = {"badArgument"}
    BY <1>0, <2>1, <2>3, ListRefused
  <2>5. QED
    BY <1>4, <2>4 DEF Case, Acceptable, BadDateCodes, q
<1>5. CASE c = Case([L EXCEPT !.from = "2001-01-01"], {})
  <2> DEFINE q == [L EXCEPT !.from = "2001-01-01"]
  <2>1. /\ q.verb = "ListIdentifiers" /\ q.prefix = "oai_dc" /\ q.set = None
        /\ q.token = None /\ q.twice = FALSE /\ q.from = "2001-01-01" /\ q.until = None
    BY AbsentAssumption DEF Dc, Plain
  <2> HIDE DEF q
  <2>2. ParsedDate(q.from) = [gran |-> "day", at |-> -2] /\ ParsedDate(q.until) = None
    BY <2>1, DatesOfProbes
  <2>3. ~BadDates(ParsedDate(q.from), ParsedDate(q.until)) /\ ~BeforeEpoch(ParsedDate(q.until))
    BY <2>2, DatesAreNot, NullAssumption DEF BadDates, BeforeEpoch
  <2>4. BadPrefix(q) = {}
    BY <2>1, TextsAreNot DEF BadPrefix, Formats, Texts
  <2>5. ListFault(q) = {}
    BY <2>1, <2>3, <2>4, AbsentAssumption DEF ListFault
  <2>6. Codes(f, q) = {}
    BY <1>0, <2>1, <2>2, <2>5, ListServed
  <2>7. QED
    BY <1>5, <2>6 DEF Case, Acceptable, q
<1>6. CASE c = Tolerant([L EXCEPT !.from = "2001-01-01T00:00:00Z"], {"badArgument"})
  <2> DEFINE q == [L EXCEPT !.from = "2001-01-01T00:00:00Z"]
  <2>1. /\ q.verb = "ListIdentifiers" /\ q.token = None
        /\ q.prefix = "oai_dc" /\ q.set = None /\ q.twice = FALSE
        /\ q.from = "2001-01-01T00:00:00Z"
    BY AbsentAssumption DEF Dc, Plain
  <2> HIDE DEF q
  <2>2. BadDates(ParsedDate(q.from), ParsedDate(q.until))
    <3>1. ParsedDate(q.from).gran = "seconds" /\ ParsedDate(q.from) # None
      BY <2>1, DatesOfProbes, DatesAreNot
    <3>2. QED
      BY <3>1 DEF BadDates
  <2>3. ListFault(q) = {"badArgument"}
    BY <2>1, <2>2, AbsentAssumption DEF ListFault, BadPrefix, Formats
  <2>4. Codes(f, q) = {"badArgument"}
    BY <1>0, <2>1, <2>3, ListRefused
  <2>5. QED
    BY <1>6, <2>4 DEF Tolerant, Acceptable, BadDateCodes, q
<1>7. CASE c = Case([L EXCEPT !.from = "2001"], {"badArgument"})
  <2> DEFINE q == [L EXCEPT !.from = "2001"]
  <2>1. /\ q.verb = "ListIdentifiers" /\ q.token = None
        /\ q.prefix = "oai_dc" /\ q.set = None /\ q.twice = FALSE
        /\ q.from = "2001"
    BY AbsentAssumption DEF Dc, Plain
  <2> HIDE DEF q
  <2>2. BadDates(ParsedDate(q.from), ParsedDate(q.until))
    BY <2>1, DatesOfProbes, NullAssumption DEF BadDates
  <2>3. ListFault(q) = {"badArgument"}
    BY <2>1, <2>2, AbsentAssumption DEF ListFault, BadPrefix, Formats
  <2>4. Codes(f, q) = {"badArgument"}
    BY <1>0, <2>1, <2>3, ListRefused
  <2>5. QED
    BY <1>7, <2>4 DEF Case, Acceptable, BadDateCodes, q
<1>8. QED
  BY <1>1, <1>2, <1>3, <1>4, <1>5, <1>6, <1>7 DEF IdentifierCases

\* Records up to 1969: nothing matches, not even what is deleted.
LEMMA EpochCasePasses ==
  ASSUME NEW f, NEW c,
         c = Case([Dc("ListRecords") EXCEPT !.until = "1969-01-01T00:00:00Z"], BadDateCodes)
  PROVE  Acceptable(Codes(f, c.query), c.expect, c.ignore, c.optional)
<1> DEFINE q == [Dc("ListRecords") EXCEPT !.until = "1969-01-01T00:00:00Z"]
<1>1. /\ q.verb = "ListRecords" /\ q.prefix = "oai_dc" /\ q.set = None /\ q.token = None
      /\ q.twice = FALSE /\ q.from = None /\ q.until = "1969-01-01T00:00:00Z"
  BY AbsentAssumption DEF Dc, Plain
<1>2. c.query = q /\ c.expect = BadDateCodes
  BY DEF Case
<1> HIDE DEF q
<1>3. ParsedDate(q.from) = None /\ ParsedDate(q.until) = [gran |-> "seconds", at |-> -10]
  BY <1>1, DatesOfProbes
<1>4. ~BadDates(ParsedDate(q.from), ParsedDate(q.until)) /\ BeforeEpoch(ParsedDate(q.until))
  BY <1>3, DatesAreNot, ServerAssumption DEF BadDates, BeforeEpoch
<1>5. BadPrefix(q) = {}
  BY <1>1, TextsAreNot DEF BadPrefix, Formats, Texts
<1>6. ListFault(q) = {"noRecordsMatch"}
  BY <1>1, <1>4, <1>5, AbsentAssumption DEF ListFault
<1>7. Codes(f, q) = ListCodes(f, q)
  BY <1>1 DEF Codes
<1>8. Codes(f, q) = {"noRecordsMatch"}
  BY <1>6, <1>7, ListRefused
<1>9. QED
  BY <1>2, <1>8 DEF Acceptable, BadDateCodes

\* No record has an identifier of the probes.
LEMMA WrongIdUnknown ==
  ASSUME NEW f, NEW identifier \in {"really_wrong_id", "invalid\\\"id"}
  PROVE  ~Known(f, identifier)
<1>1. identifier \in Texts
  BY DEF Texts
<1>2. QED
  BY <1>1, ServerAssumption DEF Known

LEMMA WrongIdRefused ==
  ASSUME NEW f, NEW identifier \in {"really_wrong_id", "invalid\\\"id"}, NEW c,
         c = Case([Dc("GetRecord") EXCEPT !.identifier = identifier], BadIdCodes)
  PROVE  Acceptable(Codes(f, c.query), c.expect, c.ignore, c.optional)
<1> DEFINE q == [Dc("GetRecord") EXCEPT !.identifier = identifier]
<1>1. /\ q.verb = "GetRecord" /\ q.prefix = "oai_dc" /\ q.twice = FALSE
      /\ q.identifier = identifier
  BY DEF Dc, Plain
<1>2. c.query = q /\ c.expect = BadIdCodes
  BY DEF Case
<1> HIDE DEF q
<1>3. identifier # Absent /\ "oai_dc" # Absent
  BY TextsAreNot DEF Texts
<1>4. BadPrefix(q) = {}
  BY <1>1, <1>3 DEF BadPrefix, Formats
<1>5. Codes(f, q) = RecordCodes(f, q)
  BY <1>1 DEF Codes
<1>6. Codes(f, q) = {"idDoesNotExist"}
  BY <1>1, <1>3, <1>4, <1>5, WrongIdUnknown DEF RecordCodes
<1>7. QED
  BY <1>2, <1>6 DEF Acceptable, BadIdCodes

LEMMA CodesOfVerbs ==
  ASSUME NEW f, NEW q
  PROVE  /\ q.verb = "Identify" => Codes(f, q) = IdentifyCodes(q)
         /\ q.verb = "ListMetadataFormats" => Codes(f, q) = FormatsCodes(f, q)
         /\ q.verb = "ListSets" => Codes(f, q) = {}
         /\ q.verb = "GetRecord" => Codes(f, q) = RecordCodes(f, q)
         /\ q.verb = "IllegalVerb" => Codes(f, q) = {"badVerb"}
BY DEF Codes

\* Each of the other verbs, and one that does not exist.
LEMMA SingleCasesPass ==
  ASSUME NEW f, NEW c \in SingleCases
  PROVE  Acceptable(Codes(f, c.query), c.expect, c.ignore, c.optional)
<1>1. CASE c = Case(Plain("Identify"), {})
  <2>1. Codes(f, Plain("Identify")) = {}
    BY PlainFields, CodesOfVerbs DEF IdentifyCodes
  <2>2. QED
    BY <1>1, <2>1 DEF Case, Acceptable
<1>2. CASE c = Case([Plain("Identify") EXCEPT !.other = TRUE], {"badArgument"})
  <2> DEFINE q == [Plain("Identify") EXCEPT !.other = TRUE]
  <2>1. q.verb = "Identify" /\ q.other = TRUE
    BY DEF Plain
  <2>2. q # Plain("Identify")
    BY <2>1, PlainFields
  <2> HIDE DEF q
  <2>3. Codes(f, q) = {"badArgument"}
    BY <2>1, <2>2 DEF Codes, IdentifyCodes
  <2>4. QED
    BY <1>2, <2>3 DEF Case, Acceptable, q
<1>3. CASE c = Case(Plain("ListMetadataFormats"), {})
  <2>1. Codes(f, Plain("ListMetadataFormats")) = {}
    BY PlainFields, AbsentAssumption, CodesOfVerbs DEF FormatsCodes
  <2>2. QED
    BY <1>3, <2>1 DEF Case, Acceptable
<1>4. CASE c = Case(Plain("ListSets"), {})
  <2>1. Codes(f, Plain("ListSets")) = {}
    BY PlainFields, CodesOfVerbs
  <2>2. QED
    BY <1>4, <2>1 DEF Case, Acceptable
<1>5. CASE c = Case([Plain("ListMetadataFormats") EXCEPT !.identifier = "really_wrong_id"],
                    BadIdCodes)
  <2> DEFINE q == [Plain("ListMetadataFormats") EXCEPT !.identifier = "really_wrong_id"]
  <2>1. q.verb = "ListMetadataFormats" /\ q.identifier = "really_wrong_id"
    BY DEF Plain
  <2> HIDE DEF q
  <2>2. q.identifier # Absent
    BY <2>1, TextsAreNot DEF Texts
  <2>3. Codes(f, q) = {"idDoesNotExist"}
    BY <2>1, <2>2, WrongIdUnknown DEF Codes, FormatsCodes
  <2>4. QED
    BY <1>5, <2>3 DEF Case, Acceptable, BadIdCodes, q
<1>6. CASE c = Case(Dc("GetRecord"), {"badArgument"})
  <2>1. Codes(f, Dc("GetRecord")) = {"badArgument"}
    BY DcFields, AbsentAssumption DEF Codes, RecordCodes
  <2>2. QED
    BY <1>6, <2>1 DEF Case, Acceptable
<1>7. CASE c = Case([Dc("GetRecord") EXCEPT !.identifier = "really_wrong_id"], BadIdCodes)
  BY <1>7, WrongIdRefused
<1>8. CASE c = Case([Dc("GetRecord") EXCEPT !.identifier = "invalid\\\"id"], BadIdCodes)
  BY <1>8, WrongIdRefused
<1>9. CASE c = Case(Plain("IllegalVerb"), {"badVerb"})
  <2>1. Codes(f, Plain("IllegalVerb")) = {"badVerb"}
    BY PlainFields, CodesOfVerbs
  <2>2. QED
    BY <1>9, <2>1 DEF Case, Acceptable
<1>10. QED
  BY <1>1, <1>2, <1>3, <1>4, <1>5, <1>6, <1>7, <1>8, <1>9 DEF SingleCases

\* benson's own records stay.
OwnKept == \A i \in 1..Synthetic : files[i] # None

LEMMA OwnKeptStep == OwnKept /\ TypeOK /\ [Next]_vars => OwnKept'
<1> SUFFICES ASSUME OwnKept, TypeOK, [Next]_vars PROVE OwnKept'
  OBVIOUS
<1>1. ASSUME NEW i \in Records, NEW entry, Change(i, entry)
      PROVE  OwnKept'
  <2>1. \A j \in 1..Synthetic : j # i /\ j \in Records
    BY <1>1, ListAssumption DEF Change, Records
  <2>2. files' = [files EXCEPT ![i] = entry]
    BY <1>1 DEF Change
  <2>3. QED
    BY <2>1, <2>2 DEF OwnKept, TypeOK
<1>2. CASE UNCHANGED files
  BY <1>2 DEF OwnKept
<1>3. CASE \E i \in Records : AddStandard(i) \/ ReviseStandard(i) \/ RemoveStandard(i)
  BY <1>1, <1>3 DEF AddStandard, ReviseStandard, RemoveStandard
<1>4. QED
  BY <1>2, <1>3 DEF Next, Ask, Resume, Forget, Tick, vars

\* benson's own server is given what phase 1 asks of every registry: whatever standards
\* there are, revised, deleted or removed, each probe is answered with error codes
\* that its case accepts (dispatch_oai_verb, OAI_PHASE1_CASES).
THEOREM OaiVerbsOwnServerPasses == Spec => []OwnServerPasses
<1>1. Init => OwnKept
  BY DEF Init, OwnKept
<1>2. ListInv => TypeOK
  BY DEF ListInv
<1>3. OwnKept /\ TypeOK => OwnServerPasses
  <2> SUFFICES ASSUME OwnKept, TypeOK, NEW c \in Cases
               PROVE  Acceptable(Codes(files, c.query), c.expect, c.ignore, c.optional)
    BY DEF OwnServerPasses
  <2>1. Served(files)
    BY ServerAssumption, ListAssumption DEF OwnKept, TypeOK, Served
  <2>2. QED
    BY <2>1, ListCasesPass, IdentifierCasesPass, EpochCasePasses, SingleCasesPass DEF Cases
<1>4. QED
  BY <1>1, <1>2, <1>3, OwnKeptStep, ListInvariant, PTL DEF Spec

=============================================================================
