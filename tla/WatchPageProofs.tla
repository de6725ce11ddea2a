-------------------------- MODULE WatchPageProofs --------------------------
(***************************************************************************)
(* Theorems about the validator's page with registration: for any number   *)
(* of runs, of waiting polls and of registrations from elsewhere.          *)
(***************************************************************************)
EXTENDS WatchPage, CatalogueProofs, SequenceTheorems

----------------------------------------------------------------------------
(* The page and the catalogue. *)

\* What register_publisher does not refuse is a registration that the contract of the
\* catalogue allows: its own lookups find every other owner of the endpoint.
LEMMA RegisterRunRegisters ==
  ASSUME NEW run \in Run, NEW o \in Ids, NEW now \in Stamps, RegisterRun(run, o, now)
  PROVE  Next
<1>1. ~Refused(run, o) /\ run.url \in Urls
  BY DEF RegisterRun, Run
<1>2. CASE o \in DOMAIN catalogue
  <2>1. ListedAt(catalogue, run.url) \subseteq {o}
    BY <1>1, <1>2 DEF Refused, Owners
  <2>2. Put(o, [url |-> run.url, since |-> catalogue[o].since])
    BY <1>2 DEF RegisterRun
  <2>3. Update(o, run.url)
    BY <1>2, <2>1, <2>2 DEF Update
  <2>4. QED
    BY <1>1, <2>3 DEF Next
<1>3. CASE o \notin DOMAIN catalogue
  <2>1. ListedAt(catalogue, run.url) = {}
    BY <1>1, <1>3 DEF Refused
  <2>2. Put(o, [url |-> run.url, since |-> now])
    BY <1>3 DEF RegisterRun
  <2>3. Register(o, run.url, now)
    BY <1>3, <2>1, <2>2 DEF Register
  <2>4. QED
    BY <1>1, <2>3 DEF Next
<1>4. QED
  BY <1>2, <1>3

\* Every step of the page and the service is one of the catalogue or leaves it
\* alone.
LEMMA PageStepsAreRegistrations ==
  ASSUME PageTypeOK, [PageNext]_vars PROVE [Next]_catalogue
<1>1. ASSUME NEW o \in Ids, NEW now \in Stamps, ServeListing(o, now)
      PROVE  Next \/ UNCHANGED catalogue
  <2>1. PICK run \in Found(sent.run) : RegisterRun(run, o, now) \/ UNCHANGED catalogue
    BY <1>1 DEF ServeListing
  <2>2. run \in Run
    BY <2>1 DEF Found
  <2>3. QED
    BY <2>1, <2>2, RegisterRunRegisters
<1>2. ASSUME NEW n \in DOMAIN calls, Answered(n) PROVE UNCHANGED catalogue
  BY <1>2 DEF Answered, Serve, GetStatus, GetResult, GetOffer, CallFails
<1>3. ASSUME NEW r \in Runs,
             JobStarts(r) \/ JobEnds(r) \/ JobRevoked(r) \/ PressValidate(r) \/ Starts(r)
      PROVE  UNCHANGED catalogue
  BY <1>3 DEF JobStarts, JobEnds, JobRevoked, PressValidate, Starts, StartWatch, StartFails
<1>4. CASE Elsewhere
  BY <1>4 DEF Elsewhere
<1>5. CASE Tick \/ SubmitRegistration \/ GetListing \/ SubmitFails
  BY <1>5 DEF Tick, SubmitRegistration, GetListing, SubmitFails
<1>6. CASE UNCHANGED vars
  BY <1>6 DEF vars
<1>7. QED
  BY <1>1, <1>2, <1>3, <1>4, <1>5, <1>6 DEF PageNext, Submission

----------------------------------------------------------------------------
(* Types. *)

LEMMA Removed ==
  ASSUME NEW S, NEW s \in Seq(S), NEW n \in DOMAIN s
  PROVE  /\ RemoveAt(s, n) \in Seq(S) /\ Len(RemoveAt(s, n)) = Len(s) - 1
         /\ \A k \in DOMAIN RemoveAt(s, n) : \E j \in DOMAIN s : RemoveAt(s, n)[k] = s[j]
<1> DEFINE a == SubSeq(s, 1, n - 1)
           b == SubSeq(s, n + 1, Len(s))
<1>1. Len(s) \in Nat /\ n \in 1..Len(s) /\ DOMAIN s = 1..Len(s)
  OBVIOUS
<1>2. /\ a \in Seq(S) /\ Len(a) = n - 1
      /\ \A i \in 1..(n - 1) : a[i] = s[i]
  <2>1. \A i \in 1..(n - 1) : i \in 1..Len(s)
    BY <1>1
  <2>2. \A i \in 1..(n - 1) : s[i] \in S
    BY <1>1, <2>1
  <2>3. QED
    BY <1>1, <2>1, <2>2, SubSeqProperties
<1>3. /\ b \in Seq(S) /\ Len(b) = Len(s) - n
      /\ \A i \in 1..(Len(s) - n) : b[i] = s[n + i]
  BY <1>1, SubSeqProperties
<1>4. RemoveAt(s, n) = a \o b
  BY DEF RemoveAt
<1> HIDE DEF a, b
<1>5. /\ a \o b \in Seq(S) /\ Len(a \o b) = Len(s) - 1
      /\ \A k \in 1..(Len(s) - 1) :
           (a \o b)[k] = IF k <= n - 1 THEN a[k] ELSE b[k - (n - 1)]
  <2>1. Len(a) + Len(b) = Len(s) - 1
    BY <1>1, <1>2, <1>3
  <2>2. a \in Seq(S) /\ b \in Seq(S)
    BY <1>2, <1>3
  <2>3. /\ a \o b \in Seq(S) /\ Len(a \o b) = Len(s) - 1
        /\ \A k \in 1..(Len(s) - 1) : (a \o b)[k] = IF k <= Len(a) THEN a[k] ELSE b[k - Len(a)]
    BY <2>1, <2>2, ConcatProperties
  <2>4. QED
    BY <1>2, <2>3
<1>6. ASSUME NEW k \in 1..(Len(s) - 1) PROVE \E j \in DOMAIN s : (a \o b)[k] = s[j]
  <2>1. CASE k <= n - 1
    <3>1. k \in 1..(n - 1) /\ k \in 1..Len(s)
      BY <1>1, <2>1
    <3>2. QED
      BY <1>1, <1>2, <1>5, <2>1, <3>1
  <2>2. CASE ~(k <= n - 1)
    <3>1. k - (n - 1) \in 1..(Len(s) - n) /\ n + (k - (n - 1)) = k + 1 /\ k + 1 \in 1..Len(s)
      BY <1>1, <2>2
    <3>2. (a \o b)[k] = s[k + 1]
      BY <1>3, <1>5, <2>2, <3>1
    <3>3. QED
      BY <1>1, <3>1, <3>2
  <2>3. QED
    BY <2>1, <2>2
<1>7. DOMAIN (a \o b) = 1..(Len(s) - 1)
  BY <1>5
<1>8. QED
  BY <1>4, <1>5, <1>6, <1>7

LEMMA Changed ==
  ASSUME NEW S, NEW s \in Seq(S), NEW n \in DOMAIN s, NEW c \in S
  PROVE  [s EXCEPT ![n] = c] \in Seq(S) /\ Len([s EXCEPT ![n] = c]) = Len(s)
OBVIOUS

LEMMA Appended ==
  ASSUME NEW S, NEW s \in Seq(S), NEW c \in S
  PROVE  /\ Append(s, c) \in Seq(S) /\ Len(Append(s, c)) = Len(s) + 1
         /\ \A k \in DOMAIN Append(s, c) : Append(s, c)[k] = c \/ (k \in DOMAIN s /\ Append(s, c)[k] = s[k])
<1>1. /\ Len(s) \in Nat /\ DOMAIN s = 1..Len(s)
      /\ Append(s, c) \in Seq(S) /\ Len(Append(s, c)) = Len(s) + 1
      /\ DOMAIN Append(s, c) = 1..(Len(s) + 1)
  OBVIOUS
<1>2. ASSUME NEW k \in 1..(Len(s) + 1)
      PROVE  Append(s, c)[k] = c \/ (k \in 1..Len(s) /\ Append(s, c)[k] = s[k])
  <2>1. k \in 1..Len(s) \/ k = Len(s) + 1
    BY <1>1, <1>2
  <2>2. Append(s, c)[Len(s) + 1] = c /\ \A i \in 1..Len(s) : Append(s, c)[i] = s[i]
    BY AppendProperties
  <2>3. QED
    BY <2>1, <2>2
<1>3. QED
  BY <1>1, <1>2

LEMMA Elements ==
  ASSUME NEW S, NEW s \in Seq(S)
  PROVE  Len(s) \in Nat /\ \A k \in DOMAIN s : s[k] \in S
OBVIOUS

LEMMA CallParts ==
  ASSUME NEW c \in Call
  PROVE  c.run \in Runs /\ c.asks \in {"status", "result", "offer"}
BY DEF Call

LEMMA AskingParts ==
  ASSUME NEW c \in Call, NEW what \in {"status", "result", "offer"}
  PROVE  Asking(c, what) \in Call /\ Asking(c, what).run = c.run /\ Asking(c, what).asks = what
BY DEF Call, Asking

LEMMA ToldParts ==
  ASSUME NEW c \in Call, NEW t \in {"-", "eligible", "not eligible"} \cup States
  PROVE  Told(c, t) \in Call /\ Told(c, t).run = c.run /\ Told(c, t).asks = c.asks
BY DEF Call, Told

LEMMA HiddenTyped ==
  /\ Hidden \in Panel
  /\ [Hidden EXCEPT !.visible = {"panel", "form"}] \in Panel
  /\ [Hidden EXCEPT !.visible = {"panel", "form"}].from = None
BY DEF Hidden, Panel

LEMMA NoFormTyped ==
  ASSUME panel \in Panel
  PROVE  /\ NoForm \in Panel /\ NoForm.from = panel.from
         /\ "panel" \in NoForm.visible <=> "panel" \in panel.visible
BY DEF NoForm, Panel

\* A registration under way for a run, and the answer that it is told.
LEMMA SentTyped ==
  ASSUME NEW r \in Runs, NEW t \in {"-", "listed", "refused"}
  PROVE  [run |-> r, told |-> t] \in Sent
BY DEF Sent

LEMMA InitTyped == PageInit => PageTypeOK
<1> SUFFICES ASSUME PageInit PROVE PageTypeOK
  OBVIOUS
<1>1. calls \in Seq(Call) /\ Len(calls) = 0 /\ DOMAIN calls = {}
  BY DEF PageInit
<1>2. /\ jobs \in [Runs -> States \cup {None}] /\ starting \subseteq Runs
      /\ \A r \in starting \cup ({timer} \ {None}) : jobs[r] # None
  BY DEF PageInit
<1>3. Len(calls) <= MaxCalls
  BY <1>1, PageAssumption
<1>4. /\ current \in Runs \cup {None} /\ timer \in Runs \cup {None}
      /\ busy \in BOOLEAN /\ panel \in Panel /\ crossed \in BOOLEAN /\ sent \in Sent \cup {None}
  BY HiddenTyped DEF PageInit
<1>5. QED
  BY <1>1, <1>2, <1>3, <1>4 DEF PageTypeOK

\* The call that is answered, and the calls when it is over or waits for more.
LEMMA AnsweredCall ==
  ASSUME PageTypeOK, NEW n \in DOMAIN calls
  PROVE  /\ calls[n] \in Call /\ jobs[calls[n].run] \in States
         /\ LET s == RemoveAt(calls, n) IN
              /\ s \in Seq(Call) /\ Len(s) <= MaxCalls
              /\ \A k \in DOMAIN s : jobs[s[k].run] # None
         /\ \A d \in Call : d.run = calls[n].run =>
              LET s == [calls EXCEPT ![n] = d] IN
              /\ s \in Seq(Call) /\ Len(s) <= MaxCalls
              /\ \A k \in DOMAIN s : jobs[s[k].run] # None
<1>1. /\ calls \in Seq(Call) /\ Len(calls) \in Nat /\ Len(calls) <= MaxCalls
      /\ jobs \in [Runs -> States \cup {None}]
      /\ \A k \in DOMAIN calls : jobs[calls[k].run] # None
  BY DEF PageTypeOK
<1>2. calls[n] \in Call
  BY <1>1
<1> HIDE DEF Call
<1>7. calls[n].run \in Runs
  BY <1>2, CallParts
<1>3. MaxCalls \in Nat
  BY PageAssumption
<1>4. LET s == RemoveAt(calls, n) IN
        /\ s \in Seq(Call) /\ Len(s) <= MaxCalls
        /\ \A k \in DOMAIN s : jobs[s[k].run] # None
  <2>1. /\ RemoveAt(calls, n) \in Seq(Call) /\ Len(RemoveAt(calls, n)) = Len(calls) - 1
        /\ \A k \in DOMAIN RemoveAt(calls, n) :
             \E j \in DOMAIN calls : RemoveAt(calls, n)[k] = calls[j]
    BY <1>1, Removed
  <2>2. QED
    BY <1>1, <1>3, <2>1
<1>5. ASSUME NEW d \in Call, d.run = calls[n].run
      PROVE  LET s == [calls EXCEPT ![n] = d] IN
               /\ s \in Seq(Call) /\ Len(s) <= MaxCalls
               /\ \A k \in DOMAIN s : jobs[s[k].run] # None
  BY <1>1, <1>5, Changed
<1>6. QED
  BY <1>1, <1>2, <1>4, <1>5, <1>7

LEMMA AnswerTyped ==
  ASSUME PageTypeOK, NEW n \in DOMAIN calls, Answered(n) PROVE PageTypeOK'
<1> DEFINE c == calls[n]
<1> DEFINE CallsOK(s) == /\ s \in Seq(Call) /\ Len(s) <= MaxCalls
                         /\ \A k \in DOMAIN s : jobs[s[k].run] # None
<1> DEFINE TimerOK(t) == t \in Runs \cup {None} /\ (t # None => jobs[t] # None)
<1>1. c \in Call /\ jobs[c.run] \in States /\ CallsOK(RemoveAt(calls, n))
  BY AnsweredCall
<1>2. \A d \in Call : d.run = c.run => CallsOK([calls EXCEPT ![n] = d])
  BY AnsweredCall
<1> HIDE DEF CallsOK, c, TimerOK
<1>3. /\ \A what \in {"status", "result", "offer"} : CallsOK([calls EXCEPT ![n] = Asking(c, what)])
      /\ \A t \in {"-", "eligible", "not eligible"} \cup States :
           CallsOK([calls EXCEPT ![n] = Told(c, t)])
  <2>1. ASSUME NEW what \in {"status", "result", "offer"}
        PROVE  CallsOK([calls EXCEPT ![n] = Asking(c, what)])
    <3> DEFINE d == Asking(c, what)
    <3>1. d \in Call /\ d.run = c.run
      BY <1>1, AskingParts
    <3> HIDE DEF d
    <3>2. CallsOK([calls EXCEPT ![n] = d])
      BY <1>2, <3>1
    <3>3. QED
      BY <3>2 DEF d
  <2>2. ASSUME NEW t \in {"-", "eligible", "not eligible"} \cup States
        PROVE  CallsOK([calls EXCEPT ![n] = Told(c, t)])
    <3> DEFINE d == Told(c, t)
    <3>1. d \in Call /\ d.run = c.run
      BY <1>1, ToldParts
    <3> HIDE DEF d
    <3>2. CallsOK([calls EXCEPT ![n] = d])
      BY <1>2, <3>1
    <3>3. QED
      BY <3>2 DEF d
  <2>3. QED
    BY <2>1, <2>2
<1>5. c.run \in Runs
  BY <1>1, CallParts
<1>13. TimerOK(timer) /\ TimerOK(None)
  BY DEF TimerOK, PageTypeOK
<1>4. \A t \in {timer, None} : TimerOK(TimerAfter(c, t))
  <2>1. None \notin States
    BY PageAssumption
  <2>2. TimerOK(c.run)
    BY <1>1, <1>5, <2>1 DEF TimerOK
  <2>3. QED
    BY <1>13, <2>2 DEF TimerAfter
<1>6. SUFFICES /\ jobs' = jobs /\ starting' = starting /\ sent' = sent /\ CallsOK(calls')
               /\ TimerOK(timer') /\ current' \in Runs \cup {None}
               /\ busy' \in BOOLEAN /\ panel' \in Panel /\ crossed' \in BOOLEAN
  BY DEF PageTypeOK, CallsOK, TimerOK
<1> USE DEF PageTypeOK
<1>7. CASE Serve(n)
  <2>1. PICK t : /\ t \in IF c.asks = "status" THEN {jobs[c.run]} ELSE OffersTold(c.run)
                 /\ calls' = [calls EXCEPT ![n] = Told(c, t)]
    BY <1>7 DEF Serve, c
  <2>2. t \in {"-", "eligible", "not eligible"} \cup States
    <3>1. CASE c.asks = "status"
      BY <1>1, <2>1, <3>1
    <3>2. CASE c.asks # "status"
      <4>1. t \in OffersTold(c.run)
        BY <2>1, <3>2
      <4>2. QED
        BY <4>1 DEF OffersTold
    <3>3. QED
      BY <3>1, <3>2
  <2>3. CallsOK(calls')
    BY <1>3, <2>1, <2>2
  <2>4. QED
    BY <1>7, <1>13, <2>3 DEF Serve
<1>8. CASE GetStatus(n)
  <2>1. CallsOK(calls')
    BY <1>1, <1>3, <1>8 DEF GetStatus, c
  <2>2. TimerOK(timer') /\ busy' \in BOOLEAN
    BY <1>4, <1>8, <1>13 DEF GetStatus, c
  <2>3. QED
    BY <1>8, <2>1, <2>2 DEF GetStatus
<1>9. CASE GetResult(n)
  <2>1. CallsOK(calls')
    BY <1>3, <1>9 DEF GetResult, c
  <2>2. panel' \in Panel /\ current' \in Runs \cup {None} /\ crossed' \in BOOLEAN
    BY <1>5, <1>9, HiddenTyped DEF GetResult, c
  <2>3. QED
    BY <1>9, <1>13, <2>1, <2>2 DEF GetResult
<1>10. CASE GetOffer(n)
  <2>1. CallsOK(calls') /\ TimerOK(timer')
    BY <1>1, <1>4, <1>10, <1>13 DEF GetOffer, c
  <2>2. panel' \in Panel
    BY <1>5, <1>10, NoFormTyped DEF GetOffer, c, Panel
  <2>3. QED
    BY <1>10, <2>1, <2>2 DEF GetOffer
<1>11. CASE CallFails(n)
  <2>1. CallsOK(calls') /\ TimerOK(timer')
    BY <1>1, <1>4, <1>11, <1>13 DEF CallFails, c
  <2>2. panel' \in Panel /\ busy' \in BOOLEAN
    BY <1>11, NoFormTyped DEF CallFails, c
  <2>3. QED
    BY <1>11, <2>1, <2>2 DEF CallFails
<1>12. QED
  BY <1>7, <1>8, <1>9, <1>10, <1>11 DEF Answered

LEMMA StepTyped == PageTypeOK /\ [PageNext]_vars => PageTypeOK'
<1> SUFFICES ASSUME PageTypeOK, [PageNext]_vars PROVE PageTypeOK'
  OBVIOUS
<1>0. /\ jobs \in [Runs -> States \cup {None}]
      /\ {"pending", "running", "complete", "over"} \subseteq States \ {None}
  <2>1. None \notin States
    BY PageAssumption
  <2>2. {"pending", "running", "complete", "over"} \subseteq States
    BY DEF States
  <2>3. jobs \in [Runs -> States \cup {None}]
    BY DEF PageTypeOK
  <2>4. QED
    BY <2>1, <2>2, <2>3
<1>12. calls \in Seq(Call) /\ Len(calls) \in Nat /\ MaxCalls \in Nat
  <2>1. calls \in Seq(Call)
    BY DEF PageTypeOK
  <2>2. QED
    BY <2>1, PageAssumption, Elements
<1>11. \A n \in DOMAIN calls : calls[n].run \in Runs
  <2>1. \A n \in DOMAIN calls : calls[n] \in Call
    BY <1>12, Elements
  <2>2. QED
    BY <2>1, CallParts
<1>1. ASSUME NEW r \in Runs, JobStarts(r) \/ JobEnds(r) \/ JobRevoked(r) PROVE PageTypeOK'
  <2>2. PICK state \in {"running", "complete", "over"} : jobs' = [jobs EXCEPT ![r] = state]
    BY <1>1 DEF JobStarts, JobEnds, JobRevoked
  <2>3. UNCHANGED page
    BY <1>1 DEF JobStarts, JobEnds, JobRevoked
  <2>4. jobs' \in [Runs -> States \cup {None}] /\ \A q \in Runs : jobs[q] # None => jobs'[q] # None
    BY <1>0, <2>2, PageAssumption
  <2>5. QED
    BY <1>11, <2>3, <2>4 DEF PageTypeOK, page
<1>2. ASSUME NEW r \in Runs, PressValidate(r) PROVE PageTypeOK'
  <2>1. /\ jobs' \in [Runs -> States \cup {None}]
        /\ \A q \in Runs : jobs[q] # None => jobs'[q] # None
        /\ jobs'[r] # None
    BY <1>0, <1>2, PageAssumption DEF PressValidate
  <2>2. QED
    BY <1>2, <1>11, <2>1 DEF PageTypeOK, PressValidate
<1>3. ASSUME NEW c \in Call, jobs[c.run] # None, Len(calls) < MaxCalls
      PROVE  /\ Append(calls, c) \in Seq(Call) /\ Len(Append(calls, c)) <= MaxCalls
             /\ \A n \in DOMAIN Append(calls, c) : jobs[Append(calls, c)[n].run] # None
  <2>1. /\ Append(calls, c) \in Seq(Call) /\ Len(Append(calls, c)) = Len(calls) + 1
        /\ \A n \in DOMAIN Append(calls, c) :
             Append(calls, c)[n] = c \/ (n \in DOMAIN calls /\ Append(calls, c)[n] = calls[n])
    BY <1>12, Appended
  <2>2. \A n \in DOMAIN calls : jobs[calls[n].run] # None
    BY DEF PageTypeOK
  <2>3. Len(calls) + 1 <= MaxCalls
    BY <1>3, <1>12
  <2>4. QED
    BY <1>3, <2>1, <2>2, <2>3
<1>4. ASSUME NEW r \in Runs, StartWatch(r) PROVE PageTypeOK'
  <2> DEFINE c == Status(r, "watch")
  <2>1. c \in Call /\ jobs[c.run] # None
    BY <1>4 DEF Status, Call, StartWatch, PageTypeOK
  <2>2. calls' = Append(calls, c) /\ Len(calls) < MaxCalls
    BY <1>4 DEF StartWatch
  <2> HIDE DEF c
  <2>3. /\ calls' \in Seq(Call) /\ Len(calls') <= MaxCalls
        /\ \A n \in DOMAIN calls' : jobs[calls'[n].run] # None
    BY <1>3, <2>1, <2>2
  <2>4. QED
    BY <1>4, <2>3, HiddenTyped DEF StartWatch, PageTypeOK
<1>5. CASE Tick
  <2> DEFINE c == Status(timer, "timer")
  <2>1. timer \in Runs /\ jobs[timer] # None
    BY <1>5 DEF Tick, PageTypeOK
  <2>2. c \in Call /\ c.run = timer
    BY <2>1 DEF Status, Call
  <2>3. jobs[c.run] # None
    BY <2>1, <2>2
  <2>4. calls' = Append(calls, c) /\ Len(calls) < MaxCalls
    BY <1>5 DEF Tick
  <2> HIDE DEF c
  <2>5. /\ calls' \in Seq(Call) /\ Len(calls') <= MaxCalls
        /\ \A n \in DOMAIN calls' : jobs[calls'[n].run] # None
    BY <1>3, <2>2, <2>3, <2>4
  <2>6. QED
    BY <1>5, <2>5 DEF Tick, PageTypeOK
<1>6. ASSUME NEW r \in Runs, StartFails(r) PROVE PageTypeOK'
  BY <1>6 DEF StartFails, PageTypeOK
<1>7. CASE Elsewhere
  BY <1>7 DEF Elsewhere, page, PageTypeOK
<1>8. CASE Submission
  <2>1. ASSUME NEW o \in Ids, NEW now \in Stamps, ServeListing(o, now) PROVE PageTypeOK'
    <3>1. /\ sent # None /\ UNCHANGED <<jobs, starting, current, timer, busy, calls, panel, crossed>>
          /\ \E t \in {"listed", "refused"} : sent' = [run |-> sent.run, told |-> t]
      BY <2>1 DEF ServeListing
    <3>2. sent.run \in Runs
      BY <3>1 DEF PageTypeOK, Sent
    <3>3. sent' \in Sent
      BY <3>1, <3>2, SentTyped
    <3>4. QED
      BY <3>1, <3>3 DEF PageTypeOK
  <2>2. CASE SubmitRegistration
    <3>1. current \in Runs
      BY <2>2 DEF SubmitRegistration, PageTypeOK
    <3>2. sent' \in Sent
      BY <2>2, <3>1, SentTyped DEF SubmitRegistration
    <3>3. QED
      BY <2>2, <3>2 DEF SubmitRegistration, PageTypeOK
  <2>3. CASE GetListing \/ SubmitFails
    <3>1. NoForm \in Panel
      BY NoFormTyped DEF PageTypeOK
    <3>2. panel' \in Panel /\ sent' = None
      BY <2>3, <3>1 DEF GetListing, SubmitFails, PageTypeOK
    <3>3. UNCHANGED <<jobs, starting, current, timer, busy, calls, crossed>>
      BY <2>3 DEF GetListing, SubmitFails
    <3>4. QED
      BY <3>2, <3>3 DEF PageTypeOK
  <2>4. QED
    BY <1>8, <2>1, <2>2, <2>3 DEF Submission
<1>9. CASE UNCHANGED vars
  BY <1>9 DEF vars, page, PageTypeOK
<1>10. QED
  BY <1>1, <1>2, <1>4, <1>5, <1>6, <1>7, <1>8, <1>9, AnswerTyped DEF PageNext, Starts

----------------------------------------------------------------------------
(* The form of the panel. *)

\* Why the form fits the current run: as long as no offers of two runs have been
\* under way together, an open panel and the offers that it waits for are about
\* the run whose result was shown last.
Fits ==
  ~crossed /\ "panel" \in panel.visible =>
    /\ panel.from \in {None, current}
    /\ \A n \in DOMAIN calls : calls[n].asks = "offer" => calls[n].run = current

\* The calls after an answer: the others are as they were.
LEMMA Others ==
  ASSUME PageTypeOK, NEW n \in DOMAIN calls
  PROVE  /\ \A k \in DOMAIN RemoveAt(calls, n) :
              \E j \in DOMAIN calls : RemoveAt(calls, n)[k] = calls[j]
         /\ \A d \in Call :
              /\ DOMAIN [calls EXCEPT ![n] = d] = DOMAIN calls
              /\ [calls EXCEPT ![n] = d][n] = d
              /\ \A k \in DOMAIN calls \ {n} : [calls EXCEPT ![n] = d][k] = calls[k]
<1>1. calls \in Seq(Call)
  BY DEF PageTypeOK
<1>2. \A k \in DOMAIN RemoveAt(calls, n) :
        \E j \in DOMAIN calls : RemoveAt(calls, n)[k] = calls[j]
  BY <1>1, Removed
<1>3. QED
  BY <1>1, <1>2

LEMMA AnswerFits ==
  ASSUME PageTypeOK, Fits, NEW n \in DOMAIN calls, Answered(n) PROVE Fits'
<1> DEFINE c == calls[n]
<1>1. c \in Call /\ c.run \in Runs /\ jobs[c.run] \in States
  BY AnsweredCall, CallParts
<1>2. panel \in Panel /\ crossed \in BOOLEAN
  BY DEF PageTypeOK
<1>3. CASE Serve(n)
  <2>1. PICK t : /\ t \in IF c.asks = "status" THEN {jobs[c.run]} ELSE OffersTold(c.run)
                 /\ calls' = [calls EXCEPT ![n] = Told(c, t)]
    BY <1>3 DEF Serve
  <2>2. t \in {"-", "eligible", "not eligible"} \cup States
    BY <1>1, <2>1 DEF OffersTold
  <2> DEFINE d == Told(c, t)
  <2>3. d \in Call /\ d.run = c.run /\ d.asks = c.asks
    BY <1>1, <2>2, ToldParts
  <2>4. calls' = [calls EXCEPT ![n] = d]
    BY <2>1
  <2> HIDE DEF d
  <2>5. \A k \in DOMAIN calls' :
          k \in DOMAIN calls /\ calls'[k].asks = calls[k].asks /\ calls'[k].run = calls[k].run
    BY <2>3, <2>4, Others
  <2>6. UNCHANGED <<panel, crossed, current>>
    BY <1>3 DEF Serve
  <2>7. QED
    BY <2>5, <2>6 DEF Fits
<1>4. CASE GetStatus(n)
  <2>1. UNCHANGED <<panel, crossed, current>>
    BY <1>4 DEF GetStatus
  <2> DEFINE d == Asking(c, "result")
  <2>2. d \in Call /\ d.asks = "result"
    BY <1>1, AskingParts
  <2>3. calls' = [calls EXCEPT ![n] = d] \/ calls' = RemoveAt(calls, n)
    BY <1>4 DEF GetStatus
  <2> HIDE DEF d
  <2>4. \A k \in DOMAIN calls' :
          calls'[k].asks = "offer" => \E j \in DOMAIN calls : calls'[k] = calls[j]
    BY <2>2, <2>3, Others
  <2>5. QED
    BY <2>1, <2>4 DEF Fits
<1>5. CASE GetResult(n)
  <2> DEFINE d == Asking(c, "offer")
  <2>1. d \in Call /\ d.run = c.run
    BY <1>1, AskingParts
  <2>2. calls' = [calls EXCEPT ![n] = d] /\ current' = c.run
    BY <1>5 DEF GetResult
  <2>3. ~crossed' => \A i \in DOMAIN calls : calls[i].asks = "offer" => calls[i].run = c.run
    BY <1>5 DEF GetResult
  <2> HIDE DEF d
  <2>4. ~crossed' => \A k \in DOMAIN calls' : calls'[k].asks = "offer" => calls'[k].run = current'
    BY <2>1, <2>2, <2>3, Others
  <2>5. panel'.from = None
    BY <1>5, HiddenTyped DEF GetResult
  <2>6. QED
    BY <2>4, <2>5 DEF Fits
<1>6. ASSUME calls' = RemoveAt(calls, n), UNCHANGED <<crossed, current>>,
             \/ UNCHANGED panel
             \/ panel' = NoForm
             \/ c.asks = "offer" /\ panel' = [visible |-> panel.visible \cup {"form"}, from |-> c.run]
      PROVE  Fits'
  <2>1. \A k \in DOMAIN calls' : \E j \in DOMAIN calls : calls'[k] = calls[j]
    BY <1>6, Others
  <2>2. /\ "panel" \in panel'.visible <=> "panel" \in panel.visible
        /\ panel'.from = panel.from \/ (c.asks = "offer" /\ panel'.from = c.run)
    BY <1>2, <1>6, NoFormTyped
  <2>3. SUFFICES ASSUME ~crossed', "panel" \in panel'.visible
                 PROVE  /\ panel'.from \in {None, current'}
                        /\ \A k \in DOMAIN calls' : calls'[k].asks = "offer" => calls'[k].run = current'
    BY DEF Fits
  <2>4. /\ panel.from \in {None, current}
        /\ \A j \in DOMAIN calls : calls[j].asks = "offer" => calls[j].run = current
    BY <1>6, <2>2, <2>3 DEF Fits
  <2>5. QED
    BY <1>6, <2>1, <2>2, <2>4
<1>7. CASE GetOffer(n)
  BY <1>6, <1>7 DEF GetOffer
<1>8. CASE CallFails(n)
  BY <1>6, <1>8 DEF CallFails
<1>9. QED
  BY <1>3, <1>4, <1>5, <1>7, <1>8 DEF Answered

LEMMA StepFits == PageTypeOK /\ Fits /\ [PageNext]_vars => Fits'
<1> SUFFICES ASSUME PageTypeOK, Fits, [PageNext]_vars PROVE Fits'
  OBVIOUS
<1>1. CASE UNCHANGED <<crossed, current, calls, panel>>
  BY <1>1 DEF Fits
<1>2. ASSUME NEW r \in Runs, JobStarts(r) \/ JobEnds(r) \/ JobRevoked(r) \/ PressValidate(r) \/ StartFails(r)
      PROVE  Fits'
  BY <1>1, <1>2 DEF JobStarts, JobEnds, JobRevoked, PressValidate, StartFails, page
<1>3. ASSUME NEW r \in Runs, StartWatch(r) PROVE Fits'
  BY <1>3 DEF StartWatch, Hidden, Fits
<1>4. CASE Tick
  <2> DEFINE c == Status(timer, "timer")
  <2>1. /\ timer \in Runs /\ calls' = Append(calls, c)
        /\ UNCHANGED <<crossed, current, panel>>
    BY <1>4 DEF Tick, PageTypeOK
  <2>2. c \in Call /\ c.asks = "status"
    BY <2>1 DEF Status, Call
  <2> HIDE DEF c
  <2>3. calls \in Seq(Call)
    BY DEF PageTypeOK
  <2>4. \A k \in DOMAIN calls' : calls'[k] = c \/ (k \in DOMAIN calls /\ calls'[k] = calls[k])
    BY <2>1, <2>2, <2>3, Appended
  <2>5. QED
    BY <2>1, <2>2, <2>4 DEF Fits
<1>5. CASE Submission
  <2>1. /\ NoForm.from = panel.from
        /\ "panel" \in NoForm.visible <=> "panel" \in panel.visible
    BY NoFormTyped DEF PageTypeOK
  <2>2. (panel' = NoForm \/ panel' = panel) /\ UNCHANGED <<crossed, current, calls>>
    BY <1>5 DEF Submission, SubmitRegistration, ServeListing, GetListing, SubmitFails
  <2>3. QED
    BY <2>1, <2>2 DEF Fits
<1>6. CASE Elsewhere \/ UNCHANGED vars
  BY <1>1, <1>6 DEF Elsewhere, vars, page
<1>7. QED
  BY <1>2, <1>3, <1>4, <1>5, <1>6, AnswerFits DEF PageNext, Starts

----------------------------------------------------------------------------
(* Theorems. *)

\* What the page keeps is always of its type.
THEOREM PageTyped == PageSafe => []PageTypeOK
<1>1. QED
  BY InitTyped, StepTyped, PTL DEF PageSafe

\* The page with the service implements the contract of the catalogue: whatever is
\* sent by the page, for whichever run and under whichever identifier, the checks of
\* register_publisher let through only what the contract allows.
THEOREM PageImplementsCatalogue == PageSafe => Spec
<1>1. PageInit => Init
  BY DEF PageInit
<1>2. QED
  BY <1>1, PageTyped, PageStepsAreRegistrations, PTL DEF PageSafe, Spec

\* No endpoint is listed for two registries, whoever registers from the page.
THEOREM PageKeepsEndpointsUnique == PageSafe => []UniqueEndpoint
<1>1. QED
  BY PageImplementsCatalogue, EndpointsUnique, PTL

\* As long as no offers of two runs have been under way together, the form that the
\* user sees is about the run that will be registered; with such offers it may not be.
THEOREM FormsFit == PageSafe => []FormFitsRun
<1>1. PageInit => Fits
  BY DEF PageInit, Hidden, Fits
<1>2. Fits => FormFitsRun
  BY DEF Fits, FormFitsRun
<1>3. QED
  BY <1>1, <1>2, PageTyped, StepFits, PTL DEF PageSafe

\* Nor does a listing vanish or forget since when it is listed.
THEOREM PageKeepsListings == PageSafe => ListingKept
<1>1. QED
  BY PageImplementsCatalogue, ListingsKept, PTL
=============================================================================
