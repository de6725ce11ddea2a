----------------------------- MODULE WatchPage -----------------------------
(***************************************************************************)
(* The validator's page (assets/static/js/validator-watch.js) with the     *)
(* jobs that it watches and the registrations that it submits, through     *)
(* http/validator.py and http/publishers.py.                               *)
(*                                                                         *)
(* The page polls on a timer without waiting for the last answer.  Each    *)
(* poll is a chain of requests, status, result and offer, whose answers    *)
(* come in any order with those of other polls and of registrations; a     *)
(* call is where such a chain waits.                                       *)
(***************************************************************************)
EXTENDS Registration, Naturals, SequencesExt

CONSTANTS
  MaxRuns,     \* the runs of this page, in the order they are started
  Endpoint,    \* Endpoint[r]: what r validates
  MaxCalls     \* bound on the polls that wait at a time

Runs == 1..MaxRuns

\* What the page tells apart of a job's state: an error and a cancellation are the
\* same to it.  A pending job may never be started.
States == {"pending", "running", "complete", "over"}
Unfinished == {"pending", "running"}

\* A registration that waits for its answer.
Sent == [run : Runs, told : {"-", "listed", "refused"}]

ASSUME PageAssumption ==
  /\ MaxRuns \in Nat /\ MaxCalls \in Nat /\ Endpoint \in [Runs -> Urls]
  /\ None \notin Runs /\ None \notin States /\ None \notin Sent

VARIABLES
  jobs,        \* the state of each run's validation, or None
  starting,    \* runs whose watch is about to begin
  current,     \* currentRunId
  timer,       \* the run that pollTimer polls, or None
  busy,        \* the form is disabled
  calls,       \* the polls that wait for an answer
  sent,        \* the registration that waits for an answer, or None
  panel,       \* the registration panel
  crossed      \* offers of different runs have been under way together

page == <<starting, current, timer, busy, calls, sent, panel, crossed>>
vars == <<catalogue, jobs, page>>

\* A call: watchJob waits for its first poll, nobody for those of the timer.  told
\* is the answer that is on its way.
Call == [run : Runs, for : {"watch", "timer"}, asks : {"status", "result", "offer"},
         told : {"-", "eligible", "not eligible"} \cup States]

\* The call when its answer is on its way, and when it goes on to ask for more.
Told(c, t) == [c EXCEPT !.told = t]
Asking(c, what) == [c EXCEPT !.asks = what, !.told = "-"]

\* visible are the parts that are not hidden, the form being one within the panel;
\* from is the run whose offer filled the form in.
Panel == [visible : SUBSET {"panel", "form"}, from : Runs \cup {None}]

\* hideRegistrationPanel
Hidden == [visible |-> {"form"}, from |-> None]

NoForm == [panel EXCEPT !.visible = @ \ {"form"}]

\* What registration finds in a run: it can be validated again at any time, which
\* changes its identity and its verdict.  A canceled run may have a report.
Found(r) == {run \in Run : run.url = Endpoint[r] /\ (run.passes => jobs[r] \notin Unfinished)}

----------------------------------------------------------------------------
(* The service. *)

\* Somebody has a job validated that was not started.
JobStarts(r) ==
  /\ jobs[r] = "pending"
  /\ jobs' = [jobs EXCEPT ![r] = "running"]
  /\ UNCHANGED <<catalogue, page>>

\* The worker ends, or a validation within a request, or the job is canceled.
JobEnds(r) ==
  /\ jobs[r] \in Unfinished
  /\ \E state \in {"complete", "over"} : jobs' = [jobs EXCEPT ![r] = state]
  /\ UNCHANGED <<catalogue, page>>

\* Somebody cancels a complete run, or validates it again and fails.
JobRevoked(r) ==
  /\ jobs[r] = "complete"
  /\ jobs' = [jobs EXCEPT ![r] = "over"]
  /\ UNCHANGED <<catalogue, page>>

\* A registration from elsewhere.
Elsewhere == Next /\ UNCHANGED <<jobs, page>>

OffersTold(r) == {IF Offer(run).eligible THEN "eligible" ELSE "not eligible" : run \in Found(r)}

\* The service answers call n.
Serve(n) ==
  LET c == calls[n] IN
  /\ c.told = "-" /\ c.asks # "result"
  /\ \E t \in IF c.asks = "status" THEN {jobs[c.run]} ELSE OffersTold(c.run) :
       calls' = [calls EXCEPT ![n] = Told(c, t)]
  /\ UNCHANGED <<catalogue, jobs, starting, current, timer, busy, sent, panel, crossed>>

\* The service lists the run that was sent, under an identifier that the user may
\* have changed, or refuses to.
ServeListing(o, now) ==
  /\ sent # None /\ sent.told = "-"
  /\ \E run \in Found(sent.run) :
       \/ RegisterRun(run, o, now) /\ sent' = [run |-> sent.run, told |-> "listed"]
       \/ /\ Refused(run, o) /\ UNCHANGED catalogue
          /\ sent' = [run |-> sent.run, told |-> "refused"]
  /\ UNCHANGED <<jobs, starting, current, timer, busy, calls, panel, crossed>>

----------------------------------------------------------------------------
(* A validation. *)

\* The form is sent: validator_create_job spawns the worker.  Until the answer
\* comes it may be sent again.
PressValidate(r) ==
  /\ ~busy /\ jobs[r] = None /\ \A q \in 1..(r - 1) : jobs[q] # None
  /\ jobs' = [jobs EXCEPT ![r] = "running"]
  /\ starting' = starting \cup {r}
  /\ UNCHANGED <<catalogue, current, timer, busy, calls, sent, panel, crossed>>

Status(r, whom) == [run |-> r, for |-> whom, asks |-> "status", told |-> "-"]

\* watchJob up to its first poll
StartWatch(r) ==
  /\ r \in starting /\ Len(calls) < MaxCalls
  /\ starting' = starting \ {r}
  /\ current' = r /\ busy' = TRUE /\ panel' = Hidden
  /\ calls' = Append(calls, Status(r, "watch"))
  /\ UNCHANGED <<catalogue, jobs, timer, sent, crossed>>

\* The form could not be sent: showError.
StartFails(r) ==
  /\ r \in starting
  /\ starting' = starting \ {r}
  /\ timer' = None /\ busy' = FALSE
  /\ UNCHANGED <<catalogue, jobs, current, calls, sent, panel, crossed>>

Tick ==
  /\ timer # None /\ Len(calls) < MaxCalls
  /\ calls' = Append(calls, Status(timer, "timer"))
  /\ UNCHANGED <<catalogue, jobs, starting, current, timer, busy, sent, panel, crossed>>

----------------------------------------------------------------------------
(* The answers of pollJob. *)

\* The rest of watchJob after its poll has ended and left the timer at t.
TimerAfter(c, t) == IF c.for = "watch" /\ t = None THEN c.run ELSE t

\* The job has ended or goes on.
GetStatus(n) ==
  LET c == calls[n] IN
  /\ c.asks = "status" /\ c.told # "-"
  /\ IF c.told = "complete"
     THEN /\ timer' = None /\ busy' = FALSE
          /\ calls' = [calls EXCEPT ![n] = Asking(c, "result")]
     ELSE /\ calls' = RemoveAt(calls, n)
          /\ IF c.told = "over"
             THEN timer' = TimerAfter(c, None) /\ busy' = FALSE
             ELSE timer' = TimerAfter(c, timer) /\ UNCHANGED busy
  /\ UNCHANGED <<catalogue, jobs, starting, current, sent, panel, crossed>>

\* Mutant: the run of the result is not made the current one.
GetResultOnly(n) ==
  LET c == calls[n] IN
  /\ c.asks = "result"
  /\ panel' = [Hidden EXCEPT !.visible = {"panel", "form"}]
  /\ calls' = [calls EXCEPT ![n] = Asking(c, "offer")]
  /\ crossed' = (crossed \/ \E i \in DOMAIN calls : calls[i].asks = "offer" /\ calls[i].run # c.run)
  /\ UNCHANGED <<catalogue, jobs, starting, current, timer, busy, sent>>

\* The result is shown; its run becomes the current one again, whatever the page
\* has begun to watch since.
GetResult(n) ==
  LET c == calls[n] IN
  /\ c.asks = "result"
  /\ current' = c.run
  /\ panel' = [Hidden EXCEPT !.visible = {"panel", "form"}]
  /\ calls' = [calls EXCEPT ![n] = Asking(c, "offer")]
  /\ crossed' = (crossed \/ \E i \in DOMAIN calls : calls[i].asks = "offer" /\ calls[i].run # c.run)
  /\ UNCHANGED <<catalogue, jobs, starting, timer, busy, sent>>

\* The offer goes to the panel as it is by now.
GetOffer(n) ==
  LET c == calls[n] IN
  /\ c.asks = "offer" /\ c.told # "-"
  /\ panel' = IF c.told = "eligible" THEN [visible |-> panel.visible \cup {"form"}, from |-> c.run]
              ELSE NoForm
  /\ timer' = TimerAfter(c, timer)
  /\ calls' = RemoveAt(calls, n)
  /\ UNCHANGED <<catalogue, jobs, starting, current, busy, sent, crossed>>

\* Mutant: an error leaves the form disabled.
CallFailsBusy(n) ==
  LET c == calls[n] IN
  /\ calls' = RemoveAt(calls, n)
  /\ IF c.asks = "offer"
     THEN timer' = TimerAfter(c, timer) /\ panel' = NoForm
     ELSE timer' = None /\ UNCHANGED panel
  /\ UNCHANGED <<catalogue, jobs, starting, current, busy, sent, crossed>>

\* A request fails.  The panel shows why; a failure of a poll ends up in showError,
\* which stops the timer, whatever it polls, and ends watchJob.
CallFails(n) ==
  LET c == calls[n] IN
  /\ calls' = RemoveAt(calls, n)
  /\ IF c.asks = "offer"
     THEN /\ timer' = TimerAfter(c, timer) /\ panel' = NoForm
          /\ UNCHANGED busy
     ELSE timer' = None /\ busy' = FALSE /\ UNCHANGED panel
  /\ UNCHANGED <<catalogue, jobs, starting, current, sent, crossed>>

Answered(n) == Serve(n) \/ GetStatus(n) \/ GetResult(n) \/ GetOffer(n) \/ CallFails(n)

----------------------------------------------------------------------------
(* The form of the panel. *)

\* The form is sent and stays as it is.  Bound: one registration waits at a time.
SubmitRegistration ==
  /\ panel.visible = {"panel", "form"} /\ current # None /\ sent = None
  /\ sent' = [run |-> current, told |-> "-"]
  /\ UNCHANGED <<catalogue, jobs, starting, current, timer, busy, calls, panel, crossed>>

\* The answer: once the run is listed the form is hidden, whatever run it is for by
\* now.
GetListing ==
  /\ sent # None /\ sent.told # "-"
  /\ panel' = IF sent.told = "listed" THEN NoForm ELSE panel
  /\ sent' = None
  /\ UNCHANGED <<catalogue, jobs, starting, current, timer, busy, calls, crossed>>

\* The request or its answer is lost.
SubmitFails ==
  /\ sent # None /\ sent' = None
  /\ UNCHANGED <<catalogue, jobs, starting, current, timer, busy, calls, panel, crossed>>

Submission ==
  \/ SubmitRegistration \/ GetListing \/ SubmitFails
  \/ \E o \in Ids, now \in Stamps : ServeListing(o, now)

----------------------------------------------------------------------------

\* The page is opened, perhaps to watch a run.
PageInit ==
  /\ Init
  /\ jobs \in [Runs -> States \cup {None}]
  /\ starting = {r \in Runs : jobs[r] # None} /\ starting \subseteq {1}
  /\ current = None /\ timer = None /\ busy = FALSE
  /\ calls = <<>> /\ sent = None /\ panel = Hidden /\ crossed = FALSE

Starts(r) == StartWatch(r) \/ StartFails(r)

PageNext ==
  \/ \E r \in Runs : JobStarts(r) \/ JobEnds(r) \/ JobRevoked(r) \/ PressValidate(r) \/ Starts(r)
  \/ Elsewhere \/ Tick \/ Submission
  \/ \E n \in DOMAIN calls : Answered(n)

PageSafe == PageInit /\ [][PageNext]_vars

\* Every poll, and the request that starts a validation, is answered or fails, and
\* the timer runs.  Nothing is assumed of jobs: one that was not started may never
\* be, and one that runs need not end.
PageSpec ==
  /\ PageSafe
  /\ \A r \in Runs : WF_vars(Starts(r))
  /\ WF_vars(Tick)
  /\ WF_vars(calls # <<>> /\ Answered(1))

----------------------------------------------------------------------------
(* Properties. *)

PageTypeOK ==
  /\ jobs \in [Runs -> States \cup {None}]
  /\ starting \subseteq Runs /\ current \in Runs \cup {None} /\ timer \in Runs \cup {None}
  /\ busy \in BOOLEAN /\ calls \in Seq(Call) /\ Len(calls) <= MaxCalls
  /\ sent \in Sent \cup {None} /\ panel \in Panel /\ crossed \in BOOLEAN
  /\ \A r \in starting \cup ({timer} \ {None}) : jobs[r] # None
  /\ \A n \in DOMAIN calls : jobs[calls[n].run] # None

\* The form that a user sees is filled in with what was offered for the very run
\* that will be registered, however many validations the page has started and
\* whichever answers are late, unless offers of two runs were under way together.
FormFitsRun == ~crossed /\ "panel" \in panel.visible /\ panel.from # None => panel.from = current

\* A page that is busy or polls comes to rest, again and again, whichever requests
\* fail and however late answers are, unless it follows one job for ever that does
\* not end: no poll of another job or of an earlier time keeps it going, and nothing
\* leaves its form disabled without a timer.
PageSettles ==
  \/ []<>(~busy /\ timer = None)
  \/ \E r \in Runs : <>[](timer = r /\ jobs[r] \in Unfinished)
=============================================================================
