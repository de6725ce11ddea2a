---------------------------- MODULE HarvestJob ----------------------------
(***************************************************************************)
(* One harvest run and everything that is executed for it: background      *)
(* workers, synchronous validations and validations of a single phase      *)
(* (session/store.py HarvestRun, service/validation_job.py,                *)
(* service/harvest_runner.py, http/harvest.py, http/validator.py).         *)
(*                                                                         *)
(* All of it runs on one event loop: what an execution does between two    *)
(* awaits is one step.  It awaits only the answers of the registry under   *)
(* test, so a step ends a phase; requests and other executions come in     *)
(* between.  Executions are numbered in the order in which they start, and *)
(* a result is named by the execution it comes from.                       *)
(***************************************************************************)
EXTENDS Naturals, Sequences

CONSTANTS
  MaxExecs,    \* bound on the executions of a run
  None,        \* no execution, no report, no error
  Blank,       \* the empty text, as str(exc) of a timeout of httpx is
  Messages     \* texts of exceptions, Blank among them or not

ASSUME ExecAssumption ==
  /\ MaxExecs \in Nat
  /\ None \notin Nat /\ None \notin [by : 1..MaxExecs, ok : BOOLEAN]
ASSUME MessageAssumption == None \notin Messages /\ Blank # None

Execs == 1..MaxExecs

VARIABLES
  cache,       \* the run was created by a request with cache=true
  canceled,
  error,       \* validation_error
  task,        \* background_task: the last worker
  oai, ivoa, vor, resources,   \* results of single phases
  identity,    \* identify_oai_identifier and identify_title
  merged,      \* merged_validation, and whether its counts allow registration
  rows,        \* status_rows
  exec,        \* the executions
  cancelling   \* workers whose cancellation is requested

results == <<oai, ivoa, vor, resources, identity, merged>>
vars == <<cache, canceled, error, task, results, rows, exec, cancelling>>

\* "worker" and "whole" run all phases, the others one phase.
Kinds == {"worker", "whole", "oai", "ivoa", "vor"}
Points == {"unused", "new", "oai", "ivoa", "vor", "over"}

Execution == [kind : Kinds, at : Points]
Unused == [kind |-> "whole", at |-> "unused"]

Row(e, phase, status) == [by |-> e, phase |-> phase, status |-> status]

At(e) == exec[e].at
Active(e) == At(e) \notin {"unused", "over"}
Whole(e) == exec[e].kind \in {"worker", "whole"}
Worker(e) == exec[e].kind = "worker"

\* A cancelled task does nothing more but end.
GoesOn(e, at) == At(e) = at /\ e \notin cancelling

MoveTo(e, at) == exec' = [exec EXCEPT ![e].at = at]

\* Only the executions that run all phases report their progress.
Report(e, new) == rows' = IF Whole(e) THEN rows \o new ELSE rows

----------------------------------------------------------------------------
(* Requests. *)

\* Executions start in the order of their numbers.
Begin(e, kind, at) ==
  /\ At(e) = "unused" /\ \A d \in 1..(e - 1) : At(d) # "unused"
  /\ exec' = [exec EXCEPT ![e] = [kind |-> kind, at |-> at]]

TaskRuns == task # None /\ Active(task)

\* Mutant: a worker is started whether or not another one runs.
SpawnAlways ==
  /\ \E e \in Execs : Begin(e, "worker", "new") /\ task' = e
  /\ UNCHANGED rows

\* spawn_harvest_validation
Spawn ==
  /\ IF TaskRuns
     THEN UNCHANGED <<exec, task>>
     ELSE \E e \in Execs : Begin(e, "worker", "new") /\ task' = e
  /\ UNCHANGED rows

\* execute_harvest_validation within the request, up to its first await
ValidateNow ==
  \E e \in Execs :
    /\ Begin(e, "whole", "oai")
    /\ rows' = Append(rows, Row(e, "oai", "running"))
    /\ UNCHANGED task

\* op=Validate, or no op at all, which is let through for a canceled run too.
\* The run's own cache flag decides, not that of the request.  The form of the
\* validator page creates a run with cache=true and spawns its worker.
Validate ==
  /\ IF cache THEN Spawn ELSE ValidateNow
  /\ UNCHANGED <<cache, canceled, error, results, cancelling>>

\* op=ValidateOAI, ValidateIVOA and ValidateVOR
ValidatePhase(kind) ==
  /\ ~canceled
  /\ \E e \in Execs : Begin(e, kind, kind)
  /\ UNCHANGED <<cache, canceled, error, task, results, rows, cancelling>>

\* Mutant: the task is cancelled without a look whether there is one.
CancelAnyTask ==
  /\ canceled' = TRUE
  /\ cancelling' = cancelling \cup {task}
  /\ UNCHANGED <<cache, error, task, results, rows, exec>>

\* op=Cancel: synchronous executions go on.
Cancel ==
  /\ canceled' = TRUE
  /\ cancelling' = IF TaskRuns THEN cancelling \cup {task} ELSE cancelling
  /\ UNCHANGED <<cache, error, task, results, rows, exec>>

Request ==
  \/ Validate
  \/ \E kind \in {"oai", "ivoa", "vor"} : ValidatePhase(kind)
  \/ Cancel

----------------------------------------------------------------------------
(* Executions. *)

WorkerStart(e) ==
  /\ GoesOn(e, "new")
  /\ MoveTo(e, "oai")
  /\ Report(e, <<Row(e, "start", "running"), Row(e, "oai", "running")>>)
  /\ UNCHANGED <<cache, canceled, error, task, results, cancelling>>

OaiDone(e) ==
  /\ GoesOn(e, "oai")
  /\ oai' = e
  /\ MoveTo(e, IF Whole(e) THEN "ivoa" ELSE "over")
  /\ Report(e, <<Row(e, "oai", "completed"), Row(e, "ivoa", "running")>>)
  /\ UNCHANGED <<cache, canceled, error, task, ivoa, vor, resources, identity, merged,
                 cancelling>>

\* Mutant: the identity that was found first is kept.
IvoaDoneOnce(e) ==
  /\ GoesOn(e, "ivoa")
  /\ ivoa' = e
  /\ identity' = IF Whole(e) /\ identity = None THEN e ELSE identity
  /\ MoveTo(e, IF Whole(e) THEN "vor" ELSE "over")
  /\ Report(e, <<Row(e, "ivoa", "completed"), Row(e, "vor", "running")>>)
  /\ UNCHANGED <<cache, canceled, error, task, oai, vor, resources, merged, cancelling>>

\* validate_ivoa_only drops the identity it finds.
IvoaDone(e) ==
  /\ GoesOn(e, "ivoa")
  /\ ivoa' = e
  /\ identity' = IF Whole(e) THEN e ELSE identity
  /\ MoveTo(e, IF Whole(e) THEN "vor" ELSE "over")
  /\ Report(e, <<Row(e, "ivoa", "completed"), Row(e, "vor", "running")>>)
  /\ UNCHANGED <<cache, canceled, error, task, oai, vor, resources, merged, cancelling>>

\* The last page of phase 3 and the merging of the reports, without an await in
\* between.  The pages before it, an await each for as long as the registry hands
\* out tokens (RecordHarvest), change nothing here: while they are read the
\* execution stays at "vor".
VorDone(e) ==
  /\ GoesOn(e, "vor")
  /\ resources' = e /\ vor' = e
  /\ \E ok \in BOOLEAN :
       merged' = IF Whole(e) THEN [by |-> e, ok |-> ok] ELSE merged
  /\ MoveTo(e, "over")
  /\ Report(e, <<Row(e, "vor", "completed")>>
                 \o (IF Worker(e) THEN <<Row(e, "done", "completed")>> ELSE <<>>))
  /\ UNCHANGED <<cache, canceled, error, task, oai, ivoa, identity, cancelling>>

\* Mutant: the worker's handler reports the exception but does not keep it.
RaiseUnkept(e, text) ==
  /\ \E at \in {"oai", "ivoa", "vor"} : GoesOn(e, at)
  /\ resources' \in IF At(e) = "vor" THEN {resources, e} ELSE {resources}
  /\ UNCHANGED error
  /\ rows' = IF Worker(e) THEN Append(rows, Row(e, "done", "error")) ELSE rows
  /\ MoveTo(e, "over")
  /\ UNCHANGED <<cache, canceled, task, oai, ivoa, vor, identity, merged, cancelling>>

\* A phase raises an exception, in phase 3 before or after the harvest.  A
\* worker keeps its text; a request answers 500 and leaves the run as it is.
Raise(e, text) ==
  /\ \E at \in {"oai", "ivoa", "vor"} : GoesOn(e, at)
  /\ resources' \in IF At(e) = "vor" THEN {resources, e} ELSE {resources}
  /\ IF Worker(e)
     THEN error' = text /\ rows' = Append(rows, Row(e, "done", "error"))
     ELSE UNCHANGED <<error, rows>>
  /\ MoveTo(e, "over")
  /\ UNCHANGED <<cache, canceled, task, oai, ivoa, vor, identity, merged, cancelling>>

\* Mutant: only exceptions of class Exception are reported.
CancelSilently(e) ==
  /\ e \in cancelling /\ Active(e)
  /\ MoveTo(e, "over")
  /\ UNCHANGED <<cache, canceled, error, task, results, rows, cancelling>>

\* Mutant: phase 3 swallows the CancelledError and asks for the next page.
CancelMissed(e) ==
  /\ e \in cancelling /\ Active(e) /\ At(e) # "vor"
  /\ MoveTo(e, "over")
  /\ rows' = Append(rows, Row(e, "done", "canceled"))
  /\ UNCHANGED <<cache, canceled, error, task, results, cancelling>>

\* CancelledError in a worker; one that has not started yet never runs, not even
\* its handler.
CancelDelivered(e) ==
  /\ e \in cancelling /\ Active(e)
  /\ MoveTo(e, "over")
  /\ rows' = IF At(e) = "new" THEN rows ELSE Append(rows, Row(e, "done", "canceled"))
  /\ UNCHANGED <<cache, canceled, error, task, results, cancelling>>

Proceed(e) ==
  \/ WorkerStart(e) \/ OaiDone(e) \/ IvoaDone(e) \/ VorDone(e)
  \/ \E text \in Messages : Raise(e, text)
  \/ CancelDelivered(e)

Init ==
  /\ cache \in BOOLEAN
  /\ canceled = FALSE
  /\ error = None /\ task = None
  /\ oai = None /\ ivoa = None /\ vor = None /\ resources = None
  /\ identity = None /\ merged = None
  /\ rows = <<>>
  /\ exec = [e \in Execs |-> Unused]
  /\ cancelling = {}

Next == Request \/ \E e \in Execs : Proceed(e)

Spec == Init /\ [][Next]_vars

\* Every answer of the registry comes or times out, and the event loop resumes
\* whoever waits for it: phases 1 and 2, which send a fixed list of requests, come
\* to an end.  Nothing is assumed of phase 3, which asks for pages as long as it is
\* given tokens, but that a CancelledError is raised in it.
Fairness ==
  \A e \in Execs : WF_vars(At(e) # "vor" /\ Proceed(e)) /\ WF_vars(CancelDelivered(e))

FairSpec == Spec /\ Fairness

----------------------------------------------------------------------------
(* What the job's pages show. *)

\* An empty text counts as no error.
Failed == error \notin {None, Blank}

\* Mutant: a running worker comes before the report there is.
RunningFirst ==
  CASE canceled -> "canceled"
    [] ~canceled /\ Failed -> "error"
    [] ~canceled /\ ~Failed /\ TaskRuns -> "running"
    [] ~canceled /\ ~Failed /\ ~TaskRuns /\ (merged # None \/ task # None) -> "complete"
    [] OTHER -> "pending"

\* Mutant: the report there is hides that the last validation failed.
ReportFirst ==
  CASE canceled -> "canceled"
    [] ~canceled /\ merged # None -> "complete"
    [] ~canceled /\ merged = None /\ Failed -> "error"
    [] ~canceled /\ merged = None /\ ~Failed /\ TaskRuns -> "running"
    [] ~canceled /\ merged = None /\ ~Failed /\ ~TaskRuns /\ task # None -> "complete"
    [] OTHER -> "pending"

\* job_state
JobState ==
  CASE canceled -> "canceled"
    [] ~canceled /\ Failed -> "error"
    [] ~canceled /\ ~Failed /\ merged # None -> "complete"
    [] ~canceled /\ ~Failed /\ merged = None /\ TaskRuns -> "running"
    [] ~canceled /\ ~Failed /\ merged = None /\ task # None /\ ~TaskRuns -> "complete"
    [] OTHER -> "pending"

\* status_payload's done: the page stops polling.
Done == JobState \in {"complete", "error", "canceled"}

\* eligible_for_registration, the counts and the schemas being in merged.ok
Eligible == merged # None /\ ~Failed /\ merged.ok

----------------------------------------------------------------------------
(* Properties. *)

TypeOK ==
  /\ cache \in BOOLEAN /\ canceled \in BOOLEAN
  /\ error \in Messages \cup {None}
  /\ \A r \in {task, oai, ivoa, vor, resources, identity} : r \in Execs \cup {None}
  /\ merged \in [by : Execs, ok : BOOLEAN] \cup {None}
  /\ rows \in Seq([by : Execs, phase : {"start", "oai", "ivoa", "vor", "done"},
                   status : {"running", "completed", "canceled", "error"}])
  /\ exec \in [Execs -> Execution]
  /\ cancelling \subseteq Execs

\* A run never has two workers at a time, whatever requests and cancellations
\* come in between (the guard of spawn_harvest_validation).
OneWorker == \A d, e \in Execs : Worker(d) /\ Worker(e) /\ Active(d) /\ Active(e) => d = e

\* A worker that ran at all ends with exactly one row of phase "done", by which
\* clients of op=GetStatus know the end; nothing of it follows.
EndsOnce ==
  /\ \A m \in DOMAIN rows :
       rows[m].phase = "done" =>
         /\ ~Active(rows[m].by)
         /\ \A n \in (m + 1)..Len(rows) : rows[n].by # rows[m].by
  /\ \A e \in Execs :
       Worker(e) /\ At(e) = "over" /\ (\E n \in DOMAIN rows : rows[n].by = e)
         => \E n \in DOMAIN rows : rows[n].by = e /\ rows[n].phase = "done"

\* In a run of background workers the identity that registration trusts is never
\* older than the report that makes the run eligible, and is the report's own
\* once the last worker has ended without an error.
IdentityFits ==
  cache /\ merged # None =>
    /\ identity # None /\ merged.by <= identity
    /\ ~TaskRuns /\ ~canceled /\ error = None => identity = merged.by

\* "complete" promises a result page.
CompleteHasReport == JobState = "complete" => merged # None

\* Once the state says that the job is done, pages stop asking: it stays done.
DoneIsFinal == [][Done => Done']_vars

\* A worker ends, with a result, an exception or canceled, unless the registry
\* keeps it in the harvest of phase 3 for ever; a request to cancel it ends even
\* that.
WorkerEnds ==
  \A e \in Execs :
    (Worker(e) /\ Active(e))
      ~> (At(e) = "over" \/ [](At(e) = "vor" /\ e \notin cancelling))

\* Runs with all their executions, cancellations and exceptions are jobs as the
\* pages expect them: complete only with a report, final states are not left for
\* others that are not, and no report is lost.
Contract == INSTANCE Job WITH job <- [state |-> JobState, report |-> merged # None]
ImplementsJob == Contract!Spec

\* "After a successful validation [...] the validator offers registration"
\* (README): the last validation counts, not an error before it.
SuccessOffersRegistration ==
  task # None /\ ~TaskRuns /\ merged # None => (merged.by = task /\ merged.ok => Eligible)
=============================================================================
