---------------------------- MODULE JobProgress ----------------------------
(***************************************************************************)
(* What the status of a job shows of its progress, computed anew for each  *)
(* poll from the rows that the workers left (service/validation_job.py).   *)
(***************************************************************************)
EXTENDS HarvestJob, FiniteSets, FiniteSetsExt

Phases == {"oai", "ivoa", "vor"}
First == "oai"
Before == {<<"oai", "ivoa">>, <<"oai", "vor">>, <<"ivoa", "vor">>}

\* The rows of some phases with one status, and the phase of the last of some rows.
RowsOf(phases, status) ==
  {n \in DOMAIN rows : rows[n].phase \in phases /\ rows[n].status = status}
LastPhase(S) == IF S = {} THEN "" ELSE rows[Max(S)].phase

Completed(p) == RowsOf({p}, "completed") # {}

\* The phase that was started last; that it is completed does not reset it.
ActivePhase ==
  IF JobState = "complete" THEN ""
  ELSE LastPhase(RowsOf(Phases, "running"))

LatestPhase == LastPhase(DOMAIN rows)

\* Mutant: the phase of the last row is the one that failed.
LatestIsErrorPhase == IF LatestPhase \in Phases THEN LatestPhase ELSE First

\* error_at
ErrorPhase ==
  IF ActivePhase # "" THEN ActivePhase
  ELSE IF LatestPhase \in Phases THEN LatestPhase ELSE First

\* Nothing has been reported yet, but something is about to start.
AboutToStart(p) ==
  /\ ActivePhase = "" /\ JobState \in {"pending", "running"}
  /\ p = First /\ \A q \in Phases : ~Completed(q)

\* phase_step_states
StepStatus(p) ==
  IF JobState = "complete" \/ Completed(p) THEN "complete"
  ELSE IF JobState = "error" /\ p = ErrorPhase THEN "error"
  ELSE IF ActivePhase = p \/ AboutToStart(p) THEN "active" ELSE "pending"

StepsThatAre(status) == {p \in Phases : StepStatus(p) = status}

\* progress_percent: each phase is a third, one that is active 45% of a third.
Percent ==
  LET whole == (Cardinality(StepsThatAre("complete")) * 100
                  + IF StepsThatAre("active") # {} THEN 45 ELSE 0) \div 3
      least == IF whole < 5 THEN 5 ELSE whole
  IN
  IF JobState = "complete" THEN 100 ELSE IF least > 99 THEN 99 ELSE least

----------------------------------------------------------------------------
(* Properties. *)

\* The progress of a job that is shown to be pending or running never goes back,
\* whatever single phases are validated beside its worker and however often the
\* worker is asked for: the rows of two workers would mix.
ProgressNeverBack == [][cache /\ ~Done /\ ~Done' => Percent' >= Percent]_vars

Result(p) == CASE p = "oai" -> oai [] p = "ivoa" -> ivoa [] p = "vor" -> vor

OnlyWorker == \A e \in Execs : Worker(e) => e = task

\* When a job's first worker fails, the page shows exactly one step as failed;
\* the phases before it have results and are shown as complete, those after it
\* are still to come.
FailedStepShown ==
  cache /\ JobState = "error" /\ OnlyWorker =>
    \E p \in Phases :
      /\ StepStatus(p) = "error"
      /\ \A q \in Phases :
           /\ <<q, p>> \in Before => StepStatus(q) = "complete" /\ Result(q) # None
           /\ <<p, q>> \in Before => StepStatus(q) = "pending"
=============================================================================
