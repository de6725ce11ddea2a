-------------------------------- MODULE Job --------------------------------
(***************************************************************************)
(* What a validation job promises to those who watch it, whatever          *)
(* executes it: the state that its status shows and whether there is a     *)
(* report (service/validation_job.py, http/validator.py).  HarvestJob is   *)
(* the detailed module and is shown to implement it; the page that watches *)
(* jobs (WatchPage) knows no more of them than this.                       *)
(***************************************************************************)

VARIABLE job

States == {"pending", "running", "complete", "error", "canceled"}
Final == {"complete", "error", "canceled"}

\* "complete" promises a report.
Jobs == {j \in [state : States, report : BOOLEAN] : j.state = "complete" => j.report}

Pending == [state |-> "pending", report |-> FALSE]
Running == [state |-> "running", report |-> FALSE]

----------------------------------------------------------------------------
(* The steps from j to k. *)

\* A worker is started.
Starts(j, k) == j = Pending /\ k = Running

\* A report is merged: of a worker, or of a validation within a request.
Completes(j, k) ==
  j.state \in {"pending", "running"} /\ k = [state |-> "complete", report |-> TRUE]

\* A worker raises, the first one or a later one.
Fails(j, k) ==
  j.state \in {"running", "complete"} /\ k = [j EXCEPT !.state = "error"]

Cancels(j, k) == j.state # "canceled" /\ k = [j EXCEPT !.state = "canceled"]

\* A job that failed or was canceled goes on, or is validated again; its state
\* says nothing of that.
ReportsLate(j, k) ==
  j.state \in {"error", "canceled"} /\ k = [state |-> j.state, report |-> TRUE]

Moves(j, k) ==
  Starts(j, k) \/ Completes(j, k) \/ Fails(j, k) \/ Cancels(j, k) \/ ReportsLate(j, k)

----------------------------------------------------------------------------

Init == job = Pending

Next == job' \in Jobs /\ Moves(job, job')

Spec == Init /\ [][Next]_job
=============================================================================
