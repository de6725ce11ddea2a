------------------------- MODULE JobProgressProofs -------------------------
(***************************************************************************)
(* Theorems about the progress that the status of a job shows, for any     *)
(* number of executions and any texts of exceptions.                       *)
(***************************************************************************)
EXTENDS JobProgress, HarvestJobProofs, FiniteSetTheorems

----------------------------------------------------------------------------
(* The inductive invariant.  The rows tell how far a run's only worker got: *)
(* the phases before the one that it is in are completed and have results.  *)

\* The rows of a worker that has started phase p, or no phase yet.
Stage(p) ==
  /\ \A q \in Phases : Completed(q) <=> <<q, p>> \in Before
  /\ \A q \in Phases : <<q, p>> \in Before => Result(q) # None
  /\ IF p = "" THEN RowsOf(Phases, "running") = {}
     ELSE \E m \in RowsOf(Phases, "running") :
            /\ rows[m].phase = p
            /\ \A n \in RowsOf(Phases, "running") : n <= m

Begun == task # None /\ At(task) # "new"
StageNow == IF Begun THEN At(task) ELSE ""

ProgressInv ==
  cache /\ ~canceled /\ OnlyWorker =>
    /\ StageNow # "over" => Stage(StageNow) /\ error = None
    /\ StageNow = "over" /\ error # None => \E p \in Phases : Stage(p)

\* A second worker is started only when the run shows why the first one is over.
OnlyOrCaused == OnlyWorker \/ Caused

----------------------------------------------------------------------------
(* What new rows change of a stage.                                        *)

\* Rows are the old ones and then the new ones.
LEMMA Appended ==
  ASSUME TypeOK, NEW new \in Rows, rows' = rows \o new
  PROVE  /\ Len(rows) \in Nat /\ Len(new) \in Nat /\ DOMAIN rows = 1..Len(rows)
         /\ DOMAIN rows' = 1..(Len(rows) + Len(new))
         /\ \A n \in DOMAIN rows : n \in DOMAIN rows' /\ rows'[n] = rows[n]
         /\ \A k \in 1..Len(new) : Len(rows) + k \in DOMAIN rows' /\ rows'[Len(rows) + k] = new[k]
         /\ \A n \in DOMAIN rows' :
              n \in DOMAIN rows \/ \E k \in 1..Len(new) : n = Len(rows) + k /\ rows'[n] = new[k]
<1>0. rows \in Rows
  BY DEF TypeOK, Rows
<1>1. /\ Len(rows) \in Nat /\ Len(new) \in Nat /\ DOMAIN rows = 1..Len(rows)
      /\ DOMAIN rows' = 1..(Len(rows) + Len(new))
      /\ \A n \in 1..Len(rows) : rows'[n] = rows[n]
      /\ \A n \in 1..Len(new) : rows'[Len(rows) + n] = new[n]
  BY <1>0, Concatenated
<1>2. ASSUME NEW n \in DOMAIN rows', n \notin DOMAIN rows
      PROVE  \E k \in 1..Len(new) : n = Len(rows) + k /\ rows'[n] = new[k]
  <2>1. n \in 1..(Len(rows) + Len(new)) /\ ~(n \in 1..Len(rows))
    BY <1>1, <1>2
  <2>2. n - Len(rows) \in 1..Len(new) /\ n = Len(rows) + (n - Len(rows))
    BY <1>1, <2>1, PlaceInSecond
  <2>3. QED
    BY <1>1, <2>2
<1>3. \A n \in DOMAIN rows : n \in DOMAIN rows'
  BY <1>1
<1>4. \A k \in 1..Len(new) : Len(rows) + k \in DOMAIN rows'
  BY <1>1
<1>5. QED
  BY <1>1, <1>2, <1>3, <1>4

\* Of new rows of which the last starts a phase.
LEMMA PhaseStarts ==
  ASSUME TypeOK, NEW new \in Rows, rows' = rows \o new, Len(new) = 2,
         new[2].phase \in Phases, new[2].status = "running"
  PROVE  /\ \A q : Completed(q)' <=>
              Completed(q) \/ (new[1].phase = q /\ new[1].status = "completed")
         /\ \E m \in RowsOf(Phases, "running")' :
              /\ rows'[m].phase = new[2].phase
              /\ \A n \in RowsOf(Phases, "running")' : n <= m
<1> DEFINE l == Len(rows)
<1>1. /\ l \in Nat /\ DOMAIN rows' = 1..(l + 2)
      /\ \A n \in DOMAIN rows : n \in DOMAIN rows' /\ rows'[n] = rows[n]
      /\ l + 1 \in DOMAIN rows' /\ rows'[l + 1] = new[1]
      /\ l + 2 \in DOMAIN rows' /\ rows'[l + 2] = new[2]
      /\ \A n \in DOMAIN rows' : n \in DOMAIN rows \/ n = l + 1 \/ n = l + 2
  <2>1. 1 \in 1..Len(new) /\ 2 \in 1..Len(new) /\ \A k \in 1..Len(new) : k = 1 \/ k = 2
    OBVIOUS
  <2>2. QED
    BY <2>1, Appended
<1> HIDE DEF l
<1>2. new[2].status # "completed"
  OBVIOUS
<1>3. \A q : Completed(q)' <=>
        Completed(q) \/ (new[1].phase = q /\ new[1].status = "completed")
  BY <1>1, <1>2 DEF Completed, RowsOf
<1>4. l + 2 \in RowsOf(Phases, "running")' /\ \A n \in RowsOf(Phases, "running")' : n <= l + 2
  BY <1>1 DEF RowsOf, Phases
<1>5. QED
  BY <1>1, <1>3, <1>4

\* Of one new row that belongs to no phase.
LEMMA NoPhaseStarts ==
  ASSUME TypeOK, NEW new \in Rows, rows' = rows \o new, Len(new) = 1, new[1].phase \notin Phases
  PROVE  /\ \A q \in Phases : Completed(q)' <=> Completed(q)
         /\ RowsOf(Phases, "running")' = RowsOf(Phases, "running")
         /\ \A m \in RowsOf(Phases, "running") : rows'[m] = rows[m]
<1> DEFINE l == Len(rows)
<1>1. /\ \A n \in DOMAIN rows : n \in DOMAIN rows' /\ rows'[n] = rows[n]
      /\ \A n \in DOMAIN rows' : n \in DOMAIN rows \/ rows'[n] = new[1]
  <2>1. \A k \in 1..Len(new) : k = 1
    OBVIOUS
  <2>2. QED
    BY <2>1, Appended
<1>2. \A q \in Phases : Completed(q)' <=> Completed(q)
  BY <1>1 DEF Completed, RowsOf
<1>3. RowsOf(Phases, "running")' = RowsOf(Phases, "running")
  BY <1>1 DEF RowsOf, Phases
<1>4. \A m \in RowsOf(Phases, "running") : rows'[m] = rows[m]
  BY <1>1 DEF RowsOf
<1>5. QED
  BY <1>2, <1>3, <1>4

LEMMA StageKept ==
  ASSUME NEW p, Stage(p), rows' = rows, \A q \in Phases : Result(q) # None => Result(q)' # None
  PROVE  Stage(p)'
BY DEF Stage, Completed, RowsOf

LEMMA StageMoves ==
  ASSUME TypeOK, NEW e \in Execs, NEW p, NEW q \in Phases, Stage(p),
         NEW x \in {"start", "oai", "ivoa"}, NEW s \in {"running", "completed"},
         rows' = rows \o <<Row(e, x, s), Row(e, q, "running")>>,
         \A r \in Phases : <<r, q>> \in Before <=> <<r, p>> \in Before \/ (x = r /\ s = "completed"),
         \A r \in Phases : <<r, q>> \in Before => Result(r)' # None
  PROVE  Stage(q)'
<1> DEFINE a == Row(e, x, s)
           b == Row(e, q, "running")
           new == <<a, b>>
<1>1. /\ a.phase = x /\ a.status = s /\ b.phase = q /\ b.status = "running"
  BY DEF Row
<1>2. q \in {"oai", "ivoa", "vor"}
  BY DEF Phases
<1>3. new \in Rows
  BY <1>2 DEF Rows, Row
<1> HIDE DEF a, b
<1>4. Len(new) = 2 /\ new[1] = a /\ new[2] = b
  BY OfTwo
<1>5. rows' = rows \o new
  BY DEF a, b
<1> HIDE DEF new
<1>6. /\ \A r : Completed(r)' <=> Completed(r) \/ (a.phase = r /\ a.status = "completed")
      /\ \E m \in RowsOf(Phases, "running")' :
           /\ rows'[m].phase = q
           /\ \A n \in RowsOf(Phases, "running")' : n <= m
  BY <1>1, <1>3, <1>4, <1>5, PhaseStarts
<1>7. \A r \in Phases : Completed(r)' <=> <<r, q>> \in Before
  BY <1>1, <1>6 DEF Stage
<1>8. q # ""
  BY <1>2
<1>9. QED
  BY <1>6, <1>7, <1>8 DEF Stage

LEMMA StageEnds ==
  ASSUME TypeOK, NEW e \in Execs, NEW p, Stage(p),
         rows' = Append(rows, Row(e, "done", "error")),
         \A q \in Phases : Result(q) # None => Result(q)' # None
  PROVE  Stage(p)'
<1> DEFINE new == <<Row(e, "done", "error")>>
<1>1. new \in Rows /\ rows' = rows \o new
  BY OneNewRow
<1>2. Len(new) = 1 /\ new[1].phase = "done"
  BY OfOne DEF Row
<1> HIDE DEF new
<1>3. new[1].phase \notin Phases
  BY <1>2 DEF Phases
<1>4. /\ \A q \in Phases : Completed(q)' <=> Completed(q)
      /\ RowsOf(Phases, "running")' = RowsOf(Phases, "running")
      /\ \A m \in RowsOf(Phases, "running") : rows'[m] = rows[m]
  BY <1>1, <1>2, <1>3, NoPhaseStarts
<1>5. QED
  BY <1>4 DEF Stage

\* The first phase has none before it, and each next one has the one that is left.
LEMMA PhasesInOrder ==
  /\ \A r \in Phases : <<r, "">> \notin Before /\ <<r, "oai">> \notin Before
  /\ \A r \in Phases : <<r, "ivoa">> \in Before <=> r = "oai"
  /\ \A r \in Phases : <<r, "vor">> \in Before <=> r = "oai" \/ r = "ivoa"
BY DEF Phases, Before

----------------------------------------------------------------------------
(* The steps.                                                              *)

Unstarted == \A e \in Execs : At(e) = "unused" => ~Worker(e)

\* A run gets a new worker, or its workers and its task stay who they are.
LEMMA WorkersOfStep ==
  ASSUME JobInv, Unstarted, [Next]_vars
  PROVE  /\ Unstarted'
         /\ \/ task' = task /\ \A d \in Execs : Worker(d)' <=> Worker(d)
            \/ /\ cache /\ ~TaskRuns /\ UNCHANGED <<rows, cache, canceled, error, results>>
               /\ \E e \in Execs :
                    /\ Begin(e, "worker", "new") /\ task' = e
                    /\ ~Worker(e) /\ At(e)' = "new"
                    /\ \A d \in Execs : Worker(d)' <=> Worker(d) \/ d = e
<1>1. ASSUME NEW e \in Execs, NEW kind \in Kinds, NEW at \in Points \ {"unused", "over"},
             Begin(e, kind, at)
      PROVE  /\ Unstarted' /\ ~Worker(e) /\ At(e)' = at
             /\ \A d \in Execs : Worker(d)' <=> (Worker(d) \/ (d = e /\ kind = "worker"))
  <2>1. /\ \A d \in Execs : exec'[d] = IF d = e THEN [kind |-> kind, at |-> at] ELSE exec[d]
        /\ exec[e].at = "unused"
    BY <1>1, BeginFacts DEF JobInv
  <2>2. exec'[e].kind = kind /\ exec'[e].at = at
    BY <2>1
  <2>3. ~Worker(e)
    BY <2>1 DEF Unstarted, At
  <2>4. \A d \in Execs : Worker(d)' <=> (Worker(d) \/ (d = e /\ kind = "worker"))
    BY <2>1, <2>2, <2>3 DEF Worker
  <2>5. Unstarted'
    BY <2>1, <2>2 DEF Unstarted, At, Worker
  <2>6. QED
    BY <2>2, <2>3, <2>4, <2>5 DEF At
<1>2. ASSUME NEW e \in Execs, Proceed(e)
      PROVE  Unstarted' /\ task' = task /\ \A d \in Execs : Worker(d)' <=> Worker(d)
  <2>1. task' = task
    BY <1>2 DEF Proceed, WorkerStart, OaiDone, IvoaDone, VorDone, Raise, CancelDelivered
  <2>2. PICK at \in Points \ {"unused"} : MoveTo(e, at)
    BY <1>2 DEF Proceed, WorkerStart, OaiDone, IvoaDone, VorDone, Raise, CancelDelivered, Points
  <2>3. \A d \in Execs : /\ exec'[d].kind = exec[d].kind
                         /\ exec'[d].at = IF d = e THEN at ELSE exec[d].at
    BY <2>2, MoveFacts DEF JobInv
  <2>4. QED
    BY <2>1, <2>3 DEF Unstarted, At, Worker
<1>3. CASE exec' = exec /\ task' = task
  BY <1>3 DEF Unstarted, At, Worker
<1>4. CASE Validate
  <2>1. CASE cache /\ ~TaskRuns
    <3>1. PICK e \in Execs : Begin(e, "worker", "new") /\ task' = e
      BY <1>4, <2>1 DEF Validate, Spawn
    <3>2. UNCHANGED <<rows, cache, canceled, error, results>>
      BY <1>4, <2>1 DEF Validate, Spawn
    <3>3. /\ Unstarted' /\ ~Worker(e) /\ At(e)' = "new"
          /\ \A d \in Execs : Worker(d)' <=> Worker(d) \/ d = e
      BY <1>1, <3>1 DEF Kinds, Points
    <3>4. QED
      BY <2>1, <3>1, <3>2, <3>3
  <2>2. CASE cache /\ TaskRuns
    BY <1>3, <1>4, <2>2 DEF Validate, Spawn
  <2>3. CASE ~cache
    <3>1. PICK e \in Execs : Begin(e, "whole", "oai") /\ task' = task
      BY <1>4, <2>3 DEF Validate, ValidateNow
    <3>2. Unstarted' /\ \A d \in Execs : Worker(d)' <=> Worker(d)
      BY <1>1, <3>1 DEF Kinds, Points
    <3>3. QED
      BY <3>1, <3>2
  <2>4. QED
    BY <2>1, <2>2, <2>3
<1>5. ASSUME NEW kind \in {"oai", "ivoa", "vor"}, ValidatePhase(kind)
      PROVE  Unstarted' /\ task' = task /\ \A d \in Execs : Worker(d)' <=> Worker(d)
  <2>1. PICK e \in Execs : Begin(e, kind, kind) /\ task' = task
    BY <1>5 DEF ValidatePhase
  <2>2. kind \in Kinds /\ kind \in Points \ {"unused", "over"} /\ kind # "worker"
    BY DEF Kinds, Points
  <2>3. QED
    BY <1>1, <2>1, <2>2
<1>6. CASE Cancel \/ UNCHANGED vars
  BY <1>3, <1>6 DEF Cancel, vars
<1>7. QED
  BY <1>2, <1>4, <1>5, <1>6 DEF Next, Request

LEMMA OnlyOrCausedStep ==
  ASSUME JobInv, Unstarted, OnlyOrCaused, [Next]_vars
  PROVE  OnlyOrCaused'
<1>1. CASE Caused
  BY <1>1, CauseStays DEF OnlyOrCaused
<1>2. CASE OnlyWorker /\ ~Caused
  <2>1. CASE task' = task /\ \A d \in Execs : Worker(d)' <=> Worker(d)
    BY <1>2, <2>1 DEF OnlyOrCaused, OnlyWorker
  <2>2. ASSUME ~TaskRuns, NEW e \in Execs, task' = e,
               \A d \in Execs : Worker(d)' <=> Worker(d) \/ d = e
        PROVE  OnlyOrCaused'
    <3>1. task = None
      BY <1>2, <2>2 DEF JobInv, LastWorker, EndExplained, TaskRuns, Active, Caused
    <3>2. \A d \in Execs : ~Worker(d)
      BY <1>2, <3>1, ExecAssumption DEF OnlyWorker, Execs
    <3>3. QED
      BY <2>2, <3>2 DEF OnlyOrCaused, OnlyWorker
  <2>3. QED
    BY <2>1, <2>2, WorkersOfStep
<1>3. QED
  BY <1>1, <1>2 DEF OnlyOrCaused

\* No result is taken back.
LEMMA ResultsStay ==
  ASSUME [Next]_vars
  PROVE  \A q \in Phases : Result(q) # None => Result(q)' # None
<1>1. CASE Request \/ UNCHANGED vars
  BY <1>1 DEF Request, Validate, ValidatePhase, Cancel, vars, results, Result
<1>2. ASSUME NEW e \in Execs, Proceed(e)
      PROVE  \A q \in Phases : Result(q) # None => Result(q)' # None
  <2>1. e # None
    BY ExecAssumption DEF Execs
  <2>2. QED
    BY <1>2, <2>1 DEF Proceed, WorkerStart, OaiDone, IvoaDone, VorDone, Raise, CancelDelivered,
                      results, Result, Phases
<1>3. QED
  BY <1>1, <1>2 DEF Next

\* Steps that leave the rows, the error and the task's place alone.
LEMMA ProgressKept ==
  ASSUME ProgressInv, cache, ~canceled, OnlyWorker, UNCHANGED <<rows, error, task>>,
         task # None => At(task)' = At(task),
         \A q \in Phases : Result(q) # None => Result(q)' # None
  PROVE  ProgressInv'
<1>1. StageNow' = StageNow
  BY DEF StageNow, Begun
<1>2. /\ StageNow # "over" => Stage(StageNow) /\ error = None
      /\ StageNow = "over" /\ error # None => \E p \in Phases : Stage(p)
  BY DEF ProgressInv
<1>3. \A p : Stage(p) => Stage(p)'
  BY StageKept
<1>4. Stage(StageNow) => Stage(StageNow)'
  BY <1>1, <1>3 DEF Stage
<1>5. QED
  BY <1>1, <1>2, <1>3, <1>4 DEF ProgressInv

\* What the run's only worker does.
LEMMA ProgressOfWorker ==
  ASSUME JobInv, ProgressInv, cache, ~canceled, OnlyWorker, task # None, Proceed(task)
  PROVE  ProgressInv'
<1>1. /\ task \in Execs /\ task' = task /\ Worker(task) /\ Whole(task)
      /\ task \notin cancelling /\ TypeOK
  BY DEF JobInv, TypeOK, LastWorker, EndExplained, Worker, Whole,
         Proceed, WorkerStart, OaiDone, IvoaDone, VorDone, Raise, CancelDelivered
<1>2. \A q \in Phases : Result(q) # None => Result(q)' # None
  BY <1>1, ResultsStay DEF Next
<1>3. At(task) # "over" => Stage(StageNow) /\ error = None
  BY DEF ProgressInv, StageNow, Begun
<1>4. ASSUME NEW at \in Points \ {"unused"}, MoveTo(task, at) PROVE At(task)' = at
  BY <1>1, <1>4, MoveFacts DEF At
<1>5. StageNow = IF At(task) # "new" THEN At(task) ELSE ""
  BY DEF StageNow, Begun
<1>6. StageNow' = IF At(task)' # "new" THEN At(task)' ELSE ""
  BY <1>1 DEF StageNow, Begun
<1>7. CASE WorkerStart(task)
  <2>1. At(task) = "new" /\ MoveTo(task, "oai") /\ error' = error
        /\ rows' = rows \o <<Row(task, "start", "running"), Row(task, "oai", "running")>>
    BY <1>1, <1>7 DEF WorkerStart, GoesOn, Report
  <2>2. At(task)' = "oai" /\ StageNow' = "oai" /\ StageNow = ""
    BY <1>4, <1>5, <1>6, <2>1 DEF Points
  <2>3. Stage("") /\ error = None
    BY <1>3, <2>1, <2>2
  <2>4. Stage("oai")'
    BY <1>1, <2>1, <2>3, PhasesInOrder, StageMoves DEF Phases
  <2>5. QED
    BY <2>1, <2>2, <2>3, <2>4 DEF ProgressInv
<1>8. CASE OaiDone(task)
  <2>1. At(task) = "oai" /\ MoveTo(task, "ivoa") /\ error' = error /\ oai' = task
        /\ rows' = rows \o <<Row(task, "oai", "completed"), Row(task, "ivoa", "running")>>
    BY <1>1, <1>8 DEF OaiDone, GoesOn, Report
  <2>2. At(task)' = "ivoa" /\ StageNow' = "ivoa" /\ StageNow = "oai"
    BY <1>4, <1>5, <1>6, <2>1 DEF Points
  <2>3. Stage("oai") /\ error = None
    BY <1>3, <2>1, <2>2
  <2>4. \A r \in Phases : <<r, "ivoa">> \in Before => Result(r)' # None
    BY <2>1, PhasesInOrder DEF Result
  <2>5. Stage("ivoa")'
    BY <1>1, <2>1, <2>3, <2>4, PhasesInOrder, StageMoves DEF Phases
  <2>6. QED
    BY <2>1, <2>2, <2>3, <2>5 DEF ProgressInv
<1>9. CASE IvoaDone(task)
  <2>1. At(task) = "ivoa" /\ MoveTo(task, "vor") /\ error' = error /\ ivoa' = task
        /\ rows' = rows \o <<Row(task, "ivoa", "completed"), Row(task, "vor", "running")>>
    BY <1>1, <1>9 DEF IvoaDone, GoesOn, Report
  <2>2. At(task)' = "vor" /\ StageNow' = "vor" /\ StageNow = "ivoa"
    BY <1>4, <1>5, <1>6, <2>1 DEF Points
  <2>3. Stage("ivoa") /\ error = None
    BY <1>3, <2>1, <2>2
  <2>4. \A r \in Phases : <<r, "vor">> \in Before => Result(r)' # None
    <3>1. Result("oai")' # None
      BY <1>2, <2>3, PhasesInOrder DEF Stage, Phases
    <3>2. Result("ivoa")' # None
      BY <2>1 DEF Result
    <3>3. QED
      BY <3>1, <3>2, PhasesInOrder
  <2>5. Stage("vor")'
    BY <1>1, <2>1, <2>3, <2>4, PhasesInOrder, StageMoves DEF Phases
  <2>6. QED
    BY <2>1, <2>2, <2>3, <2>5 DEF ProgressInv
<1>10. CASE VorDone(task)
  <2>1. At(task) = "vor" /\ MoveTo(task, "over") /\ error' = error
    BY <1>10 DEF VorDone, GoesOn
  <2>2. StageNow' = "over" /\ error' = None
    BY <1>3, <1>4, <1>6, <2>1 DEF Points
  <2>3. QED
    BY <2>2 DEF ProgressInv
<1>11. ASSUME NEW text \in Messages, Raise(task, text) PROVE ProgressInv'
  <2>1. /\ At(task) \in Phases /\ MoveTo(task, "over")
        /\ rows' = Append(rows, Row(task, "done", "error"))
    BY <1>1, <1>11 DEF Raise, GoesOn, Phases
  <2>2. StageNow' = "over" /\ StageNow = At(task) /\ At(task) # "over"
    BY <1>4, <1>5, <1>6, <2>1 DEF Points, Phases
  <2>3. Stage(At(task))
    BY <1>3, <2>2
  <2>4. \E p \in Phases : Stage(p)'
    BY <1>1, <1>2, <2>1, <2>3, StageEnds
  <2>5. QED
    BY <2>2, <2>4 DEF ProgressInv
<1>12. QED
  BY <1>1, <1>7, <1>8, <1>9, <1>10, <1>11 DEF Proceed, CancelDelivered

\* Executions beside the run's only worker report nothing.
LEMMA ProgressBeside ==
  ASSUME JobInv, ProgressInv, cache, ~canceled, OnlyWorker, NEW e \in Execs, e # task, Proceed(e)
  PROVE  ProgressInv'
<1>1. ~Worker(e) /\ task' = task /\ At(e) \notin {"unused", "over"}
  BY DEF OnlyWorker, Proceed, WorkerStart, OaiDone, IvoaDone, VorDone, Raise, CancelDelivered,
         GoesOn, Active
<1>2. ~Whole(e)
  BY <1>1 DEF JobInv, CachedRun, Whole, Worker
<1>3. e \notin cancelling
  BY DEF JobInv, EndExplained
<1>4. rows' = rows /\ error' = error
  BY <1>1, <1>2, <1>3
     DEF Proceed, WorkerStart, OaiDone, IvoaDone, VorDone, Raise, CancelDelivered, Report
<1>5. \A q \in Phases : Result(q) # None => Result(q)' # None
  BY ResultsStay DEF Next
<1>6. task # None => At(task)' = At(task)
  <2>1. PICK at \in Points \ {"unused"} : MoveTo(e, at)
    BY DEF Proceed, WorkerStart, OaiDone, IvoaDone, VorDone, Raise, CancelDelivered, Points
  <2>2. \A d \in Execs : exec'[d].at = IF d = e THEN at ELSE exec[d].at
    BY <2>1, MoveFacts DEF JobInv
  <2>3. QED
    BY <1>1, <2>2 DEF At, JobInv, TypeOK
<1>7. QED
  BY <1>1, <1>4, <1>5, <1>6, ProgressKept

LEMMA ProgressStep ==
  ASSUME JobInv, Unstarted, ProgressInv, [Next]_vars
  PROVE  ProgressInv'
<1> SUFFICES ASSUME cache', ~canceled', OnlyWorker' PROVE ProgressInv'
  BY DEF ProgressInv
<1>1. cache /\ ~canceled
  <2>1. cache' = cache
    BY DEF Next, Request, Validate, ValidatePhase, Cancel, Proceed, WorkerStart, OaiDone, IvoaDone,
           VorDone, Raise, CancelDelivered, vars
  <2>2. canceled' = canceled \/ canceled' = TRUE
    BY DEF Next, Request, Validate, ValidatePhase, Cancel, Proceed, WorkerStart, OaiDone, IvoaDone,
           VorDone, Raise, CancelDelivered, vars
  <2>3. cache
    BY <2>1
  <2>4. ~canceled
    BY <2>2
  <2>5. QED
    BY <2>3, <2>4
<1>2. \A q \in Phases : Result(q) # None => Result(q)' # None
  BY ResultsStay
<1>3. ASSUME ~TaskRuns, UNCHANGED <<rows, error>>, NEW e \in Execs, task' = e, ~Worker(e),
             At(e)' = "new", \A d \in Execs : Worker(d)' <=> Worker(d) \/ d = e
      PROVE  ProgressInv'
  <2>1. \A d \in Execs : ~Worker(d)
    BY <1>3 DEF OnlyWorker
  <2>2. task = None /\ OnlyWorker
    BY <2>1 DEF JobInv, LastWorker, TypeOK, OnlyWorker
  <2>3. Stage("") /\ error = None
    BY <1>1, <2>2 DEF ProgressInv, StageNow, Begun
  <2>4. Stage("")'
    BY <1>2, <1>3, <2>3, StageKept
  <2>5. StageNow' = ""
    BY <1>3 DEF StageNow, Begun
  <2>6. QED
    BY <1>3, <2>3, <2>4, <2>5 DEF ProgressInv
<1>4. CASE task' = task /\ \A d \in Execs : Worker(d)' <=> Worker(d)
  <2>1. OnlyWorker
    BY <1>4 DEF OnlyWorker
  <2>2. CASE UNCHANGED <<exec, rows, error>>
    BY <1>1, <1>2, <1>4, <2>1, <2>2, ProgressKept DEF At
  <2>3. ASSUME NEW kind \in {"oai", "ivoa", "vor"}, ValidatePhase(kind) PROVE ProgressInv'
    <3>1. PICK e \in Execs : Begin(e, kind, kind)
      BY <2>3 DEF ValidatePhase
    <3>2. /\ \A d \in Execs \ {e} : exec'[d] = exec[d]
          /\ exec[e].at = "unused"
      BY <3>1, BeginFacts DEF JobInv, Kinds, Points
    <3>3. task # None => At(task)' = At(task)
      BY <1>4, <3>2 DEF At, JobInv, LastWorker, TypeOK
    <3>4. UNCHANGED <<rows, error>>
      BY <2>3 DEF ValidatePhase
    <3>5. QED
      BY <1>1, <1>2, <1>4, <2>1, <3>3, <3>4, ProgressKept
  <2>4. ASSUME NEW e \in Execs, Proceed(e) PROVE ProgressInv'
    <3>1. CASE e = task
      <4>1. task # None
        BY <3>1, ExecAssumption DEF Execs
      <4>2. QED
        BY <1>1, <2>1, <2>4, <3>1, <4>1, ProgressOfWorker
    <3>2. CASE e # task
      BY <1>1, <2>1, <2>4, <3>2, ProgressBeside
    <3>3. QED
      BY <3>1, <3>2
  <2>5. CASE Validate
    <3>1. CASE TaskRuns
      BY <1>1, <2>2, <2>5, <3>1 DEF Validate, Spawn
    <3>2. CASE ~TaskRuns
      <4>1. PICK e \in Execs : Begin(e, "worker", "new") /\ task' = e
        BY <1>1, <2>5, <3>2 DEF Validate, Spawn
      <4>2. exec[e].at = "unused" /\ exec'[e] = [kind |-> "worker", at |-> "new"]
        BY <4>1, BeginFacts DEF JobInv, Kinds, Points
      <4>3. ~Worker(e) /\ Worker(e)'
        BY <4>2 DEF Unstarted, At, Worker
      <4>4. QED
        BY <1>4, <4>3
    <3>3. QED
      BY <3>1, <3>2
  <2>6. CASE Cancel \/ UNCHANGED vars
    BY <2>2, <2>6 DEF Cancel, vars
  <2>7. QED
    BY <2>3, <2>4, <2>5, <2>6 DEF Next, Request
<1>5. QED
  BY <1>3, <1>4, WorkersOfStep

LEMMA ProgressStarts == Init => Unstarted /\ OnlyOrCaused /\ ProgressInv
<1> SUFFICES ASSUME Init PROVE Unstarted /\ OnlyOrCaused /\ ProgressInv
  OBVIOUS
<1>1. \A e \in Execs : ~Worker(e)
  BY DEF Init, Unused, Worker
<1>2. rows = <<>> /\ task = None /\ error = None
  BY DEF Init
<1>3. DOMAIN rows = {}
  BY <1>2
<1>4. \A phases, status : RowsOf(phases, status) = {}
  BY <1>3 DEF RowsOf
<1>5. Stage("")
  BY <1>4, PhasesInOrder DEF Stage, Completed
<1>6. StageNow = ""
  BY <1>2 DEF StageNow, Begun
<1>7. QED
  BY <1>1, <1>2, <1>5, <1>6 DEF Unstarted, OnlyOrCaused, OnlyWorker, ProgressInv

WatchedInv == JobInv /\ Unstarted /\ OnlyOrCaused /\ ProgressInv

\* The rows of a run tell what its only worker has completed and is in; a second
\* worker comes only when the run shows why the first one is over (append_status_row).
THEOREM WatchedInvariant == Spec => []WatchedInv
<1>1. Init => WatchedInv
  BY JobInit, ProgressStarts DEF WatchedInv
<1>2. WatchedInv /\ [Next]_vars => WatchedInv'
  BY JobStep, WorkersOfStep, OnlyOrCausedStep, ProgressStep DEF WatchedInv
<1>3. QED
  BY <1>1, <1>2, PTL DEF Spec

----------------------------------------------------------------------------
(* What a page shows of a stage.                                           *)

LEMMA StageIsActive ==
  ASSUME TypeOK, NEW p, Stage(p), JobState # "complete"
  PROVE  ActivePhase = p
<1> DEFINE S == RowsOf(Phases, "running")
<1>1. ActivePhase = LastPhase(S)
  BY DEF ActivePhase
<1>2. CASE p = ""
  BY <1>1, <1>2 DEF Stage, LastPhase
<1>3. CASE p # ""
  <2>1. PICK m \in S : rows[m].phase = p /\ \A n \in S : n <= m
    BY <1>3 DEF Stage
  <2>2. \A n \in S : n \in Nat
    BY DEF TypeOK, RowsOf
  <2> HIDE DEF S
  <2>3. Max(S) = m
    <3>1. \A n \in S : m >= n
      BY <2>1, <2>2
    <3>2. \A x \in S : (\A y \in S : x >= y) => x = m
      BY <2>1, <2>2
    <3>3. QED
      BY <2>1, <3>1, <3>2 DEF Max
  <2>4. S # {}
    BY <2>1
  <2>5. QED
    BY <1>1, <2>1, <2>3, <2>4 DEF LastPhase
<1>4. QED
  BY <1>2, <1>3

\* When the first worker of a job fails, its page shows the phase that failed, the
\* phases before it with their results, and those after it as still to come
\* (phase_step_states).
THEOREM JobProgressFailedStepShown == Spec => []FailedStepShown
<1>1. WatchedInv => FailedStepShown
  <2> SUFFICES ASSUME WatchedInv, cache, JobState = "error", OnlyWorker
               PROVE  \E p \in Phases :
                        /\ StepStatus(p) = "error"
                        /\ \A q \in Phases :
                             /\ <<q, p>> \in Before => StepStatus(q) = "complete" /\ Result(q) # None
                             /\ <<p, q>> \in Before => StepStatus(q) = "pending"
    BY DEF FailedStepShown
  <2>1. ~canceled /\ error # None /\ JobState # "complete"
    BY DEF JobState, Failed
  <2>2. PICK p \in Phases : Stage(p)
    BY <2>1 DEF WatchedInv, ProgressInv
  <2>3. ActivePhase = p
    BY <2>1, <2>2, StageIsActive DEF WatchedInv, JobInv
  <2>4. ErrorPhase = p /\ ActivePhase # "" /\ \A q : ~AboutToStart(q)
    BY <2>3 DEF ErrorPhase, Phases, AboutToStart
  <2>5. \A q \in Phases : Completed(q) <=> <<q, p>> \in Before
    BY <2>2 DEF Stage
  <2>6. <<p, p>> \notin Before /\ \A q \in Phases : <<p, q>> \in Before => q # p /\ <<q, p>> \notin Before
    BY DEF Before, Phases
  <2>7. StepStatus(p) = "error"
    BY <2>1, <2>4, <2>5, <2>6 DEF StepStatus
  <2>8. ASSUME NEW q \in Phases, <<q, p>> \in Before
        PROVE  StepStatus(q) = "complete" /\ Result(q) # None
    BY <2>2, <2>5, <2>8 DEF StepStatus, Stage
  <2>9. ASSUME NEW q \in Phases, <<p, q>> \in Before PROVE StepStatus(q) = "pending"
    BY <2>1, <2>3, <2>4, <2>5, <2>6, <2>9 DEF StepStatus
  <2>10. QED
    BY <2>7, <2>8, <2>9
<1>2. QED
  BY <1>1, WatchedInvariant, PTL

----------------------------------------------------------------------------
(* Progress.                                                               *)

Stages == {""} \cup Phases
PercentOf(p) == CASE p \in {"", "oai"} -> 15 [] p = "ivoa" -> 48 [] p = "vor" -> 81

LEMMA StepsOfStage ==
  ASSUME TypeOK, NEW p \in Stages, Stage(p), JobState \in {"pending", "running"}
  PROVE  /\ StepsThatAre("complete") = {q \in Phases : <<q, p>> \in Before}
         /\ StepsThatAre("active") # {}
<1>1. ActivePhase = p
  BY StageIsActive
<1>2. \A q \in Phases : Completed(q) <=> <<q, p>> \in Before
  BY DEF Stage
<1>3. \A q \in Phases : StepStatus(q) = "complete" <=> <<q, p>> \in Before
  BY <1>2 DEF StepStatus
<1>4. CASE p = ""
  <2>1. AboutToStart("oai") /\ "oai" \in Phases
    BY <1>1, <1>2, <1>4, PhasesInOrder DEF AboutToStart, First, Phases
  <2>2. ~Completed("oai")
    BY <1>2, <1>4, <2>1, PhasesInOrder
  <2>3. StepStatus("oai") = "active"
    BY <2>1, <2>2 DEF StepStatus
  <2>4. QED
    BY <1>3, <2>1, <2>3 DEF StepsThatAre
<1>5. CASE p \in Phases
  <2>1. ~Completed(p)
    BY <1>2, <1>5 DEF Before, Phases
  <2>2. StepStatus(p) = "active"
    BY <1>1, <2>1 DEF StepStatus
  <2>3. QED
    BY <1>3, <1>5, <2>2 DEF StepsThatAre
<1>6. QED
  BY <1>4, <1>5 DEF Stages

LEMMA CompletedCount ==
  ASSUME NEW p \in Stages
  PROVE  Cardinality({q \in Phases : <<q, p>> \in Before})
           = CASE p \in {"", "oai"} -> 0 [] p = "ivoa" -> 1 [] p = "vor" -> 2
<1> DEFINE S == {q \in Phases : <<q, p>> \in Before}
<1>1. CASE p \in {"", "oai"}
  <2>1. S = {}
    BY <1>1, PhasesInOrder
  <2>2. QED
    BY <1>1, <2>1, FS_EmptySet
<1>2. CASE p = "ivoa"
  <2>1. S = {"oai"}
    BY <1>2, PhasesInOrder DEF Phases
  <2>2. QED
    BY <1>2, <2>1, FS_Singleton
<1>3. CASE p = "vor"
  <2>1. S = {"oai"} \cup {"ivoa"}
    BY <1>3, PhasesInOrder DEF Phases
  <2>2. Cardinality(S) = Cardinality({"oai"}) + 1
    BY <2>1, FS_Singleton, FS_AddElement
  <2>3. Cardinality({"oai"}) = 1
    BY FS_Singleton
  <2>4. QED
    BY <1>3, <2>2, <2>3
<1>4. QED
  BY <1>1, <1>2, <1>3 DEF Stages, Phases

LEMMA PercentOfStage ==
  ASSUME TypeOK, NEW p \in Stages, Stage(p), JobState \in {"pending", "running"}
  PROVE  Percent = PercentOf(p)
<1> DEFINE n == Cardinality(StepsThatAre("complete"))
<1>1. n = CASE p \in {"", "oai"} -> 0 [] p = "ivoa" -> 1 [] p = "vor" -> 2
  BY StepsOfStage, CompletedCount
<1>2. (0 * 100 + 45) \div 3 = 15 /\ (1 * 100 + 45) \div 3 = 48 /\ (2 * 100 + 45) \div 3 = 81
  OBVIOUS
<1>3. p \in {"", "oai"} \/ p = "ivoa" \/ p = "vor"
  BY DEF Stages, Phases
<1> HIDE DEF n
<1>4. (n * 100 + 45) \div 3 = PercentOf(p) /\ PercentOf(p) \in {15, 48, 81}
  BY <1>1, <1>2, <1>3 DEF PercentOf
<1>5. StepsThatAre("active") # {} /\ JobState # "complete"
  BY StepsOfStage
<1>6. QED
  BY <1>4, <1>5 DEF Percent, n

\* A job that is not done has one worker at most, which is in the stage that it shows.
LEMMA StageOfUndone ==
  ASSUME WatchedInv, ~Caused, cache
  PROVE  /\ OnlyWorker /\ JobState \in {"pending", "running"}
         /\ StageNow \in Stages /\ Stage(StageNow)
<1>1. OnlyWorker /\ ~canceled /\ error = None /\ merged = None
  BY DEF WatchedInv, OnlyOrCaused, Caused
<1>2. task # None => At(task) \in {"new", "oai", "ivoa", "vor"}
  <2>1. task # None => task \in Execs /\ At(task) \in Points /\ At(task) \notin {"unused", "over"}
    BY <1>1 DEF WatchedInv, JobInv, TypeOK, LastWorker, EndExplained, At, Execution
  <2>2. QED
    BY <2>1 DEF Points
<1>3. JobState \in {"pending", "running"}
  <2>1. task # None => TaskRuns
    BY <1>2 DEF TaskRuns, Active
  <2>2. QED
    BY <1>1, <2>1 DEF JobState, Failed
<1>4. StageNow \in Stages /\ StageNow # "over"
  BY <1>2 DEF StageNow, Begun, Stages, Phases
<1>5. QED
  BY <1>1, <1>3, <1>4 DEF WatchedInv, ProgressInv

\* The stage of the task as long as no cause of an end is there: it stays or goes on.
LEMMA StageGoesOn ==
  ASSUME WatchedInv, [Next]_vars, cache, ~Caused, ~Caused'
  PROVE  \/ StageNow' = StageNow
         \/ <<StageNow, StageNow'>> \in {<<"", "oai">>, <<"oai", "ivoa">>, <<"ivoa", "vor">>}
<1>0. JobInv /\ Unstarted /\ OnlyWorker /\ ~canceled /\ TypeOK
  BY DEF WatchedInv, OnlyOrCaused, Caused, JobInv
<1>1. ASSUME NEW e \in Execs, ~TaskRuns, task' = e, ~Worker(e), At(e)' = "new"
      PROVE  StageNow' = StageNow
  <2>1. task = None
    BY <1>0, <1>1 DEF JobInv, LastWorker, EndExplained, TaskRuns, Active, Caused
  <2>2. QED
    BY <1>1, <2>1 DEF StageNow, Begun
<1>2. CASE task' = task /\ \A d \in Execs : Worker(d)' <=> Worker(d)
  <2>1. CASE task = None \/ At(task)' = At(task)
    BY <1>2, <2>1 DEF StageNow, Begun
  <2>2. ASSUME task # None, NEW e \in Execs, NEW kind \in Kinds, NEW at \in Points \ {"unused"},
               Begin(e, kind, at)
        PROVE  At(task)' = At(task)
    BY <1>0, <1>2, <2>2, BeginFacts DEF JobInv, LastWorker, TypeOK, At
  <2>3. ASSUME task # None, NEW e \in Execs, e # task, Proceed(e)
        PROVE  At(task)' = At(task)
    <3>1. PICK at \in Points : MoveTo(e, at)
      BY <2>3 DEF Proceed, WorkerStart, OaiDone, IvoaDone, VorDone, Raise, CancelDelivered, Points
    <3>2. \A d \in Execs : exec'[d].at = IF d = e THEN at ELSE exec[d].at
      BY <1>0, <3>1, MoveFacts
    <3>3. QED
      BY <1>0, <1>2, <2>3, <3>2 DEF At, TypeOK
  <2>4. ASSUME task # None, Proceed(task)
        PROVE  <<StageNow, StageNow'>> \in {<<"", "oai">>, <<"oai", "ivoa">>, <<"ivoa", "vor">>}
    <3>1. task \in Execs /\ Whole(task) /\ task \notin cancelling
      BY <1>0, <2>4 DEF JobInv, TypeOK, LastWorker, EndExplained, Worker, Whole
    <3>2. ASSUME NEW at \in Points \ {"unused"}, MoveTo(task, at) PROVE At(task)' = at
      BY <1>0, <1>2, <3>1, <3>2, MoveFacts DEF At
    <3>3. CASE WorkerStart(task)
      <4>1. At(task) = "new" /\ MoveTo(task, "oai")
        BY <3>3 DEF WorkerStart, GoesOn
      <4>2. QED
        BY <1>2, <2>4, <3>2, <4>1 DEF StageNow, Begun, Points
    <3>4. CASE OaiDone(task)
      <4>1. At(task) = "oai" /\ MoveTo(task, "ivoa")
        BY <3>1, <3>4 DEF OaiDone, GoesOn
      <4>2. QED
        BY <1>2, <2>4, <3>2, <4>1 DEF StageNow, Begun, Points
    <3>5. CASE IvoaDone(task)
      <4>1. At(task) = "ivoa" /\ MoveTo(task, "vor")
        BY <3>1, <3>5 DEF IvoaDone, GoesOn
      <4>2. QED
        BY <1>2, <2>4, <3>2, <4>1 DEF StageNow, Begun, Points
    <3>6. ~VorDone(task)
      BY <3>1, MergedIsNotNone DEF VorDone, Caused
    <3>7. \A text \in Messages : ~Raise(task, text)
      BY <1>0, <2>4, <3>1, MessageAssumption DEF Raise, Caused, JobInv, LastWorker
    <3>8. ~CancelDelivered(task)
      BY <3>1 DEF CancelDelivered
    <3>9. QED
      BY <2>4, <3>3, <3>4, <3>5, <3>6, <3>7, <3>8 DEF Proceed
  <2>5. CASE UNCHANGED exec
    BY <1>2, <2>1, <2>5 DEF At
  <2>6. CASE Validate
    <3>1. CASE UNCHANGED exec
      BY <2>5, <3>1
    <3>2. CASE task # None /\ \E e \in Execs : Begin(e, "worker", "new") \/ Begin(e, "whole", "oai")
      BY <2>1, <2>2, <3>2 DEF Kinds, Points
    <3>3. QED
      BY <2>1, <2>6, <3>1, <3>2 DEF Validate, Spawn, ValidateNow
  <2>7. ASSUME NEW kind \in {"oai", "ivoa", "vor"}, ValidatePhase(kind)
        PROVE  StageNow' = StageNow
    <3>1. PICK e \in Execs : Begin(e, kind, kind)
      BY <2>7 DEF ValidatePhase
    <3>2. task # None => At(task)' = At(task)
      BY <2>2, <3>1 DEF Kinds, Points
    <3>3. QED
      BY <1>2, <3>2 DEF StageNow, Begun
  <2>8. CASE Cancel \/ UNCHANGED vars
    BY <2>5, <2>8 DEF Cancel, vars
  <2>9. ASSUME NEW e \in Execs, Proceed(e)
        PROVE  \/ StageNow' = StageNow
               \/ <<StageNow, StageNow'>> \in {<<"", "oai">>, <<"oai", "ivoa">>, <<"ivoa", "vor">>}
    BY <2>1, <2>3, <2>4, <2>9
  <2>10. QED
    BY <2>6, <2>7, <2>8, <2>9 DEF Next, Request
<1>3. QED
  BY <1>0, <1>1, <1>2, WorkersOfStep

\* What a job that is not done shows, and what it needs for that.
Undone == WatchedInv /\ cache /\ ~Caused
PercentFits == StageNow \in Stages /\ Percent = PercentOf(StageNow)

LEMMA UndonePercent == Undone => PercentFits
BY StageOfUndone, PercentOfStage DEF Undone, PercentFits, WatchedInv, JobInv

\* If no exception has an empty text, the progress of a job that is not done never
\* goes back, whatever is requested and executed beside its worker
\* (progress_percent).  With an empty text it does: a second worker starts over
\* what the first one completed.
THEOREM JobProgressNeverBack ==
  ASSUME Blank \notin Messages
  PROVE  Spec => ProgressNeverBack
<1>1. WatchedInv => (Done <=> Caused)
  BY DoneHasCause DEF WatchedInv
<1>2. (WatchedInv => (Done <=> Caused))'
  BY <1>1, PTL
<1>3. (Undone => PercentFits)'
  BY UndonePercent, PTL
<1>4. ASSUME WatchedInv, WatchedInv', [Next]_vars, cache, ~Done, ~Done'
      PROVE  Percent' >= Percent
  <2>1. cache' = cache
    BY <1>4 DEF Next, Request, Validate, ValidatePhase, Cancel, Proceed, WorkerStart, OaiDone,
                IvoaDone, VorDone, Raise, CancelDelivered, vars
  <2>2. ~Caused /\ ~Caused'
    BY <1>1, <1>2, <1>4
  <2>3. PercentFits /\ PercentFits'
    <3>1. cache'
      BY <1>4, <2>1
    <3>2. Undone /\ Undone'
      BY <1>4, <2>2, <3>1 DEF Undone
    <3>3. QED
      BY <1>3, <3>2, UndonePercent
  <2>4. /\ Percent = PercentOf(StageNow) /\ Percent' = PercentOf(StageNow')
        /\ StageNow \in {"", "oai", "ivoa", "vor"}
    BY <2>3 DEF PercentFits, Stages, Phases, PercentOf
  <2>5. CASE StageNow' = StageNow
    <3>1. Percent' = Percent /\ Percent \in {15, 48, 81}
      BY <2>4, <2>5 DEF PercentOf
    <3>2. QED
      BY <3>1
  <2>6. CASE StageNow = "" /\ StageNow' = "oai"
    <3>1. Percent = 15 /\ Percent' = 15
      BY <2>4, <2>6 DEF PercentOf
    <3>2. QED
      BY <3>1
  <2>7. CASE StageNow = "oai" /\ StageNow' = "ivoa"
    BY <2>4, <2>7 DEF PercentOf
  <2>8. CASE StageNow = "ivoa" /\ StageNow' = "vor"
    BY <2>4, <2>8 DEF PercentOf
  <2>9. QED
    BY <1>4, <2>2, <2>5, <2>6, <2>7, <2>8, StageGoesOn
<1>5. WatchedInv /\ WatchedInv' /\ [Next]_vars
        => [cache /\ ~Done /\ ~Done' => Percent' >= Percent]_vars
  BY <1>4
<1>6. QED
  BY <1>5, WatchedInvariant, PTL DEF Spec, ProgressNeverBack

=============================================================================
