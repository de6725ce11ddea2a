-------------------------- MODULE HarvestJobProofs --------------------------
(***************************************************************************)
(* Theorems about HarvestJob, for any number of executions and any texts   *)
(* of exceptions.                                                          *)
(***************************************************************************)
EXTENDS HarvestJob, SequenceTheorems, TLAPS

----------------------------------------------------------------------------
(* What starting and moving an execution does to the table of executions.  *)

LEMMA MoveFacts ==
  ASSUME TypeOK, NEW e \in Execs, NEW at \in Points, MoveTo(e, at)
  PROVE  /\ exec' \in [Execs -> Execution]
         /\ \A d \in Execs : /\ exec'[d].kind = exec[d].kind
                             /\ exec'[d].at = IF d = e THEN at ELSE exec[d].at
BY DEF TypeOK, MoveTo, Execution

LEMMA BeginFacts ==
  ASSUME TypeOK, NEW e \in Execs, NEW kind \in Kinds, NEW at \in Points,
         Begin(e, kind, at)
  PROVE  /\ exec' \in [Execs -> Execution]
         /\ \A d \in Execs : exec'[d] = IF d = e THEN [kind |-> kind, at |-> at]
                                                 ELSE exec[d]
         /\ exec[e].at = "unused"
         /\ \A d \in 1..(e - 1) : exec[d].at # "unused"
BY DEF TypeOK, Begin, Execution, At

----------------------------------------------------------------------------
(* Type correctness. *)

Rows == Seq([by : Execs, phase : {"start", "oai", "ivoa", "vor", "done"},
             status : {"running", "completed", "canceled", "error"}])

LEMMA EmptySequence == ASSUME NEW S PROVE <<>> \in Seq(S)
OBVIOUS

LEMMA NoRowsType == <<>> \in Rows
BY EmptySequence DEF Rows

LEMMA RowType ==
  ASSUME NEW e \in Execs, NEW phase \in {"start", "oai", "ivoa", "vor", "done"},
         NEW status \in {"running", "completed", "canceled", "error"}
  PROVE  <<Row(e, phase, status)>> \in Rows
BY DEF Row, Rows

LEMMA ConcatType ==
  ASSUME NEW s \in Rows, NEW t \in Rows
  PROVE  s \o t \in Rows
BY DEF Rows

LEMMA AppendType ==
  ASSUME TypeOK, NEW e \in Execs, NEW phase \in {"start", "oai", "ivoa", "vor", "done"},
         NEW status \in {"running", "completed", "canceled", "error"}
  PROVE  Append(rows, Row(e, phase, status)) \in Rows
BY DEF TypeOK, Rows, Row

LEMMA PairType ==
  ASSUME NEW e \in Execs, NEW p1 \in {"start", "oai", "ivoa", "vor", "done"},
         NEW p2 \in {"start", "oai", "ivoa", "vor", "done"},
         NEW s1 \in {"running", "completed", "canceled", "error"},
         NEW s2 \in {"running", "completed", "canceled", "error"}
  PROVE  <<Row(e, p1, s1), Row(e, p2, s2)>> \in Rows
BY DEF Row, Rows

LEMMA ReportType ==
  ASSUME TypeOK, NEW e \in Execs, NEW new \in Rows, Report(e, new)
  PROVE  rows' \in Rows
<1>1. rows \in Rows
  BY DEF TypeOK, Rows
<1>2. QED
  BY <1>1, ConcatType DEF Report

LEMMA RequestType == TypeOK /\ Request => TypeOK'
<1> SUFFICES ASSUME TypeOK, Request PROVE TypeOK'
  OBVIOUS
<1>1. ASSUME Validate PROVE TypeOK'
  <2>1. CASE UNCHANGED <<exec, task, rows>>
    BY <1>1, <2>1 DEF Validate, TypeOK, results
  <2>2. ASSUME NEW e \in Execs, Begin(e, "worker", "new"), task' = e, rows' = rows
        PROVE  TypeOK'
    <3>1. exec' \in [Execs -> Execution]
      BY <2>2, BeginFacts DEF Kinds, Points
    <3>2. QED
      BY <1>1, <2>2, <3>1 DEF Validate, TypeOK, results
  <2>3. ASSUME NEW e \in Execs, Begin(e, "whole", "oai"), task' = task,
               rows' = Append(rows, Row(e, "oai", "running"))
        PROVE  TypeOK'
    <3>1. exec' \in [Execs -> Execution]
      BY <2>3, BeginFacts DEF Kinds, Points
    <3>2. rows' \in Rows
      BY <2>3, AppendType
    <3>3. QED
      BY <1>1, <2>3, <3>1, <3>2 DEF Validate, TypeOK, results, Rows
  <2>4. QED
    BY <1>1, <2>1, <2>2, <2>3 DEF Validate, Spawn, ValidateNow
<1>2. ASSUME NEW kind \in {"oai", "ivoa", "vor"},
             ValidatePhase(kind)
      PROVE  TypeOK'
  <2>1. PICK e \in Execs : Begin(e, kind, kind)
    BY <1>2 DEF ValidatePhase
  <2>2. exec' \in [Execs -> Execution]
    BY <2>1, BeginFacts DEF Kinds, Points
  <2>3. QED
    BY <1>2, <2>2 DEF ValidatePhase, TypeOK, results
<1>3. CASE Cancel
  BY <1>3 DEF Cancel, TypeOK, TaskRuns, results
<1>4. QED
  BY <1>1, <1>2, <1>3 DEF Request

LEMMA ProceedType ==
  ASSUME TypeOK, NEW e \in Execs, Proceed(e)
  PROVE  TypeOK'
<1>1. CASE WorkerStart(e)
  <2>1. exec' \in [Execs -> Execution]
    BY <1>1, MoveFacts DEF WorkerStart, Points
  <2>2. rows' \in Rows
    BY <1>1, PairType, ReportType DEF WorkerStart
  <2>3. QED
    BY <1>1, <2>1, <2>2 DEF WorkerStart, TypeOK, results, Rows
<1>2. CASE OaiDone(e)
  <2>1. exec' \in [Execs -> Execution]
    BY <1>2, MoveFacts DEF OaiDone, Points
  <2>2. rows' \in Rows
    BY <1>2, PairType, ReportType DEF OaiDone
  <2>3. QED
    BY <1>2, <2>1, <2>2 DEF OaiDone, TypeOK, Rows
<1>3. CASE IvoaDone(e)
  <2>1. exec' \in [Execs -> Execution]
    BY <1>3, MoveFacts DEF IvoaDone, Points
  <2>2. rows' \in Rows
    BY <1>3, PairType, ReportType DEF IvoaDone
  <2>3. QED
    BY <1>3, <2>1, <2>2 DEF IvoaDone, TypeOK, Rows
<1>4. CASE VorDone(e)
  <2>1. exec' \in [Execs -> Execution]
    BY <1>4, MoveFacts DEF VorDone, Points
  <2>2. rows' \in Rows
    <3> DEFINE last == IF Worker(e) THEN <<Row(e, "done", "completed")>> ELSE <<>>
    <3>1. last \in Rows
      BY RowType, NoRowsType
    <3>2. <<Row(e, "vor", "completed")>> \in Rows
      BY RowType
    <3>3. <<Row(e, "vor", "completed")>> \o last \in Rows
      BY <3>1, <3>2, ConcatType
    <3>4. Report(e, <<Row(e, "vor", "completed")>> \o last)
      BY <1>4 DEF VorDone
    <3> HIDE DEF last
    <3>5. QED
      BY <3>3, <3>4, ReportType
  <2>3. merged' \in [by : Execs, ok : BOOLEAN] \cup {None}
    BY <1>4 DEF VorDone, TypeOK
  <2>4. QED
    BY <1>4, <2>1, <2>2, <2>3 DEF VorDone, TypeOK, Rows
<1>5. ASSUME NEW text \in Messages, Raise(e, text) PROVE TypeOK'
  <2>1. exec' \in [Execs -> Execution]
    BY <1>5, MoveFacts DEF Raise, Points
  <2>2. rows' \in Rows
    BY <1>5, AppendType DEF Raise, TypeOK, Rows
  <2>3. QED
    BY <1>5, <2>1, <2>2 DEF Raise, TypeOK, Rows
<1>6. CASE CancelDelivered(e)
  <2>1. exec' \in [Execs -> Execution]
    BY <1>6, MoveFacts DEF CancelDelivered, Points
  <2>2. rows' \in Rows
    BY <1>6, AppendType DEF CancelDelivered, TypeOK, Rows
  <2>3. QED
    BY <1>6, <2>1, <2>2 DEF CancelDelivered, TypeOK, results, Rows
<1>7. QED
  BY <1>1, <1>2, <1>3, <1>4, <1>5, <1>6 DEF Proceed

LEMMA TypeInit == Init => TypeOK
<1> SUFFICES ASSUME Init PROVE TypeOK
  OBVIOUS
<1>1. rows \in Rows
  BY NoRowsType DEF Init
<1>2. exec \in [Execs -> Execution]
  BY DEF Init, Unused, Execution, Kinds, Points
<1>3. QED
  BY <1>1, <1>2 DEF Init, TypeOK, Rows

LEMMA TypeStep == TypeOK /\ [Next]_vars => TypeOK'
<1>1. TypeOK /\ UNCHANGED vars => TypeOK'
  BY DEF vars, results, TypeOK
<1>2. QED
  BY <1>1, RequestType, ProceedType DEF Next

\* The state of a run is always of its kind.
THEOREM HarvestJobTyped == Spec => []TypeOK
BY TypeInit, TypeStep, PTL DEF Spec

----------------------------------------------------------------------------
(* The inductive invariant.  Executions start in the order of their        *)
(* numbers, the task is the last worker, the end of a worker has a cause   *)
(* that the run shows, and in a run of workers identity and report come    *)
(* from workers in that order.                                             *)

InOrder ==
  \A d, e \in Execs : d < e /\ At(d) = "unused" => At(e) = "unused"

LastWorker ==
  /\ \A e \in Execs : Worker(e) /\ Active(e) => task = e
  /\ task # None => Worker(task) /\ At(task) # "unused"

EndExplained ==
  /\ cancelling # {} => canceled
  /\ task # None /\ At(task) = "over" => canceled \/ error # None \/ merged # None

CachedRun ==
  cache =>
    /\ \A e \in Execs : At(e) # "unused" => exec[e].kind # "whole"
    /\ merged # None => identity # None /\ merged.by <= identity
    /\ identity # None => task # None /\ identity <= task
    /\ \A e \in Execs : Worker(e) /\ At(e) = "vor" => identity = e
    /\ task # None /\ At(task) = "over" /\ ~canceled /\ error = None
         => merged # None /\ merged.by = task /\ identity = task

JobInv == TypeOK /\ InOrder /\ LastWorker /\ EndExplained /\ CachedRun

\* A report is not None.
LEMMA MergedIsNotNone ==
  ASSUME NEW e \in Execs, NEW ok \in BOOLEAN PROVE [by |-> e, ok |-> ok] # None
BY ExecAssumption DEF Execs

LEMMA JobInit == Init => JobInv
<1>1. Init => \A e \in Execs : At(e) = "unused"
  BY DEF Init, At, Unused
<1>2. QED
  BY <1>1, TypeInit
     DEF Init, JobInv, InOrder, LastWorker, EndExplained, CachedRun, Active

\* An execution that goes on or ends disturbs neither the order nor the task.
LEMMA MoveKeepsOrder ==
  ASSUME JobInv, NEW e \in Execs, NEW at \in Points \ {"unused"}, Active(e),
         MoveTo(e, at), task' = task
  PROVE  InOrder' /\ LastWorker'
<1>1. \A d \in Execs : /\ exec'[d].kind = exec[d].kind
                       /\ exec'[d].at = IF d = e THEN at ELSE exec[d].at
  BY MoveFacts DEF JobInv
<1>2. task \in Execs \cup {None}
  BY DEF JobInv, TypeOK
<1>3. InOrder'
  BY <1>1 DEF JobInv, InOrder, At, Active
<1>4. LastWorker'
  BY <1>1, <1>2 DEF JobInv, LastWorker, Worker, At, Active
<1>5. QED
  BY <1>3, <1>4

\* A new execution has the next number; only a worker becomes the task.
LEMMA BeginKeepsOrder ==
  ASSUME JobInv, NEW e \in Execs, NEW kind \in Kinds, NEW at \in Points \ {"unused", "over"},
         Begin(e, kind, at),
         IF kind = "worker" THEN ~TaskRuns /\ task' = e ELSE task' = task
  PROVE  InOrder' /\ LastWorker'
<1>1. /\ \A d \in Execs : exec'[d] = IF d = e THEN [kind |-> kind, at |-> at]
                                              ELSE exec[d]
      /\ exec[e].at = "unused"
      /\ \A d \in 1..(e - 1) : exec[d].at # "unused"
  BY BeginFacts DEF JobInv
<1>2. task \in Execs \cup {None} /\ None \notin Execs
  BY ExecAssumption DEF JobInv, TypeOK, Execs
<1>3. InOrder'
  BY <1>1, ExecAssumption DEF JobInv, InOrder, At, Execs
<1>4. LastWorker'
  BY <1>1, <1>2 DEF JobInv, LastWorker, Worker, At, Active, TaskRuns
<1>5. QED
  BY <1>3, <1>4

LEMMA RequestInv == JobInv /\ Request => JobInv'
<1> SUFFICES ASSUME JobInv, Request PROVE JobInv'
  OBVIOUS
<1>0. TypeOK' /\ None \notin Execs /\ task \in Execs \cup {None}
  BY RequestType, ExecAssumption DEF JobInv, TypeOK, Execs
<1>1. ASSUME Validate PROVE JobInv'
  <2>0. UNCHANGED <<cache, canceled, error, results, cancelling>>
    BY <1>1 DEF Validate
  <2>1. CASE UNCHANGED <<exec, task>>
    BY <1>0, <2>0, <2>1
       DEF JobInv, InOrder, LastWorker, EndExplained, CachedRun, results, At, Active, Worker
  <2>2. ASSUME NEW e \in Execs, Begin(e, "worker", "new"), task' = e, ~TaskRuns
        PROVE  JobInv'
    <3>1. InOrder' /\ LastWorker'
      BY <2>2, BeginKeepsOrder DEF Kinds, Points
    <3>2. /\ \A d \in Execs : exec'[d] = IF d = e
                                THEN [kind |-> "worker", at |-> "new"]
                                ELSE exec[d]
          /\ exec[e].at = "unused"
      BY <2>2, BeginFacts DEF JobInv, Kinds, Points
    <3>3. identity # None /\ cache => identity <= e
      <4>1. task # None => task < e
        BY <1>0, <3>2, ExecAssumption DEF JobInv, LastWorker, InOrder, At, Execs
      <4>2. QED
        BY <1>0, <4>1, ExecAssumption DEF JobInv, CachedRun, TypeOK, Execs
    <3>4. EndExplained' /\ CachedRun'
      BY <1>0, <2>0, <2>2, <3>2, <3>3
         DEF JobInv, EndExplained, CachedRun, results, At, Worker
    <3>5. QED
      BY <1>0, <3>1, <3>4 DEF JobInv
  <2>3. ASSUME NEW e \in Execs, Begin(e, "whole", "oai"), task' = task, ~cache
        PROVE  JobInv'
    <3>1. InOrder' /\ LastWorker'
      BY <2>3, BeginKeepsOrder DEF Kinds, Points
    <3>2. /\ \A d \in Execs : exec'[d] = IF d = e
                                THEN [kind |-> "whole", at |-> "oai"]
                                ELSE exec[d]
          /\ exec[e].at = "unused"
      BY <2>3, BeginFacts DEF JobInv, Kinds, Points
    <3>3. EndExplained' /\ CachedRun'
      BY <1>0, <2>0, <2>3, <3>2 DEF JobInv, EndExplained, CachedRun, results, At
    <3>4. QED
      BY <1>0, <3>1, <3>3 DEF JobInv
  <2>4. QED
    BY <1>1, <2>1, <2>2, <2>3 DEF Validate, Spawn, ValidateNow
<1>2. ASSUME NEW kind \in {"oai", "ivoa", "vor"},
             ValidatePhase(kind)
      PROVE  JobInv'
  <2>1. PICK e \in Execs : Begin(e, kind, kind)
    BY <1>2 DEF ValidatePhase
  <2>2. /\ UNCHANGED <<cache, canceled, error, task, results, cancelling>>
        /\ kind \in Kinds /\ kind \in Points \ {"unused", "over"}
    BY <1>2 DEF ValidatePhase, Kinds, Points
  <2>3. InOrder' /\ LastWorker'
    BY <2>1, <2>2, BeginKeepsOrder DEF Kinds
  <2>4. /\ \A d \in Execs : exec'[d] = IF d = e
                              THEN [kind |-> kind, at |-> kind]
                              ELSE exec[d]
        /\ exec[e].at = "unused"
    BY <2>1, <2>2, BeginFacts DEF JobInv
  <2>5. EndExplained' /\ CachedRun'
    BY <1>0, <2>2, <2>4 DEF JobInv, EndExplained, CachedRun, LastWorker, results, At, Worker
  <2>6. QED
    BY <1>0, <2>3, <2>5 DEF JobInv
<1>3. CASE Cancel
  <2>1. canceled' /\ UNCHANGED <<cache, error, task, results, exec>>
    BY <1>3 DEF Cancel
  <2>2. InOrder' /\ LastWorker'
    BY <2>1 DEF JobInv, InOrder, LastWorker, At, Active, Worker
  <2>3. EndExplained' /\ CachedRun'
    BY <2>1 DEF JobInv, EndExplained, CachedRun, results, At, Worker
  <2>4. QED
    BY <1>0, <2>2, <2>3 DEF JobInv
<1>4. QED
  BY <1>1, <1>2, <1>3 DEF Request

\* What a step of an execution can change, whichever it is.
LEMMA ProceedInv ==
  ASSUME JobInv, NEW e \in Execs, Proceed(e)
  PROVE  JobInv'
<1>0. /\ TypeOK /\ TypeOK' /\ None \notin Execs /\ task \in Execs \cup {None}
      /\ identity \in Execs \cup {None}
  <2>1. TypeOK /\ TypeOK'
    BY ProceedType DEF JobInv
  <2>2. task \in Execs \cup {None} /\ identity \in Execs \cup {None}
    BY <2>1 DEF TypeOK
  <2>3. QED
    BY <2>1, <2>2, ExecAssumption DEF Execs
<1>1. ASSUME NEW at \in {"oai", "ivoa", "vor", "over"}, MoveTo(e, at), Active(e), task' = task,
             EndExplained', CachedRun'
      PROVE  JobInv'
  BY <1>0, <1>1, MoveKeepsOrder DEF JobInv, Points
<1>2. ASSUME NEW at \in Points, MoveTo(e, at)
      PROVE  \A d \in Execs : /\ exec'[d].kind = exec[d].kind
                              /\ exec'[d].at = IF d = e THEN at ELSE exec[d].at
  BY <1>0, <1>2, MoveFacts
<1>3. CASE WorkerStart(e)
  <2>1. MoveTo(e, "oai") /\ At(e) = "new" /\ Active(e)
        /\ UNCHANGED <<cache, canceled, error, task, results, cancelling>>
    BY <1>3 DEF WorkerStart, GoesOn, Active
  <2>2. EndExplained' /\ CachedRun'
    BY <1>0, <1>2, <2>1 DEF JobInv, EndExplained, CachedRun, results, At, Worker, Points
  <2>3. QED
    BY <1>1, <2>1, <2>2
<1>4. CASE OaiDone(e)
  <2> DEFINE at == IF Whole(e) THEN "ivoa" ELSE "over"
  <2>1. MoveTo(e, at) /\ At(e) = "oai" /\ Active(e) /\ at \in {"ivoa", "over"}
        /\ UNCHANGED <<cache, canceled, error, task, identity, merged, cancelling>>
    BY <1>4 DEF OaiDone, GoesOn, Active
  <2>2. EndExplained' /\ CachedRun'
    BY <1>0, <1>2, <2>1
       DEF JobInv, EndExplained, CachedRun, LastWorker, At, Worker, Whole, Points
  <2> HIDE DEF at
  <2>3. QED
    BY <1>1, <2>1, <2>2
<1>5. CASE IvoaDone(e)
  <2> DEFINE at == IF Whole(e) THEN "vor" ELSE "over"
  <2>1. MoveTo(e, at) /\ At(e) = "ivoa" /\ Active(e) /\ at \in {"vor", "over"}
        /\ UNCHANGED <<cache, canceled, error, task, merged, cancelling>>
        /\ identity' = IF Whole(e) THEN e ELSE identity
    BY <1>5 DEF IvoaDone, GoesOn, Active
  <2>2. EndExplained'
    BY <1>0, <1>2, <2>1
       DEF JobInv, EndExplained, LastWorker, At, Worker, Whole, Points
  <2>3. CachedRun'
    <3>1. CASE ~Worker(e)
      BY <1>0, <1>2, <2>1, <3>1
         DEF JobInv, CachedRun, LastWorker, At, Worker, Whole, Points
    <3>2. CASE Worker(e)
      <4>1. task = e /\ identity' = e /\ at = "vor"
        BY <2>1, <3>2 DEF JobInv, LastWorker, Worker, Whole
      <4>2. cache /\ merged # None => merged.by <= e
        BY <1>0, <4>1, ExecAssumption DEF JobInv, CachedRun, TypeOK, Execs
      <4>3. \A d \in Execs \ {e} : Worker(d) => At(d) # "vor"
        BY <4>1 DEF JobInv, LastWorker, Active
      <4>4. QED
        BY <1>0, <1>2, <2>1, <3>2, <4>1, <4>2, <4>3, ExecAssumption
           DEF JobInv, CachedRun, At, Worker, Points, Execs
    <3>3. QED
      BY <3>1, <3>2
  <2> HIDE DEF at
  <2>4. QED
    BY <1>1, <2>1, <2>2, <2>3
<1>6. CASE VorDone(e)
  <2>1. MoveTo(e, "over") /\ At(e) = "vor" /\ Active(e)
        /\ UNCHANGED <<cache, canceled, error, task, identity, cancelling>>
    BY <1>6 DEF VorDone, GoesOn, Active
  <2>2. PICK ok \in BOOLEAN : merged' = IF Whole(e) THEN [by |-> e, ok |-> ok] ELSE merged
    BY <1>6 DEF VorDone
  <2>3. EndExplained' /\ CachedRun'
    <3>1. CASE ~Whole(e)
      BY <1>0, <1>2, <2>1, <2>2, <3>1
         DEF JobInv, EndExplained, CachedRun, LastWorker, At, Worker, Whole, Points
    <3>2. CASE Whole(e)
      <4>1. merged' # None /\ merged'.by = e
        BY <1>0, <2>2, <3>2, MergedIsNotNone
      <4>2. EndExplained'
        BY <2>1, <4>1 DEF JobInv, EndExplained
      <4>3. CASE ~cache
        BY <2>1, <4>2, <4>3 DEF CachedRun
      <4>4. CASE cache
        <5>1. Worker(e)
          BY <2>1, <3>2, <4>4 DEF JobInv, CachedRun, Whole, Worker
        <5>2. task = e /\ identity = e
          BY <2>1, <4>4, <5>1 DEF JobInv, LastWorker, CachedRun
        <5>3. CachedRun'
          BY <1>0, <1>2, <2>1, <4>1, <4>4, <5>2, ExecAssumption
             DEF JobInv, CachedRun, LastWorker, At, Worker, Points, Execs
        <5>4. QED
          BY <4>2, <5>3
      <4>5. QED
        BY <4>3, <4>4
    <3>3. QED
      BY <3>1, <3>2
  <2>4. QED
    BY <1>1, <2>1, <2>3
<1>7. ASSUME NEW text \in Messages, Raise(e, text) PROVE JobInv'
  <2>1. MoveTo(e, "over") /\ Active(e)
        /\ UNCHANGED <<cache, canceled, task, identity, merged, cancelling>>
    BY <1>7 DEF Raise, GoesOn, Active
  <2>2. error' = (IF Worker(e) THEN text ELSE error) /\ text # None
    BY <1>7, MessageAssumption DEF Raise
  <2>3. EndExplained' /\ CachedRun'
    BY <1>0, <1>2, <2>1, <2>2
       DEF JobInv, EndExplained, CachedRun, LastWorker, At, Worker, Active, Points
  <2>4. QED
    BY <1>1, <2>1, <2>3
<1>8. CASE CancelDelivered(e)
  <2>1. MoveTo(e, "over") /\ Active(e) /\ canceled
        /\ UNCHANGED <<cache, canceled, error, task, results, cancelling>>
    BY <1>8 DEF CancelDelivered, JobInv, EndExplained
  <2>2. EndExplained' /\ CachedRun'
    BY <1>0, <1>2, <2>1 DEF JobInv, EndExplained, CachedRun, results, At, Worker, Active, Points
  <2>3. QED
    BY <1>1, <2>1, <2>2
<1>9. QED
  BY <1>3, <1>4, <1>5, <1>6, <1>7, <1>8 DEF Proceed

LEMMA JobStep == JobInv /\ [Next]_vars => JobInv'
<1>1. JobInv /\ UNCHANGED vars => JobInv'
  BY TypeStep
     DEF vars, results, JobInv, InOrder, LastWorker, EndExplained, CachedRun, At, Active, Worker
<1>2. QED
  BY <1>1, RequestInv, ProceedInv DEF Next

LEMMA JobInvariant == Spec => []JobInv
BY JobInit, JobStep, PTL DEF Spec

\* Never two workers at a time, whatever the requests and cancellations.
THEOREM HarvestJobOneWorker == Spec => []OneWorker
<1>1. JobInv => OneWorker
  BY DEF JobInv, LastWorker, OneWorker
<1>2. QED
  BY <1>1, JobInvariant, PTL

\* The identity that registration trusts fits the report that allows it.
THEOREM HarvestJobIdentityFits == Spec => []IdentityFits
<1>1. JobInv => IdentityFits
  BY DEF JobInv, LastWorker, CachedRun, IdentityFits, TaskRuns, Active
<1>2. QED
  BY <1>1, JobInvariant, PTL

\* The run shows why it is over.
Caused == canceled \/ error # None \/ merged # None

\* If no exception has an empty text, the state of a run tells of its end just
\* when the run shows a cause.
LEMMA DoneHasCause ==
  ASSUME Blank \notin Messages, JobInv
  PROVE  /\ Done <=> Caused
         /\ CompleteHasReport
<1>1. Failed <=> error # None
  BY DEF JobInv, TypeOK, Failed
<1>2. task # None /\ ~TaskRuns => canceled \/ error # None \/ merged # None
  BY DEF JobInv, LastWorker, EndExplained, TaskRuns, Active
<1>3. QED
  BY <1>1, <1>2 DEF Done, JobState, CompleteHasReport, Caused

\* If no exception has an empty text, "complete" promises a report that exists.
THEOREM HarvestJobCompleteHasReport ==
  ASSUME Blank \notin Messages
  PROVE  Spec => []CompleteHasReport
<1>1. JobInv => CompleteHasReport
  BY DoneHasCause
<1>2. QED
  BY <1>1, JobInvariant, PTL

\* No step takes back a cause of the end.
LEMMA CauseStays ==
  ASSUME JobInv, [Next]_vars, Caused
  PROVE  Caused'
<1>1. CASE Request \/ UNCHANGED vars
  BY <1>1 DEF Request, Validate, ValidatePhase, Cancel, vars, results, Caused
<1>2. ASSUME NEW e \in Execs, Proceed(e)
      PROVE  Caused'
  <2>1. CASE VorDone(e)
    BY <2>1, MergedIsNotNone DEF VorDone, Caused
  <2>2. ASSUME NEW text \in Messages, Raise(e, text)
        PROVE  Caused'
    BY <2>2, MessageAssumption DEF Raise, Caused
  <2>3. QED
    BY <1>2, <2>1, <2>2
       DEF Proceed, WorkerStart, OaiDone, IvoaDone, CancelDelivered, results, Caused
<1>3. QED
  BY <1>1, <1>2 DEF Next

\* If no exception has an empty text, a job that is shown as done stays done.
THEOREM HarvestJobDoneIsFinal ==
  ASSUME Blank \notin Messages
  PROVE  Spec => DoneIsFinal
<1>1. JobInv => (Done <=> Caused)
  BY DoneHasCause
<1>2. JobInv /\ [Next]_vars /\ Caused => Caused'
  BY CauseStays
<1>3. QED
  BY <1>1, <1>2, JobInvariant, PTL DEF Spec, DoneIsFinal

----------------------------------------------------------------------------
(* A run is a job as those expect it who watch it. *)

Shown == [state |-> JobState, report |-> merged # None]

\* No step but one takes a cause, and it takes one only; only the worker that is
\* the run's task brings an error.
LEMMA CausesComeAlone ==
  ASSUME JobInv, [Next]_vars
  PROVE  /\ task # None => task' # None
         /\ \/ canceled' = canceled /\ error' = error
               /\ (merged' = merged \/ merged' # None)
            \/ canceled' /\ error' = error /\ merged' = merged
            \/ canceled' = canceled /\ merged' = merged /\ error' # None /\ TaskRuns
<1>1. CASE UNCHANGED vars
  BY <1>1 DEF vars, results
<1>2. CASE Request
  <2>1. task # None => task' # None
    BY <1>2, ExecAssumption
       DEF Request, Validate, ValidatePhase, Cancel, Spawn, ValidateNow, Execs
  <2>2. QED
    BY <1>2, <2>1 DEF Request, Validate, ValidatePhase, Cancel, results
<1>3. ASSUME NEW e \in Execs, Proceed(e)
      PROVE  /\ task' = task
             /\ \/ canceled' = canceled /\ error' = error
                   /\ (merged' = merged \/ merged' # None)
                \/ canceled' = canceled /\ merged' = merged /\ error' # None /\ TaskRuns
  <2>1. CASE VorDone(e)
    BY <2>1, MergedIsNotNone DEF VorDone
  <2>2. ASSUME NEW text \in Messages, Raise(e, text)
        PROVE  /\ UNCHANGED <<task, canceled, merged>>
               /\ (error' = error) \/ (error' # None /\ TaskRuns)
    <3>1. Active(e) /\ UNCHANGED <<task, canceled, merged>>
      BY <2>2 DEF Raise, GoesOn, Active
    <3>2. CASE ~Worker(e)
      BY <2>2, <3>1, <3>2 DEF Raise
    <3>3. CASE Worker(e)
      <4>1. error' # None
        BY <2>2, <3>3, MessageAssumption DEF Raise
      <4>2. TaskRuns
        BY <3>1, <3>3, ExecAssumption DEF JobInv, LastWorker, TaskRuns, Execs
      <4>3. QED
        BY <3>1, <4>1, <4>2
    <3>4. QED
      BY <3>2, <3>3
  <2>3. QED
    BY <1>3, <2>1, <2>2
       DEF Proceed, WorkerStart, OaiDone, IvoaDone, CancelDelivered, results
<1>4. QED
  BY <1>1, <1>2, <1>3 DEF Next

\* The state in terms of the causes of the end.
CauseShown ==
  IF canceled THEN "canceled" ELSE IF error # None THEN "error"
  ELSE IF merged # None THEN "complete" ELSE IF task # None THEN "running" ELSE "pending"

StateExplained == JobState = CauseShown

LEMMA StateOfCauses ==
  ASSUME Blank \notin Messages, JobInv
  PROVE  StateExplained
<1>1. Failed <=> error # None
  BY DEF JobInv, TypeOK, Failed
<1>2. TaskRuns => task # None
  BY DEF TaskRuns
<1>3. task # None /\ ~TaskRuns => canceled \/ error # None \/ merged # None
  BY DEF JobInv, LastWorker, EndExplained, TaskRuns, Active
<1>4. QED
  BY <1>1, <1>2, <1>3 DEF JobState, StateExplained, CauseShown

LEMMA ContractStep ==
  ASSUME JobInv, [Next]_vars, StateExplained, StateExplained'
  PROVE  [Contract!Next]_Shown
<1> DEFINE report == merged # None
<1>1. Shown = [state |-> CauseShown, report |-> report]
      /\ Shown' = [state |-> CauseShown', report |-> report']
  BY DEF StateExplained, Shown
<1>2. CauseShown \in Contract!States /\ CauseShown' \in Contract!States
  BY DEF CauseShown, Contract!States
<1>3. Shown' \in Contract!Jobs
  BY <1>1, <1>2 DEF CauseShown, Contract!Jobs
<1>4. task # None => task' # None
  BY CausesComeAlone
<1>5. CASE canceled' = canceled /\ error' = error /\ merged' = merged
  <2>1. CASE canceled \/ error # None \/ merged # None \/ task # None \/ task' = None
    <3>1. CauseShown' = CauseShown
      BY <1>4, <1>5, <2>1 DEF CauseShown
    <3>2. QED
      BY <1>1, <1>5, <3>1
  <2>2. CASE ~canceled /\ error = None /\ merged = None /\ task = None /\ task' # None
    <3>1. CauseShown = "pending" /\ CauseShown' = "running"
          /\ report = FALSE /\ report' = FALSE
      BY <1>5, <2>2 DEF CauseShown
    <3>2. Contract!Starts(Shown, Shown')
      BY <1>1, <3>1 DEF Contract!Starts, Contract!Pending, Contract!Running
    <3>3. QED
      BY <1>3, <3>2 DEF Contract!Next, Contract!Moves, Shown
  <2>3. QED
    BY <2>1, <2>2
<1>6. CASE canceled' = canceled /\ error' = error /\ merged' # None
  <2>1. CASE merged # None
    <3>1. CauseShown' = CauseShown /\ report = TRUE /\ report' = TRUE
      BY <1>6, <2>1 DEF CauseShown
    <3>2. QED
      BY <1>1, <3>1
  <2>2. CASE merged = None /\ (canceled \/ error # None)
    <3>1. CauseShown' = CauseShown /\ CauseShown \in {"error", "canceled"} /\ report' = TRUE
      BY <1>6, <2>2 DEF CauseShown
    <3>2. Shown.state = CauseShown /\ Shown' = [state |-> CauseShown, report |-> TRUE]
      BY <1>1, <3>1
    <3>3. Contract!ReportsLate(Shown, Shown')
      BY <3>1, <3>2 DEF Contract!ReportsLate
    <3>4. QED
      BY <1>3, <3>3 DEF Contract!Next, Contract!Moves, Shown
  <2>3. CASE merged = None /\ ~canceled /\ error = None
    <3>1. CauseShown \in {"pending", "running"} /\ CauseShown' = "complete" /\ report' = TRUE
      BY <1>6, <2>3 DEF CauseShown
    <3>2. Contract!Completes(Shown, Shown')
      BY <1>1, <3>1 DEF Contract!Completes
    <3>3. QED
      BY <1>3, <3>2 DEF Contract!Next, Contract!Moves, Shown
  <2>4. QED
    BY <2>1, <2>2, <2>3
<1>7. CASE canceled' /\ error' = error /\ merged' = merged
  <2>1. CauseShown' = "canceled" /\ report' = report
    BY <1>7 DEF CauseShown
  <2>2. CASE CauseShown = "canceled"
    BY <1>1, <2>1, <2>2
  <2>3. CASE CauseShown # "canceled"
    <3>1. Contract!Cancels(Shown, Shown')
      BY <1>1, <2>1, <2>3 DEF Contract!Cancels
    <3>2. QED
      BY <1>3, <3>1 DEF Contract!Next, Contract!Moves, Shown
  <2>4. QED
    BY <2>2, <2>3
<1>8. CASE canceled' = canceled /\ merged' = merged /\ error' # None /\ TaskRuns
  <2>1. CASE canceled \/ error # None
    <3>1. CauseShown' = CauseShown /\ report' = report
      BY <1>8, <2>1 DEF CauseShown
    <3>2. QED
      BY <1>1, <3>1
  <2>2. CASE ~canceled /\ error = None
    <3>1. task # None
      BY <1>8 DEF TaskRuns
    <3>2. /\ CauseShown \in {"running", "complete"} /\ CauseShown' = "error"
          /\ report' = report
      BY <1>8, <2>2, <3>1 DEF CauseShown
    <3>3. Contract!Fails(Shown, Shown')
      BY <1>1, <3>2 DEF Contract!Fails
    <3>4. QED
      BY <1>3, <3>3 DEF Contract!Next, Contract!Moves, Shown
  <2>3. QED
    BY <2>1, <2>2
<1>9. QED
  BY <1>5, <1>6, <1>7, <1>8, CausesComeAlone

\* If no exception has an empty text, a run is a job as the contract has it: its
\* first state and every step of it.
THEOREM HarvestJobImplementsJob ==
  ASSUME Blank \notin Messages
  PROVE  Spec => ImplementsJob
<1>1. Init => Contract!Init
  BY DEF Init, Contract!Init, Contract!Pending, JobState, Failed, TaskRuns
<1>2. JobInv => StateExplained
  BY StateOfCauses
<1>3. JobInv /\ [Next]_vars /\ StateExplained /\ StateExplained' => [Contract!Next]_Shown
  BY ContractStep
<1>4. QED
  BY <1>1, <1>2, <1>3, JobInvariant, PTL
     DEF Spec, ImplementsJob, Contract!Spec, Shown

----------------------------------------------------------------------------
(* The rows by which clients of op=GetStatus follow a worker.              *)

EndsInv ==
  /\ \A m \in DOMAIN rows : rows[m].phase = "done" =>
       /\ At(rows[m].by) = "over"
       /\ \A n \in (m + 1)..Len(rows) : rows[n].by # rows[m].by
  /\ \A m \in DOMAIN rows : At(rows[m].by) \notin {"unused", "new"}
  /\ \A e \in Execs :
       Worker(e) /\ At(e) = "over" /\ (\E n \in DOMAIN rows : rows[n].by = e)
         => \E n \in DOMAIN rows : rows[n].by = e /\ rows[n].phase = "done"

LEMMA Elements ==
  ASSUME NEW S, NEW s \in Seq(S)
  PROVE  /\ Len(s) \in Nat /\ DOMAIN s = 1..Len(s)
         /\ \A n \in 1..Len(s) : s[n] \in S
OBVIOUS

LEMMA RowBy ==
  ASSUME NEW s \in Rows
  PROVE  \A n \in 1..Len(s) : s[n].by \in Execs
<1> DEFINE S == [by : Execs, phase : {"start", "oai", "ivoa", "vor", "done"},
                 status : {"running", "completed", "canceled", "error"}]
<1>1. s \in Seq(S)
  BY DEF Rows
<1>2. \A x \in S : x.by \in Execs
  OBVIOUS
<1> HIDE DEF S
<1>3. QED
  BY <1>1, <1>2, Elements

LEMMA PlaceInSecond ==
  ASSUME NEW a \in Nat, NEW b \in Nat, NEW n \in 1..(a + b), n \notin 1..a
  PROVE  n - a \in 1..b /\ n = a + (n - a)
OBVIOUS

LEMMA Concatenated ==
  ASSUME NEW s \in Rows, NEW t \in Rows
  PROVE  /\ Len(s) \in Nat /\ Len(t) \in Nat /\ DOMAIN s = 1..Len(s) /\ DOMAIN t = 1..Len(t)
         /\ Len(s \o t) = Len(s) + Len(t) /\ DOMAIN (s \o t) = 1..(Len(s) + Len(t))
         /\ \A n \in 1..Len(s) : (s \o t)[n] = s[n]
         /\ \A n \in 1..Len(t) : (s \o t)[Len(s) + n] = t[n]
BY DEF Rows

\* Execution e adds rows of its own, "done" as the last one and only when it ends.
LEMMA EndsKept ==
  ASSUME TypeOK, EndsInv, NEW e \in Execs, NEW new \in Rows, rows' = rows \o new,
         At(e) # "over",
         \A d \in Execs \ {e} : exec'[d] = exec[d],
         \A k \in 1..Len(new) :
           new[k].by = e /\ (new[k].phase = "done" => k = Len(new) /\ exec'[e].at = "over"),
         exec'[e].at \notin {"unused", "new"} \/ (At(e) = "unused" /\ Len(new) = 0),
         exec'[e].kind = "worker" /\ exec'[e].at = "over" =>
           \/ Len(new) # 0 /\ new[Len(new)].phase = "done"
           \/ Len(new) = 0 /\ At(e) = "new"
  PROVE  EndsInv'
<1>0. rows \in Rows
  BY DEF TypeOK, Rows
<1>1. /\ Len(rows) \in Nat /\ Len(new) \in Nat /\ DOMAIN rows = 1..Len(rows)
      /\ Len(rows') = Len(rows) + Len(new) /\ DOMAIN rows' = 1..(Len(rows) + Len(new))
      /\ \A n \in 1..Len(rows) : rows'[n] = rows[n] /\ rows[n].by \in Execs
      /\ \A n \in 1..Len(new) : rows'[Len(rows) + n] = new[n]
  BY <1>0, RowBy, Concatenated
<1>2. ASSUME NEW n \in DOMAIN rows', n \notin DOMAIN rows
      PROVE  \E k \in 1..Len(new) : n = Len(rows) + k /\ rows'[n] = new[k]
  <2>1. n \in 1..(Len(rows) + Len(new)) /\ ~(n \in 1..Len(rows))
    BY <1>1, <1>2
  <2>2. n - Len(rows) \in 1..Len(new) /\ n = Len(rows) + (n - Len(rows))
    BY <1>1, <2>1, PlaceInSecond
  <2>3. QED
    BY <1>1, <2>2
<1>3. \A n \in DOMAIN rows' : n \in DOMAIN rows \/ rows'[n].by = e
  BY <1>2
<1>4. \A n \in DOMAIN rows : rows[n].by = e => rows[n].phase # "done" /\ At(e) \notin {"unused", "new"}
  BY DEF EndsInv
<1>5. ASSUME NEW m \in DOMAIN rows', rows'[m].phase = "done"
      PROVE  /\ exec'[rows'[m].by].at = "over"
             /\ \A n \in (m + 1)..Len(rows') : rows'[n].by # rows'[m].by
  <2>1. CASE m \in DOMAIN rows
    <3>1. /\ rows'[m] = rows[m] /\ rows[m].by # e /\ rows[m].by \in Execs
          /\ exec[rows[m].by].at = "over"
          /\ \A n \in (m + 1)..Len(rows) : rows[n].by # rows[m].by
      BY <1>1, <1>4, <1>5, <2>1 DEF EndsInv, At
    <3>2. ASSUME NEW n \in (m + 1)..Len(rows') PROVE rows'[n].by # rows'[m].by
      <4>1. n \in DOMAIN rows'
        BY <1>1, <2>1
      <4>2. CASE n \in DOMAIN rows
        <5>1. n \in (m + 1)..Len(rows)
          BY <1>1, <2>1, <4>2
        <5>2. QED
          BY <1>1, <3>1, <4>2, <5>1
      <4>3. CASE n \notin DOMAIN rows
        BY <1>3, <3>1, <4>1, <4>3
      <4>4. QED
        BY <4>2, <4>3
    <3>3. QED
      BY <3>1, <3>2
  <2>2. CASE m \notin DOMAIN rows
    <3>1. PICK k \in 1..Len(new) : m = Len(rows) + k /\ rows'[m] = new[k]
      BY <1>2, <2>2
    <3>2. k = Len(new) /\ exec'[e].at = "over" /\ rows'[m].by = e
      BY <1>5, <3>1
    <3>3. (m + 1)..Len(rows') = {}
      BY <1>1, <3>1, <3>2
    <3>4. QED
      BY <3>2, <3>3
  <2>3. QED
    BY <2>1, <2>2
<1>6. ASSUME NEW m \in DOMAIN rows' PROVE exec'[rows'[m].by].at \notin {"unused", "new"}
  <2>1. CASE m \in DOMAIN rows /\ rows[m].by # e
    BY <1>1, <2>1 DEF EndsInv, At
  <2>2. CASE m \in DOMAIN rows /\ rows[m].by = e
    BY <1>1, <1>4, <2>2
  <2>3. CASE m \notin DOMAIN rows
    BY <1>1, <1>2, <2>3
  <2>4. QED
    BY <2>1, <2>2, <2>3
<1>7. ASSUME NEW d \in Execs, exec'[d].kind = "worker", exec'[d].at = "over",
             NEW n \in DOMAIN rows', rows'[n].by = d
      PROVE  \E m \in DOMAIN rows' : rows'[m].by = d /\ rows'[m].phase = "done"
  <2>1. CASE d # e
    <3>1. n \in DOMAIN rows /\ rows[n].by = d
      BY <1>1, <1>3, <1>7, <2>1
    <3>2. exec[d].kind = "worker" /\ exec[d].at = "over"
      BY <1>7, <2>1
    <3>3. \E m \in DOMAIN rows : rows[m].by = d /\ rows[m].phase = "done"
      BY <3>1, <3>2 DEF EndsInv, Worker, At
    <3>4. QED
      BY <1>1, <3>3
  <2>2. CASE d = e
    <3>1. Len(new) # 0 /\ new[Len(new)].phase = "done"
      BY <1>1, <1>2, <1>4, <1>7, <2>2
    <3>2. Len(new) \in 1..Len(new) /\ Len(rows) + Len(new) \in DOMAIN rows'
      BY <1>1, <3>1
    <3>3. QED
      BY <1>1, <2>2, <3>1, <3>2
  <2>3. QED
    BY <2>1, <2>2
<1>8. QED
  BY <1>5, <1>6, <1>7 DEF EndsInv, At, Worker

LEMMA OfOne == ASSUME NEW x PROVE Len(<<x>>) = 1 /\ <<x>>[1] = x
OBVIOUS

LEMMA OfTwo ==
  ASSUME NEW x, NEW y
  PROVE  Len(<<x, y>>) = 2 /\ <<x, y>>[1] = x /\ <<x, y>>[2] = y
OBVIOUS

LEMMA OneAndOne == ASSUME NEW x, NEW y PROVE <<x>> \o <<y>> = <<x, y>>
<1> DEFINE S == {x, y}
           s == <<x>>
           t == <<y>>
           st == <<x, y>>
<1>1. s \in Seq(S) /\ t \in Seq(S) /\ st \in Seq(S)
  OBVIOUS
<1>2. Len(s) = 1 /\ s[1] = x /\ Len(t) = 1 /\ t[1] = y /\ Len(st) = 2 /\ st[1] = x /\ st[2] = y
  BY OfOne, OfTwo
<1> HIDE DEF S, s, t, st
<1>3. /\ s \o t \in Seq(S) /\ Len(s \o t) = 2
      /\ (s \o t)[1] = x /\ (s \o t)[2] = y
  <2>1. /\ s \o t \in Seq(S) /\ Len(s \o t) = Len(s) + Len(t)
        /\ \A i \in 1..(Len(s) + Len(t)) :
             (s \o t)[i] = IF i <= Len(s) THEN s[i] ELSE t[i - Len(s)]
    BY <1>1, ConcatProperties
  <2>2. QED
    BY <1>2, <2>1
<1>4. \A i \in 1..2 : (s \o t)[i] = st[i]
  BY <1>2, <1>3
<1>5. s \o t = st
  BY <1>1, <1>2, <1>3, <1>4, SeqEqual
<1>6. QED
  BY <1>5 DEF s, t, st

LEMMA NoNewRows ==
  ASSUME TypeOK, rows' = rows
  PROVE  <<>> \in Rows /\ rows' = rows \o <<>> /\ Len(<<>>) = 0
BY NoRowsType, ConcatEmptySeq DEF TypeOK, Rows

LEMMA OneNewRow ==
  ASSUME TypeOK, NEW e \in Execs, NEW phase \in {"start", "oai", "ivoa", "vor", "done"},
         NEW status \in {"running", "completed", "canceled", "error"},
         rows' = Append(rows, Row(e, phase, status))
  PROVE  <<Row(e, phase, status)>> \in Rows /\ rows' = rows \o <<Row(e, phase, status)>>
<1>1. Row(e, phase, status) \in [by : Execs, phase : {"start", "oai", "ivoa", "vor", "done"},
                                 status : {"running", "completed", "canceled", "error"}]
  BY DEF Row
<1>2. QED
  BY <1>1, RowType, AppendIsConcat DEF TypeOK, Rows

LEMMA EndsRequest == TypeOK /\ EndsInv /\ Request => EndsInv'
<1> SUFFICES ASSUME TypeOK, EndsInv, Request PROVE EndsInv'
  OBVIOUS
<1>1. ASSUME NEW e \in Execs, NEW kind \in Kinds, NEW at \in Points \ {"unused", "over"},
             Begin(e, kind, at), rows' = rows
      PROVE  EndsInv'
  <2>1. /\ exec'[e] = [kind |-> kind, at |-> at] /\ At(e) = "unused"
        /\ \A d \in Execs \ {e} : exec'[d] = exec[d]
    BY <1>1, BeginFacts DEF At
  <2> DEFINE new == <<>>
  <2>2. new \in Rows /\ rows' = rows \o new /\ Len(new) = 0
    BY <1>1, NoNewRows
  <2> HIDE DEF new
  <2>3. exec'[e].at # "over" /\ At(e) # "over" /\ 1..Len(new) = {}
    BY <2>1, <2>2
  <2>4. QED
    BY <2>1, <2>2, <2>3, EndsKept
<1>2. CASE Validate
  <2>1. CASE UNCHANGED <<exec, rows>>
    BY <2>1 DEF EndsInv, At, Worker
  <2>2. ASSUME NEW e \in Execs, Begin(e, "worker", "new"), rows' = rows PROVE EndsInv'
    BY <1>1, <2>2 DEF Kinds, Points
  <2>3. ASSUME NEW e \in Execs, Begin(e, "whole", "oai"),
               rows' = Append(rows, Row(e, "oai", "running"))
        PROVE  EndsInv'
    <3>1. /\ exec'[e] = [kind |-> "whole", at |-> "oai"] /\ At(e) = "unused"
          /\ \A d \in Execs \ {e} : exec'[d] = exec[d]
      BY <2>3, BeginFacts DEF At, Kinds, Points
    <3> DEFINE new == <<Row(e, "oai", "running")>>
    <3>2. /\ new \in Rows /\ rows' = rows \o new /\ Len(new) = 1
          /\ new[1].by = e /\ new[1].phase # "done"
      BY <2>3, OneNewRow, OfOne DEF Row
    <3> HIDE DEF new
    <3>3. exec'[e].kind # "worker" /\ exec'[e].at \notin {"unused", "new", "over"}
      BY <3>1
    <3>4. QED
      BY <3>1, <3>2, <3>3, EndsKept
  <2>4. QED
    BY <1>2, <2>1, <2>2, <2>3 DEF Validate, Spawn, ValidateNow
<1>3. ASSUME NEW kind \in {"oai", "ivoa", "vor"}, ValidatePhase(kind) PROVE EndsInv'
  BY <1>1, <1>3 DEF ValidatePhase, Kinds, Points
<1>4. CASE Cancel
  BY <1>4 DEF Cancel, EndsInv, At, Worker
<1>5. QED
  BY <1>2, <1>3, <1>4 DEF Request

LEMMA EndsProceed ==
  ASSUME TypeOK, EndsInv, NEW e \in Execs, Proceed(e)
  PROVE  EndsInv'
<1>0. \A at \in Points : MoveTo(e, at) =>
        /\ exec'[e].kind = exec[e].kind /\ exec'[e].at = at
        /\ \A d \in Execs \ {e} : exec'[d] = exec[d]
  BY DEF MoveTo, TypeOK, Execution
\* No rows are added: of an execution of one phase, or of a worker that never ran.
<1>1. ASSUME NEW at \in Points \ {"unused", "new"}, MoveTo(e, at), rows' = rows,
             At(e) # "over", at = "over" => ~Worker(e) \/ At(e) = "new"
      PROVE  EndsInv'
  <2> DEFINE new == <<>>
  <2>1. new \in Rows /\ rows' = rows \o new /\ Len(new) = 0
    BY <1>1, NoNewRows
  <2> HIDE DEF new
  <2>2. 1..Len(new) = {}
    BY <2>1
  <2>3. QED
    BY <1>0, <1>1, <2>1, <2>2, EndsKept DEF Worker
\* One row is added.
<1>2. ASSUME NEW at \in Points \ {"unused", "new"}, MoveTo(e, at), At(e) # "over",
             NEW phase \in {"start", "oai", "ivoa", "vor", "done"},
             NEW status \in {"running", "completed", "canceled", "error"},
             rows' = rows \o <<Row(e, phase, status)>>,
             phase = "done" => at = "over",
             Worker(e) /\ at = "over" => phase = "done"
      PROVE  EndsInv'
  <2> DEFINE new == <<Row(e, phase, status)>>
  <2>1. /\ new \in Rows /\ rows' = rows \o new /\ Len(new) = 1
        /\ new[1].by = e /\ new[1].phase = phase
    BY <1>2, RowType, OfOne DEF Row
  <2> HIDE DEF new
  <2>2. \A k \in 1..Len(new) : k = 1
    BY <2>1
  <2>3. QED
    BY <1>0, <1>2, <2>1, <2>2, EndsKept DEF Worker
\* Two rows are added.
<1>3. ASSUME NEW at \in Points \ {"unused", "new"}, MoveTo(e, at), At(e) # "over",
             NEW p1 \in {"start", "oai", "ivoa", "vor", "done"},
             NEW p2 \in {"start", "oai", "ivoa", "vor", "done"},
             NEW s1 \in {"running", "completed", "canceled", "error"},
             NEW s2 \in {"running", "completed", "canceled", "error"},
             rows' = rows \o <<Row(e, p1, s1), Row(e, p2, s2)>>,
             p1 # "done", p2 = "done" <=> at = "over"
      PROVE  EndsInv'
  <2> DEFINE x == Row(e, p1, s1)
             y == Row(e, p2, s2)
             new == <<x, y>>
  <2>1. x.by = e /\ x.phase = p1 /\ y.by = e /\ y.phase = p2
    BY DEF Row
  <2>2. new \in Rows /\ rows' = rows \o new
    <3>1. <<Row(e, p1, s1), Row(e, p2, s2)>> \in Rows
      BY DEF Row, Rows
    <3>2. QED
      BY <1>3, <3>1
  <2> HIDE DEF x, y
  <2>3. Len(new) = 2 /\ new[1] = x /\ new[2] = y
    BY OfTwo
  <2> HIDE DEF new
  <2>4. exec'[e].at = at /\ \A d \in Execs \ {e} : exec'[d] = exec[d]
    BY <1>0, <1>3
  <2>5. exec'[e].at \notin {"unused", "new"} /\ (p2 = "done" <=> exec'[e].at = "over")
    BY <1>3, <2>4
  <2>6. ASSUME NEW k \in 1..Len(new)
        PROVE  new[k].by = e /\ (new[k].phase = "done" => k = Len(new) /\ exec'[e].at = "over")
    <3>1. k = 1 \/ k = 2
      BY <2>3
    <3>2. QED
      BY <1>3, <2>1, <2>3, <2>5, <3>1
  <2>7. exec'[e].at = "over" => Len(new) # 0 /\ new[Len(new)].phase = "done"
    BY <2>1, <2>3, <2>5
  <2>8. At(e) # "over"
    BY <1>3
  <2> HIDE DEF x, y
  <2>9. QED
    BY <2>2, <2>4, <2>5, <2>6, <2>7, <2>8, EndsKept
<1>4. CASE WorkerStart(e)
  <2>1. At(e) # "over" /\ Report(e, <<Row(e, "start", "running"), Row(e, "oai", "running")>>)
    BY <1>4 DEF WorkerStart, GoesOn
  <2>2. CASE Whole(e)
    <3>1. rows' = rows \o <<Row(e, "start", "running"), Row(e, "oai", "running")>>
      BY <2>1, <2>2 DEF Report
    <3>2. MoveTo(e, "oai") /\ "oai" \in Points \ {"unused", "new"}
      BY <1>4, <2>2 DEF WorkerStart, Points
    <3>3. QED
      BY <1>3, <2>1, <3>1, <3>2
  <2>3. CASE ~Whole(e)
    <3>1. rows' = rows /\ ~Worker(e)
      BY <2>1, <2>3 DEF Report, Whole, Worker
    <3>2. MoveTo(e, "oai") /\ "oai" \in Points \ {"unused", "new"}
      BY <1>4, <2>3 DEF WorkerStart, Points
    <3>3. QED
      BY <1>1, <2>1, <3>1, <3>2
  <2>4. QED
    BY <2>2, <2>3
<1>5. CASE OaiDone(e)
  <2>1. At(e) # "over" /\ Report(e, <<Row(e, "oai", "completed"), Row(e, "ivoa", "running")>>)
    BY <1>5 DEF OaiDone, GoesOn
  <2>2. CASE Whole(e)
    <3>1. rows' = rows \o <<Row(e, "oai", "completed"), Row(e, "ivoa", "running")>>
      BY <2>1, <2>2 DEF Report
    <3>2. MoveTo(e, "ivoa") /\ "ivoa" \in Points \ {"unused", "new"}
      BY <1>5, <2>2 DEF OaiDone, Points
    <3>3. QED
      BY <1>3, <2>1, <3>1, <3>2
  <2>3. CASE ~Whole(e)
    <3>1. rows' = rows /\ ~Worker(e)
      BY <2>1, <2>3 DEF Report, Whole, Worker
    <3>2. MoveTo(e, "over") /\ "over" \in Points \ {"unused", "new"}
      BY <1>5, <2>3 DEF OaiDone, Points
    <3>3. QED
      BY <1>1, <2>1, <3>1, <3>2
  <2>4. QED
    BY <2>2, <2>3
<1>6. CASE IvoaDone(e)
  <2>1. At(e) # "over" /\ Report(e, <<Row(e, "ivoa", "completed"), Row(e, "vor", "running")>>)
    BY <1>6 DEF IvoaDone, GoesOn
  <2>2. CASE Whole(e)
    <3>1. rows' = rows \o <<Row(e, "ivoa", "completed"), Row(e, "vor", "running")>>
      BY <2>1, <2>2 DEF Report
    <3>2. MoveTo(e, "vor") /\ "vor" \in Points \ {"unused", "new"}
      BY <1>6, <2>2 DEF IvoaDone, Points
    <3>3. QED
      BY <1>3, <2>1, <3>1, <3>2
  <2>3. CASE ~Whole(e)
    <3>1. rows' = rows /\ ~Worker(e)
      BY <2>1, <2>3 DEF Report, Whole, Worker
    <3>2. MoveTo(e, "over") /\ "over" \in Points \ {"unused", "new"}
      BY <1>6, <2>3 DEF IvoaDone, Points
    <3>3. QED
      BY <1>1, <2>1, <3>1, <3>2
  <2>4. QED
    BY <2>2, <2>3
<1>7. CASE VorDone(e)
  <2>1. At(e) # "over" /\ MoveTo(e, "over")
        /\ Report(e, <<Row(e, "vor", "completed")>>
                       \o (IF Worker(e) THEN <<Row(e, "done", "completed")>> ELSE <<>>))
    BY <1>7 DEF VorDone, GoesOn
  <2>2. CASE Worker(e)
    <3>1. <<Row(e, "vor", "completed")>> \o <<Row(e, "done", "completed")>>
            = <<Row(e, "vor", "completed"), Row(e, "done", "completed")>>
      BY OneAndOne
    <3>2. Whole(e)
      BY <2>2 DEF Worker, Whole
    <3>3. rows' = rows \o <<Row(e, "vor", "completed"), Row(e, "done", "completed")>>
      BY <2>1, <2>2, <3>1, <3>2 DEF Report
    <3>4. QED
      BY <1>3, <2>1, <3>3 DEF Points
  <2>3. CASE ~Worker(e) /\ Whole(e)
    <3>1. <<Row(e, "vor", "completed")>> \o <<>> = <<Row(e, "vor", "completed")>>
      BY RowType, ConcatEmptySeq DEF Rows
    <3>2. rows' = rows \o <<Row(e, "vor", "completed")>>
      BY <2>1, <2>3, <3>1 DEF Report
    <3>3. QED
      BY <1>2, <2>1, <2>3, <3>2 DEF Points
  <2>4. CASE ~Whole(e)
    BY <1>1, <2>1, <2>4 DEF Report, Points, Whole, Worker
  <2>5. QED
    BY <2>2, <2>3, <2>4
<1>8. ASSUME NEW text \in Messages, Raise(e, text) PROVE EndsInv'
  <2>1. At(e) # "over" /\ MoveTo(e, "over")
    BY <1>8 DEF Raise, GoesOn
  <2>2. CASE Worker(e)
    <3>1. rows' = rows \o <<Row(e, "done", "error")>>
      BY <1>8, <2>2, OneNewRow DEF Raise
    <3>2. QED
      BY <1>2, <2>1, <3>1 DEF Points
  <2>3. CASE ~Worker(e)
    BY <1>1, <1>8, <2>1, <2>3 DEF Raise, Points
  <2>4. QED
    BY <2>2, <2>3
<1>9. CASE CancelDelivered(e)
  <2>1. At(e) # "over" /\ MoveTo(e, "over")
    BY <1>9 DEF CancelDelivered, Active
  <2>2. CASE At(e) = "new"
    BY <1>1, <1>9, <2>1, <2>2 DEF CancelDelivered, Points
  <2>3. CASE At(e) # "new"
    <3>1. rows' = rows \o <<Row(e, "done", "canceled")>>
      BY <1>9, <2>3, OneNewRow DEF CancelDelivered
    <3>2. QED
      BY <1>2, <2>1, <3>1 DEF Points
  <2>4. QED
    BY <2>2, <2>3
<1>10. QED
  BY <1>4, <1>5, <1>6, <1>7, <1>8, <1>9 DEF Proceed

\* Every worker that ran at all ends with exactly one row of phase "done" and
\* leaves none behind it, whatever is requested, raised or cancelled meanwhile.
THEOREM HarvestJobEndsOnce == Spec => []EndsOnce
<1>1. Init => EndsInv
  BY DEF Init, EndsInv, Unused, At, Worker
<1>2. TypeOK /\ EndsInv /\ [Next]_vars => EndsInv'
  <2>1. UNCHANGED vars /\ EndsInv => EndsInv'
    BY DEF vars, EndsInv, At, Worker
  <2>2. QED
    BY <2>1, EndsRequest, EndsProceed DEF Next
<1>3. EndsInv => EndsOnce
  BY DEF EndsInv, EndsOnce, Active
<1>4. QED
  BY <1>1, <1>2, <1>3, HarvestJobTyped, PTL DEF Spec
=============================================================================
