------------------------ MODULE RunControllerProofs ------------------------
(***************************************************************************)
(* What is proved of RunController for any steps, plans, acts of users and *)
(* bounds.  Types are right, and deletions remembered, however far the     *)
(* cache lags; all else assumes current reads, without which it does not   *)
(* hold (see README).                                                      *)
(***************************************************************************)
EXTENDS RunController, FiniteSetTheorems, WellFoundedInduction, TLAPS

Current == ~CacheMayLag

\* Where a reconcile is, by what it is about.
Applies == {"definition", "snapshot", "reject", "advance", "status", "unretry"}
Undoes == {"undo", "undoFailed", "undone"}

\* Past its first line advance works on the steps of the plan, no more, no less.
PlanSynced ==
    task # Idle /\ task.at = "advance" =>
        task.obj.plan \in Plans /\ DOMAIN task.obj.steps = task.obj.plan

\* A reconcile works on the run's present status, which only it changes; what it
\* wants to change is kept apart from the base of its patch.
SeesStatus ==
    task # Idle =>
        LET seen == IF task.at \in {"advance", "status"} THEN task.base ELSE task.obj
        IN  /\ seen.phase = run.phase /\ seen.steps = run.steps
            /\ task.at = "finalize" => seen.finalizer = run.finalizer
            /\ task.at = "finalize" /\ seen.deleting => run.finalizer
            /\ task.delete => run.finalizer

\* Once the finalizer is on, the run is there until a reconcile takes it off, and
\* from its first patch on a reconcile can rely on it.
FinalizerStays ==
    /\ run.deleting => run.finalizer
    /\ task # Idle /\ (task.at # "finalize" \/ run.finalizer) => run.exists /\ run.finalizer

\* The phase of the run tells what the reconcile is about.
PhaseFits ==
    task # Idle =>
        /\ task.at \in Applies \cup {"markUndo"} => run.phase \in Active
        /\ task.at \in Undoes => run.phase \in Undoing
        /\ task.at = "unfinalize" => run.phase = "RolledBack"
        /\ task.at = "undone" => holds = {}

\* What a reconcile is about to record of steps is true: it holds what succeeded,
\* and no earlier success is lost.
ProgressIsTrue ==
    task # Idle /\ task.at \in {"advance", "status"} =>
        /\ \A s \in DOMAIN task.obj.steps :
              task.obj.steps[s].phase = "Succeeded" => s \in holds
        /\ \A s \in DOMAIN task.obj.steps \cap DOMAIN run.steps :
              run.steps[s].phase = "Succeeded" => task.obj.steps[s].phase = "Succeeded"
        /\ task.at = "status" => task.obj.phase \in Active
        /\ task.at = "status" /\ task.obj.phase = "Ready" =>
              \A s \in DOMAIN task.obj.steps : task.obj.steps[s].phase = "Succeeded"

\* A run that counts as rolled back holds nothing.
RolledBackIsFree == run.phase = "RolledBack" => holds = {}

ControlInv ==
    /\ TypeOK /\ PlanSynced
    /\ cache = run
    /\ SeesStatus /\ FinalizerStays /\ PhaseFits /\ ProgressIsTrue
    /\ RolledBackIsFree /\ FinalizerGuards
    /\ SucceededHolds /\ ReadyMeansProvisioned

-----------------------------------------------------------------------------
(* Lemmas about the model's operators. *)

Progress == UNION {[p -> StepStatus] : p \in SUBSET Steps}

Ats == {"finalize", "definition", "snapshot", "reject", "advance", "status", "unretry",
        "markUndo", "undo", "undoFailed", "undone", "unfinalize"}

\* A nonempty set of steps has a first one.
LEMMA FirstExists ==
    ASSUME NEW S \in SUBSET Steps, S # {}
    PROVE  \E x \in S : \A y \in S : x <= y
<1> DEFINE Bad == {T \in SUBSET S : T # {} /\ ~\E x \in T : \A y \in T : x <= y}
<1>1. IsFiniteSet(S) /\ \A x \in S : x \in Nat
  BY RunControllerAssumption, FS_Subset
<1>2. IsWellFoundedOn(StrictSubsetOrdering(S), SUBSET S)
  BY <1>1, FS_StrictSubsetOrderingWellFounded, FS_FiniteSubsetsOfFinite
<1>3. SUFFICES ASSUME Bad # {}
               PROVE  FALSE
  OBVIOUS
<1>4. Bad \subseteq SUBSET S
  OBVIOUS
<1>. HIDE DEF Bad
<1>5. PICK T \in Bad : \A U \in Bad : <<U, T>> \notin StrictSubsetOrdering(S)
  BY <1>2, <1>3, <1>4, WFMin
<1>. USE DEF Bad
<1>6. PICK x \in T : TRUE
  OBVIOUS
<1>7. T \ {x} # {}
  BY <1>1
<1>8. T \ {x} \notin Bad
  BY <1>5, <1>6 DEF StrictSubsetOrdering
<1>9. PICK m \in T \ {x} : \A y \in T \ {x} : m <= y
  BY <1>7, <1>8
<1>10. m \in Nat /\ x \in Nat /\ \A y \in T : y \in Nat
  BY <1>1
<1>11. CASE m <= x
  BY <1>9, <1>10, <1>11
<1>12. CASE x <= m
  <2>1. \A y \in T : x <= y
    BY <1>9, <1>10, <1>12
  <2>. QED
    BY <2>1
<1>. QED
  BY <1>10, <1>11, <1>12

LEMMA StepStatusFacts ==
    /\ Pending \in StepStatus
    /\ \A st \in StepStatus : [st EXCEPT !.phase = "RolledBack"] \in StepStatus
    /\ \A phase \in StepPhases, n \in 0..(MaxFailures - 1) :
          [phase |-> phase, failures |-> n] \in StepStatus
<1>1. 0 \in 0..(MaxFailures - 1)
  BY RunControllerAssumption
<1>. QED
  BY <1>1 DEF Pending, StepStatus, StepPhases

\* The step that advance works on is one that the plan has and that is not done.
LEMMA Next1IsUnfinished ==
    ASSUME task.obj.plan \in SUBSET Steps, Unfinished # {}
    PROVE  Next1 \in Unfinished /\ Next1 \in task.obj.plan
<1>1. Unfinished \in SUBSET Steps
  BY DEF Unfinished
<1>. QED
  BY <1>1, FirstExists DEF Next1, Unfinished

\* What resetFailed, syncSteps and the other makers of progress make.
LEMMA ResetFailedType ==
    ASSUME NEW p \in SUBSET Steps, NEW steps \in [p -> StepStatus]
    PROVE  ResetFailed(steps) \in [p -> StepStatus]
BY StepStatusFacts DEF ResetFailed

LEMMA SyncStepsType ==
    ASSUME NEW obj \in Run, obj.plan \in Plans
    PROVE  SyncSteps(obj) \in [obj.plan -> StepStatus]
<1>1. PICK p \in SUBSET Steps : obj.steps \in [p -> StepStatus]
  BY DEF Run
<1>. QED
  BY <1>1, StepStatusFacts DEF SyncSteps

LEMMA RolledBackStepsType ==
    ASSUME NEW steps \in Progress
    PROVE  RolledBackSteps(steps) \in Progress
<1>1. PICK p \in SUBSET Steps : steps \in [p -> StepStatus]
  BY DEF Progress
<1>2. RolledBackSteps(steps) \in [p -> StepStatus]
  BY <1>1, StepStatusFacts DEF RolledBackSteps
<1>. QED
  BY <1>2 DEF Progress

\* A run with some of its fields changed is still a run.
LEMMA RunUpdates ==
    ASSUME NEW r \in Run
    PROVE  /\ \A b \in BOOLEAN : /\ [r EXCEPT !.exists = b] \in Run
                                 /\ [r EXCEPT !.deleting = b] \in Run
                                 /\ [r EXCEPT !.finalizer = b] \in Run
                                 /\ [r EXCEPT !.retry = b] \in Run
                                 /\ [r EXCEPT !.snapshot = b] \in Run
           /\ \A d \in {"Applied", "RolledBack"} : [r EXCEPT !.desired = d] \in Run
           /\ \A p \in Plans \cup {Invalid} : [r EXCEPT !.plan = p] \in Run
           /\ \A phase \in Active \cup Undoing \cup {"RolledBack"} : [r EXCEPT !.phase = phase] \in Run
           /\ \A steps \in Progress : [r EXCEPT !.steps = steps] \in Run
           /\ \A phase \in Active \cup Undoing \cup {"RolledBack"}, steps \in Progress :
                 [r EXCEPT !.phase = phase, !.steps = steps] \in Run
BY DEF Run, Progress

LEMMA MergeType ==
    ASSUME run \in Run, NEW base \in Run,
           NEW phase \in Active \cup Undoing \cup {"RolledBack"}, NEW steps \in Progress
    PROVE  /\ Merge(base, phase, steps) \in Run
           /\ Merge(base, phase, steps).phase = (IF phase = base.phase THEN run.phase ELSE phase)
           /\ Merge(base, phase, steps).steps = (IF steps = base.steps THEN run.steps ELSE steps)
BY DEF Merge, Run, Progress

\* What a successful rollback patches the run with.
LEMMA MergeRolledBack ==
    ASSUME run \in Run, NEW base \in Run
    PROVE  Merge(base, "RolledBack", RolledBackSteps(base.steps)) \in Run
<1>1. base.steps \in Progress
  BY DEF Run, Progress
<1>2. RolledBackSteps(base.steps) \in Progress
  BY <1>1, RolledBackStepsType
<1> DEFINE steps == RolledBackSteps(base.steps)
<1>3. steps \in Progress
  BY <1>2
<1>. HIDE DEF steps
<1>4. Merge(base, "RolledBack", steps) \in Run
  BY <1>3, MergeType
<1>. QED
  BY <1>4 DEF steps

\* How each way of moving a reconcile on changes the task.
LEMMA GotoTask ==
    ASSUME task \in Task, NEW pc \in Ats, NEW obj \in Run, Goto(pc, obj)
    PROVE  /\ task' \in Task /\ task'.at = pc /\ task'.obj = obj
           /\ task'.base = task.base /\ task'.retry = task.retry
           /\ task'.wait = task.wait /\ task'.delete = task.delete
BY DEF Goto, Task, Ats

LEMMA StopTask ==
    ASSUME task \in Task, NEW phase \in Active, NEW steps \in Progress, NEW wait \in BOOLEAN,
           Stop(phase, steps, wait)
    PROVE  /\ task' \in Task /\ task'.at = "status"
           /\ task'.obj.phase = phase /\ task'.obj.steps = steps
           /\ task'.base = task.base /\ task'.retry = task.retry /\ task'.delete = task.delete
<1>1. [task.obj EXCEPT !.phase = phase, !.steps = steps] \in Run
  BY RunUpdates DEF Task
<1>. QED
  BY <1>1 DEF Stop, Task, Run

LEMMA AdvanceTask ==
    ASSUME task \in Task, NEW obj \in Run, obj.plan \in Plans, task' = Advance(obj)
    PROVE  /\ task' \in Task /\ task'.at = "advance" /\ task'.base = obj
           /\ task'.retry = obj.retry /\ task'.delete = task.delete
           /\ task'.obj.plan = obj.plan
           /\ task'.obj.steps = IF obj.retry THEN ResetFailed(SyncSteps(obj)) ELSE SyncSteps(obj)
           /\ task'.obj.steps \in [obj.plan -> StepStatus]
<1> DEFINE steps == IF obj.retry THEN ResetFailed(SyncSteps(obj)) ELSE SyncSteps(obj)
<1>1. obj.plan \in SUBSET Steps
  BY RunControllerAssumption
<1>2. steps \in [obj.plan -> StepStatus]
  BY <1>1, SyncStepsType, ResetFailedType
<1>3. steps \in Progress
  BY <1>1, <1>2 DEF Progress
<1>4. task' = [task EXCEPT !.at = "advance", !.base = obj, !.retry = obj.retry,
                           !.obj = [obj EXCEPT !.steps = steps]]
  BY DEF Advance
<1>. HIDE DEF steps
<1>5. /\ [obj EXCEPT !.steps = steps] \in Run
      /\ [obj EXCEPT !.steps = steps].steps = steps
      /\ [obj EXCEPT !.steps = steps].plan = obj.plan
  <2>1. [obj EXCEPT !.steps = steps] \in Run
    BY <1>3, RunUpdates
  <2>. QED
    BY <2>1 DEF Run
<1>6. /\ task' \in Task /\ task'.at = "advance" /\ task'.base = obj
      /\ task'.retry = obj.retry /\ task'.delete = task.delete
      /\ task'.obj = [obj EXCEPT !.steps = steps]
  <2>. DEFINE synced == [obj EXCEPT !.steps = steps]
  <2>1. synced \in Run /\ obj.retry \in BOOLEAN
    BY <1>5 DEF Run
  <2>2. task' = [task EXCEPT !.at = "advance", !.base = obj, !.retry = obj.retry, !.obj = synced]
    BY <1>4
  <2>. HIDE DEF synced
  <2>3. /\ task' \in Task /\ task'.at = "advance" /\ task'.base = obj
        /\ task'.retry = obj.retry /\ task'.delete = task.delete /\ task'.obj = synced
    BY <2>1, <2>2 DEF Task
  <2>. QED
    BY <2>3 DEF synced
<1>. QED
  BY <1>2, <1>5, <1>6 DEF steps

\* ToPlan and ToUndo, the forks that several steps of a reconcile come to.
LEMMA ToPlanTask ==
    ASSUME task \in Task, NEW obj \in Run, ToPlan(obj)
    PROVE  \/ Goto("reject", obj)
           \/ obj.plan \in Plans /\ task' = Advance(obj)
BY DEF ToPlan, Run

LEMMA ToUndoTask ==
    ASSUME task \in Task, NEW obj \in Run, ToUndo(obj)
    PROVE  \/ obj.phase \in Undoing /\ Goto("undo", obj)
           \/ obj.phase \notin Undoing /\ Goto("markUndo", obj)
BY DEF ToUndo

-----------------------------------------------------------------------------
(* Type correctness, however far the cache lags. *)

TypeInv == TypeOK /\ PlanSynced

LEMMA WriteType ==
    ASSUME TypeOK, NEW new \in Run, Write(new)
    PROVE  run' \in Run /\ cache' \in Run /\ event' \in BOOLEAN /\ queued' \in BOOLEAN
BY DEF Write, TypeOK, RunChanged

LEMMA NoWriteType ==
    ASSUME TypeOK, NoWrite
    PROVE  run' \in Run /\ cache' \in Run /\ event' \in BOOLEAN /\ queued' \in BOOLEAN
BY DEF NoWrite, TypeOK

LEMMA FaultType ==
    ASSUME TypeOK, Fault
    PROVE  faults' \in 0..MaxFaults
BY RunControllerAssumption DEF Fault, TypeOK

LEMMA UsersType ==
    ASSUME TypeOK, UNCHANGED users
    PROVE  definition' \in BOOLEAN /\ asked' \in BOOLEAN /\ acts' \in 0..MaxActs
BY DEF users, TypeOK

\* A reconcile that goes on or ends leaves a task.
LEMMA GotoInv ==
    ASSUME task \in Task, NEW pc \in Ats \ {"advance"}, NEW obj \in Run, Goto(pc, obj)
    PROVE  task' \in Task \cup {Idle} /\ PlanSynced'
BY GotoTask DEF PlanSynced, Ats

LEMMA EndInv ==
    ASSUME task' = Idle
    PROVE  task' \in Task \cup {Idle} /\ PlanSynced'
BY DEF PlanSynced

LEMMA StopInv ==
    ASSUME task \in Task, NEW phase \in Active, NEW steps \in Progress, NEW wait \in BOOLEAN,
           Stop(phase, steps, wait)
    PROVE  task' \in Task \cup {Idle} /\ PlanSynced'
BY StopTask DEF PlanSynced

LEMMA ToPlanInv ==
    ASSUME task \in Task, NEW obj \in Run, ToPlan(obj)
    PROVE  task' \in Task \cup {Idle} /\ PlanSynced'
<1>1. CASE Goto("reject", obj)
  BY <1>1, GotoInv DEF Ats
<1>2. CASE obj.plan \in Plans /\ task' = Advance(obj)
  BY <1>2, AdvanceTask DEF PlanSynced
<1>. QED
  BY <1>1, <1>2, ToPlanTask

LEMMA ToUndoInv ==
    ASSUME task \in Task, NEW obj \in Run, ToUndo(obj)
    PROVE  task' \in Task \cup {Idle} /\ PlanSynced'
BY ToUndoTask, GotoInv DEF Ats

LEMMA ToDesiredInv ==
    ASSUME task \in Task, NEW obj \in Run, ToDesired(obj)
    PROVE  task' \in Task \cup {Idle} /\ PlanSynced'
<1>1. CASE task' = Idle
  BY <1>1, EndInv
<1>2. CASE ToUndo(obj)
  BY <1>2, ToUndoInv
<1>3. CASE ToPlan(obj)
  BY <1>3, ToPlanInv
<1>4. CASE Goto("definition", obj)
  BY <1>4, GotoInv DEF Ats
<1>. QED
  BY <1>1, <1>2, <1>3, <1>4 DEF ToDesired

\* The types at the place where advance works on a step.
LEMMA AdvanceFacts ==
    ASSUME TypeInv, At("advance")
    PROVE  /\ task \in Task /\ task.obj.plan \in SUBSET Steps
           /\ task.obj.steps \in Progress /\ task.obj.steps \in [task.obj.plan -> StepStatus]
           /\ Unfinished # {} => Next1 \in Steps /\ Next1 \in task.obj.plan /\ Next1 \in Unfinished
<1>1. task \in Task /\ task.obj \in Run
  BY DEF TypeInv, TypeOK, At, Task
<1>2. task.obj.plan \in SUBSET Steps /\ DOMAIN task.obj.steps = task.obj.plan
  BY RunControllerAssumption DEF TypeInv, PlanSynced, At
<1>3. PICK p \in SUBSET Steps : task.obj.steps \in [p -> StepStatus]
  BY <1>1 DEF Run
<1>4. p = task.obj.plan
  BY <1>2, <1>3
<1>. QED
  BY <1>1, <1>2, <1>3, <1>4, Next1IsUnfinished DEF Progress

LEMMA SetType ==
    ASSUME TypeInv, At("advance"), Unfinished # {},
           NEW phase \in StepPhases, NEW n \in 0..(MaxFailures - 1)
    PROVE  /\ Set(Next1, phase, n) \in Progress
           /\ Set(Next1, phase, n) \in [task.obj.plan -> StepStatus]
<1>1. [phase |-> phase, failures |-> n] \in StepStatus
  BY StepStatusFacts
<1>2. Set(Next1, phase, n) \in [task.obj.plan -> StepStatus]
  BY <1>1, AdvanceFacts DEF Set
<1>. QED
  BY <1>2, AdvanceFacts DEF Progress

LEMMA SyncType == ASSUME TypeInv, Sync PROVE TypeInv'
BY DEF Sync, TypeInv, TypeOK, PlanSynced, users

LEMMA TimerFiresType == ASSUME TypeInv, TimerFires PROVE TypeInv'
BY DEF TimerFires, TypeInv, TypeOK, PlanSynced, server, users

LEMMA ReconcileType == ASSUME TypeInv, Reconcile PROVE TypeInv'
<1>1. task' \in Task \cup {Idle} /\ PlanSynced'
  <2> DEFINE fresh == [at |-> "finalize", obj |-> cache, base |-> cache,
                       retry |-> FALSE, wait |-> FALSE, delete |-> cache.deleting]
  <2>1. cache \in Run /\ cache.deleting \in BOOLEAN
    BY DEF TypeInv, TypeOK, Run
  <2>2. fresh \in Task /\ fresh.at = "finalize"
    BY <2>1 DEF Task
  <2>3. task' = fresh \/ task' = Idle
    BY DEF Reconcile
  <2>. HIDE DEF fresh
  <2>. QED
    BY <2>2, <2>3 DEF PlanSynced
<1>. QED
  BY <1>1 DEF Reconcile, TypeInv, TypeOK, server, users

LEMMA DispatchType == ASSUME TypeInv, Dispatch PROVE TypeInv'
<1>1. task \in Task /\ task.obj \in Run /\ TypeOK
  BY DEF Dispatch, At, TypeInv, TypeOK, Task
<1>2. [run EXCEPT !.finalizer = TRUE] \in Run
  BY <1>1, RunUpdates DEF TypeOK
<1>3. /\ run' \in Run /\ cache' \in Run /\ event' \in BOOLEAN /\ queued' \in BOOLEAN
      /\ timer' \in BOOLEAN
  BY <1>1, <1>2, WriteType, NoWriteType DEF Dispatch, TypeOK, EndAndRequeue
<1>4. task' \in Task \cup {Idle} /\ PlanSynced'
  <2>1. CASE Goto("unfinalize", task.obj)
    BY <1>1, <2>1, GotoInv DEF Ats
  <2>2. CASE ToUndo(task.obj)
    BY <1>1, <2>2, ToUndoInv
  <2>3. CASE ToDesired(task.obj)
    BY <1>1, <2>3, ToDesiredInv
  <2>4. CASE ToDesired([run EXCEPT !.finalizer = TRUE])
    BY <1>1, <1>2, <2>4, ToDesiredInv
  <2>5. CASE EndAndRequeue
    BY <2>5, EndInv DEF EndAndRequeue
  <2>. QED
    BY <2>1, <2>2, <2>3, <2>4, <2>5 DEF Dispatch
<1>. QED
  BY <1>1, <1>3, <1>4, UsersType DEF Dispatch, TypeInv, TypeOK

LEMMA ReadDefinitionType == ASSUME TypeInv, ReadDefinition PROVE TypeInv'
<1>1. task \in Task /\ task.obj \in Run /\ TypeOK
  BY DEF ReadDefinition, At, TypeInv, TypeOK, Task
<1>2. task' \in Task \cup {Idle} /\ PlanSynced'
  BY <1>1, GotoInv DEF ReadDefinition, Ats
<1>. QED
  BY <1>1, <1>2, UsersType, NoWriteType DEF ReadDefinition, TypeInv, TypeOK

LEMMA TakeSnapshotType == ASSUME TypeInv, TakeSnapshot PROVE TypeInv'
<1>1. task \in Task /\ TypeOK
  BY DEF TakeSnapshot, At, TypeInv, TypeOK
<1>2. [run EXCEPT !.snapshot = TRUE] \in Run
  BY <1>1, RunUpdates DEF TypeOK
<1>3. task' \in Task \cup {Idle} /\ PlanSynced'
  BY <1>1, <1>2, ToPlanInv DEF TakeSnapshot
<1>. QED
  BY <1>1, <1>2, <1>3, WriteType, UsersType DEF TakeSnapshot, TypeInv, TypeOK

LEMMA RejectType == ASSUME TypeInv, Reject PROVE TypeInv'
<1>1. [run EXCEPT !.phase = "Failed"] \in Run /\ TypeOK
  BY RunUpdates DEF TypeInv, TypeOK, Active
<1>2. run' \in Run /\ cache' \in Run /\ event' \in BOOLEAN /\ queued' \in BOOLEAN
  BY <1>1, WriteType, NoWriteType DEF Reject
<1>. QED
  BY <1>1, <1>2, EndInv, UsersType DEF Reject, End, TypeInv, TypeOK

\* The steps of advance leave the run alone and stop at a status to record.
LEMMA StopType ==
    ASSUME TypeInv, At("advance"),
           NEW phase \in Active, NEW steps \in Progress, NEW wait \in BOOLEAN,
           Stop(phase, steps, wait), NoWrite, UNCHANGED <<timer, users>>,
           holds' \subseteq Steps, faults' \in 0..MaxFaults
    PROVE  TypeInv'
<1>1. task \in Task /\ TypeOK
  BY AdvanceFacts DEF TypeInv
<1>2. task' \in Task \cup {Idle} /\ PlanSynced'
  BY <1>1, StopInv
<1>. QED
  BY <1>1, <1>2, NoWriteType, UsersType DEF TypeInv, TypeOK

LEMMA AdvanceType ==
    ASSUME TypeInv, Finished \/ StillFailed \/ StepDone \/ StepPermanent \/ StepWaits \/ StepTransient
    PROVE  TypeInv'
<1>1. At("advance") /\ TypeOK /\ holds \subseteq Steps
  BY DEF Finished, StillFailed, StepDone, StepPermanent, StepWaits, StepTransient, Runnable,
         TypeInv, TypeOK
<1>2. 0 \in 0..(MaxFailures - 1) /\ faults \in 0..MaxFaults
  BY <1>1, RunControllerAssumption DEF TypeOK
<1>3. CASE Finished \/ StillFailed
  BY <1>1, <1>2, <1>3, AdvanceFacts, StopType DEF Finished, StillFailed, Active
<1>4. CASE StepDone
  <2>1. /\ Set(Next1, "Succeeded", 0) \in [task.obj.plan -> StepStatus] /\ Next1 \in Steps
        /\ Set(Next1, "Succeeded", 0) \in Progress
    BY <1>1, <1>2, <1>4, SetType, AdvanceFacts DEF StepDone, Runnable, StepPhases
  <2>2. task' = [task EXCEPT !.obj = [task.obj EXCEPT !.steps = Set(Next1, "Succeeded", 0)]]
    BY <1>4 DEF StepDone
  <2>3. /\ [task.obj EXCEPT !.steps = Set(Next1, "Succeeded", 0)] \in Run
        /\ [task.obj EXCEPT !.steps = Set(Next1, "Succeeded", 0)].plan = task.obj.plan
        /\ [task.obj EXCEPT !.steps = Set(Next1, "Succeeded", 0)].steps = Set(Next1, "Succeeded", 0)
    <3> DEFINE new == Set(Next1, "Succeeded", 0)
    <3>1. task.obj \in Run /\ [task.obj EXCEPT !.steps = new] \in Run
      BY <1>1, <2>1, RunUpdates, AdvanceFacts DEF Task
    <3>. HIDE DEF new
    <3>2. [task.obj EXCEPT !.steps = new].plan = task.obj.plan
          /\ [task.obj EXCEPT !.steps = new].steps = new
      BY <3>1 DEF Run
    <3>. QED
      BY <3>1, <3>2 DEF new
  <2>4. task' \in Task /\ PlanSynced'
    BY <1>1, <2>1, <2>2, <2>3, AdvanceFacts DEF Task, PlanSynced, TypeInv, At
  <2>. QED
    BY <1>1, <1>4, <2>1, <2>4, NoWriteType, UsersType DEF StepDone, TypeInv, TypeOK
<1>5. CASE StepPermanent
  <2>1. Set(Next1, "Failed", 0) \in Progress /\ holds' \subseteq Steps
    BY <1>1, <1>2, <1>5, SetType, AdvanceFacts DEF StepPermanent, Runnable, StepPhases, MayHold
  <2>. QED
    BY <1>1, <1>2, <1>5, <2>1, StopType DEF StepPermanent, Active
<1>6. CASE StepWaits
  <2>1. /\ Set(Next1, "Running", 0) \in Progress /\ holds' \subseteq Steps
        /\ task.obj.steps \in Progress /\ faults' \in 0..MaxFaults
    BY <1>1, <1>2, <1>6, SetType, AdvanceFacts, FaultType
       DEF StepWaits, Runnable, StepPhases, MayHold
  <2>. QED
    BY <1>1, <1>6, <2>1, StopType DEF StepWaits, Active
<1>7. CASE StepTransient
  <2> DEFINE failures == task.obj.steps[Next1].failures + 1
  <2>1. /\ Set(Next1, "Failed", 0) \in Progress /\ holds' \subseteq Steps
        /\ faults' \in 0..MaxFaults
    BY <1>1, <1>2, <1>7, SetType, AdvanceFacts, FaultType
       DEF StepTransient, Runnable, StepPhases, MayHold
  <2>2. ~GivesUp(failures) => failures \in 0..(MaxFailures - 1)
    <3>1. task.obj.steps[Next1] \in StepStatus
      BY <1>1, <1>7, AdvanceFacts DEF StepTransient, Runnable
    <3>2. \A n \in 0..(MaxFailures - 1) : ~GivesUp(n + 1) => n + 1 \in 0..(MaxFailures - 1)
      BY RunControllerAssumption DEF GivesUp
    <3>. QED
      BY <3>1, <3>2 DEF StepStatus
  <2>3. ~GivesUp(failures) => Set(Next1, "Running", failures) \in Progress
    BY <1>1, <1>7, <2>2, SetType DEF StepTransient, Runnable, StepPhases
  <2>. QED
    BY <1>1, <1>7, <2>1, <2>3, StopType DEF StepTransient, Active
<1>. QED
  BY <1>3, <1>4, <1>5, <1>6, <1>7

LEMMA PatchStatusType == ASSUME TypeInv, PatchStatus PROVE TypeInv'
<1> DEFINE new == Merge(task.base, task.obj.phase, task.obj.steps)
<1>1. task \in Task /\ task.obj \in Run /\ task.base \in Run /\ TypeOK /\ run \in Run
  BY DEF PatchStatus, At, TypeInv, TypeOK, Task
<1>2. task.obj.phase \in Active \cup Undoing \cup {"RolledBack"} /\ task.obj.steps \in Progress
  BY <1>1 DEF Run, Progress
<1>3. new \in Run
  BY <1>1, <1>2, MergeType
<1>. HIDE DEF new
<1>4. run' \in Run /\ cache' \in Run /\ event' \in BOOLEAN /\ queued' \in BOOLEAN
  BY <1>1, <1>3, WriteType, NoWriteType DEF PatchStatus, new
<1>5. task' \in Task \cup {Idle} /\ PlanSynced' /\ timer' \in BOOLEAN
  <2>1. CASE Goto("unretry", IF Unchanged THEN task.obj ELSE new) /\ UNCHANGED timer
    BY <1>1, <1>3, <2>1, GotoInv DEF Ats, TypeOK
  <2>2. CASE EndAndRequeue \/ End
    BY <1>1, <2>2, EndInv DEF EndAndRequeue, End, TypeOK
  <2>. QED
    BY <2>1, <2>2 DEF PatchStatus, new
<1>. QED
  BY <1>1, <1>4, <1>5, UsersType DEF PatchStatus, TypeInv, TypeOK

LEMMA RemoveRetryType == ASSUME TypeInv, RemoveRetry PROVE TypeInv'
<1>1. [run EXCEPT !.retry = FALSE] \in Run /\ TypeOK
  BY RunUpdates DEF TypeInv, TypeOK
<1>2. run' \in Run /\ cache' \in Run /\ event' \in BOOLEAN /\ queued' \in BOOLEAN
  BY <1>1, WriteType, NoWriteType DEF RemoveRetry
<1>. QED
  BY <1>1, <1>2, EndInv, UsersType DEF RemoveRetry, End, EndAndRequeue, TypeInv, TypeOK

LEMMA MarkUndoType == ASSUME TypeInv, MarkUndo PROVE TypeInv'
<1>1. [run EXCEPT !.phase = "RollingBack"] \in Run /\ TypeOK /\ task \in Task
  BY RunUpdates DEF MarkUndo, At, TypeInv, TypeOK, Undoing
<1>2. task' \in Task \cup {Idle} /\ PlanSynced'
  BY <1>1, GotoInv DEF MarkUndo, Ats
<1>. QED
  BY <1>1, <1>2, WriteType, UsersType DEF MarkUndo, TypeInv, TypeOK

LEMMA UndoType == ASSUME TypeInv, UndoSucceeds \/ UndoFails PROVE TypeInv'
<1>1. task \in Task /\ task.obj \in Run /\ TypeOK
  BY DEF UndoSucceeds, UndoFails, At, TypeInv, TypeOK, Task
<1>2. task' \in Task \cup {Idle} /\ PlanSynced'
  BY <1>1, GotoInv DEF UndoSucceeds, UndoFails, Ats
<1>3. faults' \in 0..MaxFaults /\ holds' \subseteq Steps
  BY <1>1, FaultType DEF UndoSucceeds, UndoFails, TypeOK
<1>. QED
  BY <1>1, <1>2, <1>3, NoWriteType, UsersType DEF UndoSucceeds, UndoFails, TypeInv, TypeOK

LEMMA MarkFailedType == ASSUME TypeInv, MarkFailed PROVE TypeInv'
<1>1. [run EXCEPT !.phase = "RollbackFailed"] \in Run /\ TypeOK
  BY RunUpdates DEF TypeInv, TypeOK, Undoing
<1>2. run' \in Run /\ cache' \in Run /\ event' \in BOOLEAN /\ queued' \in BOOLEAN
  BY <1>1, WriteType, NoWriteType DEF MarkFailed
<1>. QED
  BY <1>1, <1>2, EndInv, UsersType DEF MarkFailed, EndAndRequeue, TypeInv, TypeOK

LEMMA MarkUndoneType == ASSUME TypeInv, MarkUndone PROVE TypeInv'
<1> DEFINE new == Merge(task.obj, "RolledBack", RolledBackSteps(task.obj.steps))
<1>1. task \in Task /\ task.obj \in Run /\ TypeOK /\ run \in Run
  BY DEF MarkUndone, At, TypeInv, TypeOK, Task
<1>2. new \in Run
  BY <1>1, MergeRolledBack
<1>. HIDE DEF new
<1>3. Write(new) /\ AfterUndo(new)
  BY DEF MarkUndone, new
<1>4. task' \in Task \cup {Idle} /\ PlanSynced'
  BY <1>1, <1>2, <1>3, GotoInv, EndInv DEF AfterUndo, Ats
<1>. QED
  BY <1>1, <1>2, <1>3, <1>4, WriteType, UsersType DEF MarkUndone, TypeInv, TypeOK

LEMMA RemoveFinalizerType == ASSUME TypeInv, RemoveFinalizer PROVE TypeInv'
<1>1. [run EXCEPT !.exists = FALSE] \in Run /\ TypeOK
  BY RunUpdates DEF TypeInv, TypeOK
<1>. QED
  BY <1>1, WriteType, EndInv, UsersType DEF RemoveFinalizer, End, TypeInv, TypeOK

LEMMA RequestFailsType == ASSUME TypeInv, RequestFails PROVE TypeInv'
<1>1. TypeOK /\ faults' \in 0..MaxFaults
  BY FaultType DEF RequestFails, TypeInv, TypeOK
<1>. QED
  BY <1>1, NoWriteType, EndInv, UsersType DEF RequestFails, EndAndRequeue, TypeInv, TypeOK

LEMMA CrashType == ASSUME TypeInv, Crash PROVE TypeInv'
<1>1. TypeOK /\ faults' \in 0..MaxFaults
  BY FaultType DEF Crash, TypeInv
<1>. QED
  BY <1>1, EndInv, UsersType DEF Crash, TypeInv, TypeOK

\* Users change one field of the run each, and never the task.
LEMMA UsersKeepTypes ==
    ASSUME TypeInv,
           \/ AskRetry \/ SetRetry \/ RequestRollback \/ RequestApply \/ DeleteRun
           \/ EditParameters \/ AddDefinition
    PROVE  TypeInv'
<1>1. TypeOK /\ run \in Run /\ PlanSynced
  BY DEF TypeInv, TypeOK
<1>2. run' \in Run /\ cache' \in Run /\ event' \in BOOLEAN /\ queued' \in BOOLEAN
  <2>1. CASE AskRetry \/ AddDefinition
    BY <1>1, <2>1, NoWriteType DEF AskRetry, AddDefinition
  <2>2. CASE SetRetry \/ RequestRollback \/ RequestApply
    BY <1>1, <2>2, RunUpdates, WriteType DEF SetRetry, RequestRollback, RequestApply
  <2>3. CASE DeleteRun
    BY <1>1, <2>3, RunUpdates, WriteType DEF DeleteRun
  <2>4. CASE EditParameters
    BY <1>1, <2>4, RunUpdates, WriteType DEF EditParameters
  <2>. QED
    BY <2>1, <2>2, <2>3, <2>4
<1>3. acts' \in 0..MaxActs
  BY <1>1, RunControllerAssumption
     DEF Act, AskRetry, SetRetry, RequestRollback, RequestApply, DeleteRun, EditParameters,
         AddDefinition, TypeOK
<1>4. /\ UNCHANGED <<timer, task, holds, faults>>
      /\ definition' \in BOOLEAN /\ asked' \in BOOLEAN
  BY <1>1 DEF AskRetry, SetRetry, RequestRollback, RequestApply, DeleteRun, EditParameters,
              AddDefinition, TypeOK
<1>. QED
  BY <1>1, <1>2, <1>3, <1>4 DEF TypeInv, TypeOK, PlanSynced

LEMMA WorkType == ASSUME TypeInv, Work PROVE TypeInv'
<1>1. CASE Reconcile \/ Dispatch \/ ReadDefinition \/ TakeSnapshot \/ Reject
  BY <1>1, ReconcileType, DispatchType, ReadDefinitionType, TakeSnapshotType, RejectType
<1>2. CASE Finished \/ StillFailed \/ StepDone \/ StepPermanent \/ StepWaits \/ StepTransient
  BY <1>2, AdvanceType
<1>3. CASE PatchStatus \/ RemoveRetry \/ MarkUndo \/ UndoSucceeds \/ UndoFails
  BY <1>3, PatchStatusType, RemoveRetryType, MarkUndoType, UndoType
<1>4. CASE MarkFailed \/ MarkUndone \/ RemoveFinalizer \/ RequestFails
  BY <1>4, MarkFailedType, MarkUndoneType, RemoveFinalizerType, RequestFailsType
<1>. QED
  BY <1>1, <1>2, <1>3, <1>4 DEF Work

LEMMA TypeInvStays == TypeInv /\ [Next]_vars => TypeInv'
<1>. SUFFICES ASSUME TypeInv, [Next]_vars
              PROVE  TypeInv'
  OBVIOUS
<1>1. CASE UNCHANGED vars
  BY <1>1 DEF vars, TypeInv, TypeOK, PlanSynced
<1>. QED
  BY <1>1, WorkType, CrashType, SyncType, TimerFiresType, UsersKeepTypes DEF Next

LEMMA TypeInvStarts == ASSUME Init PROVE TypeInv
<1>1. 0 \in 0..MaxActs /\ 0 \in 0..MaxFaults
  BY RunControllerAssumption
<1>2. PICK s \in BOOLEAN, p \in Plans :
        run = [exists |-> TRUE, deleting |-> FALSE, finalizer |-> FALSE, retry |-> FALSE,
               desired |-> "Applied", snapshot |-> s, plan |-> p, phase |-> "", steps |-> <<>>]
  BY RunControllerAssumption DEF Init
<1>3. run \in Run
  <2>1. <<>> \in [{} -> StepStatus]
    OBVIOUS
  <2>2. <<>> \in UNION {[q -> StepStatus] : q \in SUBSET Steps}
    BY <2>1
  <2>. QED
    BY <1>2, <2>2 DEF Run, Active
<1>. QED
  BY <1>1, <1>3 DEF Init, TypeInv, TypeOK, PlanSynced

\* The types of all variables are kept, however far the cache lags: in particular a
\* step never counts MaxFailures failures without having failed for good.
THEOREM RunTyping == Spec => []TypeOK
<1>1. TypeInv => TypeOK
  BY DEF TypeInv
<1>. QED
  BY <1>1, TypeInvStarts, TypeInvStays, PTL DEF Spec

-----------------------------------------------------------------------------
(* ControlInv is inductive, when reads are current.  RunInv is its part about *)
(* the run, TaskInv the one about the reconcile in progress.                  *)

RunInv ==
    /\ run.deleting => run.finalizer
    /\ RolledBackIsFree /\ FinalizerGuards
    /\ SucceededHolds /\ ReadyMeansProvisioned

TaskInv == SeesStatus /\ FinalizerStays /\ PhaseFits /\ ProgressIsTrue

LEMMA ControlParts ==
    /\ ControlInv <=> TypeInv /\ cache = run /\ RunInv /\ TaskInv
    /\ ControlInv => TypeInv /\ cache = run /\ RunInv /\ TaskInv /\ run \in Run
BY DEF ControlInv, TypeInv, TypeOK, RunInv, TaskInv, FinalizerStays

\* A step that leaves alone what the invariant reads of the run.
Kept ==
    /\ run'.exists = run.exists /\ run'.deleting = run.deleting
    /\ run'.finalizer = run.finalizer
    /\ run'.phase = run.phase /\ run'.steps = run.steps

LEMMA KeptRun == ASSUME RunInv, Kept, UNCHANGED holds PROVE RunInv'
BY DEF RunInv, Kept, RolledBackIsFree, FinalizerGuards, SucceededHolds, ReadyMeansProvisioned

LEMMA KeptTask == ASSUME TaskInv, Kept, UNCHANGED <<holds, task>> PROVE TaskInv'
BY DEF TaskInv, Kept, SeesStatus, FinalizerStays, PhaseFits, ProgressIsTrue

\* A reconcile that ends leaves nothing to say about it.
LEMMA IdleTask == ASSUME RunInv', task' = Idle PROVE TaskInv'
BY DEF RunInv, TaskInv, SeesStatus, FinalizerStays, PhaseFits, ProgressIsTrue

\* One that goes on with the run as it is now.
LEMMA GotoKeeps ==
    ASSUME task \in Task, NEW pc \in Ats \ {"finalize", "advance", "status"},
           NEW obj \in Run, Goto(pc, obj),
           run'.exists, run'.finalizer, obj.phase = run'.phase, obj.steps = run'.steps,
           pc \in Applies \cup {"markUndo"} => obj.phase \in Active,
           pc \in Undoes => obj.phase \in Undoing,
           pc = "unfinalize" => obj.phase = "RolledBack",
           pc = "undone" => holds' = {}
    PROVE  TaskInv'
<1>1. task'.at = pc /\ task'.obj = obj
  BY GotoTask
<1>. QED
  BY <1>1 DEF TaskInv, SeesStatus, FinalizerStays, PhaseFits, ProgressIsTrue

\* The steps that advance starts from are the ones that succeeded before.
LEMMA SyncKeepsSuccess ==
    ASSUME NEW obj \in Run, obj.plan \in Plans,
           NEW s \in obj.plan
    PROVE  LET new == IF obj.retry THEN ResetFailed(SyncSteps(obj)) ELSE SyncSteps(obj)
           IN  new[s].phase = "Succeeded" <=>
                   s \in DOMAIN obj.steps /\ obj.steps[s].phase = "Succeeded"
BY DEF ResetFailed, SyncSteps, Pending

LEMMA AdvanceKeeps ==
    ASSUME task \in Task, NEW obj \in Run, obj.plan \in Plans, task' = Advance(obj),
           run'.exists, run'.finalizer, obj.phase = run'.phase, obj.steps = run'.steps,
           obj.phase \in Active, SucceededHolds'
    PROVE  TaskInv'
<1>1. /\ task'.at = "advance" /\ task'.base = obj
      /\ DOMAIN task'.obj.steps = obj.plan
      /\ task'.obj.steps = IF obj.retry THEN ResetFailed(SyncSteps(obj)) ELSE SyncSteps(obj)
  BY AdvanceTask
<1>2. \A s \in obj.plan :
         task'.obj.steps[s].phase = "Succeeded" <=>
             s \in DOMAIN obj.steps /\ obj.steps[s].phase = "Succeeded"
  BY <1>1, SyncKeepsSuccess
<1>3. \A s \in DOMAIN obj.steps : obj.steps[s].phase = "Succeeded" => s \in holds'
  BY DEF SucceededHolds
<1>. QED
  BY <1>1, <1>2, <1>3 DEF TaskInv, SeesStatus, FinalizerStays, PhaseFits, ProgressIsTrue, Applies, Undoes

LEMMA ToPlanKeeps ==
    ASSUME task \in Task, NEW obj \in Run, ToPlan(obj),
           run'.exists, run'.finalizer, obj.phase = run'.phase, obj.steps = run'.steps,
           obj.phase \in Active, SucceededHolds'
    PROVE  TaskInv'
<1>1. CASE Goto("reject", obj)
  BY <1>1, GotoKeeps DEF Ats, Undoes
<1>2. CASE obj.plan \in Plans /\ task' = Advance(obj)
  BY <1>2, AdvanceKeeps
<1>. QED
  BY <1>1, <1>2, ToPlanTask

LEMMA ToUndoKeeps ==
    ASSUME task \in Task, NEW obj \in Run, ToUndo(obj),
           run'.exists, run'.finalizer, obj.phase = run'.phase, obj.steps = run'.steps,
           obj.phase # "RolledBack"
    PROVE  TaskInv'
<1>1. obj.phase \in Active \cup Undoing
  BY DEF Run
<1>2. CASE obj.phase \in Undoing /\ Goto("undo", obj)
  BY <1>2, GotoKeeps DEF Ats, Applies, Undoes
<1>3. CASE obj.phase \notin Undoing /\ Goto("markUndo", obj)
  BY <1>1, <1>3, GotoKeeps DEF Ats, Applies, Undoes
<1>. QED
  BY <1>2, <1>3, ToUndoTask

LEMMA ToDesiredKeeps ==
    ASSUME task \in Task, NEW obj \in Run, ToDesired(obj), RunInv',
           run'.exists, run'.finalizer, obj.phase = run'.phase, obj.steps = run'.steps
    PROVE  TaskInv'
<1>1. CASE task' = Idle
  BY <1>1, IdleTask
<1>2. CASE obj.phase # "RolledBack" /\ ToUndo(obj)
  BY <1>2, ToUndoKeeps
<1>3. CASE MayApply(obj) /\ ToPlan(obj)
  BY <1>3, ToPlanKeeps DEF MayApply, RunInv
<1>4. CASE MayApply(obj) /\ Goto("definition", obj)
  BY <1>4, GotoKeeps DEF MayApply, Ats, Undoes
<1>. QED
  BY <1>1, <1>2, <1>3, <1>4 DEF ToDesired

\* With current reads a write is seen at once.
LEMMA CurrentWrite ==
    ASSUME Current, NEW new, Write(new)
    PROVE  run' = new /\ cache' = run'
BY DEF Current, Write

LEMMA CurrentNoWrite ==
    ASSUME cache = run, NoWrite
    PROVE  Kept /\ cache' = run'
BY DEF NoWrite, Kept

\* What each step of Next keeps besides the types.
CtlInv == cache = run /\ RunInv /\ TaskInv

LEMMA ReconcileCtl == ASSUME Current, ControlInv, Reconcile PROVE CtlInv'
<1> DEFINE fresh == [at |-> "finalize", obj |-> cache, base |-> cache,
                     retry |-> FALSE, wait |-> FALSE, delete |-> cache.deleting]
<1>1. cache = run /\ RunInv /\ TaskInv
  BY ControlParts
<1>2. Kept /\ cache' = run' /\ holds' = holds
  BY <1>1 DEF Reconcile, server, Kept
<1>3. RunInv'
  BY <1>1, <1>2, KeptRun
<1>4. CASE run.exists /\ task' = fresh
  <2>1. task'.at = "finalize" /\ task'.obj = run /\ task'.delete = run.deleting
    BY <1>1, <1>4
  <2>2. run'.deleting => run'.finalizer
    BY <1>3 DEF RunInv
  <2>. HIDE DEF fresh
  <2>3. SeesStatus'
    BY <2>1, <2>2, <1>2 DEF SeesStatus, Kept
  <2>4. FinalizerStays' /\ PhaseFits' /\ ProgressIsTrue'
    BY <1>2, <1>4, <2>1, <2>2
       DEF FinalizerStays, PhaseFits, ProgressIsTrue, Kept, Applies, Undoes
  <2>. QED
    BY <1>2, <1>3, <2>3, <2>4 DEF TaskInv, CtlInv
<1>5. CASE task' = Idle
  BY <1>2, <1>3, <1>5, IdleTask DEF CtlInv
<1>6. (run.exists /\ task' = fresh) \/ task' = Idle
  BY <1>1 DEF Reconcile
<1>. QED
  BY <1>4, <1>5, <1>6

LEMMA DispatchCtl == ASSUME Current, ControlInv, Dispatch PROVE CtlInv'
<1>1. /\ cache = run /\ RunInv /\ TaskInv /\ run \in Run
      /\ task \in Task /\ task.obj \in Run /\ task # Idle /\ task.at = "finalize"
  BY ControlParts DEF Dispatch, At, TypeInv, TypeOK, Task
<1>2. /\ task.obj.phase = run.phase /\ task.obj.steps = run.steps
      /\ task.obj.finalizer = run.finalizer
      /\ task.obj.deleting => run.finalizer
      /\ run.finalizer => run.exists
  BY <1>1 DEF TaskInv, SeesStatus, FinalizerStays
<1>3. holds' = holds
  BY DEF Dispatch
<1>4. CASE /\ task.obj.deleting
           /\ IF task.obj.phase = "RolledBack" THEN Goto("unfinalize", task.obj) ELSE ToUndo(task.obj)
           /\ NoWrite
  <2>1. Kept /\ cache' = run' /\ RunInv'
    BY <1>1, <1>3, <1>4, CurrentNoWrite, KeptRun
  <2>2. /\ run'.exists /\ run'.finalizer
        /\ task.obj.phase = run'.phase /\ task.obj.steps = run'.steps
    <3>1. run.exists /\ run.finalizer
      BY <1>2, <1>4
    <3>. QED
      BY <1>2, <2>1, <3>1 DEF Kept
  <2>3. CASE task.obj.phase = "RolledBack" /\ Goto("unfinalize", task.obj)
    <3>1. TaskInv'
      BY <1>1, <2>2, <2>3, GotoKeeps DEF Ats, Applies, Undoes
    <3>. QED
      BY <2>1, <3>1 DEF CtlInv
  <2>4. CASE task.obj.phase # "RolledBack" /\ ToUndo(task.obj)
    BY <1>1, <2>1, <2>2, <2>4, ToUndoKeeps DEF CtlInv
  <2>. QED
    BY <1>4, <2>3, <2>4
<1>5. CASE ~NeedsFinalizer(task.obj) /\ ToDesired(task.obj) /\ NoWrite
  <2>1. Kept /\ cache' = run' /\ RunInv'
    BY <1>1, <1>3, <1>5, CurrentNoWrite, KeptRun
  <2>2. /\ run'.exists /\ run'.finalizer
        /\ task.obj.phase = run'.phase /\ task.obj.steps = run'.steps
    <3>1. run.exists /\ run.finalizer
      BY <1>2, <1>5 DEF NeedsFinalizer
    <3>. QED
      BY <1>2, <2>1, <3>1 DEF Kept
  <2>. QED
    <3>1. TaskInv'
      BY <1>1, <1>5, <2>1, <2>2, ToDesiredKeeps
    <3>. QED
      BY <2>1, <3>1 DEF CtlInv
<1>6. CASE /\ run.exists /\ Write([run EXCEPT !.finalizer = TRUE])
           /\ ToDesired([run EXCEPT !.finalizer = TRUE])
  <2> DEFINE new == [run EXCEPT !.finalizer = TRUE]
  <2>1. run' = new /\ cache' = run'
    BY <1>6, CurrentWrite
  <2>2. /\ new \in Run /\ new.finalizer /\ new.exists = run.exists
        /\ new.phase = run.phase /\ new.steps = run.steps
    <3>1. new \in Run
      BY <1>1, RunUpdates
    <3>. QED
      BY <1>1, <3>1 DEF Run
  <2>3. ToDesired(new)
    BY <1>6
  <2>. HIDE DEF new
  <2>4. RunInv'
    BY <1>1, <1>3, <1>6, <2>1, <2>2
       DEF RunInv, RolledBackIsFree, FinalizerGuards, SucceededHolds, ReadyMeansProvisioned
  <2>. QED
    BY <1>1, <1>6, <2>1, <2>2, <2>3, <2>4, ToDesiredKeeps DEF CtlInv
<1>7. CASE EndAndRequeue /\ NoWrite
  <2>1. Kept /\ cache' = run' /\ RunInv'
    BY <1>1, <1>3, <1>7, CurrentNoWrite, KeptRun
  <2>. QED
    BY <1>7, <2>1, IdleTask DEF CtlInv, EndAndRequeue
<1>. QED
  BY <1>4, <1>5, <1>6, <1>7 DEF Dispatch

LEMMA ReadDefinitionCtl == ASSUME Current, ControlInv, ReadDefinition PROVE CtlInv'
<1>1. /\ cache = run /\ RunInv /\ TaskInv /\ run \in Run
      /\ task \in Task /\ task.obj \in Run /\ task # Idle /\ task.at = "definition"
  BY ControlParts DEF ReadDefinition, At, TypeInv, TypeOK, Task
<1>2. Kept /\ cache' = run' /\ RunInv'
  BY <1>1, CurrentNoWrite, KeptRun DEF ReadDefinition
<1>3. /\ run'.exists /\ run'.finalizer /\ task.obj.phase \in Active
      /\ task.obj.phase = run'.phase /\ task.obj.steps = run'.steps
  BY <1>1, <1>2 DEF Kept, TaskInv, SeesStatus, FinalizerStays, PhaseFits, Applies
<1>4. CASE Goto("snapshot", task.obj)
  BY <1>1, <1>2, <1>3, <1>4, GotoKeeps DEF Ats, Undoes, CtlInv
<1>5. CASE Goto("reject", task.obj)
  BY <1>1, <1>2, <1>3, <1>5, GotoKeeps DEF Ats, Undoes, CtlInv
<1>. QED
  BY <1>4, <1>5 DEF ReadDefinition

LEMMA TakeSnapshotCtl == ASSUME Current, ControlInv, TakeSnapshot PROVE CtlInv'
<1> DEFINE new == [run EXCEPT !.snapshot = TRUE]
<1>1. /\ cache = run /\ RunInv /\ TaskInv /\ run \in Run
      /\ task \in Task /\ task # Idle /\ task.at = "snapshot"
  BY ControlParts DEF TakeSnapshot, At, TypeInv, TypeOK, Task
<1>2. run' = new /\ cache' = run' /\ new \in Run /\ ToPlan(new)
  BY <1>1, CurrentWrite, RunUpdates DEF TakeSnapshot
<1>3. Kept
  BY <1>1, <1>2 DEF Run, Kept
<1>. HIDE DEF new
<1>4. RunInv'
  BY <1>1, <1>3, KeptRun DEF TakeSnapshot
<1>5. run'.exists /\ run'.finalizer /\ run'.phase \in Active
  BY <1>1, <1>3 DEF Kept, TaskInv, FinalizerStays, PhaseFits, Applies
<1>. QED
  BY <1>1, <1>2, <1>4, <1>5, ToPlanKeeps DEF CtlInv, RunInv

LEMMA RejectCtl == ASSUME Current, ControlInv, Reject PROVE CtlInv'
<1>1. /\ cache = run /\ RunInv /\ TaskInv /\ run \in Run /\ task # Idle /\ task.at = "reject"
      /\ task' = Idle /\ holds' = holds
  BY ControlParts DEF Reject, At, End
<1>2. run.phase \in Active
  BY <1>1 DEF TaskInv, PhaseFits, Applies
<1>3. CASE NoWrite
  BY <1>1, <1>3, CurrentNoWrite, KeptRun, IdleTask DEF CtlInv
<1>4. CASE Write([run EXCEPT !.phase = "Failed"])
  <2>1. /\ cache' = run' /\ run'.exists = run.exists /\ run'.deleting = run.deleting
        /\ run'.finalizer = run.finalizer /\ run'.phase = "Failed" /\ run'.steps = run.steps
    BY <1>1, <1>4, CurrentWrite DEF Run
  <2>2. RunInv'
    BY <1>1, <1>2, <2>1
       DEF RunInv, RolledBackIsFree, FinalizerGuards, SucceededHolds, ReadyMeansProvisioned
  <2>. QED
    BY <1>1, <2>1, <2>2, IdleTask DEF CtlInv
<1>. QED
  BY <1>3, <1>4 DEF Reject

\* A step of advance may add what it provisioned to what the run holds.
LEMMA HoldMore ==
    ASSUME RunInv, Kept, holds \subseteq holds', run.exists, run.finalizer, run.phase \in Active
    PROVE  RunInv'
<1>1. run.phase # "RolledBack"
  BY DEF Active
<1>. QED
  BY <1>1 DEF RunInv, Kept, RolledBackIsFree, FinalizerGuards, SucceededHolds, ReadyMeansProvisioned

\* What is known where advance works on a step.
LEMMA AtAdvance ==
    ASSUME ControlInv, At("advance")
    PROVE  /\ TypeInv /\ cache = run /\ RunInv /\ task # Idle /\ task.at = "advance" /\ task \in Task
           /\ run.exists /\ run.finalizer /\ run.phase \in Active
           /\ task.base.phase = run.phase /\ task.base.steps = run.steps
           /\ task.delete => run.finalizer
           /\ \A s \in DOMAIN task.obj.steps :
                 task.obj.steps[s].phase = "Succeeded" => s \in holds
           /\ \A s \in DOMAIN task.obj.steps \cap DOMAIN run.steps :
                 run.steps[s].phase = "Succeeded" => task.obj.steps[s].phase = "Succeeded"
<1>1. TypeInv /\ cache = run /\ RunInv /\ TaskInv /\ task # Idle /\ task.at = "advance" /\ task \in Task
  BY ControlParts DEF At, TypeInv, TypeOK
<1>. QED
  BY <1>1 DEF TaskInv, SeesStatus, FinalizerStays, PhaseFits, ProgressIsTrue, Applies

\* Every way out of advance keeps the invariant when the steps it wants to record
\* are held as far as they succeeded, and no success is forgotten.
LEMMA StopKeeps ==
    ASSUME ControlInv, At("advance"),
           NEW phase \in Active, NEW steps \in Progress, NEW wait \in BOOLEAN,
           Stop(phase, steps, wait), NoWrite, holds \subseteq holds',
           \A s \in DOMAIN steps : steps[s].phase = "Succeeded" => s \in holds',
           \A s \in DOMAIN steps \cap DOMAIN run.steps :
              run.steps[s].phase = "Succeeded" => steps[s].phase = "Succeeded",
           phase = "Ready" => \A s \in DOMAIN steps : steps[s].phase = "Succeeded"
    PROVE  CtlInv'
<1>1. Kept /\ cache' = run'
  BY AtAdvance, CurrentNoWrite
<1>2. RunInv'
  BY <1>1, AtAdvance, HoldMore
<1>3. /\ task' # Idle => task'.at = "status"
      /\ task'.obj.phase = phase /\ task'.obj.steps = steps /\ task'.base = task.base
      /\ task'.at = "status" /\ task'.delete = task.delete
  BY AtAdvance, StopTask
<1>4. SeesStatus' /\ FinalizerStays' /\ PhaseFits'
  BY <1>1, <1>2, <1>3, AtAdvance
     DEF RunInv, SeesStatus, FinalizerStays, PhaseFits, Kept, Applies, Undoes
<1>5. ProgressIsTrue'
  BY <1>1, <1>3, AtAdvance DEF ProgressIsTrue, Kept
<1>. QED
  BY <1>1, <1>2, <1>4, <1>5 DEF CtlInv, TaskInv

\* Working on the next step changes its entry only, and it had not succeeded.
LEMMA SetKeeps ==
    ASSUME ControlInv, At("advance"), Unfinished # {},
           NEW phase \in StepPhases, NEW n \in 0..(MaxFailures - 1)
    PROVE  LET steps == Set(Next1, phase, n)
           IN  /\ steps \in Progress /\ DOMAIN steps = DOMAIN task.obj.steps
               /\ \A s \in DOMAIN steps :
                     steps[s].phase = "Succeeded" =>
                         s \in holds \/ (s = Next1 /\ phase = "Succeeded")
               /\ \A s \in DOMAIN steps \cap DOMAIN run.steps :
                     run.steps[s].phase = "Succeeded" => steps[s].phase = "Succeeded"
<1>1. TypeInv
  BY AtAdvance
<1>2. /\ Set(Next1, phase, n) \in Progress
      /\ task.obj.steps \in [task.obj.plan -> StepStatus]
      /\ Next1 \in task.obj.plan /\ task.obj.steps[Next1].phase # "Succeeded"
  BY <1>1, SetType, AdvanceFacts DEF Unfinished
<1>3. /\ DOMAIN Set(Next1, phase, n) = DOMAIN task.obj.steps
      /\ Set(Next1, phase, n)[Next1].phase = phase
      /\ \A s \in DOMAIN task.obj.steps \ {Next1} : Set(Next1, phase, n)[s] = task.obj.steps[s]
  BY <1>2 DEF Set
<1>. QED
  BY <1>2, <1>3, AtAdvance

LEMMA AdvanceCtl ==
    ASSUME ControlInv,
           Finished \/ StillFailed \/ StepDone \/ StepPermanent \/ StepWaits \/ StepTransient
    PROVE  CtlInv'
<1>1. At("advance")
  BY DEF Finished, StillFailed, StepDone, StepPermanent, StepWaits, StepTransient, Runnable
<1>2. /\ 0 \in 0..(MaxFailures - 1) /\ TypeInv /\ task.obj.steps \in Progress
      /\ {"Ready", "Failed", "Running"} \subseteq Active
      /\ {"Succeeded", "Failed", "Running"} \subseteq StepPhases
  <2>1. 0 \in 0..(MaxFailures - 1)
    BY RunControllerAssumption
  <2>2. TypeInv /\ task.obj.steps \in Progress
    BY <1>1, AtAdvance, AdvanceFacts
  <2>. QED
    BY <2>1, <2>2 DEF Active, StepPhases
<1>3. CASE Finished
  <2>1. \A s \in DOMAIN task.obj.steps : task.obj.steps[s].phase = "Succeeded"
    BY <1>1, <1>2, <1>3, AdvanceFacts DEF Finished, Unfinished
  <2>. QED
    BY <1>1, <1>2, <1>3, <2>1, AtAdvance, StopKeeps DEF Finished
<1>4. CASE StillFailed
  BY <1>1, <1>2, <1>4, AtAdvance, StopKeeps DEF StillFailed
<1>5. CASE StepDone
  <2> DEFINE steps == Set(Next1, "Succeeded", 0)
  <2>1. Unfinished # {} /\ NoWrite /\ holds' = holds \cup {Next1}
        /\ task' = [task EXCEPT !.obj.steps = steps]
    BY <1>5 DEF StepDone, Runnable
  <2>2. /\ steps \in Progress /\ DOMAIN steps = DOMAIN task.obj.steps
        /\ \A s \in DOMAIN steps : steps[s].phase = "Succeeded" => s \in holds'
        /\ \A s \in DOMAIN steps \cap DOMAIN run.steps :
              run.steps[s].phase = "Succeeded" => steps[s].phase = "Succeeded"
    BY <1>1, <1>2, <2>1, SetKeeps
  <2>. HIDE DEF steps
  <2>3. Kept /\ cache' = run'
    BY <1>1, <2>1, AtAdvance, CurrentNoWrite
  <2>4. RunInv'
    BY <1>1, <2>1, <2>3, AtAdvance, HoldMore
  <2>5. /\ task'.at = "advance" /\ task'.base = task.base /\ task'.obj.steps = steps
        /\ task'.delete = task.delete
    BY <1>1, <2>1, AtAdvance DEF Task, Run
  <2>6. SeesStatus' /\ FinalizerStays' /\ PhaseFits'
    BY <1>1, <2>3, <2>4, <2>5, AtAdvance
       DEF RunInv, SeesStatus, FinalizerStays, PhaseFits, Kept, Applies, Undoes
  <2>7. ProgressIsTrue'
    BY <1>1, <2>2, <2>3, <2>5, AtAdvance DEF ProgressIsTrue, Kept
  <2>. QED
    BY <2>3, <2>4, <2>6, <2>7 DEF CtlInv, TaskInv
<1>6. CASE StepPermanent
  <2>1. Unfinished # {} /\ NoWrite /\ holds \subseteq holds'
        /\ Stop("Failed", Set(Next1, "Failed", 0), FALSE)
    BY <1>6 DEF StepPermanent, Runnable, MayHold
  <2>. QED
    BY <1>1, <1>2, <2>1, SetKeeps, StopKeeps
<1>7. CASE StepWaits
  <2>1. Unfinished # {} /\ NoWrite /\ holds \subseteq holds'
        /\ \/ Stop("Running", Set(Next1, "Running", 0), TRUE)
           \/ Stop("Running", task.obj.steps, TRUE)
    BY <1>7 DEF StepWaits, Runnable, MayHold
  <2>2. CASE Stop("Running", Set(Next1, "Running", 0), TRUE)
    BY <1>1, <1>2, <2>1, <2>2, SetKeeps, StopKeeps
  <2>3. CASE Stop("Running", task.obj.steps, TRUE)
    BY <1>1, <1>2, <2>1, <2>3, AtAdvance, StopKeeps
  <2>. QED
    BY <2>1, <2>2, <2>3
<1>8. CASE StepTransient
  <2>1. PICK n \in 0..(MaxFailures - 1) :
           /\ Unfinished # {} /\ NoWrite /\ holds \subseteq holds'
           /\ \/ Stop("Failed", Set(Next1, "Failed", 0), FALSE)
              \/ Stop("Running", Set(Next1, "Running", n), TRUE)
    <3>1. Unfinished # {} /\ NoWrite /\ holds \subseteq holds'
      BY <1>8 DEF StepTransient, Runnable, MayHold
    <3>2. task.obj.steps[Next1] \in StepStatus
      BY <1>1, <1>2, <3>1, AdvanceFacts
    <3>3. \A m \in 0..(MaxFailures - 1) : ~GivesUp(m + 1) => m + 1 \in 0..(MaxFailures - 1)
      BY RunControllerAssumption DEF GivesUp
    <3>4. CASE GivesUp(task.obj.steps[Next1].failures + 1)
      BY <1>2, <1>8, <3>1, <3>4 DEF StepTransient
    <3>5. CASE ~GivesUp(task.obj.steps[Next1].failures + 1)
      <4>1. task.obj.steps[Next1].failures + 1 \in 0..(MaxFailures - 1)
        BY <3>2, <3>3, <3>5 DEF StepStatus
      <4>2. Stop("Running", Set(Next1, "Running", task.obj.steps[Next1].failures + 1), TRUE)
        BY <1>8, <3>5 DEF StepTransient
      <4>. QED
        BY <3>1, <4>1, <4>2
    <3>. QED
      BY <3>4, <3>5
  <2>2. CASE Stop("Failed", Set(Next1, "Failed", 0), FALSE)
    BY <1>1, <1>2, <2>1, <2>2, SetKeeps, StopKeeps
  <2>3. CASE Stop("Running", Set(Next1, "Running", n), TRUE)
    BY <1>1, <1>2, <2>1, <2>3, SetKeeps, StopKeeps
  <2>. QED
    BY <2>1, <2>2, <2>3
<1>. QED
  BY <1>3, <1>4, <1>5, <1>6, <1>7, <1>8

LEMMA PatchStatusCtl == ASSUME Current, ControlInv, PatchStatus PROVE CtlInv'
<1> DEFINE new == Merge(task.base, task.obj.phase, task.obj.steps)
<1>1. /\ cache = run /\ RunInv /\ TaskInv /\ run \in Run /\ task # Idle /\ task.at = "status"
      /\ task \in Task /\ task.obj \in Run /\ task.base \in Run /\ holds' = holds
  BY ControlParts DEF PatchStatus, At, TypeInv, TypeOK, Task
<1>2. /\ task.base.phase = run.phase /\ task.base.steps = run.steps
      /\ run.exists /\ run.finalizer /\ task.obj.phase \in Active
      /\ \A s \in DOMAIN task.obj.steps :
            task.obj.steps[s].phase = "Succeeded" => s \in holds
      /\ task.obj.phase = "Ready" =>
            \A s \in DOMAIN task.obj.steps : task.obj.steps[s].phase = "Succeeded"
  BY <1>1 DEF TaskInv, SeesStatus, FinalizerStays, PhaseFits, ProgressIsTrue
<1>3. /\ new \in Run /\ new.phase = task.obj.phase /\ new.steps = task.obj.steps
      /\ new.exists = run.exists /\ new.deleting = run.deleting /\ new.finalizer = run.finalizer
  <2>1. task.obj.phase \in Active \cup Undoing \cup {"RolledBack"} /\ task.obj.steps \in Progress
    BY <1>1 DEF Run, Progress
  <2>2. new \in Run /\ new.phase = task.obj.phase /\ new.steps = task.obj.steps
    BY <1>1, <1>2, <2>1, MergeType
  <2>3. /\ new.exists = run.exists /\ new.deleting = run.deleting
        /\ new.finalizer = run.finalizer
    BY <1>1 DEF Merge, Run
  <2>. QED
    BY <2>2, <2>3
<1>4. /\ IF Unchanged THEN NoWrite ELSE Write(new)
      /\ \/ Goto("unretry", IF Unchanged THEN task.obj ELSE new)
         \/ task' = Idle
  BY DEF PatchStatus, EndAndRequeue, End
<1>. HIDE DEF new
<1>5. /\ run'.exists /\ run'.finalizer /\ cache' = run'
      /\ run'.phase = task.obj.phase /\ run'.steps = task.obj.steps
  <2>1. CASE Unchanged
    BY <1>1, <1>2, <1>4, <2>1 DEF Unchanged, NoWrite
  <2>2. CASE ~Unchanged
    BY <1>2, <1>3, <1>4, <2>2, CurrentWrite
  <2>. QED
    BY <2>1, <2>2
<1>6. task.obj.phase \notin Undoing \cup {"RolledBack"}
  BY <1>2 DEF Active, Undoing
<1>7. RunInv'
  BY <1>1, <1>2, <1>5, <1>6
     DEF RunInv, RolledBackIsFree, FinalizerGuards, SucceededHolds, ReadyMeansProvisioned
<1>8. CASE Goto("unretry", IF Unchanged THEN task.obj ELSE new)
  <2> DEFINE obj == IF Unchanged THEN task.obj ELSE new
  <2>1. obj \in Run /\ obj.phase = run'.phase /\ obj.steps = run'.steps /\ obj.phase \in Active
    BY <1>1, <1>2, <1>3, <1>5
  <2>2. Goto("unretry", obj)
    BY <1>8
  <2>. HIDE DEF obj
  <2>3. TaskInv'
    BY <1>1, <1>5, <2>1, <2>2, GotoKeeps DEF Ats, Undoes
  <2>. QED
    BY <1>5, <1>7, <2>3 DEF CtlInv
<1>. QED
  BY <1>4, <1>5, <1>7, <1>8, IdleTask DEF CtlInv

LEMMA RemoveRetryCtl == ASSUME Current, ControlInv, RemoveRetry PROVE CtlInv'
<1>1. /\ cache = run /\ RunInv /\ TaskInv /\ run \in Run
      /\ task' = Idle /\ holds' = holds
  BY ControlParts DEF RemoveRetry, End, EndAndRequeue
<1>2. Kept /\ cache' = run'
  <2>1. CASE NoWrite
    BY <1>1, <2>1, CurrentNoWrite
  <2>2. CASE Write([run EXCEPT !.retry = FALSE])
    BY <1>1, <2>2, CurrentWrite DEF Run, Kept
  <2>. QED
    BY <2>1, <2>2 DEF RemoveRetry
<1>. QED
  BY <1>1, <1>2, KeptRun, IdleTask DEF CtlInv

\* What rollback's reconcile knows.
LEMMA AtUndo ==
    ASSUME ControlInv, task # Idle, task.at \in Undoes \cup {"markUndo", "unfinalize"}
    PROVE  /\ cache = run /\ RunInv /\ TaskInv /\ run \in Run /\ task \in Task /\ task.obj \in Run
           /\ run.exists /\ run.finalizer
           /\ task.obj.phase = run.phase /\ task.obj.steps = run.steps
           /\ task.at \in Undoes => run.phase \in Undoing
           /\ task.at = "undone" => holds = {}
           /\ task.at = "unfinalize" => run.phase = "RolledBack" /\ holds = {}
<1>1. cache = run /\ RunInv /\ TaskInv /\ run \in Run /\ task \in Task /\ task.obj \in Run
  BY ControlParts DEF TypeInv, TypeOK, Task
<1>. QED
  BY <1>1 DEF TaskInv, SeesStatus, FinalizerStays, PhaseFits, RunInv, RolledBackIsFree, Undoes

\* While the phase says that a rollback is under way, nothing is claimed of steps.
LEMMA UndoingRun ==
    ASSUME ControlInv, run.exists, run.finalizer, run'.exists, run'.finalizer,
           run'.phase \in Undoing \/ (run'.phase = "RolledBack" /\ holds' = {})
    PROVE  RunInv'
BY DEF RunInv, RolledBackIsFree, FinalizerGuards, SucceededHolds, ReadyMeansProvisioned, Active, Undoing

LEMMA MarkUndoCtl == ASSUME Current, ControlInv, MarkUndo PROVE CtlInv'
<1> DEFINE new == [run EXCEPT !.phase = "RollingBack"]
<1>1. task # Idle /\ task.at = "markUndo" /\ Write(new) /\ Goto("undo", new)
  BY DEF MarkUndo, At
<1>2. /\ run \in Run /\ task \in Task /\ run.exists /\ run.finalizer
  BY <1>1, AtUndo DEF Undoes
<1>3. new \in Run
  BY <1>2, RunUpdates DEF Undoing
<1>4. /\ new.exists = run.exists /\ new.finalizer = run.finalizer
      /\ new.phase = "RollingBack" /\ new.steps = run.steps
  BY <1>2 DEF Run
<1>. HIDE DEF new
<1>5. run' = new /\ cache' = run'
  BY <1>1, CurrentWrite
<1>6. RunInv'
  BY <1>2, <1>4, <1>5, UndoingRun DEF Undoing
<1>7. TaskInv'
  BY <1>1, <1>2, <1>3, <1>4, <1>5, GotoKeeps DEF Ats, Applies, Undoing
<1>. QED
  BY <1>5, <1>6, <1>7 DEF CtlInv

LEMMA UndoCtl == ASSUME ControlInv, UndoSucceeds \/ UndoFails PROVE CtlInv'
<1>1. task # Idle /\ task.at = "undo" /\ NoWrite
  BY DEF UndoSucceeds, UndoFails, At
<1>2. /\ cache = run /\ run \in Run /\ task \in Task /\ task.obj \in Run
      /\ run.exists /\ run.finalizer /\ run.phase \in Undoing
      /\ task.obj.phase = run.phase /\ task.obj.steps = run.steps
  BY <1>1, AtUndo DEF Undoes
<1>3. cache' = run' /\ run' = run
  BY <1>1, <1>2 DEF NoWrite
<1>4. RunInv'
  BY <1>2, <1>3, UndoingRun
<1>5. CASE Goto("undone", task.obj) /\ holds' = {}
  BY <1>2, <1>3, <1>4, <1>5, GotoKeeps DEF Ats, Applies, CtlInv
<1>6. CASE Goto("undoFailed", task.obj)
  BY <1>2, <1>3, <1>4, <1>6, GotoKeeps DEF Ats, Applies, CtlInv
<1>. QED
  BY <1>5, <1>6 DEF UndoSucceeds, UndoFails

LEMMA MarkFailedCtl == ASSUME Current, ControlInv, MarkFailed PROVE CtlInv'
<1>1. task # Idle /\ task.at = "undoFailed" /\ task' = Idle
  BY DEF MarkFailed, At, EndAndRequeue
<1>2. /\ cache = run /\ run \in Run /\ run.exists /\ run.finalizer /\ run.phase \in Undoing
  BY <1>1, AtUndo DEF Undoes
<1>3. /\ cache' = run' /\ run'.exists /\ run'.finalizer /\ run'.phase \in Undoing
  <2>1. CASE NoWrite
    BY <1>2, <2>1 DEF NoWrite
  <2>2. CASE Write([run EXCEPT !.phase = "RollbackFailed"])
    BY <1>2, <2>2, CurrentWrite DEF Run, Undoing
  <2>. QED
    BY <2>1, <2>2 DEF MarkFailed
<1>. QED
  BY <1>1, <1>2, <1>3, UndoingRun, IdleTask DEF CtlInv

LEMMA MarkUndoneCtl == ASSUME Current, ControlInv, MarkUndone PROVE CtlInv'
<1> DEFINE new == Merge(task.obj, "RolledBack", RolledBackSteps(task.obj.steps))
<1>1. task # Idle /\ task.at = "undone" /\ Write(new) /\ AfterUndo(new) /\ holds' = holds
  BY DEF MarkUndone, At
<1>2. /\ run \in Run /\ task \in Task /\ task.obj \in Run /\ holds = {}
      /\ run.exists /\ run.finalizer
      /\ task.obj.phase = run.phase /\ task.obj.steps = run.steps
  BY <1>1, AtUndo DEF Undoes
<1>3. new \in Run /\ new.phase = "RolledBack"
  <2>1. run \in Run /\ task.obj \in Run /\ task.obj.phase = run.phase
    BY <1>2
  <2>2. new \in Run
    BY <2>1, MergeRolledBack
  <2>3. new.phase = "RolledBack"
    BY <2>1 DEF Merge, Run
  <2>. QED
    BY <2>2, <2>3
<1>4. new.exists = run.exists /\ new.finalizer = run.finalizer
  BY <1>2 DEF Merge, Run
<1>. HIDE DEF new
<1>5. run' = new /\ cache' = run'
  BY <1>1, CurrentWrite
<1>6. RunInv'
  BY <1>1, <1>2, <1>3, <1>4, <1>5, UndoingRun
<1>7. CASE Goto("unfinalize", new)
  BY <1>2, <1>3, <1>4, <1>5, <1>6, <1>7, GotoKeeps DEF Ats, Applies, Undoes, CtlInv
<1>. QED
  BY <1>1, <1>5, <1>6, <1>7, IdleTask DEF AfterUndo, CtlInv

LEMMA RemoveFinalizerCtl == ASSUME Current, ControlInv, RemoveFinalizer PROVE CtlInv'
<1>1. /\ task # Idle /\ task.at = "unfinalize" /\ task' = Idle /\ holds' = holds
      /\ Write([run EXCEPT !.exists = FALSE])
  BY DEF RemoveFinalizer, At, End
<1>2. /\ run \in Run /\ RunInv /\ holds = {}
  BY <1>1, AtUndo DEF Undoes
<1>3. /\ cache' = run' /\ ~run'.exists /\ run'.deleting = run.deleting
      /\ run'.finalizer = run.finalizer /\ run'.phase = run.phase /\ run'.steps = run.steps
  BY <1>1, <1>2, CurrentWrite DEF Run
<1>4. RunInv'
  BY <1>1, <1>2, <1>3
     DEF RunInv, RolledBackIsFree, FinalizerGuards, SucceededHolds, ReadyMeansProvisioned
<1>. QED
  BY <1>1, <1>3, <1>4, IdleTask DEF CtlInv

LEMMA RequestFailsCtl == ASSUME ControlInv, RequestFails PROVE CtlInv'
<1>1. cache = run /\ RunInv /\ task' = Idle /\ holds' = holds /\ NoWrite
  BY ControlParts DEF RequestFails, EndAndRequeue
<1>. QED
  BY <1>1, CurrentNoWrite, KeptRun, IdleTask DEF CtlInv

LEMMA CrashCtl == ASSUME ControlInv, Crash PROVE CtlInv'
<1>1. cache' = run' /\ RunInv /\ task' = Idle /\ holds' = holds /\ Kept
  BY ControlParts DEF Crash, Kept
<1>. QED
  BY <1>1, KeptRun, IdleTask DEF CtlInv

LEMMA UsersCtl ==
    ASSUME Current, ControlInv,
           \/ AskRetry \/ SetRetry \/ RequestRollback \/ RequestApply \/ DeleteRun
           \/ EditParameters \/ AddDefinition
    PROVE  CtlInv'
<1>1. cache = run /\ RunInv /\ TaskInv /\ run \in Run
  BY ControlParts
<1>2. UNCHANGED <<holds, task>>
  BY DEF AskRetry, SetRetry, RequestRollback, RequestApply, DeleteRun, EditParameters, AddDefinition
<1>3. CASE Kept /\ cache' = run'
  BY <1>1, <1>2, <1>3, KeptRun, KeptTask DEF CtlInv
<1>4. CASE AskRetry \/ AddDefinition
  BY <1>1, <1>3, <1>4, CurrentNoWrite DEF AskRetry, AddDefinition
<1>5. CASE SetRetry
  <2>1. Write([run EXCEPT !.retry = TRUE])
    BY <1>5 DEF SetRetry
  <2>. QED
    BY <1>1, <1>3, <2>1, CurrentWrite DEF Run, Kept
<1>6. CASE RequestRollback
  <2>1. Write([run EXCEPT !.desired = "RolledBack"])
    BY <1>6 DEF RequestRollback
  <2>. QED
    BY <1>1, <1>3, <2>1, CurrentWrite DEF Run, Kept
<1>7. CASE RequestApply
  <2>1. Write([run EXCEPT !.desired = "Applied"])
    BY <1>7 DEF RequestApply
  <2>. QED
    BY <1>1, <1>3, <2>1, CurrentWrite DEF Run, Kept
<1>8. CASE EditParameters
  <2>1. PICK p : Write([run EXCEPT !.plan = p])
    BY <1>8 DEF EditParameters
  <2>. QED
    BY <1>1, <1>3, <2>1, CurrentWrite DEF Run, Kept
<1>9. CASE DeleteRun
  <2>1. CASE run.finalizer /\ Write([run EXCEPT !.deleting = TRUE])
    <3>1. /\ cache' = run' /\ run'.exists = run.exists /\ run'.finalizer
          /\ run'.phase = run.phase /\ run'.steps = run.steps
      BY <1>1, <2>1, CurrentWrite DEF Run
    <3>2. RunInv'
      BY <1>1, <1>2, <3>1
         DEF RunInv, RolledBackIsFree, FinalizerGuards, SucceededHolds, ReadyMeansProvisioned
    <3>3. TaskInv'
      BY <1>1, <1>2, <2>1, <3>1 DEF TaskInv, SeesStatus, FinalizerStays, PhaseFits, ProgressIsTrue
    <3>. QED
      BY <3>1, <3>2, <3>3 DEF CtlInv
  <2>2. CASE ~run.finalizer /\ Write([run EXCEPT !.exists = FALSE])
    <3>1. /\ cache' = run' /\ ~run'.exists /\ ~run'.finalizer /\ run'.deleting = run.deleting
          /\ run'.finalizer = run.finalizer
          /\ run'.phase = run.phase /\ run'.steps = run.steps
      BY <1>1, <2>2, CurrentWrite DEF Run
    <3>2. holds = {}
      BY <1>1, <2>2 DEF RunInv, FinalizerGuards
    <3>3. RunInv'
      BY <1>1, <1>2, <3>1, <3>2
         DEF RunInv, RolledBackIsFree, FinalizerGuards, SucceededHolds, ReadyMeansProvisioned
    <3>4. task # Idle => task.at = "finalize"
      BY <1>1, <2>2 DEF TaskInv, FinalizerStays
    <3>5. TaskInv'
      BY <1>1, <1>2, <2>2, <3>1, <3>3, <3>4
         DEF TaskInv, SeesStatus, FinalizerStays, PhaseFits, ProgressIsTrue, RunInv, Applies, Undoes
    <3>. QED
      BY <3>1, <3>3, <3>5 DEF CtlInv
  <2>. QED
    BY <1>9, <2>1, <2>2 DEF DeleteRun
<1>. QED
  BY <1>4, <1>5, <1>6, <1>7, <1>8, <1>9

LEMMA WorkCtl == ASSUME Current, ControlInv, Work PROVE CtlInv'
<1>1. CASE Reconcile \/ Dispatch \/ ReadDefinition \/ TakeSnapshot \/ Reject
  BY <1>1, ReconcileCtl, DispatchCtl, ReadDefinitionCtl, TakeSnapshotCtl, RejectCtl
<1>2. CASE Finished \/ StillFailed \/ StepDone \/ StepPermanent \/ StepWaits \/ StepTransient
  BY <1>2, AdvanceCtl
<1>3. CASE PatchStatus \/ RemoveRetry \/ MarkUndo \/ UndoSucceeds \/ UndoFails
  BY <1>3, PatchStatusCtl, RemoveRetryCtl, MarkUndoCtl, UndoCtl
<1>4. CASE MarkFailed \/ MarkUndone \/ RemoveFinalizer \/ RequestFails
  BY <1>4, MarkFailedCtl, MarkUndoneCtl, RemoveFinalizerCtl, RequestFailsCtl
<1>. QED
  BY <1>1, <1>2, <1>3, <1>4 DEF Work

LEMMA TimerCtl == ASSUME ControlInv, TimerFires PROVE CtlInv'
<1>1. cache = run /\ RunInv /\ TaskInv
  BY ControlParts
<1>2. Kept /\ cache' = run' /\ UNCHANGED <<holds, task>>
  BY <1>1 DEF TimerFires, server, Kept
<1>. QED
  BY <1>1, <1>2, KeptRun, KeptTask DEF CtlInv

LEMMA ControlInvStays == Current /\ ControlInv /\ [Next]_vars => ControlInv'
<1>. SUFFICES ASSUME Current, ControlInv, [Next]_vars
              PROVE  ControlInv'
  OBVIOUS
<1>1. TypeInv'
  BY ControlParts, TypeInvStays
<1>2. CtlInv'
  <2>1. CASE UNCHANGED vars
    BY <2>1, ControlParts, KeptRun, KeptTask DEF vars, Kept, CtlInv
  <2>2. CASE Sync
    BY <2>2 DEF Sync, Current
  <2>. QED
    BY <2>1, <2>2, WorkCtl, CrashCtl, TimerCtl, UsersCtl DEF Next
<1>. QED
  BY <1>1, <1>2 DEF CtlInv, ControlInv, TypeInv, RunInv, TaskInv

LEMMA ControlInvStarts == ASSUME Init PROVE ControlInv
<1>1. TypeInv
  BY TypeInvStarts
<1>2. PICK s, p :
        run = [exists |-> TRUE, deleting |-> FALSE, finalizer |-> FALSE, retry |-> FALSE,
               desired |-> "Applied", snapshot |-> s, plan |-> p, phase |-> "", steps |-> <<>>]
  BY DEF Init
<1>3. cache = run /\ task = Idle /\ holds = {} /\ ~run.deleting /\ run.phase = ""
  BY <1>2 DEF Init
<1>4. DOMAIN run.steps = {}
  <2>1. run.steps = <<>>
    BY <1>2
  <2>2. <<>> \in [{} -> StepStatus]
    OBVIOUS
  <2>. QED
    BY <2>1, <2>2
<1>. QED
  BY <1>1, <1>3, <1>4
     DEF ControlInv, TypeInv, SeesStatus, FinalizerStays, PhaseFits, ProgressIsTrue,
         RolledBackIsFree, FinalizerGuards, SucceededHolds, ReadyMeansProvisioned

THEOREM ControlIsInvariant == Current => (Spec => []ControlInv)
<1>. SUFFICES ASSUME Current PROVE Spec => []ControlInv
  OBVIOUS
<1>1. Init => ControlInv
  BY ControlInvStarts
<1>2. ControlInv /\ [Next]_vars => ControlInv'
  BY ControlInvStays
<1>. QED
  BY <1>1, <1>2, PTL DEF Spec

-----------------------------------------------------------------------------
(* What follows from it. *)

\* Nothing a run holds is ever without the run and its finalizer, whose removal
\* waits for a rollback: no deletion, crash or failed request leaks a reference.
THEOREM NothingIsOrphaned == Current => (Spec => []FinalizerGuards)
<1>1. ControlInv => FinalizerGuards
  BY DEF ControlInv
<1>. QED
  BY <1>1, ControlIsInvariant, PTL

\* A step that an active run lists as Succeeded holds its reference, and Ready is said only
\* of a run whose every listed step succeeded.
THEOREM StatusIsAlwaysTrue == Current => (Spec => []StatusIsTrue)
<1>1. ControlInv => StatusIsTrue
  BY DEF ControlInv, StatusIsTrue
<1>. QED
  BY <1>1, ControlIsInvariant, PTL

\* Only the two patches of a whole status change the steps a run lists, and only
\* the end of a retry takes its annotation off.
StatusKept == run'.steps = run.steps /\ (run.retry => run'.retry)

LEMMA OthersKeepStatus ==
    ASSUME run \in Run, [Next]_vars
    PROVE  StatusKept \/ PatchStatus \/ RemoveRetry \/ MarkUndone
<1>. USE DEF StatusKept
<1>1. CASE run' = run
  BY <1>1
<1>2. CASE UNCHANGED vars \/ Sync \/ TimerFires \/ Reconcile \/ Crash
  BY <1>1, <1>2 DEF vars, Sync, TimerFires, server, Reconcile, Crash
<1>3. CASE ReadDefinition \/ RequestFails \/ UndoSucceeds \/ UndoFails \/ AskRetry \/ AddDefinition
  BY <1>1, <1>3 DEF ReadDefinition, RequestFails, UndoSucceeds, UndoFails, AskRetry, AddDefinition, NoWrite
<1>4. CASE Finished \/ StillFailed \/ StepDone \/ StepPermanent \/ StepWaits \/ StepTransient
  BY <1>1, <1>4 DEF Finished, StillFailed, StepDone, StepPermanent, StepWaits, StepTransient, NoWrite
<1>5. CASE Dispatch
  <2>1. NoWrite \/ Write([run EXCEPT !.finalizer = TRUE])
    BY <1>5 DEF Dispatch
  <2>. QED
    BY <2>1 DEF NoWrite, Write, Run
<1>6. CASE TakeSnapshot
  <2>1. Write([run EXCEPT !.snapshot = TRUE])
    BY <1>6 DEF TakeSnapshot
  <2>. QED
    BY <2>1 DEF Write, Run
<1>7. CASE Reject \/ MarkUndo \/ MarkFailed
  <2>1. NoWrite \/ \E phase : Write([run EXCEPT !.phase = phase])
    BY <1>7 DEF Reject, MarkUndo, MarkFailed
  <2>. QED
    BY <2>1 DEF NoWrite, Write, Run
<1>8. CASE RemoveFinalizer
  <2>1. Write([run EXCEPT !.exists = FALSE])
    BY <1>8 DEF RemoveFinalizer
  <2>. QED
    BY <2>1 DEF Write, Run
<1>9. CASE SetRetry
  <2>1. Write([run EXCEPT !.retry = TRUE])
    BY <1>9 DEF SetRetry
  <2>. QED
    BY <2>1 DEF Write, Run
<1>10. CASE RequestRollback \/ RequestApply
  <2>1. \E desired : Write([run EXCEPT !.desired = desired])
    BY <1>10 DEF RequestRollback, RequestApply
  <2>. QED
    BY <2>1 DEF Write, Run
<1>11. CASE DeleteRun
  <2>1. Write([run EXCEPT !.deleting = TRUE]) \/ Write([run EXCEPT !.exists = FALSE])
    BY <1>11 DEF DeleteRun
  <2>. QED
    BY <2>1 DEF Write, Run
<1>12. CASE EditParameters
  <2>1. \E plan : Write([run EXCEPT !.plan = plan])
    BY <1>12 DEF EditParameters
  <2>. QED
    BY <2>1 DEF Write, Run
<1>. QED
  BY <1>2, <1>3, <1>4, <1>5, <1>6, <1>7, <1>8, <1>9, <1>10, <1>11, <1>12 DEF Next, Work

\* Recording steps keeps the annotation; rolling back turns Succeeded into RolledBack.
LEMMA PatchStatusKeepsSuccess ==
    ASSUME ControlInv, PatchStatus
    PROVE  /\ run.retry => run'.retry
           /\ \A s \in DOMAIN run.steps \cap DOMAIN run'.steps :
                 run.steps[s].phase = "Succeeded" => run'.steps[s].phase = "Succeeded"
<1> DEFINE new == Merge(task.base, task.obj.phase, task.obj.steps)
<1>1. /\ TaskInv /\ run \in Run /\ task # Idle /\ task.at = "status"
      /\ task.obj \in Run /\ task.base \in Run
  BY ControlParts DEF PatchStatus, At, TypeInv, TypeOK, Task
<1>2. NoWrite \/ Write(new)
  BY DEF PatchStatus
<1>3. CASE NoWrite
  BY <1>3 DEF NoWrite
<1>4. CASE Write(new)
  <2>1. /\ task.base.steps = run.steps
        /\ \A s \in DOMAIN task.obj.steps \cap DOMAIN run.steps :
              run.steps[s].phase = "Succeeded" => task.obj.steps[s].phase = "Succeeded"
    BY <1>1 DEF TaskInv, SeesStatus, ProgressIsTrue
  <2>2. /\ task.obj.phase \in Active \cup Undoing \cup {"RolledBack"}
        /\ task.obj.steps \in Progress
    BY <1>1 DEF Run, Progress
  <2>3. new.steps = IF task.obj.steps = task.base.steps THEN run.steps ELSE task.obj.steps
    BY <1>1, <2>2, MergeType
  <2>4. new.retry = run.retry
    BY <1>1 DEF Merge, Run
  <2>. HIDE DEF new
  <2>5. run' = new
    BY <1>4 DEF Write
  <2>. QED
    BY <2>1, <2>3, <2>4, <2>5
<1>. QED
  BY <1>2, <1>3, <1>4

LEMMA MarkUndoneKeepsSuccess ==
    ASSUME ControlInv, MarkUndone
    PROVE  /\ run.retry => run'.retry
           /\ \A s \in DOMAIN run.steps \cap DOMAIN run'.steps :
                 run.steps[s].phase = "Succeeded" => run'.steps[s].phase \in {"Succeeded", "RolledBack"}
<1> DEFINE new == Merge(task.obj, "RolledBack", RolledBackSteps(task.obj.steps))
<1>1. task # Idle /\ task.at = "undone" /\ Write(new)
  BY DEF MarkUndone, At
<1>2. run \in Run /\ task.obj \in Run /\ task.obj.steps = run.steps
  BY <1>1, AtUndo DEF Undoes
<1>3. PICK p \in SUBSET Steps : run.steps \in [p -> StepStatus]
  BY <1>2 DEF Run
<1>4. new.retry = run.retry /\ new.steps = RolledBackSteps(run.steps)
  BY <1>2 DEF Merge, Run
<1>5. \A s \in DOMAIN run.steps :
         run.steps[s].phase = "Succeeded" => RolledBackSteps(run.steps)[s].phase = "RolledBack"
  BY <1>3 DEF RolledBackSteps, StepStatus
<1>. HIDE DEF new
<1>6. run' = new
  BY <1>1 DEF Write
<1>. QED
  BY <1>4, <1>5, <1>6

\* A step that succeeded stays so through retries, edits and crashes, until the run
\* is rolled back.
THEOREM SuccessIsRemembered == Current => (Spec => SuccessIsKept)
<1>. SUFFICES ASSUME Current PROVE Spec => SuccessIsKept
  OBVIOUS
<1> DEFINE Keeps ==
    \A s \in DOMAIN run.steps \cap DOMAIN run'.steps :
       run.steps[s].phase = "Succeeded" => run'.steps[s].phase \in {"Succeeded", "RolledBack"}
<1>1. ControlInv /\ [Next]_vars => [Keeps]_vars
  <2>. SUFFICES ASSUME ControlInv, [Next]_vars PROVE Keeps
    OBVIOUS
  <2>1. run \in Run
    BY ControlParts
  <2>2. CASE StatusKept
    BY <2>2 DEF StatusKept
  <2>3. CASE RemoveRetry
    <3>1. NoWrite \/ Write([run EXCEPT !.retry = FALSE])
      BY <2>3 DEF RemoveRetry
    <3>2. run'.steps = run.steps
      BY <2>1, <3>1 DEF NoWrite, Write, Run
    <3>. QED
      BY <3>2
  <2>. QED
    BY <2>1, <2>2, <2>3, OthersKeepStatus, PatchStatusKeepsSuccess, MarkUndoneKeepsSuccess
<1>2. Spec => []ControlInv
  BY ControlIsInvariant
<1>. QED
  BY <1>1, <1>2, PTL DEF Spec, SuccessIsKept

\* When the retry annotation goes, the reset it asked for has been written.
THEOREM RetryIsServedFirst == Current => (Spec => RetryAfterReset)
<1>. SUFFICES ASSUME Current PROVE Spec => RetryAfterReset
  OBVIOUS
<1> DEFINE Reset ==
    run.retry /\ ~run'.retry =>
       \A s \in DOMAIN run.steps \cap DOMAIN task.obj.steps :
          run.steps[s].phase = "Failed" => task.obj.steps[s].phase = "Failed"
<1>1. ControlInv /\ [Next]_vars => [Reset]_vars
  <2>. SUFFICES ASSUME ControlInv, [Next]_vars PROVE Reset
    OBVIOUS
  <2>1. run \in Run /\ TaskInv
    BY ControlParts
  <2>2. CASE run.retry => run'.retry
    BY <2>2
  <2>3. CASE RemoveRetry
    <3>1. task.obj.steps = run.steps
      BY <2>1, <2>3 DEF RemoveRetry, At, TaskInv, SeesStatus
    <3>. QED
      BY <3>1
  <2>. QED
    BY <2>1, <2>2, <2>3, OthersKeepStatus, PatchStatusKeepsSuccess, MarkUndoneKeepsSuccess DEF StatusKept
<1>2. Spec => []ControlInv
  BY ControlIsInvariant
<1>. QED
  BY <1>1, <1>2, PTL DEF Spec, RetryAfterReset

-----------------------------------------------------------------------------
(* The controller implements RunSpec. *)

\* The steps of RunSpec, said of this one run.
Acquires == Stage = "active" /\ Stage' = Stage /\ \E s \in Steps : holds' = holds \cup {s}
BeginsUndo == Stage = "active" /\ Stage' = "undoing" /\ holds' = holds
Releases == Stage = "undoing" /\ Stage' = Stage /\ holds' \subseteq holds
EndsUndo == Stage = "undoing" /\ holds = {} /\ Stage' = "undone" /\ holds' = holds
Disappears == holds = {} /\ Stage' = "gone" /\ holds' = holds
Rests == Stage' = Stage /\ holds' = holds

LifeStep == Acquires \/ BeginsUndo \/ Releases \/ EndsUndo \/ Disappears \/ Rests

\* The stage depends on two fields of the run only.
LEMMA SameStage ==
    ASSUME run'.exists = run.exists, run'.phase = run.phase
    PROVE  Stage' = Stage
BY DEF Stage

LEMMA StageFacts ==
    ASSUME run.exists
    PROVE  /\ run.phase \in Active => Stage = "active"
           /\ run.phase \in Undoing => Stage = "undoing"
           /\ run.phase = "RolledBack" => Stage = "undone"
BY DEF Stage, Active, Undoing

LEMMA StageFactsNext ==
    ASSUME run'.exists
    PROVE  /\ run'.phase \in Active => Stage' = "active"
           /\ run'.phase \in Undoing => Stage' = "undoing"
           /\ run'.phase = "RolledBack" => Stage' = "undone"
BY DEF Stage, Active, Undoing

\* Actions that write at most other fields, and touch no reference.
LEMMA RestingSteps ==
    ASSUME run \in Run,
           \/ UNCHANGED vars \/ Sync \/ TimerFires \/ Reconcile \/ Crash \/ RequestFails
           \/ ReadDefinition \/ Dispatch \/ TakeSnapshot \/ Finished \/ StillFailed \/ RemoveRetry
           \/ AskRetry \/ SetRetry \/ RequestRollback \/ RequestApply \/ EditParameters \/ AddDefinition
    PROVE  Rests
<1>1. CASE run' = run /\ holds' = holds
  BY <1>1 DEF Rests, Stage
<1>2. CASE UNCHANGED vars \/ Sync \/ TimerFires \/ Reconcile \/ Crash
  BY <1>1, <1>2 DEF vars, Sync, TimerFires, server, Reconcile, Crash
<1>3. CASE RequestFails \/ ReadDefinition \/ Finished \/ StillFailed \/ AskRetry \/ AddDefinition
  BY <1>1, <1>3 DEF RequestFails, ReadDefinition, Finished, StillFailed, AskRetry, AddDefinition, NoWrite
<1>4. CASE Dispatch \/ TakeSnapshot \/ RemoveRetry \/ SetRetry
  <2>1. /\ holds' = holds
        /\ \/ NoWrite
           \/ Write([run EXCEPT !.finalizer = TRUE]) \/ Write([run EXCEPT !.snapshot = TRUE])
           \/ Write([run EXCEPT !.retry = FALSE]) \/ Write([run EXCEPT !.retry = TRUE])
    BY <1>4 DEF Dispatch, TakeSnapshot, RemoveRetry, SetRetry
  <2>2. run'.exists = run.exists /\ run'.phase = run.phase
    BY <2>1 DEF NoWrite, Write, Run
  <2>. QED
    BY <2>1, <2>2, SameStage DEF Rests
<1>5. CASE RequestRollback \/ RequestApply
  <2>1. holds' = holds /\ \E desired : Write([run EXCEPT !.desired = desired])
    BY <1>5 DEF RequestRollback, RequestApply
  <2>2. run'.exists = run.exists /\ run'.phase = run.phase
    BY <2>1 DEF Write, Run
  <2>. QED
    BY <2>1, <2>2, SameStage DEF Rests
<1>6. CASE EditParameters
  <2>1. holds' = holds /\ \E plan : Write([run EXCEPT !.plan = plan])
    BY <1>6 DEF EditParameters
  <2>2. run'.exists = run.exists /\ run'.phase = run.phase
    BY <2>1 DEF Write, Run
  <2>. QED
    BY <2>1, <2>2, SameStage DEF Rests
<1>. QED
  BY <1>2, <1>3, <1>4, <1>5, <1>6

\* Steps of the plan acquire, while the run is active.
LEMMA StepsAcquire ==
    ASSUME ControlInv, StepDone \/ StepPermanent \/ StepWaits \/ StepTransient
    PROVE  LifeStep
<1>1. At("advance")
  BY DEF StepDone, StepPermanent, StepWaits, StepTransient, Runnable
<1>2. /\ holds' = holds \/ (Unfinished # {} /\ holds' = holds \cup {Next1})
      /\ run' = run
  BY DEF StepDone, StepPermanent, StepWaits, StepTransient, Runnable, MayHold, NoWrite
<1>3. Unfinished # {} => Next1 \in Steps
  BY <1>1, AtAdvance, AdvanceFacts
<1>4. Stage = "active" /\ Stage' = Stage
  BY <1>1, <1>2, AtAdvance, StageFacts, SameStage
<1>. QED
  BY <1>2, <1>3, <1>4 DEF LifeStep, Acquires, Rests

\* The patches of status while the run is active leave it active.
LEMMA StatusPatchesRest ==
    ASSUME Current, ControlInv, ControlInv', PatchStatus \/ Reject
    PROVE  LifeStep
<1>1. TaskInv /\ run \in Run /\ task \in Task /\ task # Idle /\ task.at \in {"status", "reject"}
  BY ControlParts DEF PatchStatus, Reject, At, TypeInv, TypeOK
<1>2. run.exists /\ run.phase \in Active /\ (task.at = "status" => task.obj.phase \in Active)
  BY <1>1 DEF TaskInv, FinalizerStays, PhaseFits, ProgressIsTrue, Applies
<1>3. /\ holds' = holds
      /\ \/ NoWrite
         \/ Write([run EXCEPT !.phase = "Failed"])
         \/ task.at = "status" /\ Write(Merge(task.base, task.obj.phase, task.obj.steps))
  BY DEF PatchStatus, Reject, At
<1>4. run'.exists /\ run'.phase \in Active
  <2>1. CASE NoWrite
    BY <1>2, <2>1 DEF NoWrite
  <2>2. CASE Write([run EXCEPT !.phase = "Failed"])
    BY <1>1, <1>2, <2>2 DEF Write, Run, Active
  <2>3. CASE task.at = "status" /\ Write(Merge(task.base, task.obj.phase, task.obj.steps))
    <3> DEFINE new == Merge(task.base, task.obj.phase, task.obj.steps)
    <3>1. new.exists = run.exists /\ new.phase \in {run.phase, task.obj.phase}
      BY <1>1 DEF Merge, Run
    <3>. HIDE DEF new
    <3>2. run' = new
      BY <2>3 DEF Write, new
    <3>. QED
      BY <1>2, <2>3, <3>1, <3>2
  <2>. QED
    BY <1>3, <2>1, <2>2, <2>3
<1>5. Stage = "active" /\ Stage' = "active"
  BY <1>2, <1>4, StageFacts, StageFactsNext
<1>. QED
  BY <1>3, <1>5 DEF LifeStep, Rests

\* A rollback announces itself, releases, and ends with nothing held.
LEMMA RollbackReleases ==
    ASSUME Current, ControlInv,
           \/ MarkUndo \/ UndoSucceeds \/ UndoFails \/ MarkFailed \/ MarkUndone \/ RemoveFinalizer
    PROVE  LifeStep
<1>1. task # Idle /\ task.at \in Undoes \cup {"markUndo", "unfinalize"}
  BY DEF MarkUndo, UndoSucceeds, UndoFails, MarkFailed, MarkUndone, RemoveFinalizer, At, Undoes
<1>2. /\ TaskInv /\ run \in Run /\ task \in Task /\ task.obj \in Run /\ run.exists
      /\ task.obj.phase = run.phase
  BY <1>1, AtUndo
<1>3. CASE MarkUndo
  <2>1. run.phase \in Active
    BY <1>1, <1>2, <1>3 DEF MarkUndo, At, TaskInv, PhaseFits
  <2>2. Write([run EXCEPT !.phase = "RollingBack"]) /\ holds' = holds
    BY <1>3 DEF MarkUndo
  <2>3. run'.exists /\ run'.phase \in Undoing
    BY <1>2, <2>2 DEF Write, Run, Undoing
  <2>. QED
    BY <1>2, <2>1, <2>2, <2>3, StageFacts, StageFactsNext DEF LifeStep, BeginsUndo
<1>4. CASE UndoSucceeds \/ UndoFails
  <2>1. run.phase \in Undoing
    BY <1>1, <1>4, AtUndo DEF UndoSucceeds, UndoFails, At, Undoes
  <2>2. run' = run /\ holds' \subseteq holds
    BY <1>4 DEF UndoSucceeds, UndoFails, NoWrite
  <2>. QED
    BY <1>2, <2>1, <2>2, StageFacts, SameStage DEF LifeStep, Releases
<1>5. CASE MarkFailed
  <2>1. run.phase \in Undoing
    BY <1>1, <1>5, AtUndo DEF MarkFailed, At, Undoes
  <2>2. holds' = holds /\ (NoWrite \/ Write([run EXCEPT !.phase = "RollbackFailed"]))
    BY <1>5 DEF MarkFailed
  <2>3. run'.exists /\ run'.phase \in Undoing
    BY <1>2, <2>1, <2>2 DEF NoWrite, Write, Run, Undoing
  <2>. QED
    BY <1>2, <2>1, <2>2, <2>3, StageFacts, StageFactsNext DEF LifeStep, Rests
<1>6. CASE MarkUndone
  <2> DEFINE new == Merge(task.obj, "RolledBack", RolledBackSteps(task.obj.steps))
  <2>1. run.phase \in Undoing /\ holds = {}
    BY <1>1, <1>6, AtUndo DEF MarkUndone, At, Undoes
  <2>2. Write(new) /\ holds' = holds
    BY <1>6 DEF MarkUndone
  <2>3. new.exists = run.exists /\ new.phase = "RolledBack"
    BY <1>2 DEF Merge, Run
  <2>. HIDE DEF new
  <2>4. run'.exists /\ run'.phase = "RolledBack"
    BY <1>2, <2>2, <2>3 DEF Write
  <2>. QED
    BY <1>2, <2>1, <2>2, <2>4, StageFacts, StageFactsNext DEF LifeStep, EndsUndo
<1>7. CASE RemoveFinalizer
  <2>1. holds = {}
    BY <1>1, <1>7, AtUndo DEF RemoveFinalizer, At
  <2>2. Write([run EXCEPT !.exists = FALSE]) /\ holds' = holds
    BY <1>7 DEF RemoveFinalizer
  <2>3. ~run'.exists
    BY <1>2, <2>2 DEF Write, Run
  <2>. QED
    BY <2>1, <2>2, <2>3 DEF LifeStep, Disappears, Stage
<1>. QED
  BY <1>3, <1>4, <1>5, <1>6, <1>7

\* A run that goes at once has no finalizer, so it holds nothing.
LEMMA DeletionIsFree == ASSUME ControlInv, DeleteRun PROVE LifeStep
<1>1. run \in Run /\ RunInv /\ holds' = holds
  BY ControlParts DEF DeleteRun
<1>2. CASE run.finalizer /\ Write([run EXCEPT !.deleting = TRUE])
  <2>1. run'.exists = run.exists /\ run'.phase = run.phase
    BY <1>1, <1>2 DEF Write, Run
  <2>. QED
    BY <1>1, <2>1, SameStage DEF LifeStep, Rests
<1>3. CASE ~run.finalizer /\ Write([run EXCEPT !.exists = FALSE])
  <2>1. ~run'.exists
    BY <1>1, <1>3 DEF Write, Run
  <2>2. holds = {}
    BY <1>1, <1>3 DEF RunInv, FinalizerGuards
  <2>. QED
    BY <1>1, <2>1, <2>2 DEF LifeStep, Disappears, Stage
<1>. QED
  BY <1>2, <1>3 DEF DeleteRun

LEMMA EveryStepIsALifeStep ==
    ASSUME Current, ControlInv, ControlInv', [Next]_vars
    PROVE  LifeStep
<1>1. run \in Run
  BY ControlParts
<1>2. CASE Rests
  BY <1>2 DEF LifeStep
<1>. QED
  BY <1>1, <1>2, RestingSteps, StepsAcquire, StatusPatchesRest, RollbackReleases, DeletionIsFree
     DEF Next, Work

LEMMA LifeStepImplements == ASSUME holds \subseteq Steps, LifeStep PROVE [Lifecycle!Next]_(Lifecycle!vars)
<1>1. CASE Acquires
  BY <1>1 DEF Acquires, Lifecycle!Next, Lifecycle!Acquire
<1>2. CASE BeginsUndo
  BY <1>2 DEF BeginsUndo, Lifecycle!Next, Lifecycle!BeginUndo
<1>3. CASE Releases
  BY <1>3 DEF Releases, Lifecycle!Next, Lifecycle!Release
<1>4. CASE EndsUndo
  BY <1>4 DEF EndsUndo, Lifecycle!Next, Lifecycle!EndUndo
<1>5. CASE Disappears
  BY <1>5 DEF Disappears, Lifecycle!Next, Lifecycle!Disappear
<1>6. CASE Rests
  BY <1>6 DEF Rests, Lifecycle!vars
<1>. QED
  BY <1>1, <1>2, <1>3, <1>4, <1>5, <1>6 DEF LifeStep

LEMMA LifeStarts == ASSUME Init PROVE Lifecycle!Init
<1>1. run.exists /\ run.phase = "" /\ holds = {}
  <2>1. PICK s, p :
          run = [exists |-> TRUE, deleting |-> FALSE, finalizer |-> FALSE, retry |-> FALSE,
                 desired |-> "Applied", snapshot |-> s, plan |-> p, phase |-> "", steps |-> <<>>]
    BY DEF Init
  <2>. QED
    BY <2>1 DEF Init
<1>2. Stage = "active"
  BY <1>1, StageFacts DEF Active
<1>. QED
  BY <1>1, <1>2 DEF Lifecycle!Init

\* The controller keeps RunSpec's promise for its run: it acquires only while active,
\* releases only in an announced rollback, counts as rolled back and goes away only
\* with nothing held, and never comes back from a rollback.
THEOREM ControllerKeepsRunSpec == Current => (Spec => KeepsRunSpec)
<1>. SUFFICES ASSUME Current PROVE Spec => KeepsRunSpec
  OBVIOUS
<1>1. Init => Lifecycle!Init
  BY LifeStarts
<1>2. ControlInv /\ ControlInv' /\ [Next]_vars => [Lifecycle!Next]_(Lifecycle!vars)
  <2>. SUFFICES ASSUME ControlInv, ControlInv', [Next]_vars
                PROVE  [Lifecycle!Next]_(Lifecycle!vars)
    OBVIOUS
  <2>1. holds \subseteq Steps
    BY DEF ControlInv, TypeOK
  <2>2. LifeStep
    BY EveryStepIsALifeStep
  <2>. QED
    BY <2>1, <2>2, LifeStepImplements
<1>3. Spec => []ControlInv
  BY ControlIsInvariant
<1>. QED
  BY <1>1, <1>2, <1>3, PTL DEF Spec, KeepsRunSpec, Lifecycle!Spec
-----------------------------------------------------------------------------
(* No wakeup is lost.  A reconcile that nothing has queued the run behind    *)
(* knows the run's spec; so what it decides when it ends is right, or it has *)
(* set a timer.                                                              *)

\* The spec and annotations that o shows are those of r.
Sees(o, r) ==
    /\ o.deleting = r.deleting /\ o.desired = r.desired /\ o.retry = r.retry
    /\ o.snapshot = r.snapshot /\ o.plan = r.plan

Follows ==
    task # Idle /\ ~queued =>
        /\ Sees(task.obj, run) /\ task.delete = run.deleting
        /\ task.at \in Applies => run.desired = "Applied" /\ ~run.deleting
        /\ task.at = "definition" => ~run.snapshot
        /\ task.at = "reject" => run.plan = Invalid \/ ~run.snapshot
        /\ task.at \in {"advance", "status"} =>
              /\ task.retry = run.retry /\ Sees(task.base, run)
              /\ run.snapshot /\ run.plan \in Plans /\ DOMAIN task.obj.steps = run.plan
        /\ task.at = "status" /\ ~task.wait => Decided(task.obj)
        /\ task.at = "unretry" => run.retry

WakeInv == Follows /\ NothingForgotten

\* Whatever has the run queued again takes care of it.
LEMMA QueuedWakes == ASSUME queued' PROVE WakeInv'
BY DEF WakeInv, Follows, NothingForgotten, Awake

LEMMA TimerWakes == ASSUME task' = Idle, timer' PROVE WakeInv'
BY DEF WakeInv, Follows, NothingForgotten, Awake

LEMMA RestWakes == ASSUME task' = Idle, AtRest' PROVE WakeInv'
BY DEF WakeInv, Follows, NothingForgotten, Awake

LEMMA BusyWakes == ASSUME task' # Idle, Follows' PROVE WakeInv'
BY DEF WakeInv, NothingForgotten, Awake

\* A write that queues nothing leaves the spec alone.
LEMMA QuietWrite ==
    ASSUME Current, NEW new, Write(new), ~queued'
    PROVE  ~queued /\ run' = new /\ Sees(new, run) /\ new.exists = run.exists
<1>1. ~queued /\ run' = new /\ ~RunChanged(run, new)
  BY DEF Write, Current
<1>. QED
  BY <1>1 DEF RunChanged, Sees

LEMMA SeesSelf == \A r : Sees(r, r)
BY DEF Sees

\* The step that advance works on is the first that is not done.
LEMMA Next1IsFirst ==
    ASSUME task.obj.plan \in SUBSET Steps, Unfinished # {}
    PROVE  /\ Next1 \in task.obj.plan /\ Next1 \in Steps
           /\ \A t \in task.obj.plan : t < Next1 => task.obj.steps[t].phase = "Succeeded"
<1>1. Unfinished \in SUBSET Steps
  BY DEF Unfinished
<1>2. Next1 \in Unfinished /\ \A t \in Unfinished : Next1 <= t
  BY <1>1, FirstExists DEF Next1
<1>3. \A t \in Steps : t \in Nat
  BY RunControllerAssumption
<1>4. \A t \in Unfinished : ~(t < Next1)
  BY <1>1, <1>2, <1>3
<1>. QED
  BY <1>2, <1>4 DEF Unfinished

\* Each way a reconcile goes on.
LEMMA GotoFollows ==
    ASSUME task \in Task, NEW pc \in Ats \ {"advance", "status"}, NEW obj \in Run, Goto(pc, obj),
           Sees(obj, run'), task.delete = run'.deleting,
           pc \in Applies => run'.desired = "Applied" /\ ~run'.deleting,
           pc = "definition" => ~run'.snapshot,
           pc = "reject" => run'.plan = Invalid \/ ~run'.snapshot,
           pc = "unretry" => run'.retry
    PROVE  Follows'
<1>1. task'.at = pc /\ task'.obj = obj /\ task'.delete = task.delete
  BY GotoTask
<1>. QED
  BY <1>1 DEF Follows

LEMMA AdvanceFollows ==
    ASSUME task \in Task, NEW obj \in Run, obj.plan \in Plans, task' = Advance(obj),
           Sees(obj, run'), task.delete = run'.deleting,
           run'.desired = "Applied", ~run'.deleting, run'.snapshot
    PROVE  Follows'
<1>1. /\ task'.at = "advance" /\ task'.base = obj /\ task'.retry = obj.retry
      /\ task'.delete = task.delete /\ DOMAIN task'.obj.steps = obj.plan
  BY AdvanceTask
<1>2. Sees(task'.obj, obj)
  BY DEF Advance, Task, Run, Sees
<1>3. Sees(task'.obj, run')
  BY <1>2 DEF Sees
<1>. QED
  BY <1>1, <1>3 DEF Follows, Sees

LEMMA ToPlanFollows ==
    ASSUME task \in Task, NEW obj \in Run, ToPlan(obj),
           Sees(obj, run'), task.delete = run'.deleting,
           run'.desired = "Applied", ~run'.deleting, run'.snapshot
    PROVE  Follows'
<1>1. CASE obj.plan = Invalid /\ Goto("reject", obj)
  <2>1. run'.plan = Invalid
    BY <1>1 DEF Sees
  <2>. QED
    BY <1>1, <2>1, GotoFollows DEF Ats
<1>2. CASE obj.plan # Invalid /\ task' = Advance(obj)
  <2>1. obj.plan \in Plans
    BY <1>2 DEF Run
  <2>. QED
    BY <1>2, <2>1, AdvanceFollows
<1>. QED
  BY <1>1, <1>2 DEF ToPlan

LEMMA ToUndoFollows ==
    ASSUME task \in Task, NEW obj \in Run, ToUndo(obj), Sees(obj, run'), task.delete = run'.deleting
    PROVE  Follows'
BY ToUndoTask, GotoFollows DEF Ats, Applies

\* What a reconcile comes to from the run it has read, or from the finalizer's patch.
LEMMA ToDesiredWakes ==
    ASSUME task \in Task, NEW obj \in Run, ToDesired(obj),
           Sees(obj, run'), obj.phase = run'.phase, task.delete = run'.deleting, ~run'.deleting
    PROVE  WakeInv'
<1>1. obj.desired = run'.desired /\ obj.snapshot = run'.snapshot
  BY DEF Sees
<1>2. CASE obj.desired = "RolledBack" /\ obj.phase = "RolledBack" /\ task' = Idle
  BY <1>2, RestWakes DEF AtRest
<1>3. CASE obj.desired = "Applied" /\ ~MayApply(obj) /\ task' = Idle
  <2>1. run'.phase \in Undoing \cup {"RolledBack"}
    BY <1>3 DEF MayApply, Run
  <2>. QED
    BY <1>1, <1>3, <2>1, RestWakes DEF AtRest
<1>4. CASE ToUndo(obj)
  <2>1. task' # Idle
    BY <1>4, ToUndoTask, GotoTask, MarkersAreDistinct DEF Ats
  <2>. QED
    BY <1>4, <2>1, ToUndoFollows, BusyWakes
<1>5. CASE obj.desired = "Applied" /\ obj.snapshot /\ ToPlan(obj)
  <2>1. task' # Idle
    BY <1>5, ToPlanTask, GotoTask, AdvanceTask, MarkersAreDistinct DEF Ats
  <2>. QED
    BY <1>1, <1>5, <2>1, ToPlanFollows, BusyWakes
<1>6. CASE obj.desired = "Applied" /\ ~obj.snapshot /\ Goto("definition", obj)
  <2>1. task' # Idle
    BY <1>6, GotoTask, MarkersAreDistinct DEF Ats
  <2>. QED
    BY <1>1, <1>6, <2>1, GotoFollows, BusyWakes DEF Ats
<1>. QED
  BY <1>2, <1>3, <1>4, <1>5, <1>6 DEF ToDesired

\* What a reconcile in progress is about, when nothing has queued the run behind it.
LEMMA AtWork ==
    ASSUME ControlInv, task # Idle
    PROVE  /\ TypeInv /\ task \in Task /\ task.obj \in Run /\ task.base \in Run
           /\ run \in Run /\ cache = run
           /\ LET seen == IF task.at \in {"advance", "status"} THEN task.base ELSE task.obj
              IN  seen.phase = run.phase /\ seen.steps = run.steps
BY ControlParts DEF TypeInv, TypeOK, Task, TaskInv, SeesStatus

LEMMA NoWriteKeeps == ASSUME NoWrite PROVE run' = run /\ queued' = queued
BY DEF NoWrite

LEMMA ReconcileWakes == ASSUME Current, ControlInv, Reconcile PROVE WakeInv'
<1> DEFINE fresh == [at |-> "finalize", obj |-> cache, base |-> cache,
                     retry |-> FALSE, wait |-> FALSE, delete |-> cache.deleting]
<1>1. cache = run /\ run' = run /\ TypeInv'
  BY ControlParts, ReconcileType DEF Reconcile, server
<1>2. CASE task' = fresh
  <2>1. task'.at = "finalize" /\ task'.obj = run /\ task'.delete = run.deleting
    BY <1>1, <1>2
  <2>2. fresh \in Task
    <3>1. cache \in Run /\ cache.deleting \in BOOLEAN
      BY DEF ControlInv, TypeOK, Run
    <3>. QED
      BY <3>1 DEF Task
  <2>3. task' # Idle
    BY <1>2, <2>2, MarkersAreDistinct
  <2>. HIDE DEF fresh
  <2>4. Follows'
    BY <1>1, <2>1, SeesSelf DEF Follows, Applies
  <2>. QED
    BY <2>3, <2>4, BusyWakes
<1>3. CASE ~run.exists /\ task' = Idle
  BY <1>1, <1>3, RestWakes DEF AtRest
<1>. QED
  BY <1>1, <1>2, <1>3 DEF Reconcile

LEMMA DispatchWakes == ASSUME Current, ControlInv, WakeInv, ~queued', Dispatch PROVE WakeInv'
<1> DEFINE new == [run EXCEPT !.finalizer = TRUE]
<1>1. /\ task # Idle /\ task.at = "finalize" /\ task \in Task /\ task.obj \in Run /\ run \in Run
      /\ task.obj.phase = run.phase
  BY AtWork DEF Dispatch, At
<1>2. CASE ~task.obj.deleting /\ Write(new) /\ ToDesired(new)
  <2>1. new \in Run
    BY <1>1, RunUpdates
  <2>5. new.phase = run.phase /\ new.deleting = run.deleting
    BY <1>1 DEF Run
  <2>2. ~queued /\ run' = new
    BY <1>2, QuietWrite
  <2>3. task.delete = run'.deleting /\ ~run'.deleting
    BY <1>1, <1>2, <2>2, <2>5 DEF WakeInv, Follows, Sees
  <2>. HIDE DEF new
  <2>4. Sees(new, run')
    BY <2>2, SeesSelf
  <2>. QED
    BY <1>1, <1>2, <2>1, <2>2, <2>3, <2>4, <2>5, ToDesiredWakes
<1>3. CASE NoWrite
  <2>1. run' = run /\ ~queued
    BY <1>3, NoWriteKeeps
  <2>2. Sees(task.obj, run') /\ task.obj.phase = run'.phase /\ task.delete = run'.deleting
    BY <1>1, <2>1 DEF WakeInv, Follows
  <2>3. CASE task.obj.deleting /\ Goto("unfinalize", task.obj)
    <3>1. Follows'
      BY <1>1, <2>2, <2>3, GotoFollows DEF Ats, Applies
    <3>2. task' # Idle
      BY <1>1, <2>3, GotoTask, MarkersAreDistinct DEF Ats
    <3>. QED
      BY <3>1, <3>2, BusyWakes
  <2>4. CASE ToUndo(task.obj)
    <3>1. Follows'
      BY <1>1, <2>2, <2>4, ToUndoFollows
    <3>2. task' # Idle
      BY <1>1, <2>4, ToUndoTask, GotoTask, MarkersAreDistinct DEF Ats
    <3>. QED
      BY <3>1, <3>2, BusyWakes
  <2>5. CASE ~task.obj.deleting /\ ToDesired(task.obj)
    <3>1. ~run'.deleting
      BY <2>2, <2>5 DEF Sees
    <3>. QED
      BY <1>1, <2>2, <2>5, <3>1, ToDesiredWakes
  <2>6. CASE EndAndRequeue
    BY <2>6, TimerWakes DEF EndAndRequeue
  <2>. QED
    BY <1>2, <1>3, <2>3, <2>4, <2>5, <2>6 DEF Dispatch
<1>. QED
  BY <1>2, <1>3 DEF Dispatch

LEMMA ReadDefinitionWakes ==
    ASSUME ControlInv, WakeInv, ~queued', ReadDefinition
    PROVE  WakeInv'
<1>1. /\ task # Idle /\ task.at = "definition" /\ task \in Task /\ task.obj \in Run
      /\ run' = run /\ ~queued
  BY AtWork, NoWriteKeeps DEF ReadDefinition, At
<1>2. /\ Sees(task.obj, run') /\ task.delete = run'.deleting
      /\ run'.desired = "Applied" /\ ~run'.deleting /\ ~run'.snapshot
  BY <1>1 DEF WakeInv, Follows, Applies
<1>3. Goto("snapshot", task.obj) \/ Goto("reject", task.obj)
  BY DEF ReadDefinition
<1>4. Follows'
  BY <1>1, <1>2, <1>3, GotoFollows DEF Ats
<1>5. task' # Idle
  BY <1>1, <1>3, GotoTask, MarkersAreDistinct DEF Ats
<1>. QED
  BY <1>4, <1>5, BusyWakes

LEMMA TakeSnapshotWakes ==
    ASSUME Current, ControlInv, WakeInv, ~queued', TakeSnapshot
    PROVE  WakeInv'
<1> DEFINE new == [run EXCEPT !.snapshot = TRUE]
<1>1. task # Idle /\ task.at = "snapshot" /\ task \in Task /\ run \in Run /\ Write(new) /\ ToPlan(new)
  BY AtWork DEF TakeSnapshot, At
<1>2. new \in Run
  BY <1>1, RunUpdates
<1>8. new.desired = run.desired /\ new.deleting = run.deleting /\ new.snapshot
  BY <1>1 DEF Run
<1>3. ~queued /\ run' = new
  BY <1>1, QuietWrite
<1>4. run.desired = "Applied" /\ ~run.deleting /\ task.delete = run.deleting
  BY <1>1, <1>3 DEF WakeInv, Follows, Applies
<1>. HIDE DEF new
<1>5. Sees(new, run')
  BY <1>3, SeesSelf
<1>6. Follows'
  BY <1>1, <1>2, <1>3, <1>4, <1>5, <1>8, ToPlanFollows
<1>7. task' # Idle
  BY <1>1, <1>2, ToPlanTask, GotoTask, AdvanceTask, MarkersAreDistinct DEF Ats
<1>. QED
  BY <1>6, <1>7, BusyWakes

LEMMA RejectWakes == ASSUME Current, ControlInv, WakeInv, ~queued', Reject PROVE WakeInv'
<1>1. /\ task # Idle /\ task.at = "reject" /\ run \in Run /\ task.obj.phase = run.phase
      /\ task' = Idle
  BY AtWork DEF Reject, At, End
<1>2. ~queued /\ run'.phase = "Failed" /\ Sees(run', run)
  <2>1. CASE run.phase = "Failed" /\ NoWrite
    BY <2>1, NoWriteKeeps, SeesSelf
  <2>2. CASE Write([run EXCEPT !.phase = "Failed"])
    <3>1. [run EXCEPT !.phase = "Failed"].phase = "Failed"
      BY <1>1 DEF Run
    <3>. QED
      BY <2>2, <3>1, QuietWrite
  <2>. QED
    BY <1>1, <2>1, <2>2 DEF Reject
<1>3. AtRest'
  BY <1>1, <1>2 DEF WakeInv, Follows, AtRest, Sees, Applies
<1>. QED
  BY <1>1, <1>3, RestWakes

\* The steps of advance: those that go on, and those that decide what the status will say.
LEMMA AdvancesFollow ==
    ASSUME ControlInv, WakeInv, ~queued, run' = run, At("advance"),
           NEW obj \in Run, task'.obj = obj, task'.at \in {"advance", "status"},
           task'.base = task.base, task'.retry = task.retry, task'.delete = task.delete,
           Sees(obj, task.obj), DOMAIN obj.steps = DOMAIN task.obj.steps,
           task'.at = "status" /\ ~task'.wait => Decided(obj)
    PROVE  Follows'
BY DEF WakeInv, Follows, At, Sees, Applies

LEMMA StopWakes ==
    ASSUME ControlInv, WakeInv, ~queued', At("advance"), NoWrite,
           NEW phase \in Active, NEW steps \in Progress, NEW wait \in BOOLEAN, Stop(phase, steps, wait),
           DOMAIN steps = task.obj.plan,
           ~wait => \/ phase = "Ready" /\ \A s \in task.obj.plan : steps[s].phase = "Succeeded"
                    \/ /\ phase = "Failed"
                       /\ \E s \in task.obj.plan :
                             /\ steps[s].phase = "Failed"
                             /\ \A t \in task.obj.plan : t < s => steps[t].phase = "Succeeded"
    PROVE  WakeInv'
<1>1. /\ task # Idle /\ task.at = "advance" /\ task \in Task /\ task.obj \in Run
      /\ run' = run /\ ~queued /\ DOMAIN task.obj.steps = task.obj.plan
  BY AtWork, NoWriteKeeps DEF At, TypeInv, PlanSynced
<1>2. /\ task' \in Task /\ task'.at = "status" /\ task'.obj.phase = phase /\ task'.obj.steps = steps
      /\ task'.base = task.base /\ task'.retry = task.retry /\ task'.delete = task.delete
  BY <1>1, StopTask
<1>3. task'.wait = wait /\ Sees(task'.obj, task.obj) /\ task'.obj.plan = task.obj.plan
  BY <1>1 DEF Stop, Task, Run, Sees
<1>4. task'.at = "status" /\ ~task'.wait => Decided(task'.obj)
  BY <1>2, <1>3 DEF Decided
<1>5. task'.obj \in Run /\ task' # Idle
  BY <1>2, MarkersAreDistinct DEF Task
<1>6. Follows'
  BY <1>1, <1>2, <1>3, <1>4, <1>5, AdvancesFollow
<1>. QED
  BY <1>5, <1>6, BusyWakes

\* Failing the first step that is not done decides the run.
LEMMA SetDecides ==
    ASSUME TypeInv, At("advance"), Unfinished # {},
           NEW phase \in StepPhases, NEW n \in 0..(MaxFailures - 1)
    PROVE  /\ Set(Next1, phase, n) \in Progress /\ DOMAIN Set(Next1, phase, n) = task.obj.plan
           /\ phase = "Failed" =>
                 \E s \in task.obj.plan :
                    /\ Set(Next1, phase, n)[s].phase = "Failed"
                    /\ \A t \in task.obj.plan : t < s => Set(Next1, phase, n)[t].phase = "Succeeded"
<1>1. task.obj.plan \in SUBSET Steps /\ task.obj.steps \in [task.obj.plan -> StepStatus]
  BY AdvanceFacts
<1>2. /\ Next1 \in task.obj.plan /\ Next1 \in Nat
      /\ \A t \in task.obj.plan : t < Next1 => task.obj.steps[t].phase = "Succeeded"
  BY <1>1, Next1IsFirst, RunControllerAssumption
<1> DEFINE steps == Set(Next1, phase, n)
<1>3. /\ steps[Next1].phase = phase
      /\ \A t \in task.obj.plan : t # Next1 => steps[t] = task.obj.steps[t]
  BY <1>1, <1>2 DEF Set
<1>4. steps \in Progress /\ DOMAIN steps = task.obj.plan
  BY SetType
<1>. HIDE DEF steps
<1>5. \A t \in task.obj.plan : t < Next1 => steps[t].phase = "Succeeded"
  BY <1>1, <1>2, <1>3, RunControllerAssumption
<1>6. phase = "Failed" =>
          \E s \in task.obj.plan : steps[s].phase = "Failed"
                                   /\ \A t \in task.obj.plan : t < s => steps[t].phase = "Succeeded"
  BY <1>2, <1>3, <1>5
<1>. QED
  BY <1>4, <1>6 DEF steps

LEMMA SetWakes ==
    ASSUME ControlInv, WakeInv, ~queued', At("advance"), NoWrite, Unfinished # {},
           NEW phase \in {"Failed", "Running"}, NEW n \in 0..(MaxFailures - 1), NEW wait \in BOOLEAN,
           Stop(phase, Set(Next1, phase, n), wait), wait \/ phase = "Failed"
    PROVE  WakeInv'
<1> DEFINE steps == Set(Next1, phase, n)
<1>1. TypeInv /\ phase \in StepPhases /\ phase \in Active
  BY AtWork DEF At, StepPhases, Active
<1>2. /\ steps \in Progress /\ DOMAIN steps = task.obj.plan
      /\ phase = "Failed" =>
            \E s \in task.obj.plan : /\ steps[s].phase = "Failed"
                                    /\ \A t \in task.obj.plan : t < s => steps[t].phase = "Succeeded"
  BY <1>1, SetDecides
<1>3. Stop(phase, steps, wait)
  OBVIOUS
<1>. HIDE DEF steps
<1>. QED
  BY <1>1, <1>2, <1>3, StopWakes

LEMMA AdvanceWakes ==
    ASSUME ControlInv, WakeInv, ~queued',
           Finished \/ StillFailed \/ StepDone \/ StepPermanent \/ StepWaits \/ StepTransient
    PROVE  WakeInv'
<1>1. At("advance") /\ NoWrite /\ TypeInv
  BY AtWork DEF Finished, StillFailed, StepDone, StepPermanent, StepWaits, StepTransient, Runnable, At
<1>2. /\ task \in Task /\ task.obj \in Run /\ task.obj.plan \in SUBSET Steps
      /\ task.obj.steps \in [task.obj.plan -> StepStatus] /\ task.obj.steps \in Progress
  BY <1>1, AdvanceFacts DEF Task
<1>3. 0 \in 0..(MaxFailures - 1) /\ {"Failed", "Running", "Ready"} \subseteq Active
  BY RunControllerAssumption DEF Active
<1>4. CASE Finished
  <2>1. \A s \in task.obj.plan : task.obj.steps[s].phase = "Succeeded"
    BY <1>4 DEF Finished, Unfinished
  <2>. QED
    BY <1>1, <1>2, <1>3, <1>4, <2>1, StopWakes DEF Finished
<1>5. CASE StillFailed
  <2>1. /\ Next1 \in task.obj.plan /\ task.obj.steps[Next1].phase = "Failed"
        /\ \A t \in task.obj.plan : t < Next1 => task.obj.steps[t].phase = "Succeeded"
    BY <1>2, <1>5, Next1IsFirst DEF StillFailed
  <2>. QED
    BY <1>1, <1>2, <1>3, <1>5, <2>1, StopWakes DEF StillFailed
<1>6. CASE StepDone
  <2>1. run' = run /\ ~queued /\ Unfinished # {}
    BY <1>1, <1>6, NoWriteKeeps DEF StepDone, Runnable
  <2> DEFINE steps == Set(Next1, "Succeeded", 0)
             obj == [task.obj EXCEPT !.steps = steps]
  <2>2. steps \in Progress /\ DOMAIN steps = task.obj.plan
    BY <1>1, <1>3, <2>1, SetDecides DEF StepPhases
  <2>3. task' = [task EXCEPT !.obj = obj]
    BY <1>2, <1>6 DEF StepDone, Task, Run
  <2>. HIDE DEF steps
  <2>4. obj \in Run
    BY <1>2, <2>2, RunUpdates
  <2>5. Sees(obj, task.obj) /\ DOMAIN obj.steps = DOMAIN task.obj.steps
    BY <1>2, <2>2 DEF Run, Sees
  <2>. HIDE DEF obj
  <2>6. /\ task'.obj = obj /\ task'.at = task.at /\ task' \in Task
        /\ task'.base = task.base /\ task'.retry = task.retry /\ task'.delete = task.delete
    BY <1>2, <2>3, <2>4 DEF Task
  <2>7. task'.at = "advance" /\ task' # Idle
    BY <1>1, <2>6, MarkersAreDistinct DEF At
  <2>8. Follows'
    BY <1>1, <2>1, <2>4, <2>5, <2>6, <2>7, AdvancesFollow
  <2>. QED
    BY <2>7, <2>8, BusyWakes
<1>7. CASE StepPermanent
  BY <1>1, <1>3, <1>7, SetWakes DEF StepPermanent, Runnable
<1>8. CASE StepWaits
  <2>1. CASE Stop("Running", Set(Next1, "Running", 0), TRUE)
    BY <1>1, <1>3, <1>8, <2>1, SetWakes DEF StepWaits, Runnable
  <2>2. CASE Stop("Running", task.obj.steps, TRUE)
    BY <1>1, <1>2, <1>3, <2>2, StopWakes
  <2>. QED
    BY <1>8, <2>1, <2>2 DEF StepWaits
<1>9. CASE StepTransient
  <2> DEFINE failures == task.obj.steps[Next1].failures + 1
  <2>1. Unfinished # {} /\ task.obj.steps[Next1] \in StepStatus
    BY <1>1, <1>2, <1>9, AdvanceFacts DEF StepTransient, Runnable
  <2>2. failures \in Nat
    BY <2>1, RunControllerAssumption DEF StepStatus
  <2>. HIDE DEF failures
  <2>3. CASE Stop("Failed", Set(Next1, "Failed", 0), FALSE)
    BY <1>1, <1>3, <2>1, <2>3, SetWakes
  <2>4. CASE ~GivesUp(failures) /\ Stop("Running", Set(Next1, "Running", failures), TRUE)
    <3>1. failures \in 0..(MaxFailures - 1)
      BY <2>2, <2>4, RunControllerAssumption DEF GivesUp
    <3>. QED
      BY <1>1, <1>3, <2>1, <2>4, <3>1, SetWakes
  <2>. QED
    BY <1>9, <2>3, <2>4 DEF StepTransient, failures
<1>. QED
  BY <1>4, <1>5, <1>6, <1>7, <1>8, <1>9

LEMMA PatchStatusWakes == ASSUME Current, ControlInv, WakeInv, ~queued', PatchStatus PROVE WakeInv'
<1> DEFINE new == Merge(task.base, task.obj.phase, task.obj.steps)
<1>1. /\ task # Idle /\ task.at = "status" /\ task \in Task /\ task.obj \in Run /\ task.base \in Run
      /\ run \in Run /\ task.base.phase = run.phase /\ task.base.steps = run.steps
  BY AtWork DEF PatchStatus, At
<1>2. new \in Run /\ new.phase = task.obj.phase /\ new.steps = task.obj.steps
  <2>1. task.obj.phase \in Active \cup Undoing \cup {"RolledBack"} /\ task.obj.steps \in Progress
    BY <1>1 DEF Run, Progress
  <2>2. task.obj.phase \in Active
    BY <1>1, ControlParts DEF TaskInv, ProgressIsTrue
  <2>. QED
    BY <1>1, <2>1, <2>2, MergeType
<1>. HIDE DEF new
<1>3. IF Unchanged THEN NoWrite ELSE Write(new)
  BY DEF PatchStatus, new
<1>4. ~queued /\ Sees(run', run) /\ run'.phase = task.obj.phase /\ run'.steps = task.obj.steps
  <2>1. CASE Unchanged
    BY <1>1, <1>3, <2>1, NoWriteKeeps, SeesSelf DEF Unchanged
  <2>2. CASE ~Unchanged
    BY <1>2, <1>3, <2>2, QuietWrite
  <2>. QED
    BY <2>1, <2>2
<1>5. /\ Sees(task.obj, run') /\ task.delete = run'.deleting /\ task.retry = run'.retry
      /\ run'.desired = "Applied" /\ ~run'.deleting /\ run'.snapshot /\ run'.plan \in Plans
      /\ DOMAIN run'.steps = run'.plan /\ (~task.wait => Decided(task.obj))
  BY <1>1, <1>4 DEF WakeInv, Follows, Applies, Sees
<1>6. CASE task.retry /\ Goto("unretry", IF Unchanged THEN task.obj ELSE new)
  <2>1. task.retry /\ (Goto("unretry", task.obj) \/ (run' = new /\ Goto("unretry", new)))
    BY <1>3, <1>6, QuietWrite
  <2>2. Follows'
    BY <1>1, <1>2, <1>5, <2>1, SeesSelf, GotoFollows DEF Ats
  <2>3. task' # Idle
    BY <1>1, <1>2, <2>1, GotoTask, MarkersAreDistinct DEF Ats
  <2>. QED
    BY <2>2, <2>3, BusyWakes
<1>7. CASE EndAndRequeue
  BY <1>7, TimerWakes DEF EndAndRequeue
<1>8. CASE ~task.retry /\ ~task.wait /\ End
  <2>1. Decided(run')
    BY <1>4, <1>5, <1>8 DEF Decided, Sees
  <2>2. AtRest'
    BY <1>5, <1>8, <2>1 DEF AtRest
  <2>. QED
    BY <1>8, <2>2, RestWakes DEF End
<1>. QED
  BY <1>6, <1>7, <1>8 DEF PatchStatus, new

\* Taking the annotation off changes the annotations: the run is looked at once more.
LEMMA RemoveRetryQueues == ASSUME Current, ControlInv, WakeInv, RemoveRetry PROVE queued'
<1>. SUFFICES ASSUME ~queued' PROVE FALSE
  OBVIOUS
<1>1. task # Idle /\ task.at = "unretry" /\ run \in Run
  BY AtWork DEF RemoveRetry, At
<1>2. ~queued
  BY NoWriteKeeps, QuietWrite DEF RemoveRetry
<1>3. run.retry /\ task.obj.retry
  BY <1>1, <1>2 DEF WakeInv, Follows, Sees
<1>4. Write([run EXCEPT !.retry = FALSE])
  BY <1>3 DEF RemoveRetry
<1>5. Sees([run EXCEPT !.retry = FALSE], run)
  BY <1>4, QuietWrite
<1>. QED
  BY <1>1, <1>3, <1>5 DEF Sees, Run

\* A rollback, up to its end.
LEMMA UndoWakes ==
    ASSUME Current, ControlInv, WakeInv, ~queued', MarkUndo \/ UndoSucceeds \/ UndoFails \/ MarkFailed
    PROVE  WakeInv'
<1>1. task # Idle /\ task \in Task /\ task.obj \in Run /\ run \in Run
  BY AtWork DEF MarkUndo, UndoSucceeds, UndoFails, MarkFailed, At
<1>2. CASE MarkFailed
  BY <1>2, TimerWakes DEF MarkFailed, EndAndRequeue
<1>3. CASE MarkUndo
  <2> DEFINE new == [run EXCEPT !.phase = "RollingBack"]
  <2>1. new \in Run
    BY <1>1, RunUpdates DEF Undoing
  <2>2. Write(new) /\ Goto("undo", new)
    BY <1>3 DEF MarkUndo
  <2>. HIDE DEF new
  <2>3. ~queued /\ run' = new /\ Sees(new, run)
    BY <2>2, QuietWrite
  <2>4. Sees(new, run') /\ task.delete = run'.deleting
    BY <1>1, <2>3, SeesSelf DEF WakeInv, Follows, Sees
  <2>5. Follows'
    BY <1>1, <2>1, <2>2, <2>4, GotoFollows DEF Ats, Applies
  <2>6. task' # Idle
    BY <1>1, <2>1, <2>2, GotoTask, MarkersAreDistinct DEF Ats
  <2>. QED
    BY <2>5, <2>6, BusyWakes
<1>4. CASE UndoSucceeds \/ UndoFails
  <2>1. run' = run /\ ~queued /\ (Goto("undone", task.obj) \/ Goto("undoFailed", task.obj))
    BY <1>4, NoWriteKeeps DEF UndoSucceeds, UndoFails
  <2>2. Sees(task.obj, run') /\ task.delete = run'.deleting
    BY <1>1, <2>1 DEF WakeInv, Follows
  <2>3. Follows'
    BY <1>1, <2>1, <2>2, GotoFollows DEF Ats, Applies
  <2>4. task' # Idle
    BY <1>1, <2>1, GotoTask, MarkersAreDistinct DEF Ats
  <2>. QED
    BY <2>3, <2>4, BusyWakes
<1>. QED
  BY <1>2, <1>3, <1>4

LEMMA MarkUndoneWakes == ASSUME Current, ControlInv, WakeInv, ~queued', MarkUndone PROVE WakeInv'
<1> DEFINE new == Merge(task.obj, "RolledBack", RolledBackSteps(task.obj.steps))
<1>1. task # Idle /\ task.at = "undone" /\ task \in Task /\ task.obj \in Run /\ run \in Run
      /\ task.obj.phase = run.phase
  BY AtWork DEF MarkUndone, At
<1>2. new \in Run
  BY <1>1, MergeRolledBack
<1>3. new.phase = "RolledBack"
  BY <1>1 DEF Merge, Run
<1>. HIDE DEF new
<1>4. Write(new) /\ AfterUndo(new)
  BY DEF MarkUndone, new
<1>5. ~queued /\ run' = new /\ Sees(new, run)
  BY <1>4, QuietWrite
<1>6. Sees(new, run') /\ task.delete = run'.deleting
  BY <1>1, <1>5, SeesSelf DEF WakeInv, Follows, Sees
<1>7. CASE task.delete /\ Goto("unfinalize", new)
  <2>1. Follows'
    BY <1>1, <1>2, <1>6, <1>7, GotoFollows DEF Ats, Applies
  <2>2. task' # Idle
    BY <1>1, <1>2, <1>7, GotoTask, MarkersAreDistinct DEF Ats
  <2>. QED
    BY <2>1, <2>2, BusyWakes
<1>8. CASE ~task.delete /\ task' = Idle
  <2>1. AtRest'
    BY <1>3, <1>5, <1>6, <1>8, TypeInvStays DEF AtRest
  <2>. QED
    BY <1>8, <2>1, RestWakes
<1>. QED
  BY <1>4, <1>7, <1>8 DEF AfterUndo

LEMMA EndsWake ==
    ASSUME ControlInv, RemoveFinalizer \/ RequestFails \/ Crash \/ TimerFires
    PROVE  WakeInv'
<1>1. CASE RemoveFinalizer
  <2>1. task' = Idle /\ run' = [run EXCEPT !.exists = FALSE] /\ run \in Run
    BY <1>1, ControlParts DEF RemoveFinalizer, End, Write
  <2>2. ~run'.exists
    BY <2>1 DEF Run
  <2>. QED
    BY <2>1, <2>2, RestWakes DEF AtRest
<1>2. CASE RequestFails
  BY <1>2, TimerWakes DEF RequestFails, EndAndRequeue
<1>3. CASE Crash \/ TimerFires
  BY <1>3, QueuedWakes DEF Crash, TimerFires
<1>. QED
  BY <1>1, <1>2, <1>3

\* What users do to the spec or the annotations queues the run; all else changes nothing.
LEMMA UsersWake ==
    ASSUME Current, ControlInv, WakeInv, ~queued',
           \/ AskRetry \/ SetRetry \/ RequestRollback \/ RequestApply \/ DeleteRun
           \/ EditParameters \/ AddDefinition
    PROVE  WakeInv'
<1>1. run \in Run /\ UNCHANGED <<timer, task>>
  BY ControlParts
     DEF AskRetry, SetRetry, RequestRollback, RequestApply, DeleteRun, EditParameters, AddDefinition
<1>2. ~queued /\ run' = run /\ event' = event
  <2>1. CASE AskRetry \/ AddDefinition
    BY <2>1 DEF AskRetry, AddDefinition, NoWrite
  <2>2. CASE SetRetry
    <3>1. ~queued /\ run' = [run EXCEPT !.retry = TRUE] /\ Sees([run EXCEPT !.retry = TRUE], run)
      BY <2>2, QuietWrite DEF SetRetry
    <3>2. run.retry
      BY <1>1, <3>1 DEF Sees, Run
    <3>3. run' = run
      BY <1>1, <3>1, <3>2 DEF Run
    <3>. QED
      BY <2>2, <3>1, <3>3 DEF SetRetry, Write, Current
  <2>3. CASE RequestRollback \/ RequestApply
    <3>1. PICK desired : Write([run EXCEPT !.desired = desired]) /\ desired # run.desired
      BY <2>3 DEF RequestRollback, RequestApply
    <3>2. Sees([run EXCEPT !.desired = desired], run)
      BY <3>1, QuietWrite
    <3>. QED
      BY <1>1, <3>1, <3>2 DEF Sees, Run
  <2>4. CASE DeleteRun
    <3>1. CASE Write([run EXCEPT !.deleting = TRUE])
      <4>1. Sees([run EXCEPT !.deleting = TRUE], run)
        BY <3>1, QuietWrite
      <4>. QED
        BY <1>1, <2>4, <4>1 DEF DeleteRun, Sees, Run
    <3>2. CASE Write([run EXCEPT !.exists = FALSE])
      <4>1. [run EXCEPT !.exists = FALSE].exists = run.exists
        BY <3>2, QuietWrite
      <4>. QED
        BY <1>1, <2>4, <4>1 DEF DeleteRun, Act, Run
    <3>. QED
      BY <2>4, <3>1, <3>2 DEF DeleteRun
  <2>5. CASE EditParameters
    <3>1. PICK p : Write([run EXCEPT !.plan = p]) /\ p # run.plan
      BY <2>5 DEF EditParameters
    <3>2. Sees([run EXCEPT !.plan = p], run)
      BY <3>1, QuietWrite
    <3>. QED
      BY <1>1, <3>1, <3>2 DEF Sees, Run
  <2>. QED
    BY <2>1, <2>2, <2>3, <2>4, <2>5
<1>. QED
  BY <1>1, <1>2 DEF WakeInv, Follows, NothingForgotten, Awake, AtRest, Sees, Decided

LEMMA WakeInvStays == ASSUME Current, ControlInv, WakeInv, [Next]_vars PROVE WakeInv'
<1>1. CASE queued'
  BY <1>1, QueuedWakes
<1>2. CASE ~queued' /\ UNCHANGED vars
  BY <1>2 DEF vars, WakeInv, Follows, NothingForgotten, Awake, AtRest, Sees, Decided
<1>3. CASE ~queued' /\ Work
  BY <1>3, ReconcileWakes, DispatchWakes, ReadDefinitionWakes, TakeSnapshotWakes, RejectWakes,
     AdvanceWakes, PatchStatusWakes, RemoveRetryQueues, UndoWakes, MarkUndoneWakes, EndsWake DEF Work
<1>4. CASE ~queued' /\ (Crash \/ TimerFires)
  BY <1>4, EndsWake
<1>5. CASE Sync
  BY <1>5 DEF Sync, Current
<1>. QED
  BY <1>1, <1>2, <1>3, <1>4, <1>5, UsersWake DEF Next

\* With current reads no wakeup is lost: whatever fails, crashes or comes in between, a run
\* that nothing is about to look at is one that a look would not change (61-67, 153-175).
\* With a trailing cache it is not so: an old reconcile may write over a newer status.
THEOREM NoWakeupIsLost == Current => (Spec => []NothingForgotten)
<1>. SUFFICES ASSUME Current PROVE Spec => []NothingForgotten
  OBVIOUS
<1>1. Init => WakeInv
  BY DEF Init, WakeInv, Follows, NothingForgotten, Awake
<1>2. ControlInv /\ WakeInv /\ [Next]_vars => WakeInv'
  BY WakeInvStays
<1>3. WakeInv => NothingForgotten
  BY DEF WakeInv
<1>. QED
  BY <1>1, <1>2, <1>3, ControlIsInvariant, PTL DEF Spec

-----------------------------------------------------------------------------
(* However far the cache trails, no deletion is forgotten: it reaches the    *)
(* cache with an event, and a reconcile that has seen it ends with the run   *)
(* gone, or sets a timer.                                                    *)

DeletionRemembered == run.exists /\ run.deleting => Awake

\* Once the event has reached the queue, reads show the deletion.
DeletionSeen == run.exists => cache.exists /\ (run.deleting /\ ~event => cache.deleting)

Unwatched == run.exists /\ run.deleting /\ ~event /\ ~queued /\ ~timer

Deletes == Undoes \cup {"finalize", "markUndo", "unfinalize"}

DeletionInv ==
    /\ DeletionSeen
    /\ Unwatched => task # Idle /\ task.delete
    /\ task # Idle /\ task.delete => task.at \in Deletes /\ (task.at = "finalize" => task.obj.deleting)

\* What every write keeps: the run does not come back, nor is a deletion taken back, and one
\* that is requested queues the run or has an event for it.
Remembers ==
    /\ DeletionSeen'
    /\ run'.exists /\ run'.deleting /\ ~event' /\ ~queued' => run.exists /\ run.deleting /\ ~event /\ ~queued

LEMMA WriteRemembers ==
    ASSUME NEW new, Write(new), DeletionSeen, new.exists => run.exists,
           new.exists /\ run.deleting => new.deleting
    PROVE  Remembers
BY DEF Write, DeletionSeen, RunChanged, Remembers

LEMMA NoWriteRemembers == ASSUME NoWrite, DeletionSeen PROVE Remembers
BY DEF NoWrite, DeletionSeen, Remembers

LEMMA FieldWrites ==
    ASSUME run \in Run, DeletionSeen,
           \/ NoWrite
           \/ Write([run EXCEPT !.finalizer = TRUE]) \/ Write([run EXCEPT !.snapshot = TRUE])
           \/ Write([run EXCEPT !.retry = TRUE]) \/ Write([run EXCEPT !.retry = FALSE])
           \/ \E phase : Write([run EXCEPT !.phase = phase])
           \/ \E desired : Write([run EXCEPT !.desired = desired])
           \/ \E plan : Write([run EXCEPT !.plan = plan])
           \/ Write([run EXCEPT !.exists = FALSE])
           \/ Write([run EXCEPT !.deleting = TRUE])
           \/ \E base, phase, steps : Write(Merge(base, phase, steps))
    PROVE  Remembers
<1>1. CASE NoWrite
  BY <1>1, NoWriteRemembers
<1>2. CASE \/ Write([run EXCEPT !.finalizer = TRUE]) \/ Write([run EXCEPT !.snapshot = TRUE])
           \/ Write([run EXCEPT !.retry = TRUE]) \/ Write([run EXCEPT !.retry = FALSE])
           \/ Write([run EXCEPT !.exists = FALSE]) \/ Write([run EXCEPT !.deleting = TRUE])
  <2>1. /\ [run EXCEPT !.finalizer = TRUE].exists = run.exists
        /\ [run EXCEPT !.finalizer = TRUE].deleting = run.deleting
        /\ [run EXCEPT !.snapshot = TRUE].exists = run.exists
        /\ [run EXCEPT !.snapshot = TRUE].deleting = run.deleting
        /\ \A b : [run EXCEPT !.retry = b].exists = run.exists
        /\ \A b : [run EXCEPT !.retry = b].deleting = run.deleting
        /\ [run EXCEPT !.exists = FALSE].exists = FALSE
        /\ [run EXCEPT !.deleting = TRUE].exists = run.exists
        /\ [run EXCEPT !.deleting = TRUE].deleting = TRUE
    BY DEF Run
  <2>. QED
    BY <1>2, <2>1, WriteRemembers
<1>3. ASSUME NEW phase, Write([run EXCEPT !.phase = phase]) PROVE Remembers
  <2>1. [run EXCEPT !.phase = phase].exists = run.exists /\ [run EXCEPT !.phase = phase].deleting = run.deleting
    BY DEF Run
  <2>. QED
    BY <1>3, <2>1, WriteRemembers
<1>4. ASSUME NEW desired, Write([run EXCEPT !.desired = desired]) PROVE Remembers
  <2>1. /\ [run EXCEPT !.desired = desired].exists = run.exists
        /\ [run EXCEPT !.desired = desired].deleting = run.deleting
    BY DEF Run
  <2>. QED
    BY <1>4, <2>1, WriteRemembers
<1>5. ASSUME NEW plan, Write([run EXCEPT !.plan = plan]) PROVE Remembers
  <2>1. [run EXCEPT !.plan = plan].exists = run.exists /\ [run EXCEPT !.plan = plan].deleting = run.deleting
    BY DEF Run
  <2>. QED
    BY <1>5, <2>1, WriteRemembers
<1>6. ASSUME NEW base, NEW phase, NEW steps, Write(Merge(base, phase, steps)) PROVE Remembers
  <2> DEFINE new == Merge(base, phase, steps)
  <2>1. new.exists = run.exists /\ new.deleting = run.deleting
    BY DEF Merge, Run
  <2>2. Write(new)
    BY <1>6
  <2>. HIDE DEF new
  <2>. QED
    BY <2>1, <2>2, WriteRemembers
<1>. QED
  BY <1>1, <1>2, <1>3, <1>4, <1>5, <1>6

LEMMA RequestsRemember ==
    ASSUME TypeInv, DeletionSeen,
           \/ Dispatch \/ ReadDefinition \/ TakeSnapshot \/ Reject
           \/ Finished \/ StillFailed \/ StepDone \/ StepPermanent \/ StepWaits \/ StepTransient
           \/ PatchStatus \/ RemoveRetry \/ MarkUndo \/ UndoSucceeds \/ UndoFails
           \/ MarkFailed \/ MarkUndone \/ RemoveFinalizer \/ RequestFails
           \/ AskRetry \/ SetRetry \/ RequestRollback \/ RequestApply \/ DeleteRun
           \/ EditParameters \/ AddDefinition
    PROVE  Remembers
<1>1. run \in Run
  BY DEF TypeInv, TypeOK
<1>2. CASE Dispatch \/ ReadDefinition \/ TakeSnapshot \/ Reject \/ RemoveRetry \/ RequestFails
  BY <1>1, <1>2, FieldWrites DEF Dispatch, ReadDefinition, TakeSnapshot, Reject, RemoveRetry, RequestFails
<1>3. CASE Finished \/ StillFailed \/ StepDone \/ StepPermanent \/ StepWaits \/ StepTransient
  BY <1>3, NoWriteRemembers DEF Finished, StillFailed, StepDone, StepPermanent, StepWaits, StepTransient
<1>4. CASE PatchStatus \/ MarkUndone
  BY <1>1, <1>4, FieldWrites DEF PatchStatus, MarkUndone
<1>5. CASE MarkUndo \/ UndoSucceeds \/ UndoFails \/ MarkFailed \/ RemoveFinalizer
  BY <1>1, <1>5, FieldWrites DEF MarkUndo, UndoSucceeds, UndoFails, MarkFailed, RemoveFinalizer
<1>6. CASE AskRetry \/ SetRetry \/ RequestRollback \/ RequestApply
  BY <1>1, <1>6, FieldWrites DEF AskRetry, SetRetry, RequestRollback, RequestApply
<1>7. CASE DeleteRun \/ EditParameters \/ AddDefinition
  BY <1>1, <1>7, FieldWrites DEF DeleteRun, EditParameters, AddDefinition
<1>. QED
  BY <1>2, <1>3, <1>4, <1>5, <1>6, <1>7

\* A reconcile that was told of the deletion does not let go of it.
LEMMA GoesOn ==
    ASSUME DeletionInv, Remembers, UNCHANGED timer, task # Idle, task' # Idle, task'.delete = task.delete,
           task.delete => task'.at \in Deletes \ {"finalize"}
    PROVE  DeletionInv'
BY DEF DeletionInv, Remembers, Unwatched

LEMMA LetsGo ==
    ASSUME DeletionInv, Remembers, task' = Idle, timer' \/ ~run'.exists \/ (~task.delete /\ UNCHANGED timer)
    PROVE  DeletionInv'
BY DEF DeletionInv, Remembers, Unwatched

\* Where each step of a reconcile leaves it.
LEMMA DispatchGoes ==
    ASSUME TypeInv, DeletionInv, Remembers, Dispatch
    PROVE  DeletionInv'
<1>1. /\ task # Idle /\ task.at = "finalize" /\ task \in Task /\ task.obj \in Run /\ run \in Run
      /\ task.delete => task.obj.deleting
  BY DEF Dispatch, At, TypeInv, TypeOK, Task, DeletionInv
<1>2. ASSUME NEW obj \in Run, ToUndo(obj), UNCHANGED timer PROVE DeletionInv'
  <2>1. task' \in Task /\ task'.at \in {"undo", "markUndo"} /\ task'.delete = task.delete
    BY <1>1, <1>2, ToUndoTask, GotoTask DEF Ats
  <2>. QED
    BY <1>1, <1>2, <2>1, GoesOn, MarkersAreDistinct DEF Deletes, Undoes
<1>3. CASE Goto("unfinalize", task.obj) /\ UNCHANGED timer
  <2>1. task' \in Task /\ task'.at = "unfinalize" /\ task'.delete = task.delete
    BY <1>1, <1>3, GotoTask DEF Ats
  <2>. QED
    BY <1>1, <1>3, <2>1, GoesOn, MarkersAreDistinct DEF Deletes
<1>4. CASE EndAndRequeue
  BY <1>4, LetsGo DEF EndAndRequeue
<1>5. ASSUME NEW obj \in Run, ToDesired(obj), UNCHANGED timer, ~task.delete PROVE DeletionInv'
  <2>1. CASE task' = Idle
    BY <1>5, <2>1, LetsGo
  <2>2. CASE ToUndo(obj)
    BY <1>2, <1>5, <2>2
  <2>3. CASE ToPlan(obj) \/ Goto("definition", obj)
    <3>1. task' \in Task /\ task'.delete = task.delete
      BY <1>1, <2>3, ToPlanTask, GotoTask, AdvanceTask DEF Ats
    <3>. QED
      BY <1>1, <1>5, <3>1, GoesOn, MarkersAreDistinct
  <2>. QED
    BY <1>5, <2>1, <2>2, <2>3 DEF ToDesired
<1>6. [run EXCEPT !.finalizer = TRUE] \in Run
  BY <1>1, RunUpdates
<1>. QED
  BY <1>1, <1>2, <1>3, <1>4, <1>5, <1>6 DEF Dispatch

LEMMA AppliesGo ==
    ASSUME TypeInv, DeletionInv, Remembers,
           \/ ReadDefinition \/ TakeSnapshot \/ Reject \/ PatchStatus \/ RemoveRetry
           \/ Finished \/ StillFailed \/ StepDone \/ StepPermanent \/ StepWaits \/ StepTransient
    PROVE  DeletionInv'
<1>1. task # Idle /\ task.at \in Applies /\ task \in Task
  BY DEF ReadDefinition, TakeSnapshot, Reject, PatchStatus, RemoveRetry, Finished, StillFailed, StepDone,
         StepPermanent, StepWaits, StepTransient, Runnable, At, Applies, TypeInv, TypeOK
<1>2. ~task.delete
  BY <1>1 DEF DeletionInv, Deletes, Undoes, Applies
<1>3. CASE task' = Idle /\ (timer' \/ UNCHANGED timer)
  BY <1>2, <1>3, LetsGo
<1>4. CASE task' # Idle /\ UNCHANGED timer /\ task'.delete = task.delete
  BY <1>1, <1>2, <1>4, GoesOn
<1>5. TypeInv'
  BY ReadDefinitionType, TakeSnapshotType, RejectType, AdvanceType, PatchStatusType, RemoveRetryType
<1>6. task' = Idle \/ (task' \in Task /\ task' # Idle)
  BY <1>5 DEF TypeInv, TypeOK
<1>7. CASE ReadDefinition \/ TakeSnapshot
  <2>1. ASSUME NEW pc, NEW obj, Goto(pc, obj) PROVE task'.delete = task.delete
    BY <1>1, <2>1 DEF Goto, Task
  <2>2. ASSUME NEW obj, task' = Advance(obj) PROVE task'.delete = task.delete
    BY <1>1, <2>2 DEF Advance, Task
  <2>. QED
    BY <1>3, <1>4, <1>6, <1>7, <2>1, <2>2 DEF ReadDefinition, TakeSnapshot, ToPlan
<1>8. CASE Reject \/ RemoveRetry
  BY <1>3, <1>8 DEF Reject, RemoveRetry, End, EndAndRequeue
<1>9. CASE Finished \/ StillFailed \/ StepDone \/ StepPermanent \/ StepWaits \/ StepTransient
  <2>1. ASSUME NEW phase, NEW steps, NEW wait, Stop(phase, steps, wait) PROVE task'.delete = task.delete
    BY <1>1, <2>1 DEF Stop, Task
  <2>2. CASE StepDone
    BY <1>1, <1>3, <1>4, <1>6, <2>2 DEF StepDone, Task
  <2>3. UNCHANGED timer
    BY <1>9 DEF Finished, StillFailed, StepDone, StepPermanent, StepWaits, StepTransient
  <2>4. CASE \E phase, steps, wait : Stop(phase, steps, wait)
    BY <1>3, <1>4, <1>6, <2>1, <2>3, <2>4
  <2>. QED
    BY <1>9, <2>2, <2>4 DEF Finished, StillFailed, StepPermanent, StepWaits, StepTransient
<1>10. CASE PatchStatus
  <2>1. ASSUME NEW pc, NEW obj, Goto(pc, obj) PROVE task'.delete = task.delete
    BY <1>1, <2>1 DEF Goto, Task
  <2>. QED
    BY <1>3, <1>4, <1>6, <1>10, <2>1 DEF PatchStatus, End, EndAndRequeue
<1>. QED
  BY <1>7, <1>8, <1>9, <1>10

LEMMA UndoesGo ==
    ASSUME TypeInv, DeletionInv, Remembers,
           \/ MarkUndo \/ UndoSucceeds \/ UndoFails \/ MarkFailed \/ MarkUndone
           \/ RemoveFinalizer \/ RequestFails
    PROVE  DeletionInv'
<1>1. task # Idle /\ task \in Task /\ task.obj \in Run /\ run \in Run
  BY DEF MarkUndo, UndoSucceeds, UndoFails, MarkFailed, MarkUndone, RemoveFinalizer, RequestFails,
         At, TypeInv, TypeOK, Task
<1>2. CASE MarkFailed \/ RequestFails
  BY <1>2, LetsGo DEF MarkFailed, RequestFails, EndAndRequeue
<1>3. CASE RemoveFinalizer
  <2>1. run' = [run EXCEPT !.exists = FALSE] /\ task' = Idle
    BY <1>3 DEF RemoveFinalizer, Write, End
  <2>2. ~run'.exists
    BY <1>1, <2>1 DEF Run
  <2>. QED
    BY <2>1, <2>2, LetsGo
<1>4. ASSUME NEW pc \in {"undo", "undone", "undoFailed", "unfinalize"}, NEW obj \in Run,
             Goto(pc, obj), UNCHANGED timer
      PROVE  DeletionInv'
  <2>1. task' \in Task /\ task'.at = pc /\ task'.delete = task.delete
    BY <1>1, <1>4, GotoTask DEF Ats
  <2>. QED
    BY <1>1, <1>4, <2>1, GoesOn, MarkersAreDistinct DEF Deletes, Undoes
<1>5. CASE MarkUndo \/ UndoSucceeds \/ UndoFails
  <2>1. [run EXCEPT !.phase = "RollingBack"] \in Run
    BY <1>1, RunUpdates DEF Undoing
  <2>. QED
    BY <1>1, <1>4, <1>5, <2>1 DEF MarkUndo, UndoSucceeds, UndoFails
<1>6. CASE MarkUndone
  <2> DEFINE new == Merge(task.obj, "RolledBack", RolledBackSteps(task.obj.steps))
  <2>1. new \in Run
    BY <1>1, MergeRolledBack
  <2>2. AfterUndo(new) /\ UNCHANGED timer
    BY <1>6 DEF MarkUndone
  <2>. HIDE DEF new
  <2>. QED
    BY <1>4, <2>1, <2>2, LetsGo DEF AfterUndo
<1>. QED
  BY <1>2, <1>3, <1>5, <1>6

LEMMA DeletionInvStays == TypeInv /\ DeletionInv /\ [Next]_vars => DeletionInv'
<1>. SUFFICES ASSUME TypeInv, DeletionInv, [Next]_vars PROVE DeletionInv'
  OBVIOUS
<1>1. DeletionSeen
  BY DEF DeletionInv
<1>2. CASE UNCHANGED vars
  BY <1>2 DEF vars, DeletionInv, DeletionSeen, Unwatched
<1>3. CASE Sync \/ TimerFires \/ Crash
  <2>1. CASE Sync
    BY <2>1 DEF Sync, DeletionInv, DeletionSeen, Unwatched
  <2>2. CASE TimerFires
    BY <2>2 DEF TimerFires, server, DeletionInv, DeletionSeen, Unwatched
  <2>3. CASE Crash
    BY <2>3 DEF Crash, DeletionInv, DeletionSeen, Unwatched
  <2>. QED
    BY <1>3, <2>1, <2>2, <2>3
<1>4. CASE Reconcile
  <2> DEFINE fresh == [at |-> "finalize", obj |-> cache, base |-> cache,
                       retry |-> FALSE, wait |-> FALSE, delete |-> cache.deleting]
  <2>1. run' = run /\ event' = event /\ cache' = cache /\ task = Idle /\ UNCHANGED timer
    BY <1>4 DEF Reconcile, server
  <2>2. CASE task' = fresh
    <3>1. task'.at = "finalize" /\ task'.obj = cache /\ task'.delete = cache.deleting
      BY <2>2
    <3>2. task' # Idle
      <4>1. cache \in Run /\ cache.deleting \in BOOLEAN
        BY DEF TypeInv, TypeOK, Run
      <4>2. fresh \in Task
        BY <4>1 DEF Task
      <4>. QED
        BY <2>2, <4>2, MarkersAreDistinct
    <3>. HIDE DEF fresh
    <3>. QED
      BY <2>1, <3>1, <3>2 DEF DeletionInv, DeletionSeen, Unwatched, Deletes
  <2>3. CASE ~cache.exists /\ task' = Idle
    BY <2>1, <2>3 DEF DeletionInv, DeletionSeen, Unwatched
  <2>. QED
    BY <1>4, <2>1, <2>2, <2>3 DEF Reconcile
<1>5. CASE \/ AskRetry \/ SetRetry \/ RequestRollback \/ RequestApply \/ DeleteRun
           \/ EditParameters \/ AddDefinition
  <2>1. UNCHANGED <<timer, task>>
    BY <1>5 DEF AskRetry, SetRetry, RequestRollback, RequestApply, DeleteRun, EditParameters, AddDefinition
  <2>2. Remembers
    BY <1>1, <1>5, RequestsRemember
  <2>. QED
    BY <2>1, <2>2 DEF DeletionInv, Remembers, Unwatched
<1>. QED
  BY <1>1, <1>2, <1>3, <1>4, <1>5, RequestsRemember, DispatchGoes, AppliesGo, UndoesGo DEF Next, Work

\* A deleted run that is still there is in the queue, in a reconcile, on a timer, or about to
\* be delivered by the watch, however far the cache trails and whatever fails (340-356).
THEOREM DeletionIsRemembered == Spec => []DeletionRemembered
<1>1. Init => TypeInv /\ DeletionInv
  <2>. SUFFICES ASSUME Init PROVE TypeInv /\ DeletionInv
    OBVIOUS
  <2>1. run.exists /\ cache = run /\ queued /\ task = Idle /\ ~run.deleting
    <3>1. PICK s, p :
            run = [exists |-> TRUE, deleting |-> FALSE, finalizer |-> FALSE, retry |-> FALSE,
                   desired |-> "Applied", snapshot |-> s, plan |-> p, phase |-> "", steps |-> <<>>]
      BY DEF Init
    <3>2. run.exists /\ ~run.deleting
      BY <3>1
    <3>. QED
      BY <3>2 DEF Init
  <2>2. TypeInv
    BY TypeInvStarts
  <2>. QED
    BY <2>1, <2>2 DEF DeletionInv, DeletionSeen, Unwatched
<1>2. TypeInv /\ DeletionInv /\ [Next]_vars => (TypeInv /\ DeletionInv)'
  BY TypeInvStays, DeletionInvStays
<1>3. DeletionInv => DeletionRemembered
  BY DEF DeletionInv, DeletionRemembered, Unwatched, Awake
<1>. QED
  BY <1>1, <1>2, <1>3, PTL DEF Spec
=============================================================================
