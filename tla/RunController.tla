--------------------------- MODULE RunController ---------------------------
(***************************************************************************)
(* The reconciler of one WizardRun (src/internal/controller/               *)
(* run_controller.go), the work queue that drives it, and those who change *)
(* the run: the API's handlers (src/internal/apiserver/runs.go) and        *)
(* kubectl.  A reconcile is split at its API requests.  It works on the    *)
(* object its client's cache returned; a patch answers with the current    *)
(* object, which replaces it.  What a step or a rollback does upstream is  *)
(* module Provision's matter: here only the set of steps that hold a       *)
(* ledger reference changes.                                               *)
(***************************************************************************)
EXTENDS Integers, FiniteSets

CONSTANTS Steps,         \* step instances, numbered in the order of the plan
          Plans,         \* the sets of steps that parameters can expand to
          Invalid,       \* parameters that do not resolve or expand
          Idle,          \* no reconcile in progress
          MaxFailures,   \* maxStepFailures
          CacheMayLag,   \* reads may return an older object than the API server's
          Snapshots,     \* whether runs are created with a snapshot (by the API) or not
          Acts,          \* what users do to the run
          MaxActs, MaxFaults  \* bounds for model checking

ASSUME RunControllerAssumption ==
    /\ Steps \subseteq Nat /\ IsFiniteSet(Steps)
    /\ Plans \subseteq SUBSET Steps
    /\ Invalid \notin Plans
    /\ MaxFailures \in Nat \ {0}
    /\ CacheMayLag \in BOOLEAN
    /\ Snapshots \subseteq BOOLEAN
    /\ MaxActs \in Nat /\ MaxFaults \in Nat

VARIABLES run,         \* the WizardRun at the API server
          cache,       \* the WizardRun the reconciler's reads return
          event,       \* the watch has an event for the queue to deliver with the cache's next state
          queued,      \* the run is in the work queue
          timer,       \* a RequeueAfter or error backoff is running
          task,        \* the reconcile in progress, or Idle
          holds,       \* steps that hold a ledger reference
          definition,  \* whether a valid definition is there to take a snapshot of
          asked,       \* retryRun has read a Failed run and not patched it yet
          acts, faults \* so many acts of users, faults and waits so far

vars == <<run, cache, event, queued, timer, task, holds, definition, asked, acts, faults>>
server == <<run, cache, event>>
users == <<definition, asked, acts>>

Active == {"", "Running", "Ready", "Failed"}
Undoing == {"RollingBack", "RollbackFailed"}
StepPhases == {"Pending", "Running", "Succeeded", "Failed", "RolledBack"}

\* A step's status; failures counts consecutive transient ones.
StepStatus == [phase: StepPhases, failures: 0..(MaxFailures - 1)]
Pending == [phase |-> "Pending", failures |-> 0]

Run == [exists: BOOLEAN, deleting: BOOLEAN, finalizer: BOOLEAN, retry: BOOLEAN,
        desired: {"Applied", "RolledBack"}, snapshot: BOOLEAN, plan: Plans \cup {Invalid},
        phase: Active \cup Undoing \cup {"RolledBack"},
        steps: UNION {[p -> StepStatus] : p \in SUBSET Steps}]

Task == [at: {"finalize", "definition", "snapshot", "reject", "advance", "status", "unretry",
              "markUndo", "undo", "undoFailed", "undone", "unfinalize"},
         obj: Run, base: Run, retry: BOOLEAN, wait: BOOLEAN, delete: BOOLEAN]

ASSUME MarkersAreDistinct == Idle \notin Task

\* Every variable has its type; a step never counts MaxFailures failures
\* without having failed for good.
TypeOK ==
    /\ run \in Run /\ cache \in Run
    /\ event \in BOOLEAN /\ queued \in BOOLEAN /\ timer \in BOOLEAN
    /\ task \in Task \cup {Idle}
    /\ holds \subseteq Steps
    /\ definition \in BOOLEAN /\ asked \in BOOLEAN
    /\ acts \in 0..MaxActs /\ faults \in 0..MaxFaults

Init ==
    /\ \E s \in Snapshots, p \in Plans :
          run = [exists |-> TRUE, deleting |-> FALSE, finalizer |-> FALSE, retry |-> FALSE,
                 desired |-> "Applied", snapshot |-> s, plan |-> p, phase |-> "", steps |-> <<>>]
    /\ cache = run
    /\ event = FALSE /\ queued = TRUE /\ timer = FALSE
    /\ task = Idle
    /\ holds = {}
    /\ definition \in BOOLEAN
    /\ asked = FALSE
    /\ acts = 0 /\ faults = 0

-----------------------------------------------------------------------------
(* The API server, the watch and the work queue. *)

\* (mutant) Annotations are not looked at.
RunChangedSpec(old, new) ==
    <<old.exists, old.deleting, old.desired, old.snapshot, old.plan>>
        # <<new.exists, new.deleting, new.desired, new.snapshot, new.plan>>

\* The events that reach the queue: spec, annotations, deletion; not status.
RunChanged(old, new) ==
    <<old.exists, old.deleting, old.retry, old.desired, old.snapshot, old.plan>>
        # <<new.exists, new.deleting, new.retry, new.desired, new.snapshot, new.plan>>

Write(new) ==
    /\ run' = new
    /\ IF CacheMayLag
         THEN /\ event' = (event \/ RunChanged(run, new))
              /\ UNCHANGED <<cache, queued>>
         ELSE /\ cache' = new
              /\ queued' = (queued \/ RunChanged(run, new))
              /\ UNCHANGED event

NoWrite == UNCHANGED <<run, cache, event, queued>>

Sync ==
    /\ CacheMayLag /\ (cache # run \/ event)
    /\ cache' = run
    /\ queued' = (queued \/ event)
    /\ event' = FALSE
    /\ UNCHANGED <<run, timer, task, holds, users, faults>>

TimerFires ==
    /\ timer
    /\ timer' = FALSE
    /\ queued' = TRUE
    /\ UNCHANGED <<server, task, holds, users, faults>>

-----------------------------------------------------------------------------
(* Where a reconcile goes next. *)

At(pc) == task # Idle /\ task.at = pc

Goto(pc, obj) == task' = [task EXCEPT !.at = pc, !.obj = obj]
End == task' = Idle /\ UNCHANGED timer

\* (mutant) RequeueAfter is forgotten.
EndOnly == End

\* Come back on a timer: RequeueAfter, or the queue's backoff after an error.
EndAndRequeue == task' = Idle /\ timer' = TRUE

\* (mutant) A retry starts every step again.
ResetAll(steps) == [s \in DOMAIN steps |-> Pending]

\* resetFailed.
ResetFailed(steps) == [s \in DOMAIN steps |-> IF steps[s].phase = "Failed" THEN Pending ELSE steps[s]]

\* syncSteps: the steps of the plan, with the progress already recorded.
SyncSteps(obj) == [s \in obj.plan |-> IF s \in DOMAIN obj.steps THEN obj.steps[s] ELSE Pending]

\* The start of advance, and what reconcileApply remembers for its patches.
Advance(obj) ==
    LET steps == SyncSteps(obj)
    IN  [task EXCEPT !.at = "advance", !.base = obj, !.retry = obj.retry,
                     !.obj = [obj EXCEPT !.steps = IF obj.retry THEN ResetFailed(steps) ELSE steps]]

ToPlan(obj) == IF obj.plan = Invalid THEN Goto("reject", obj) ELSE task' = Advance(obj)

\* (mutant) The run goes on saying it is active while its references go.
ToUndoUnannounced(obj) == Goto("undo", obj)

\* rollback announces itself before it releases anything.
ToUndo(obj) == Goto(IF obj.phase \in Undoing THEN "undo" ELSE "markUndo", obj)

\* (mutant) A rolled back run may be applied again.
MayApplyAlways(obj) == TRUE

\* Provisioning again after a rollback means creating a new run.
MayApply(obj) == obj.phase \in Active

\* reconcileApply up to its first request, or the rollback, or nothing to do.
ToDesired(obj) ==
    \/ obj.desired = "RolledBack" /\ obj.phase = "RolledBack" /\ task' = Idle
    \/ obj.desired = "RolledBack" /\ obj.phase # "RolledBack" /\ ToUndo(obj)
    \/ obj.desired = "Applied" /\ ~MayApply(obj) /\ task' = Idle
    \/ obj.desired = "Applied" /\ MayApply(obj) /\ obj.snapshot /\ ToPlan(obj)
    \/ obj.desired = "Applied" /\ MayApply(obj) /\ ~obj.snapshot /\ Goto("definition", obj)

\* The patch of the fields of status that differ from the base.
Merge(base, phase, steps) ==
    [run EXCEPT !.phase = IF phase = base.phase THEN @ ELSE phase,
                !.steps = IF steps = base.steps THEN @ ELSE steps]

-----------------------------------------------------------------------------
(* The reconcile. *)

\* (mutant) Provisioning does not wait for the finalizer.
NeedsFinalizerNever(obj) == FALSE

\* The finalizer goes on before anything is provisioned.
NeedsFinalizer(obj) == ~obj.finalizer

\* Take the run from the queue and read it.
Reconcile ==
    LET fresh == [at |-> "finalize", obj |-> cache, base |-> cache,
                  retry |-> FALSE, wait |-> FALSE, delete |-> cache.deleting]
    IN  /\ queued /\ task = Idle
        /\ queued' = FALSE
        /\ IF cache.exists THEN task' = fresh ELSE UNCHANGED task
        /\ UNCHANGED <<server, timer, holds, users, faults>>

\* Deletion first, then the finalizer, then what is desired.  The finalizer's
\* patch fails when the run is gone.
Dispatch ==
    LET obj == task.obj
        new == [run EXCEPT !.finalizer = TRUE]
    IN  /\ At("finalize")
        /\ \/ /\ obj.deleting
              /\ IF obj.phase = "RolledBack" THEN Goto("unfinalize", obj) ELSE ToUndo(obj)
              /\ NoWrite /\ UNCHANGED timer
           \/ /\ ~obj.deleting /\ ~NeedsFinalizer(obj)
              /\ ToDesired(obj)
              /\ NoWrite /\ UNCHANGED timer
           \/ /\ ~obj.deleting /\ NeedsFinalizer(obj) /\ run.exists
              /\ Write(new)
              /\ ToDesired(new)
              /\ UNCHANGED timer
           \/ /\ ~obj.deleting /\ NeedsFinalizer(obj) /\ ~run.exists
              /\ EndAndRequeue
              /\ NoWrite
        /\ UNCHANGED <<holds, users, faults>>

\* takeSnapshot looks for a valid definition ...
ReadDefinition ==
    /\ At("definition")
    /\ Goto(IF definition THEN "snapshot" ELSE "reject", task.obj)
    /\ NoWrite
    /\ UNCHANGED <<timer, holds, users, faults>>

\* ... and copies it into the run.
TakeSnapshot ==
    LET new == [run EXCEPT !.snapshot = TRUE]
    IN  /\ At("snapshot") /\ run.exists
        /\ Write(new)
        /\ ToPlan(new)
        /\ UNCHANGED <<timer, holds, users, faults>>

\* A definition, parameters or plan that no retry fixes: the run fails, and
\* waits for somebody to change it.
Reject ==
    /\ At("reject") /\ run.exists
    /\ IF task.obj.phase = "Failed" THEN NoWrite ELSE Write([run EXCEPT !.phase = "Failed"])
    /\ End
    /\ UNCHANGED <<holds, users, faults>>

\* The steps still to do, and the first of them.
Unfinished == {s \in task.obj.plan : task.obj.steps[s].phase # "Succeeded"}
Next1 == CHOOSE s \in Unfinished : \A t \in Unfinished : s <= t

\* The end of advance: the run's phase, and whether to come back on a timer.
Stop(phase, steps, wait) ==
    task' = [task EXCEPT !.at = "status", !.wait = wait,
                         !.obj = [@ EXCEPT !.phase = phase, !.steps = steps]]

Set(s, phase, failures) ==
    [task.obj.steps EXCEPT ![s] = [phase |-> phase, failures |-> failures]]

Finished ==
    /\ At("advance") /\ Unfinished = {}
    /\ Stop("Ready", task.obj.steps, FALSE)
    /\ NoWrite
    /\ UNCHANGED <<timer, holds, users, faults>>

StillFailed ==
    /\ At("advance") /\ Unfinished # {} /\ task.obj.steps[Next1].phase = "Failed"
    /\ Stop("Failed", task.obj.steps, FALSE)
    /\ NoWrite
    /\ UNCHANGED <<timer, holds, users, faults>>

Runnable == At("advance") /\ Unfinished # {} /\ task.obj.steps[Next1].phase # "Failed"

\* A step's Ensure may record a reference whatever it answers.
MayHold(s) == holds' \in {holds, holds \cup {s}}

StepDone ==
    /\ Runnable
    /\ holds' = holds \cup {Next1}
    /\ task' = [task EXCEPT !.obj.steps = Set(Next1, "Succeeded", 0)]
    /\ NoWrite
    /\ UNCHANGED <<timer, users, faults>>

StepPermanent ==
    /\ Runnable
    /\ MayHold(Next1)
    /\ Stop("Failed", Set(Next1, "Failed", 0), FALSE)
    /\ NoWrite
    /\ UNCHANGED <<timer, users, faults>>

Fault == faults < MaxFaults /\ faults' = faults + 1

\* No step was done in this reconcile, so the instance config is yet to be read.
NoneDone ==
    \A s \in task.obj.plan : task.obj.steps[s].phase = "Succeeded" =>
        s \in DOMAIN task.base.steps /\ task.base.steps[s].phase = "Succeeded"

\* A poll, a wait for a previous owner, or no valid instance config.
StepWaits ==
    /\ Fault
    /\ Runnable
    /\ \/ MayHold(Next1) /\ Stop("Running", Set(Next1, "Running", 0), TRUE)
       \/ NoneDone /\ UNCHANGED holds /\ Stop("Running", task.obj.steps, TRUE)
    /\ NoWrite
    /\ UNCHANGED <<timer, users>>

\* (mutant) One attempt too many.
GivesUpLate(failures) == failures > MaxFailures

GivesUp(failures) == failures >= MaxFailures

StepTransient ==
    LET failures == task.obj.steps[Next1].failures + 1
    IN  /\ Fault
        /\ Runnable
        /\ MayHold(Next1)
        /\ IF GivesUp(failures)
             THEN Stop("Failed", Set(Next1, "Failed", 0), FALSE)
             ELSE Stop("Running", Set(Next1, "Running", failures), TRUE)
        /\ NoWrite
        /\ UNCHANGED <<timer, users>>

\* (mutant) Only the phase is compared.
SamePhase == task.obj.phase = task.base.phase

Unchanged == task.obj.phase = task.base.phase /\ task.obj.steps = task.base.steps

\* The status patch, if anything changed; then the retry annotation goes.
PatchStatus ==
    LET new == Merge(task.base, task.obj.phase, task.obj.steps)
    IN  /\ At("status") /\ (Unchanged \/ run.exists)
        /\ IF Unchanged THEN NoWrite ELSE Write(new)
        /\ \/ task.retry /\ Goto("unretry", IF Unchanged THEN task.obj ELSE new) /\ UNCHANGED timer
           \/ ~task.retry /\ task.wait /\ EndAndRequeue
           \/ ~task.retry /\ ~task.wait /\ End
        /\ UNCHANGED <<holds, users, faults>>

RemoveRetry ==
    /\ At("unretry") /\ run.exists
    /\ IF task.obj.retry THEN Write([run EXCEPT !.retry = FALSE]) ELSE NoWrite
    /\ IF task.wait THEN EndAndRequeue ELSE End
    /\ UNCHANGED <<holds, users, faults>>

MarkUndo ==
    LET new == [run EXCEPT !.phase = "RollingBack"]
    IN  /\ At("markUndo") /\ run.exists
        /\ Write(new)
        /\ Goto("undo", new)
        /\ UNCHANGED <<timer, holds, users, faults>>

\* Env.Rollback; a failed one may have released a part.
UndoSucceeds ==
    /\ At("undo")
    /\ holds' = {}
    /\ Goto("undone", task.obj)
    /\ NoWrite
    /\ UNCHANGED <<timer, users, faults>>

UndoFails ==
    /\ Fault
    /\ At("undo")
    /\ holds' \in SUBSET holds
    /\ Goto("undoFailed", task.obj)
    /\ NoWrite
    /\ UNCHANGED <<timer, users>>

MarkFailed ==
    /\ At("undoFailed") /\ run.exists
    /\ IF task.obj.phase = "RollbackFailed" THEN NoWrite ELSE Write([run EXCEPT !.phase = "RollbackFailed"])
    /\ EndAndRequeue
    /\ UNCHANGED <<holds, users, faults>>

RolledBackSteps(steps) ==
    [s \in DOMAIN steps |-> IF steps[s].phase = "Pending" THEN steps[s]
                            ELSE [steps[s] EXCEPT !.phase = "RolledBack"]]

\* (mutant) The status update is expected to bring the reconcile back.
AfterUndoReturn(new) == task' = Idle

\* A deletion goes on to the finalizer.
AfterUndo(new) == IF task.delete THEN Goto("unfinalize", new) ELSE task' = Idle

\* The run is RolledBack.
MarkUndone ==
    LET new == Merge(task.obj, "RolledBack", RolledBackSteps(task.obj.steps))
    IN  /\ At("undone") /\ run.exists
        /\ Write(new)
        /\ AfterUndo(new)
        /\ UNCHANGED <<timer, holds, users, faults>>

RemoveFinalizer ==
    /\ At("unfinalize") /\ run.exists
    /\ Write([run EXCEPT !.exists = FALSE])
    /\ End
    /\ UNCHANGED <<holds, users, faults>>

\* A request fails, or finds the run gone: the error brings the reconcile back.
RequestFails ==
    /\ task # Idle /\ task.at \notin {"advance", "undo"}
    /\ \/ Fault
       \/ /\ ~run.exists /\ task.at # "finalize" /\ task.at # "definition"
          /\ UNCHANGED faults
    /\ EndAndRequeue
    /\ NoWrite
    /\ UNCHANGED <<holds, users>>

\* The operator restarts: its cache is read anew and every run is queued.
Crash ==
    /\ Fault
    /\ task' = Idle
    /\ cache' = run
    /\ event' = FALSE /\ queued' = TRUE /\ timer' = FALSE
    /\ UNCHANGED <<run, holds, users>>

-----------------------------------------------------------------------------
(* Users. *)

Act(name) == name \in Acts /\ run.exists /\ acts < MaxActs /\ acts' = acts + 1

\* retryRun reads the run, then sets the annotation.  When what it read has
\* the annotation already, its patch is empty: the request adds nothing.
AskRetry ==
    /\ Act("retry")
    /\ run.phase = "Failed" /\ ~run.retry
    /\ asked' = TRUE
    /\ NoWrite
    /\ UNCHANGED <<timer, task, holds, definition, faults>>

SetRetry ==
    /\ asked /\ run.exists
    /\ asked' = FALSE
    /\ Write([run EXCEPT !.retry = TRUE])
    /\ UNCHANGED <<timer, task, holds, definition, acts, faults>>

RequestRollback ==
    /\ Act("rollback")
    /\ run.desired = "Applied"
    /\ Write([run EXCEPT !.desired = "RolledBack"])
    /\ UNCHANGED <<timer, task, holds, definition, asked, faults>>

\* kubectl takes the rollback back.
RequestApply ==
    /\ Act("apply")
    /\ run.desired = "RolledBack"
    /\ Write([run EXCEPT !.desired = "Applied"])
    /\ UNCHANGED <<timer, task, holds, definition, asked, faults>>

\* A run without finalizer goes at once.
DeleteRun ==
    /\ Act("delete")
    /\ ~run.deleting
    /\ Write(IF run.finalizer THEN [run EXCEPT !.deleting = TRUE] ELSE [run EXCEPT !.exists = FALSE])
    /\ UNCHANGED <<timer, task, holds, definition, asked, faults>>

\* kubectl edits the parameters.
EditParameters ==
    /\ Act("edit")
    /\ \E p \in Plans \cup {Invalid} : p # run.plan /\ Write([run EXCEPT !.plan = p])
    /\ UNCHANGED <<timer, task, holds, definition, asked, faults>>

\* Somebody adds the definition.
AddDefinition ==
    /\ ~definition
    /\ definition' = TRUE
    /\ NoWrite
    /\ UNCHANGED <<timer, task, holds, asked, acts, faults>>

Work ==
    \/ Reconcile \/ Dispatch \/ ReadDefinition \/ TakeSnapshot \/ Reject
    \/ Finished \/ StillFailed \/ StepDone \/ StepPermanent \/ StepWaits \/ StepTransient
    \/ PatchStatus \/ RemoveRetry
    \/ MarkUndo \/ UndoSucceeds \/ UndoFails \/ MarkFailed \/ MarkUndone \/ RemoveFinalizer
    \/ RequestFails

Next ==
    \/ Work \/ Crash \/ Sync \/ TimerFires
    \/ AskRetry \/ SetRetry \/ RequestRollback \/ RequestApply \/ DeleteRun
    \/ EditParameters \/ AddDefinition

Spec == Init /\ [][Next]_vars

\* The queue hands the run out, a reconcile goes on, timers fire and the watch
\* delivers.  Users owe nothing.
FairSpec ==
    /\ Spec
    /\ WF_vars(Work) /\ WF_vars(TimerFires) /\ WF_vars(Sync)

-----------------------------------------------------------------------------
(* Properties. *)

\* Whatever a run holds, its finalizer is there to give back: no crash, failed
\* request or deletion leaves a reference behind whose run is gone or could go
\* without a rollback (run_controller.go:86-93, 340-353).
FinalizerGuards == holds # {} => run.exists /\ run.finalizer

\* While a run is active its Succeeded steps hold their references, also while
\* a rollback has begun to give them up but has not got far (359-365 goes first).
SucceededHolds ==
    run.exists /\ run.phase \in Active =>
        \A s \in DOMAIN run.steps : run.steps[s].phase = "Succeeded" => s \in holds

\* A run that says it is Ready has done every step it lists and holds what they
\* provisioned, whatever failed, was retried or was edited on the way (254).
ReadyMeansProvisioned ==
    run.exists /\ run.phase = "Ready" =>
        \A s \in DOMAIN run.steps : run.steps[s].phase = "Succeeded" /\ s \in holds

\* What the status says of an active run is so.
StatusIsTrue == SucceededHolds /\ ReadyMeansProvisioned

\* Something will have the run looked at: the queue, a timer, or a reconcile that has
\* not ended.
Awake == queued \/ timer \/ event \/ task # Idle

\* Every step of the plan is done and the run says so, or the first that is not has failed.
Decided(obj) ==
    LET Is(s, phase) == obj.steps[s].phase = phase
    IN  \/ obj.phase = "Ready" /\ \A s \in obj.plan : Is(s, "Succeeded")
        \/ obj.phase = "Failed"
              /\ \E s \in obj.plan : Is(s, "Failed") /\ \A t \in obj.plan : t < s => Is(t, "Succeeded")

\* The run's spec and status are such that a look at it would change nothing: rolled back,
\* or a rollback that was taken back; rejected until somebody edits it; or decided.
AtRest ==
    \/ ~run.exists
    \/ /\ ~run.deleting
       /\ \/ run.phase = "RolledBack"
          \/ /\ run.desired = "Applied"
             /\ \/ run.phase \in Undoing
                \/ run.phase = "Failed" /\ (run.plan = Invalid \/ ~run.snapshot)
                \/ run.plan \in Plans /\ run.snapshot /\ ~run.retry
                      /\ DOMAIN run.steps = run.plan /\ Decided(run)

\* No wakeup is lost: a run that nothing is about to look at is at rest.  Status writes
\* trigger nothing (61-67), so whatever a reconcile leaves undone, fails at or overlooks
\* because it came in between must have queued the run or set a timer.
NothingForgotten == Awake \/ AtRest

\* A step that succeeded keeps its result through retries, edits and crashes
\* until the run is rolled back (428-429, 458).
SuccessIsKept ==
    [][\A s \in DOMAIN run.steps \cap DOMAIN run'.steps :
          run.steps[s].phase = "Succeeded" => run'.steps[s].phase \in {"Succeeded", "RolledBack"}]_vars

\* The retry annotation goes only after the reset it asks for was written: a
\* step the run then lists as Failed has failed in this very attempt (140-141).
RetryAfterReset ==
    [][run.retry /\ ~run'.retry =>
          \A s \in DOMAIN run.steps \cap DOMAIN task.obj.steps :
              run.steps[s].phase = "Failed" => task.obj.steps[s].phase = "Failed"]_vars

\* A deleted run is rolled back and goes away, whatever fails on the way (340-356).
DeletionEnds == run.deleting ~> ~run.exists

\* A requested rollback succeeds in the end, unless the request is taken back (355-356).
RollbackEnds ==
    run.desired = "RolledBack" ~>
        (run.phase = "RolledBack" \/ ~run.exists \/ run.desired = "Applied")

\* A run does not stay at work for ever: it becomes Ready, fails or is rolled back.
ApplyEnds == (run.exists /\ run.phase \in {"", "Running"}) ~>
                 (~run.exists \/ run.phase \notin {"", "Running"})

\* A retry of a failed run that can be provisioned is carried out, and its
\* annotation removed (wizardrun_types.go:82-84).
RetryServed ==
    (run.retry /\ run.phase = "Failed" /\ run.plan # Invalid /\ (run.snapshot \/ definition)) ~>
        (~run.retry \/ ~run.exists \/ run.deleting \/ run.desired = "RolledBack" \/ run.plan = Invalid)

Stage ==
    IF ~run.exists THEN "gone"
    ELSE IF run.phase = "RolledBack" THEN "undone"
    ELSE IF run.phase \in Undoing THEN "undoing" ELSE "active"

\* This one run, as the only one there is.
Lifecycle == INSTANCE RunSpec WITH
    Runs <- {"run"}, stage <- [r \in {"run"} |-> Stage], holds <- [r \in {"run"} |-> holds]

\* The controller keeps the promise of RunSpec: references are acquired only by
\* an active run and released only by an announced rollback, a run counts as
\* rolled back only when it holds nothing, and never comes back from it.
KeepsRunSpec == Lifecycle!Spec
=============================================================================
