----------------------------- MODULE WaitBuild -----------------------------
(***************************************************************************)
(* The waitBuild step (src/internal/steps/forgesteps.go) as the reconciler *)
(* polls it, request by request, against forge, which starts, retries and  *)
(* repairs builds as it likes, and against those who delete the artifact.  *)
(* Builds are numbered in the order forge starts them.  Time is counted    *)
(* from the moment the step first ran, up to one tick past its timeout.    *)
(***************************************************************************)
EXTENDS Integers, FiniteSets

CONSTANTS Builds,                     \* the builds forge may start, in this order
          Ours,                       \* those of the watcher's repository, type and subfolder
          NoBuild, Never, Idle,
          Timeout,                    \* BuildTimeout, in ticks of the clock
          ListSize,                   \* buildListSize
          MaxFailures,                \* maxStepFailures
          MaxFaults, MaxRetries, MaxDeletes  \* bounds for model checking

ASSUME WaitBuildAssumption ==
    /\ Builds \subseteq Nat /\ IsFiniteSet(Builds) /\ Ours \subseteq Builds
    /\ NoBuild \notin Builds /\ Never \notin Nat
    /\ Timeout \in Nat /\ ListSize \in Nat \ {0} /\ MaxFailures \in Nat \ {0}
    /\ MaxFaults \in Nat /\ MaxRetries \in Nat /\ MaxDeletes \in Nat

VARIABLES watcher,   \* the watcher: "active", "disabled" or "gone"
          builds,    \* per build what GetAppBuild answers, or that there is no such row
          artifact,  \* whether the index has the artifact
          step,      \* the step's status as recorded in the run
          poll,      \* the Ensure call in progress, or Idle
          waited,    \* ticks since the step was first asked for, or asked for again
          faults, retries, deletes  \* so many of each so far

vars == <<watcher, builds, artifact, step, poll, waited, faults, retries, deletes>>
forge == <<watcher, builds>>
bounds == <<faults, retries, deletes>>

Ticks == 0..(Timeout + 1)
Rows == {"BUILDING", "SUCCESS", "FAILED", "unpublished"}  \* unpublished: SUCCESS without an artifact ID

Step == [phase: {"Pending", "Running", "Failed", "Succeeded"},
         message: {"", "watcher", "timed out", "build", "giving up"},
         age: Ticks \cup {Never}, build: Builds \cup {NoBuild}, failures: 0..(MaxFailures - 1)]

Poll == [at: {"watcher", "remembered", "list", "reread", "artifact", "claim"},
         age: Ticks, build: Builds \cup {NoBuild}]

\* Every variable has its type; a step that failed MaxFailures times in a row
\* does not go on (run_controller.go:294).
TypeOK ==
    /\ watcher \in {"active", "disabled", "gone"}
    /\ builds \in [Builds -> Rows \cup {"none", "deleted"}]
    /\ artifact \in BOOLEAN
    /\ step \in Step
    /\ poll \in Poll \cup {Idle}
    /\ waited \in Ticks
    /\ faults \in 0..MaxFaults /\ retries \in 0..MaxRetries /\ deletes \in 0..MaxDeletes

Init ==
    /\ watcher = "active"
    /\ builds = [b \in Builds |-> "none"]
    /\ artifact = FALSE
    /\ step = [phase |-> "Pending", message |-> "", age |-> Never, build |-> NoBuild, failures |-> 0]
    /\ poll = Idle
    /\ waited = 0
    /\ faults = 0 /\ retries = 0 /\ deletes = 0

-----------------------------------------------------------------------------
(* Forge, the index and the clock. *)

Exists(b) == builds[b] \in Rows

\* The build forge starts next.
IsNew(b) == builds[b] = "none" /\ \A c \in Builds : c < b => builds[c] # "none"

Untouched == UNCHANGED <<step, poll, waited, bounds>>

\* A new version of the watcher's repository, or a build of somebody else's.
StartBuild ==
    /\ \E b \in Builds :
          /\ IsNew(b)
          /\ b \in Ours => watcher = "active"
          /\ builds' = [builds EXCEPT ![b] = "BUILDING"]
    /\ UNCHANGED <<watcher, artifact>> /\ Untouched

FinishBuild ==
    /\ \E b \in Builds, s \in {"SUCCESS", "FAILED", "unpublished"} :
          /\ builds[b] = "BUILDING"
          /\ builds' = [builds EXCEPT ![b] = s]
          /\ artifact' = (artifact \/ (b \in Ours /\ s = "SUCCESS"))
    /\ UNCHANGED watcher /\ Untouched

\* Forge retries a failed build, or rebuilds one whose artifact vanished: the
\* row goes and a new build starts.
Rebuild ==
    /\ watcher = "active"
    /\ \E b, c \in Ours :
          /\ builds[b] = "FAILED" \/ (builds[b] = "SUCCESS" /\ ~artifact)
          /\ IsNew(c)
          /\ builds' = [builds EXCEPT ![b] = "deleted", ![c] = "BUILDING"]
    /\ UNCHANGED <<watcher, artifact>> /\ Untouched

\* Forge gives up on a watcher whose builds fail.
Disable ==
    /\ watcher = "active" /\ \E b \in Ours : builds[b] = "FAILED"
    /\ watcher' = "disabled"
    /\ UNCHANGED <<builds, artifact>> /\ Untouched

\* A rollback of another run, or somebody, deletes the artifact or the watcher.
Deletion ==
    /\ deletes < MaxDeletes /\ deletes' = deletes + 1
    /\ \/ artifact /\ artifact' = FALSE /\ UNCHANGED watcher
       \/ watcher # "gone" /\ watcher' = "gone" /\ UNCHANGED artifact
    /\ UNCHANGED <<builds, step, poll, waited, faults, retries>>

Later(n) == IF n <= Timeout THEN n + 1 ELSE n

Tick ==
    /\ waited' = Later(waited)
    /\ step' = IF step.age = Never THEN step ELSE [step EXCEPT !.age = Later(@)]
    /\ poll' = IF poll = Idle THEN Idle ELSE [poll EXCEPT !.age = Later(@)]
    /\ UNCHANGED <<forge, artifact, bounds>>

-----------------------------------------------------------------------------
(* The poll. *)

At(pc) == poll # Idle /\ poll.at = pc
Goto(pc, b) == poll' = [poll EXCEPT !.at = pc, !.build = b] /\ UNCHANGED step

\* The status patch at the end of a reconcile.
Record(phase, message, b, failures) ==
    /\ poll' = Idle
    /\ step' = [phase |-> phase, message |-> message, age |-> poll.age, build |-> b, failures |-> failures]

Fail(message) == Record("Failed", message, step.build, 0)

\* Come back after the poll interval and remember build b.
Wait(b) == Record("Running", "", b, 0)

\* (mutant) StartedAt is not kept between polls.
StartedNow == 0

\* StartedAt: when this instance first ran.
Started == IF step.age = Never THEN 0 ELSE step.age

\* The reconciler calls Ensure, after the poll interval or a backoff.
BeginPoll ==
    /\ step.phase \in {"Pending", "Running"} /\ poll = Idle
    /\ poll' = [at |-> "watcher", age |-> Started, build |-> NoBuild]
    /\ UNCHANGED <<forge, artifact, step, waited, bounds>>

\* (mutant) Every poll takes the newest build.
LookupNewest == "list"

\* Where a poll looks for the build first.
Lookup == IF step.build = NoBuild THEN "list" ELSE "remembered"

\* The watcher, then the timeout, then the build.
ReadWatcher ==
    /\ At("watcher")
    /\ \/ watcher # "active" /\ Fail("watcher")
       \/ watcher = "active" /\ poll.age > Timeout /\ Fail("timed out")
       \/ watcher = "active" /\ poll.age <= Timeout
            /\ Goto(Lookup, step.build)
    /\ UNCHANGED <<forge, artifact, waited, bounds>>

\* What a build's row means for the step.
Judge(b) ==
    \/ builds[b] = "BUILDING" /\ Wait(b)
    \/ builds[b] \in {"FAILED", "unpublished"} /\ Fail("build")
    \/ builds[b] = "SUCCESS" /\ Goto("artifact", b)

\* findBuild: the remembered build, as long as forge has it ...
GetRemembered ==
    /\ At("remembered")
    /\ \/ Exists(poll.build) /\ Judge(poll.build)
       \/ ~Exists(poll.build) /\ Goto("list", NoBuild)
    /\ UNCHANGED <<forge, artifact, waited, bounds>>

\* The newest ListSize rows.
Listed == {b \in Builds : Exists(b) /\ Cardinality({c \in Builds : Exists(c) /\ c > b}) < ListSize}

\* (mutant) Anybody's build will do.
CandidatesOfAll == Listed

Candidates == Listed \cap Ours

\* ... or else the newest of the watcher's builds, ...
ListBuilds ==
    /\ At("list")
    /\ \/ Candidates = {} /\ Wait(step.build)
       \/ Candidates # {} /\ Goto("reread", CHOOSE b \in Candidates : \A c \in Candidates : c <= b)
    /\ UNCHANGED <<forge, artifact, waited, bounds>>

\* ... read again by its ID, since forge brings a row up to date only then.
Reread ==
    /\ At("reread")
    /\ \/ Exists(poll.build) /\ Judge(poll.build)
       \/ ~Exists(poll.build) /\ Wait(step.build)
    /\ UNCHANGED <<forge, artifact, waited, bounds>>

\* A missing artifact is waited for: forge will notice and rebuild it.
FindArtifact ==
    /\ At("artifact")
    /\ \/ artifact /\ Goto("claim", poll.build)
       \/ ~artifact /\ Wait(poll.build)
    /\ UNCHANGED <<forge, artifact, waited, bounds>>

\* ensureStep records the reference; or the entry is still being deleted, and
\* the step keeps what it remembered before.
Claim ==
    /\ At("claim")
    /\ \/ Record("Succeeded", "", poll.build, 0) /\ UNCHANGED faults
       \/ faults < MaxFaults /\ faults' = faults + 1 /\ Wait(step.build)
    /\ UNCHANGED <<forge, artifact, waited, retries, deletes>>

\* (mutant) One attempt too many.
GivesUpLate(failures) == failures > MaxFailures

GivesUp(failures) == failures >= MaxFailures

\* A request fails in a way that may pass, or the operator dies or cannot write
\* the status: then nothing of the poll is kept.
Interrupted ==
    /\ poll # Idle
    /\ faults < MaxFaults /\ faults' = faults + 1
    /\ \/ ~GivesUp(step.failures + 1) /\ Record("Running", "", step.build, step.failures + 1)
       \/ GivesUp(step.failures + 1) /\ Fail("giving up")
       \/ poll' = Idle /\ UNCHANGED step
    /\ UNCHANGED <<forge, artifact, waited, retries, deletes>>

\* (mutant) A retry keeps StartedAt.
ResetKeepingStart == [step EXCEPT !.phase = "Pending", !.message = "", !.failures = 0]

\* resetFailed: the outputs, and with them the remembered build, stay.
Reset == [step EXCEPT !.phase = "Pending", !.message = "", !.failures = 0, !.age = Never]

\* Somebody retries the run.
Retry ==
    /\ step.phase = "Failed" /\ retries < MaxRetries
    /\ retries' = retries + 1
    /\ step' = Reset
    /\ waited' = 0
    /\ UNCHANGED <<forge, artifact, poll, faults, deletes>>

-----------------------------------------------------------------------------

Polling == ReadWatcher \/ GetRemembered \/ ListBuilds \/ Reread \/ FindArtifact \/ Claim

Next ==
    \/ StartBuild \/ FinishBuild \/ Rebuild \/ Disable \/ Deletion \/ Tick
    \/ BeginPoll \/ Polling \/ Interrupted \/ Retry

Spec == Init /\ [][Next]_vars

\* A poll goes on, the reconciler comes back to a step that waits, and time
\* passes.  Forge owes nothing.
FairSpec == Spec /\ WF_vars(BeginPoll) /\ WF_vars(Polling) /\ WF_vars(Tick)

-----------------------------------------------------------------------------
(* Properties. *)

\* Whatever forge does or does not do, the step comes to an end: the timeout
\* counts from the first poll and bounds every way of waiting, the one for a
\* vanished artifact included (forgesteps.go:108, 138-147).
WaitingEnds == step.phase \in {"Pending", "Running"} ~> step.phase \in {"Failed", "Succeeded"}

\* A step only times out after its whole timeout, counted anew by a retry
\* (run_controller.go:462); time that passed before the retry does not count.
RetryHasTime == step.message = "timed out" => waited > Timeout

\* A step that found a build stays with it for as long as forge has its row,
\* whatever newer builds appear, also when a poll is cut short
\* (forgesteps.go:167-178).
FollowsBuild ==
    [][\A b \in Builds : step.build = b /\ builds[b] \in Rows => step'.build = b]_vars

\* The build a step waits for or succeeded with is one of the watcher's
\* (forgesteps.go:179-185).
OnlyOwnBuilds == step.build # NoBuild => step.build \in Ours
=============================================================================
