-------------------------- MODULE WaitBuildProofs --------------------------
(***************************************************************************)
(* What is proved of WaitBuild for any builds, owners, timeout and bounds. *)
(***************************************************************************)
EXTENDS WaitBuild, FiniteSetTheorems, WellFoundedInduction, TLAPS

\* The ages that the run's status and the poll tell are never ahead of the time
\* since the step was asked for, and nobody retries a step that is being polled.
AgesAreTrue ==
    /\ step.age # Never => step.age <= waited
    /\ poll # Idle => poll.age <= waited /\ step.phase \in {"Pending", "Running"}

\* A poll past the list has a build, one of the watcher's.
PollsOwnBuild ==
    poll # Idle =>
        /\ poll.build # NoBuild => poll.build \in Ours
        /\ poll.build = NoBuild <=> poll.at \in {"watcher", "list"}

\* A build that is remembered or looked at was started.
Known(b) == b # NoBuild => builds[b] # "none"

\* A poll looks away from the remembered build only when that one's row is gone.
PollFollows ==
    /\ Known(step.build)
    /\ poll # Idle =>
         /\ Known(poll.build)
         /\ poll.at # "watcher" /\ step.build # NoBuild =>
              poll.build = step.build \/ builds[step.build] = "deleted"

WaitInv ==
    /\ TypeOK
    /\ RetryHasTime /\ AgesAreTrue
    /\ OnlyOwnBuilds /\ PollsOwnBuild
    /\ PollFollows

-----------------------------------------------------------------------------
(* Lemmas about the model's operators. *)

\* A nonempty finite set of numbers has a greatest one: a smallest set without one
\* would have it as soon as one of its members is taken out.
LEMMA GreatestExists ==
    ASSUME NEW S, IsFiniteSet(S), S \subseteq Nat, S # {}
    PROVE  \E x \in S : \A y \in S : y <= x
<1> DEFINE Bad == {T \in SUBSET S : T # {} /\ ~\E x \in T : \A y \in T : y <= x}
<1>1. IsWellFoundedOn(StrictSubsetOrdering(S), SUBSET S)
  BY FS_StrictSubsetOrderingWellFounded, FS_FiniteSubsetsOfFinite
<1>2. SUFFICES ASSUME Bad # {}
               PROVE  FALSE
  OBVIOUS
<1>3. Bad \subseteq SUBSET S
  OBVIOUS
<1>. HIDE DEF Bad
<1>4. PICK T \in Bad : \A U \in Bad : <<U, T>> \notin StrictSubsetOrdering(S)
  BY <1>1, <1>2, <1>3, WFMin
<1>. USE DEF Bad
<1>5. PICK x \in T : TRUE
  OBVIOUS
<1>6. T \ {x} # {}
  OBVIOUS
<1>7. T \ {x} \notin Bad
  BY <1>4, <1>5 DEF StrictSubsetOrdering
<1>8. PICK m \in T \ {x} : \A y \in T \ {x} : y <= m
  BY <1>6, <1>7
<1>9. m \in Nat /\ x \in Nat
  OBVIOUS
<1>10. CASE x <= m
  BY <1>8, <1>9, <1>10
<1>11. CASE m <= x
  <2>1. \A y \in T : y \in Nat
    OBVIOUS
  <2>2. \A y \in T : y <= x
    BY <1>8, <1>9, <1>11, <2>1
  <2>. QED
    BY <2>2
<1>. QED
  BY <1>9, <1>10, <1>11

\* Time goes on, up to a tick past the timeout.
LEMMA LaterIsLater ==
    ASSUME NEW m \in Ticks, NEW n \in Ticks
    PROVE  /\ Later(n) \in Ticks /\ n <= Later(n)
           /\ m <= n => Later(m) <= Later(n)
           /\ m <= n /\ m > Timeout => n > Timeout
BY WaitBuildAssumption DEF Ticks, Later

\* The build that the list answers is one of the watcher's, and forge has it.
LEMMA NewestIsOurs ==
    ASSUME Candidates # {}
    PROVE  LET b == CHOOSE b \in Candidates : \A c \in Candidates : c <= b
           IN  b \in Ours /\ b \in Builds /\ b # NoBuild /\ builds[b] # "none"
<1>1. Candidates \in SUBSET Builds /\ Candidates \in SUBSET Ours
  BY DEF Candidates, Listed
<1>2. IsFiniteSet(Candidates) /\ Candidates \subseteq Nat
  BY <1>1, WaitBuildAssumption, FS_Subset
<1>3. \E b \in Candidates : \A c \in Candidates : c <= b
  BY <1>2, GreatestExists
<1>4. (CHOOSE b \in Candidates : \A c \in Candidates : c <= b) \in Candidates
  BY <1>3
<1>. QED
  BY <1>1, <1>4, WaitBuildAssumption DEF Candidates, Listed, Exists, Rows

\* What a status patch records keeps the invariant, when it tells of a timeout
\* only after one and remembers a build of the watcher's, the same one as long as
\* forge has it.
LEMMA RecordKeeps ==
    ASSUME WaitInv, poll # Idle,
           NEW phase \in {"Running", "Failed", "Succeeded"},
           NEW message \in {"", "watcher", "timed out", "build", "giving up"},
           NEW b \in Builds \cup {NoBuild}, NEW failures \in 0..(MaxFailures - 1),
           Record(phase, message, b, failures),
           message = "timed out" => poll.age > Timeout,
           b # NoBuild => b \in Ours /\ builds[b] # "none",
           UNCHANGED <<forge, artifact, waited, retries, deletes>>, faults' \in 0..MaxFaults
    PROVE  WaitInv'
<1>1. poll \in Poll /\ poll.age \in Ticks /\ poll.age <= waited
  BY DEF WaitInv, TypeOK, AgesAreTrue, Poll
<1>2. /\ step' \in Step /\ poll' = Idle
      /\ step'.message = message /\ step'.age = poll.age /\ step'.build = b
  BY <1>1 DEF Record, Step
<1>3. TypeOK'
  BY <1>2 DEF WaitInv, TypeOK, forge
<1>4. RetryHasTime'
  <2>1. waited' = waited
    OBVIOUS
  <2>2. waited \in Ticks
    BY DEF WaitInv, TypeOK
  <2>3. message = "timed out" => waited > Timeout
    BY <1>1, <2>2, LaterIsLater
  <2>. QED
    BY <1>2, <2>1, <2>3 DEF RetryHasTime
<1>5. AgesAreTrue'
  BY <1>1, <1>2 DEF AgesAreTrue
<1>6. OnlyOwnBuilds' /\ PollsOwnBuild'
  BY <1>2 DEF OnlyOwnBuilds, PollsOwnBuild
<1>7. PollFollows'
  BY <1>2 DEF PollFollows, Known, forge
<1>. QED
  BY <1>3, <1>4, <1>5, <1>6, <1>7 DEF WaitInv

\* A poll that goes on keeps the invariant, when it looks at the remembered build,
\* at none, or at another one when the remembered one is gone.
LEMMA GotoKeeps ==
    ASSUME WaitInv, poll # Idle,
           NEW pc \in {"remembered", "list", "reread", "artifact", "claim"},
           NEW b \in Builds \cup {NoBuild}, Goto(pc, b),
           b = NoBuild <=> pc = "list",
           b # NoBuild => b \in Ours /\ builds[b] # "none",
           step.build # NoBuild => b = step.build \/ builds[step.build] = "deleted",
           UNCHANGED <<forge, artifact, waited, bounds>>
    PROVE  WaitInv'
<1>1. poll \in Poll
  BY DEF WaitInv, TypeOK
<1>2. poll' \in Poll /\ poll'.at = pc /\ poll'.build = b /\ poll'.age = poll.age /\ step' = step
  BY <1>1 DEF Goto, Poll
<1>3. TypeOK'
  BY <1>2 DEF WaitInv, TypeOK, forge, bounds
<1>4. RetryHasTime' /\ AgesAreTrue'
  BY <1>2 DEF WaitInv, RetryHasTime, AgesAreTrue
<1>5. OnlyOwnBuilds' /\ PollsOwnBuild'
  BY <1>2 DEF WaitInv, OnlyOwnBuilds, PollsOwnBuild
<1>6. PollFollows'
  BY <1>2 DEF WaitInv, PollFollows, Known, forge
<1>. QED
  BY <1>3, <1>4, <1>5, <1>6 DEF WaitInv

\* Steps of forge and of others keep the invariant: a build that was started
\* stays known, and a row that is gone stays gone.
LEMMA OutsideKeeps ==
    ASSUME WaitInv, UNCHANGED <<step, poll, waited>>,
           watcher' \in {"active", "disabled", "gone"},
           builds' \in [Builds -> Rows \cup {"none", "deleted"}],
           artifact' \in BOOLEAN,
           faults' \in 0..MaxFaults, retries' \in 0..MaxRetries, deletes' \in 0..MaxDeletes,
           \A b \in Builds : /\ builds[b] # "none" => builds'[b] # "none"
                             /\ builds[b] = "deleted" => builds'[b] = "deleted"
    PROVE  WaitInv'
<1>1. step.build \in Builds \cup {NoBuild}
      /\ (poll # Idle => poll.build \in Builds \cup {NoBuild})
  BY DEF WaitInv, TypeOK, Step, Poll
<1>2. TypeOK'
  BY DEF WaitInv, TypeOK
<1>3. RetryHasTime' /\ AgesAreTrue'
  BY DEF WaitInv, RetryHasTime, AgesAreTrue
<1>4. OnlyOwnBuilds' /\ PollsOwnBuild'
  BY DEF WaitInv, OnlyOwnBuilds, PollsOwnBuild
<1>5. PollFollows'
  BY <1>1 DEF WaitInv, PollFollows, Known
<1>. QED
  BY <1>2, <1>3, <1>4, <1>5 DEF WaitInv

-----------------------------------------------------------------------------
(* The invariant is kept, action by action. *)

LEMMA StartBuildKeeps == ASSUME WaitInv, StartBuild PROVE WaitInv'
<1>1. builds \in [Builds -> Rows \cup {"none", "deleted"}]
  BY DEF WaitInv, TypeOK
<1>2. PICK b \in Builds : IsNew(b) /\ builds' = [builds EXCEPT ![b] = "BUILDING"]
  BY DEF StartBuild
<1>. QED
  BY <1>1, <1>2, OutsideKeeps DEF StartBuild, IsNew, Untouched, bounds, Rows, WaitInv, TypeOK

LEMMA FinishBuildKeeps == ASSUME WaitInv, FinishBuild PROVE WaitInv'
<1>1. builds \in [Builds -> Rows \cup {"none", "deleted"}]
  BY DEF WaitInv, TypeOK
<1>2. PICK b \in Builds, s \in {"SUCCESS", "FAILED", "unpublished"} :
         builds[b] = "BUILDING" /\ builds' = [builds EXCEPT ![b] = s]
  BY DEF FinishBuild
<1>3. artifact' \in BOOLEAN
  BY DEF FinishBuild, WaitInv, TypeOK
<1>. QED
  BY <1>1, <1>2, <1>3, OutsideKeeps DEF FinishBuild, Untouched, bounds, Rows, WaitInv, TypeOK

LEMMA RebuildKeeps == ASSUME WaitInv, Rebuild PROVE WaitInv'
<1>1. builds \in [Builds -> Rows \cup {"none", "deleted"}]
  BY DEF WaitInv, TypeOK
<1>2. PICK b \in Ours, c \in Ours :
         /\ builds[b] \in {"FAILED", "SUCCESS"} /\ builds[c] = "none"
         /\ builds' = [builds EXCEPT ![b] = "deleted", ![c] = "BUILDING"]
  BY DEF Rebuild, IsNew
<1>3. b \in Builds /\ c \in Builds /\ b # c
  BY <1>2, WaitBuildAssumption
<1>. QED
  BY <1>1, <1>2, <1>3, OutsideKeeps DEF Rebuild, Untouched, bounds, Rows, WaitInv, TypeOK

LEMMA DisableKeeps == ASSUME WaitInv, Disable PROVE WaitInv'
BY OutsideKeeps DEF Disable, Untouched, bounds, WaitInv, TypeOK

LEMMA DeletionKeeps == ASSUME WaitInv, Deletion PROVE WaitInv'
<1>1. deletes' \in 0..MaxDeletes
  BY WaitBuildAssumption DEF Deletion, WaitInv, TypeOK
<1>2. artifact' \in BOOLEAN /\ watcher' \in {"active", "disabled", "gone"}
  BY DEF Deletion, WaitInv, TypeOK
<1>. QED
  BY <1>1, <1>2, OutsideKeeps DEF Deletion, WaitInv, TypeOK

LEMMA TickKeeps == ASSUME WaitInv, Tick PROVE WaitInv'
<1>1. waited \in Ticks /\ step \in Step /\ poll \in Poll \cup {Idle}
  BY DEF WaitInv, TypeOK
<1>2. waited' \in Ticks /\ waited' = Later(waited)
  BY <1>1, LaterIsLater DEF Tick
<1>3. /\ step' \in Step
      /\ \/ step' = step /\ step.age = Never
         \/ step.age \in Ticks /\ step' = [step EXCEPT !.age = Later(step.age)]
  BY <1>1, LaterIsLater DEF Tick, Step
<1>4. /\ poll' \in Poll \cup {Idle}
      /\ poll' # Idle => /\ poll # Idle /\ poll.age \in Ticks
                         /\ poll' = [poll EXCEPT !.age = Later(poll.age)]
  BY <1>1, LaterIsLater DEF Tick, Poll
<1>5. TypeOK'
  BY <1>2, <1>3, <1>4 DEF Tick, WaitInv, TypeOK, forge, bounds
<1>6. /\ step'.phase = step.phase /\ step'.message = step.message /\ step'.build = step.build
      /\ step'.age # Never => step.age \in Ticks /\ step'.age = Later(step.age)
  BY <1>1, <1>3 DEF Step
<1>7. poll' # Idle => /\ poll # Idle /\ poll.age \in Ticks /\ poll'.age = Later(poll.age)
                      /\ poll'.at = poll.at /\ poll'.build = poll.build
  BY <1>1, <1>4 DEF Poll
<1>8. RetryHasTime'
  BY <1>1, <1>2, <1>6, LaterIsLater DEF WaitInv, RetryHasTime
<1>9. AgesAreTrue'
  <2>1. step'.age # Never => step'.age <= waited'
    <3>1. Never \notin Ticks
      BY WaitBuildAssumption DEF Ticks
    <3>. QED
      BY <1>1, <1>2, <1>6, <3>1, LaterIsLater DEF WaitInv, AgesAreTrue
  <2>2. poll' # Idle => poll'.age <= waited' /\ step'.phase \in {"Pending", "Running"}
    BY <1>1, <1>2, <1>6, <1>7, LaterIsLater DEF WaitInv, AgesAreTrue
  <2>. QED
    BY <2>1, <2>2 DEF AgesAreTrue
<1>10. OnlyOwnBuilds' /\ PollsOwnBuild'
  BY <1>6, <1>7 DEF WaitInv, OnlyOwnBuilds, PollsOwnBuild
<1>11. PollFollows'
  BY <1>6, <1>7 DEF Tick, forge, WaitInv, PollFollows, Known
<1>. QED
  BY <1>5, <1>8, <1>9, <1>10, <1>11 DEF WaitInv

LEMMA BeginPollKeeps == ASSUME WaitInv, BeginPoll PROVE WaitInv'
<1>1. waited \in Ticks /\ step \in Step
  BY DEF WaitInv, TypeOK
<1>2. Started \in Ticks /\ Started <= waited
  <2>1. CASE step.age = Never
    BY <1>1, <2>1, WaitBuildAssumption DEF Started, Ticks
  <2>2. CASE step.age # Never
    BY <1>1, <2>2 DEF Started, Step, WaitInv, AgesAreTrue
  <2>. QED
    BY <2>1, <2>2
<1>3. /\ poll' \in Poll /\ poll'.at = "watcher" /\ poll'.build = NoBuild
      /\ poll'.age <= waited
  BY <1>2 DEF BeginPoll, Poll
<1>4. TypeOK'
  BY <1>3 DEF BeginPoll, WaitInv, TypeOK, forge, bounds
<1>5. RetryHasTime' /\ AgesAreTrue'
  BY <1>3 DEF BeginPoll, WaitInv, RetryHasTime, AgesAreTrue
<1>6. OnlyOwnBuilds' /\ PollsOwnBuild'
  BY <1>3 DEF BeginPoll, WaitInv, OnlyOwnBuilds, PollsOwnBuild
<1>7. PollFollows'
  BY <1>3 DEF BeginPoll, forge, WaitInv, PollFollows, Known
<1>. QED
  BY <1>4, <1>5, <1>6, <1>7 DEF WaitInv

\* What a poll knows of its build.
LEMMA PollFacts ==
    ASSUME WaitInv, poll # Idle
    PROVE  /\ poll.build \in Builds \cup {NoBuild} /\ step.build \in Builds \cup {NoBuild}
           /\ poll.build # NoBuild => poll.build \in Ours /\ builds[poll.build] # "none"
           /\ step.build # NoBuild => step.build \in Ours /\ builds[step.build] # "none"
           /\ 0 \in 0..(MaxFailures - 1) /\ faults \in 0..MaxFaults
<1>1. poll \in Poll /\ step \in Step /\ faults \in 0..MaxFaults
  BY DEF WaitInv, TypeOK
<1>2. 0 \in 0..(MaxFailures - 1)
  BY WaitBuildAssumption
<1>. QED
  BY <1>1, <1>2 DEF Poll, Step, WaitInv, OnlyOwnBuilds, PollsOwnBuild, PollFollows, Known

\* Every way in which a poll waits for one of its builds or fails.
LEMMA WaitKeeps ==
    ASSUME WaitInv, poll # Idle, NEW b \in {step.build, poll.build}, Wait(b),
           UNCHANGED <<forge, artifact, waited, retries, deletes>>, faults' \in 0..MaxFaults
    PROVE  WaitInv'
BY PollFacts, RecordKeeps DEF Wait

LEMMA FailKeeps ==
    ASSUME WaitInv, poll # Idle,
           NEW message \in {"watcher", "timed out", "build", "giving up"}, Fail(message),
           message = "timed out" => poll.age > Timeout,
           UNCHANGED <<forge, artifact, waited, retries, deletes>>, faults' \in 0..MaxFaults
    PROVE  WaitInv'
BY PollFacts, RecordKeeps DEF Fail

LEMMA JudgeKeeps ==
    ASSUME WaitInv, poll # Idle, poll.build # NoBuild,
           step.build # NoBuild => poll.build = step.build \/ builds[step.build] = "deleted",
           Judge(poll.build), UNCHANGED <<forge, artifact, waited, bounds>>
    PROVE  WaitInv'
<1>1. faults' \in 0..MaxFaults /\ UNCHANGED <<forge, artifact, waited, retries, deletes>>
  BY PollFacts DEF bounds
<1>2. CASE Wait(poll.build)
  BY <1>1, <1>2, WaitKeeps
<1>3. CASE Fail("build")
  BY <1>1, <1>3, FailKeeps
<1>4. CASE Goto("artifact", poll.build)
  BY <1>4, PollFacts, GotoKeeps
<1>. QED
  BY <1>2, <1>3, <1>4 DEF Judge

LEMMA ReadWatcherKeeps == ASSUME WaitInv, ReadWatcher PROVE WaitInv'
<1>1. /\ poll # Idle /\ faults' \in 0..MaxFaults
      /\ UNCHANGED <<forge, artifact, waited, retries, deletes>>
  BY PollFacts DEF ReadWatcher, At, bounds
<1>2. CASE Fail("watcher")
  BY <1>1, <1>2, FailKeeps
<1>3. CASE poll.age > Timeout /\ Fail("timed out")
  BY <1>1, <1>3, FailKeeps
<1>4. CASE Goto(Lookup, step.build)
  <2>1. Lookup \in {"list", "remembered"} /\ (Lookup = "list" <=> step.build = NoBuild)
    BY DEF Lookup
  <2>. QED
    BY <1>1, <1>4, <2>1, PollFacts, GotoKeeps DEF ReadWatcher
<1>. QED
  BY <1>2, <1>3, <1>4 DEF ReadWatcher

LEMMA GetRememberedKeeps == ASSUME WaitInv, GetRemembered PROVE WaitInv'
<1>1. /\ poll # Idle /\ poll.build # NoBuild
      /\ step.build # NoBuild => poll.build = step.build \/ builds[step.build] = "deleted"
  BY DEF GetRemembered, At, WaitInv, PollsOwnBuild, PollFollows
<1>2. CASE Judge(poll.build)
  BY <1>1, <1>2, JudgeKeeps DEF GetRemembered
<1>3. CASE ~Exists(poll.build) /\ Goto("list", NoBuild)
  <2>1. builds[poll.build] = "deleted"
    BY <1>1, <1>3, PollFacts DEF Exists, WaitInv, TypeOK
  <2>. QED
    BY <1>1, <1>3, <2>1, GotoKeeps DEF GetRemembered
<1>. QED
  BY <1>2, <1>3 DEF GetRemembered

LEMMA ListBuildsKeeps == ASSUME WaitInv, ListBuilds PROVE WaitInv'
<1>1. /\ poll # Idle /\ faults' \in 0..MaxFaults
      /\ UNCHANGED <<forge, artifact, waited, retries, deletes>>
  BY PollFacts DEF ListBuilds, At, bounds
<1>2. CASE Wait(step.build)
  BY <1>1, <1>2, WaitKeeps
<1>3. CASE Candidates # {} /\ Goto("reread", CHOOSE b \in Candidates : \A c \in Candidates : c <= b)
  <2>1. PICK b \in Builds : b \in Ours /\ b # NoBuild /\ builds[b] # "none" /\ Goto("reread", b)
    BY <1>3, NewestIsOurs
  <2>2. step.build # NoBuild => builds[step.build] = "deleted"
    BY <1>1 DEF ListBuilds, At, WaitInv, PollsOwnBuild, PollFollows
  <2>. QED
    BY <1>1, <2>1, <2>2, GotoKeeps DEF ListBuilds
<1>. QED
  BY <1>2, <1>3 DEF ListBuilds

LEMMA RereadKeeps == ASSUME WaitInv, Reread PROVE WaitInv'
<1>1. /\ poll # Idle /\ poll.build # NoBuild /\ faults' \in 0..MaxFaults
      /\ UNCHANGED <<forge, artifact, waited, retries, deletes>>
      /\ step.build # NoBuild => poll.build = step.build \/ builds[step.build] = "deleted"
  BY PollFacts DEF Reread, At, bounds, WaitInv, PollsOwnBuild, PollFollows
<1>2. CASE Judge(poll.build)
  BY <1>1, <1>2, JudgeKeeps DEF Reread
<1>3. CASE Wait(step.build)
  BY <1>1, <1>3, WaitKeeps
<1>. QED
  BY <1>2, <1>3 DEF Reread

LEMMA FindArtifactKeeps == ASSUME WaitInv, FindArtifact PROVE WaitInv'
<1>1. /\ poll # Idle /\ poll.build # NoBuild /\ faults' \in 0..MaxFaults
      /\ UNCHANGED <<forge, artifact, waited, retries, deletes>>
      /\ step.build # NoBuild => poll.build = step.build \/ builds[step.build] = "deleted"
  BY PollFacts DEF FindArtifact, At, bounds, WaitInv, PollsOwnBuild, PollFollows
<1>2. CASE Goto("claim", poll.build)
  BY <1>1, <1>2, PollFacts, GotoKeeps DEF FindArtifact
<1>3. CASE Wait(poll.build)
  BY <1>1, <1>3, WaitKeeps
<1>. QED
  BY <1>2, <1>3 DEF FindArtifact

LEMMA ClaimKeeps == ASSUME WaitInv, Claim PROVE WaitInv'
<1>1. poll # Idle /\ UNCHANGED <<forge, artifact, waited, retries, deletes>>
  BY DEF Claim, At
<1>2. CASE Record("Succeeded", "", poll.build, 0) /\ UNCHANGED faults
  BY <1>1, <1>2, PollFacts, RecordKeeps
<1>3. CASE faults < MaxFaults /\ faults' = faults + 1 /\ Wait(step.build)
  <2>1. faults' \in 0..MaxFaults
    BY <1>1, <1>3, PollFacts, WaitBuildAssumption
  <2>. QED
    BY <1>1, <1>3, <2>1, WaitKeeps
<1>. QED
  BY <1>2, <1>3 DEF Claim

LEMMA FailuresCount ==
    ASSUME NEW n \in 0..(MaxFailures - 1), ~GivesUp(n + 1)
    PROVE  n + 1 \in 0..(MaxFailures - 1)
BY WaitBuildAssumption DEF GivesUp

LEMMA InterruptedKeeps == ASSUME WaitInv, Interrupted PROVE WaitInv'
<1>1. /\ poll # Idle /\ UNCHANGED <<forge, artifact, waited, retries, deletes>>
      /\ step.failures \in 0..(MaxFailures - 1)
  BY DEF Interrupted, WaitInv, TypeOK, Step
<1>2. faults' \in 0..MaxFaults
  <2>1. faults < MaxFaults /\ faults' = faults + 1
    BY DEF Interrupted
  <2>. QED
    BY <1>1, <2>1, PollFacts, WaitBuildAssumption
<1>3. CASE ~GivesUp(step.failures + 1) /\ Record("Running", "", step.build, step.failures + 1)
  <2>1. step.failures + 1 \in 0..(MaxFailures - 1)
    BY <1>1, <1>3, FailuresCount
  <2>. QED
    BY <1>1, <1>2, <1>3, <2>1, PollFacts, RecordKeeps
<1>4. CASE Fail("giving up")
  BY <1>1, <1>2, <1>4, FailKeeps
<1>5. CASE poll' = Idle /\ UNCHANGED step
  <2>1. TypeOK'
    BY <1>1, <1>2, <1>5 DEF WaitInv, TypeOK, forge
  <2>2. RetryHasTime' /\ AgesAreTrue'
    BY <1>1, <1>5 DEF WaitInv, RetryHasTime, AgesAreTrue
  <2>3. OnlyOwnBuilds' /\ PollsOwnBuild' /\ PollFollows'
    BY <1>1, <1>5 DEF WaitInv, OnlyOwnBuilds, PollsOwnBuild, PollFollows, Known, forge
  <2>. QED
    BY <2>1, <2>2, <2>3 DEF WaitInv
<1>. QED
  BY <1>3, <1>4, <1>5 DEF Interrupted

LEMMA RetryKeeps == ASSUME WaitInv, Retry PROVE WaitInv'
<1>1. step \in Step /\ poll = Idle
  BY DEF Retry, WaitInv, TypeOK, AgesAreTrue
<1>2. 0 \in Ticks /\ 0 \in 0..(MaxFailures - 1) /\ retries' \in 0..MaxRetries
  BY WaitBuildAssumption DEF Retry, Ticks, WaitInv, TypeOK
<1>3. step' \in Step /\ step'.message = "" /\ step'.age = Never /\ step'.build = step.build
  BY <1>1, <1>2 DEF Retry, Reset, Step
<1>4. TypeOK'
  BY <1>2, <1>3 DEF Retry, WaitInv, TypeOK, forge
<1>5. RetryHasTime' /\ AgesAreTrue'
  BY <1>1, <1>3 DEF Retry, RetryHasTime, AgesAreTrue
<1>6. OnlyOwnBuilds' /\ PollsOwnBuild' /\ PollFollows'
  BY <1>1, <1>3 DEF Retry, WaitInv, OnlyOwnBuilds, PollsOwnBuild, PollFollows, Known, forge
<1>. QED
  BY <1>4, <1>5, <1>6 DEF WaitInv

-----------------------------------------------------------------------------

LEMMA WaitInvStarts == ASSUME Init PROVE WaitInv
<1>1. /\ 0 \in Ticks /\ 0 \in 0..(MaxFailures - 1) /\ 0 \in 0..MaxFaults
      /\ 0 \in 0..MaxRetries /\ 0 \in 0..MaxDeletes
  BY WaitBuildAssumption DEF Ticks
<1>2. step \in Step
  BY <1>1 DEF Init, Step
<1>3. builds \in [Builds -> Rows \cup {"none", "deleted"}]
  BY DEF Init
<1>4. TypeOK
  BY <1>1, <1>2, <1>3 DEF Init, TypeOK
<1>5. RetryHasTime /\ AgesAreTrue /\ OnlyOwnBuilds /\ PollsOwnBuild /\ PollFollows
  BY DEF Init, RetryHasTime, AgesAreTrue, OnlyOwnBuilds, PollsOwnBuild, PollFollows, Known
<1>. QED
  BY <1>4, <1>5 DEF WaitInv

LEMMA WaitInvStays == WaitInv /\ [Next]_vars => WaitInv'
<1>. SUFFICES ASSUME WaitInv, [Next]_vars
              PROVE  WaitInv'
  OBVIOUS
<1>1. CASE UNCHANGED vars
  BY <1>1 DEF vars, WaitInv, TypeOK, RetryHasTime, AgesAreTrue, OnlyOwnBuilds, PollsOwnBuild,
              PollFollows, Known
<1>2. CASE StartBuild \/ FinishBuild \/ Rebuild \/ Disable \/ Deletion \/ Tick
  BY <1>2, StartBuildKeeps, FinishBuildKeeps, RebuildKeeps, DisableKeeps, DeletionKeeps, TickKeeps
<1>3. CASE Polling
  BY <1>3, ReadWatcherKeeps, GetRememberedKeeps, ListBuildsKeeps, RereadKeeps, FindArtifactKeeps,
     ClaimKeeps DEF Polling
<1>4. CASE BeginPoll \/ Interrupted \/ Retry
  BY <1>4, BeginPollKeeps, InterruptedKeeps, RetryKeeps
<1>. QED
  BY <1>1, <1>2, <1>3, <1>4 DEF Next

LEMMA WaitInvariant == Spec => []WaitInv
BY WaitInvStarts, WaitInvStays, PTL DEF Spec

\* The types of all variables are kept; in particular a step that has failed
\* MaxFailures times in a row does not go on.
THEOREM WaitTyping == Spec => []TypeOK
<1>1. WaitInv => TypeOK
  BY DEF WaitInv
<1>. QED
  BY <1>1, WaitInvariant, PTL

\* A step only times out after its whole timeout, counted anew by a retry, for any
\* timeout and any number of retries.
THEOREM TimeoutIsWhole == Spec => []RetryHasTime
<1>1. WaitInv => RetryHasTime
  BY DEF WaitInv
<1>. QED
  BY <1>1, WaitInvariant, PTL

\* The build a step waits for or succeeded with is one of the watcher's, whoever
\* else has builds and however short the list is.
THEOREM BuildIsOurs == Spec => []OnlyOwnBuilds
<1>1. WaitInv => OnlyOwnBuilds
  BY DEF WaitInv
<1>. QED
  BY <1>1, WaitInvariant, PTL

\* A step that found a build stays with it for as long as forge has its row.
THEOREM BuildIsFollowed == Spec => FollowsBuild
<1>1. ASSUME WaitInv, Next
      PROVE  \A b \in Builds : step.build = b /\ builds[b] \in Rows => step'.build = b
  <2>. SUFFICES ASSUME step.build \in Builds, builds[step.build] \in Rows
                PROVE  step'.build = step.build
    OBVIOUS
  <2>1. step.build # NoBuild /\ builds[step.build] # "deleted" /\ step \in Step
    BY <1>1, WaitBuildAssumption DEF Rows, WaitInv, TypeOK
  <2>2. poll # Idle /\ poll.at # "watcher" => poll.build = step.build
    BY <1>1, <2>1 DEF WaitInv, PollFollows
  <2>3. CASE Polling
    <3>1. \/ UNCHANGED step
          \/ \E phase, message, failures : Record(phase, message, step.build, failures)
      <4>1. CASE ReadWatcher
        BY <4>1 DEF ReadWatcher, Fail, Goto
      <4>2. CASE GetRemembered \/ Reread \/ FindArtifact \/ Claim
        BY <2>2, <4>2 DEF GetRemembered, Reread, FindArtifact, Claim, At, Judge, Wait, Fail, Goto
      <4>3. CASE ListBuilds
        BY <4>3 DEF ListBuilds, Wait, Goto
      <4>. QED
        BY <2>3, <4>1, <4>2, <4>3 DEF Polling
    <3>. QED
      BY <3>1 DEF Record
  <2>4. CASE Interrupted
    <3>1. \/ UNCHANGED step
          \/ \E phase, message, failures : Record(phase, message, step.build, failures)
      BY <2>4 DEF Interrupted, Fail
    <3>. QED
      BY <3>1 DEF Record
  <2>5. CASE Retry \/ Tick
    <3>1. step' \in {step, [step EXCEPT !.age = Later(@)], Reset}
      BY <2>5 DEF Retry, Tick
    <3>. QED
      BY <2>1, <3>1 DEF Reset, Step
  <2>6. CASE StartBuild \/ FinishBuild \/ Rebuild \/ Disable \/ Deletion \/ BeginPoll
    BY <2>6 DEF StartBuild, FinishBuild, Rebuild, Disable, Deletion, BeginPoll, Untouched
  <2>. QED
    BY <1>1, <2>3, <2>4, <2>5, <2>6 DEF Next
<1>2. WaitInv /\ [Next]_vars =>
        [\A b \in Builds : step.build = b /\ builds[b] \in Rows => step'.build = b]_vars
  BY <1>1
<1>. QED
  BY <1>2, WaitInvariant, PTL DEF Spec, FollowsBuild
=============================================================================
