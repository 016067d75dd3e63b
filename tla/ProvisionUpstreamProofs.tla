---------------------- MODULE ProvisionUpstreamProofs ----------------------
(***************************************************************************)
(* What is proved of the resources that Provision makes and deletes, on    *)
(* top of what ProvisionProofs shows of the ledger.                        *)
(***************************************************************************)
EXTENDS ProvisionProofs

-----------------------------------------------------------------------------
(* What people made is left alone. *)

\* p is about to delete the resource k upstream, or has it on the list of its sweep.
MeansToDelete(p, k) ==
    \/ At(p, "delete") /\ task[p].item.key = k
    \/ /\ IsDeleting(p) /\ task[p].sweep
       /\ \E i \in task[p].todo : i.key = k /\ i.entry.managed

\* What the wizard may delete was not made by people, and neither was what somebody means
\* to delete, nor what a step is about to record as absent: it makes it itself.
\* Artifacts and tags are never theirs.
PeopleInv ==
    /\ \A k \in Keys :
          \/ ~MadeBy(k, "people")
          \/ KindOf[k] = "named" /\ (ledger[k] # NoEntry => ~ledger[k].managed)
    /\ \A r \in Runs :
          At(r, "record") /\ task[r].found = Absent => ~MadeBy(KeyOf[task[r].step], "people")
    /\ \A p \in Procs, k \in Keys : MeansToDelete(p, k) => ~MadeBy(k, "people")

\* A rollback or sweep makes up its mind to delete a resource by an entry that says the
\* wizard may.
LEMMA WhoMeansToDelete ==
    ASSUME TypeInv, [Next]_vars, NEW p \in Procs, NEW k \in Keys, MeansToDelete(p, k)'
    PROVE  MeansToDelete(p, k) \/ (ledger[k] # NoEntry /\ ledger[k].managed)
<1>1. CASE task'[p] = task[p]
  BY <1>1 DEF MeansToDelete, IsDeleting, At
<1>2. CASE task'[p] # task[p]
  <2>1. task'[p] # Idle /\ task'[p].at \in {"next", "delete", "finish"} /\ TypeOK
    BY DEF MeansToDelete, IsDeleting, At, TypeInv
  <2>2. task'[p] \notin Applying
    BY <2>1 DEF Applying, EnsureAt
  <2>3. Undo(p) \/ ItemFails(p) \/ ListFails(p) \/ \E i : ReleaseFails(p, i)
    BY <1>2, <2>1, <2>2, WhoMoves
  <2>4. CASE List(p)
    <3>1. task'[p].at = "next" /\ task'[p].sweep = task[p].sweep
          /\ (task[p].sweep => task'[p].todo = {[key |-> l, step |-> NoStep, entry |-> ledger[l]] :
                                                  l \in {m \in Keys : Abandoned(ledger[m])}})
      BY <2>4, ListMoves
    <3>2. PICK i \in task'[p].todo : task[p].sweep /\ i.key = k /\ i.entry.managed
      BY <3>1 DEF MeansToDelete, At
    <3>. QED
      BY <3>1, <3>2 DEF Abandoned
  <2>5. CASE DeleteUpstream(p) \/ Finish(p) \/ ItemFails(p)
    <3>1. /\ IsDeleting(p) /\ task'[p].at # "delete" /\ task'[p].sweep = task[p].sweep
          /\ task'[p].todo = task[p].todo
      BY <2>5, DeleteUpstreamDoes, ItemGivenUp DEF IsDeleting
    <3>. QED
      BY <3>1 DEF MeansToDelete, At
  <2>6. ASSUME NEW i, SweepNext(p, i) PROVE MeansToDelete(p, k)
    <3>1. /\ i \in task[p].todo /\ task[p].sweep /\ IsDeleting(p) /\ task'[p].todo = task[p].todo \ {i}
          /\ task'[p].at = (IF i.entry.managed THEN "delete" ELSE "finish") /\ task'[p].item.key = i.key
      BY <2>6, SweepNextDoes DEF IsDeleting, At
    <3>. QED
      BY <3>1 DEF MeansToDelete, At
  <2>7. ASSUME NEW i, Release(p, i) PROVE ledger[k] # NoEntry /\ ledger[k].managed
    <3>1. At(p, "next") /\ IsNext(p, i) /\ ~task[p].sweep
      BY <2>7 DEF Release
    <3>2. task'[p].at = "delete" /\ task'[p].item.key = k
      BY <2>7, <3>1, ReleaseDoes DEF MeansToDelete, At
    <3>3. Leaves(k, i.step) /\ ledger'[k].managed /\ i.key = k
      BY <2>7, <3>2, ReleaseDoes
    <3>4. PICK e \in Entry : /\ ledger[k] # NoEntry /\ ledger' = [ledger EXCEPT ![k] = e]
                             /\ e.managed = ledger[k].managed
      BY <3>3 DEF Leaves
    <3>5. ledger'[k] = e
      BY <2>1, <3>4, LedgerChange
    <3>. QED
      BY <3>3, <3>4, <3>5
  <2>8. ASSUME NEW i, ReleaseFails(p, i) PROVE FALSE
    <3>1. ~task[p].sweep
      BY <2>8 DEF ReleaseFails
    <3>. QED
      BY <2>8, <3>1, ReleaseFailsDoes DEF MeansToDelete, At
  <2>9. ~EndSweep(p) /\ ~ListFails(p)
    <3>1. ASSUME NEW ok \in BOOLEAN, Stop(p) \/ BeginUndo(p, FALSE, ok) PROVE FALSE
      BY <2>1, <3>1, StopMoves, BeginUndoMoves
    <3>2. At(p, "next") \/ At(p, "list") => task[p].ok \in BOOLEAN
      BY UndoFacts
    <3>. QED
      BY <3>1, <3>2 DEF EndSweep, ListFails
  <2>. QED
    BY <2>3, <2>4, <2>5, <2>6, <2>7, <2>8, <2>9 DEF Undo
<1>. QED
  BY <1>1, <1>2

\* During the runs people only delete.
LEMMA PeopleOnlyLose ==
    ASSUME ~PeopleCreate, TypeInv, [Next]_vars, NEW k \in Keys, MadeBy(k, "people")'
    PROVE  MadeBy(k, "people")
<1>1. CASE upstream'[k] = upstream[k]
  BY <1>1 DEF MadeBy
<1>2. ASSUME NEW r \in Runs, SetBy(r, k) PROVE upstream[k] # Absent /\ upstream[k].maker = "people"
  BY <1>2 DEF SetBy, MadeBy
<1>3. ~PersonCreates(k)
  BY DEF PersonCreates
<1>4. CASE upstream'[k] # upstream[k]
  BY <1>2, <1>3, <1>4, ResourceSteps DEF MadeBy
<1>. QED
  BY <1>1, <1>4

\* An entry becomes the wizard's to delete only when a step records that it makes the
\* resource, or that it claims an artifact.
LEMMA BecomesManaged ==
    ASSUME TypeInv, [Next]_vars, NEW k \in Keys, ledger'[k] # NoEntry, ledger'[k].managed,
           ledger[k] # NoEntry => ~ledger[k].managed
    PROVE  \E r \in Runs :
              /\ At(r, "record") /\ k = KeyOf[task[r].step]
              /\ task[r].found = Absent \/ KindOf[k] = "artifact"
<1>1. ledger'[k] # ledger[k]
  OBVIOUS
<1>2. \A r \in Runs : RecordNew(r) \/ RecordJoin(r) => At(r, "record")
  BY DEF RecordNew, RecordJoin
<1>. QED
  BY <1>1, <1>2, EntrySteps

LEMMA PeopleStep ==
    ASSUME ~PeopleCreate, TypeInv, PeopleInv, [Next]_vars
    PROVE  PeopleInv'
<1>1. ASSUME NEW k \in Keys, MadeBy(k, "people")'
      PROVE  KindOf[k] = "named" /\ (ledger'[k] # NoEntry => ~ledger'[k].managed)
  <2>1. MadeBy(k, "people")
    BY <1>1, PeopleOnlyLose
  <2>2. KindOf[k] = "named" /\ (ledger[k] # NoEntry => ~ledger[k].managed)
    BY <2>1 DEF PeopleInv
  <2>3. SUFFICES ASSUME ledger'[k] # NoEntry, ledger'[k].managed PROVE FALSE
    BY <2>2
  <2>4. PICK r \in Runs : /\ At(r, "record") /\ k = KeyOf[task[r].step]
                          /\ task[r].found = Absent \/ KindOf[k] = "artifact"
    BY <2>2, <2>3, BecomesManaged
  <2>. QED
    BY <2>1, <2>2, <2>4 DEF PeopleInv
<1>2. ASSUME NEW r \in Runs, At(r, "record")', task'[r].found = Absent
      PROVE  ~MadeBy(KeyOf[task[r].step], "people")'
  <2>1. PICK k : k = KeyOf[task'[r].step]
    OBVIOUS
  <2>2. CASE task'[r] = task[r]
    <3>1. At(r, "record") /\ task[r].found = Absent /\ k = KeyOf[task[r].step]
      BY <1>2, <2>1, <2>2 DEF At
    <3>2. ~MadeBy(k, "people") /\ k \in Keys
      BY <3>1, EnsureFacts DEF PeopleInv, EnsureAt, Procs
    <3>. QED
      BY <2>1, <3>2, PeopleOnlyLose
  <2>3. CASE task'[r] # task[r]
    <3>1. ReadUpstream(r)
      BY <1>2, <2>3, WhoReads
    <3>0. task'[r] # Idle
      BY <1>2 DEF At
    <3>2. /\ At(r, "upstream") /\ k = KeyOf[task[r].step]
          /\ task'[r].found = IF KindOf[KeyOf[task[r].step]] = "artifact" THEN task[r].found
                                ELSE upstream[KeyOf[task[r].step]]
      BY <2>1, <3>0, <3>1, ReadUpstreamDoes
    <3>3. k \in Keys
      BY <3>2, EnsureFacts DEF EnsureAt, Procs
    <3>4. ~MadeBy(k, "people")
      <4>1. CASE KindOf[k] = "artifact"
        BY <3>3, <4>1 DEF PeopleInv
      <4>2. CASE upstream[k] = Absent
        BY <4>2 DEF MadeBy
      <4>. QED
        BY <1>2, <3>2, <4>1, <4>2
    <3>. QED
      BY <2>1, <3>3, <3>4, PeopleOnlyLose
  <2>. QED
    BY <2>2, <2>3
<1>3. ASSUME NEW p \in Procs, NEW k \in Keys, MeansToDelete(p, k)'
      PROVE  ~MadeBy(k, "people")'
  BY <1>3, WhoMeansToDelete, PeopleOnlyLose DEF PeopleInv
<1>. QED
  BY <1>1, <1>2, <1>3 DEF PeopleInv

LEMMA PeopleInit == Init => PeopleInv
BY ProvisionAssumption DEF Init, PeopleInv, MeansToDelete, IsDeleting, MadeBy, At, Procs

\* When people make nothing after the runs began, what they made stays: a resource that
\* stood before a step came is recorded as not the wizard's to delete, by the first run
\* that uses it and by all that join, and who deletes goes by such an entry, even by one
\* that a sweep listed and that somebody else has finished since
\* (wizardresource_types.go:41-42).
THEOREM PeoplesIsKept == ~PeopleCreate => (Spec => NeverDeletesPeoples)
<1>. SUFFICES ASSUME ~PeopleCreate PROVE Spec => NeverDeletesPeoples
  OBVIOUS
<1> DEFINE A == \A k \in Keys : DeletedByWizard(k) => ~MadeBy(k, "people")
<1>1. TypeInv /\ PeopleInv /\ [Next]_vars => A
  <2>. SUFFICES ASSUME TypeInv, PeopleInv, [Next]_vars, NEW k \in Keys, DeletedByWizard(k)
                PROVE  ~MadeBy(k, "people")
    OBVIOUS
  <2>1. PICK p \in Procs : DeleteUpstream(p) /\ GoesWith(k, task[p].item.key)
    BY WizardDeletes DEF DeletedByWizard, Procs
  <2>2. CASE k = task[p].item.key
    <3>1. MeansToDelete(p, k)
      BY <2>1, <2>2 DEF DeleteUpstream, MeansToDelete
    <3>. QED
      BY <3>1 DEF PeopleInv
  <2>3. CASE KindOf[k] = "tag"
    BY <2>3 DEF PeopleInv
  <2>. QED
    BY <2>1, <2>2, <2>3 DEF GoesWith
<1>2. TypeInv /\ PeopleInv /\ [Next]_vars => [A]_vars
  BY <1>1
<1>3. TypeInv /\ PeopleInv /\ [Next]_vars => TypeInv' /\ PeopleInv'
  BY PeopleStep, TypeStep
<1>. QED
  BY <1>2, <1>3, TypeInit, PeopleInit, PTL DEF Spec, NeverDeletesPeoples

-----------------------------------------------------------------------------
(* One reconcile at a time. *)

\* With one worker a run is only taken up when no other is being worked on.
OneAtATime == \A r, q \in Runs : task[r] # Idle /\ task[q] # Idle => r = q

\* A step that is on its way to be recorded has seen the entry that is there: nobody
\* else registers or releases it, and the sweeper closes only what was given up.
SeesTheEntry ==
    \A r \in Runs : At(r, "upstream") \/ At(r, "record") =>
        LET e == ledger[KeyOf[task[r].step]]
        IN  IF task[r].seen = NoEntry THEN e = NoEntry ELSE e # NoEntry /\ ~e.terminating

AloneInv == OneAtATime /\ SeesTheEntry

LEMMA StartsAlone ==
    ASSUME Workers = 1, Cardinality(Busy) < Workers
    PROVE  \A r \in Runs : task[r] = Idle
<1>1. IsFiniteSet(Busy)
  BY ProvisionAssumption, FS_Subset DEF Busy
<1>2. Cardinality(Busy) = 0
  BY <1>1, FS_CardinalityType
<1>3. Busy = {}
  BY <1>1, <1>2, FS_EmptySet
<1>. QED
  BY <1>3 DEF Busy

\* Every move of a run but its first leaves a task it had.
LEMMA WhoBegins ==
    ASSUME TypeInv, [Next]_vars, NEW r \in Runs, task[r] = Idle, task'[r] # Idle
    PROVE  Cardinality(Busy) < Workers /\ \A q \in Runs \ {r} : task'[q] = task[q]
<1>1. r \in Procs /\ r # Sweeper /\ TypeOK
  BY ProvisionAssumption DEF Procs, TypeInv
<1>2. \A at : ~At(r, at)
  BY DEF At
<1>3. OnlyMoves(r) => \A q \in Runs \ {r} : task'[q] = task[q]
  BY <1>1 DEF OnlyMoves, TypeOK, Procs
<1>4. ASSUME Ensure(r) PROVE \E t \in Steps : StartEnsure(r, t)
  BY <1>2, <1>4 DEF Ensure, ReadEntry, ReadUpstream, RecordNew, RecordJoin, Create, Effect, RecordId,
     Repoint, Succeed
<1>5. ~Undo(r) /\ ~ItemFails(r) /\ ~ListFails(r) /\ \A i : ~ReleaseFails(r, i)
  BY <1>2 DEF Undo, List, DeleteUpstream, Finish, EndSweep, SweepNext, Release, ItemFails, ListFails,
     ReleaseFails
<1>6. CASE \E t \in Steps : StartEnsure(r, t)
  BY <1>3, <1>6, StartEnsureDoes DEF StartEnsure
<1>7. CASE StartRollback(r)
  BY <1>1, <1>3, <1>7, BeginUndoMoves DEF StartRollback
<1>. QED
  BY <1>1, <1>4, <1>5, <1>6, <1>7, WhoMoves

LEMMA OneAtATimeStep ==
    ASSUME Workers = 1, TypeInv, OneAtATime, [Next]_vars
    PROVE  OneAtATime'
<1>. SUFFICES ASSUME NEW r \in Runs, NEW q \in Runs \ {r}, task'[r] # Idle, task'[q] # Idle
              PROVE  FALSE
  BY DEF OneAtATime
<1>1. task[r] = Idle \/ task[q] = Idle
  BY DEF OneAtATime
<1>2. ASSUME NEW a \in Runs, NEW b \in Runs \ {a}, task[a] = Idle, task'[a] # Idle, task'[b] # Idle
      PROVE  FALSE
  BY <1>2, WhoBegins, StartsAlone
<1>. QED
  BY <1>1, <1>2

LEMMA SeesTheEntryStep ==
    ASSUME TypeInv, ProvisionInv, AloneInv, [Next]_vars
    PROVE  SeesTheEntry'
<1>. SUFFICES ASSUME NEW r \in Runs, NEW at \in {"upstream", "record"}, At(r, at)'
              PROVE  IF task'[r].seen = NoEntry THEN ledger'[KeyOf[task'[r].step]] = NoEntry
                     ELSE /\ ledger'[KeyOf[task'[r].step]] # NoEntry
                          /\ ~ledger'[KeyOf[task'[r].step]].terminating
  BY DEF SeesTheEntry
<1>1. r \in Procs /\ r # Sweeper /\ TypeOK
  BY ProvisionAssumption DEF Procs, TypeInv
<1>2. CASE task'[r] # task[r] /\ at = "upstream"
  <2>1. ReadEntry(r)
    BY <1>2, WhoReads
  <2>. QED
    BY <1>2, <2>1, ReadEntryDoes DEF At, ReadEntry
<1>3. CASE task'[r] # task[r] /\ at = "record"
  <2>1. ReadUpstream(r) /\ ledger' = ledger
    BY <1>3, WhoReads DEF ReadUpstream
  <2>2. At(r, "upstream") /\ task'[r].step = task[r].step /\ task'[r].seen = task[r].seen
    BY <2>1, ReadUpstreamDoes DEF At
  <2>. QED
    BY <2>1, <2>2 DEF AloneInv, SeesTheEntry
<1>4. CASE task'[r] = task[r]
  <2>1. At(r, at) /\ task[r] # Idle /\ task[r].at = at
    BY <1>4 DEF At
  <2>2. PICK k \in Keys : k = KeyOf[task[r].step]
    BY <1>1, <2>1, EnsureFacts DEF EnsureAt
  <2>3. IF task[r].seen = NoEntry THEN ledger[k] = NoEntry ELSE ledger[k] # NoEntry /\ ~ledger[k].terminating
    BY <2>1, <2>2 DEF AloneInv, SeesTheEntry
  <2>4. SUFFICES ASSUME ledger'[k] # ledger[k] PROVE FALSE
    BY <1>4, <2>2, <2>3
  <2>5. ASSUME NEW q \in Runs, RecordNew(q) \/ RecordJoin(q) \/ RecordId(q) PROVE FALSE
    <3>1. At(q, "record") \/ At(q, "id")
      BY <2>5 DEF RecordNew, RecordJoin, RecordId
    <3>2. q = r /\ task[r].at # "id"
      BY <2>1, <3>1 DEF AloneInv, OneAtATime, At
    <3>3. task'[r] # task[r]
      <4>1. task[r] \in Applying
        BY <1>1, <2>1, EnsureFacts DEF EnsureAt
      <4>2. Recorded(r) => task'[r] # task[r]
        BY <1>1, <2>1, <3>1, <3>2, RecordedGoes DEF At
      <4>3. Retry(r) \/ Stop(r) => task'[r] # task[r]
        BY <1>1, <2>1, <4>1, RetryMoves, StopMoves
      <4>. QED
        BY <2>5, <3>1, <3>2, <4>2, <4>3, RecordNewDoes, RecordJoinDoes DEF RecordId, At
    <3>. QED
      BY <1>4, <3>3
  <2>6. ASSUME NEW p \in Procs, Finish(p), k = task[p].item.key PROVE FALSE
    <3>1. k \in Claims(p)
      BY <2>6 DEF Finish, Claims
    <3>2. Abandoned(ledger[k])
      BY <3>1, ClaimedIsAbandoned DEF ProvisionInv, Sound
    <3>. QED
      BY <2>3, <3>2 DEF Abandoned
  <2>7. ASSUME NEW p \in Procs, NEW i, Release(p, i) \/ ReleaseFails(p, i) PROVE FALSE
    <3>1. At(p, "next") /\ ~task[p].sweep
      BY <2>7 DEF Release, ReleaseFails
    <3>2. p # Sweeper
      BY <3>1, UndoFacts
    <3>. QED
      BY <2>1, <3>1, <3>2 DEF AloneInv, OneAtATime, At, Procs
  <2>. QED
    BY <2>4, <2>5, <2>6, <2>7, EntrySteps
<1>. QED
  BY <1>2, <1>3, <1>4

LEMMA AloneInit == Init => AloneInv
BY DEF Init, AloneInv, OneAtATime, SeesTheEntry, At

-----------------------------------------------------------------------------
(* What the wizard made is on record. *)

\* Artifacts are forge's, and none is created; a tag stands on the artifact it is set
\* on, has its ID, and only tags are re-pointed.
KindsInv ==
    /\ \A k \in Keys : KindOf[k] = "artifact" => ~MadeBy(k, "wizard")
    /\ \A k \in Keys : KindOf[k] = "tag" /\ upstream[k] # Absent =>
          upstream[ArtifactOf[k]] # Absent /\ upstream[ArtifactOf[k]].id = upstream[k].id
    /\ \A r \in Runs : task[r] # Idle /\ task[r].at \in EnsureAt =>
          /\ KindOf[KeyOf[task[r].step]] = "artifact" => task[r].at \notin {"create", "id"}
          /\ task[r].at = "repoint" => KindOf[KeyOf[task[r].step]] = "tag"

LEMMA KindsInit == Init => KindsInv
<1>. SUFFICES ASSUME Init PROVE KindsInv
  OBVIOUS
<1>1. \A k \in Keys : KindOf[k] # "named" => upstream[k] = Absent
  BY DEF Init
<1>2. \A r \in Runs : task[r] = Idle
  BY DEF Init
<1>. QED
  BY <1>1, <1>2 DEF KindsInv, MadeBy

LEMMA TaskKinds ==
    ASSUME TypeInv, KindsInv, [Next]_vars, NEW r \in Runs, task'[r] # Idle, task'[r].at \in EnsureAt
    PROVE  /\ KindOf[KeyOf[task'[r].step]] = "artifact" => task'[r].at \notin {"create", "id"}
           /\ task'[r].at = "repoint" => KindOf[KeyOf[task'[r].step]] = "tag"
<1>1. r \in Procs /\ TypeOK
  BY DEF Procs, TypeInv
<1>2. CASE task'[r] = task[r]
  BY <1>2 DEF KindsInv
<1>3. CASE task'[r] # task[r]
  <2>1. task'[r] \notin Undoing
    BY DEF Undoing, EnsureAt
  <2>2. Ensure(r)
    BY <1>1, <1>3, <2>1, WhoMoves
  <2>3. \A from \in EnsureAt : At(r, from) =>
           /\ task[r] # Idle /\ task[r] \in Applying /\ task[r].at = from
           /\ KindOf[KeyOf[task[r].step]] = "artifact" => task[r].found # Absent
    BY <1>1, EnsureFacts
  <2>4. CASE \E t \in Steps : StartEnsure(r, t)
    BY <2>4, StartEnsureDoes
  <2>5. CASE ReadEntry(r)
    BY <2>3, <2>5, ReadEntryDoes DEF EnsureAt
  <2>6. CASE ReadUpstream(r)
    BY <2>3, <2>6, ReadUpstreamDoes DEF EnsureAt
  <2>7. ASSUME NEW from \in EnsureAt, At(r, from), Retry(r) \/ Stop(r)
        PROVE  task'[r].at \notin {"create", "id", "repoint"}
    BY <1>1, <2>3, <2>7, RetryMoves, StopMoves
  <2>8. CASE At(r, "record") /\ Recorded(r)
    BY <1>1, <2>3, <2>8, RecordedGoes DEF EnsureAt
  <2>9. ASSUME NEW from \in EnsureAt, At(r, from), NEW to \in EnsureAt \ {"create", "id", "repoint"}, Goto(r, to)
        PROVE  task'[r].at \notin {"create", "id", "repoint"}
    BY <1>1, <2>3, <2>9, GotoEnsure
  <2>10. CASE RecordNew(r) \/ RecordJoin(r)
    BY <2>7, <2>8, <2>10 DEF RecordNew, RecordJoin, EnsureAt
  <2>11. CASE Create(r)
    <3>1. At(r, "create") /\ (Retry(r) \/ Stop(r) \/ Goto(r, "effect") \/ Goto(r, "id") \/ Goto(r, "done"))
      BY <2>11 DEF Create
    <3>2. CASE Goto(r, "id")
      <4>1. task'[r].at = "id" /\ task'[r].step = task[r].step
        BY <1>1, <2>3, <3>1, <3>2, GotoEnsure DEF EnsureAt
      <4>. QED
        BY <2>3, <3>1, <4>1 DEF KindsInv, EnsureAt
    <3>. QED
      BY <2>7, <2>9, <3>1, <3>2 DEF EnsureAt
  <2>12. CASE Effect(r) \/ RecordId(r) \/ Repoint(r) \/ Succeed(r)
    BY <2>7, <2>9, <2>12 DEF Effect, RecordId, Repoint, Succeed, EnsureAt
  <2>. QED
    BY <2>2, <2>4, <2>5, <2>6, <2>10, <2>11, <2>12 DEF Ensure
<1>. QED
  BY <1>2, <1>3

\* Whoever creates makes no artifact, and whoever re-points moves a tag.
LEMMA WhatIsSet ==
    ASSUME TypeInv, KindsInv, NEW r \in Runs
    PROVE  /\ Create(r) => KindOf[KeyOf[task[r].step]] # "artifact"
           /\ Repoint(r) => KindOf[KeyOf[task[r].step]] = "tag"
BY DEF Create, Repoint, KindsInv, At, EnsureAt

\* An artifact that stands keeps its ID until it is deleted, with its tags.
LEMMA ArtifactStands ==
    ASSUME TypeInv, KindsInv, [Next]_vars, NEW k \in Keys, KindOf[k] = "artifact", upstream[k] # Absent
    PROVE  \/ upstream'[k] # Absent /\ upstream'[k].id = upstream[k].id
           \/ upstream' = Without(k) /\ \/ \E p \in Procs : DeleteUpstream(p) /\ k = task[p].item.key
                                        \/ PersonDeletes(k)
<1>1. \A r \in Runs : ~(Create(r) /\ SetBy(r, k)) /\ ~(Repoint(r) /\ SetBy(r, k))
  BY WhatIsSet DEF SetBy
<1>2. ~PersonCreates(k) /\ ~ForgeBuilds(k)
  BY DEF PersonCreates, ForgeBuilds
<1>3. \A l : GoesWith(k, l) => k = l
  BY DEF GoesWith
<1>4. CASE upstream'[k] = upstream[k]
  BY <1>4
<1>5. CASE upstream'[k] # upstream[k]
  <2>1. CASE \E l : /\ GoesWith(k, l) /\ upstream' = Without(l)
                    /\ \/ \E p \in Procs : DeleteUpstream(p) /\ l = task[p].item.key
                       \/ l \in Keys /\ PersonDeletes(l)
    BY <1>3, <2>1
  <2>. QED
    BY <1>1, <1>2, <1>5, <2>1, MarkersAreDistinct, ResourceSteps
<1>. QED
  BY <1>4, <1>5

LEMMA KindsStep ==
    ASSUME TypeInv, KindsInv, [Next]_vars
    PROVE  KindsInv'
<1>1. \A res \in Premade : res.maker = "people"
  BY ProvisionAssumption
<1>2. ASSUME NEW k \in Keys, KindOf[k] = "artifact" PROVE ~MadeBy(k, "wizard")'
  <2>1. CASE upstream'[k] = upstream[k]
    BY <1>2, <2>1 DEF KindsInv, MadeBy
  <2>2. CASE upstream'[k] # upstream[k]
    <3>1. \A r \in Runs : ~(Create(r) /\ SetBy(r, k)) /\ ~(Repoint(r) /\ SetBy(r, k))
      BY <1>2, WhatIsSet DEF SetBy
    <3>. QED
      BY <1>1, <1>2, <2>2, <3>1, ResourceSteps DEF KindsInv, MadeBy
  <2>. QED
    BY <2>1, <2>2
<1>3. ASSUME NEW k \in Keys, KindOf[k] = "tag", upstream'[k] # Absent
      PROVE  upstream'[ArtifactOf[k]] # Absent /\ upstream'[ArtifactOf[k]].id = upstream'[k].id
  <2>1. PICK a \in Keys : a = ArtifactOf[k] /\ KindOf[a] = "artifact"
    BY <1>3, ProvisionAssumption
  <2>2. upstream[a] # Absent /\ upstream[a].id = upstream'[k].id
    <3>1. CASE upstream'[k] = upstream[k]
      BY <1>3, <2>1, <3>1 DEF KindsInv
    <3>2. ~PersonCreates(k) /\ ~ForgeBuilds(k)
      BY <1>3 DEF PersonCreates, ForgeBuilds
    <3>3. \A r \in Runs : SetBy(r, k) => upstream[a] # Absent /\ upstream[a].id = upstream'[k].id
      BY <1>3, <2>1 DEF SetBy, TargetStands
    <3>4. CASE upstream'[k] # upstream[k]
      <4>1. CASE upstream[k] # Absent /\ upstream'[k].id = upstream[k].id
        BY <1>3, <2>1, <4>1 DEF KindsInv
      <4>. QED
        BY <1>3, <3>2, <3>3, <3>4, <4>1, ResourceSteps
    <3>. QED
      BY <3>1, <3>4
  <2>3. upstream' # Without(a)
    BY <1>3, <2>1 DEF Without
  <2>. QED
    BY <2>1, <2>2, <2>3, ArtifactStands
<1>. QED
  BY <1>2, <1>3, TaskKinds DEF KindsInv

\* What is about to be closed is not there, or is not the wizard's.
DeletesFirst ==
    \A p \in Procs : At(p, "finish") /\ KindOf[task[p].item.key] # "tag" =>
        ~MadeBy(task[p].item.key, "wizard")

LeakInv == KindsInv /\ NothingLeaks /\ DeletesFirst

\* The wizard makes only what a step is recorded as a user of.
LEMMA WizardMakes ==
    ASSUME TypeInv, ProvisionInv, KindsInv, [Next]_vars,
           NEW k \in Keys, KindOf[k] # "tag", MadeBy(k, "wizard")', ~MadeBy(k, "wizard")
    PROVE  /\ ledger' = ledger /\ ledger[k] # NoEntry /\ ledger[k].managed
           /\ \E t \in Steps : k = KeyOf[t] /\ IsRecorded(t)
<1>1. \A res \in Premade : res.maker = "people"
  BY ProvisionAssumption
<1>2. upstream'[k] # upstream[k]
  BY DEF MadeBy
<1>3. ledger' = ledger
  BY <1>2, UpstreamSteps
<1>4. \A r \in Runs : ~(Repoint(r) /\ SetBy(r, k))
  BY WhatIsSet DEF SetBy
<1>5. PICK r \in Runs : k = KeyOf[task[r].step] /\ Create(r)
  BY <1>1, <1>2, <1>4, ResourceSteps DEF MadeBy, SetBy
<1>6. At(r, "create")
  BY <1>5 DEF Create
<1>7. task[r].step \in Steps /\ IsRecorded(task[r].step) /\ ledger[k].managed
  <2>1. task[r].step \in Steps /\ RecordsFirst(r)
    BY <1>6, EnsureFacts DEF ProvisionInv, Sound, EnsureAt, Procs
  <2>. QED
    BY <1>5, <1>6, <2>1 DEF RecordsFirst, At
<1>. QED
  BY <1>3, <1>5, <1>7 DEF IsRecorded

\* Only the end of a deletion, or the release of what is not the wizard's, closes an entry.
LEMMA WhoFinishes ==
    ASSUME TypeInv, ProvisionInv, [Next]_vars, NEW p \in Procs, task'[p] # task[p], At(p, "finish")'
    PROVE  /\ task'[p].item.key \in Keys
           /\ \/ /\ DeleteUpstream(p) /\ Deletable(task[p].item.key, task[p].item.entry)
                 /\ task'[p].item = task[p].item
                 /\ \/ upstream' = Without(task[p].item.key)
                    \/ upstream' = upstream /\ ~Hits(task[p].item.key, task[p].item.entry)
              \/ /\ upstream' = upstream /\ ledger[task'[p].item.key] # NoEntry
                 /\ ~ledger[task'[p].item.key].managed
<1>1. task'[p] # Idle /\ task'[p].at = "finish" /\ TypeOK
  BY DEF At, TypeInv
<1>2. task'[p] \notin Applying
  BY <1>1 DEF Applying, EnsureAt
<1>3. Undo(p) \/ ItemFails(p) \/ ListFails(p) \/ \E i : ReleaseFails(p, i)
  BY <1>1, <1>2, WhoMoves
<1>4. ~List(p) /\ ~Finish(p) /\ ~ItemFails(p) /\ \A i : ~ReleaseFails(p, i)
  BY <1>1, ListMoves, ItemGivenUp, ReleaseFailsDoes
<1>5. ~EndSweep(p) /\ ~ListFails(p)
  <2>1. ASSUME NEW ok \in BOOLEAN, Stop(p) \/ BeginUndo(p, FALSE, ok) PROVE FALSE
    BY <1>1, <2>1, StopMoves, BeginUndoMoves
  <2>2. At(p, "next") \/ At(p, "list") => task[p].ok \in BOOLEAN
    BY UndoFacts
  <2>. QED
    BY <2>1, <2>2 DEF EndSweep, ListFails
<1>6. CASE DeleteUpstream(p)
  <2>1. task[p].item.key \in Keys
    BY <1>6, DeletedIsClaimed
  <2>. QED
    BY <1>1, <1>6, <2>1, DeleteUpstreamDoes
<1>7. ASSUME NEW i, SweepNext(p, i)
      PROVE  /\ task'[p].item.key \in Keys /\ upstream' = upstream
             /\ ledger[task'[p].item.key] # NoEntry /\ ~ledger[task'[p].item.key].managed
  <2>1. /\ i \in task[p].todo /\ i \in Item /\ task'[p].item.key = i.key
        /\ task'[p].at = (IF i.entry.managed THEN "delete" ELSE "finish")
        /\ task[p] # Idle /\ task[p].sweep /\ task[p].at = "next"
    BY <1>7, SweepNextDoes
  <2>2. i.entry = ledger[i.key] /\ Abandoned(i.entry)
    BY <2>1 DEF ProvisionInv, Sound, KnowsItsClaims, IsDeleting, At
  <2>. QED
    BY <1>1, <1>7, <2>1, <2>2 DEF Item, Abandoned, SweepNext
<1>8. ASSUME NEW i, Release(p, i)
      PROVE  /\ task'[p].item.key \in Keys /\ upstream' = upstream
             /\ ledger[task'[p].item.key] # NoEntry /\ ~ledger[task'[p].item.key].managed
  <2>1. At(p, "next") /\ IsNext(p, i)
    BY <1>8 DEF Release
  <2>2. i.key \in Keys
    BY <2>1, NextItem
  <2>3. Leaves(i.key, i.step) /\ ~ledger'[i.key].managed /\ task'[p].item.key = i.key
    BY <1>1, <1>8, ReleaseDoes
  <2>4. PICK e \in Entry : ledger' = [ledger EXCEPT ![i.key] = e] /\ e.managed = ledger[i.key].managed
    BY <2>3 DEF Leaves
  <2>5. ledger'[i.key] = e
    BY <1>1, <2>2, <2>4, LedgerChange
  <2>. QED
    BY <1>8, <2>2, <2>3, <2>4, <2>5 DEF Leaves, Release
<1>. QED
  BY <1>3, <1>4, <1>5, <1>6, <1>7, <1>8 DEF Undo

LEMMA LeakStep ==
    ASSUME TypeInv, ProvisionInv, LeakInv, [Next]_vars
    PROVE  LeakInv'
<1>1. KindsInv /\ KindsInv' /\ TypeOK
  BY KindsStep DEF LeakInv, TypeInv
<1>2. ASSUME NEW k \in Keys, KindOf[k] # "tag", MadeBy(k, "wizard")'
      PROVE  ledger'[k] # NoEntry /\ ledger'[k].managed
  <2>1. CASE ~MadeBy(k, "wizard")
    BY <1>1, <1>2, <2>1, WizardMakes
  <2>2. CASE MadeBy(k, "wizard")
    <3>1. ledger[k] # NoEntry /\ ledger[k].managed
      BY <1>2, <2>2 DEF LeakInv, NothingLeaks
    <3>2. ASSUME NEW p \in Procs, Finish(p) PROVE k # task[p].item.key
      BY <1>2, <2>2, <3>2 DEF Finish, LeakInv, DeletesFirst
    <3>3. CASE ledger'[k] # ledger[k]
      BY <3>1, <3>2, <3>3, MarkersAreDistinct, EntrySteps
    <3>. QED
      BY <3>1, <3>3
  <2>. QED
    BY <2>1, <2>2
<1>3. ASSUME NEW p \in Procs, At(p, "finish")', KindOf[task'[p].item.key] # "tag"
      PROVE  ~MadeBy(task[p].item.key, "wizard")'
  <2>1. PICK k : k = task'[p].item.key
    OBVIOUS
  <2>2. CASE task'[p] = task[p]
    <3>1. At(p, "finish") /\ k = task[p].item.key
      BY <1>3, <2>1, <2>2 DEF At
    <3>2. k \in Claims(p)
      BY <3>1 DEF Claims
    <3>3. k \in Keys /\ Abandoned(ledger[k]) /\ ~MadeBy(k, "wizard")
      BY <1>3, <2>1, <3>1, <3>2, ClaimedIsAbandoned DEF LeakInv, DeletesFirst, ProvisionInv, Sound
    <3>4. ~\E t \in Steps : k = KeyOf[t] /\ IsRecorded(t)
      BY <3>3 DEF Abandoned, IsRecorded
    <3>5. ~MadeBy(k, "wizard")'
      BY <1>1, <1>3, <2>1, <3>3, <3>4, WizardMakes
    <3>. QED
      BY <2>1, <3>5
  <2>3. CASE task'[p] # task[p]
    <3>1. k \in Keys
      BY <1>3, <2>1, <2>3, WhoFinishes
    <3>2. CASE upstream' = upstream /\ ledger[k] # NoEntry /\ ~ledger[k].managed
      BY <1>3, <2>1, <3>1, <3>2 DEF LeakInv, NothingLeaks, MadeBy
    <3>3. CASE DeleteUpstream(p) /\ task'[p].item = task[p].item
      <4>1. k = task[p].item.key /\ task[p].item.entry = ledger[k]
        BY <2>1, <3>3, DeletedIsClaimed
      <4>2. CASE upstream' = Without(k)
        BY <2>1, <3>1, <4>2 DEF MadeBy, Without
      <4>3. CASE ~Hits(k, ledger[k]) /\ upstream' = upstream
        <5>1. KindOf[k] = "artifact" => ~MadeBy(k, "wizard")
          BY <1>1, <3>1 DEF KindsInv
        <5>2. KindOf[k] = "named" => ~MadeBy(k, "wizard")
          BY <4>3 DEF Hits, MadeBy
        <5>3. KindOf[k] \in {"named", "artifact"}
          BY <1>3, <2>1, <3>1, ProvisionAssumption
        <5>. QED
          BY <2>1, <4>3, <5>1, <5>2, <5>3 DEF MadeBy
      <4>. QED
        BY <1>3, <3>3, <4>1, <4>2, <4>3, DeleteUpstreamDoes DEF At
    <3>. QED
      BY <1>3, <2>1, <2>3, <3>2, <3>3, WhoFinishes
  <2>. QED
    BY <2>2, <2>3
<1>. QED
  BY <1>1, <1>2, <1>3 DEF LeakInv, NothingLeaks, DeletesFirst

LEMMA LeakInit == Init => LeakInv
<1>. SUFFICES ASSUME Init PROVE LeakInv
  OBVIOUS
<1>1. NothingLeaks /\ DeletesFirst
  BY ProvisionAssumption DEF Init, NothingLeaks, DeletesFirst, MadeBy, At, Procs
<1>. QED
  BY <1>1, KindsInit DEF LeakInv

\* What the wizard made, tags aside, is in the ledger as its own to delete from before it
\* is there until after it is gone, through every lost answer, crash and rollback and with
\* any number of workers (ensure.go:50-53).  A tag may outlive its entry (README).
THEOREM NothingIsLeaked == Orderly => (Spec => []NothingLeaks)
<1>. SUFFICES ASSUME Orderly PROVE Spec => []NothingLeaks
  OBVIOUS
<1>1. TypeInv /\ ProvisionInv /\ LeakInv /\ [Next]_vars => LeakInv'
  BY LeakStep
<1>2. LeakInv => NothingLeaks
  BY DEF LeakInv
<1>. QED
  BY <1>1, <1>2, LeakInit, ProvisionIsSound, PTL DEF Spec

-----------------------------------------------------------------------------
(* What is left when runs are rolled back. *)

\* An entry lists steps that use its resource.
ListsItsUsers == \A k \in Keys : ledger[k] # NoEntry => \A t \in ledger[k].refs : KeyOf[t] = k

\* The ledger lists no step of a run that counts as rolled back as a user.
GoneHoldsNothing == \A t \in Steps : mode[RunOf[t]] = "gone" => ~IsRecorded(t)

\* The rollback of r is not over before the abandoned entry of k is gone: it is to begin
\* anew, something in it has failed, it is about to list k, or it works on k.
Owes(r, k) ==
    /\ mode[r] = "undoing"
    /\ \/ task[r] = Idle
       \/ ~task[r].ok
       \/ task[r].sweep /\ task[r].at = "list"
       \/ k \in Claims(r)

\* Every abandoned entry is owed by a run that used it.
SomebodyOwes ==
    \A k \in Keys : Abandoned(ledger[k]) =>
        \E t \in Steps : KeyOf[t] = k /\ Owes(RunOf[t], k)

LEMMA ListsItsUsersStep ==
    ASSUME TypeInv, ProvisionInv, ListsItsUsers, [Next]_vars
    PROVE  ListsItsUsers'
<1>1. TypeOK /\ \A t \in Steps : KeyOf[t] \in Keys
  BY ProvisionAssumption DEF TypeInv
<1>2. ASSUME NEW t \in Steps, NEW e \in Entry, ledger' = [ledger EXCEPT ![KeyOf[t]] = e],
             e.refs \subseteq {t} \cup (IF ledger[KeyOf[t]] = NoEntry THEN {} ELSE ledger[KeyOf[t]].refs)
      PROVE  ListsItsUsers'
  <2>1. ledger'[KeyOf[t]] = e /\ \A l \in Keys \ {KeyOf[t]} : ledger'[l] = ledger[l]
    BY <1>1, <1>2, LedgerChange
  <2>. QED
    BY <1>1, <1>2, <2>1 DEF ListsItsUsers
<1>3. CASE ledger' = ledger
  BY <1>3 DEF ListsItsUsers
<1>4. ASSUME NEW t \in Steps, NEW m \in BOOLEAN, Opens(t, m) \/ Joins(t, m) PROVE ListsItsUsers'
  BY <1>2, <1>4 DEF Opens, Joins
<1>5. ASSUME NEW t \in Steps, Leaves(KeyOf[t], t) PROVE ListsItsUsers'
  BY <1>2, <1>5 DEF Leaves
<1>6. ASSUME NEW k \in Keys, Closes(k) PROVE ListsItsUsers'
  BY <1>1, <1>6, LedgerChange DEF Closes, ListsItsUsers
<1>. QED
  BY <1>3, <1>4, <1>5, <1>6, NextIsEntryStep DEF EntryStep

LEMMA AsksStay == [Next]_vars => asks' = asks
<1>. SUFFICES ASSUME [Next]_vars PROVE asks' = asks
  OBVIOUS
<1>1. ASSUME NEW p, Undo(p) PROVE asks' = asks
  BY <1>1 DEF Undo, List, DeleteUpstream, Finish, EndSweep, SweepNext, Release, outside, given
<1>2. ASSUME NEW r \in Runs, Ensure(r) PROVE asks' = asks
  BY <1>2 DEF Ensure, StartEnsure, ReadEntry, ReadUpstream, RecordNew, RecordJoin, Create, Effect,
     RecordId, Repoint, Succeed, outside, given
<1>3. ASSUME NEW r \in Runs, Rollback(r) \/ RequestRollback(r) PROVE asks' = asks
  BY <1>1, <1>3 DEF Rollback, StartRollback, EndRollback, RequestRollback, outside, given
<1>4. Sweep => asks' = asks
  BY <1>1 DEF Sweep, StartSweep, outside, given
<1>5. Faults => asks' = asks
  BY DEF Faults, EnsureFails, ItemFails, ListFails, ReleaseFails, Crash, given
<1>6. UNCHANGED vars \/ EditConfig => asks' = asks
  BY DEF vars, EditConfig
<1>7. ASSUME NEW k \in Keys, PersonCreates(k) \/ PersonDeletes(k) \/ ForgeBuilds(k) PROVE asks' = asks
  BY <1>7 DEF PersonCreates, PersonDeletes, ForgeBuilds
<1>. QED
  BY <1>2, <1>3, <1>4, <1>5, <1>6, <1>7 DEF Next

\* While nothing has failed, or when no request fails, a rollback that releases has all it
\* still holds on its list.
ListsAll(p) ==
    IsDeleting(p) /\ ~task[p].sweep /\ (task[p].ok \/ MaxFaults(asks) = 0) =>
        \A t \in Steps : RunOf[t] = p /\ IsRecorded(t) =>
            \E i \in task[p].todo : i.step = t /\ i.key = KeyOf[t]

\* A step gets onto the record while its run has not begun to roll back.
LEMMA WhoRecords ==
    ASSUME TypeInv, [Next]_vars, NEW t \in Steps, ~IsRecorded(t), IsRecorded(t)'
    PROVE  /\ mode[RunOf[t]] \in {"apply", "undo"} /\ mode' = mode
           /\ \E r \in Runs : (RecordNew(r) \/ RecordJoin(r) \/ RecordId(r)) /\ t = task[r].step
<1>1. TypeOK /\ KeyOf[t] \in Keys /\ ledger' # ledger
  BY ProvisionAssumption DEF TypeInv, IsRecorded
<1>2. ASSUME NEW p \in Procs, Finish(p) PROVE FALSE
  BY <1>1, <1>2 DEF Finish, IsRecorded, TypeOK
<1>3. ASSUME NEW p \in Procs, NEW i, Release(p, i) \/ ReleaseFails(p, i) PROVE FALSE
  <2>1. Leaves(i.key, i.step)
    BY <1>1, <1>3, ReleaseDoes, ReleaseFailsDoes
  <2>2. PICK e \in Entry : /\ ledger[i.key] # NoEntry /\ ledger' = [ledger EXCEPT ![i.key] = e]
                           /\ e.refs = ledger[i.key].refs \ {i.step}
    BY <2>1 DEF Leaves
  <2>. QED
    BY <1>1, <2>2 DEF IsRecorded, TypeOK
<1>4. PICK r \in Runs : RecordNew(r) \/ RecordJoin(r) \/ RecordId(r)
  BY <1>1, <1>2, <1>3, LedgerSteps
<1>5. PICK s : s = task[r].step
  OBVIOUS
<1>6. s \in Steps /\ mode[RunOf[s]] \in {"apply", "undo"}
  <2>1. r \in Procs /\ (At(r, "record") \/ At(r, "id"))
    BY <1>4 DEF RecordNew, RecordJoin, RecordId, Procs
  <2>. QED
    BY <1>5, <2>1, EnsureFacts DEF EnsureAt
<1>7. PICK m : Opens(s, m) \/ Joins(s, m)
  BY <1>1, <1>4, <1>5, RecordNewDoes, RecordJoinDoes, RecordIdDoes
<1>8. s = t
  <2>1. PICK e \in Entry : /\ ledger' = [ledger EXCEPT ![KeyOf[s]] = e]
                           /\ e.refs \subseteq {s} \cup (IF ledger[KeyOf[s]] = NoEntry THEN {}
                                                         ELSE ledger[KeyOf[s]].refs)
    BY <1>7 DEF Opens, Joins
  <2>. QED
    BY <1>1, <1>6, <2>1 DEF IsRecorded, TypeOK
<1>. QED
  BY <1>4, <1>5, <1>6, <1>8 DEF RecordNew, RecordJoin, RecordId

\* The list of a rollback is made of all it holds, and a reference leaves it only with
\* its release.
LEMMA ListsAllStep ==
    ASSUME TypeInv, [Next]_vars, NEW p \in Runs, ListsAll(p)
    PROVE  ListsAll(p)'
<1>. SUFFICES ASSUME IsDeleting(p)', ~task'[p].sweep, task'[p].ok \/ MaxFaults(asks) = 0,
                     NEW t \in Steps, RunOf[t] = p, IsRecorded(t)'
              PROVE  \E i \in task'[p].todo : i.step = t /\ i.key = KeyOf[t]
  BY AsksStay DEF ListsAll
<1>1. p \in Procs /\ TypeOK /\ KeyOf[t] \in Keys
  BY ProvisionAssumption DEF Procs, TypeInv
<1>2. ASSUME NEW at \in {"list", "next", "delete", "finish"}, At(p, at) PROVE IsRecorded(t)
  <2>1. mode[p] = "undoing"
    BY <1>1, <1>2, UndoFacts, ProvisionAssumption
  <2>. QED
    BY <2>1, WhoRecords
<1>3. ASSUME IsDeleting(p), ~task[p].sweep, task[p].ok \/ MaxFaults(asks) = 0, task[p].todo \subseteq task'[p].todo
      PROVE  \E i \in task'[p].todo : i.step = t /\ i.key = KeyOf[t]
  <2>1. IsRecorded(t)
    BY <1>2, <1>3 DEF IsDeleting
  <2>. QED
    BY <1>3, <2>1 DEF ListsAll
<1>4. CASE task'[p] = task[p]
  BY <1>3, <1>4 DEF IsDeleting, At
<1>5. CASE task'[p] # task[p]
  <2>1. task'[p] # Idle /\ task'[p].at \in {"next", "delete", "finish"}
    BY DEF IsDeleting, At
  <2>2. task'[p] \notin Applying
    BY <2>1 DEF Applying, EnsureAt
  <2>3. Undo(p) \/ ItemFails(p) \/ ListFails(p) \/ \E i : ReleaseFails(p, i)
    BY <1>1, <1>5, <2>1, <2>2, WhoMoves
  <2>4. CASE List(p)
    <3>1. ~task[p].sweep /\ IsRecorded(t)
      BY <1>1, <1>2, <2>4, ListMoves DEF List
    <3>2. task'[p].todo = {[key |-> KeyOf[s], step |-> s, entry |-> ledger[KeyOf[s]]] :
                             s \in {u \in Steps : RunOf[u] = p /\ IsRecorded(u)}}
      BY <1>1, <2>4, <3>1, ListMoves
    <3>3. [key |-> KeyOf[t], step |-> t, entry |-> ledger[KeyOf[t]]] \in task'[p].todo
      BY <3>1, <3>2
    <3>. QED
      BY <3>3
  <2>5. CASE DeleteUpstream(p) \/ Finish(p) \/ ItemFails(p)
    <3>1. /\ IsDeleting(p) /\ task'[p].sweep = task[p].sweep /\ (task'[p].ok => task[p].ok)
          /\ task'[p].todo = task[p].todo
      BY <1>1, <2>5, DeleteUpstreamDoes, ItemGivenUp DEF IsDeleting
    <3>. QED
      BY <1>3, <3>1
  <2>6. ASSUME NEW i, SweepNext(p, i) PROVE FALSE
    BY <1>1, <2>6, SweepNextDoes
  <2>7. ASSUME NEW i, Release(p, i)
        PROVE  \E j \in task'[p].todo : j.step = t /\ j.key = KeyOf[t]
    <3>1. At(p, "next")
      BY <2>7 DEF Release
    <3>2. /\ task'[p].sweep = task[p].sweep /\ task'[p].ok = task[p].ok
          /\ task'[p].todo = task[p].todo \ {i}
          /\ (ledger[i.key] = NoEntry /\ ledger' = ledger) \/ Leaves(i.key, i.step)
      BY <1>1, <2>7, ReleaseDoes
    <3>3. PICK j \in task[p].todo : j.step = t /\ j.key = KeyOf[t]
      BY <1>2, <3>1, <3>2 DEF ListsAll, IsDeleting
    <3>4. j # i
      <4>1. SUFFICES ASSUME i.step = t, i.key = KeyOf[t] PROVE FALSE
        BY <3>3
      <4>2. Leaves(KeyOf[t], t)
        BY <3>2, <4>1 DEF IsRecorded
      <4>3. PICK e \in Entry : /\ ledger' = [ledger EXCEPT ![KeyOf[t]] = e]
                               /\ e.refs = ledger[KeyOf[t]].refs \ {t}
        BY <4>2 DEF Leaves
      <4>. QED
        BY <1>1, <4>3 DEF IsRecorded, TypeOK
    <3>. QED
      BY <3>2, <3>3, <3>4
  <2>8. ASSUME NEW i, ReleaseFails(p, i) PROVE FALSE
    <3>1. ~task'[p].ok
      BY <1>1, <2>8, ReleaseFailsDoes
    <3>2. MaxFaults(asks) # 0
      BY <1>1, <2>8, ProvisionAssumption DEF ReleaseFails, Fault, TypeOK
    <3>. QED
      BY <3>1, <3>2
  <2>9. ~EndSweep(p) /\ ~ListFails(p)
    <3>1. ASSUME NEW ok \in BOOLEAN, Stop(p) \/ BeginUndo(p, FALSE, ok) PROVE FALSE
      BY <1>1, <2>1, <3>1, StopMoves, BeginUndoMoves
    <3>2. At(p, "next") \/ At(p, "list") => task[p].ok \in BOOLEAN
      BY <1>1, UndoFacts
    <3>. QED
      BY <3>1, <3>2 DEF EndSweep, ListFails
  <2>. QED
    BY <2>3, <2>4, <2>5, <2>6, <2>7, <2>8, <2>9 DEF Undo
<1>. QED
  BY <1>4, <1>5

LEMMA GoneHoldsNothingStep ==
    ASSUME TypeInv, \A p \in Runs : ListsAll(p), GoneHoldsNothing, [Next]_vars
    PROVE  GoneHoldsNothing'
<1>. SUFFICES ASSUME NEW t \in Steps, mode'[RunOf[t]] = "gone", IsRecorded(t)' PROVE FALSE
  BY DEF GoneHoldsNothing
<1>1. RunOf[t] \in Runs /\ mode \in [Runs -> {"apply", "undo", "undoing", "gone"}]
  BY ProvisionAssumption DEF TypeInv, TypeOK
<1>2. CASE IsRecorded(t)
  <2>1. mode[RunOf[t]] # "gone" /\ mode' # mode
    BY <1>2 DEF GoneHoldsNothing
  <2>2. PICK r \in Runs : StartRollback(r) \/ EndRollback(r) \/ RequestRollback(r)
    BY <2>1, ModeSteps
  <2>3. EndRollback(r) /\ task[r].ok /\ r = RunOf[t]
    BY <1>1, <2>1, <2>2 DEF StartRollback, EndRollback, RequestRollback
  <2>4. At(r, "next") /\ ~task[r].sweep /\ task[r].todo = {} /\ ListsAll(r)
    BY <2>3 DEF EndRollback
  <2>. QED
    BY <1>2, <2>3, <2>4 DEF ListsAll, IsDeleting
<1>3. CASE ~IsRecorded(t)
  BY <1>3, WhoRecords
<1>. QED
  BY <1>2, <1>3

\* A run counts as rolled back only when the ledger lists none of its steps, whatever
\* failed on the way, and none is ever listed again (rollback.go:39-43).
THEOREM RolledBackIsReleased == Spec => []GoneHoldsNothing
<1> DEFINE ListsInv == \A p \in Runs : ListsAll(p)
<1>1. Init => ListsInv /\ GoneHoldsNothing
  <2>1. Init => \A p \in Runs : task[p] = Idle /\ mode[p] = "apply"
    BY DEF Init
  <2>. QED
    BY <2>1, ProvisionAssumption DEF ListsAll, IsDeleting, At, GoneHoldsNothing
<1>2. TypeInv /\ ListsInv /\ GoneHoldsNothing /\ [Next]_vars => ListsInv' /\ GoneHoldsNothing'
  BY ListsAllStep, GoneHoldsNothingStep
<1>. HIDE DEF ListsInv
<1>. QED
  BY <1>1, <1>2, TypeInit, TypeStep, PTL DEF Spec

\* Only a rollback that nothing failed in is final.
LEMMA WhoEnds ==
    ASSUME TypeInv, [Next]_vars, NEW r \in Runs, mode[r] = "undoing", mode'[r] # "undoing"
    PROVE  At(r, "next") /\ ~task[r].sweep /\ task[r].todo = {} /\ task[r].ok
<1>1. mode \in [Runs -> {"apply", "undo", "undoing", "gone"}]
  BY DEF TypeInv, TypeOK
<1>2. mode' # mode
  OBVIOUS
<1>3. ASSUME NEW p, Undo(p) PROVE FALSE
  BY <1>2, <1>3 DEF Undo, List, DeleteUpstream, Finish, EndSweep, SweepNext, Release
<1>4. ~Sweep
  BY <1>2, <1>3 DEF Sweep, StartSweep
<1>5. ~Faults
  <2>1. \A q : ~EnsureFails(q) /\ ~ItemFails(q) /\ ~ListFails(q) /\ \A i : ~ReleaseFails(q, i)
    BY <1>2 DEF EnsureFails, ItemFails, ListFails, ReleaseFails
  <2>2. ~Crash
    BY <1>2 DEF Crash
  <2>. QED
    BY <2>1, <2>2 DEF Faults
<1>6. \A q \in Runs : ~Ensure(q)
  BY <1>2 DEF Ensure, StartEnsure, ReadEntry, ReadUpstream, RecordNew, RecordJoin, Create, Effect, RecordId,
     Repoint, Succeed
<1>7. /\ ~EditConfig /\ \A k \in Keys : ~PersonCreates(k) /\ ~PersonDeletes(k) /\ ~ForgeBuilds(k)
      /\ ~UNCHANGED vars
  BY <1>2 DEF EditConfig, PersonCreates, PersonDeletes, ForgeBuilds, vars
<1>8. ASSUME NEW q \in Runs, StartRollback(q) PROVE FALSE
  <2>1. mode' = [mode EXCEPT ![q] = "undoing"]
    BY <1>8 DEF StartRollback
  <2>. QED
    BY <1>1, <2>1
<1>9. ASSUME NEW q \in Runs, RequestRollback(q) PROVE FALSE
  <2>1. mode[q] = "apply" /\ mode' = [mode EXCEPT ![q] = "undo"]
    BY <1>9 DEF RequestRollback
  <2>. QED
    BY <1>1, <2>1
<1>10. PICK q \in Runs : EndRollback(q)
  BY <1>3, <1>4, <1>5, <1>6, <1>7, <1>8, <1>9 DEF Next, Rollback
<1>11. /\ At(q, "next") /\ ~task[q].sweep /\ task[q].todo = {}
       /\ mode' = IF task[q].ok THEN [mode EXCEPT ![q] = "gone"] ELSE mode
  BY <1>10 DEF EndRollback
<1>12. task[q].ok /\ q = r
  BY <1>1, <1>2, <1>11
<1>. QED
  BY <1>11, <1>12

\* What failed is remembered until the end of the rollback.
LEMMA FailureIsNoted ==
    ASSUME TypeInv, NEW p \in Procs, task[p] \in Undoing,
           task' = [task EXCEPT ![p].at = "next", ![p].item = NoItem, ![p].ok = FALSE]
    PROVE  ~task'[p].ok
<1>1. \A w \in Undoing : ~[w EXCEPT !.at = "next", !.item = NoItem, !.ok = FALSE].ok
  BY DEF Undoing
<1>2. task'[p] = [task[p] EXCEPT !.at = "next", !.item = NoItem, !.ok = FALSE]
  BY DEF TypeInv, TypeOK, Procs
<1>. QED
  BY <1>1, <1>2

\* A rollback owes an entry until the entry is gone.
LEMMA OwesStays ==
    ASSUME TypeInv, ProvisionInv, [Next]_vars, NEW r \in Runs, NEW k \in Keys, Owes(r, k),
           Abandoned(ledger[k]), Abandoned(ledger'[k])
    PROVE  Owes(r, k)'
<1>1. r \in Procs /\ r # Sweeper /\ TypeOK /\ TypeInv' /\ ledger'[k] # NoEntry
  BY TypeStep, ProvisionAssumption DEF Procs, TypeInv, Abandoned
<1>2. mode[r] = "undoing" /\ mode'[r] = "undoing"
  <2>1. CASE mode'[r] # "undoing"
    <3>1. At(r, "next") /\ ~task[r].sweep /\ task[r].todo = {} /\ task[r].ok
      BY <2>1, WhoEnds DEF Owes
    <3>. QED
      BY <3>1 DEF Owes, Claims, At
  <2>. QED
    BY <2>1 DEF Owes
<1>3. CASE task'[r] = task[r]
  <2>1. Claims(r)' = Claims(r)
    BY <1>3 DEF Claims, IsDeleting, At
  <2>. QED
    BY <1>2, <1>3, <2>1 DEF Owes
<1>4. CASE task'[r] # task[r] /\ task'[r] # Idle
  <2>1. task'[r] \notin Applying
    BY <1>1, <1>2, <1>4 DEF TypeInv, KnowsItsPlace, KnowsPlace, Applying
  <2>2. \/ Undo(r) \/ ItemFails(r) \/ ListFails(r) \/ \E i : ReleaseFails(r, i)
        \/ StartRollback(r)
    BY <1>1, <1>4, <2>1, WhoMoves
  <2>3. ASSUME ~task'[r].ok \/ (task'[r].sweep /\ task'[r].at = "list") \/ k \in Claims(r)'
        PROVE  Owes(r, k)'
    BY <1>2, <2>3 DEF Owes
  <2>4. CASE List(r)
    <3>1. /\ At(r, "list") /\ task'[r] # Idle /\ task'[r].at = "next" /\ task'[r].sweep = task[r].sweep
          /\ task'[r].ok = task[r].ok
          /\ task[r].sweep => task'[r].todo = {[key |-> l, step |-> NoStep, entry |-> ledger[l]] :
                                                   l \in {m \in Keys : Abandoned(ledger[m])}}
      BY <1>1, <2>4, ListMoves DEF List
    <3>2. CASE task[r].sweep
      <4>1. [key |-> k, step |-> NoStep, entry |-> ledger[k]] \in task'[r].todo
        BY <3>1, <3>2
      <4>2. \E i \in task'[r].todo : i.key = k
        BY <4>1
      <4>. QED
        BY <2>3, <3>1, <3>2, <4>2 DEF Claims, IsDeleting, At
    <3>3. CASE ~task[r].sweep
      BY <2>3, <3>1, <3>3 DEF Owes, Claims, IsDeleting, At
    <3>. QED
      BY <3>2, <3>3
  <2>5. CASE DeleteUpstream(r)
    <3>1. /\ At(r, "delete") /\ task[r] \in Undoing /\ task[r].at = "delete"
          /\ task'[r].sweep = task[r].sweep /\ (task'[r].ok => task[r].ok)
          /\ task'[r].todo = task[r].todo
      BY <1>1, <2>5, DeleteUpstreamDoes, UndoFacts
    <3>2. CASE Deletable(task[r].item.key, task[r].item.entry)
      <4>0. Goto(r, "finish")
        BY <2>5, <3>2 DEF DeleteUpstream
      <4>1. task'[r].at = "finish" /\ task'[r].item = task[r].item
        BY <1>1, <3>1, <4>0, GotoUndo
      <4>. QED
        BY <1>4, <2>3, <3>1, <4>1 DEF Owes, Claims, IsDeleting, At
    <3>3. CASE ~Deletable(task[r].item.key, task[r].item.entry)
      BY <1>1, <2>3, <2>5, <3>1, <3>3, FailureIsNoted DEF DeleteUpstream
    <3>. QED
      BY <3>2, <3>3
  <2>6. CASE Finish(r)
    <3>1. /\ At(r, "finish") /\ task'[r].at = "next" /\ task'[r].sweep = task[r].sweep
          /\ (task'[r].ok => task[r].ok) /\ task'[r].todo = task[r].todo
      BY <1>1, <2>6, ItemGivenUp DEF Finish
    <3>2. task[r].item.key # k
      BY <1>1, <2>6 DEF Finish, TypeOK
    <3>. QED
      BY <1>4, <2>3, <3>1, <3>2 DEF Owes, Claims, IsDeleting, At
  <2>7. CASE ItemFails(r)
    <3>1. At(r, "delete") \/ At(r, "finish")
      BY <2>7 DEF ItemFails
    <3>2. task[r] \in Undoing
      BY <1>1, <3>1, UndoFacts
    <3>3. task' = [task EXCEPT ![r].at = "next", ![r].item = NoItem, ![r].ok = FALSE]
      BY <2>7 DEF ItemFails
    <3>4. ~task'[r].ok
      BY <1>1, <3>2, <3>3, FailureIsNoted
    <3>. QED
      BY <2>3, <3>4
  <2>8. ASSUME NEW i, SweepNext(r, i) PROVE Owes(r, k)'
    <3>1. /\ task[r].sweep /\ task[r].at = "next"
          /\ task'[r].sweep /\ task'[r].at \in {"delete", "finish"} /\ task'[r].ok = task[r].ok
          /\ task'[r].todo = task[r].todo \ {i} /\ task'[r].item.key = i.key
      BY <1>1, <2>8, SweepNextDoes
    <3>2. ~task[r].ok \/ \E j \in task[r].todo : j.key = k
      <4>1. \A l \in Claims(r) : \E j \in task[r].todo : j.key = l
        BY <3>1 DEF Claims, At
      <4>2. task[r] # Idle
        BY <1>1, <2>8, SweepNextDoes
      <4>. QED
        BY <3>1, <4>1, <4>2 DEF Owes
    <3>3. CASE \E j \in task[r].todo : j.key = k
      <4>1. task'[r].item.key = k \/ \E j \in task'[r].todo : j.key = k
        BY <3>1, <3>3
      <4>2. IsDeleting(r)' /\ (At(r, "delete") \/ At(r, "finish"))'
        BY <1>4, <3>1 DEF IsDeleting, At
      <4>3. k \in Claims(r)'
        BY <3>1, <4>1, <4>2 DEF Claims
      <4>. QED
        BY <2>3, <4>3
    <3>. QED
      BY <2>3, <3>1, <3>2, <3>3
  <2>9. ASSUME NEW i, Release(r, i) PROVE Owes(r, k)'
    <3>1. At(r, "next") /\ ~task[r].sweep
      BY <2>9 DEF Release
    <3>2. task'[r].ok = task[r].ok
      BY <1>1, <2>9, ReleaseDoes
    <3>. QED
      BY <2>3, <3>1, <3>2 DEF Owes, Claims, At
  <2>10. CASE \E i : ReleaseFails(r, i)
    BY <1>1, <2>3, <2>10, ReleaseFailsDoes
  <2>12. CASE EndSweep(r)
    <3>1. At(r, "next") /\ task[r].todo = {} /\ BeginUndo(r, FALSE, task[r].ok)
      BY <1>1, <2>12 DEF EndSweep
    <3>2. task[r].ok \in BOOLEAN
      BY <1>1, <3>1, UndoFacts
    <3>3. task'[r].ok => task[r].ok
      BY <1>1, <3>1, <3>2, BeginUndoMoves
    <3>. QED
      BY <2>3, <3>1, <3>3 DEF Owes, Claims, At
  <2>13. CASE ListFails(r)
    <3>1. BeginUndo(r, FALSE, FALSE)
      BY <1>1, <1>4, <2>13, StopMoves DEF ListFails
    <3>. QED
      BY <1>1, <2>3, <3>1, BeginUndoMoves
  <2>14. CASE StartRollback(r)
    <3>1. BeginUndo(r, TRUE, TRUE)
      BY <2>14 DEF StartRollback
    <3>. QED
      BY <1>1, <2>3, <3>1, BeginUndoMoves
  <2>. QED
    BY <2>2, <2>4, <2>5, <2>6, <2>7, <2>8, <2>9, <2>10, <2>12, <2>13, <2>14 DEF Undo
<1>. QED
  BY <1>2, <1>3, <1>4 DEF Owes

\* Whoever is the last to leave an entry owes it.
LEMMA LastToLeaveOwes ==
    ASSUME TypeInv, ProvisionInv, [Next]_vars, NEW k \in Keys,
           ~Abandoned(ledger[k]), Abandoned(ledger'[k])
    PROVE  \E t \in Steps : KeyOf[t] = k /\ Owes(RunOf[t], k)'
<1>1. TypeOK /\ ledger'[k] # ledger[k] /\ ledger'[k] # NoEntry /\ ledger'[k].terminating
      /\ ledger'[k].refs = {} /\ \A t \in Steps : KeyOf[t] \in Keys
  BY ProvisionAssumption DEF TypeInv, Abandoned
<1>2. ASSUME NEW r \in Runs, RecordNew(r) \/ RecordJoin(r) \/ RecordId(r) PROVE FALSE
  <2>1. PICK t : t = task[r].step
    OBVIOUS
  <2>2. t \in Steps
    <3>1. r \in Procs /\ (At(r, "record") \/ At(r, "id"))
      BY <1>2 DEF RecordNew, RecordJoin, RecordId, Procs
    <3>. QED
      BY <2>1, <3>1, EnsureFacts DEF EnsureAt
  <2>3. \E m : Opens(t, m) \/ Joins(t, m)
    BY <1>1, <1>2, <2>1, RecordNewDoes, RecordJoinDoes, RecordIdDoes
  <2>4. PICK e \in Entry : ledger' = [ledger EXCEPT ![KeyOf[t]] = e] /\ ~e.terminating
    BY <2>3 DEF Opens, Joins
  <2>. QED
    BY <1>1, <2>2, <2>4, LedgerChange
<1>3. ASSUME NEW p \in Procs, Finish(p) PROVE FALSE
  BY <1>1, <1>3 DEF Finish, TypeOK
<1>4. PICK p \in Procs : \E i : Release(p, i) \/ ReleaseFails(p, i)
  BY <1>1, <1>2, <1>3, LedgerSteps
<1>5. PICK i : Release(p, i) \/ ReleaseFails(p, i)
  BY <1>4
<1>6. At(p, "next") /\ ~task[p].sweep /\ IsNext(p, i) /\ mode' = mode
  BY <1>5 DEF Release, ReleaseFails
<1>7. i.step \in Steps /\ RunOf[i.step] = p /\ i.key = KeyOf[i.step]
  BY <1>6, OwnItem
<1>8. mode[p] = "undoing"
  BY <1>6, UndoFacts
<1>9. i.key = k
  <2>1. Leaves(i.key, i.step)
    BY <1>1, <1>5, ReleaseDoes, ReleaseFailsDoes
  <2>. QED
    BY <1>1, <1>7, <2>1, LedgerChange DEF Leaves
<1>10. ~task'[p].ok \/ k \in Claims(p)'
  <2>1. CASE Release(p, i)
    BY <1>1, <1>9, <2>1, ReleaseDoes DEF Claims, At
  <2>2. CASE ReleaseFails(p, i)
    BY <2>2, ReleaseFailsDoes
  <2>. QED
    BY <1>5, <2>1, <2>2
<1>. QED
  BY <1>6, <1>7, <1>8, <1>9, <1>10 DEF Owes

LEMMA OwesStep ==
    ASSUME TypeInv, ProvisionInv, SomebodyOwes, [Next]_vars
    PROVE  SomebodyOwes'
<1>. SUFFICES ASSUME NEW k \in Keys, Abandoned(ledger'[k])
              PROVE  \E t \in Steps : KeyOf[t] = k /\ Owes(RunOf[t], k)'
  BY DEF SomebodyOwes, Abandoned
<1>1. CASE Abandoned(ledger[k])
  <2>1. PICK t \in Steps : KeyOf[t] = k /\ Owes(RunOf[t], k)
    BY <1>1 DEF SomebodyOwes
  <2>2. RunOf[t] \in Runs
    BY ProvisionAssumption
  <2>. QED
    BY <1>1, <2>1, <2>2, OwesStays
<1>. QED
  BY <1>1, LastToLeaveOwes

\* Rolling back every run that used a resource other than a tag leaves nothing of the
\* wizard's: who drops the last reference counts as rolled back only after the resource is
\* deleted, by itself or by whoever took the deletion over, whatever failed or crashed on
\* the way (rollback.go:39-43, 79-81).
THEOREM RolledBackIsGone == Orderly => (Spec => []NothingLeftBehind)
<1>. SUFFICES ASSUME Orderly PROVE Spec => []NothingLeftBehind
  OBVIOUS
<1>1. Init => ListsItsUsers /\ SomebodyOwes
  BY DEF Init, ListsItsUsers, SomebodyOwes, Abandoned
<1>2. TypeInv /\ ProvisionInv /\ ListsItsUsers /\ SomebodyOwes /\ [Next]_vars
          => ListsItsUsers' /\ SomebodyOwes'
  BY ListsItsUsersStep, OwesStep
<1>3. TypeInv /\ ProvisionInv /\ ListsItsUsers /\ SomebodyOwes /\ GoneHoldsNothing /\ NothingLeaks
          => NothingLeftBehind
  <2>. SUFFICES ASSUME TypeInv, ProvisionInv, ListsItsUsers, SomebodyOwes, GoneHoldsNothing, NothingLeaks,
                       NEW k \in Keys, KindOf[k] # "tag", MadeBy(k, "wizard"),
                       \A t \in Steps : KeyOf[t] = k => mode[RunOf[t]] = "gone"
                PROVE  FALSE
    BY DEF NothingLeftBehind
  <2>1. ledger[k] # NoEntry /\ ledger[k] \in Entry
    BY DEF NothingLeaks, TypeInv, TypeOK
  <2>2. ledger[k].refs \subseteq Steps
    BY <2>1 DEF Entry
  <2>3. ledger[k].refs = {}
    BY <2>1, <2>2 DEF ListsItsUsers, GoneHoldsNothing, IsRecorded
  <2>4. Abandoned(ledger[k])
    BY <2>1, <2>3 DEF Abandoned, ProvisionInv, GivenUpWhenUnused
  <2>. QED
    BY <2>4 DEF SomebodyOwes, Owes
<1>. QED
  BY <1>1, <1>2, <1>3, ProvisionIsSound, RolledBackIsReleased, NothingIsLeaked, PTL DEF Spec

-----------------------------------------------------------------------------
(* Triggers fire once. *)

\* What fires with its create has no call after it, and a tag does neither: the triggers of
\* weave are fired by a call, apps by their create (Recipes: CallFollows, FiresWithCreate).
FiresWithoutCall ==
    \A case \in Cases : \A t \in DOMAIN case :
        /\ FiresAtOnce(case[t]) => ~TwoCalls(case[t]) /\ KindOf[KeyOf[t]] = "named"
        /\ KindOf[KeyOf[t]] = "tag" => ~TwoCalls(case[t])

\* A call that is about to fire hits what the step itself has just made, unfired; it is
\* no tag.
FiresOnce ==
    \A r \in Runs : At(r, "effect") =>
        /\ KindOf[KeyOf[task[r].step]] # "tag"
        /\ MadeBy(KeyOf[task[r].step], "wizard") /\ upstream[KeyOf[task[r].step]].effects = 0
        /\ \A q \in Runs : At(q, "effect") /\ KeyOf[task[q].step] = KeyOf[task[r].step] => q = r

FiresInv == KindsInv /\ FiresOnce /\ EffectsOnce

\* A step goes on to the call that follows when it has made the resource.
LEMMA WhoFires ==
    ASSUME FiresWithoutCall, TypeInv, [Next]_vars, NEW r \in Runs, task'[r] # task[r], At(r, "effect")'
    PROVE  /\ \A q \in Runs \ {r} : task'[q] = task[q]
           /\ task'[r].step = task[r].step /\ TwoCalls(asks[task[r].step])
           /\ task[r].step \in DOMAIN asks /\ KeyOf[task[r].step] \in Keys
           /\ KindOf[KeyOf[task[r].step]] # "tag" /\ upstream[KeyOf[task[r].step]] = Absent
           /\ upstream'[KeyOf[task[r].step]] # Absent
           /\ upstream'[KeyOf[task[r].step]].maker = "wizard"
           /\ upstream'[KeyOf[task[r].step]].effects = 0
<1>1. r \in Procs /\ r # Sweeper /\ task'[r] # Idle /\ task'[r].at = "effect" /\ TypeOK
  BY ProvisionAssumption DEF At, Procs, TypeInv
<1>2. task'[r] \notin Undoing
  BY <1>1 DEF Undoing
<1>3. Ensure(r)
  BY <1>1, <1>2, WhoMoves
<1>4. \A from \in EnsureAt : At(r, from) => task[r] \in Applying
  BY <1>1, EnsureFacts
<1>5. ~ReadEntry(r) /\ ~ReadUpstream(r) /\ ~\E t \in Steps : StartEnsure(r, t)
  BY <1>1, StartEnsureDoes, ReadEntryDoes, ReadUpstreamDoes
<1>6. ASSUME NEW to \in EnsureAt \ {"effect"}, Goto(r, to), NEW from \in EnsureAt, At(r, from)
      PROVE  FALSE
  BY <1>1, <1>4, <1>6, GotoEnsure
<1>7. ~Stop(r) /\ \A from \in EnsureAt : ~(Retry(r) /\ At(r, from))
  BY <1>1, <1>4, StopMoves, RetryMoves
<1>8. ~(At(r, "record") /\ Recorded(r))
  BY <1>1, RecordedGoes
<1>9. ~RecordNew(r) /\ ~RecordJoin(r)
  BY <1>7, <1>8 DEF RecordNew, RecordJoin, EnsureAt
<1>10. ~Effect(r) /\ ~RecordId(r) /\ ~Repoint(r) /\ ~Succeed(r)
  BY <1>6, <1>7 DEF Effect, RecordId, Repoint, Succeed, EnsureAt
<1>11. Create(r)
  BY <1>3, <1>5, <1>9, <1>10 DEF Ensure
<1>12. At(r, "create") /\ task[r] \in Applying
  BY <1>4, <1>11 DEF Create, EnsureAt
<1>13. PICK t \in DOMAIN asks : t = task[r].step /\ KeyOf[t] \in Keys
  BY <1>1, <1>12, EnsureFacts DEF EnsureAt
<1>14. /\ KindOf[KeyOf[t]] # "tag" => upstream[KeyOf[t]] = Absent
       /\ upstream' = [upstream EXCEPT ![KeyOf[t]] = Moved(r)]
       /\ Goto(r, IF TwoCalls(asks[t]) THEN "effect" ELSE IF CreatedId(r) # NoId THEN "id" ELSE "done")
  BY <1>7, <1>11, <1>12, <1>13, CreateDoes DEF EnsureAt
<1>15. TwoCalls(asks[t])
  <2>1. SUFFICES ASSUME ~TwoCalls(asks[t]) PROVE FALSE
    OBVIOUS
  <2>2. Goto(r, "id") \/ Goto(r, "done")
    BY <1>14, <2>1
  <2>. QED
    BY <1>6, <1>12, <2>2 DEF EnsureAt
<1>16. OnlyMoves(r) /\ task'[r].step = task[r].step
  BY <1>1, <1>12, <1>14, <1>15, GotoEnsure DEF EnsureAt
<1>17. KindOf[KeyOf[t]] # "tag" /\ ~FiresAtOnce(asks[t])
  BY <1>1, <1>13, <1>15 DEF FiresWithoutCall, TypeOK
<1>18. upstream'[KeyOf[t]] = Moved(r) /\ upstream[KeyOf[t]] = Absent
  BY <1>1, <1>13, <1>14, <1>17 DEF TypeOK
<1>19. Moved(r) # Absent /\ Moved(r).maker = "wizard" /\ Moved(r).effects = 0
  <2>1. "create" \in EnsureAt
    BY DEF EnsureAt
  <2>. QED
    BY <1>12, <1>13, <1>17, <1>18, <2>1, MovedFields, MarkersAreDistinct
<1>. QED
  BY <1>1, <1>13, <1>15, <1>16, <1>17, <1>18, <1>19 DEF OnlyMoves, TypeOK, Procs

\* A call that is about to fire hits, if anything, what the wizard has made, unfired.
HitsUnfired ==
    \A r \in Runs : At(r, "effect") =>
        LET res == upstream[KeyOf[task[r].step]]
        IN  res # Absent => res.maker = "wizard" /\ res.effects = 0

\* A tag fires nothing.
LEMMA FiredBySet ==
    ASSUME FiresWithoutCall, TypeInv, KindsInv, NEW r \in Runs, NEW k \in Keys, SetBy(r, k),
           (Create(r) /\ (KindOf[k] # "tag" => upstream[k] = Absent)) \/ Repoint(r)
    PROVE  /\ upstream[k] # Absent => upstream'[k].maker = upstream[k].maker /\ upstream'[k].effects = 0
           /\ upstream[k] = Absent => upstream'[k].maker = "wizard" /\ upstream'[k].effects \in 0..1
           /\ KindOf[k] = "tag" => upstream'[k].effects = 0
<1>1. k = KeyOf[task[r].step]
  BY DEF SetBy
<1>2. At(r, "create") \/ At(r, "repoint")
  BY DEF Create, Repoint
<1>3. task[r].step \in DOMAIN asks
  BY <1>2, EnsureFacts DEF EnsureAt, Procs
<1>4. KindOf[k] = "tag" => ~FiresAtOnce(asks[task[r].step])
  BY <1>1, <1>3 DEF FiresWithoutCall, TypeInv, TypeOK
<1>5. upstream[k] # Absent => KindOf[k] = "tag"
  BY <1>1, WhatIsSet
<1>. QED
  BY <1>4, <1>5 DEF SetBy

LEMMA EffectsStep ==
    ASSUME FiresWithoutCall, TypeInv, KindsInv, HitsUnfired, EffectsOnce, [Next]_vars
    PROVE  EffectsOnce'
<1>. SUFFICES ASSUME NEW k \in Keys, upstream'[k] # Absent
              PROVE  upstream'[k].effects <= IF upstream'[k].maker = "wizard" THEN 1 ELSE 0
  BY DEF EffectsOnce
<1>1. CASE upstream'[k] = upstream[k]
  BY <1>1 DEF EffectsOnce
<1>2. ASSUME NEW r \in Runs, SetBy(r, k),
             (Create(r) /\ (KindOf[k] # "tag" => upstream[k] = Absent)) \/ Repoint(r)
      PROVE  upstream'[k].effects = 0 \/ (upstream'[k].maker = "wizard" /\ upstream'[k].effects \in 0..1)
  BY <1>2, FiredBySet
<1>3. ASSUME NEW r \in Runs, Effect(r), k = KeyOf[task[r].step], upstream[k] # Absent
      PROVE  upstream[k].maker = "wizard" /\ upstream[k].effects = 0
  BY <1>3 DEF Effect, HitsUnfired
<1>5. \A res \in Premade : res.effects = 0
  BY ProvisionAssumption
<1>6. CASE upstream'[k] # upstream[k]
  BY <1>2, <1>3, <1>5, <1>6, ResourceSteps
<1>. QED
  BY <1>1, <1>6

\* While people delete nothing, what a call is about to fire stays as it is until then.
LEMMA StaysUnfired ==
    ASSUME ~PeopleDelete, FiresWithoutCall, TypeInv, ProvisionInv, FiresInv, [Next]_vars,
           NEW r \in Runs, At(r, "effect"), task'[r] = task[r],
           NEW k \in Keys, k = KeyOf[task[r].step]
    PROVE  upstream'[k] # Absent /\ upstream'[k].maker = "wizard" /\ upstream'[k].effects = 0
<1>1. /\ upstream[k] # Absent /\ upstream[k].maker = "wizard" /\ upstream[k].effects = 0
      /\ KindOf[k] # "tag" /\ r \in Procs /\ TypeOK
  BY DEF FiresInv, FiresOnce, MadeBy, Procs, TypeInv
<1>2. task[r] \in Applying /\ IsRecorded(task[r].step)
  <2>1. task[r] \in Applying
    BY <1>1, EnsureFacts DEF EnsureAt
  <2>2. RecordsFirst(r)
    BY <1>1 DEF ProvisionInv, Sound
  <2>. QED
    BY <2>1, <2>2 DEF RecordsFirst, At
<1>3. SUFFICES ASSUME upstream'[k] # upstream[k] PROVE upstream'[k].maker = "wizard" /\ upstream'[k].effects = 0
                                                        /\ upstream'[k] # Absent
  BY <1>1
<1>4. ASSUME NEW p \in Procs, DeleteUpstream(p), GoesWith(k, task[p].item.key) PROVE FALSE
  BY <1>1, <1>2, <1>4, DeletedIsClaimed DEF Abandoned, IsRecorded, GoesWith
<1>5. ASSUME NEW q \in Runs, Effect(q), k = KeyOf[task[q].step] PROVE FALSE
  <2>1. At(q, "effect") /\ q = r
    BY <1>5 DEF Effect, FiresInv, FiresOnce
  <2>2. Goto(r, "done")
    BY <1>1, <1>5, <2>1 DEF Effect
  <2>3. task'[r].at = "done"
    BY <1>1, <1>2, <2>2, GotoEnsure DEF EnsureAt
  <2>. QED
    BY <2>1, <2>3 DEF At
<1>6. ASSUME NEW l, l \in Keys, PersonDeletes(l) PROVE FALSE
  BY <1>6 DEF PersonDeletes
<1>7. ~PersonCreates(k) /\ ~ForgeBuilds(k)
  BY <1>1 DEF PersonCreates, ForgeBuilds
<1>8. \A q \in Runs : ~(Repoint(q) /\ SetBy(q, k))
  BY <1>1, WhatIsSet DEF FiresInv, SetBy
<1>. QED
  BY <1>1, <1>3, <1>4, <1>5, <1>6, <1>7, <1>8, ResourceSteps

LEMMA FiresStep ==
    ASSUME ~PeopleDelete, FiresWithoutCall, TypeInv, ProvisionInv, FiresInv, [Next]_vars
    PROVE  FiresInv'
<1>1. KindsInv /\ KindsInv' /\ TypeOK
  BY KindsStep DEF FiresInv, TypeInv
<1>2. ASSUME NEW r \in Runs, At(r, "effect")' PROVE KindOf[KeyOf[task'[r].step]] # "tag"
  BY <1>1, <1>2, WhoFires DEF FiresInv, FiresOnce, At
<1>3. ASSUME NEW r \in Runs, At(r, "effect")', NEW k, k = KeyOf[task'[r].step]
      PROVE  upstream'[k] # Absent /\ upstream'[k].maker = "wizard" /\ upstream'[k].effects = 0
  <2>1. CASE task'[r] = task[r]
    <3>1. At(r, "effect") /\ k = KeyOf[task[r].step]
      BY <1>3, <2>1 DEF At
    <3>2. k \in Keys
      BY <3>1, EnsureFacts DEF EnsureAt, Procs
    <3>. QED
      BY <2>1, <3>1, <3>2, StaysUnfired
  <2>2. CASE task'[r] # task[r]
    BY <1>3, <2>2, WhoFires
  <2>. QED
    BY <2>1, <2>2
<1>4. ASSUME NEW r \in Runs, At(r, "effect")', NEW q \in Runs \ {r}, At(q, "effect")',
             KeyOf[task'[q].step] = KeyOf[task'[r].step]
      PROVE  FALSE
  <2>1. ASSUME NEW a \in Runs, NEW b \in Runs \ {a}, At(a, "effect")', At(b, "effect")',
               KeyOf[task'[a].step] = KeyOf[task'[b].step], task'[a] # task[a]
        PROVE  FALSE
    <3>1. task'[b] = task[b] /\ upstream[KeyOf[task[a].step]] = Absent /\ task'[a].step = task[a].step
      BY <2>1, WhoFires
    <3>2. At(b, "effect") /\ upstream[KeyOf[task[b].step]] = Absent
      BY <2>1, <3>1 DEF At
    <3>. QED
      BY <3>2 DEF FiresInv, FiresOnce, MadeBy
  <2>2. task'[r] = task[r] /\ task'[q] = task[q]
    BY <1>4, <2>1
  <2>. QED
    BY <1>4, <2>2 DEF FiresInv, FiresOnce, At
<1>5. EffectsOnce'
  <2>1. HitsUnfired /\ EffectsOnce
    BY DEF FiresInv, FiresOnce, HitsUnfired, MadeBy
  <2>. QED
    BY <1>1, <2>1, EffectsStep
<1>6. FiresOnce'
  BY <1>2, <1>3, <1>4 DEF FiresOnce, MadeBy
<1>. QED
  BY <1>1, <1>5, <1>6 DEF FiresInv

LEMMA FiresInit == Init => FiresInv
<1>. SUFFICES ASSUME Init PROVE FiresInv
  OBVIOUS
<1>1. \A res \in Premade : res.effects = 0
  BY ProvisionAssumption
<1>2. FiresOnce /\ EffectsOnce
  BY <1>1 DEF Init, FiresOnce, EffectsOnce, At
<1>. QED
  BY <1>2, KindsInit DEF FiresInv

\* While people delete nothing, a trigger fires at most once by its creation and one that
\* people or forge made never, whatever is retried after a lost answer or a crash and
\* however many reconciles run at once (weavesteps.go:28-30, 324-326).
THEOREM TriggersFireOnce ==
    Orderly /\ ~PeopleDelete /\ FiresWithoutCall => (Spec => []EffectsOnce)
<1>. SUFFICES ASSUME Orderly, ~PeopleDelete, FiresWithoutCall PROVE Spec => []EffectsOnce
  OBVIOUS
<1>1. TypeInv /\ ProvisionInv /\ FiresInv /\ [Next]_vars => FiresInv'
  BY FiresStep
<1>2. FiresInv => EffectsOnce
  BY DEF FiresInv
<1>. QED
  BY <1>1, <1>2, FiresInit, ProvisionIsSound, PTL DEF Spec

\* With one worker only people and the sweeper touch what a run is about to fire, and
\* they can but delete it.
AloneFiresInv ==
    /\ OneAtATime /\ KindsInv /\ HitsUnfired /\ EffectsOnce
    /\ \A r \in Runs : At(r, "effect") => KindOf[KeyOf[task[r].step]] # "artifact"

LEMMA AloneFiresStep ==
    ASSUME Workers = 1, ~PeopleCreate, FiresWithoutCall, TypeInv, AloneFiresInv, [Next]_vars
    PROVE  AloneFiresInv'
<1>1. OneAtATime' /\ KindsInv' /\ EffectsOnce' /\ TypeOK
  BY OneAtATimeStep, KindsStep, EffectsStep DEF AloneFiresInv, TypeInv
<1>2. ASSUME NEW r \in Runs, At(r, "effect")', NEW k, k = KeyOf[task'[r].step]
      PROVE  /\ KindOf[k] # "artifact"
             /\ upstream'[k] # Absent => upstream'[k].maker = "wizard" /\ upstream'[k].effects = 0
  <2>1. CASE task'[r] # task[r]
    <3>1. /\ k \in Keys /\ upstream'[k] # Absent /\ upstream'[k].maker = "wizard"
          /\ upstream'[k].effects = 0
      BY <1>2, <2>1, WhoFires
    <3>. QED
      BY <1>1, <3>1 DEF KindsInv, MadeBy
  <2>2. CASE task'[r] = task[r]
    <3>1. At(r, "effect") /\ k = KeyOf[task[r].step] /\ r \in Procs
      BY <1>2, <2>2 DEF At, Procs
    <3>2. k \in Keys /\ task[r] \in Applying
      BY <3>1, EnsureFacts DEF EnsureAt
    <3>3. /\ KindOf[k] # "artifact"
          /\ upstream[k] # Absent => upstream[k].maker = "wizard" /\ upstream[k].effects = 0
      BY <3>1 DEF AloneFiresInv, HitsUnfired
    <3>4. \A q \in Runs : ~Create(q) /\ ~Repoint(q) /\ (Effect(q) => q = r)
      BY <3>1 DEF Create, Repoint, Effect, At, AloneFiresInv, OneAtATime
    <3>5. ASSUME Effect(r), upstream[k] # Absent PROVE FALSE
      <4>1. Goto(r, "done")
        BY <3>1, <3>5 DEF Effect
      <4>2. task'[r].at = "done"
        BY <1>1, <3>1, <3>2, <4>1, GotoEnsure DEF EnsureAt
      <4>. QED
        BY <1>2, <4>2 DEF At
    <3>6. ~PersonCreates(k) /\ ~ForgeBuilds(k)
      BY <3>3 DEF PersonCreates, ForgeBuilds
    <3>7. upstream'[k] = upstream[k] \/ upstream'[k] = Absent
      BY <3>2, <3>4, <3>5, <3>6, ResourceSteps
    <3>. QED
      BY <3>3, <3>7
  <2>. QED
    BY <2>1, <2>2
<1>. QED
  BY <1>1, <1>2 DEF AloneFiresInv, HitsUnfired

\* With the default single worker a trigger fires at most once by its creation, even when
\* a sweep that overlaps deletions, or people, delete it in between: nobody but the run
\* that made it, and is about to fire it, could make it anew (weavesteps.go:28-30, main.go:84).
THEOREM OneWorkerFiresOnce ==
    Workers = 1 /\ ~PeopleCreate /\ FiresWithoutCall => (Spec => []EffectsOnce)
<1>. SUFFICES ASSUME Workers = 1, ~PeopleCreate, FiresWithoutCall PROVE Spec => []EffectsOnce
  OBVIOUS
<1>1. Init => AloneFiresInv
  BY AloneInit, FiresInit DEF AloneFiresInv, AloneInv, FiresInv, HitsUnfired, Init, At
<1>2. TypeInv /\ AloneFiresInv /\ [Next]_vars => (TypeInv /\ AloneFiresInv)'
  BY TypeStep, AloneFiresStep
<1>3. AloneFiresInv => EffectsOnce
  BY DEF AloneFiresInv
<1>. QED
  BY <1>1, <1>2, <1>3, TypeInit, PTL DEF Spec

-----------------------------------------------------------------------------
(* Users get what they want. *)

\* What a step makes is what its next Get takes for its own (RecipesProofs:
\* EqualHashesServe, of a step and itself; a port with a leading zero is the
\* exception, README).
ServesItsOwn ==
    \A case \in Cases : \A t \in DOMAIN case : \A c \in Configs :
        KindOf[KeyOf[t]] = "named" => Same(case[t], c, Object(case[t], c))

GotWanted(t) ==
    upstream[KeyOf[t]] # Absent /\ \E c \in Configs : Same(asks[t], c, upstream[KeyOf[t]].object)

\* A step has looked at its named resource, or made it.
HasIts(r) ==
    /\ KindOf[KeyOf[task[r].step]] = "named"
    /\ (At(r, "record") /\ task[r].found # Absent) \/ At(r, "effect") \/ At(r, "id") \/ At(r, "done")

WantedInv ==
    /\ UsersGetWhatTheyWant
    /\ \A r \in Runs : HasIts(r) => GotWanted(task[r].step)

\* While people delete nothing, a named resource that is in use, or not on record at all,
\* stays what it is.
LEMMA StaysWanted ==
    ASSUME ~PeopleDelete, TypeInv, ProvisionInv, KindsInv, [Next]_vars,
           NEW t \in Steps, KindOf[KeyOf[t]] = "named", ~Abandoned(ledger[KeyOf[t]]), GotWanted(t)
    PROVE  GotWanted(t)'
<1>1. PICK k \in Keys : k = KeyOf[t]
  BY ProvisionAssumption
<1>2. CASE upstream'[k] = upstream[k]
  BY <1>1, <1>2, AsksStay DEF GotWanted
<1>3. CASE upstream'[k] # upstream[k]
  <2>1. upstream[k] # Absent
    BY <1>1 DEF GotWanted
  <2>2. ASSUME NEW p \in Procs, DeleteUpstream(p), GoesWith(k, task[p].item.key) PROVE FALSE
    BY <1>1, <2>2, DeletedIsClaimed DEF GoesWith
  <2>3. ASSUME NEW r \in Runs, Repoint(r), SetBy(r, k) PROVE FALSE
    BY <1>1, <2>3, WhatIsSet DEF SetBy
  <2>4. ~PersonCreates(k) /\ ~ForgeBuilds(k) /\ \A l : ~PersonDeletes(l)
    BY <2>1 DEF PersonDeletes, PersonCreates, ForgeBuilds
  <2>5. upstream'[k] \in Resource /\ upstream'[k].object = upstream[k].object
    BY <1>1, <1>3, <2>1, <2>2, <2>3, <2>4, ResourceSteps
  <2>. QED
    BY <1>1, <2>5, AsksStay, MarkersAreDistinct DEF GotWanted
<1>. QED
  BY <1>2, <1>3

\* How a step comes to have its resource.
LEMMA WhoHas ==
    ASSUME TypeInv, KindsInv, [Next]_vars, NEW r \in Runs, task'[r] # task[r], HasIts(r)'
    PROVE  LET t == task[r].step
           IN  /\ t \in Steps /\ t \in DOMAIN asks /\ task[r].config \in Configs /\ task'[r].step = t
               /\ KindOf[KeyOf[t]] = "named"
               /\ \/ HasIts(r)
                  \/ /\ At(r, "upstream") /\ upstream' = upstream /\ upstream[KeyOf[t]] # Absent
                     /\ Same(asks[t], task[r].config, upstream[KeyOf[t]].object)
                  \/ /\ upstream'[KeyOf[t]] \in Resource
                     /\ upstream'[KeyOf[t]].object = Object(asks[t], task[r].config)
<1>1. /\ r \in Procs /\ TypeOK /\ KindOf[KeyOf[task'[r].step]] = "named" /\ task'[r] # Idle
      /\ task'[r].at \in {"record", "effect", "id", "done"}
      /\ task'[r].at = "record" => task'[r].found # Absent
  BY DEF HasIts, At, Procs, TypeInv
<1>2. task'[r] \notin Undoing
  BY <1>1 DEF Undoing
<1>3. Ensure(r)
  BY <1>1, <1>2, WhoMoves
<1>4. \A from \in EnsureAt : At(r, from) =>
        /\ task[r] \in Applying /\ task[r].step \in Steps /\ task[r].step \in DOMAIN asks
        /\ task[r].config \in Configs /\ KeyOf[task[r].step] \in Keys
  BY <1>1, EnsureFacts
<1>5. ~ReadEntry(r) /\ ~\E t \in Steps : StartEnsure(r, t)
  BY <1>1, StartEnsureDoes, ReadEntryDoes
<1>6. ~Stop(r) /\ \A from \in EnsureAt : ~(Retry(r) /\ At(r, from))
  BY <1>1, <1>4, StopMoves, RetryMoves
<1>7. ASSUME NEW to \in EnsureAt, Goto(r, to), NEW from \in EnsureAt, At(r, from)
      PROVE  task'[r].step = task[r].step
  BY <1>1, <1>4, <1>7, GotoEnsure
<1>8. CASE ReadUpstream(r)
  <2>1. At(r, "upstream") /\ upstream' = upstream
    BY <1>8 DEF ReadUpstream
  <2>2. /\ task'[r].at = "record" /\ task'[r].step = task[r].step
        /\ LET res == IF KindOf[KeyOf[task[r].step]] = "artifact" THEN task[r].found
                      ELSE upstream[KeyOf[task[r].step]]
           IN  /\ task'[r].found = res
               /\ res = Absent \/ Accepts(task[r].step, task[r].config, task[r].seen, res)
    BY <1>1, <1>8, ReadUpstreamDoes
  <2>. QED
    BY <1>1, <1>4, <2>1, <2>2 DEF Accepts, Matches, EnsureAt
<1>9. CASE At(r, "record") /\ Recorded(r)
  <2>1. task'[r].step = task[r].step /\ task[r].found # Absent
    BY <1>1, <1>9, RecordedGoes
  <2>. QED
    BY <1>1, <1>4, <1>9, <2>1 DEF HasIts, EnsureAt
<1>10. CASE RecordNew(r) \/ RecordJoin(r)
  BY <1>6, <1>9, <1>10 DEF RecordNew, RecordJoin, EnsureAt
<1>11. CASE Effect(r) \/ RecordId(r)
  <2>1. Goto(r, "done") /\ (At(r, "effect") \/ At(r, "id"))
    BY <1>6, <1>11 DEF Effect, RecordId
  <2>. QED
    BY <1>1, <1>4, <1>7, <2>1 DEF HasIts, EnsureAt
<1>12. CASE Create(r)
  <2>1. At(r, "create")
    BY <1>12 DEF Create
  <2>2. PICK t \in DOMAIN asks, c \in Configs : t = task[r].step /\ c = task[r].config /\ KeyOf[t] \in Keys
                                                 /\ t \in Steps
    BY <1>4, <2>1 DEF EnsureAt
  <2>3. /\ upstream' = [upstream EXCEPT ![KeyOf[t]] = Moved(r)]
        /\ Goto(r, IF TwoCalls(asks[t]) THEN "effect" ELSE IF CreatedId(r) # NoId THEN "id" ELSE "done")
    BY <1>6, <1>12, <2>1, <2>2, CreateDoes DEF EnsureAt
  <2>4. Goto(r, "effect") \/ Goto(r, "id") \/ Goto(r, "done")
    BY <2>3
  <2>5. task'[r].step = t
    BY <1>7, <2>1, <2>2, <2>4 DEF EnsureAt
  <2>6. upstream'[KeyOf[t]] = Moved(r)
    BY <1>1, <2>2, <2>3 DEF TypeOK
  <2>7. Moved(r) \in Resource /\ Moved(r).object = Object(asks[t], c)
    BY <2>1, <2>2, MovedFields DEF EnsureAt
  <2>. QED
    BY <1>1, <2>2, <2>5, <2>6, <2>7
<1>13. CASE Repoint(r)
  <2>1. At(r, "repoint") /\ Goto(r, "done")
    BY <1>6, <1>13 DEF Repoint
  <2>2. KindOf[KeyOf[task[r].step]] = "tag" /\ task'[r].step = task[r].step
    BY <1>7, <1>13, <2>1, WhatIsSet DEF EnsureAt
  <2>. QED
    BY <1>1, <2>2
<1>. QED
  BY <1>3, <1>5, <1>6, <1>8, <1>10, <1>11, <1>12, <1>13 DEF Ensure, Succeed

\* Nobody has given up what a step has.
LEMMA HasItsInUse ==
    ASSUME TypeInv, ProvisionInv, SeesTheEntry, NEW r \in Runs, HasIts(r)
    PROVE  task[r].step \in Steps /\ ~Abandoned(ledger[KeyOf[task[r].step]])
<1>1. r \in Procs
  BY DEF Procs
<1>2. task[r].step \in Steps
  BY <1>1, EnsureFacts DEF HasIts, EnsureAt
<1>3. CASE At(r, "record")
  BY <1>2, <1>3 DEF SeesTheEntry, Abandoned
<1>4. CASE At(r, "effect") \/ At(r, "id") \/ At(r, "done")
  <2>1. RecordsFirst(r)
    BY <1>1 DEF ProvisionInv, Sound
  <2>. QED
    BY <1>2, <1>4, <2>1 DEF RecordsFirst, IsRecorded, Abandoned, At
<1>. QED
  BY <1>3, <1>4 DEF HasIts

LEMMA WantedStep ==
    ASSUME ~PeopleDelete, ServesItsOwn, TypeInv, ProvisionInv, UsersRecorded, KindsInv, SeesTheEntry,
           WantedInv, [Next]_vars
    PROVE  WantedInv'
<1>1. TypeOK /\ asks' = asks
  BY AsksStay DEF TypeInv
<1>2. ASSUME NEW r \in Runs, HasIts(r), NEW t, t = task[r].step PROVE t \in Steps /\ GotWanted(t)'
  <2>1. t \in Steps /\ ~Abandoned(ledger[KeyOf[t]]) /\ GotWanted(t) /\ KindOf[KeyOf[t]] = "named"
    BY <1>2, HasItsInUse DEF WantedInv, HasIts
  <2>. QED
    BY <2>1, StaysWanted
<1>3. ASSUME NEW r \in Runs, HasIts(r)', NEW t, t = task'[r].step PROVE GotWanted(t)'
  <2>1. CASE task'[r] = task[r]
    <3>1. HasIts(r) /\ t = task[r].step
      BY <1>3, <2>1 DEF HasIts, At
    <3>. QED
      BY <1>2, <3>1
  <2>2. CASE task'[r] # task[r]
    <3>1. PICK c : c = task[r].config
      OBVIOUS
    <3>2. t \in DOMAIN asks /\ c \in Configs /\ KindOf[KeyOf[t]] = "named" /\ t = task[r].step
      BY <1>3, <2>2, <3>1, WhoHas
    <3>3. CASE HasIts(r)
      BY <1>2, <3>2, <3>3
    <3>4. CASE upstream' = upstream /\ upstream[KeyOf[t]] # Absent /\ Same(asks[t], c, upstream[KeyOf[t]].object)
      BY <1>1, <3>2, <3>4 DEF GotWanted
    <3>5. CASE upstream'[KeyOf[t]] \in Resource /\ upstream'[KeyOf[t]].object = Object(asks[t], c)
      <4>1. upstream'[KeyOf[t]] # Absent
        BY <3>5, MarkersAreDistinct
      <4>2. Same(asks[t], c, Object(asks[t], c))
        BY <1>1, <3>2 DEF ServesItsOwn, TypeOK
      <4>. QED
        BY <1>1, <3>2, <3>5, <4>1, <4>2 DEF GotWanted
    <3>. QED
      BY <1>3, <2>2, <3>1, <3>2, <3>3, <3>4, <3>5, WhoHas
  <2>. QED
    BY <2>1, <2>2
<1>4. ASSUME NEW t \in ready', mode'[RunOf[t]] = "apply", KindOf[KeyOf[t]] = "named"
      PROVE  GotWanted(t)'
  <2>1. CASE t \in ready
    <3>1. t \in Steps /\ mode[RunOf[t]] = "apply"
      BY <1>1, <1>4, <2>1, StoodBefore, ProvisionAssumption DEF TypeOK
    <3>2. ~Abandoned(ledger[KeyOf[t]]) /\ GotWanted(t)
      BY <1>4, <2>1, <3>1 DEF UsersRecorded, WantedInv, UsersGetWhatTheyWant, GotWanted, Abandoned, Stands,
         IsRecorded
    <3>. QED
      BY <1>4, <3>1, <3>2, StaysWanted
  <2>2. CASE t \notin ready
    <3>1. PICK r \in Runs : At(r, "done") /\ t = task[r].step
      BY <1>4, <2>2, ReadySteps
    <3>2. HasIts(r)
      BY <1>4, <3>1 DEF HasIts
    <3>. QED
      BY <1>2, <3>1, <3>2
  <2>. QED
    BY <2>1, <2>2
<1>5. UsersGetWhatTheyWant'
  BY <1>4 DEF UsersGetWhatTheyWant, GotWanted
<1>6. \A r \in Runs : HasIts(r)' => upstream'[KeyOf[task'[r].step]] # Absent
         /\ \E c \in Configs : Same(asks'[task'[r].step], c, upstream'[KeyOf[task'[r].step]].object)
  BY <1>3 DEF GotWanted
<1>. QED
  BY <1>5, <1>6 DEF WantedInv, GotWanted

LEMMA WantedInit == Init => WantedInv
BY DEF Init, WantedInv, UsersGetWhatTheyWant, HasIts, At

\* With one reconcile at a time, and while people delete nothing, what every step that
\* succeeded finds under its name agrees with its ask in all that its Get compares, for
\* as long as its run stands: no other run, rollback, sweep or edit of the configuration
\* takes it away or changes that (ensure.go:23-26).  With two at a time a rollback can
\* remove the resource between a step's Get and its Register (README).
THEOREM UsersGetTheirs ==
    Orderly /\ Workers = 1 /\ ~PeopleDelete /\ ServesItsOwn => (Spec => []UsersGetWhatTheyWant)
<1>. SUFFICES ASSUME Orderly, Workers = 1, ~PeopleDelete, ServesItsOwn
              PROVE  Spec => []UsersGetWhatTheyWant
  OBVIOUS
<1>1. TypeInv /\ ProvisionInv /\ AloneInv /\ [Next]_vars => AloneInv'
  BY OneAtATimeStep, SeesTheEntryStep DEF AloneInv
<1>2. TypeInv /\ KindsInv /\ [Next]_vars => KindsInv'
  BY KindsStep
<1>3. TypeInv /\ ProvisionInv /\ UsersRecorded /\ AloneInv /\ KindsInv /\ WantedInv /\ [Next]_vars
          => WantedInv'
  BY WantedStep DEF AloneInv
<1>4. WantedInv => UsersGetWhatTheyWant
  BY DEF WantedInv
<1>. QED
  BY <1>1, <1>2, <1>3, <1>4, AloneInit, KindsInit, WantedInit, ProvisionIsSound, UsersStayRecorded, PTL
     DEF Spec

-----------------------------------------------------------------------------
(* Claimed artifacts. *)

\* Artifacts have forge's IDs, upstream, on record, and with the steps that claim them.
ArtifactsInv ==
    /\ \A k \in Keys : KindOf[k] = "artifact" =>
          /\ upstream[k] # Absent => upstream[k].id # NoId
          /\ ledger[k] # NoEntry => ledger[k].externalID # NoId
    /\ \A r \in Runs :
          /\ task[r] # Idle /\ task[r].at \in EnsureAt /\ KindOf[KeyOf[task[r].step]] = "artifact"
          => task[r].found.id # NoId

\* A step works with the artifact that it found when it began.
LEMMA ArtifactTask ==
    ASSUME TypeInv, [Next]_vars, NEW r \in Runs, task'[r] # Idle, task'[r].at \in EnsureAt,
           KindOf[KeyOf[task'[r].step]] = "artifact"
    PROVE  \/ /\ task[r] # Idle /\ task[r].at \in EnsureAt
              /\ task'[r].step = task[r].step /\ task'[r].found = task[r].found
           \/ /\ upstream' = upstream /\ ledger' = ledger
              /\ upstream[KeyOf[task'[r].step]] # Absent
              /\ task'[r].found = upstream[KeyOf[task'[r].step]]
<1>1. task'[r] \in Applying
  BY TypeStep DEF TypeInv, TypeOK, Undoing, EnsureAt
<1>2. ASSUME NEW t \in Steps, StartEnsure(r, t), t = task'[r].step
      PROVE  /\ upstream' = upstream /\ ledger' = ledger
             /\ upstream[KeyOf[t]] # Absent /\ task'[r].found = upstream[KeyOf[t]]
  BY <1>2, StartEnsureDoes DEF StartEnsure
<1>3. CASE task[r] \in Applying /\ task[r] # Idle /\ KeepsStep(r)
  BY <1>3 DEF KeepsStep, Applying
<1>. QED
  BY <1>1, <1>2, <1>3, WorksOn

LEMMA ArtifactsStep ==
    ASSUME TypeInv, KindsInv, ArtifactsInv, [Next]_vars
    PROVE  ArtifactsInv'
<1>1. TypeOK /\ \A n \in Nat : n # NoId
  BY MarkersAreDistinct DEF TypeInv
<1>2. ASSUME NEW k \in Keys, KindOf[k] = "artifact", upstream'[k] # Absent PROVE upstream'[k].id # NoId
  <2>1. CASE upstream'[k] = upstream[k]
    BY <1>2, <2>1 DEF ArtifactsInv
  <2>2. \A r \in Runs : ~(Create(r) /\ SetBy(r, k)) /\ ~(Repoint(r) /\ SetBy(r, k))
    BY <1>2, WhatIsSet DEF SetBy
  <2>3. ~PersonCreates(k)
    BY <1>2 DEF PersonCreates
  <2>4. nextId # NoId
    BY <1>1 DEF TypeOK
  <2>5. CASE upstream'[k] # upstream[k]
    BY <1>2, <2>2, <2>3, <2>4, <2>5, ResourceSteps DEF ArtifactsInv
  <2>. QED
    BY <2>1, <2>5
<1>3. ASSUME NEW k \in Keys, KindOf[k] = "artifact", ledger'[k] # NoEntry PROVE ledger'[k].externalID # NoId
  <2>1. CASE ledger'[k] = ledger[k]
    BY <1>3, <2>1 DEF ArtifactsInv
  <2>2. ASSUME NEW r \in Runs, k = KeyOf[task[r].step], RecordNew(r)
        PROVE  task[r].found # Absent /\ task[r].found.id # NoId
    <3>1. r \in Procs /\ At(r, "record") /\ "record" \in EnsureAt
      BY <2>2 DEF RecordNew, EnsureAt, Procs
    <3>. QED
      BY <1>3, <2>2, <3>1, EnsureFacts DEF At, ArtifactsInv
  <2>3. ASSUME NEW r \in Runs, k = KeyOf[task[r].step], RecordId(r) PROVE FALSE
    BY <1>3, <2>3 DEF RecordId, At, EnsureAt, KindsInv
  <2>4. CASE ledger'[k] # ledger[k]
    BY <1>3, <2>2, <2>3, <2>4, EntrySteps DEF ArtifactsInv
  <2>. QED
    BY <2>1, <2>4
<1>4. ASSUME NEW r \in Runs, task'[r] # Idle, task'[r].at \in EnsureAt,
             KindOf[KeyOf[task'[r].step]] = "artifact"
      PROVE  task'[r].found.id # NoId
  <2>1. task'[r] \in Applying
    BY <1>4, TypeStep DEF TypeInv, TypeOK, Undoing, EnsureAt
  <2>2. KeyOf[task'[r].step] \in Keys
    BY <2>1, ProvisionAssumption DEF Applying
  <2>. QED
    BY <1>4, <2>2, ArtifactTask DEF ArtifactsInv
<1>. QED
  BY <1>2, <1>3, <1>4 DEF ArtifactsInv

LEMMA ArtifactsInit == Init => ArtifactsInv
BY DEF Init, ArtifactsInv

\* Nobody who uses k has begun to give it up.
Standing(k) == \A t \in Steps : KeyOf[t] = k => mode[RunOf[t]] \in {"apply", "undo"}

\* A rollback or a sweep has k on its list, or is deleting it.
InHand(p, k) ==
    \/ (At(p, "delete") \/ At(p, "finish")) /\ task[p].item.key = k
    \/ IsDeleting(p) /\ \E i \in task[p].todo : i.key = k

\* Before its reference is recorded.
Looking == {"entry", "upstream", "record"}

\* While all who claim an artifact stand, no rollback and no sweep ever comes to it: its
\* entry is not given up, the artifact is there under the ID on record, and so is one
\* that is about to be claimed.
ClaimsInv ==
    \A k \in Keys : KindOf[k] = "artifact" /\ Standing(k) =>
        /\ ledger[k] # NoEntry =>
              ~ledger[k].terminating /\ upstream[k] # Absent /\ upstream[k].id = ledger[k].externalID
        /\ \A p \in Procs : ~InHand(p, k)
        /\ \A r \in Runs :
              task[r] # Idle /\ task[r].at \in EnsureAt /\ KeyOf[task[r].step] = k /\ ledger[k] = NoEntry =>
                  task[r].at \in Looking /\ upstream[k] # Absent /\ task[r].found.id = upstream[k].id
        /\ \A t \in ready : KeyOf[t] = k => ledger[k] # NoEntry

\* A run that began to roll back does not come back.
LEMMA StandingBefore ==
    ASSUME TypeInv, [Next]_vars, NEW k \in Keys, Standing(k)'
    PROVE  Standing(k)
<1>1. mode \in [Runs -> {"apply", "undo", "undoing", "gone"}] /\ \A t \in Steps : RunOf[t] \in Runs
  BY ProvisionAssumption DEF TypeInv, TypeOK
<1>2. CASE mode' # mode
  <2>1. PICK r \in Runs : StartRollback(r) \/ EndRollback(r) \/ RequestRollback(r)
    BY <1>2, ModeSteps
  <2>2. \E m \in {"undoing", "gone"} : mode' = [mode EXCEPT ![r] = m]
        \/ (mode[r] = "apply" /\ mode' = [mode EXCEPT ![r] = "undo"])
    BY <1>2, <2>1 DEF StartRollback, EndRollback, RequestRollback
  <2>3. \A q \in Runs : mode'[q] \in {"apply", "undo"} => mode[q] \in {"apply", "undo"}
    BY <1>1, <2>2
  <2>. QED
    BY <1>1, <2>3 DEF Standing
<1>3. CASE mode' = mode
  BY <1>3 DEF Standing
<1>. QED
  BY <1>2, <1>3

\* A rollback comes to what its own run uses, a sweep to what was given up.
LEMMA WhoTakesUp ==
    ASSUME TypeInv, [Next]_vars, NEW p \in Procs, NEW k \in Keys, InHand(p, k)'
    PROVE  InHand(p, k) \/ Abandoned(ledger[k]) \/ ~Standing(k)
<1>1. CASE task'[p] = task[p]
  BY <1>1 DEF InHand, IsDeleting, At
<1>2. CASE task'[p] # task[p]
  <2>1. task'[p] # Idle /\ task'[p].at \in {"next", "delete", "finish"} /\ TypeOK
    BY DEF InHand, IsDeleting, At, TypeInv
  <2>2. task'[p] \notin Applying
    BY <2>1 DEF Applying, EnsureAt
  <2>3. Undo(p) \/ ItemFails(p) \/ ListFails(p) \/ \E i : ReleaseFails(p, i)
    BY <1>2, <2>1, <2>2, WhoMoves
  <2>4. CASE List(p)
    <3>1. At(p, "list") /\ task'[p].at = "next"
      BY <2>4, ListMoves DEF List
    <3>2. PICK i \in task'[p].todo : i.key = k
      BY <3>1 DEF InHand, At
    <3>3. CASE task[p].sweep
      <4>1. task'[p].todo = {[key |-> l, step |-> NoStep, entry |-> ledger[l]] :
                               l \in {m \in Keys : Abandoned(ledger[m])}}
        BY <2>4, <3>3, ListMoves
      <4>. QED
        BY <3>2, <4>1
    <3>4. CASE ~task[p].sweep
      <4>1. task'[p].todo = {[key |-> KeyOf[t], step |-> t, entry |-> ledger[KeyOf[t]]] :
                               t \in {s \in Steps : RunOf[s] = p /\ IsRecorded(s)}}
        BY <2>4, <3>4, ListMoves
      <4>2. PICK t \in Steps : RunOf[t] = p /\ KeyOf[t] = k
        BY <3>2, <4>1
      <4>3. mode[p] = "undoing"
        BY <3>1, <3>4, UndoFacts
      <4>. QED
        BY <4>2, <4>3 DEF Standing
    <3>. QED
      BY <3>3, <3>4
  <2>5. CASE DeleteUpstream(p) \/ Finish(p) \/ ItemFails(p)
    <3>1. /\ IsDeleting(p) /\ task'[p].todo = task[p].todo
          /\ task'[p].at = "next" \/ (task'[p].at = "finish" /\ At(p, "delete") /\ task'[p].item = task[p].item)
      BY <2>5, DeleteUpstreamDoes, ItemGivenUp DEF IsDeleting
    <3>. QED
      BY <3>1 DEF InHand, At
  <2>6. ASSUME NEW i, SweepNext(p, i) PROVE InHand(p, k)
    <3>1. /\ i \in task[p].todo /\ IsDeleting(p) /\ task'[p].todo = task[p].todo \ {i}
          /\ task'[p].item.key = i.key
      BY <2>6, SweepNextDoes DEF IsDeleting, At
    <3>. QED
      BY <3>1 DEF InHand, At
  <2>7. ASSUME NEW i, Release(p, i) PROVE InHand(p, k)
    <3>1. At(p, "next") /\ IsNext(p, i)
      BY <2>7 DEF Release
    <3>2. i \in task[p].todo /\ IsDeleting(p)
      BY <3>1 DEF IsNext, IsDeleting
    <3>3. task'[p].todo = task[p].todo \ {i} /\ (task'[p].at # "next" => task'[p].item.key = i.key)
      BY <2>7, ReleaseDoes
    <3>. QED
      BY <3>2, <3>3 DEF InHand, At
  <2>8. ASSUME NEW i, ReleaseFails(p, i) PROVE InHand(p, k)
    <3>1. At(p, "next")
      BY <2>8 DEF ReleaseFails
    <3>2. task'[p].at = "next" /\ task'[p].todo = task[p].todo \ {i}
      BY <2>8, ReleaseFailsDoes
    <3>. QED
      BY <3>1, <3>2 DEF InHand, IsDeleting, At
  <2>9. ~EndSweep(p) /\ ~ListFails(p)
    <3>1. ASSUME NEW ok \in BOOLEAN, Stop(p) \/ BeginUndo(p, FALSE, ok) PROVE FALSE
      BY <2>1, <3>1, StopMoves, BeginUndoMoves
    <3>2. At(p, "next") \/ At(p, "list") => task[p].ok \in BOOLEAN
      BY UndoFacts
    <3>. QED
      BY <3>1, <3>2 DEF EndSweep, ListFails
  <2>. QED
    BY <2>3, <2>4, <2>5, <2>6, <2>7, <2>8, <2>9 DEF Undo
<1>. QED
  BY <1>1, <1>2

\* A step gets past its look when the ledger has an entry.
LEMMA WhoGetsPast ==
    ASSUME TypeInv, [Next]_vars, NEW r \in Runs, task'[r] # task[r],
           task'[r] # Idle, task'[r].at \in EnsureAt \ Looking
    PROVE  \/ task[r] # Idle /\ task[r].at \in EnsureAt \ Looking /\ task'[r].step = task[r].step
           \/ ledger'[KeyOf[task'[r].step]] # NoEntry
<1> DEFINE Was == task[r] # Idle /\ task[r].at \in EnsureAt \ Looking /\ task'[r].step = task[r].step
<1>1. r \in Procs /\ TypeOK /\ task'[r] \notin Undoing /\ task'[r].at \notin {"entry", "upstream", "record"}
  BY DEF Procs, TypeInv, Undoing, EnsureAt, Looking
<1>2. Ensure(r)
  BY <1>1, WhoMoves
<1>3. \A from \in EnsureAt : At(r, from) => task[r] \in Applying
  BY <1>1, EnsureFacts
<1>4. ~ReadEntry(r) /\ ~ReadUpstream(r) /\ ~\E t \in Steps : StartEnsure(r, t)
  BY <1>1, StartEnsureDoes, ReadEntryDoes, ReadUpstreamDoes
<1>5. ~Stop(r) /\ \A from \in EnsureAt : ~(Retry(r) /\ At(r, from))
  BY <1>1, <1>3, StopMoves, RetryMoves
<1>6. ASSUME NEW from \in EnsureAt \ Looking, At(r, from), NEW to \in EnsureAt, Goto(r, to) PROVE Was
  <2>1. task'[r].step = task[r].step
    BY <1>1, <1>3, <1>6, GotoEnsure
  <2>. QED
    BY <1>6, <2>1 DEF At
<1>. HIDE DEF Was
<1>7. CASE RecordNew(r) \/ RecordJoin(r)
  <2>1. At(r, "record")
    BY <1>7 DEF RecordNew, RecordJoin
  <2>2. Recorded(r) /\ \E m \in BOOLEAN : Opens(task[r].step, m) \/ Joins(task[r].step, m)
    BY <1>5, <1>7, <2>1, RecordNewDoes, RecordJoinDoes DEF EnsureAt
  <2>3. task'[r].step = task[r].step /\ KeyOf[task[r].step] \in Keys
    <3>1. KeyOf[task[r].step] \in Keys
      BY <1>1, <2>1, EnsureFacts DEF EnsureAt
    <3>2. task'[r].step = task[r].step
      BY <1>1, <2>1, <2>2, RecordedGoes
    <3>. QED
      BY <3>1, <3>2
  <2>4. PICK e \in Entry : ledger' = [ledger EXCEPT ![KeyOf[task[r].step]] = e]
    BY <2>2 DEF Opens, Joins
  <2>5. ledger'[KeyOf[task[r].step]] = e
    BY <1>1, <2>3, <2>4, LedgerChange
  <2>. QED
    BY <2>3, <2>5, MarkersAreDistinct
<1>8. CASE Create(r)
  <2>1. At(r, "create") /\ "create" \in EnsureAt \ Looking
    BY <1>8 DEF Create, EnsureAt, Looking
  <2>2. Goto(r, "id") \/ Goto(r, "effect") \/ Goto(r, "done")
    BY <1>5, <1>8, <2>1 DEF Create
  <2>. QED
    BY <1>6, <2>1, <2>2 DEF Was, EnsureAt
<1>9. CASE Effect(r) \/ RecordId(r) \/ Repoint(r) \/ Succeed(r)
  <2>1. Goto(r, "done") /\ \E from \in {"effect", "id", "repoint"} : At(r, from)
    BY <1>5, <1>9 DEF Effect, RecordId, Repoint, Succeed
  <2>2. {"effect", "id", "repoint"} \subseteq EnsureAt \ Looking /\ "done" \in EnsureAt
    BY DEF EnsureAt, Looking
  <2>. QED
    BY <1>6, <2>1, <2>2 DEF Was
<1>. QED
  BY <1>2, <1>4, <1>7, <1>8, <1>9 DEF Ensure

\* What a step of ensure writes is not given up.
LEMMA RecordingIsLive ==
    ASSUME TypeInv, NEW r \in Runs, RecordNew(r) \/ RecordJoin(r) \/ RecordId(r),
           NEW k \in Keys, ledger'[k] # ledger[k]
    PROVE  ledger'[k] # NoEntry /\ ~ledger'[k].terminating
<1>1. PICK t \in Steps : t = task[r].step /\ KeyOf[t] \in Keys
  <2>1. r \in Procs /\ (At(r, "record") \/ At(r, "id"))
    BY DEF RecordNew, RecordJoin, RecordId, Procs
  <2>. QED
    BY <2>1, EnsureFacts DEF EnsureAt
<1>2. \E m \in BOOLEAN : Opens(t, m) \/ Joins(t, m)
  <2>1. ledger' # ledger
    OBVIOUS
  <2>. QED
    BY <1>1, <2>1, RecordNewDoes, RecordJoinDoes, RecordIdDoes
<1>3. PICK e \in Entry : ledger' = [ledger EXCEPT ![KeyOf[t]] = e] /\ ~e.terminating
  BY <1>2 DEF Opens, Joins
<1>4. ledger'[k] = e
  BY <1>1, <1>3, LedgerChange DEF TypeInv
<1>. QED
  BY <1>3, <1>4, MarkersAreDistinct

\* While all who claim it stand, the entry of an artifact neither goes nor is given up.
LEMMA ClaimedEntryStays ==
    ASSUME TypeInv, ClaimsInv, [Next]_vars, NEW k \in Keys, KindOf[k] = "artifact", Standing(k)
    PROVE  /\ ledger[k] # NoEntry => ledger'[k] # NoEntry
           /\ ledger'[k] # NoEntry => ~ledger'[k].terminating
<1>1. CASE ledger'[k] = ledger[k]
  BY <1>1 DEF ClaimsInv
<1>2. CASE ledger'[k] # ledger[k]
  <2>1. \A p \in Procs : ~InHand(p, k)
    BY DEF ClaimsInv
  <2>2. ASSUME NEW p \in Procs, Finish(p), k = task[p].item.key PROVE FALSE
    BY <2>1, <2>2 DEF Finish, InHand
  <2>3. ASSUME NEW p \in Procs, NEW i, Release(p, i) \/ ReleaseFails(p, i), k = i.key PROVE FALSE
    BY <2>1, <2>3 DEF Release, ReleaseFails, IsNext, InHand, IsDeleting
  <2>4. \E r \in Runs : RecordNew(r) \/ RecordJoin(r) \/ RecordId(r)
    BY <1>2, <2>2, <2>3, EntrySteps
  <2>. QED
    BY <1>2, <2>4, RecordingIsLive
<1>. QED
  BY <1>1, <1>2

\* ... and the artifact stays.
LEMMA ArtifactStays ==
    ASSUME ~PeopleDelete, TypeInv, KindsInv, ClaimsInv, [Next]_vars, NEW k \in Keys,
           KindOf[k] = "artifact", Standing(k), upstream[k] # Absent
    PROVE  upstream'[k] # Absent /\ upstream'[k].id = upstream[k].id
<1>1. ASSUME NEW p \in Procs, DeleteUpstream(p), k = task[p].item.key PROVE FALSE
  BY <1>1 DEF DeleteUpstream, ClaimsInv, InHand
<1>2. ~PersonDeletes(k)
  BY DEF PersonDeletes
<1>. QED
  BY <1>1, <1>2, ArtifactStands

\* While people delete nothing, what ClaimsInv says of one artifact stays so.
LEMMA ClaimsStep ==
    ASSUME ~PeopleDelete, TypeInv, KindsInv, ArtifactsInv, ClaimsInv, [Next]_vars
    PROVE  ClaimsInv'
<1>. SUFFICES ASSUME NEW k \in Keys, KindOf[k] = "artifact", Standing(k)'
              PROVE  /\ ledger'[k] # NoEntry => /\ ~ledger'[k].terminating
                                               /\ upstream'[k] # Absent /\ upstream'[k].id = ledger'[k].externalID
                     /\ \A p \in Procs : ~InHand(p, k)'
                     /\ \A r \in Runs :
                           /\ task'[r] # Idle /\ task'[r].at \in EnsureAt /\ KeyOf[task'[r].step] = k
                           /\ ledger'[k] = NoEntry
                           => /\ task'[r].at \in Looking /\ upstream'[k] # Absent
                              /\ task'[r].found.id = upstream'[k].id
                     /\ \A t \in ready' : KeyOf[t] = k => ledger'[k] # NoEntry
  BY DEF ClaimsInv
<1>1. Standing(k)
  BY StandingBefore
<1>2. /\ ledger[k] # NoEntry => ledger'[k] # NoEntry
      /\ ledger'[k] # NoEntry => ~ledger'[k].terminating
  BY <1>1, ClaimedEntryStays
<1>3. ASSUME ledger'[k] # NoEntry
      PROVE  upstream'[k] # Absent /\ upstream'[k].id = ledger'[k].externalID
  <2>1. CASE ledger'[k] = ledger[k]
    BY <1>1, <1>3, <2>1, ArtifactStays DEF ClaimsInv
  <2>2. CASE ledger'[k] # ledger[k]
    <3>1. upstream' = upstream
      BY <2>2, LedgerSteps
    <3>2. ASSUME NEW r \in Runs, RecordNew(r), k = KeyOf[task[r].step], ledger[k] = NoEntry
          PROVE  task[r].found # Absent /\ upstream[k] # Absent /\ task[r].found.id = upstream[k].id
      <4>1. r \in Procs /\ At(r, "record") /\ "record" \in EnsureAt
        BY <3>2 DEF RecordNew, EnsureAt, Procs
      <4>. QED
        BY <1>1, <3>2, <4>1, EnsureFacts DEF At, ClaimsInv
    <3>3. ASSUME NEW r \in Runs, k = KeyOf[task[r].step], RecordId(r) PROVE FALSE
      BY <3>3 DEF RecordId, At, EnsureAt, KindsInv
    <3>4. ledger[k] # NoEntry => upstream[k] # Absent /\ upstream[k].id = ledger[k].externalID
      BY <1>1 DEF ClaimsInv
    <3>. QED
      BY <1>3, <2>2, <3>1, <3>2, <3>3, <3>4, EntrySteps
  <2>. QED
    BY <2>1, <2>2
<1>4. ASSUME NEW p \in Procs, InHand(p, k)' PROVE FALSE
  BY <1>1, <1>4, WhoTakesUp DEF ClaimsInv, Abandoned
<1>5. ASSUME NEW r \in Runs, task'[r] # Idle, task'[r].at \in EnsureAt, KeyOf[task'[r].step] = k,
             ledger'[k] = NoEntry
      PROVE  task'[r].at \in Looking /\ upstream'[k] # Absent /\ task'[r].found.id = upstream'[k].id
  <2>1. ledger[k] = NoEntry
    BY <1>2, <1>5
  <2>2. task'[r].at \in Looking
    <3>1. CASE task'[r] = task[r]
      BY <1>1, <1>5, <2>1, <3>1 DEF ClaimsInv
    <3>2. CASE task'[r] # task[r]
      BY <1>1, <1>5, <2>1, <3>2, WhoGetsPast DEF ClaimsInv
    <3>. QED
      BY <3>1, <3>2
  <2>3. CASE upstream' = upstream /\ upstream[k] # Absent /\ task'[r].found = upstream[k]
    BY <2>2, <2>3
  <2>4. CASE task[r] # Idle /\ task[r].at \in EnsureAt /\ task'[r].step = task[r].step
             /\ task'[r].found = task[r].found
    <3>1. upstream[k] # Absent /\ task[r].found.id = upstream[k].id
      BY <1>1, <1>5, <2>1, <2>4 DEF ClaimsInv
    <3>. QED
      BY <1>1, <2>2, <2>4, <3>1, ArtifactStays
  <2>. QED
    BY <1>5, <2>3, <2>4, ArtifactTask
<1>6. ASSUME NEW t \in ready', KeyOf[t] = k PROVE ledger'[k] # NoEntry
  <2>1. CASE t \in ready
    BY <1>1, <1>2, <1>6, <2>1 DEF ClaimsInv
  <2>2. CASE t \notin ready
    <3>1. PICK r \in Runs : At(r, "done") /\ t = task[r].step
      BY <2>2, ReadySteps
    <3>. QED
      BY <1>1, <1>2, <1>6, <3>1 DEF ClaimsInv, At, EnsureAt, Looking
  <2>. QED
    BY <2>1, <2>2
<1>. QED
  BY <1>2, <1>3, <1>4, <1>5, <1>6

LEMMA ClaimsInit == Init => ClaimsInv
BY DEF Init, ClaimsInv, InHand, IsDeleting, At, Procs

\* Only one run claims an artifact: AddRef does not renew the ID on record.
OneClaimant ==
    \A s, t \in Steps : KeyOf[s] = KeyOf[t] /\ KindOf[KeyOf[t]] = "artifact" => RunOf[s] = RunOf[t]

\* While people delete nothing and one run claims each artifact, the artifact that a
\* succeeded step claimed is there, and its ID on record is the one a rollback deletes,
\* whatever forge rebuilds, whatever fails in between, and even when sweeps overlap
\* deletions: what stands is on nobody's list.
THEOREM ClaimsStayCurrent == ~PeopleDelete /\ OneClaimant => (Spec => []ClaimedIsCurrent)
<1>. SUFFICES ASSUME ~PeopleDelete, OneClaimant PROVE Spec => []ClaimedIsCurrent
  OBVIOUS
<1>1. TypeInv /\ KindsInv /\ ArtifactsInv /\ ClaimsInv /\ [Next]_vars
          => (TypeInv /\ KindsInv /\ ArtifactsInv /\ ClaimsInv)'
  BY TypeStep, KindsStep, ArtifactsStep, ClaimsStep
<1>2. TypeInv /\ ClaimsInv => ClaimedIsCurrent
  <2>. SUFFICES ASSUME TypeInv, ClaimsInv, NEW t \in ready,
                       mode[RunOf[t]] = "apply", KindOf[KeyOf[t]] = "artifact"
                PROVE  Hits(KeyOf[t], ledger[KeyOf[t]])
    BY DEF ClaimedIsCurrent
  <2>1. t \in Steps /\ KeyOf[t] \in Keys
    BY ProvisionAssumption DEF TypeInv, TypeOK
  <2>2. Standing(KeyOf[t])
    BY <2>1 DEF Standing, OneClaimant
  <2>. QED
    BY <2>1, <2>2 DEF ClaimsInv, Hits
<1>. QED
  BY <1>1, <1>2, TypeInit, KindsInit, ArtifactsInit, ClaimsInit, PTL DEF Spec

-----------------------------------------------------------------------------
(* What is used can be rolled back. *)

\* Nothing fails where there are tags, and setting a tag takes one call.
TagsAreSafe ==
    \A case \in Cases : \A t \in DOMAIN case :
        KindOf[KeyOf[t]] = "tag" => MaxFaults(case) = 0 /\ ~TwoCalls(case[t])

\* What that says of what the runs ask for: it is so from the start, or there is no tag.
NothingFails ==
    /\ MaxFaults(asks) = 0
    /\ \A t \in DOMAIN asks : KindOf[KeyOf[t]] = "tag" => ~TwoCalls(asks[t])

\* Only what was asked for succeeds.
AskedFirst == ready \subseteq DOMAIN asks

LEMMA AskedFirstStep ==
    ASSUME TypeInv, AskedFirst, [Next]_vars
    PROVE  AskedFirst'
<1>. SUFFICES ASSUME NEW t \in ready' \ ready PROVE t \in DOMAIN asks
  BY AsksStay DEF AskedFirst
<1>1. PICK r \in Runs : At(r, "done") /\ t = task[r].step
  BY ReadySteps
<1>. QED
  BY <1>1 DEF TypeInv, KnowsItsPlace, KnowsPlace, Procs, At, EnsureAt

\* After its reference is recorded.
Setting == {"create", "id", "repoint", "done"}

\* Whoever is on record as a user of a tag has it, is setting it, or is rolling back.
TagUsers ==
    \A t \in Steps : KindOf[KeyOf[t]] = "tag" /\ IsRecorded(t) =>
        \/ t \in ready /\ Stands(RunOf[t])
        \/ (\E at \in Setting : At(RunOf[t], at)) /\ task[RunOf[t]].step = t
        \/ task[RunOf[t]] \in Undoing

\* A tag that a step counts on stands under the ID on record.
TagsHit ==
    \A t \in ready : Stands(RunOf[t]) /\ KindOf[KeyOf[t]] = "tag" => Hits(KeyOf[t], ledger[KeyOf[t]])

\* A step that sets a tag has the ID of the artifact that stands, and so has the entry
\* once it need not be told.
SetsIts(r) ==
    LET k == KeyOf[task[r].step]
    IN  KindOf[k] = "tag" /\ (\E at \in Setting \cup {"record", "effect"} : At(r, at)) =>
            /\ TargetStands(r) /\ ~At(r, "effect")
            /\ At(r, "record") /\ task[r].found # Absent => task[r].found.id = task[r].target
            /\ At(r, "id") \/ At(r, "done") => upstream[k] # Absent
            /\ At(r, "repoint") \/ At(r, "done") => ledger[k].externalID = task[r].target

\* The parts of the invariant that the lemmas rest on, and those they keep.
TagBase ==
    /\ TypeInv /\ ProvisionInv /\ UsersRecorded /\ TagsAreClaimed /\ AloneInv /\ KindsInv /\ ArtifactsInv
    /\ ListsItsUsers /\ \A r \in Runs : ListsAll(r)
TagsInv == TagUsers /\ TagsHit /\ \A r \in Runs : SetsIts(r)

\* The artifact of a tag stays while a run that waited for it stands.
LEMMA TargetStays ==
    ASSUME ~PeopleDelete, TagBase, [Next]_vars, NEW t \in Steps, KindOf[KeyOf[t]] = "tag",
           Stands(RunOf[t]), IsClaimed(t), NEW a \in Keys, a = ArtifactOf[KeyOf[t]], upstream[a] # Absent
    PROVE  upstream'[a] # Absent /\ upstream'[a].id = upstream[a].id
<1>1. PICK s \in After[t] : s \in ready /\ KeyOf[s] = a
  BY DEF IsClaimed
<1>2. RunOf[s] = RunOf[t] /\ KindOf[a] = "artifact"
  BY <1>1, ProvisionAssumption
<1>3. ASSUME NEW p \in Procs, DeleteUpstream(p), a = task[p].item.key PROVE FALSE
  BY <1>1, <1>2, <1>3, InUseIsSpared DEF TagBase, GoesWith
<1>4. ~PersonDeletes(a)
  BY DEF PersonDeletes
<1>. QED
  BY <1>2, <1>3, <1>4, ArtifactStands DEF TagBase

\* ... and the tag of a run that stands stays as it is.
LEMMA TagStays ==
    ASSUME ~PeopleDelete, TagBase, [Next]_vars, NEW t \in Steps, KindOf[KeyOf[t]] = "tag",
           Stands(RunOf[t]), IsClaimed(t), IsRecorded(t), NEW k \in Keys, k = KeyOf[t], upstream[k] # Absent
    PROVE  upstream'[k] # Absent /\ upstream'[k].id = upstream[k].id
<1>1. PICK a \in Keys : a = ArtifactOf[k]
  BY ProvisionAssumption
<1>2. upstream[a] # Absent /\ upstream[a].id = upstream[k].id
  BY <1>1 DEF TagBase, KindsInv
<1>3. upstream'[a] # Absent /\ upstream'[a].id = upstream[a].id
  BY <1>1, <1>2, TargetStays
<1>4. ASSUME NEW l, GoesWith(k, l), upstream' = Without(l), NEW p \in Procs, DeleteUpstream(p), l = task[p].item.key
      PROVE  FALSE
  <2>1. CASE l = k
    BY <1>4, <2>1, DeletedIsClaimed DEF TagBase, IsRecorded, Abandoned
  <2>2. CASE l = a
    BY <1>3, <1>4, <2>2 DEF Without
  <2>. QED
    BY <1>1, <1>4, <2>1, <2>2 DEF GoesWith
<1>5. upstream'[k] # Absent
  <2>1. ~PersonCreates(k) /\ ~ForgeBuilds(k) /\ \A l : ~PersonDeletes(l)
    BY DEF PersonCreates, ForgeBuilds, PersonDeletes
  <2>2. \A r \in Runs : SetBy(r, k) => upstream'[k] # Absent
    BY MarkersAreDistinct DEF SetBy
  <2>3. CASE upstream'[k] # upstream[k]
    BY <1>4, <2>1, <2>2, <2>3, MarkersAreDistinct, ResourceSteps DEF TagBase
  <2>. QED
    BY <2>3
<1>6. KindsInv'
  BY KindsStep DEF TagBase
<1>. QED
  BY <1>1, <1>2, <1>3, <1>5, <1>6 DEF KindsInv

\* Without faults a step of ensure goes on by itself, and a rollback ends by itself.
LEMMA GoesOnItself ==
    ASSUME NothingFails, TypeInv, [Next]_vars, NEW r \in Runs, task[r] # Idle, task'[r] # task[r]
    PROVE  Ensure(r) \/ Undo(r) \/ EndRollback(r)
<1>1. /\ r \in Procs /\ r # Sweeper /\ TypeOK /\ faults = 0 /\ MaxFaults(asks) = 0
      /\ Sweeper \in Procs /\ \A q \in Runs : q \in Procs
  BY ProvisionAssumption DEF NothingFails, Procs, TypeInv, TypeOK
<1>2. \A q \in Procs : OnlyMoves(q) => q = r
  BY <1>1 DEF OnlyMoves, TypeOK, Procs
<1>3. ~Faults
  BY <1>1 DEF Faults, Fault, EnsureFails, ItemFails, ListFails, ReleaseFails, Crash
<1>4. ASSUME NEW p \in Procs, Undo(p) PROVE p = r
  BY <1>2, <1>4, UndoMoves
<1>5. ASSUME NEW q \in Runs, Ensure(q) PROVE q = r
  BY <1>1, <1>2, <1>5, EnsureMoves
<1>6. ASSUME NEW q \in Runs, StartRollback(q) PROVE FALSE
  <2>1. q = r
    BY <1>1, <1>2, <1>6, BeginUndoMoves DEF StartRollback
  <2>. QED
    BY <1>6, <2>1 DEF StartRollback
<1>7. ASSUME NEW q \in Runs, EndRollback(q) PROVE q = r
  BY <1>1, <1>2, <1>7, StopMoves DEF EndRollback
<1>8. ~StartSweep
  BY <1>1, <1>2, BeginUndoMoves DEF StartSweep
<1>9. ~UNCHANGED vars /\ ~EditConfig /\ \A q \in Runs : ~RequestRollback(q)
  BY DEF vars, EditConfig, RequestRollback
<1>10. \A k \in Keys : ~PersonCreates(k) /\ ~PersonDeletes(k) /\ ~ForgeBuilds(k)
  BY DEF PersonCreates, PersonDeletes, ForgeBuilds
<1>. QED
  BY <1>1, <1>3, <1>4, <1>5, <1>6, <1>7, <1>8, <1>9, <1>10 DEF Next, Rollback, Sweep

\* The step that r works on, as far as a tag is concerned.
LEMMA TagTask ==
    ASSUME TagBase, NEW r \in Runs, NEW at \in EnsureAt, At(r, at), KindOf[KeyOf[task[r].step]] = "tag"
    PROVE  LET t == task[r].step IN
           /\ task[r] # Idle /\ task[r] \in Applying /\ task[r].at = at
           /\ t \in Steps /\ t \in DOMAIN asks /\ KeyOf[t] \in Keys /\ RunOf[t] = r /\ Stands(r) /\ IsClaimed(t)
           /\ at \in Setting => IsRecorded(t) /\ ~ledger[KeyOf[t]].terminating
<1>1. r \in Procs /\ TypeInv
  BY DEF Procs, TagBase
<1>2. /\ task[r] # Idle /\ task[r] \in Applying /\ task[r].at = at /\ task[r].step \in Steps
      /\ task[r].step \in DOMAIN asks /\ KeyOf[task[r].step] \in Keys
      /\ RunOf[task[r].step] = r /\ mode[r] \in {"apply", "undo"}
  BY <1>1, EnsureFacts
<1>3. IsClaimed(task[r].step)
  BY <1>2 DEF TagBase, TagsAreClaimed
<1>4. ASSUME at \in Setting PROVE IsRecorded(task[r].step)
  BY <1>1, <1>2, <1>4 DEF TagBase, ProvisionInv, Sound, RecordsFirst, Setting
<1>5. at \in Setting => ~ledger[KeyOf[task[r].step]].terminating
  BY <1>2, <1>4 DEF IsRecorded, TagBase, ProvisionInv, GivenUpWhenUnused
<1>. QED
  BY <1>2, <1>3, <1>4, <1>5 DEF Stands

\* Whoever joins the entry of a tag finds it with the ID that it has.
LEMMA JoinsTheRight ==
    ASSUME TagBase, TagsInv, NEW r \in Runs, At(r, "record"), task[r].seen # NoEntry,
           NEW k \in Keys, k = KeyOf[task[r].step], KindOf[k] = "tag"
    PROVE  ledger[k].externalID = task[r].target
<1>1. ledger[k] # NoEntry /\ ~ledger[k].terminating
  BY DEF TagBase, AloneInv, SeesTheEntry
<1>2. PICK u \in ledger[k].refs : TRUE
  BY <1>1 DEF TagBase, ProvisionInv, GivenUpWhenUnused
<1>3. u \in Steps /\ KeyOf[u] = k /\ IsRecorded(u)
  BY <1>1, <1>2 DEF TagBase, ListsItsUsers, IsRecorded, TypeInv, TypeOK, Entry
<1>4. u \in ready /\ Stands(RunOf[u])
  <2>1. RunOf[u] \in Runs /\ (task[RunOf[u]] # Idle => RunOf[u] = r)
    BY <1>3, ProvisionAssumption DEF TagBase, AloneInv, OneAtATime, At
  <2>2. task[r] # Idle /\ task[r] \in Applying /\ task[r].at = "record"
    BY TagTask DEF EnsureAt
  <2>3. \A at \in Setting : ~At(r, at)
    BY <2>2 DEF At, Setting
  <2>4. task[RunOf[u]] \notin Undoing
    BY <2>1, <2>2, MarkersAreDistinct DEF Applying, Undoing, EnsureAt
  <2>5. \A at \in Setting : ~At(RunOf[u], at)
    BY <2>1, <2>3 DEF At
  <2>. QED
    BY <1>3, <2>4, <2>5 DEF TagsInv, TagUsers
<1>5. Hits(k, ledger[k])
  BY <1>3, <1>4 DEF TagsInv, TagsHit
<1>6. TargetStands(r)
  BY DEF TagsInv, SetsIts
<1>. QED
  BY <1>5, <1>6 DEF Hits, TargetStands, TagBase, KindsInv

\* The ID on record of a tag whose entry is in use changes only to the one it has.
LEMMA IdStays ==
    ASSUME TagBase, TagsInv, [Next]_vars, NEW t \in Steps, IsRecorded(t), NEW k \in Keys, k = KeyOf[t],
           KindOf[k] = "tag"
    PROVE  \/ ledger'[k].externalID = ledger[k].externalID
           \/ /\ \E r \in Runs : At(r, "id")
              /\ upstream[k] # Absent => ledger'[k].externalID = upstream[k].id
<1>1. CASE ledger'[k] = ledger[k]
  BY <1>1
<1>2. CASE ledger'[k] # ledger[k]
  <2>1. ledger[k] # NoEntry /\ ~Abandoned(ledger[k]) /\ TypeInv
    BY DEF IsRecorded, Abandoned, TagBase
  <2>2. ASSUME NEW p \in Procs, Finish(p), k = task[p].item.key PROVE FALSE
    <3>1. k \in Claims(p)
      BY <2>2 DEF Finish, Claims
    <3>. QED
      BY <2>1, <3>1, ClaimedIsAbandoned DEF TagBase, ProvisionInv, Sound
  <2>3. ASSUME NEW r \in Runs, RecordId(r), k = KeyOf[task[r].step]
        PROVE  /\ upstream' = upstream /\ At(r, "id")
               /\ upstream[k] # Absent => CreatedId(r) = upstream[k].id
    <3>1. At(r, "id") /\ upstream' = upstream
      BY <2>3 DEF RecordId
    <3>2. TargetStands(r)
      BY <2>3, <3>1 DEF TagsInv, SetsIts, Setting
    <3>. QED
      BY <2>3, <3>1, <3>2 DEF TargetStands, CreatedId, TagBase, KindsInv
  <2>. QED
    BY <1>2, <2>1, <2>2, <2>3, EntrySteps
<1>. QED
  BY <1>1, <1>2

\* What a step that sets a tag knows stays so ...
LEMMA KeepsSetting ==
    ASSUME ~PeopleDelete, TagBase, TagsInv, [Next]_vars, NEW r \in Runs, task'[r] = task[r]
    PROVE  SetsIts(r)'
<1> DEFINE t == task[r].step
           k == KeyOf[t]
           a == ArtifactOf[k]
<1>. SUFFICES ASSUME KindOf[k] = "tag", NEW at \in Setting \cup {"record", "effect"}, At(r, at)
              PROVE  SetsIts(r)'
  BY DEF SetsIts, At
<1>1. at \in EnsureAt
  BY DEF Setting, EnsureAt
<1>2. /\ t \in Steps /\ k \in Keys /\ RunOf[t] = r /\ Stands(r) /\ IsClaimed(t) /\ task[r].at = at
      /\ at \in Setting => IsRecorded(t)
  BY <1>1, TagTask
<1>3. /\ TargetStands(r) /\ ~At(r, "effect")
      /\ At(r, "record") /\ task[r].found # Absent => task[r].found.id = task[r].target
      /\ At(r, "id") \/ At(r, "done") => upstream[k] # Absent
      /\ At(r, "repoint") \/ At(r, "done") => ledger[k].externalID = task[r].target
  BY DEF TagsInv, SetsIts
<1>4. a \in Keys /\ upstream[a] # Absent /\ upstream[a].id = task[r].target
  BY <1>2, <1>3, ProvisionAssumption DEF TargetStands
<1>5. upstream'[a] # Absent /\ upstream'[a].id = task[r].target
  BY <1>2, <1>4, TargetStays
<1>6. At(r, "id") \/ At(r, "done") => upstream'[k] # Absent
  <2>1. At(r, "id") \/ At(r, "done") => IsRecorded(t)
    BY <1>2 DEF At, Setting
  <2>. QED
    BY <1>2, <1>3, <2>1, TagStays
<1>7. ASSUME At(r, "repoint") \/ At(r, "done") PROVE ledger'[k].externalID = task[r].target
  <2>1. IsRecorded(t)
    BY <1>2, <1>7 DEF At, Setting
  <2>2. \A q \in Runs : ~At(q, "id")
    BY <1>2, <1>7 DEF TagBase, AloneInv, OneAtATime, At
  <2>. QED
    BY <1>2, <1>3, <1>7, <2>1, <2>2, IdStays
<1>8. TargetStands(r)'
  BY <1>5 DEF TargetStands
<1>. QED
  BY <1>3, <1>6, <1>7, <1>8 DEF SetsIts, At

\* ... and each of its requests adds what the next one counts on.
LEMMA GoesOnSetting ==
    ASSUME NothingFails, TagBase, TagsInv, [Next]_vars, NEW r \in Runs, task'[r] # task[r],
           NEW at \in Setting \cup {"record", "effect"}, At(r, at)', KindOf[KeyOf[task'[r].step]] = "tag"
    PROVE  SetsIts(r)'
<1> DEFINE t == task[r].step
           k == KeyOf[t]
           a == ArtifactOf[k]
<1>1. r \in Procs /\ TypeInv /\ TypeOK /\ task'[r] # Idle /\ task'[r].at = at
  BY DEF At, Procs, TagBase, TypeInv
<1>2. task'[r] \notin Undoing
  BY <1>1 DEF Undoing, Setting
<1>3. Ensure(r)
  BY <1>1, <1>2, WhoMoves
<1>4. ~(\E s \in Steps : StartEnsure(r, s)) /\ ~ReadEntry(r)
  BY <1>1, StartEnsureDoes, ReadEntryDoes DEF Setting
<1>5. ~Stop(r) /\ \A from \in EnsureAt : ~(Retry(r) /\ At(r, from))
  BY <1>1, EnsureFacts, StopMoves, RetryMoves DEF Setting
<1>6. KeepsStep(r) /\ KindOf[k] = "tag"
  <2>1. GoesOn(r)
    BY <1>3, <1>4, <1>5, ReadUpstreamDoes, RecordNewDoes, RecordJoinDoes, CreateDoes,
       EffectDoes, RecordIdDoes, RepointDoes DEF Ensure, Succeed, TagBase
  <2>. QED
    BY <1>1, <1>2, <2>1 DEF GoesOn, KeepsStep
<1>7. \A from \in EnsureAt : At(r, from) =>
         /\ task[r] \in Applying /\ task[r].at = from /\ t \in Steps /\ t \in DOMAIN asks /\ k \in Keys
         /\ a \in Keys /\ a # k
  BY <1>6, TagTask, ProvisionAssumption
<1>8. CASE ReadUpstream(r)
  <2>1. At(r, "upstream") /\ upstream' = upstream /\ "upstream" \in EnsureAt
    BY <1>8 DEF ReadUpstream, EnsureAt
  <2>2. TargetStands(r) /\ task'[r].at = "record" /\ task'[r].found = upstream[k]
    BY <1>1, <1>6, <1>8, ReadUpstreamDoes
  <2>3. upstream[k] # Absent => upstream[k].id = task[r].target
    BY <1>6, <1>7, <2>1, <2>2 DEF TargetStands, TagBase, KindsInv
  <2>. QED
    BY <1>6, <2>1, <2>2, <2>3 DEF SetsIts, TargetStands, KeepsStep, At
<1>9. CASE RecordNew(r) \/ RecordJoin(r)
  <2>1. At(r, "record") /\ "record" \in EnsureAt /\ upstream' = upstream /\ Recorded(r)
    BY <1>5, <1>9 DEF RecordNew, RecordJoin, EnsureAt
  <2>2. task'[r].at = IF task[r].found = Absent THEN "create" ELSE "repoint"
    BY <1>1, <1>6, <2>1, RecordedGoes
  <2>3. TargetStands(r) /\ (task[r].found # Absent => task[r].found.id = task[r].target)
    BY <1>6, <2>1 DEF TagsInv, SetsIts
  <2>4. ASSUME task[r].found # Absent PROVE ledger'[k].externalID = task[r].target
    <3>1. CASE RecordNew(r)
      <4>1. PICK e \in Entry : ledger' = [ledger EXCEPT ![k] = e] /\ e.refs = {t} /\ ledger[k] = NoEntry
        BY <1>1, <1>5, <2>1, <3>1, RecordNewDoes DEF Opens
      <4>2. ledger'[k] # ledger[k]
        BY <1>1, <1>7, <2>1, <4>1, LedgerChange, MarkersAreDistinct
      <4>3. \A p \in Procs : ~Finish(p) \/ ledger'[k] # NoEntry
        BY <1>1, <1>7, <2>1, <4>1, LedgerChange, MarkersAreDistinct
      <4>4. \E q \in Runs : /\ RecordNew(q) /\ k = KeyOf[task[q].step]
                            /\ ledger'[k].externalID = IF task[q].found = Absent THEN NoId ELSE task[q].found.id
        BY <1>1, <1>6, <1>7, <2>1, <4>1, <4>2, <4>3, EntrySteps
      <4>5. PICK q \in Runs : /\ RecordNew(q)
                              /\ ledger'[k].externalID = IF task[q].found = Absent THEN NoId ELSE task[q].found.id
        BY <4>4
      <4>6. q = r
        BY <2>1, <4>5 DEF RecordNew, At, TagBase, AloneInv, OneAtATime
      <4>. QED
        BY <2>3, <2>4, <4>5, <4>6
    <3>2. CASE RecordJoin(r)
      <4>1. ledger[k].externalID = task[r].target
        BY <1>6, <1>7, <2>1, <3>2, JoinsTheRight DEF RecordJoin
      <4>2. ledger[k] # NoEntry
        BY <2>1, <3>2 DEF RecordJoin, TagBase, AloneInv, SeesTheEntry
      <4>3. \A q \in Runs : ~RecordId(q)
        BY <1>7, <2>1 DEF RecordId, At, TagBase, AloneInv, OneAtATime
      <4>4. ~Closes(k)
        <5>1. PICK e \in Entry : ledger' = [ledger EXCEPT ![k] = e]
          BY <1>1, <1>5, <2>1, <3>2, RecordJoinDoes DEF Joins
        <5>. QED
          BY <1>1, <1>7, <2>1, <5>1, LedgerChange, MarkersAreDistinct DEF Closes
      <4>5. \A p \in Procs : Finish(p) => k # task[p].item.key
        BY <4>4 DEF Finish, Closes
      <4>6. ledger'[k].externalID = ledger[k].externalID
        BY <1>1, <1>7, <2>1, <4>2, <4>3, <4>5, EntrySteps
      <4>. QED
        BY <4>1, <4>6
    <3>. QED
      BY <1>9, <3>1, <3>2
  <2>. QED
    BY <1>6, <2>1, <2>2, <2>3, <2>4 DEF SetsIts, TargetStands, KeepsStep, At
<1>10. CASE Create(r)
  <2>1. At(r, "create") /\ "create" \in EnsureAt
    BY <1>10 DEF Create, EnsureAt
  <2>2. /\ upstream' = [upstream EXCEPT ![k] = Moved(r)] /\ Moved(r) \in Resource /\ TargetStands(r)
        /\ Goto(r, IF TwoCalls(asks[t]) THEN "effect" ELSE IF CreatedId(r) # NoId THEN "id" ELSE "done")
    BY <1>1, <1>5, <1>6, <1>10, <2>1, CreateDoes
  <2>3. ~TwoCalls(asks[t])
    BY <1>1, <1>6, <1>7, <2>1 DEF NothingFails, TypeOK
  <2>4. CreatedId(r) # NoId
    <3>1. KindOf[a] = "artifact"
      BY <1>6, <1>7, <2>1, ProvisionAssumption
    <3>. QED
      BY <1>6, <1>7, <2>1, <2>2, <3>1 DEF CreatedId, TargetStands, TagBase, ArtifactsInv
  <2>5. task'[r].at = "id"
    BY <1>1, <1>7, <2>1, <2>2, <2>3, <2>4, GotoEnsure DEF EnsureAt
  <2>6. upstream'[k] # Absent /\ upstream'[a] = upstream[a]
    BY <1>1, <1>7, <2>1, <2>2, MarkersAreDistinct DEF TypeOK
  <2>. QED
    BY <1>6, <2>2, <2>5, <2>6 DEF SetsIts, TargetStands, KeepsStep, At
<1>11. ~Effect(r)
  BY <1>6 DEF Effect, TagsInv, SetsIts
<1>12. CASE RecordId(r)
  <2>1. At(r, "id") /\ "id" \in EnsureAt /\ upstream' = upstream /\ Goto(r, "done")
    BY <1>5, <1>12 DEF RecordId, EnsureAt
  <2>2. task'[r].at = "done"
    BY <1>1, <1>7, <2>1, GotoEnsure DEF EnsureAt
  <2>3. TargetStands(r) /\ upstream[k] # Absent
    BY <1>6, <2>1 DEF TagsInv, SetsIts, Setting
  <2>4. ledger'[k].externalID = task[r].target
    <3>1. PICK e \in Entry : e.externalID = task[r].target /\ ledger' = [ledger EXCEPT ![k] = e]
      <4> DEFINE e == Joined(ledger[k], t, FALSE)
                 f == [e EXCEPT !.externalID = CreatedId(r)]
      <4>1. ledger[k] # NoEntry /\ ~ledger[k].terminating /\ ledger' = [ledger EXCEPT ![k] = f]
        BY <1>5, <1>12 DEF RecordId
      <4>2. ledger[k] \in Entry /\ CreatedId(r) \in Ids
        BY <1>1, <1>7, <2>1, <4>1 DEF TypeOK, CreatedId, Applying
      <4>3. e \in Entry
        BY <1>7, <2>1, <4>2, JoinedAsIs
      <4>. HIDE DEF e
      <4>4. f \in Entry /\ f.externalID = CreatedId(r)
        BY <4>2, <4>3, WithIdFields
      <4>. HIDE DEF f
      <4>. QED
        BY <4>1, <4>4 DEF CreatedId
    <3>. QED
      BY <1>1, <1>7, <2>1, <3>1, LedgerChange
  <2>. QED
    BY <1>6, <2>1, <2>2, <2>3, <2>4 DEF SetsIts, TargetStands, KeepsStep, At
<1>13. CASE Repoint(r)
  <2>1. At(r, "repoint") /\ "repoint" \in EnsureAt /\ ledger' = ledger
    BY <1>13 DEF Repoint, EnsureAt
  <2>2. /\ upstream' = [upstream EXCEPT ![k] = Moved(r)] /\ Moved(r) \in Resource /\ TargetStands(r)
        /\ Goto(r, "done")
    BY <1>1, <1>5, <1>13, RepointDoes
  <2>3. task'[r].at = "done"
    BY <1>1, <1>7, <2>1, <2>2, GotoEnsure DEF EnsureAt
  <2>4. upstream'[k] # Absent /\ upstream'[a] = upstream[a]
    BY <1>1, <1>7, <2>1, <2>2, MarkersAreDistinct DEF TypeOK
  <2>5. ledger[k].externalID = task[r].target
    BY <1>6, <2>1 DEF TagsInv, SetsIts, Setting
  <2>. QED
    BY <1>6, <2>1, <2>2, <2>3, <2>4, <2>5 DEF SetsIts, TargetStands, KeepsStep, At
<1>. QED
  BY <1>3, <1>4, <1>5, <1>8, <1>9, <1>10, <1>11, <1>12, <1>13 DEF Ensure, Succeed

LEMMA TagsHitStep ==
    ASSUME ~PeopleDelete, TagBase, TagsInv, [Next]_vars
    PROVE  TagsHit'
<1>. SUFFICES ASSUME NEW t \in ready', Stands(RunOf[t])', NEW k, k = KeyOf[t], KindOf[k] = "tag"
              PROVE  Hits(k, ledger[k])'
  BY DEF TagsHit
<1>1. TypeInv /\ TypeOK
  BY DEF TagBase, TypeInv
<1>2. CASE t \in ready
  <2>1. t \in Steps /\ k \in Keys /\ RunOf[t] \in Runs
    BY <1>1, <1>2, ProvisionAssumption DEF TypeOK
  <2>2. Stands(RunOf[t]) /\ IsClaimed(t)
    BY <1>1, <1>2, <2>1, StoodBefore DEF TagBase, TagsAreClaimed
  <2>3. IsRecorded(t) /\ Hits(k, ledger[k])
    BY <1>2, <2>2 DEF TagBase, UsersRecorded, TagsInv, TagsHit
  <2>4. upstream'[k] # Absent /\ upstream'[k].id = upstream[k].id
    BY <2>1, <2>2, <2>3, TagStays DEF Hits
  <2>5. ledger'[k].externalID = ledger[k].externalID \/ ledger'[k].externalID = upstream[k].id
    BY <2>1, <2>3, IdStays DEF Hits
  <2>. QED
    BY <2>3, <2>4, <2>5 DEF Hits
<1>3. CASE t \notin ready
  <2>1. PICK r \in Runs : Succeed(r) /\ At(r, "done") /\ t = task[r].step
    BY <1>3, ReadySteps
  <2>2. ledger' = ledger /\ upstream' = upstream
    BY <2>1 DEF Succeed
  <2>3. TargetStands(r) /\ upstream[k] # Absent /\ ledger[k].externalID = task[r].target /\ k \in Keys
    BY <2>1, TagTask DEF TagsInv, SetsIts, Setting, EnsureAt
  <2>. QED
    BY <2>2, <2>3, <2>1 DEF Hits, TargetStands, TagBase, KindsInv
<1>. QED
  BY <1>2, <1>3

\* A run stands until it begins to roll back.
LEMMA WhoFalls ==
    ASSUME TypeInv, ProvisionInv, [Next]_vars, NEW r \in Runs, Stands(r), ~Stands(r)'
    PROVE  task'[r] \in Undoing
<1>1. mode \in [Runs -> {"apply", "undo", "undoing", "gone"}] /\ r \in Procs /\ TypeOK
  BY DEF TypeInv, TypeOK, Procs
<1>2. PICK q \in Runs : StartRollback(q) \/ EndRollback(q) \/ RequestRollback(q)
  BY ModeSteps DEF Stands
<1>3. ~RequestRollback(q)
  BY <1>1 DEF RequestRollback, Stands
<1>4. ASSUME EndRollback(q) PROVE FALSE
  <2>1. mode[q] = "undoing"
    BY <1>4, UndoFacts, ProvisionAssumption DEF EndRollback, Procs
  <2>2. mode' = mode \/ mode' = [mode EXCEPT ![q] = "gone"]
    BY <1>4 DEF EndRollback
  <2>. QED
    BY <1>1, <2>1, <2>2 DEF Stands
<1>5. StartRollback(q) /\ q = r
  BY <1>1, <1>2, <1>3, <1>4 DEF StartRollback, Stands
<1>. QED
  BY <1>1, <1>5, BeginUndoMoves DEF StartRollback

LEMMA TagUsersStep ==
    ASSUME NothingFails, TagBase, TagsInv, [Next]_vars
    PROVE  TagUsers'
<1>. SUFFICES ASSUME NEW t \in Steps, KindOf[KeyOf[t]] = "tag", IsRecorded(t)'
              PROVE  \/ t \in ready' /\ Stands(RunOf[t])'
                     \/ (\E at \in Setting : At(RunOf[t], at)') /\ task'[RunOf[t]].step = t
                     \/ task'[RunOf[t]] \in Undoing
  BY DEF TagUsers
<1>1. PICK r \in Runs : r = RunOf[t]
  BY ProvisionAssumption
<1>2. r \in Procs /\ r # Sweeper /\ TypeInv /\ TypeOK /\ KeyOf[t] \in Keys
  BY ProvisionAssumption DEF Procs, TagBase, TypeInv
<1>3. CASE ~IsRecorded(t)
  <2>1. PICK q \in Runs : (RecordNew(q) \/ RecordJoin(q) \/ RecordId(q)) /\ t = task[q].step
    BY <1>2, <1>3, WhoRecords
  <2>2. At(q, "record")
    <3>1. ~At(q, "id")
      BY <1>3, <2>1, TagTask DEF EnsureAt, Setting
    <3>. QED
      BY <2>1, <3>1 DEF RecordNew, RecordJoin, RecordId
  <2>3. q = r
    BY <1>1, <2>1, <2>2, TagTask DEF EnsureAt
  <2>4. Recorded(r)
    <3>1. ledger' # ledger
      BY <1>3 DEF IsRecorded
    <3>2. ~RecordId(r)
      BY <1>2, <2>2, <2>3 DEF RecordId, At
    <3>. QED
      BY <1>2, <2>1, <2>3, <3>1, <3>2, RecordNewDoes, RecordJoinDoes
  <2>5. task'[r] # Idle /\ task'[r].at \in {"create", "repoint"} /\ task'[r].step = t
    BY <1>2, <2>1, <2>2, <2>3, <2>4, RecordedGoes
  <2>. QED
    BY <1>1, <2>5 DEF At, Setting
<1>4. CASE IsRecorded(t) /\ t \in ready /\ Stands(r)
  <2>1. t \in ready'
    <3>1. ASSUME NEW q \in Runs, EndRollback(q), q = r PROVE FALSE
      BY <1>2, <1>4, <3>1, UndoFacts DEF EndRollback, Stands
    <3>. QED
      BY <1>1, <1>4, <3>1, ReadyStays DEF Succeed
  <2>. QED
    BY <1>1, <1>2, <1>4, <2>1, WhoFalls DEF TagBase
<1>5. ASSUME IsRecorded(t), NEW at \in Setting, At(r, at), task[r].step = t
      PROVE  \/ t \in ready' /\ Stands(r)'
             \/ (\E to \in Setting : At(r, to)') /\ task'[r].step = t
  <2>1. CASE task'[r] = task[r]
    BY <1>5, <2>1 DEF At
  <2>2. CASE task'[r] # task[r]
    <3>1. /\ task[r] # Idle /\ task[r] \in Applying /\ task[r].at = at /\ t \in DOMAIN asks
          /\ Stands(r) /\ ledger[KeyOf[t]] # NoEntry /\ ~ledger[KeyOf[t]].terminating /\ at \in EnsureAt
      BY <1>5, TagTask DEF IsRecorded, Setting, EnsureAt
    <3>2. Ensure(r)
      <4>1. ~Undo(r) /\ ~EndRollback(r)
        BY <3>1 DEF Undo, List, DeleteUpstream, Finish, EndSweep, SweepNext, Release, EndRollback, At, Setting
      <4>. QED
        BY <1>2, <2>2, <3>1, <4>1, GoesOnItself
    <3>3. TargetStands(r)
      BY <1>5 DEF TagsInv, SetsIts
    <3>4. ASSUME NEW to \in Setting, Goto(r, to) PROVE At(r, to)' /\ task'[r].step = t
      BY <1>2, <1>5, <3>1, <3>4, GotoEnsure DEF At, Setting, EnsureAt
    <3>5. CASE Succeed(r)
      BY <1>2, <1>5, <3>1, <3>5 DEF Succeed, Stands
    <3>6. CASE Create(r)
      <4>1. ~TwoCalls(asks[t])
        BY <1>2, <3>1 DEF NothingFails, TypeOK
      <4>2. Goto(r, "id") \/ Goto(r, "done")
        BY <1>5, <3>3, <3>6, <4>1 DEF Create
      <4>. QED
        BY <3>4, <4>2 DEF Setting
    <3>7. CASE RecordId(r) \/ Repoint(r)
      <4>1. Goto(r, "done")
        BY <1>5, <3>1, <3>3, <3>7 DEF RecordId, Repoint
      <4>. QED
        BY <3>4, <4>1 DEF Setting
    <3>. QED
      BY <3>1, <3>2, <3>5, <3>6, <3>7 DEF Ensure, StartEnsure, ReadEntry, ReadUpstream, RecordNew, RecordJoin,
         Effect, At, Setting
  <2>. QED
    BY <2>1, <2>2
<1>6. CASE IsRecorded(t) /\ task[r] \in Undoing
  <2>1. task[r] # Idle /\ task[r].at \notin EnsureAt
    BY <1>6, MarkersAreDistinct DEF Undoing, EnsureAt
  <2>2. CASE task'[r] # task[r]
    <3>1. ~Ensure(r)
      BY <2>1 DEF Ensure, StartEnsure, ReadEntry, ReadUpstream, RecordNew, RecordJoin, Create,
         Effect, RecordId, Repoint, Succeed, At, EnsureAt
    <3>2. ~EndRollback(r)
      <4>1. SUFFICES ASSUME EndRollback(r) PROVE FALSE
        OBVIOUS
      <4>2. IsDeleting(r) /\ ~task[r].sweep /\ task[r].todo = {}
        BY <4>1 DEF EndRollback, IsDeleting
      <4>3. MaxFaults(asks) = 0
        BY <1>2 DEF NothingFails, TypeOK
      <4>. QED
        BY <1>1, <1>6, <4>2, <4>3 DEF TagBase, ListsAll
    <3>3. Undo(r)
      BY <1>2, <2>1, <2>2, <3>1, <3>2, GoesOnItself
    <3>4. ~Stop(r)
      <4>1. SUFFICES ASSUME Stop(r) PROVE FALSE
        OBVIOUS
      <4>2. task'[r] = Idle
        BY <1>2, <4>1, StopMoves
      <4>3. EndSweep(r)
        BY <1>2, <3>3, <4>2, ListMoves, DeleteUpstreamDoes, ItemGivenUp, SweepNextDoes, ReleaseDoes DEF Undo
      <4>4. BeginUndo(r, FALSE, task[r].ok) /\ task[r].ok \in BOOLEAN
        BY <1>2, <1>6, <4>3 DEF EndSweep, Undoing
      <4>. QED
        BY <1>2, <4>2, <4>4, BeginUndoMoves
    <3>5. OnlyMoves(r) /\ (task'[r] = Idle \/ task'[r] \in Undoing)
      BY <1>2, <3>3, UndoMoves
    <3>6. task'[r] # Idle
      BY <1>2, <3>4, <3>5 DEF OnlyMoves, Stop, TypeOK
    <3>. QED
      BY <1>1, <3>5, <3>6
  <2>. QED
    BY <1>1, <1>6, <2>2
<1>. QED
  BY <1>1, <1>3, <1>4, <1>5, <1>6 DEF TagsInv, TagUsers

LEMMA TagsInit == Init => TagsInv
<1>. SUFFICES ASSUME Init PROVE TagsInv
  OBVIOUS
<1>1. ready = {} /\ \A k \in Keys : ledger[k] = NoEntry
  BY DEF Init
<1>2. \A r \in Runs : task[r] = Idle
  BY DEF Init
<1>. QED
  BY <1>1, <1>2, ProvisionAssumption DEF TagsInv, TagUsers, TagsHit, SetsIts, IsRecorded, At

\* With one reconcile at a time, when no request fails where tags are set and people delete nothing, the tag
\* that a succeeded step set stands, on the artifact whose ID is on record: what a rollback
\* deletes by (ensure.go:95, 135, 193-198; index.go:90).  Forge may rebuild the artifact
\* only while no run counts on it.  Run MCProvisionTag shows what a crash does to it.
THEOREM UsedIsDeletable ==
    Orderly /\ Workers = 1 /\ ~PeopleDelete /\ TagsAreSafe => (Spec => []RollbackCanDelete)
<1>. SUFFICES ASSUME Orderly, Workers = 1, ~PeopleDelete, TagsAreSafe PROVE Spec => []RollbackCanDelete
  OBVIOUS
<1> DEFINE Rest == /\ TagsAreClaimed /\ AloneInv /\ KindsInv /\ ArtifactsInv
                   /\ ListsItsUsers /\ \A r \in Runs : ListsAll(r)
<1>1. Init => Rest
  <2>1. Init => \A r \in Runs : task[r] = Idle
    BY DEF Init
  <2>2. Init => ListsItsUsers /\ \A r \in Runs : ListsAll(r)
    BY <2>1 DEF Init, ListsItsUsers, ListsAll, IsDeleting, At
  <2>. QED
    BY <2>2, ClaimedInit, AloneInit, KindsInit, ArtifactsInit
<1>2. TypeInv /\ ProvisionInv /\ Rest /\ [Next]_vars => Rest'
  <2>. SUFFICES ASSUME TypeInv, ProvisionInv, Rest, [Next]_vars PROVE Rest'
    OBVIOUS
  <2>1. AloneInv'
    BY OneAtATimeStep, SeesTheEntryStep DEF AloneInv
  <2>2. KindsInv' /\ ArtifactsInv' /\ ListsItsUsers'
    BY KindsStep, ArtifactsStep, ListsItsUsersStep
  <2>3. TagsAreClaimed' /\ \A r \in Runs : ListsAll(r)'
    BY ClaimedFirst, ListsAllStep DEF Procs
  <2>. QED
    BY <2>1, <2>2, <2>3
<1>3. TypeInv /\ ProvisionInv /\ UsersRecorded /\ Rest <=> TagBase
  BY DEF TagBase
<1>. HIDE DEF Rest
<1> DEFINE SafeTags == AskedFirst /\ (NothingFails => TagsInv)
<1>4. TagBase /\ SafeTags /\ [Next]_vars => SafeTags'
  <2>. SUFFICES ASSUME TagBase, SafeTags, [Next]_vars PROVE SafeTags'
    OBVIOUS
  <2>1. NothingFails' => NothingFails
    BY AsksStay DEF NothingFails
  <2>2. AskedFirst'
    BY AskedFirstStep DEF TagBase
  <2>3. ASSUME NothingFails PROVE TagsInv'
    <3>1. ASSUME NEW r \in Runs PROVE SetsIts(r)'
      <4>1. CASE task'[r] = task[r]
        BY <2>3, <4>1, KeepsSetting
      <4>2. CASE task'[r] # task[r]
        BY <2>3, <4>2, GoesOnSetting DEF SetsIts
      <4>. QED
        BY <4>1, <4>2
    <3>. QED
      BY <2>3, <3>1, TagsHitStep, TagUsersStep DEF TagsInv
  <2>. QED
    BY <2>1, <2>2, <2>3
<1>5. TypeInv /\ SafeTags => RollbackCanDelete
  <2>. SUFFICES ASSUME TypeInv, SafeTags, NEW t \in ready, mode[RunOf[t]] = "apply", KindOf[KeyOf[t]] = "tag"
                PROVE  Hits(KeyOf[t], ledger[KeyOf[t]])
    BY DEF RollbackCanDelete
  <2>1. t \in DOMAIN asks /\ asks \in Cases
    BY DEF AskedFirst, TypeInv, TypeOK
  <2>2. NothingFails
    BY <2>1 DEF TagsAreSafe, NothingFails
  <2>. QED
    BY <2>2 DEF TagsInv, TagsHit, Stands
<1>6. Init => SafeTags
  BY TagsInit DEF Init, AskedFirst
<1>. HIDE DEF SafeTags
<1>. QED
  BY <1>1, <1>2, <1>3, <1>4, <1>5, <1>6, ProvisionIsSound, UsersStayRecorded, PTL DEF Spec

-----------------------------------------------------------------------------
(* New defaults are no conflict. *)

\* What an ask that the configuration only gives defaults to made under one
\* configuration is what it wants under any other, and its hash is the same
\* (RecipesProofs: DefaultsAreNoIdentity).  No tag is such an ask.
DefaultsStayOut ==
    \A case \in Cases : \A t \in DOMAIN case : OnlyDefaults(case[t]) =>
        /\ KindOf[KeyOf[t]] # "tag"
        /\ \A c, d \in Configs :
              /\ Same(case[t], c, Object(case[t], d))
              /\ Identity(case[t], c) = Identity(case[t], d)

\* Without a fault a step at its look upstream ends only by that look.
LEMMA WhoRefuses ==
    ASSUME TypeInv, [Next]_vars, NEW r \in Runs, Refused(r)
    PROVE  ReadUpstream(r)
<1>1. TypeOK /\ r \in Procs /\ Sweeper \notin Runs /\ Runs \subseteq Procs /\ Sweeper \in Procs
  BY ProvisionAssumption DEF TypeInv, Procs
<1>2. task[r] # Idle /\ task[r].at = "upstream" /\ task'[r] = Idle /\ task' # task
  BY DEF Refused, At
<1>3. ASSUME NEW q \in Procs, OnlyMoves(q) PROVE q = r
  BY <1>1, <1>2, <1>3 DEF OnlyMoves, TypeOK, Procs
<1>4. ASSUME NEW q \in Runs, Ensure(q) PROVE ReadUpstream(r)
  <2>1. q = r
    BY <1>1, <1>3, <1>4, EnsureMoves
  <2>. QED
    BY <1>2, <1>4, <2>1 DEF Ensure, StartEnsure, ReadEntry, RecordNew, RecordJoin, Create, Effect, RecordId,
       Repoint, Succeed, At
<1>5. ASSUME NEW q \in Procs, Undo(q) PROVE FALSE
  <2>1. q = r
    BY <1>3, <1>5, UndoMoves
  <2>. QED
    BY <1>2, <1>5, <2>1 DEF Undo, List, DeleteUpstream, Finish, EndSweep, SweepNext, Release, At
<1>6. ASSUME NEW q \in Procs, BeginUndo(q, TRUE, TRUE) PROVE FALSE
  BY <1>1, <1>2, <1>3, <1>6, BeginUndoMoves
<1>7. ASSUME NEW q \in Runs, Rollback(q) PROVE FALSE
  <2>1. CASE EndRollback(q)
    <3>1. q = r
      BY <1>1, <1>3, <2>1, StopMoves DEF EndRollback
    <3>. QED
      BY <1>2, <2>1, <3>1 DEF EndRollback, At
  <2>. QED
    BY <1>1, <1>5, <1>6, <1>7, <2>1 DEF Rollback, StartRollback
<1>8. ~Sweep
  BY <1>1, <1>5, <1>6 DEF Sweep, StartSweep
<1>9. ~Faults
  <2>1. faults \in Nat
    BY <1>1, ProvisionAssumption DEF TypeOK
  <2>2. ~Fault
    BY <2>1 DEF Fault, Refused
  <2>. QED
    BY <2>2 DEF Faults, EnsureFails, ItemFails, ListFails, ReleaseFails, Crash
<1>10. ~UNCHANGED vars /\ ~EditConfig /\ \A q \in Runs : ~RequestRollback(q)
  BY <1>2 DEF vars, EditConfig, RequestRollback
<1>11. \A k \in Keys : ~PersonCreates(k) /\ ~PersonDeletes(k) /\ ~ForgeBuilds(k)
  BY <1>2 DEF PersonCreates, PersonDeletes, ForgeBuilds
<1>. QED
  BY <1>4, <1>7, <1>8, <1>9, <1>10, <1>11 DEF Next

LEMMA RefusedRightly ==
    ASSUME DefaultsStayOut, TypeInv, [Next]_vars, NEW r \in Runs, Refused(r),
           NEW ask, ask = asks[task[r].step], OnlyDefaults(ask)
    PROVE  \/ upstream[KeyOf[task[r].step]].object \notin {Object(ask, c) : c \in Configs}
           \/ /\ task[r].seen # NoEntry
              /\ task[r].seen.hash \notin {Identity(ask, c) : c \in Configs}
<1>1. PICK t : t = task[r].step
  OBVIOUS
<1>2. PICK c : c = task[r].config
  OBVIOUS
<1>3. t \in DOMAIN asks /\ c \in Configs /\ asks \in Cases /\ ask = asks[t]
  BY <1>1, <1>2, EnsureFacts DEF Refused, EnsureAt, Procs, TypeInv, TypeOK
<1>4. /\ KindOf[KeyOf[t]] # "tag"
      /\ \A d \in Configs : Same(ask, c, Object(ask, d)) /\ Identity(ask, c) = Identity(ask, d)
  BY <1>3 DEF DefaultsStayOut
<1>5. PICK res : res = IF KindOf[KeyOf[t]] = "artifact" THEN task[r].found ELSE upstream[KeyOf[t]]
  OBVIOUS
<1>6. ~Accepts(t, c, task[r].seen, res)
  <2>1. ReadUpstream(r) /\ task'[r] = Idle /\ task[r] # Idle
    BY WhoRefuses DEF Refused, At
  <2>2. TypeOK /\ r \in Procs /\ task[r] \in Applying /\ res \in Resource \cup {Absent}
    BY <1>1, <1>5, EnsureFacts DEF Refused, EnsureAt, Procs, TypeInv
  <2>3. SUFFICES ASSUME task' = [task EXCEPT ![r] = [task[r] EXCEPT !.at = "record", !.found = res]] PROVE FALSE
    BY <1>1, <1>2, <1>4, <1>5, <2>1 DEF ReadUpstream, TargetStands
  <2>4. [task[r] EXCEPT !.at = "record", !.found = res] \in Applying
    BY <2>2 DEF Applying, EnsureAt
  <2>5. task'[r] # Idle
    BY <2>2, <2>3, <2>4, MarkersAreDistinct DEF TypeOK, Procs
  <2>. QED
    BY <2>1, <2>5
<1>7. CASE KindOf[KeyOf[t]] # "named"
  BY <1>6, <1>7 DEF Accepts, Matches, Hash
<1>8. CASE KindOf[KeyOf[t]] = "named"
  <2>1. res = upstream[KeyOf[t]] /\ Hash(t, c) = Identity(ask, c)
    BY <1>3, <1>5, <1>8 DEF Hash
  <2>2. \/ ~Same(ask, c, res.object)
        \/ task[r].seen # NoEntry /\ task[r].seen.hash # Identity(ask, c)
    BY <1>3, <1>6, <1>8, <2>1 DEF Accepts, Matches
  <2>. QED
    BY <1>1, <1>4, <2>1, <2>2
<1>. QED
  BY <1>7, <1>8

\* A template or app that the configuration only gives defaults to is refused for what
\* somebody else asked for or made, never for an edit of the defaults between two
\* attempts (weavesteps.go:85-87, appstep.go:96-97).
THEOREM NewDefaultsServe == DefaultsStayOut => (Spec => DefaultsNeverConflict)
<1>. SUFFICES ASSUME DefaultsStayOut PROVE Spec => DefaultsNeverConflict
  OBVIOUS
<1> DEFINE A == \A r \in Runs :
                   LET ask == asks[task[r].step]
                       seen == task[r].seen
                   IN  Refused(r) /\ OnlyDefaults(ask) =>
                          \/ upstream[KeyOf[task[r].step]].object \notin {Object(ask, c) : c \in Configs}
                          \/ seen # NoEntry /\ seen.hash \notin {Identity(ask, c) : c \in Configs}
<1>1. TypeInv /\ [Next]_vars => A
  BY RefusedRightly
<1>2. TypeInv /\ [Next]_vars => [A]_vars
  BY <1>1
<1>. QED
  BY <1>2, TypeInit, TypeStep, PTL DEF Spec, DefaultsNeverConflict

-----------------------------------------------------------------------------
(* The watcher goes before the artifact. *)

\* undoRank puts watchers before the artifacts that are built for them (rollback.go:20-30).
WatchersRankLower ==
    \A k \in Keys : KindOf[k] = "artifact" => KindOf[Feeder[k]] = "named" /\ Rank[Feeder[k]] < Rank[k]

\* Nothing fails while artifacts are built: a rollback goes on to the artifact after a
\* failed delete of the watcher.
BuildsAreSafe ==
    \A case \in Cases : \A t \in DOMAIN case :
        KindOf[KeyOf[t]] = "artifact" => MaxFaults(case) = 0

\* Entries are of resources that somebody asks for, and their references are to them.
EntriesInv ==
    \A k \in Keys : ledger[k] # NoEntry =>
        /\ \E t \in DOMAIN asks : KeyOf[t] = k
        /\ \A t \in ledger[k].refs : KeyOf[t] = k

\* p is at the deletion of the resource k.
Removes(p, k) == (At(p, "delete") \/ At(p, "finish")) /\ task[p].item.key = k

\* A sweep finds nothing but tags to finish, and a rollback keeps to its order.
UndoesInOrder(p) ==
    task[p] # Idle /\ task[p].at \notin EnsureAt =>
        IF task[p].sweep
          THEN /\ \A i \in task[p].todo : KindOf[i.key] = "tag"
               /\ task[p].at \in {"delete", "finish"} => KindOf[task[p].item.key] = "tag"
          ELSE task[p].at \in {"delete", "finish"} =>
                   \A j \in task[p].todo : Rank[task[p].item.key] <= Rank[j.key]

\* Without faults nobody leaves a deletion for others to finish, but for a tag whose
\* entry has no ID because it was never set.
OrderInv ==
    MaxFaults(asks) = 0 =>
        /\ \A p \in Procs : UndoesInOrder(p)
        /\ \A k \in Keys : KindOf[k] # "tag" /\ Abandoned(ledger[k]) => \E p \in Procs : Removes(p, k)

\* Without faults a rollback or sweep at a deletion goes on with it.
LEMMA GoesOnRemoving ==
    ASSUME TypeInv, MaxFaults(asks) = 0, [Next]_vars, NEW p \in Procs, NEW at \in {"delete", "finish"},
           At(p, at), task'[p] # task[p]
    PROVE  IF at = "delete" THEN DeleteUpstream(p) ELSE Finish(p)
<1>1. /\ TypeOK /\ faults = 0 /\ task[p] # Idle /\ task[p].at = at
      /\ Sweeper \in Procs /\ Runs \subseteq Procs
  BY ProvisionAssumption DEF Procs, TypeInv, TypeOK, At
<1>2. \A q \in Procs : OnlyMoves(q) => q = p
  BY <1>1 DEF OnlyMoves, TypeOK, Procs
<1>3. ~Faults
  BY <1>1 DEF Faults, Fault, EnsureFails, ItemFails, ListFails, ReleaseFails, Crash
<1>4. ASSUME NEW q \in Runs PROVE ~Ensure(q)
  <2>1. SUFFICES ASSUME Ensure(q) PROVE FALSE
    OBVIOUS
  <2>2. p = q
    BY <1>1, <1>2, <2>1, EnsureMoves
  <2>. QED
    BY <1>1, <2>1, <2>2 DEF Ensure, StartEnsure, ReadEntry, ReadUpstream, RecordNew, RecordJoin, Create,
       Effect, RecordId, Repoint, Succeed, At
<1>5. ASSUME NEW q \in Runs PROVE ~StartRollback(q) /\ ~EndRollback(q) /\ ~RequestRollback(q)
  <2>1. CASE StartRollback(q)
    <3>1. q = p
      BY <1>1, <1>2, <2>1, BeginUndoMoves DEF StartRollback
    <3>. QED
      BY <1>1, <2>1, <3>1 DEF StartRollback
  <2>2. CASE EndRollback(q)
    <3>1. q = p
      BY <1>1, <1>2, <2>2, StopMoves DEF EndRollback
    <3>. QED
      BY <1>1, <2>2, <3>1 DEF EndRollback, At
  <2>. QED
    BY <2>1, <2>2 DEF RequestRollback
<1>6. ~StartSweep
  <2>1. SUFFICES ASSUME StartSweep PROVE FALSE
    OBVIOUS
  <2>2. Sweeper = p
    BY <1>1, <1>2, <2>1, BeginUndoMoves DEF StartSweep
  <2>. QED
    BY <1>1, <2>1, <2>2 DEF StartSweep
<1>7. ASSUME NEW q \in Procs, Undo(q) PROVE IF at = "delete" THEN DeleteUpstream(p) ELSE Finish(p)
  <2>1. q = p
    BY <1>2, <1>7, UndoMoves
  <2>. QED
    BY <1>1, <1>7, <2>1 DEF Undo, List, DeleteUpstream, Finish, EndSweep, SweepNext, Release, At
<1>8. ~UNCHANGED vars /\ ~EditConfig
  BY DEF vars, EditConfig
<1>9. \A k \in Keys : ~PersonCreates(k) /\ ~PersonDeletes(k) /\ ~ForgeBuilds(k)
  BY DEF PersonCreates, PersonDeletes, ForgeBuilds
<1>. QED
  BY <1>1, <1>3, <1>4, <1>5, <1>6, <1>7, <1>8, <1>9 DEF Next, Rollback, Sweep

\* Whatever else than a tag a rollback gets to delete has the ID that the delete needs.
LEMMA RemovesByID ==
    ASSUME ProvisionInv, ArtifactsInv, NEW p \in Procs, At(p, "delete"), KindOf[task[p].item.key] # "tag"
    PROVE  Deletable(task[p].item.key, task[p].item.entry)
<1>1. /\ task[p].item.key \in Keys /\ ledger[task[p].item.key] # NoEntry
      /\ task[p].item.entry = ledger[task[p].item.key]
  <2>1. /\ task[p].item \in Item /\ task[p].item.entry = ledger[task[p].item.key]
        /\ Abandoned(task[p].item.entry)
    BY DEF ProvisionInv, Sound, KnowsItsClaims, IsDeleting, At
  <2>. QED
    BY <2>1 DEF Item, Abandoned
<1>. QED
  BY <1>1, ProvisionAssumption DEF ArtifactsInv, Deletable

LEMMA EntriesStep ==
    ASSUME TypeInv, ProvisionInv, EntriesInv, [Next]_vars
    PROVE  EntriesInv'
<1>1. TypeOK /\ asks' = asks
  BY AsksStay DEF TypeInv
<1>2. SUFFICES ASSUME NEW k \in Keys, ledger'[k] # NoEntry
               PROVE  /\ \E t \in DOMAIN asks : KeyOf[t] = k
                      /\ \A t \in ledger'[k].refs : KeyOf[t] = k
  BY <1>1 DEF EntriesInv
<1>3. CASE ledger'[k] = ledger[k]
  BY <1>2, <1>3 DEF EntriesInv
<1>4. CASE ledger'[k] # ledger[k]
  <2>1. ASSUME ledger[k] = NoEntry PROVE \E t \in DOMAIN asks : KeyOf[t] = k
    <3>1. PICK r \in Runs : RecordNew(r) /\ k = KeyOf[task[r].step]
      BY <1>2, <1>4, <2>1, EntrySteps
    <3>. QED
      BY <3>1, EnsureFacts DEF RecordNew, EnsureAt, Procs
  <2>2. \E t \in DOMAIN asks : KeyOf[t] = k
    BY <2>1 DEF EntriesInv
  <2>3. ASSUME NEW t \in Steps, NEW m \in BOOLEAN, Opens(t, m) \/ Joins(t, m)
        PROVE  \A s \in ledger'[k].refs : KeyOf[s] = k
    <3>1. k = KeyOf[t] /\ KeyOf[t] \in Keys
      BY <1>1, <1>4, <2>3, ProvisionAssumption, LedgerChange DEF Opens, Joins
    <3>2. ledger'[k].refs \subseteq {t} \cup (IF ledger[k] = NoEntry THEN {} ELSE ledger[k].refs)
      BY <1>1, <2>3, <3>1, LedgerChange DEF Opens, Joins
    <3>. QED
      BY <3>1, <3>2 DEF EntriesInv
  <2>4. ASSUME NEW t \in Steps, IsRecorded(t), Leaves(KeyOf[t], t)
        PROVE  \A s \in ledger'[k].refs : KeyOf[s] = k
    <3>1. k = KeyOf[t] /\ KeyOf[t] \in Keys
      BY <1>1, <1>4, <2>4, ProvisionAssumption, LedgerChange DEF Leaves
    <3>2. ledger[k] # NoEntry /\ ledger'[k].refs \subseteq ledger[k].refs
      BY <1>1, <2>4, <3>1, LedgerChange DEF Leaves
    <3>. QED
      BY <3>2 DEF EntriesInv
  <2>5. ASSUME NEW l \in Keys, Closes(l) PROVE FALSE
    BY <1>1, <1>2, <1>4, <2>5, LedgerChange DEF Closes
  <2>. QED
    BY <1>4, <2>2, <2>3, <2>4, <2>5, NextIsEntryStep DEF EntryStep
<1>. QED
  BY <1>3, <1>4

\* How a deletion moves on when nothing fails.
LEMMA RemovingMoves ==
    ASSUME TypeInv, ProvisionInv, ArtifactsInv, MaxFaults(asks) = 0, [Next]_vars,
           NEW p \in Procs, At(p, "delete") \/ At(p, "finish"), task'[p] # task[p]
    PROVE  /\ task'[p] \in Undoing /\ task'[p] # Idle
           /\ task'[p].sweep = task[p].sweep /\ task'[p].todo = task[p].todo
           /\ \/ At(p, "delete") /\ task'[p].at = "finish" /\ task'[p].item = task[p].item
              \/ At(p, "delete") /\ task'[p].at = "next" /\ KindOf[task[p].item.key] = "tag"
              \/ At(p, "finish") /\ task'[p].at = "next" /\ Closes(task[p].item.key)
<1>1. TypeOK /\ task[p] \in Undoing
  BY UndoFacts DEF TypeInv
<1>2. CASE At(p, "delete")
  <2>1. DeleteUpstream(p)
    BY <1>2, GoesOnRemoving
  <2>2. CASE Deletable(task[p].item.key, task[p].item.entry)
    <3>1. Goto(p, "finish")
      BY <2>1, <2>2 DEF DeleteUpstream
    <3>. QED
      BY <1>1, <1>2, <3>1, GotoUndo
  <2>3. CASE ~Deletable(task[p].item.key, task[p].item.entry)
    <3>1. KindOf[task[p].item.key] = "tag"
      BY <1>2, <2>3, RemovesByID
    <3>2. task' = [task EXCEPT ![p].at = "next", ![p].item = NoItem, ![p].ok = FALSE]
      BY <2>1, <2>3 DEF DeleteUpstream
    <3>. QED
      BY <1>1, <1>2, <3>1, <3>2, ItemMoves
  <2>. QED
    BY <2>2, <2>3
<1>3. CASE At(p, "finish") /\ ~At(p, "delete")
  <2>1. Finish(p)
    BY <1>3, GoesOnRemoving
  <2>2. task' = [task EXCEPT ![p].at = "next", ![p].item = NoItem] /\ Closes(task[p].item.key)
    BY <2>1 DEF Finish, Closes
  <2>. QED
    BY <1>1, <1>3, <2>2, ItemMoves
<1>. QED
  BY <1>2, <1>3

\* A rollback or sweep begins, lists and takes its items in order, when nothing was
\* left behind by another.
LEMMA UndoesInOrderStep ==
    ASSUME Orderly, TypeInv, ProvisionInv, ArtifactsInv, OrderInv, MaxFaults(asks) = 0,
           [Next]_vars, NEW p \in Procs
    PROVE  UndoesInOrder(p)'
<1>1. TypeOK /\ faults = 0 /\ UndoesInOrder(p)
  BY ProvisionAssumption DEF TypeInv, TypeOK, OrderInv
<1>2. SUFFICES ASSUME task'[p] # task[p], task'[p] # Idle, task'[p].at \notin EnsureAt
               PROVE  UndoesInOrder(p)'
  BY <1>1 DEF UndoesInOrder
<1>3. CASE At(p, "delete") \/ At(p, "finish")
  <2>1. /\ task'[p].sweep = task[p].sweep /\ task'[p].todo = task[p].todo
        /\ \/ task'[p].at = "finish" /\ task'[p].item = task[p].item
           \/ task'[p].at = "next"
    BY <1>2, <1>3, RemovingMoves
  <2>2. IF task[p].sweep THEN /\ \A i \in task[p].todo : KindOf[i.key] = "tag"
                             /\ KindOf[task[p].item.key] = "tag"
                        ELSE \A j \in task[p].todo : Rank[task[p].item.key] <= Rank[j.key]
    BY <1>1, <1>3 DEF UndoesInOrder, At, EnsureAt
  <2>. QED
    BY <2>1, <2>2 DEF UndoesInOrder
<1>4. CASE ~At(p, "delete") /\ ~At(p, "finish")
  <2>1. ~ItemFails(p) /\ ~ListFails(p) /\ \A i : ~ReleaseFails(p, i)
    BY <1>1 DEF ItemFails, ListFails, ReleaseFails, Fault
  <2>2. \/ Undo(p)
        \/ BeginUndo(p, TRUE, TRUE)
    <3>1. \A r \in Runs : Ensure(r) /\ task'[r] \in Applying => task'[r].at \in EnsureAt
      BY DEF Applying
    <3>. QED
      BY <1>2, <2>1, <3>1, WhoMoves DEF StartRollback, StartSweep
  <2>3. ASSUME NEW sweep \in BOOLEAN, NEW ok \in BOOLEAN, BeginUndo(p, sweep, ok) PROVE UndoesInOrder(p)'
    <3>1. task'[p].at = "list" /\ task'[p].todo = {}
      BY <1>1, <2>3, BeginUndoMoves
    <3>. QED
      BY <3>1 DEF UndoesInOrder
  <2>4. CASE List(p)
    <3>1. At(p, "list")
      BY <2>4 DEF List
    <3>2. /\ task'[p].at = "next" /\ task'[p].sweep = task[p].sweep
          /\ task[p].sweep => task'[p].todo = {[key |-> k, step |-> NoStep, entry |-> ledger[k]] :
                                                  k \in {l \in Keys : Abandoned(ledger[l])}}
      BY <2>4, ListMoves
    <3>3. ASSUME task[p].sweep, NEW k \in Keys, Abandoned(ledger[k]) PROVE KindOf[k] = "tag"
      <4>1. SUFFICES ASSUME KindOf[k] # "tag" PROVE FALSE
        OBVIOUS
      <4>2. PICK q \in Procs : Removes(q, k)
        BY <3>3, <4>1 DEF OrderInv
      <4>3. q # p /\ IsDeleting(q)
        BY <3>1, <4>2 DEF Removes, At, IsDeleting
      <4>. QED
        BY <2>4, <3>3, <4>3 DEF List, Orderly, Procs
    <3>4. task[p].sweep => \A i \in task'[p].todo : KindOf[i.key] = "tag"
      BY <3>2, <3>3
    <3>. QED
      BY <3>2, <3>4 DEF UndoesInOrder
  <2>5. CASE EndSweep(p)
    <3>1. ~Stop(p)
      BY <1>1, <1>2, StopMoves
    <3>2. task[p].ok \in BOOLEAN
      BY <2>5, UndoFacts DEF EndSweep, Undoing
    <3>. QED
      BY <2>3, <2>5, <3>1, <3>2 DEF EndSweep
  <2>6. ASSUME NEW i \in task[p].todo, SweepNext(p, i) PROVE UndoesInOrder(p)'
    <3>1. /\ At(p, "next") /\ task[p].sweep /\ KindOf[i.key] = "tag"
          /\ \A j \in task[p].todo : KindOf[j.key] = "tag"
      BY <1>1, <2>6 DEF SweepNext, UndoesInOrder, At, EnsureAt
    <3>2. task'[p].sweep /\ task'[p].todo \subseteq task[p].todo /\ task'[p].item.key = i.key
      BY <2>6, <3>1, SweepNextDoes
    <3>. QED
      BY <3>1, <3>2 DEF UndoesInOrder
  <2>7. ASSUME NEW i \in task[p].todo, Release(p, i) PROVE UndoesInOrder(p)'
    <3>1. /\ At(p, "next") /\ ~task[p].sweep
          /\ \A j \in task[p].todo : Rank[i.key] <= Rank[j.key]
      BY <1>1, <2>7 DEF Release, IsNext, UndoesInOrder, At, EnsureAt
    <3>2. /\ task'[p].sweep = task[p].sweep
          /\ task'[p].todo = task[p].todo \ {i}
          /\ task'[p].at \in {"delete", "finish"} => task'[p].item.key = i.key
      BY <2>7, ReleaseDoes
    <3>. QED
      BY <3>1, <3>2 DEF UndoesInOrder
  <2>. QED
    BY <1>4, <2>2, <2>3, <2>4, <2>5, <2>6, <2>7 DEF Undo, DeleteUpstream, Finish
<1>. QED
  BY <1>3, <1>4

\* Whoever gives up the entry of anything but a tag, and nobody else, goes on to delete
\* and close it.
LEMMA RemovedByLeaver ==
    ASSUME TypeInv, ProvisionInv, ArtifactsInv, OrderInv, MaxFaults(asks) = 0, [Next]_vars,
           NEW k \in Keys, KindOf[k] # "tag", Abandoned(ledger'[k])
    PROVE  \E p \in Procs : Removes(p, k)'
<1>1. TypeOK /\ faults = 0 /\ ledger'[k] # NoEntry /\ ledger'[k].refs = {}
  BY ProvisionAssumption DEF TypeInv, TypeOK, Abandoned
<1>2. CASE ledger'[k] = ledger[k]
  <2>1. PICK p \in Procs : Removes(p, k)
    BY <1>2 DEF OrderInv
  <2>2. CASE task'[p] = task[p]
    BY <2>1, <2>2 DEF Removes, At
  <2>3. CASE task'[p] # task[p]
    <3>1. ~Closes(k)
      BY <1>1, LedgerChange DEF Closes
    <3>2. task'[p] # Idle /\ task'[p].at = "finish" /\ task'[p].item = task[p].item
      BY <2>1, <2>3, <3>1, RemovingMoves DEF Removes
    <3>. QED
      BY <2>1, <3>2 DEF Removes, At
  <2>. QED
    BY <2>2, <2>3
<1>3. CASE ledger'[k] # ledger[k]
  <2>1. ASSUME NEW t \in Steps, NEW m, k = KeyOf[t], Opens(t, m) \/ Joins(t, m) PROVE FALSE
    BY <1>1, <2>1, LedgerChange DEF Opens, Joins
  <2>2. ASSUME NEW r \in Runs, RecordNew(r) \/ RecordJoin(r) \/ RecordId(r), k = KeyOf[task[r].step]
        PROVE  FALSE
    <3>1. task[r].step \in Steps
      BY <2>2, EnsureFacts DEF RecordNew, RecordJoin, RecordId, EnsureAt, Procs
    <3>2. \E m : Opens(task[r].step, m) \/ Joins(task[r].step, m)
      BY <1>3, <2>2, RecordNewDoes, RecordJoinDoes, RecordIdDoes
    <3>. QED
      BY <2>1, <2>2, <3>1, <3>2
  <2>3. PICK p \in Procs : \E i : Release(p, i) /\ k = i.key
    <3>1. \A q \in Procs : \A i : ~ReleaseFails(q, i)
      BY <1>1 DEF ReleaseFails, Fault
    <3>. QED
      BY <1>1, <1>3, <2>2, <3>1, EntrySteps
  <2>4. PICK i : Release(p, i) /\ k = i.key
    BY <2>3
  <2>5. /\ task'[p] # Idle /\ task'[p].at \in {"delete", "finish"} /\ task'[p].item.key = k
    BY <1>1, <1>3, <2>4, ReleaseDoes
  <2>. QED
    BY <2>5 DEF Removes, At
<1>. QED
  BY <1>2, <1>3

LEMMA OrderStep ==
    ASSUME Orderly, TypeInv, ProvisionInv, ArtifactsInv, OrderInv, [Next]_vars
    PROVE  OrderInv'
<1>1. asks' = asks
  BY AsksStay
<1>. QED
  BY <1>1, UndoesInOrderStep, RemovedByLeaver DEF OrderInv

LEMMA OrderInit == Init => EntriesInv /\ OrderInv
BY DEF Init, EntriesInv, OrderInv, UndoesInOrder, Abandoned, Procs

\* A rollback that is at an artifact has been at its watcher, or others use that.
LEMMA FeederIsInUse ==
    ASSUME WatchersRankLower, BuildsAreSafe, TypeInv, ProvisionInv, OneAtATime, NothingLeaks, EntriesInv,
           \A r \in Runs : ListsAll(r), OrderInv, NEW p \in Procs, At(p, "delete"), NEW k, k = task[p].item.key, KindOf[k] = "artifact",
           NEW w, w = Feeder[k], MadeBy(w, "wizard")
    PROVE  ledger[w] # NoEntry /\ \E t \in ledger[w].refs : RunOf[t] # p
<1>1. k \in Keys /\ ledger[k] # NoEntry
  <2>1. /\ task[p].item \in Item /\ task[p].item.entry = ledger[task[p].item.key]
        /\ Abandoned(task[p].item.entry)
    BY DEF ProvisionInv, Sound, KnowsItsClaims, IsDeleting, At
  <2>. QED
    BY <2>1 DEF Item, Abandoned
<1>2. MaxFaults(asks) = 0
  BY <1>1 DEF EntriesInv, BuildsAreSafe, TypeInv, TypeOK
<1>3. w \in Keys /\ KindOf[w] = "named" /\ Rank[w] < Rank[k] /\ Rank[w] \in Nat /\ Rank[k] \in Nat
  BY <1>1, ProvisionAssumption DEF WatchersRankLower
<1>4. ledger[w] # NoEntry /\ ledger[w] \in Entry
  BY <1>3 DEF NothingLeaks, TypeInv, TypeOK
<1>5. ~task[p].sweep /\ \A j \in task[p].todo : Rank[k] <= Rank[j.key]
  BY <1>2 DEF OrderInv, UndoesInOrder, At, EnsureAt
<1>6. ASSUME \A t \in ledger[w].refs : RunOf[t] = p PROVE FALSE
  <2>1. CASE ledger[w].refs = {}
    <3>1. Abandoned(ledger[w])
      BY <1>3, <1>4, <2>1 DEF ProvisionInv, GivenUpWhenUnused, Abandoned
    <3>2. PICK q \in Procs : Removes(q, w)
      BY <1>2, <1>3, <3>1 DEF OrderInv
    <3>3. q # p
      BY <1>3, <3>2 DEF Removes
    <3>4. ~task[q].sweep /\ task[q] # Idle /\ task[q].at \notin EnsureAt
      BY <1>2, <1>3, <3>2 DEF Removes, OrderInv, UndoesInOrder, At, EnsureAt
    <3>5. p \in Runs /\ q \in Runs
      BY <1>5, <3>4 DEF TypeInv, KnowsItsPlace, KnowsPlace, At, EnsureAt, Procs
    <3>. QED
      BY <3>3, <3>4, <3>5 DEF OneAtATime, At
  <2>2. ASSUME NEW t \in ledger[w].refs PROVE FALSE
    <3>1. t \in Steps /\ KeyOf[t] = w /\ RunOf[t] = p
      BY <1>3, <1>4, <1>6, <2>2 DEF EntriesInv, Entry
    <3>2. IsRecorded(t)
      BY <1>4, <2>2, <3>1 DEF IsRecorded
    <3>3. p \in Runs
      BY <3>1, ProvisionAssumption
    <3>4. PICK i \in task[p].todo : i.key = w
      BY <1>2, <1>5, <3>1, <3>2, <3>3 DEF ListsAll, IsDeleting
    <3>. QED
      BY <1>3, <1>5, <3>4
  <2>. QED
    BY <2>1, <2>2
<1>. QED
  BY <1>4, <1>6

\* With one reconcile at a time, and when nothing fails while artifacts are built, a
\* rollback deletes an artifact only after the watcher that forge builds it for, unless
\* another run uses the watcher (rollback.go:17-19): it takes its references in the order
\* of their ranks, its sweep finds only tags to finish, which changes nothing in the order,
\* and nobody else is between giving the watcher up and deleting it.
THEOREM WatcherIsFirst ==
    Orderly /\ Workers = 1 /\ BuildsAreSafe /\ WatchersRankLower => (Spec => WatcherGoesFirst)
<1>. SUFFICES ASSUME Orderly, Workers = 1, BuildsAreSafe, WatchersRankLower PROVE Spec => WatcherGoesFirst
  OBVIOUS
<1> DEFINE A == \A p \in Runs \cup {Sweeper} :
                   LET k == task[p].item.key
                       w == Feeder[k]
                   IN  Deletes(p, k) /\ KindOf[k] = "artifact" /\ MadeBy(w, "wizard") =>
                           ledger[w] # NoEntry /\ \E t \in ledger[w].refs : RunOf[t] # p
           Rest == AloneInv /\ LeakInv /\ ArtifactsInv /\ EntriesInv /\ OrderInv /\ \A r \in Runs : ListsAll(r)
<1>1. Init => Rest
  <2>1. Init => \A r \in Runs : task[r] = Idle
    BY DEF Init
  <2>2. Init => \A r \in Runs : ListsAll(r)
    BY <2>1 DEF ListsAll, IsDeleting, At
  <2>. QED
    BY <2>2, AloneInit, LeakInit, ArtifactsInit, OrderInit
<1>2. TypeInv /\ ProvisionInv /\ Rest /\ [Next]_vars => Rest'
  <2>. SUFFICES ASSUME TypeInv, ProvisionInv, Rest, [Next]_vars PROVE Rest'
    OBVIOUS
  <2>1. AloneInv' /\ LeakInv' /\ ArtifactsInv'
    BY OneAtATimeStep, SeesTheEntryStep, LeakStep, ArtifactsStep DEF AloneInv, LeakInv
  <2>2. EntriesInv' /\ OrderInv' /\ \A r \in Runs : ListsAll(r)'
    BY EntriesStep, OrderStep, ListsAllStep DEF Procs
  <2>. QED
    BY <2>1, <2>2
<1>3. TypeInv /\ ProvisionInv /\ Rest => A
  BY FeederIsInUse DEF AloneInv, LeakInv, Procs, Deletes
<1>4. TypeInv /\ ProvisionInv /\ Rest => [A]_vars
  BY <1>3
<1>. QED
  BY <1>1, <1>2, <1>4, ProvisionIsSound, PTL DEF Spec, WatcherGoesFirst
=============================================================================
