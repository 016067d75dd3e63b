----------------------------- MODULE Provision -----------------------------
(***************************************************************************)
(* Provisioning and rollback of upstream resources: Env.ensure             *)
(* (src/internal/steps/ensure.go), Env.Rollback and Env.SweepTerminating   *)
(* (src/internal/steps/rollback.go) with the steps that call them.  The    *)
(* reconciler works on one step or one rollback of a run at a time, the    *)
(* sweeper runs beside it, and people and forge change the upstream        *)
(* services between any two requests.                                      *)
(*                                                                         *)
(* Every request to an upstream service is a step of its own.  A call of   *)
(* the ledger is one step here: module Ledger splits it, and shows that it *)
(* takes effect at once when reads are current.  What the steps of a type  *)
(* make, hash and compare is left to constants; module Recipes has it.     *)
(***************************************************************************)
EXTENDS Integers, FiniteSets

CONSTANTS Runs, Sweeper,      \* the goroutines: one reconcile per run, the sweeper
          Steps, Keys,        \* step instances of the runs; upstream resources
          RunOf, KeyOf,       \* per step: its run and its resource
          After,              \* per step: the steps of its run that come first
          Cases,              \* what runs ask for: functions from their steps to asks
          Configs,            \* instance configurations
          Object(_, _),       \* of an ask and a configuration: the object to create,
          Identity(_, _),     \* ... its spec hash,
          Same(_, _, _),      \* ... and whether a given object is what is wanted
          TwoCalls(_),        \* asks whose create is followed by a call with an effect
          FiresAtOnce(_),     \* asks whose create has that effect itself
          OnlyDefaults(_),    \* asks that the configuration gives defaults to, no identity
          KindOf,             \* per key: "named", "artifact" or "tag"
          Rank,               \* per key: undoRank of its kind
          Feeder,             \* per artifact: the watcher forge builds it for
          ArtifactOf,         \* per tag: the artifact it is set on
          Premade,            \* resources people may have made beforehand
          NoHash, NoId, NoEntry, Absent, NoStep, NoItem, Idle,
          MaxAttempts,        \* maxEnsureAttempts
          Workers,            \* MaxConcurrentReconciles, 1 by default
          SweepOverlaps,      \* a sweep may list while somebody is deleting
          PeopleCreate, PeopleDelete,  \* what people do upstream during the runs
          MaxPeople, MaxEdits, MaxId,  \* bounds for model checking
          MaxFaults(_)        \* ... of failed requests and crashes, for what runs ask for

ASSUME ProvisionAssumption ==
    /\ Sweeper \notin Runs /\ IsFiniteSet(Runs)
    /\ RunOf \in [Steps -> Runs] /\ KeyOf \in [Steps -> Keys]
    /\ After \in [Steps -> SUBSET Steps]
    /\ \A t \in Steps : \A s \in After[t] : RunOf[s] = RunOf[t]
    /\ \A case \in Cases : DOMAIN case \subseteq Steps
    /\ KindOf \in [Keys -> {"named", "artifact", "tag"}]
    /\ Rank \in [Keys -> Nat] /\ Feeder \in [Keys -> Keys]
    /\ ArtifactOf \in [Keys -> Keys]
    /\ \A k \in Keys : KindOf[k] = "tag" => KindOf[ArtifactOf[k]] = "artifact"
    /\ MaxAttempts \in Nat \ {0} /\ Workers \in Nat \ {0}
    /\ SweepOverlaps \in BOOLEAN /\ PeopleCreate \in BOOLEAN /\ PeopleDelete \in BOOLEAN
    /\ MaxPeople \in Nat /\ MaxEdits \in Nat /\ MaxId \in Nat
    /\ \A case \in Cases : MaxFaults(case) \in Nat
    /\ Premade \subseteq [maker: {"people"}, object: {res.object : res \in Premade},
                          id: {NoId}, effects: {0}]

Ids == 1..MaxId \cup {NoId}

Asks == UNION {{case[t] : t \in DOMAIN case} : case \in Cases}
Objects == {Object(a, c) : a \in Asks, c \in Configs} \cup {res.object : res \in Premade} \cup {NoHash}
Hashes == {Identity(a, c) : a \in Asks, c \in Configs} \cup {NoHash}

\* effects counts what followed or came with the create, up to two.
Resource == [maker: {"wizard", "people", "forge"}, object: Objects, id: Ids, effects: 0..2]

Entry == [managed: BOOLEAN, hash: Hashes, externalID: Ids,
          refs: SUBSET Steps, terminating: BOOLEAN]

\* A piece of a rollback (one reference) or of a sweep (one abandoned entry).
Item == [key: Keys, step: Steps \cup {NoStep}, entry: Entry]

EnsureAt == {"entry", "upstream", "record", "create", "effect", "id", "repoint", "done"}

\* config is the configuration the reconcile has read, target the artifactId of
\* a tag step.
Applying == [at: EnsureAt, step: Steps, config: Configs, target: Ids, tries: 0..(MaxAttempts - 1),
             seen: Entry \cup {NoEntry}, found: Resource \cup {Absent}]

Undoing == [at: {"list", "next", "delete", "finish"}, sweep: BOOLEAN,
            todo: SUBSET Item, item: Item \cup {NoItem}, ok: BOOLEAN]

\* What stands for nothing is nothing.
ASSUME MarkersAreDistinct ==
    /\ NoEntry \notin Entry /\ Absent \notin Resource
    /\ Idle \notin Applying \cup Undoing
    /\ NoId \notin Nat

VARIABLES ledger,    \* the entry of each key
          upstream,  \* the resource of each key
          task,      \* what each goroutine is doing
          ready,     \* steps the reconciler recorded as Succeeded
          outputs,   \* per Succeeded waitBuild step: its output artifactId
          mode,      \* per run: "apply", "undo" (rollback wanted), "undoing" or "gone" (rolled back)
          asks,      \* what the steps that take part ask for
          config,    \* the instance configuration
          nextId,    \* the next artifact ID
          people,    \* acts of people so far
          edits,     \* edits of the configuration so far
          faults     \* failed requests and crashes so far

vars == <<ledger, upstream, task, ready, outputs, mode, asks, config, nextId, people, edits, faults>>
given == <<outputs, asks, config, nextId, people, edits>>
outside == <<given, faults>>

\* Resources that no run asks for are left out.
Wanted(k) == \E t \in DOMAIN asks : KeyOf[t] = k

\* Every variable has its type; in particular ensure makes MaxAttempts passes
\* at most (ensure.go:61).
TypeOK ==
    /\ ledger \in [Keys -> Entry \cup {NoEntry}]
    /\ upstream \in [Keys -> Resource \cup {Absent}]
    /\ task \in [Runs \cup {Sweeper} -> Applying \cup Undoing \cup {Idle}]
    /\ ready \subseteq Steps
    /\ outputs \in [Steps -> Ids]
    /\ mode \in [Runs -> {"apply", "undo", "undoing", "gone"}]
    /\ asks \in Cases
    /\ config \in Configs
    /\ nextId \in 1..(MaxId + 1)
    /\ people \in 0..MaxPeople
    /\ edits \in 0..MaxEdits
    /\ faults \in 0..MaxFaults(asks)

Init ==
    /\ ledger = [k \in Keys |-> NoEntry]
    /\ upstream \in [Keys -> Premade \cup {Absent}]
    /\ task = [p \in Runs \cup {Sweeper} |-> Idle]
    /\ ready = {}
    /\ outputs = [t \in Steps |-> NoId]
    /\ mode = [r \in Runs |-> "apply"]
    /\ asks \in Cases
    /\ \A k \in Keys \ {l \in Keys : KindOf[l] = "named" /\ Wanted(l)} : upstream[k] = Absent
    /\ config \in Configs
    /\ nextId = 1
    /\ people = 0
    /\ edits = 0
    /\ faults = 0

-----------------------------------------------------------------------------
(* Helpers. *)

\* The spec hash of a step: tags move and artifacts are forge's, neither has one.
Hash(t, c) == IF KindOf[KeyOf[t]] = "named" THEN Identity(asks[t], c) ELSE NoHash

\* existing.Matches: tags and artifacts are whatever they are.
Matches(t, c, res) == KindOf[KeyOf[t]] = "named" => Same(asks[t], c, res.object)

\* (mutant) A resource found without an entry counts as the wizard's own.
NewEntryManaged(t, c, managed, id) ==
    [managed |-> TRUE, hash |-> Hash(t, c), externalID |-> id, refs |-> {t}, terminating |-> FALSE]

\* (mutant) The ID of a claimed resource is not recorded.
NewEntryWithoutId(t, c, managed, id) ==
    [managed |-> managed, hash |-> Hash(t, c), externalID |-> NoId, refs |-> {t}, terminating |-> FALSE]

\* The entry Register creates.
NewEntry(t, c, managed, id) ==
    [managed |-> managed, hash |-> Hash(t, c), externalID |-> id, refs |-> {t}, terminating |-> FALSE]

\* (mutant) The tag step does not answer the ID.
CreatedIdLost(r) == NoId

\* The ID the create of r answers: a tag step answers its artifactId, the others
\* have none to answer.
CreatedId(r) == task[r].target

Abandoned(e) == e # NoEntry /\ e.terminating /\ e.refs = {}

\* (mutant) Every kind is deleted by ID.
DeletableById(k, e) == e.externalID # NoId

\* deleteUpstream needs the recorded ID of an artifact or tag.
Deletable(k, e) == KindOf[k] # "named" => e.externalID # NoId

\* Whether a delete by what the entry e records hits the resource that is there;
\* the ID of a tag is that of the artifact it is set on.
Hits(k, e) ==
    /\ upstream[k] # Absent
    /\ KindOf[k] # "named" => upstream[k].id = e.externalID

\* DeleteArtifact takes the tags along, whoever set them.
Without(k) ==
    [l \in Keys |-> IF l = k \/ (KindOf[l] = "tag" /\ ArtifactOf[l] = k) THEN Absent ELSE upstream[l]]

At(p, at) == task[p] # Idle /\ task[p].at = at
Busy == {r \in Runs : task[r] # Idle}
IsDeleting(p) == At(p, "next") \/ At(p, "delete") \/ At(p, "finish")

Goto(p, at) == task' = [task EXCEPT ![p].at = at]
Stop(p) == task' = [task EXCEPT ![p] = Idle]

\* (mutant) One pass too many.
RetryAgain(p) ==
    IF task[p].tries < MaxAttempts
      THEN task' = [task EXCEPT ![p].at = "entry", ![p].tries = @ + 1, ![p].seen = NoEntry]
      ELSE Stop(p)

\* The next pass of ensure's loop, or its error after the last one.
Retry(p) ==
    IF task[p].tries + 1 < MaxAttempts
      THEN task' = [task EXCEPT ![p].at = "entry", ![p].tries = @ + 1, ![p].seen = NoEntry,
                                ![p].found = IF KindOf[KeyOf[task[p].step]] = "artifact" THEN @ ELSE Absent]
      ELSE Stop(p)

-----------------------------------------------------------------------------
(* ensure *)

\* The artifactId of a tag step; the other steps have none.
Targets(t) ==
    IF KindOf[KeyOf[t]] = "tag" THEN {outputs[s] : s \in {s \in After[t] : KeyOf[s] = ArtifactOf[KeyOf[t]]}}
                                ELSE {NoId}

\* The reconciler reaches a step that is not Succeeded.  waitBuild looks its
\* artifact up before it calls ensure, and waits while there is none.  A tag
\* step has its artifactId from an earlier waitBuild step.  The configuration is
\* read anew by every reconcile.
StartEnsure(r, t) ==
    /\ task[r] = Idle /\ mode[r] = "apply" /\ Cardinality(Busy) < Workers
    /\ RunOf[t] = r /\ t \in DOMAIN asks \ ready /\ After[t] \subseteq ready
    /\ KindOf[KeyOf[t]] = "artifact" => upstream[KeyOf[t]] # Absent
    /\ \E id \in Targets(t) : task' = [task EXCEPT ![r] =
           [at |-> "entry", step |-> t, config |-> config, target |-> id, tries |-> 0, seen |-> NoEntry,
            found |-> IF KindOf[KeyOf[t]] = "artifact" THEN upstream[KeyOf[t]] ELSE Absent]]
    /\ UNCHANGED <<ledger, upstream, ready, mode, outside>>

\* Ledger.Get; a terminating entry is a wait (ErrTerminating).
ReadEntry(r) ==
    LET e == ledger[KeyOf[task[r].step]]
    IN  /\ At(r, "entry")
        /\ IF e # NoEntry /\ e.terminating
             THEN Stop(r)
             ELSE task' = [task EXCEPT ![r].at = "upstream", ![r].seen = e]
        /\ UNCHANGED <<ledger, upstream, ready, mode, outside>>

\* (mutant) Whatever stands upstream is taken for the step's own resource.
AcceptsAnything(t, c, seen, res) == TRUE

\* A resource that is there must look right, and the entry must carry the same
\* hash; otherwise the step fails for good.
Accepts(t, c, seen, res) ==
    /\ Matches(t, c, res)
    /\ seen # NoEntry /\ seen.hash # NoHash /\ Hash(t, c) # NoHash => seen.hash = Hash(t, c)

\* The artifact of a tag step stands under the ID the step has of it; otherwise
\* the index answers 404 to its requests.
TargetStands(r) ==
    LET k == KeyOf[task[r].step]
        a == upstream[ArtifactOf[k]]
    IN  KindOf[k] = "tag" => a # Absent /\ a.id = task[r].target

\* m.Get and the checks that need no further request.
ReadUpstream(r) ==
    LET t == task[r].step
        res == IF KindOf[KeyOf[t]] = "artifact" THEN task[r].found ELSE upstream[KeyOf[t]]
    IN  /\ At(r, "upstream")
        /\ IF TargetStands(r) /\ (res = Absent \/ Accepts(t, task[r].config, task[r].seen, res))
             THEN task' = [task EXCEPT ![r].at = "record", ![r].found = res]
             ELSE Stop(r)
        /\ UNCHANGED <<ledger, upstream, ready, mode, outside>>

\* (mutant) The call that follows a create is made for what was found, too.
RecordedFiring(r) ==
    Goto(r, CASE task[r].found = Absent -> "create"
              [] task[r].found # Absent /\ TwoCalls(asks[task[r].step]) -> "effect"
              [] OTHER -> "done")

\* After the reference is recorded: create an absent resource, re-point a tag.
Recorded(r) ==
    LET t == task[r].step
    IN  Goto(r, CASE task[r].found = Absent -> "create"
                  [] task[r].found # Absent /\ KindOf[KeyOf[t]] = "tag" -> "repoint"
                  [] OTHER -> "done")

\* No entry was seen: Register.  A resource that is there is managed only when
\* the step claims it; one that is not is managed, before it is created.
RecordNew(r) ==
    LET t == task[r].step
        found == task[r].found
    IN  /\ At(r, "record") /\ task[r].seen = NoEntry
        /\ IF ledger[KeyOf[t]] # NoEntry
             THEN Retry(r) /\ UNCHANGED ledger
             ELSE /\ ledger' = [ledger EXCEPT ![KeyOf[t]] =
                        NewEntry(t, task[r].config, found = Absent \/ KindOf[KeyOf[t]] = "artifact",
                                 IF found = Absent \/ KindOf[KeyOf[t]] = "named" THEN NoId ELSE found.id)]
                  /\ Recorded(r)
        /\ UNCHANGED <<upstream, ready, mode, outside>>

\* (mutant) A vanished resource is recreated without becoming the wizard's own.
JoinedUnmanaged(e, t, manage) == [e EXCEPT !.refs = @ \cup {t}]

\* The entry after AddRef.
Joined(e, t, manage) == [e EXCEPT !.refs = @ \cup {t}, !.managed = @ \/ manage]

\* An entry was seen: AddRef, which looks again.
RecordJoin(r) ==
    LET t == task[r].step
        e == ledger[KeyOf[t]]
    IN  /\ At(r, "record") /\ task[r].seen # NoEntry
        /\ \/ e = NoEntry /\ Retry(r) /\ UNCHANGED ledger
           \/ e # NoEntry /\ e.terminating /\ Stop(r) /\ UNCHANGED ledger
           \/ /\ e # NoEntry /\ ~e.terminating
              /\ ledger' = [ledger EXCEPT ![KeyOf[t]] = Joined(e, t, task[r].found = Absent)]
              /\ Recorded(r)
        /\ UNCHANGED <<upstream, ready, mode, outside>>

\* What the create of r makes.
Made(r) ==
    LET ask == asks[task[r].step]
    IN  [maker |-> "wizard", object |-> Object(ask, task[r].config), id |-> task[r].target,
         effects |-> IF FiresAtOnce(ask) THEN 1 ELSE 0]

\* What SetTag leaves: a tag it moves is still its maker's.
Moved(r) ==
    LET res == upstream[KeyOf[task[r].step]]
    IN  [Made(r) EXCEPT !.maker = IF res = Absent THEN @ ELSE res.maker]

\* m.Create; 409 starts over.  SetTag fails without its artifact, and moves a tag
\* that is there.
Create(r) ==
    LET t == task[r].step
        k == KeyOf[t]
        next == IF TwoCalls(asks[t]) THEN "effect" ELSE IF CreatedId(r) # NoId THEN "id" ELSE "done"
    IN  /\ At(r, "create")
        /\ \/ /\ KindOf[k] # "tag" /\ upstream[k] # Absent
              /\ Retry(r) /\ UNCHANGED upstream
           \/ /\ KindOf[k] # "tag" /\ upstream[k] = Absent
              /\ upstream' = [upstream EXCEPT ![k] = Made(r)] /\ Goto(r, next)
           \/ /\ KindOf[k] = "tag" /\ TargetStands(r)
              /\ upstream' = [upstream EXCEPT ![k] = Moved(r)] /\ Goto(r, next)
           \/ /\ KindOf[k] = "tag" /\ ~TargetStands(r)
              /\ Stop(r) /\ UNCHANGED upstream
        /\ UNCHANGED <<ledger, ready, mode, outside>>

\* The call that follows the create hits whatever stands under the name by
\* then; when nothing does, the step fails.
Effect(r) ==
    LET k == KeyOf[task[r].step]
    IN  /\ At(r, "effect")
        /\ IF upstream[k] = Absent
             THEN Stop(r) /\ UNCHANGED upstream
             ELSE /\ upstream' = [upstream EXCEPT ![k].effects = IF @ < 2 THEN @ + 1 ELSE @]
                  /\ Goto(r, "done")
        /\ UNCHANGED <<ledger, ready, mode, outside>>

\* The ID of the new resource goes into the entry; a missing or terminating
\* entry ends the call.
RecordId(r) ==
    LET k == KeyOf[task[r].step]
    IN  /\ At(r, "id")
        /\ IF ledger[k] = NoEntry \/ ledger[k].terminating
             THEN Stop(r) /\ UNCHANGED ledger
             ELSE /\ ledger' = [ledger EXCEPT ![k] =
                        [Joined(ledger[k], task[r].step, FALSE) EXCEPT !.externalID = CreatedId(r)]]
                  /\ Goto(r, "done")
        /\ UNCHANGED <<upstream, ready, mode, outside>>

\* m.Update: SetTag on a tag that was found.
Repoint(r) ==
    /\ At(r, "repoint")
    /\ IF TargetStands(r)
         THEN upstream' = [upstream EXCEPT ![KeyOf[task[r].step]] = Moved(r)] /\ Goto(r, "done")
         ELSE Stop(r) /\ UNCHANGED upstream
    /\ UNCHANGED <<ledger, ready, mode, outside>>

\* The status patch that records the step as Succeeded, with its outputs: a
\* waitBuild step's ID is that of the artifact it found before its claim.
Succeed(r) ==
    LET t == task[r].step
    IN  /\ At(r, "done")
        /\ ready' = ready \cup {t}
        /\ outputs' = IF KindOf[KeyOf[t]] = "artifact" THEN [outputs EXCEPT ![t] = task[r].found.id]
                                                      ELSE outputs
        /\ Stop(r)
        /\ UNCHANGED <<ledger, upstream, mode, asks, config, nextId, people, edits, faults>>

-----------------------------------------------------------------------------
(* Rollback and sweep *)

BeginUndo(p, sweep, ok) ==
    task' = [task EXCEPT ![p] = [at |-> "list", sweep |-> sweep, todo |-> {}, item |-> NoItem, ok |-> ok]]

\* The run announces its rollback before anything is released.
StartRollback(r) ==
    /\ task[r] = Idle /\ mode[r] \in {"undo", "undoing"} /\ Cardinality(Busy) < Workers
    /\ mode' = [mode EXCEPT ![r] = "undoing"]
    /\ BeginUndo(r, TRUE, TRUE)
    /\ UNCHANGED <<ledger, upstream, ready, outside>>

StartSweep ==
    /\ task[Sweeper] = Idle
    /\ \E k \in Keys : Abandoned(ledger[k])
    /\ BeginUndo(Sweeper, TRUE, TRUE)
    /\ UNCHANGED <<ledger, upstream, ready, mode, outside>>

\* Ledger.List: a sweep takes the abandoned entries, a rollback the run's
\* references.  Both work from this snapshot.
List(p) ==
    LET abandoned == {[key |-> k, step |-> NoStep, entry |-> ledger[k]] :
                          k \in {l \in Keys : Abandoned(ledger[l])}}
        mine == {[key |-> KeyOf[t], step |-> t, entry |-> ledger[KeyOf[t]]] :
                     t \in {s \in Steps : /\ RunOf[s] = p
                                          /\ ledger[KeyOf[s]] # NoEntry
                                          /\ s \in ledger[KeyOf[s]].refs}}
    IN  /\ At(p, "list")
        /\ task[p].sweep /\ ~SweepOverlaps =>
              \A q \in (Runs \cup {Sweeper}) \ {p} : ~IsDeleting(q)
        /\ task' = [task EXCEPT ![p].at = "next",
                                ![p].todo = IF task[p].sweep THEN abandoned ELSE mine]
        /\ UNCHANGED <<ledger, upstream, ready, mode, outside>>

\* (mutant) Rollback takes resources in any order.
IsNextUnordered(p, i) == i \in task[p].todo

\* A rollback takes the lowest rank first, a sweep the order of the list.
IsNext(p, i) ==
    /\ i \in task[p].todo
    /\ task[p].sweep \/ \A j \in task[p].todo : Rank[i.key] <= Rank[j.key]

Take(p, i, at, e) ==
    task' = [task EXCEPT ![p].at = at, ![p].todo = @ \ {i}, ![p].item = [i EXCEPT !.entry = e]]

Skip(p, i) == task' = [task EXCEPT ![p].todo = @ \ {i}]

\* A sweep never deletes an unmanaged resource, only its entry.
SweepNext(p, i) ==
    /\ At(p, "next") /\ task[p].sweep /\ IsNext(p, i)
    /\ Take(p, i, IF i.entry.managed THEN "delete" ELSE "finish", i.entry)
    /\ UNCHANGED <<ledger, upstream, ready, mode, outside>>

\* (mutant) The entry is given up with the first reference that is dropped.
LeftByAll(e, t) == [e EXCEPT !.refs = {}, !.terminating = TRUE]

\* (mutant) The last reference leaves without marking the entry.
LeftUnmarked(e, t) == [e EXCEPT !.refs = @ \ {t}]

\* The entry after its reference t was dropped.
Left(e, t) == [e EXCEPT !.refs = @ \ {t}, !.terminating = @ \/ e.refs \subseteq {t}]

\* Ledger.Release and its outcome: nothing left to do (gone, shared), the
\* resource to delete, or (unmanaged) only the entry.
Release(p, i) ==
    LET k == i.key
        e == ledger[k]
        left == Left(e, i.step)
    IN  /\ At(p, "next") /\ ~task[p].sweep /\ IsNext(p, i)
        /\ \/ e = NoEntry /\ Skip(p, i) /\ UNCHANGED ledger
           \/ /\ e # NoEntry /\ left.refs # {}
              /\ ledger' = [ledger EXCEPT ![k] = left]
              /\ Skip(p, i)
           \/ /\ e # NoEntry /\ left.refs = {}
              /\ ledger' = [ledger EXCEPT ![k] = left]
              /\ Take(p, i, IF e.managed THEN "delete" ELSE "finish", left)
        /\ UNCHANGED <<upstream, ready, mode, outside>>

\* deleteUpstream; a resource that is gone counts as deleted, and an artifact
\* or tag without a recorded ID is an error.
DeleteUpstream(p) ==
    LET i == task[p].item
    IN  /\ At(p, "delete")
        /\ IF Deletable(i.key, i.entry)
             THEN /\ upstream' = IF Hits(i.key, i.entry) THEN Without(i.key) ELSE upstream
                  /\ Goto(p, "finish")
             ELSE /\ task' = [task EXCEPT ![p].at = "next", ![p].item = NoItem, ![p].ok = FALSE]
                  /\ UNCHANGED upstream
        /\ UNCHANGED <<ledger, ready, mode, outside>>

\* Ledger.Finish, and the end of a Release of an unmanaged resource, remove
\* whatever entry is there.
Finish(p) ==
    /\ At(p, "finish")
    /\ ledger' = [ledger EXCEPT ![task[p].item.key] = NoEntry]
    /\ task' = [task EXCEPT ![p].at = "next", ![p].item = NoItem]
    /\ UNCHANGED <<upstream, ready, mode, outside>>

\* (mutant) What the sweep failed to delete does not count.
EndSweepRegardless(p) ==
    /\ At(p, "next") /\ task[p].sweep /\ task[p].todo = {}
    /\ IF p = Sweeper THEN Stop(p) ELSE BeginUndo(p, FALSE, TRUE)
    /\ UNCHANGED <<ledger, upstream, ready, mode, outside>>

\* After its sweep a rollback goes on to the run's own references.
EndSweep(p) ==
    /\ At(p, "next") /\ task[p].sweep /\ task[p].todo = {}
    /\ IF p = Sweeper THEN Stop(p) ELSE BeginUndo(p, FALSE, task[p].ok)
    /\ UNCHANGED <<ledger, upstream, ready, mode, outside>>

\* (mutant) A rollback counts as done whatever failed.
EndRollbackRegardless(r) ==
    /\ At(r, "next") /\ ~task[r].sweep /\ task[r].todo = {}
    /\ mode' = [mode EXCEPT ![r] = "gone"]
    /\ ready' = {t \in ready : RunOf[t] # r}
    /\ Stop(r)
    /\ UNCHANGED <<ledger, upstream, outside>>

\* A rollback without an error is final; any other is repeated.
EndRollback(r) ==
    /\ At(r, "next") /\ ~task[r].sweep /\ task[r].todo = {}
    /\ mode' = IF task[r].ok THEN [mode EXCEPT ![r] = "gone"] ELSE mode
    /\ ready' = IF task[r].ok THEN {t \in ready : RunOf[t] # r} ELSE ready
    /\ Stop(r)
    /\ UNCHANGED <<ledger, upstream, outside>>

-----------------------------------------------------------------------------
(* Faults *)

Fault == faults < MaxFaults(asks) /\ faults' = faults + 1

\* A request of ensure fails, or its answer is lost after the step before.
EnsureFails(r) ==
    /\ Fault
    /\ \E at \in EnsureAt : At(r, at)
    /\ Stop(r)
    /\ UNCHANGED <<ledger, upstream, ready, mode, given>>

\* A delete or Finish fails, or its answer is lost: the next item is taken.
ItemFails(p) ==
    /\ Fault
    /\ At(p, "delete") \/ At(p, "finish")
    /\ task' = [task EXCEPT ![p].at = "next", ![p].item = NoItem, ![p].ok = FALSE]
    /\ UNCHANGED <<ledger, upstream, ready, mode, given>>

\* A Release fails without effect, or its answer is lost.
ReleaseFails(p, i) ==
    /\ Fault
    /\ At(p, "next") /\ ~task[p].sweep /\ IsNext(p, i)
    /\ \/ UNCHANGED ledger
       \/ /\ ledger[i.key] # NoEntry
          /\ ledger' = [ledger EXCEPT ![i.key] = Left(@, i.step)]
    /\ task' = [task EXCEPT ![p].todo = @ \ {i}, ![p].ok = FALSE]
    /\ UNCHANGED <<upstream, ready, mode, given>>

\* A List fails: a rollback goes on after a failed sweep, nothing else does.
ListFails(p) ==
    /\ Fault
    /\ At(p, "list")
    /\ IF p # Sweeper /\ task[p].sweep THEN BeginUndo(p, FALSE, FALSE) ELSE Stop(p)
    /\ UNCHANGED <<ledger, upstream, ready, mode, given>>

\* The operator dies; what it was doing is forgotten.
Crash ==
    /\ Fault
    /\ \E p \in Runs \cup {Sweeper} : task[p] # Idle
    /\ task' = [p \in Runs \cup {Sweeper} |-> Idle]
    /\ UNCHANGED <<ledger, upstream, ready, mode, given>>

-----------------------------------------------------------------------------
(* The surroundings: the owner of a run, people, forge. *)

\* desiredState becomes RolledBack, or the run is deleted.
RequestRollback(r) ==
    /\ mode[r] = "apply"
    /\ mode' = [mode EXCEPT ![r] = "undo"]
    /\ UNCHANGED <<ledger, upstream, task, ready, outside>>

\* Somebody edits the ConfigMap; the next reconcile reads it.
EditConfig ==
    /\ edits < MaxEdits
    /\ edits' = edits + 1
    /\ config' \in Configs \ {config}
    /\ UNCHANGED <<ledger, upstream, task, ready, outputs, mode, asks, nextId, people, faults>>

PersonCreates(k) ==
    /\ PeopleCreate /\ people < MaxPeople
    /\ KindOf[k] = "named" /\ Wanted(k) /\ upstream[k] = Absent
    /\ \E res \in Premade : upstream' = [upstream EXCEPT ![k] = res]
    /\ people' = people + 1
    /\ UNCHANGED <<ledger, task, ready, outputs, mode, asks, config, nextId, edits, faults>>

PersonDeletes(k) ==
    /\ PeopleDelete /\ people < MaxPeople
    /\ upstream[k] # Absent
    /\ upstream' = Without(k)
    /\ people' = people + 1
    /\ UNCHANGED <<ledger, task, ready, outputs, mode, asks, config, nextId, edits, faults>>

\* Forge builds an artifact that is missing as long as its watcher stands.
ForgeBuilds(k) ==
    /\ KindOf[k] = "artifact" /\ upstream[k] = Absent
    /\ upstream[Feeder[k]] # Absent
    /\ nextId <= MaxId
    /\ upstream' = [upstream EXCEPT ![k] = [maker |-> "forge", object |-> NoHash, id |-> nextId, effects |-> 0]]
    /\ nextId' = nextId + 1
    /\ UNCHANGED <<ledger, task, ready, outputs, mode, asks, config, people, edits, faults>>

Ensure(r) ==
    \/ \E t \in Steps : StartEnsure(r, t)
    \/ ReadEntry(r) \/ ReadUpstream(r) \/ RecordNew(r) \/ RecordJoin(r)
    \/ Create(r) \/ Effect(r) \/ RecordId(r) \/ Repoint(r) \/ Succeed(r)

Undo(p) ==
    \/ List(p) \/ DeleteUpstream(p) \/ Finish(p) \/ EndSweep(p)
    \/ \E i \in IF At(p, "next") THEN task[p].todo ELSE {} : SweepNext(p, i) \/ Release(p, i)

Rollback(r) == StartRollback(r) \/ Undo(r) \/ EndRollback(r)

Sweep == StartSweep \/ Undo(Sweeper)

Faults ==
    \/ \E r \in Runs : EnsureFails(r)
    \/ \E p \in Runs \cup {Sweeper} :
          \/ ItemFails(p) \/ ListFails(p)
          \/ \E i \in IF At(p, "next") THEN task[p].todo ELSE {} : ReleaseFails(p, i)
    \/ Crash

Next ==
    \/ \E r \in Runs : Ensure(r) \/ Rollback(r) \/ RequestRollback(r)
    \/ Sweep
    \/ Faults
    \/ EditConfig
    \/ \E k \in Keys : PersonCreates(k) \/ PersonDeletes(k) \/ ForgeBuilds(k)

Spec == Init /\ [][Next]_vars

\* A goroutine that runs goes on; the work queue reaches every run that wants
\* its rollback, and the sweeper ticks.
FairSpec ==
    /\ Spec
    /\ \A r \in Runs : WF_vars(Ensure(r)) /\ SF_vars(StartRollback(r))
                       /\ WF_vars(Undo(r) \/ EndRollback(r))
    /\ WF_vars(Sweep)

-----------------------------------------------------------------------------
(* Properties. *)

MadeBy(k, maker) == upstream[k] # Absent /\ upstream[k].maker = maker

\* In this step p deletes the resource k, itself or with its artifact.
Deletes(p, k) ==
    /\ At(p, "delete") /\ task'[p] # task[p]
    /\ upstream[k] # Absent /\ upstream'[k] = Absent

DeletedByWizard(k) == \E p \in Runs \cup {Sweeper} : Deletes(p, k)

\* Nothing the wizard made is unknown to the ledger or exempt from deletion:
\* the entry is written before the resource is created (ensure.go:50-53).  Not so
\* for tags, whose entry can be finished after a delete by an ID of before.
NothingLeaks ==
    \A k \in Keys : KindOf[k] # "tag" /\ MadeBy(k, "wizard") =>
        ledger[k] # NoEntry /\ ledger[k].managed

\* When every run that uses a resource other than a tag counts as rolled back,
\* nothing that the wizard made stands under its name: whatever failed on the way,
\* and whoever took the deletion over, the last run to leave is not done before
\* the resource is gone (rollback.go:39-43, 70-76).
NothingLeftBehind ==
    \A k \in Keys :
        KindOf[k] # "tag" /\ (\A t \in Steps : KeyOf[t] = k => mode[RunOf[t]] = "gone")
            => ~MadeBy(k, "wizard")

\* What a Succeeded step finds under its name agrees with its ask in all that its
\* Get compares, whatever runs with other wishes and edits of the configuration
\* came before it (ensure.go:23-26).
UsersGetWhatTheyWant ==
    \A t \in ready : mode[RunOf[t]] = "apply" /\ KindOf[KeyOf[t]] = "named" =>
        /\ upstream[KeyOf[t]] # Absent
        /\ \E c \in Configs : Same(asks[t], c, upstream[KeyOf[t]].object)

\* Steps of standing runs that share a resource and both succeeded have a hash in
\* common: two runs asking for one key with different hashes conflict
\* (ensure.go:34-35).
DifferentNeverShare ==
    \A s, t \in ready :
        /\ KeyOf[s] = KeyOf[t] /\ KindOf[KeyOf[t]] = "named"
        /\ mode[RunOf[s]] = "apply" /\ mode[RunOf[t]] = "apply"
        => \E c, d \in Configs : Identity(asks[s], c) = Identity(asks[t], d)

\* A trigger fires at most once by its creation, and one that people made never:
\* adopting or confirming it again does not fire it, nor does a retry after a
\* lost answer (weavesteps.go:28-30, 324-326).
EffectsOnce ==
    \A k \in Keys : upstream[k] # Absent =>
        upstream[k].effects <= IF upstream[k].maker = "wizard" THEN 1 ELSE 0

\* What follows a create has happened to every created resource that a
\* Succeeded step uses: the labels are stamped on every resource the wizard
\* creates (ledger.go:37-39), the first firing runs once after the create
\* (weavesteps.go:28-30).
EffectNotLost ==
    \A t \in ready : mode[RunOf[t]] = "apply" /\ TwoCalls(asks[t]) /\ MadeBy(KeyOf[t], "wizard") =>
        upstream[KeyOf[t]].effects > 0

\* A tag that a Succeeded step set stands, and the ID on record is the one its
\* delete needs: that of the artifact it stands on, though forge may have rebuilt
\* it since the entry was made (ensure.go:95, 135 and 193-198).
RollbackCanDelete ==
    \A t \in ready : mode[RunOf[t]] = "apply" /\ KindOf[KeyOf[t]] = "tag" =>
        Hits(KeyOf[t], ledger[KeyOf[t]])

\* An artifact a step claimed is there and is the one the ledger would delete.
ClaimedIsCurrent ==
    \A t \in ready : mode[RunOf[t]] = "apply" /\ KindOf[KeyOf[t]] = "artifact" =>
        Hits(KeyOf[t], ledger[KeyOf[t]])

\* The step that r works on is refused.
Refused(r) == At(r, "upstream") /\ task'[r] = Idle /\ faults' = faults

\* An edit of the instance configuration never turns a template or app made from
\* the very same params into a conflict, not even with the attempt before the
\* edit (weavesteps.go:85-87, appstep.go:96-97).
DefaultsNeverConflict ==
    [][\A r \in Runs :
          LET ask == asks[task[r].step]
              seen == task[r].seen
          IN  Refused(r) /\ OnlyDefaults(ask) =>
                 \/ upstream[KeyOf[task[r].step]].object \notin {Object(ask, c) : c \in Configs}
                 \/ seen # NoEntry /\ seen.hash \notin {Identity(ask, c) : c \in Configs}]_vars

\* The wizard never deletes a resource that a Succeeded step of a run uses that
\* was not asked to roll back.
NeverDeletesInUse ==
    [][\A k \in Keys : DeletedByWizard(k) =>
          \A t \in ready : KeyOf[t] = k => mode[RunOf[t]] # "apply"]_vars

\* A resource made by people is never deleted by a rollback
\* (wizardresource_types.go:41-42).
NeverDeletesPeoples ==
    [][\A k \in Keys : DeletedByWizard(k) => ~MadeBy(k, "people")]_vars

\* An artifact is deleted only after the wizard's watcher that feeds it, unless
\* another run uses the watcher: forge would rebuild the artifact right after it
\* was removed (rollback.go:17-19).
WatcherGoesFirst ==
    [][\A p \in Runs \cup {Sweeper} :
          LET k == task[p].item.key
              w == Feeder[k]
          IN  Deletes(p, k) /\ KindOf[k] = "artifact" /\ MadeBy(w, "wizard") =>
                  ledger[w] # NoEntry /\ \E t \in ledger[w].refs : RunOf[t] # p]_vars

\* A rollback that was asked for ends: failure is not terminal, it is retried
\* until it succeeds (run_controller.go:355-356).
RollbackEnds == \A r \in Runs : mode[r] \in {"undo", "undoing"} ~> mode[r] = "gone"

\* An interrupted deletion is finished by somebody, so that a run waiting for
\* the resource can go on (rollback.go:79-81).
DeletionEnds ==
    \A k \in Keys : ledger[k] # NoEntry /\ ledger[k].terminating ~>
        ledger[k] = NoEntry \/ ~ledger[k].terminating

Contract == INSTANCE LedgerSpec WITH
    Refs <- Steps,
    state <- [k \in Keys |-> IF ledger[k] = NoEntry THEN "absent"
                             ELSE IF ledger[k].terminating THEN "terminating" ELSE "live"],
    users <- [k \in Keys |-> IF ledger[k] = NoEntry THEN {} ELSE ledger[k].refs],
    owned <- [k \in Keys |-> IF ledger[k] = NoEntry THEN FALSE ELSE ledger[k].managed]

Lives == INSTANCE RunSpec WITH
    stage <- [r \in Runs |-> CASE mode[r] = "undoing" -> "undoing"
                               [] mode[r] = "gone" -> "undone"
                               [] OTHER -> "active"],
    holds <- [r \in Runs |-> {t \in Steps : RunOf[t] = r /\ ledger[KeyOf[t]] # NoEntry
                                              /\ t \in ledger[KeyOf[t]].refs}]

\* Ensure, rollback and sweep do to the ledger what RunController counts on: a
\* reference appears only while its run is active, goes only when its own run
\* rolls back, and a run that counts as rolled back holds nothing, even of a step
\* that failed midway or of an entry that others finished (rollback.go:39-43).
KeepsRunSpec == Lives!Spec

\* Whatever ensure, rollback and sweep do in whatever order, the entries move as
\* the ledger's contract allows (ledger.go:4-12).
ContractSpec == Contract!Spec
=============================================================================
