-------------------------- MODULE ProvisionProofs --------------------------
(***************************************************************************)
(* What is proved of Provision for any runs, steps, resources, asks and    *)
(* bounds: that types are right, and, when a sweep lists only while nobody *)
(* is deleting, that the ledger and the runs keep their contracts.         *)
(***************************************************************************)
EXTENDS Provision, FiniteSetTheorems, TLAPS

Orderly == ~SweepOverlaps

Procs == Runs \cup {Sweeper}

\* The ledger has the step as a user of its resource.
IsRecorded(t) == ledger[KeyOf[t]] # NoEntry /\ t \in ledger[KeyOf[t]].refs

\* A goroutine works on the steps of its run while that run wants them, on a
\* waitBuild step only with an artifact, or on the run's rollback; the sweeper sweeps.
KnowsPlace(p) ==
    task[p] # Idle =>
        /\ task[p].at \in EnsureAt =>
              /\ p \in Runs /\ mode[p] \in {"apply", "undo"}
              /\ task[p].step \in DOMAIN asks /\ RunOf[task[p].step] = p
              /\ KindOf[KeyOf[task[p].step]] = "artifact" => task[p].found # Absent
        /\ task[p].at \notin EnsureAt =>
              IF p = Sweeper THEN task[p].sweep ELSE mode[p] = "undoing"
KnowsItsPlace == \A p \in Procs : KnowsPlace(p)

\* An entry is given up exactly when its last user leaves.
GivenUpWhenUnused ==
    \A k \in Keys : ledger[k] # NoEntry => (ledger[k].terminating <=> ledger[k].refs = {})

\* A step creates and calls only what it is recorded as a user of, and creates
\* only what the wizard may delete.
RecordsFirst(p) ==
    task[p] # Idle /\ task[p].at \in {"create", "effect", "id", "repoint", "done"} =>
        /\ IsRecorded(task[p].step)
        /\ task[p].at = "create" => ledger[KeyOf[task[p].step]].managed

\* A rollback in progress lists references of its run only, and while nothing
\* has failed it lists all of them.
ListsItsOwn(p) ==
    IsDeleting(p) /\ ~task[p].sweep =>
        /\ \A i \in task[p].todo :
              /\ i.step \in Steps /\ RunOf[i.step] = p /\ KeyOf[i.step] = i.key /\ IsRecorded(i.step)
              /\ \A j \in task[p].todo : i.step = j.step => i = j
        /\ task[p].ok =>
              \A t \in Steps : RunOf[t] = p /\ IsRecorded(t) => \E i \in task[p].todo : i.step = t

\* Whoever is about to delete a resource knows its entry, and nobody uses it.
KnowsItsClaims(p) ==
    IsDeleting(p) =>
        /\ task[p].sweep => \A i \in task[p].todo :
              i.step = NoStep /\ i.entry = ledger[i.key] /\ Abandoned(i.entry)
        /\ task[p].at # "next" =>
              /\ task[p].item \in Item
              /\ task[p].item.entry = ledger[task[p].item.key] /\ Abandoned(task[p].item.entry)
              /\ task[p].at = "delete" => task[p].item.entry.managed
              /\ task[p].sweep => \A i \in task[p].todo : i.key # task[p].item.key

\* The resources a goroutine is about to delete.
Claims(p) ==
    {i.key : i \in IF IsDeleting(p) /\ task[p].sweep THEN task[p].todo ELSE {}}
        \cup (IF At(p, "delete") \/ At(p, "finish") THEN {task[p].item.key} ELSE {})

\* No resource is deleted by two.
ClaimsAreExclusive ==
    \A p, q \in Procs : p # q => Claims(p) \cap Claims(q) = {}

Sound(p) == RecordsFirst(p) /\ ListsItsOwn(p) /\ KnowsItsClaims(p)

ProvisionInv ==
    /\ GivenUpWhenUnused
    /\ \A p \in Procs : Sound(p)
    /\ ClaimsAreExclusive

-----------------------------------------------------------------------------
(* Types. *)

TypeInv == TypeOK /\ KnowsItsPlace

\* The step leaves every goroutine but p alone.
OnlyMoves(p) == task' = [task EXCEPT ![p] = task'[p]]

\* p goes on with the step it works on.
KeepsStep(p) ==
    /\ task'[p].step = task[p].step /\ task'[p].target = task[p].target
    /\ KindOf[KeyOf[task[p].step]] = "artifact" => task'[p].found = task[p].found

LEMMA TaskType ==
    ASSUME TypeOK, NEW p \in Procs, task[p] # Idle
    PROVE  IF task[p].at \in EnsureAt THEN task[p] \in Applying ELSE task[p] \in Undoing
<1>1. task[p] \in Applying \cup Undoing
  BY DEF TypeOK, Procs
<1>2. CASE task[p] \in Applying
  BY <1>2 DEF Applying
<1>3. CASE task[p] \in Undoing
  BY <1>3 DEF Undoing, EnsureAt
<1>. QED
  BY <1>1, <1>2, <1>3

\* Everything a step of ensure works with has its type.
LEMMA EnsureFacts ==
    ASSUME TypeInv, NEW p \in Procs, NEW at \in EnsureAt, At(p, at)
    PROVE  /\ task[p] \in Applying /\ task[p] # Idle /\ task[p].at = at
           /\ task[p].step \in Steps /\ task[p].step \in DOMAIN asks /\ task[p].config \in Configs
           /\ task[p].target \in Ids
           /\ KindOf[KeyOf[task[p].step]] = "artifact" => task[p].found # Absent
           /\ KeyOf[task[p].step] \in Keys
           /\ task[p].found \in Resource \cup {Absent} /\ task[p].seen \in Entry \cup {NoEntry}
           /\ ledger[KeyOf[task[p].step]] \in Entry \cup {NoEntry}
           /\ upstream[KeyOf[task[p].step]] \in Resource \cup {Absent}
           /\ p \in Runs /\ RunOf[task[p].step] = p /\ mode[p] \in {"apply", "undo"}
<1>1. task[p] \in Applying /\ task[p] # Idle /\ task[p].at = at
  BY TaskType DEF TypeInv, At
<1>2. /\ task[p].step \in Steps /\ task[p].config \in Configs /\ task[p].target \in Ids
      /\ task[p].found \in Resource \cup {Absent} /\ task[p].seen \in Entry \cup {NoEntry}
  BY <1>1 DEF Applying
<1>3. KeyOf[task[p].step] \in Keys
  BY <1>2, ProvisionAssumption
<1>. QED
  BY <1>1, <1>2, <1>3 DEF TypeInv, TypeOK, KnowsItsPlace, KnowsPlace

LEMMA UndoFacts ==
    ASSUME TypeInv, NEW p \in Procs, NEW at \in {"list", "next", "delete", "finish"}, At(p, at)
    PROVE  /\ task[p] \in Undoing /\ task[p] # Idle /\ task[p].at = at
           /\ task[p].sweep \in BOOLEAN /\ task[p].ok \in BOOLEAN
           /\ task[p].todo \in SUBSET Item /\ task[p].item \in Item \cup {NoItem}
           /\ IF p = Sweeper THEN task[p].sweep ELSE p \in Runs /\ mode[p] = "undoing"
<1>1. task[p] \in Undoing /\ task[p] # Idle /\ task[p].at = at /\ at \notin EnsureAt
  BY TaskType DEF TypeInv, At, EnsureAt
<1>2. /\ task[p].sweep \in BOOLEAN /\ task[p].ok \in BOOLEAN
      /\ task[p].todo \in SUBSET Item /\ task[p].item \in Item \cup {NoItem}
  BY <1>1 DEF Undoing
<1>. QED
  BY <1>1, <1>2 DEF TypeInv, KnowsItsPlace, KnowsPlace, Procs

\* What the moves of a goroutine do to its task.
LEMMA GotoEnsure ==
    ASSUME TypeOK, NEW p \in Procs, task[p] \in Applying, NEW at \in EnsureAt, Goto(p, at)
    PROVE  /\ OnlyMoves(p) /\ task'[p] \in Applying /\ task'[p] # Idle /\ task'[p].at = at
           /\ task'[p].step = task[p].step /\ task'[p].config = task[p].config
           /\ task'[p].target = task[p].target
           /\ task'[p].seen = task[p].seen /\ task'[p].found = task[p].found
<1>1. \A w \in Applying : [w EXCEPT !.at = at] \in Applying
  BY DEF Applying
<1>2. task'[p] = [task[p] EXCEPT !.at = at]
  BY DEF Goto, TypeOK, Procs
<1>3. OnlyMoves(p)
  BY <1>2 DEF Goto, OnlyMoves
<1>. QED
  BY <1>1, <1>2, <1>3, MarkersAreDistinct DEF Applying

LEMMA GotoUndo ==
    ASSUME TypeOK, NEW p \in Procs, task[p] \in Undoing,
           NEW at \in {"list", "next", "delete", "finish"}, Goto(p, at)
    PROVE  /\ OnlyMoves(p) /\ task'[p] \in Undoing /\ task'[p] # Idle /\ task'[p].at = at
           /\ task'[p].sweep = task[p].sweep /\ task'[p].ok = task[p].ok
           /\ task'[p].todo = task[p].todo /\ task'[p].item = task[p].item
<1>1. \A w \in Undoing : [w EXCEPT !.at = at] \in Undoing
  BY DEF Undoing
<1>2. task'[p] = [task[p] EXCEPT !.at = at]
  BY DEF Goto, TypeOK, Procs
<1>3. OnlyMoves(p)
  BY <1>2 DEF Goto, OnlyMoves
<1>. QED
  BY <1>1, <1>2, <1>3, MarkersAreDistinct DEF Undoing

LEMMA StopMoves ==
    ASSUME TypeOK, NEW p \in Procs, Stop(p)
    PROVE  OnlyMoves(p) /\ task'[p] = Idle
BY DEF Stop, TypeOK, OnlyMoves, Procs

LEMMA RetryMoves ==
    ASSUME TypeOK, NEW p \in Procs, task[p] \in Applying, Retry(p)
    PROVE  /\ OnlyMoves(p)
           /\ \/ task'[p] = Idle
              \/ /\ task'[p] \in Applying /\ task'[p] # Idle /\ task'[p].at = "entry"
                 /\ task'[p].step = task[p].step /\ task'[p].config = task[p].config
                 /\ task'[p].target = task[p].target /\ task'[p].seen = NoEntry
                 /\ task'[p].found = IF KindOf[KeyOf[task[p].step]] = "artifact" THEN task[p].found ELSE Absent
<1>1. CASE task[p].tries + 1 < MaxAttempts
  <2> DEFINE f == IF KindOf[KeyOf[task[p].step]] = "artifact" THEN task[p].found ELSE Absent
             w == [task[p] EXCEPT !.at = "entry", !.tries = @ + 1, !.seen = NoEntry, !.found = f]
  <2>1. task' = [task EXCEPT ![p] = w]
    BY <1>1 DEF Retry
  <2>2. task[p].tries + 1 \in 0..(MaxAttempts - 1)
    BY <1>1, ProvisionAssumption DEF Applying
  <2>3. f \in Resource \cup {Absent}
    BY DEF Applying
  <2>. HIDE DEF f
  <2>4. /\ w \in Applying /\ w.at = "entry" /\ w.step = task[p].step /\ w.config = task[p].config
        /\ w.target = task[p].target /\ w.seen = NoEntry /\ w.found = f
    BY <2>2, <2>3 DEF Applying, EnsureAt
  <2>. HIDE DEF w
  <2>5. task'[p] = w /\ OnlyMoves(p)
    BY <2>1 DEF OnlyMoves, TypeOK, Procs
  <2>. QED
    BY <2>4, <2>5, MarkersAreDistinct DEF f
<1>2. CASE ~(task[p].tries + 1 < MaxAttempts)
  BY <1>2, StopMoves DEF Retry
<1>. QED
  BY <1>1, <1>2

LEMMA BeginUndoMoves ==
    ASSUME TypeOK, NEW p \in Procs, NEW sweep \in BOOLEAN, NEW ok \in BOOLEAN, BeginUndo(p, sweep, ok)
    PROVE  /\ OnlyMoves(p) /\ task'[p] \in Undoing /\ task'[p] # Idle /\ task'[p].at = "list"
           /\ task'[p].sweep = sweep /\ task'[p].ok = ok /\ task'[p].todo = {}
<1> DEFINE w == [at |-> "list", sweep |-> sweep, todo |-> {}, item |-> NoItem, ok |-> ok]
<1>1. w \in Undoing /\ w.at = "list" /\ w.sweep = sweep /\ w.ok = ok /\ w.todo = {}
  BY DEF Undoing
<1>2. task' = [task EXCEPT ![p] = w]
  BY DEF BeginUndo
<1>. HIDE DEF w
<1>3. task'[p] = w /\ OnlyMoves(p)
  BY <1>2 DEF OnlyMoves, TypeOK, Procs
<1>. QED
  BY <1>1, <1>3, MarkersAreDistinct

LEMMA ListMoves ==
    ASSUME TypeInv, NEW p \in Procs, List(p)
    PROVE  /\ OnlyMoves(p) /\ task'[p] \in Undoing /\ task'[p] # Idle /\ task'[p].at = "next"
           /\ task'[p].sweep = task[p].sweep /\ task'[p].ok = task[p].ok
           /\ task[p].sweep => task'[p].todo = {[key |-> k, step |-> NoStep, entry |-> ledger[k]] :
                                                   k \in {l \in Keys : Abandoned(ledger[l])}}
           /\ ~task[p].sweep => task'[p].todo = {[key |-> KeyOf[t], step |-> t, entry |-> ledger[KeyOf[t]]] :
                                                   t \in {s \in Steps : RunOf[s] = p /\ IsRecorded(s)}}
<1> DEFINE abandoned == {[key |-> k, step |-> NoStep, entry |-> ledger[k]] :
                             k \in {l \in Keys : Abandoned(ledger[l])}}
           mine == {[key |-> KeyOf[t], step |-> t, entry |-> ledger[KeyOf[t]]] :
                        t \in {s \in Steps : RunOf[s] = p /\ IsRecorded(s)}}
           todo == IF task[p].sweep THEN abandoned ELSE mine
           w == [task[p] EXCEPT !.at = "next", !.todo = todo]
<1>1. At(p, "list") /\ task' = [task EXCEPT ![p] = w]
  BY DEF List, IsRecorded
<1>2. task[p] \in Undoing
  BY <1>1, UndoFacts
<1>3. abandoned \subseteq Item
  <2>1. \A k \in Keys : Abandoned(ledger[k]) => ledger[k] \in Entry
    BY DEF Abandoned, TypeInv, TypeOK
  <2>. QED
    BY <2>1 DEF Item
<1>4. mine \subseteq Item
  <2>1. \A t \in Steps : IsRecorded(t) => KeyOf[t] \in Keys /\ ledger[KeyOf[t]] \in Entry
    BY ProvisionAssumption DEF IsRecorded, TypeInv, TypeOK
  <2>. QED
    BY <2>1 DEF Item
<1>5. todo \in SUBSET Item
  BY <1>3, <1>4
<1>6. /\ task[p].sweep => todo = abandoned
      /\ ~task[p].sweep => todo = mine
  OBVIOUS
<1>. HIDE DEF todo, abandoned, mine
<1>7. w \in Undoing /\ w.at = "next" /\ w.sweep = task[p].sweep /\ w.ok = task[p].ok /\ w.todo = todo
  BY <1>2, <1>5 DEF Undoing
<1>. HIDE DEF w
<1>8. task'[p] = w /\ OnlyMoves(p)
  BY <1>1 DEF OnlyMoves, TypeInv, TypeOK, Procs
<1>. QED
  BY <1>6, <1>7, <1>8, MarkersAreDistinct DEF todo, abandoned, mine

LEMMA SkipMoves ==
    ASSUME TypeOK, NEW p \in Procs, task[p] \in Undoing, NEW i, Skip(p, i)
    PROVE  /\ OnlyMoves(p) /\ task'[p] \in Undoing /\ task'[p] # Idle /\ task'[p].at = task[p].at
           /\ task'[p].sweep = task[p].sweep /\ task'[p].ok = task[p].ok
           /\ task'[p].todo = task[p].todo \ {i} /\ task'[p].item = task[p].item
<1>1. \A w \in Undoing : [w EXCEPT !.todo = @ \ {i}] \in Undoing
  BY DEF Undoing
<1>2. task'[p] = [task[p] EXCEPT !.todo = @ \ {i}]
  BY DEF Skip, TypeOK, Procs
<1>3. OnlyMoves(p)
  BY <1>2 DEF Skip, OnlyMoves
<1>. QED
  BY <1>1, <1>2, <1>3, MarkersAreDistinct DEF Undoing

LEMMA TakeMoves ==
    ASSUME TypeOK, NEW p \in Procs, task[p] \in Undoing, NEW i \in Item,
           NEW at \in {"delete", "finish"}, NEW e \in Entry, Take(p, i, at, e)
    PROVE  /\ OnlyMoves(p) /\ task'[p] \in Undoing /\ task'[p] # Idle /\ task'[p].at = at
           /\ task'[p].sweep = task[p].sweep /\ task'[p].ok = task[p].ok
           /\ task'[p].todo = task[p].todo \ {i}
           /\ task'[p].item \in Item /\ task'[p].item.key = i.key /\ task'[p].item.entry = e
<1> DEFINE j == [i EXCEPT !.entry = e]
           w == [task[p] EXCEPT !.at = at, !.todo = @ \ {i}, !.item = j]
<1>1. j \in Item /\ j.key = i.key /\ j.entry = e
  BY DEF Item
<1>2. task' = [task EXCEPT ![p] = w]
  BY DEF Take
<1>. HIDE DEF j
<1>3. /\ w \in Undoing /\ w.at = at /\ w.sweep = task[p].sweep /\ w.ok = task[p].ok
      /\ w.todo = task[p].todo \ {i} /\ w.item = j
  BY <1>1 DEF Undoing
<1>. HIDE DEF w
<1>4. task'[p] = w /\ OnlyMoves(p)
  BY <1>2 DEF OnlyMoves, TypeOK, Procs
<1>. QED
  BY <1>1, <1>3, <1>4, MarkersAreDistinct

\* An item is given up, after an error or not.
LEMMA ItemMoves ==
    ASSUME TypeOK, NEW p \in Procs, task[p] \in Undoing,
           \/ task' = [task EXCEPT ![p].at = "next", ![p].item = NoItem]
           \/ task' = [task EXCEPT ![p].at = "next", ![p].item = NoItem, ![p].ok = FALSE]
    PROVE  /\ OnlyMoves(p) /\ task'[p] \in Undoing /\ task'[p] # Idle /\ task'[p].at = "next"
           /\ task'[p].sweep = task[p].sweep
           /\ task'[p].ok => task[p].ok
           /\ task'[p].todo = task[p].todo /\ task'[p].item = NoItem
<1>1. CASE task' = [task EXCEPT ![p].at = "next", ![p].item = NoItem]
  <2> DEFINE w == [task[p] EXCEPT !.at = "next", !.item = NoItem]
  <2>1. /\ w \in Undoing /\ w.at = "next" /\ w.sweep = task[p].sweep /\ w.todo = task[p].todo
        /\ w.item = NoItem
    BY DEF Undoing
  <2>2. w.ok = task[p].ok
    BY DEF Undoing
  <2>3. task' = [task EXCEPT ![p] = w]
    BY <1>1
  <2>. HIDE DEF w
  <2>4. task'[p] = w /\ OnlyMoves(p)
    BY <2>3 DEF OnlyMoves, TypeOK, Procs
  <2>. QED
    BY <2>1, <2>2, <2>4, MarkersAreDistinct
<1>2. CASE task' = [task EXCEPT ![p].at = "next", ![p].item = NoItem, ![p].ok = FALSE]
  <2> DEFINE w == [task[p] EXCEPT !.at = "next", !.item = NoItem, !.ok = FALSE]
  <2>1. /\ w \in Undoing /\ w.at = "next" /\ w.sweep = task[p].sweep /\ w.todo = task[p].todo
        /\ w.item = NoItem
    BY DEF Undoing
  <2>2. ~w.ok
    BY DEF Undoing
  <2>3. task' = [task EXCEPT ![p] = w]
    BY <1>2
  <2>. HIDE DEF w
  <2>4. task'[p] = w /\ OnlyMoves(p)
    BY <2>3 DEF OnlyMoves, TypeOK, Procs
  <2>. QED
    BY <2>1, <2>2, <2>4, MarkersAreDistinct
<1>. QED
  BY <1>1, <1>2

\* A Release that failed is not tried again in this rollback.
LEMMA SkipFailedMoves ==
    ASSUME TypeOK, NEW p \in Procs, task[p] \in Undoing, NEW i,
           task' = [task EXCEPT ![p].todo = @ \ {i}, ![p].ok = FALSE]
    PROVE  /\ OnlyMoves(p) /\ task'[p] \in Undoing /\ task'[p] # Idle /\ task'[p].at = task[p].at
           /\ task'[p].sweep = task[p].sweep /\ ~task'[p].ok
           /\ task'[p].todo = task[p].todo \ {i} /\ task'[p].item = task[p].item
<1> DEFINE w == [task[p] EXCEPT !.todo = @ \ {i}, !.ok = FALSE]
<1>1. /\ w \in Undoing /\ w.at = task[p].at /\ w.sweep = task[p].sweep /\ w.item = task[p].item
      /\ w.todo = task[p].todo \ {i}
  BY DEF Undoing
<1>2. ~w.ok
  BY DEF Undoing
<1>3. task' = [task EXCEPT ![p] = w]
  OBVIOUS
<1>. HIDE DEF w
<1>4. task'[p] = w /\ OnlyMoves(p)
  BY <1>3 DEF OnlyMoves, TypeOK, Procs
<1>. QED
  BY <1>1, <1>2, <1>4, MarkersAreDistinct

\* What the helpers make of entries and resources.
LEMMA AskedFor ==
    ASSUME TypeOK, NEW t \in DOMAIN asks
    PROVE  t \in Steps /\ asks[t] \in Asks
BY ProvisionAssumption DEF TypeOK, Asks

LEMMA NewEntryFields ==
    ASSUME TypeOK, NEW t \in DOMAIN asks, NEW c \in Configs, NEW managed \in BOOLEAN, NEW id \in Ids
    PROVE  /\ NewEntry(t, c, managed, id) \in Entry
           /\ NewEntry(t, c, managed, id).refs = {t}
           /\ NewEntry(t, c, managed, id).managed = managed
           /\ NewEntry(t, c, managed, id).externalID = id
           /\ ~NewEntry(t, c, managed, id).terminating
<1>1. t \in Steps /\ Hash(t, c) \in Hashes
  BY AskedFor DEF Hash, Hashes
<1>. QED
  BY <1>1 DEF NewEntry, Entry

LEMMA JoinedFields ==
    ASSUME NEW e \in Entry, NEW t \in Steps, NEW manage \in BOOLEAN
    PROVE  /\ Joined(e, t, manage) \in Entry
           /\ Joined(e, t, manage).refs = e.refs \cup {t}
           /\ Joined(e, t, manage).managed = (e.managed \/ manage)
           /\ Joined(e, t, manage).externalID = e.externalID
           /\ Joined(e, t, manage).terminating = e.terminating
BY DEF Joined, Entry

LEMMA JoinedAsIs ==
    ASSUME NEW e \in Entry, NEW t \in Steps
    PROVE  /\ Joined(e, t, FALSE) \in Entry
           /\ Joined(e, t, FALSE).refs = e.refs \cup {t}
           /\ Joined(e, t, FALSE).managed = (e.managed \/ FALSE)
           /\ Joined(e, t, FALSE).externalID = e.externalID
           /\ Joined(e, t, FALSE).terminating = e.terminating
BY JoinedFields

LEMMA LeftFields ==
    ASSUME NEW e \in Entry, NEW t
    PROVE  /\ Left(e, t) \in Entry
           /\ Left(e, t).refs = e.refs \ {t}
           /\ Left(e, t).managed = e.managed
           /\ Left(e, t).externalID = e.externalID
           /\ Left(e, t).terminating <=> e.terminating \/ e.refs \subseteq {t}
BY DEF Left, Entry

LEMMA WithIdFields ==
    ASSUME NEW e \in Entry, NEW id \in Ids
    PROVE  /\ [e EXCEPT !.externalID = id] \in Entry
           /\ [e EXCEPT !.externalID = id].refs = e.refs
           /\ [e EXCEPT !.externalID = id].managed = e.managed
           /\ [e EXCEPT !.externalID = id].externalID = id
           /\ [e EXCEPT !.externalID = id].terminating = e.terminating
BY DEF Entry

LEMMA MadeFields ==
    ASSUME TypeInv, NEW r \in Runs, NEW at \in EnsureAt, At(r, at)
    PROVE  LET ask == asks[task[r].step] IN
           /\ Made(r) \in Resource /\ Made(r).maker = "wizard"
           /\ Made(r).id = task[r].target /\ Made(r).object = Object(ask, task[r].config)
           /\ Made(r).effects = IF FiresAtOnce(ask) THEN 1 ELSE 0
<1>1. r \in Procs /\ TypeOK
  BY DEF Procs, TypeInv
<1>2. task[r].step \in DOMAIN asks /\ task[r].config \in Configs /\ task[r].target \in Ids
  BY <1>1, EnsureFacts
<1>3. Object(asks[task[r].step], task[r].config) \in Objects
  BY <1>1, <1>2, AskedFor DEF Objects
<1>4. (IF FiresAtOnce(asks[task[r].step]) THEN 1 ELSE 0) \in 0..2
  OBVIOUS
<1>. QED
  BY <1>2, <1>3, <1>4 DEF Made, Resource

LEMMA FiredFields ==
    ASSUME NEW res \in Resource
    PROVE  LET fired == [res EXCEPT !.effects = IF @ < 2 THEN @ + 1 ELSE @]
           IN  /\ fired \in Resource /\ fired.maker = res.maker
               /\ fired.object = res.object /\ fired.id = res.id
               /\ fired.effects = IF res.effects < 2 THEN res.effects + 1 ELSE res.effects
<1> DEFINE n == IF res.effects < 2 THEN res.effects + 1 ELSE res.effects
<1>1. n \in 0..2
  BY DEF Resource
<1>. HIDE DEF n
<1>2. [res EXCEPT !.effects = n] \in Resource /\ [res EXCEPT !.effects = n].effects = n
  BY <1>1 DEF Resource
<1>. QED
  BY <1>1, <1>2 DEF n, Resource

LEMMA RemadeFields ==
    ASSUME NEW res \in Resource, NEW maker \in {"wizard", "people", "forge"}
    PROVE  /\ [res EXCEPT !.maker = maker] \in Resource
           /\ [res EXCEPT !.maker = maker].maker = maker
           /\ [res EXCEPT !.maker = maker].object = res.object
           /\ [res EXCEPT !.maker = maker].id = res.id
           /\ [res EXCEPT !.maker = maker].effects = res.effects
BY DEF Resource

LEMMA MovedFields ==
    ASSUME TypeInv, NEW r \in Runs, NEW at \in EnsureAt, At(r, at)
    PROVE  LET k == KeyOf[task[r].step]
               ask == asks[task[r].step]
           IN  /\ Moved(r) \in Resource
               /\ Moved(r).maker = IF upstream[k] = Absent THEN "wizard" ELSE upstream[k].maker
               /\ Moved(r).id = task[r].target /\ Moved(r).object = Object(ask, task[r].config)
               /\ Moved(r).effects = IF FiresAtOnce(ask) THEN 1 ELSE 0
<1> DEFINE k == KeyOf[task[r].step]
           made == Made(r)
           maker == IF upstream[k] = Absent THEN made.maker ELSE upstream[k].maker
<1>1. r \in Procs
  BY DEF Procs
<1>2. upstream[k] \in Resource \cup {Absent}
  BY <1>1, EnsureFacts
<1>3. /\ made \in Resource /\ made.maker = "wizard" /\ made.id = task[r].target
      /\ made.object = Object(asks[task[r].step], task[r].config)
      /\ made.effects = IF FiresAtOnce(asks[task[r].step]) THEN 1 ELSE 0
  BY MadeFields
<1>4. Moved(r) = [made EXCEPT !.maker = maker]
  BY <1>3 DEF Moved, Resource
<1>5. maker \in {"wizard", "people", "forge"} /\ maker = IF upstream[k] = Absent THEN "wizard" ELSE upstream[k].maker
  BY <1>2, <1>3 DEF Resource
<1>. HIDE DEF made, maker
<1> DEFINE moved == [made EXCEPT !.maker = maker]
<1>6. /\ moved \in Resource /\ moved.maker = maker /\ moved.object = made.object
      /\ moved.id = made.id /\ moved.effects = made.effects
  BY <1>3, <1>5, RemadeFields
<1>7. Moved(r) = moved
  BY <1>4
<1>. HIDE DEF moved
<1>. QED
  BY <1>3, <1>5, <1>6, <1>7

\* A step that moves p alone keeps the types when what it sets has them.
LEMMA MovesTyped ==
    ASSUME TypeInv, NEW p \in Procs, OnlyMoves(p), task'[p] \in Applying \cup Undoing \cup {Idle},
           KnowsPlace(p)', UNCHANGED <<asks, config, nextId, people, edits>>, faults' = faults \/ Fault,
           outputs' \in [Steps -> Ids],
           ledger' \in [Keys -> Entry \cup {NoEntry}], upstream' \in [Keys -> Resource \cup {Absent}],
           ready' \subseteq Steps, mode' \in [Runs -> {"apply", "undo", "undoing", "gone"}],
           \A q \in Runs \ {p} : mode'[q] = mode[q]
    PROVE  TypeInv'
<1>1. task' \in [Procs -> Applying \cup Undoing \cup {Idle}]
  BY DEF OnlyMoves, TypeInv, TypeOK, Procs
<1>2. faults' \in 0..MaxFaults(asks)
  BY ProvisionAssumption DEF Fault, TypeInv, TypeOK
<1>3. TypeOK'
  BY <1>1, <1>2 DEF TypeInv, TypeOK, Procs
<1>4. ASSUME NEW q \in Procs \ {p} PROVE KnowsPlace(q)'
  <2>1. task'[q] = task[q] /\ asks' = asks
    BY DEF OnlyMoves, TypeInv, TypeOK, Procs
  <2>2. KnowsPlace(q)
    BY DEF TypeInv, KnowsItsPlace
  <2>3. CASE q = Sweeper
    BY <2>1, <2>2, <2>3, ProvisionAssumption DEF KnowsPlace
  <2>4. CASE q \in Runs
    BY <2>1, <2>2, <2>4, ProvisionAssumption DEF KnowsPlace
  <2>. QED
    BY <2>3, <2>4 DEF Procs
<1>. QED
  BY <1>3, <1>4 DEF TypeInv, KnowsItsPlace

\* A goroutine goes on with the step, or the rollback or sweep, it was at, or stops.
GoesOn(p) ==
    /\ OnlyMoves(p)
    /\ \/ task'[p] = Idle
       \/ task'[p] \in Applying /\ task[p] \in Applying /\ KeepsStep(p)
       \/ task'[p] \in Undoing /\ task[p] \in Undoing /\ (p = Sweeper => task'[p].sweep = task[p].sweep)

LEMMA GoesOnTyped ==
    ASSUME TypeInv, NEW p \in Procs, task[p] # Idle, GoesOn(p), UNCHANGED <<mode, given>>,
           faults' = faults \/ Fault, ready' \subseteq Steps,
           ledger' \in [Keys -> Entry \cup {NoEntry}], upstream' \in [Keys -> Resource \cup {Absent}]
    PROVE  TypeInv'
<1>1. KnowsPlace(p)
  BY DEF TypeInv, KnowsItsPlace
<1>2. KnowsPlace(p)'
  <2>1. \A w \in Applying : w.at \in EnsureAt
    BY DEF Applying
  <2>2. \A w \in Undoing : w.at \notin EnsureAt
    BY DEF Undoing, EnsureAt
  <2>. QED
    BY <1>1, <2>1, <2>2 DEF KnowsPlace, GoesOn, KeepsStep, given
<1>3. task'[p] \in Applying \cup Undoing \cup {Idle}
  BY DEF GoesOn
<1>. QED
  BY <1>2, <1>3, MovesTyped DEF GoesOn, TypeInv, TypeOK, given

LEMMA StopGoesOn == ASSUME TypeOK, NEW p \in Procs, Stop(p) PROVE GoesOn(p)
BY StopMoves DEF GoesOn

LEMMA GotoGoesOn ==
    ASSUME TypeInv, NEW p \in Procs, NEW from \in EnsureAt, At(p, from), NEW at \in EnsureAt, Goto(p, at)
    PROVE  GoesOn(p)
BY EnsureFacts, GotoEnsure DEF GoesOn, KeepsStep, TypeInv

LEMMA RetryGoesOn ==
    ASSUME TypeInv, NEW p \in Procs, NEW from \in EnsureAt, At(p, from), Retry(p)
    PROVE  GoesOn(p)
BY EnsureFacts, RetryMoves DEF GoesOn, KeepsStep, TypeInv

LEMMA RecordedGoes ==
    ASSUME TypeInv, NEW p \in Procs, At(p, "record"), Recorded(p)
    PROVE  /\ GoesOn(p) /\ task'[p] \in Applying /\ task'[p] # Idle
           /\ task'[p].step = task[p].step /\ task'[p].config = task[p].config
           /\ task'[p].target = task[p].target
           /\ task'[p].seen = task[p].seen /\ task'[p].found = task[p].found
           /\ task'[p].at = CASE task[p].found = Absent -> "create"
                              [] task[p].found # Absent /\ KindOf[KeyOf[task[p].step]] = "tag" -> "repoint"
                              [] OTHER -> "done"
<1> DEFINE at == CASE task[p].found = Absent -> "create"
                   [] task[p].found # Absent /\ KindOf[KeyOf[task[p].step]] = "tag" -> "repoint"
                   [] OTHER -> "done"
<1>1. at \in EnsureAt /\ Goto(p, at)
  BY DEF EnsureAt, Recorded
<1>2. task[p] \in Applying
  BY EnsureFacts DEF EnsureAt
<1>. HIDE DEF at
<1>3. GoesOn(p) /\ task'[p] \in Applying /\ task'[p] # Idle /\ task'[p].at = at
  BY <1>1, <1>2, GotoEnsure DEF GoesOn, KeepsStep, TypeInv
<1>4. /\ task'[p].step = task[p].step /\ task'[p].config = task[p].config
      /\ task'[p].target = task[p].target
      /\ task'[p].seen = task[p].seen /\ task'[p].found = task[p].found
  BY <1>1, <1>2, GotoEnsure DEF TypeInv
<1>. QED
  BY <1>3, <1>4 DEF at

\* What a step does to one entry, as far as its users go.
Opens(t, m) ==
    /\ ledger[KeyOf[t]] = NoEntry
    /\ \E e \in Entry :
          /\ ledger' = [ledger EXCEPT ![KeyOf[t]] = e]
          /\ e.refs = {t} /\ e.managed = m /\ ~e.terminating
Joins(t, m) ==
    /\ ledger[KeyOf[t]] # NoEntry /\ ~ledger[KeyOf[t]].terminating
    /\ \E e \in Entry :
          /\ ledger' = [ledger EXCEPT ![KeyOf[t]] = e]
          /\ e.refs = ledger[KeyOf[t]].refs \cup {t} /\ ~e.terminating
          /\ e.managed = (ledger[KeyOf[t]].managed \/ m)
Leaves(k, t) ==
    /\ ledger[k] # NoEntry
    /\ \E e \in Entry :
          /\ ledger' = [ledger EXCEPT ![k] = e]
          /\ e.refs = ledger[k].refs \ {t} /\ e.managed = ledger[k].managed
          /\ e.terminating <=> ledger[k].terminating \/ ledger[k].refs \subseteq {t}
Closes(k) == ledger' = [ledger EXCEPT ![k] = NoEntry]

LEMMA LedgerChange ==
    ASSUME TypeOK, NEW k \in Keys, NEW e \in Entry \cup {NoEntry}, ledger' = [ledger EXCEPT ![k] = e]
    PROVE  /\ ledger' \in [Keys -> Entry \cup {NoEntry}]
           /\ ledger'[k] = e /\ \A l \in Keys \ {k} : ledger'[l] = ledger[l]
BY DEF TypeOK

LEMMA UpstreamChange ==
    ASSUME TypeOK, NEW k \in Keys, NEW res \in Resource \cup {Absent},
           upstream' = [upstream EXCEPT ![k] = res]
    PROVE  /\ upstream' \in [Keys -> Resource \cup {Absent}]
           /\ upstream'[k] = res /\ \A l \in Keys \ {k} : upstream'[l] = upstream[l]
BY DEF TypeOK

LEMMA WithoutFields ==
    ASSUME TypeOK, NEW k, upstream' = Without(k)
    PROVE  /\ upstream' \in [Keys -> Resource \cup {Absent}]
           /\ \A l \in Keys : upstream'[l] =
                 IF l = k \/ (KindOf[l] = "tag" /\ ArtifactOf[l] = k) THEN Absent ELSE upstream[l]
BY DEF Without, TypeOK

LEMMA RecordNewDoes ==
    ASSUME TypeInv, NEW r \in Runs, RecordNew(r)
    PROVE  /\ GoesOn(r)
           /\ \/ Retry(r) /\ ledger' = ledger
              \/ /\ Opens(task[r].step, task[r].found = Absent \/ KindOf[KeyOf[task[r].step]] = "artifact")
                 /\ Recorded(r)
<1> DEFINE t == task[r].step
           found == task[r].found
           managed == found = Absent \/ KindOf[KeyOf[t]] = "artifact"
           id == IF found = Absent \/ KindOf[KeyOf[t]] = "named" THEN NoId ELSE found.id
           e == NewEntry(t, task[r].config, managed, id)
<1>1. At(r, "record") /\ r \in Procs /\ "record" \in EnsureAt
  BY DEF RecordNew, Procs, EnsureAt
<1>2. CASE ledger[KeyOf[t]] # NoEntry
  <2>1. Retry(r) /\ ledger' = ledger
    BY <1>2 DEF RecordNew
  <2>. QED
    BY <1>1, <2>1, RetryGoesOn
<1>3. CASE ledger[KeyOf[t]] = NoEntry
  <2>1. ledger' = [ledger EXCEPT ![KeyOf[t]] = e] /\ Recorded(r)
    BY <1>3 DEF RecordNew
  <2>2. t \in DOMAIN asks /\ task[r].config \in Configs /\ found \in Resource \cup {Absent}
    BY <1>1, EnsureFacts
  <2>3. id \in Ids
    BY <2>2 DEF Ids, Resource
  <2>. HIDE DEF id
  <2>4. managed \in BOOLEAN /\ TypeOK
    BY DEF TypeInv
  <2>. HIDE DEF managed
  <2>5. e \in Entry /\ e.refs = {t} /\ e.managed = managed /\ ~e.terminating
    BY <2>2, <2>3, <2>4, NewEntryFields
  <2>6. Opens(t, managed)
    BY <1>3, <2>1, <2>5 DEF Opens
  <2>. QED
    BY <1>1, <2>1, <2>6, RecordedGoes DEF managed
<1>. QED
  BY <1>2, <1>3

LEMMA RecordJoinDoes ==
    ASSUME TypeInv, NEW r \in Runs, RecordJoin(r)
    PROVE  /\ GoesOn(r)
           /\ \/ (Retry(r) \/ Stop(r)) /\ ledger' = ledger
              \/ Joins(task[r].step, task[r].found = Absent) /\ Recorded(r)
<1> DEFINE t == task[r].step
           manage == task[r].found = Absent
           old == ledger[KeyOf[t]]
           e == Joined(old, t, manage)
<1>1. At(r, "record") /\ r \in Procs /\ "record" \in EnsureAt /\ TypeOK
  BY DEF RecordJoin, Procs, EnsureAt, TypeInv
<1>2. CASE Retry(r) /\ ledger' = ledger
  BY <1>1, <1>2, RetryGoesOn
<1>3. CASE Stop(r) /\ ledger' = ledger
  BY <1>1, <1>3, StopGoesOn
<1>4. CASE /\ old # NoEntry /\ ~old.terminating
           /\ ledger' = [ledger EXCEPT ![KeyOf[t]] = e] /\ Recorded(r)
  <2>1. t \in Steps /\ old \in Entry /\ manage \in BOOLEAN
    BY <1>1, <1>4, EnsureFacts
  <2>. HIDE DEF manage
  <2>2. e \in Entry /\ e.refs = old.refs \cup {t} /\ e.managed = (old.managed \/ manage) /\ ~e.terminating
    BY <1>4, <2>1, JoinedFields
  <2>3. Joins(t, manage)
    BY <1>4, <2>2 DEF Joins
  <2>. QED
    BY <1>1, <1>4, <2>3, RecordedGoes DEF manage
<1>. QED
  BY <1>2, <1>3, <1>4 DEF RecordJoin

LEMMA RecordIdDoes ==
    ASSUME TypeInv, NEW r \in Runs, RecordId(r)
    PROVE  /\ GoesOn(r)
           /\ \/ Stop(r) /\ ledger' = ledger
              \/ Joins(task[r].step, FALSE) /\ Goto(r, "done")
<1> DEFINE t == task[r].step
           k == KeyOf[t]
           e == Joined(ledger[k], t, FALSE)
           f == [e EXCEPT !.externalID = CreatedId(r)]
<1>1. At(r, "id") /\ r \in Procs /\ "id" \in EnsureAt /\ "done" \in EnsureAt /\ TypeOK
  BY DEF RecordId, Procs, EnsureAt, TypeInv
<1>2. CASE Stop(r) /\ ledger' = ledger
  BY <1>1, <1>2, StopGoesOn
<1>3. CASE /\ ledger[k] # NoEntry /\ ~ledger[k].terminating
           /\ ledger' = [ledger EXCEPT ![k] = f] /\ Goto(r, "done")
  <2>1. t \in Steps /\ ledger[k] \in Entry /\ CreatedId(r) \in Ids
    BY <1>1, <1>3, EnsureFacts DEF CreatedId
  <2>2. /\ e \in Entry /\ e.refs = ledger[k].refs \cup {t} /\ ~e.terminating
        /\ e.managed = (ledger[k].managed \/ FALSE)
    BY <1>3, <2>1, JoinedAsIs
  <2>. HIDE DEF e
  <2>3. /\ f \in Entry /\ f.refs = e.refs /\ ~f.terminating /\ f.managed = e.managed
    BY <2>1, <2>2, WithIdFields
  <2>. HIDE DEF f
  <2>4. Joins(t, FALSE)
    BY <1>3, <2>2, <2>3 DEF Joins
  <2>. QED
    BY <1>1, <1>3, <2>4, GotoGoesOn
<1>. QED
  BY <1>2, <1>3 DEF RecordId

LEMMA CreateDoes ==
    ASSUME TypeInv, NEW r \in Runs, Create(r)
    PROVE  LET t == task[r].step
               k == KeyOf[t]
           IN  /\ GoesOn(r) /\ At(r, "create")
               /\ \/ KindOf[k] # "tag" /\ Retry(r) /\ upstream' = upstream
                  \/ KindOf[k] = "tag" /\ Stop(r) /\ upstream' = upstream
                  \/ /\ KindOf[k] = "tag" => TargetStands(r)
                     /\ KindOf[k] # "tag" => upstream[k] = Absent
                     /\ Moved(r) \in Resource /\ upstream' = [upstream EXCEPT ![k] = Moved(r)]
                     /\ Goto(r, IF TwoCalls(asks[t]) THEN "effect"
                                ELSE IF CreatedId(r) # NoId THEN "id" ELSE "done")
<1> DEFINE t == task[r].step
           k == KeyOf[t]
           at == IF TwoCalls(asks[t]) THEN "effect" ELSE IF CreatedId(r) # NoId THEN "id" ELSE "done"
<1>1. At(r, "create") /\ r \in Procs /\ "create" \in EnsureAt /\ TypeOK
  BY DEF Create, Procs, EnsureAt, TypeInv
<1>2. CASE KindOf[k] # "tag" /\ Retry(r) /\ upstream' = upstream
  BY <1>1, <1>2, RetryGoesOn
<1>3. CASE KindOf[k] = "tag" /\ Stop(r) /\ upstream' = upstream
  BY <1>1, <1>3, StopGoesOn
<1>4. CASE /\ KindOf[k] = "tag" => TargetStands(r)
           /\ KindOf[k] # "tag" => upstream[k] = Absent
           /\ upstream' = [upstream EXCEPT ![k] = Moved(r)] /\ Goto(r, at)
  <2>1. Moved(r) \in Resource
    BY <1>1, MovedFields
  <2>2. at \in EnsureAt
    BY DEF EnsureAt
  <2>. HIDE DEF at
  <2>3. GoesOn(r)
    BY <1>1, <1>4, <2>2, GotoGoesOn
  <2>. QED
    BY <1>1, <1>4, <2>1, <2>3 DEF at
<1>5. upstream[k] = Absent => Moved(r) = Made(r)
  BY <1>1, MadeFields DEF Moved, Resource
<1>. QED
  BY <1>2, <1>3, <1>4, <1>5 DEF Create

LEMMA EffectDoes ==
    ASSUME TypeInv, NEW r \in Runs, Effect(r)
    PROVE  LET k == KeyOf[task[r].step]
           IN  /\ GoesOn(r)
               /\ \/ upstream[k] = Absent /\ Stop(r) /\ upstream' = upstream
                  \/ /\ upstream[k] # Absent /\ Goto(r, "done")
                     /\ \E res \in Resource :
                           /\ upstream' = [upstream EXCEPT ![k] = res]
                           /\ res.maker = upstream[k].maker /\ res.object = upstream[k].object
                           /\ res.id = upstream[k].id
                           /\ res.effects = IF upstream[k].effects < 2 THEN upstream[k].effects + 1
                                             ELSE upstream[k].effects
<1> DEFINE k == KeyOf[task[r].step]
           fired == [upstream[k] EXCEPT !.effects = IF @ < 2 THEN @ + 1 ELSE @]
<1>1. At(r, "effect") /\ r \in Procs /\ "effect" \in EnsureAt /\ "done" \in EnsureAt /\ TypeOK
  BY DEF Effect, Procs, EnsureAt, TypeInv
<1>2. CASE upstream[k] = Absent /\ Stop(r) /\ upstream' = upstream
  BY <1>1, <1>2, StopGoesOn
<1>3. CASE upstream[k] # Absent /\ Goto(r, "done") /\ upstream' = [upstream EXCEPT ![k] = fired]
  <2>1. upstream[k] \in Resource
    BY <1>1, <1>3, EnsureFacts
  <2>2. /\ fired \in Resource /\ fired.maker = upstream[k].maker /\ fired.object = upstream[k].object
        /\ fired.id = upstream[k].id
        /\ fired.effects = IF upstream[k].effects < 2 THEN upstream[k].effects + 1 ELSE upstream[k].effects
    BY <2>1, FiredFields
  <2>. HIDE DEF fired
  <2>3. GoesOn(r)
    BY <1>1, <1>3, GotoGoesOn
  <2>. QED
    BY <1>3, <2>2, <2>3
<1>. QED
  BY <1>2, <1>3 DEF Effect

LEMMA RepointDoes ==
    ASSUME TypeInv, NEW r \in Runs, Repoint(r)
    PROVE  LET k == KeyOf[task[r].step]
           IN  /\ GoesOn(r) /\ At(r, "repoint")
               /\ \/ Stop(r) /\ upstream' = upstream
                  \/ /\ TargetStands(r) /\ Goto(r, "done")
                     /\ Moved(r) \in Resource /\ upstream' = [upstream EXCEPT ![k] = Moved(r)]
<1>1. At(r, "repoint") /\ r \in Procs /\ "repoint" \in EnsureAt /\ "done" \in EnsureAt /\ TypeOK
  BY DEF Repoint, Procs, EnsureAt, TypeInv
<1>2. CASE Stop(r) /\ upstream' = upstream
  BY <1>1, <1>2, StopGoesOn
<1>3. CASE /\ TargetStands(r) /\ Goto(r, "done")
           /\ upstream' = [upstream EXCEPT ![KeyOf[task[r].step]] = Moved(r)]
  BY <1>1, <1>3, GotoGoesOn, MovedFields
<1>. QED
  BY <1>2, <1>3 DEF Repoint

\* An item that is next comes from the list.
LEMMA NextItem ==
    ASSUME TypeInv, NEW p \in Procs, At(p, "next"), NEW i, IsNext(p, i)
    PROVE  /\ i \in task[p].todo /\ i \in Item /\ i.key \in Keys /\ i.entry \in Entry
           /\ ledger[i.key] \in Entry \cup {NoEntry}
<1>1. i \in task[p].todo /\ i \in Item
  BY UndoFacts DEF IsNext
<1>. QED
  BY <1>1 DEF Item, TypeInv, TypeOK

LEMMA SweepNextDoes ==
    ASSUME TypeInv, NEW p \in Procs, NEW i, SweepNext(p, i)
    PROVE  /\ i \in task[p].todo /\ i \in Item
           /\ task[p] \in Undoing /\ task[p] # Idle /\ task[p].sweep /\ task[p].at = "next"
           /\ GoesOn(p) /\ task'[p] \in Undoing /\ task'[p] # Idle /\ task'[p].sweep
           /\ task'[p].at = (IF i.entry.managed THEN "delete" ELSE "finish")
           /\ task'[p].ok = task[p].ok
           /\ task'[p].todo = task[p].todo \ {i}
           /\ task'[p].item \in Item /\ task'[p].item.key = i.key /\ task'[p].item.entry = i.entry
<1> DEFINE at == IF i.entry.managed THEN "delete" ELSE "finish"
<1>1. At(p, "next") /\ IsNext(p, i) /\ TypeOK
  BY DEF SweepNext, TypeInv
<1>2. i \in task[p].todo /\ i \in Item /\ i.entry \in Entry
  BY <1>1, NextItem
<1>3. task[p] \in Undoing /\ task[p] # Idle /\ task[p].at = "next"
  BY <1>1, UndoFacts
<1> DEFINE e == i.entry
<1>4. at \in {"delete", "finish"} /\ e \in Entry /\ Take(p, i, at, e)
  BY <1>2 DEF SweepNext
<1>. HIDE DEF at, e
<1>5. /\ OnlyMoves(p) /\ task'[p] \in Undoing /\ task'[p] # Idle /\ task'[p].at = at
      /\ task'[p].sweep = task[p].sweep /\ task'[p].ok = task[p].ok
      /\ task'[p].todo = task[p].todo \ {i}
      /\ task'[p].item \in Item /\ task'[p].item.key = i.key /\ task'[p].item.entry = e
  BY <1>1, <1>2, <1>3, <1>4, TakeMoves
<1>6. task[p].sweep
  BY DEF SweepNext
<1>. QED
  BY <1>2, <1>3, <1>5, <1>6 DEF GoesOn, at, e

LEMMA SkipReleased ==
    ASSUME TypeInv, NEW p \in Procs, At(p, "next"), NEW i, Skip(p, i)
    PROVE  /\ GoesOn(p) /\ task'[p] \in Undoing /\ task'[p] # Idle /\ task'[p].at = "next"
           /\ task'[p].sweep = task[p].sweep /\ task'[p].ok = task[p].ok
           /\ task'[p].todo = task[p].todo \ {i}
<1>1. task[p] \in Undoing /\ task[p].at = "next"
  BY UndoFacts
<1>. QED
  BY <1>1, SkipMoves DEF TypeInv, GoesOn

LEMMA ReleaseDoes ==
    ASSUME TypeInv, NEW p \in Procs, NEW i, Release(p, i)
    PROVE  /\ GoesOn(p) /\ task'[p] \in Undoing /\ task'[p] # Idle
           /\ task'[p].sweep = task[p].sweep /\ task'[p].ok = task[p].ok
           /\ task'[p].todo = task[p].todo \ {i}
           /\ \/ ledger[i.key] = NoEntry /\ ledger' = ledger /\ task'[p].at = "next"
              \/ Leaves(i.key, i.step) /\ ledger'[i.key].refs # {} /\ task'[p].at = "next"
              \/ /\ Leaves(i.key, i.step) /\ ledger'[i.key].refs = {}
                 /\ task'[p].at = (IF ledger'[i.key].managed THEN "delete" ELSE "finish")
                 /\ task'[p].item \in Item /\ task'[p].item.key = i.key
                 /\ task'[p].item.entry = ledger'[i.key]
<1> DEFINE k == i.key
           e == ledger[k]
           left == Left(e, i.step)
<1>1. At(p, "next") /\ IsNext(p, i) /\ TypeOK
  BY DEF Release, TypeInv
<1>2. i \in task[p].todo /\ i \in Item /\ k \in Keys /\ e \in Entry \cup {NoEntry}
  BY <1>1, NextItem
<1>3. task[p] \in Undoing /\ task[p] # Idle /\ task[p].at = "next"
  BY <1>1, UndoFacts
<1>4. CASE e = NoEntry /\ Skip(p, i) /\ ledger' = ledger
  BY <1>1, <1>4, SkipReleased
<1>5. ASSUME e # NoEntry, ledger' = [ledger EXCEPT ![k] = left]
      PROVE  /\ left \in Entry /\ left.managed = e.managed /\ ledger'[k] = left
             /\ Leaves(k, i.step)
  <2>1. e \in Entry
    BY <1>2, <1>5
  <2>2. /\ left \in Entry /\ left.refs = e.refs \ {i.step} /\ left.managed = e.managed
        /\ left.terminating <=> e.terminating \/ e.refs \subseteq {i.step}
    BY <2>1, LeftFields
  <2>. HIDE DEF left
  <2>3. ledger'[k] = left
    BY <1>1, <1>2, <1>5, <2>2, LedgerChange
  <2>. QED
    BY <1>5, <2>2, <2>3 DEF Leaves
<1>6. CASE e # NoEntry /\ left.refs # {} /\ ledger' = [ledger EXCEPT ![k] = left] /\ Skip(p, i)
  <2>1. Leaves(k, i.step) /\ ledger'[k].refs # {}
    BY <1>5, <1>6
  <2>. QED
    BY <1>1, <1>6, <2>1, SkipReleased
<1>7. CASE /\ e # NoEntry /\ left.refs = {} /\ ledger' = [ledger EXCEPT ![k] = left]
           /\ Take(p, i, IF e.managed THEN "delete" ELSE "finish", left)
  <2> DEFINE at == IF e.managed THEN "delete" ELSE "finish"
  <2>1. left \in Entry /\ ledger'[k] = left /\ Leaves(k, i.step) /\ ledger'[k].refs = {}
    BY <1>5, <1>7
  <2>2. at = IF ledger'[k].managed THEN "delete" ELSE "finish"
    BY <1>5, <1>7
  <2>3. at \in {"delete", "finish"} /\ Take(p, i, at, left)
    BY <1>7
  <2>. HIDE DEF at, left
  <2>4. /\ OnlyMoves(p) /\ task'[p] \in Undoing /\ task'[p] # Idle /\ task'[p].at = at
        /\ task'[p].sweep = task[p].sweep /\ task'[p].ok = task[p].ok
        /\ task'[p].todo = task[p].todo \ {i}
        /\ task'[p].item \in Item /\ task'[p].item.key = k /\ task'[p].item.entry = left
    BY <1>1, <1>2, <1>3, <2>1, <2>3, TakeMoves
  <2>5. GoesOn(p)
    BY <1>3, <2>4 DEF GoesOn
  <2>6. task'[p].at = (IF ledger'[k].managed THEN "delete" ELSE "finish")
    BY <2>2, <2>4
  <2>. QED
    BY <2>1, <2>4, <2>5, <2>6
<1>. QED
  BY <1>4, <1>6, <1>7 DEF Release

LEMMA DeleteUpstreamDoes ==
    ASSUME TypeInv, NEW p \in Procs, DeleteUpstream(p)
    PROVE  /\ At(p, "delete") /\ GoesOn(p) /\ task'[p] \in Undoing /\ task'[p] # Idle
           /\ task'[p].sweep = task[p].sweep
           /\ task'[p].ok => task[p].ok
           /\ task'[p].todo = task[p].todo
           /\ \/ /\ Deletable(task[p].item.key, task[p].item.entry)
                 /\ task'[p].at = "finish" /\ task'[p].item = task[p].item
                 /\ \/ /\ Hits(task[p].item.key, task[p].item.entry)
                       /\ upstream' = Without(task[p].item.key)
                    \/ ~Hits(task[p].item.key, task[p].item.entry) /\ upstream' = upstream
              \/ task'[p].at = "next" /\ upstream' = upstream
<1>1. At(p, "delete") /\ TypeOK
  BY DEF DeleteUpstream, TypeInv
<1>2. task[p] \in Undoing /\ task[p] # Idle
  BY <1>1, UndoFacts
<1>3. CASE Deletable(task[p].item.key, task[p].item.entry)
  <2>1. Goto(p, "finish")
    BY <1>3 DEF DeleteUpstream
  <2>2. /\ OnlyMoves(p) /\ task'[p] \in Undoing /\ task'[p] # Idle /\ task'[p].at = "finish"
        /\ task'[p].sweep = task[p].sweep /\ task'[p].ok = task[p].ok
        /\ task'[p].todo = task[p].todo /\ task'[p].item = task[p].item
    BY <1>1, <1>2, <2>1, GotoUndo
  <2>3. \/ /\ Hits(task[p].item.key, task[p].item.entry)
           /\ upstream' = Without(task[p].item.key)
        \/ ~Hits(task[p].item.key, task[p].item.entry) /\ upstream' = upstream
    BY <1>3 DEF DeleteUpstream
  <2>. QED
    BY <1>1, <1>2, <1>3, <2>2, <2>3 DEF GoesOn
<1>4. CASE ~Deletable(task[p].item.key, task[p].item.entry)
  <2>1. /\ task' = [task EXCEPT ![p].at = "next", ![p].item = NoItem, ![p].ok = FALSE]
        /\ upstream' = upstream
    BY <1>4 DEF DeleteUpstream
  <2>. QED
    BY <1>1, <1>2, <2>1, ItemMoves DEF GoesOn
<1>. QED
  BY <1>3, <1>4

\* An item is given up: its entry removed, or after an error.
LEMMA ItemGivenUp ==
    ASSUME TypeInv, NEW p \in Procs, Finish(p) \/ ItemFails(p)
    PROVE  /\ At(p, "finish") \/ (ItemFails(p) /\ At(p, "delete"))
           /\ GoesOn(p) /\ task'[p] \in Undoing /\ task'[p] # Idle /\ task'[p].at = "next"
           /\ task'[p].sweep = task[p].sweep
           /\ task'[p].ok => task[p].ok
           /\ task'[p].todo = task[p].todo
<1>1. At(p, "finish") \/ (ItemFails(p) /\ At(p, "delete"))
  <2>1. CASE Finish(p)
    BY <2>1 DEF Finish
  <2>2. CASE ItemFails(p)
    <3>1. At(p, "delete") \/ At(p, "finish")
      BY <2>2 DEF ItemFails
    <3>. QED
      BY <2>2, <3>1
  <2>. QED
    BY <2>1, <2>2
<1>2. task[p] \in Undoing /\ TypeOK
  BY <1>1, UndoFacts DEF TypeInv
<1>3. \/ task' = [task EXCEPT ![p].at = "next", ![p].item = NoItem]
      \/ task' = [task EXCEPT ![p].at = "next", ![p].item = NoItem, ![p].ok = FALSE]
  BY DEF Finish, ItemFails
<1>. QED
  BY <1>1, <1>2, <1>3, ItemMoves DEF GoesOn

LEMMA ReleaseFailsDoes ==
    ASSUME TypeInv, NEW p \in Procs, NEW i, ReleaseFails(p, i)
    PROVE  /\ GoesOn(p) /\ task'[p] \in Undoing /\ task'[p] # Idle /\ task'[p].at = "next"
           /\ task'[p].sweep = task[p].sweep /\ ~task'[p].ok
           /\ task'[p].todo = task[p].todo \ {i}
           /\ ledger' = ledger \/ Leaves(i.key, i.step)
<1>1. At(p, "next") /\ IsNext(p, i) /\ TypeOK
  BY DEF ReleaseFails, TypeInv
<1>2. i.key \in Keys /\ ledger[i.key] \in Entry \cup {NoEntry}
  BY <1>1, NextItem
<1>3. task[p] \in Undoing /\ task[p].at = "next"
  BY <1>1, UndoFacts
<1>4. task' = [task EXCEPT ![p].todo = @ \ {i}, ![p].ok = FALSE]
  BY DEF ReleaseFails
<1>5. ledger' = ledger \/ Leaves(i.key, i.step)
  <2> DEFINE left == Left(ledger[i.key], i.step)
  <2>1. SUFFICES ASSUME ledger[i.key] # NoEntry, ledger' = [ledger EXCEPT ![i.key] = left]
                 PROVE  Leaves(i.key, i.step)
    BY DEF ReleaseFails
  <2>2. /\ left \in Entry /\ left.refs = ledger[i.key].refs \ {i.step}
        /\ left.managed = ledger[i.key].managed
        /\ left.terminating <=> ledger[i.key].terminating \/ ledger[i.key].refs \subseteq {i.step}
    BY <1>2, <2>1, LeftFields
  <2>. HIDE DEF left
  <2>. QED
    BY <2>1, <2>2 DEF Leaves
<1>6. /\ OnlyMoves(p) /\ task'[p] \in Undoing /\ task'[p] # Idle /\ task'[p].at = "next"
      /\ task'[p].sweep = task[p].sweep
      /\ task'[p].todo = task[p].todo \ {i}
  BY <1>1, <1>3, <1>4, SkipFailedMoves
<1>7. ~task'[p].ok
  BY <1>1, <1>3, <1>4, SkipFailedMoves
<1>. QED
  BY <1>3, <1>5, <1>6, <1>7 DEF GoesOn

\* A change of one entry keeps the ledger's type.
LEMMA EntryTyped ==
    ASSUME TypeOK,
           \/ ledger' = ledger
           \/ \E t \in Steps : \E m : Opens(t, m) \/ Joins(t, m)
           \/ \E k \in Keys : \E t : Leaves(k, t)
           \/ \E k \in Keys : Closes(k)
    PROVE  ledger' \in [Keys -> Entry \cup {NoEntry}]
BY ProvisionAssumption DEF Opens, Joins, Leaves, Closes, TypeOK

\* The step a run starts on is one of its own, which comes next.
LEMMA StartEnsureDoes ==
    ASSUME TypeInv, NEW r \in Runs, NEW t \in Steps, StartEnsure(r, t)
    PROVE  /\ OnlyMoves(r) /\ task'[r] \in Applying /\ task'[r] # Idle
           /\ task'[r].at = "entry" /\ task'[r].step = t /\ task'[r].config = config
           /\ task'[r].target \in Targets(t) /\ task'[r].seen = NoEntry
           /\ task'[r].found = IF KindOf[KeyOf[t]] = "artifact" THEN upstream[KeyOf[t]] ELSE Absent
           /\ KindOf[KeyOf[t]] = "artifact" => task'[r].found # Absent
           /\ t \in DOMAIN asks /\ RunOf[t] = r /\ mode[r] = "apply"
<1>1. PICK id \in Targets(t) : task' = [task EXCEPT ![r] =
         [at |-> "entry", step |-> t, config |-> config, target |-> id, tries |-> 0, seen |-> NoEntry,
          found |-> IF KindOf[KeyOf[t]] = "artifact" THEN upstream[KeyOf[t]] ELSE Absent]]
  BY DEF StartEnsure
<1> DEFINE f == IF KindOf[KeyOf[t]] = "artifact" THEN upstream[KeyOf[t]] ELSE Absent
           w == [at |-> "entry", step |-> t, config |-> config, target |-> id, tries |-> 0, seen |-> NoEntry,
                 found |-> f]
<1>2. /\ task' = [task EXCEPT ![r] = w] /\ t \in DOMAIN asks /\ RunOf[t] = r /\ mode[r] = "apply"
      /\ KindOf[KeyOf[t]] = "artifact" => f # Absent
  BY <1>1 DEF StartEnsure
<1>3. 0 \in 0..(MaxAttempts - 1) /\ f \in Resource \cup {Absent} /\ config \in Configs
  BY ProvisionAssumption DEF TypeInv, TypeOK
<1>4. id \in Ids
  BY <1>1, ProvisionAssumption DEF Targets, Ids, TypeInv, TypeOK
<1>. HIDE DEF f
<1>5. /\ w \in Applying /\ w.at = "entry" /\ w.step = t /\ w.config = config
      /\ w.target = id /\ w.seen = NoEntry /\ w.found = f
  BY <1>3, <1>4 DEF Applying, EnsureAt
<1>. HIDE DEF w
<1>6. task'[r] = w /\ OnlyMoves(r)
  BY <1>2 DEF OnlyMoves, TypeInv, TypeOK, Procs
<1>. QED
  BY <1>1, <1>2, <1>5, <1>6, MarkersAreDistinct DEF f

LEMMA ReadEntryDoes ==
    ASSUME TypeInv, NEW r \in Runs, ReadEntry(r)
    PROVE  /\ At(r, "entry") /\ GoesOn(r)
           /\ \/ task'[r] = Idle
              \/ /\ task'[r] \in Applying /\ task'[r] # Idle /\ task'[r].at = "upstream"
                 /\ task'[r].step = task[r].step /\ task'[r].config = task[r].config
                 /\ task'[r].target = task[r].target
                 /\ task'[r].seen = ledger[KeyOf[task[r].step]] /\ task'[r].found = task[r].found
                 /\ ledger[KeyOf[task[r].step]] # NoEntry => ~ledger[KeyOf[task[r].step]].terminating
<1> DEFINE e == ledger[KeyOf[task[r].step]]
           w == [task[r] EXCEPT !.at = "upstream", !.seen = e]
<1>1. At(r, "entry") /\ r \in Procs /\ "entry" \in EnsureAt /\ TypeOK
  BY DEF ReadEntry, Procs, EnsureAt, TypeInv
<1>2. task[r] \in Applying /\ e \in Entry \cup {NoEntry}
  BY <1>1, EnsureFacts
<1>3. CASE Stop(r)
  BY <1>1, <1>3, StopMoves, StopGoesOn
<1>4. CASE task' = [task EXCEPT ![r] = w] /\ (e # NoEntry => ~e.terminating)
  <2>. HIDE DEF e
  <2>1. /\ w \in Applying /\ w.at = "upstream" /\ w.step = task[r].step /\ w.config = task[r].config
        /\ w.target = task[r].target /\ w.seen = e /\ w.found = task[r].found
    BY <1>2 DEF Applying, EnsureAt
  <2>. HIDE DEF w
  <2>2. task'[r] = w /\ OnlyMoves(r)
    BY <1>4 DEF OnlyMoves, TypeInv, TypeOK, Procs
  <2>. QED
    BY <1>1, <1>2, <1>4, <2>1, <2>2, MarkersAreDistinct DEF e, GoesOn, KeepsStep
<1>. QED
  BY <1>3, <1>4 DEF ReadEntry

LEMMA ReadUpstreamDoes ==
    ASSUME TypeInv, NEW r \in Runs, ReadUpstream(r)
    PROVE  LET t == task[r].step
               res == IF KindOf[KeyOf[t]] = "artifact" THEN task[r].found ELSE upstream[KeyOf[t]]
           IN  /\ At(r, "upstream") /\ GoesOn(r)
               /\ \/ task'[r] = Idle
                  \/ /\ task'[r] \in Applying /\ task'[r] # Idle /\ task'[r].at = "record"
                     /\ task'[r].step = t /\ task'[r].config = task[r].config
                     /\ task'[r].target = task[r].target
                     /\ task'[r].seen = task[r].seen /\ task'[r].found = res
                     /\ TargetStands(r)
                     /\ res = Absent \/ Accepts(t, task[r].config, task[r].seen, res)
<1> DEFINE t == task[r].step
           res == IF KindOf[KeyOf[t]] = "artifact" THEN task[r].found ELSE upstream[KeyOf[t]]
           w == [task[r] EXCEPT !.at = "record", !.found = res]
<1>1. At(r, "upstream") /\ r \in Procs /\ "upstream" \in EnsureAt /\ TypeOK
  BY DEF ReadUpstream, Procs, EnsureAt, TypeInv
<1>2. task[r] \in Applying /\ res \in Resource \cup {Absent}
  BY <1>1, EnsureFacts
<1>3. CASE Stop(r)
  BY <1>1, <1>3, StopMoves, StopGoesOn
<1>4. CASE /\ task' = [task EXCEPT ![r] = w] /\ TargetStands(r)
           /\ res = Absent \/ Accepts(t, task[r].config, task[r].seen, res)
  <2>3. KindOf[KeyOf[t]] = "artifact" => res = task[r].found
    OBVIOUS
  <2>. HIDE DEF res
  <2>1. /\ w \in Applying /\ w.at = "record" /\ w.step = t /\ w.config = task[r].config
        /\ w.target = task[r].target /\ w.seen = task[r].seen /\ w.found = res
    BY <1>2 DEF Applying, EnsureAt
  <2>. HIDE DEF w
  <2>2. task'[r] = w /\ OnlyMoves(r)
    BY <1>4 DEF OnlyMoves, TypeInv, TypeOK, Procs
  <2>. QED
    BY <1>1, <1>2, <1>4, <2>1, <2>2, <2>3, MarkersAreDistinct DEF res, GoesOn, KeepsStep
<1>. QED
  BY <1>3, <1>4 DEF ReadUpstream

LEMMA EnsureTyped ==
    ASSUME TypeInv, NEW r \in Runs, Ensure(r)
    PROVE  TypeInv'
<1>1. r \in Procs /\ TypeOK
  BY DEF Procs, TypeInv
<1>2. ASSUME NEW t \in Steps, StartEnsure(r, t) PROVE TypeInv'
  <2>1. KnowsPlace(r)'
    BY <1>2, StartEnsureDoes DEF StartEnsure, KnowsPlace, EnsureAt, outside, given
  <2>2. UNCHANGED <<ledger, upstream, ready, mode, given, faults>>
    BY <1>2 DEF StartEnsure, outside
  <2>3. OnlyMoves(r) /\ task'[r] \in Applying
    BY <1>2, StartEnsureDoes
  <2>. QED
    BY <1>1, <2>1, <2>2, <2>3, MovesTyped DEF TypeOK, given
<1>3. \A at \in EnsureAt : At(r, at) => task[r] # Idle /\ task[r].step \in Steps /\ KeyOf[task[r].step] \in Keys
  BY <1>1, EnsureFacts
<1>. USE DEF EnsureAt
<1>4. CASE ReadEntry(r)
  BY <1>1, <1>3, <1>4, ReadEntryDoes, GoesOnTyped DEF ReadEntry, TypeOK, outside
<1>5. CASE ReadUpstream(r)
  BY <1>1, <1>3, <1>5, ReadUpstreamDoes, GoesOnTyped DEF ReadUpstream, TypeOK, outside
<1>6. CASE RecordNew(r)
  <2>1. At(r, "record") /\ GoesOn(r) /\ UNCHANGED <<upstream, ready, mode, given, faults>>
    BY <1>6, RecordNewDoes DEF RecordNew, outside
  <2>2. ledger' \in [Keys -> Entry \cup {NoEntry}]
    BY <1>1, <1>3, <1>6, <2>1, RecordNewDoes, EntryTyped
  <2>. QED
    BY <1>1, <1>3, <2>1, <2>2, GoesOnTyped DEF TypeOK
<1>7. CASE RecordJoin(r)
  <2>1. At(r, "record") /\ GoesOn(r) /\ UNCHANGED <<upstream, ready, mode, given, faults>>
    BY <1>7, RecordJoinDoes DEF RecordJoin, outside
  <2>2. ledger' \in [Keys -> Entry \cup {NoEntry}]
    BY <1>1, <1>3, <1>7, <2>1, RecordJoinDoes, EntryTyped
  <2>. QED
    BY <1>1, <1>3, <2>1, <2>2, GoesOnTyped DEF TypeOK
<1>8. CASE Create(r)
  <2>1. At(r, "create") /\ GoesOn(r) /\ UNCHANGED <<ledger, ready, mode, given, faults>>
    BY <1>8, CreateDoes DEF Create, outside
  <2>2. upstream' \in [Keys -> Resource \cup {Absent}]
    BY <1>1, <1>3, <1>8, <2>1, CreateDoes DEF TypeOK
  <2>. QED
    BY <1>1, <1>3, <2>1, <2>2, GoesOnTyped DEF TypeOK
<1>9. CASE Effect(r)
  <2>1. At(r, "effect") /\ GoesOn(r) /\ UNCHANGED <<ledger, ready, mode, given, faults>>
    BY <1>9, EffectDoes DEF Effect, outside
  <2>2. upstream' \in [Keys -> Resource \cup {Absent}]
    BY <1>1, <1>3, <1>9, <2>1, EffectDoes DEF TypeOK
  <2>. QED
    BY <1>1, <1>3, <2>1, <2>2, GoesOnTyped DEF TypeOK
<1>10. CASE RecordId(r)
  <2>1. At(r, "id") /\ GoesOn(r) /\ UNCHANGED <<upstream, ready, mode, given, faults>>
    BY <1>10, RecordIdDoes DEF RecordId, outside
  <2>2. ledger' \in [Keys -> Entry \cup {NoEntry}]
    BY <1>1, <1>3, <1>10, <2>1, RecordIdDoes, EntryTyped
  <2>. QED
    BY <1>1, <1>3, <2>1, <2>2, GoesOnTyped DEF TypeOK
<1>11. CASE Repoint(r)
  <2>1. At(r, "repoint") /\ GoesOn(r) /\ UNCHANGED <<ledger, ready, mode, given, faults>>
    BY <1>11, RepointDoes DEF Repoint, outside
  <2>2. upstream' \in [Keys -> Resource \cup {Absent}]
    BY <1>1, <1>3, <1>11, <2>1, RepointDoes DEF TypeOK
  <2>. QED
    BY <1>1, <1>3, <2>1, <2>2, GoesOnTyped DEF TypeOK
<1>12. CASE Succeed(r)
  <2>1. /\ At(r, "done") /\ Stop(r)
        /\ UNCHANGED <<ledger, upstream, mode, asks, config, nextId, people, edits, faults>>
    BY <1>12 DEF Succeed
  <2>2. ready' \subseteq Steps
    BY <1>1, <1>3, <1>12, <2>1 DEF Succeed, TypeOK
  <2>3. outputs' \in [Steps -> Ids]
    <3>1. KindOf[KeyOf[task[r].step]] = "artifact" => task[r].found.id \in Ids
      BY <1>1, <2>1, EnsureFacts DEF Resource
    <3>. QED
      BY <1>1, <1>12, <3>1 DEF Succeed, TypeOK
  <2>4. OnlyMoves(r) /\ task'[r] = Idle
    BY <1>1, <2>1, StopMoves
  <2>5. KnowsPlace(r)'
    BY <2>4 DEF KnowsPlace
  <2>. QED
    BY <1>1, <2>1, <2>2, <2>3, <2>4, <2>5, MovesTyped DEF TypeOK
<1>. QED
  BY <1>2, <1>4, <1>5, <1>6, <1>7, <1>8, <1>9, <1>10, <1>11, <1>12 DEF Ensure

LEMMA BeginUndoTyped ==
    ASSUME TypeInv, NEW p \in Procs, NEW sweep \in BOOLEAN, NEW ok \in BOOLEAN, BeginUndo(p, sweep, ok),
           IF p = Sweeper THEN sweep ELSE mode'[p] = "undoing",
           UNCHANGED <<ledger, upstream, ready, given>>, faults' = faults \/ Fault,
           mode' \in [Runs -> {"apply", "undo", "undoing", "gone"}],
           \A q \in Runs \ {p} : mode'[q] = mode[q]
    PROVE  TypeInv'
<1>1. /\ OnlyMoves(p) /\ task'[p] \in Undoing /\ task'[p] # Idle /\ task'[p].at = "list"
      /\ task'[p].sweep = sweep
  BY BeginUndoMoves DEF TypeInv
<1>2. KnowsPlace(p)'
  BY <1>1 DEF KnowsPlace, EnsureAt
<1>. QED
  BY <1>1, <1>2, MovesTyped DEF TypeInv, TypeOK, given

LEMMA UndoTyped ==
    ASSUME TypeInv, NEW p \in Procs, Undo(p)
    PROVE  TypeInv'
<1>1. TypeOK
  BY DEF TypeInv
<1>2. \A at \in {"list", "next", "delete", "finish"} : At(p, at) => task[p] # Idle /\ task[p] \in Undoing
  BY UndoFacts
<1>3. CASE List(p)
  <2>1. At(p, "list") /\ UNCHANGED <<ledger, upstream, ready, mode, given, faults>>
    BY <1>3 DEF List, outside
  <2>2. GoesOn(p)
    BY <1>2, <1>3, <2>1, ListMoves DEF GoesOn
  <2>. QED
    BY <1>1, <1>2, <2>1, <2>2, GoesOnTyped DEF TypeOK
<1>4. CASE DeleteUpstream(p)
  <2>1. At(p, "delete") /\ GoesOn(p) /\ UNCHANGED <<ledger, ready, mode, given, faults>>
    <3>1. UNCHANGED <<ledger, ready, mode, given, faults>>
      BY <1>4 DEF DeleteUpstream, outside
    <3>. QED
      BY <1>4, <3>1, DeleteUpstreamDoes
  <2>2. upstream' \in [Keys -> Resource \cup {Absent}]
    BY <1>1, <1>4, DeleteUpstreamDoes, WithoutFields DEF TypeOK
  <2>. QED
    BY <1>1, <1>2, <2>1, <2>2, GoesOnTyped DEF TypeOK
<1>5. CASE Finish(p)
  <2>1. At(p, "finish") /\ GoesOn(p) /\ UNCHANGED <<upstream, ready, mode, given, faults>>
    BY <1>5, ItemGivenUp DEF Finish, outside
  <2>2. ledger' \in [Keys -> Entry \cup {NoEntry}]
    BY <1>1, <1>5 DEF Finish, TypeOK
  <2>. QED
    BY <1>1, <1>2, <2>1, <2>2, GoesOnTyped DEF TypeOK
<1>6. CASE EndSweep(p)
  <2>1. At(p, "next") /\ UNCHANGED <<ledger, upstream, ready, mode, given, faults>>
    BY <1>6 DEF EndSweep, outside
  <2>2. CASE Stop(p)
    BY <1>1, <1>2, <2>1, <2>2, StopGoesOn, GoesOnTyped DEF TypeOK
  <2>3. CASE p # Sweeper /\ BeginUndo(p, FALSE, task[p].ok)
    <3>1. task[p].ok \in BOOLEAN /\ mode[p] = "undoing"
      BY <2>1, <2>3, UndoFacts
    <3>. QED
      BY <1>1, <2>1, <2>3, <3>1, BeginUndoTyped DEF TypeOK
  <2>. QED
    BY <1>6, <2>2, <2>3 DEF EndSweep
<1>7. ASSUME NEW i, SweepNext(p, i) PROVE TypeInv'
  <2>1. At(p, "next") /\ GoesOn(p) /\ UNCHANGED <<ledger, upstream, ready, mode, given, faults>>
    BY <1>7, SweepNextDoes DEF SweepNext, outside
  <2>. QED
    BY <1>1, <1>2, <2>1, GoesOnTyped DEF TypeOK
<1>8. ASSUME NEW i, Release(p, i) PROVE TypeInv'
  <2>1. /\ At(p, "next") /\ IsNext(p, i) /\ GoesOn(p)
        /\ UNCHANGED <<upstream, ready, mode, given, faults>>
    BY <1>8, ReleaseDoes DEF Release, outside
  <2>2. i.key \in Keys
    BY <2>1, NextItem
  <2>3. ledger' \in [Keys -> Entry \cup {NoEntry}]
    BY <1>1, <1>8, <2>2, ReleaseDoes, EntryTyped
  <2>. QED
    BY <1>1, <1>2, <2>1, <2>3, GoesOnTyped DEF TypeOK
<1>. QED
  BY <1>3, <1>4, <1>5, <1>6, <1>7, <1>8 DEF Undo

LEMMA RollbackTyped ==
    ASSUME TypeInv, NEW r \in Runs, Rollback(r)
    PROVE  TypeInv'
<1>1. TypeOK /\ r \in Procs /\ r # Sweeper
  BY ProvisionAssumption DEF TypeInv, Procs
<1>2. CASE StartRollback(r)
  BY <1>1, <1>2, BeginUndoTyped DEF StartRollback, TypeOK, outside
<1>3. CASE EndRollback(r)
  <2>1. At(r, "next") /\ Stop(r) /\ UNCHANGED <<ledger, upstream, given, faults>>
    BY <1>3 DEF EndRollback, outside
  <2>2. ready' \subseteq Steps /\ mode' \in [Runs -> {"apply", "undo", "undoing", "gone"}]
    BY <1>1, <1>3 DEF EndRollback, TypeOK
  <2>3. \A q \in Runs \ {r} : mode'[q] = mode[q]
    BY <1>1, <1>3 DEF EndRollback, TypeOK
  <2>4. OnlyMoves(r) /\ task'[r] = Idle
    BY <1>1, <2>1, StopMoves
  <2>5. KnowsPlace(r)'
    BY <2>4 DEF KnowsPlace
  <2>. QED
    BY <1>1, <2>1, <2>2, <2>3, <2>4, <2>5, MovesTyped DEF TypeOK, given
<1>. QED
  BY <1>1, <1>2, <1>3, UndoTyped DEF Rollback

LEMMA FaultsTyped ==
    ASSUME TypeInv, Faults
    PROVE  TypeInv'
<1>1. TypeOK
  BY DEF TypeInv
<1>2. ASSUME NEW r \in Runs, EnsureFails(r) PROVE TypeInv'
  <2>1. task[r] # Idle /\ r \in Procs
    BY <1>2 DEF EnsureFails, At, Procs
  <2>. QED
    BY <1>1, <1>2, <2>1, StopGoesOn, GoesOnTyped DEF EnsureFails, TypeOK
<1>3. ASSUME NEW p \in Procs, ItemFails(p) PROVE TypeInv'
  BY <1>1, <1>3, ItemGivenUp, GoesOnTyped DEF ItemFails, At, TypeOK
<1>4. ASSUME NEW p \in Procs, ListFails(p) PROVE TypeInv'
  <2>1. Fault /\ At(p, "list") /\ UNCHANGED <<ledger, upstream, ready, mode, given>>
    BY <1>4 DEF ListFails
  <2>2. CASE Stop(p)
    BY <1>1, <2>1, <2>2, StopGoesOn, GoesOnTyped DEF At, TypeOK
  <2>3. CASE p # Sweeper /\ BeginUndo(p, FALSE, FALSE)
    <3>1. mode[p] = "undoing"
      BY <2>1, <2>3, UndoFacts
    <3>. QED
      BY <1>1, <2>1, <2>3, <3>1, BeginUndoTyped DEF TypeOK
  <2>. QED
    BY <1>4, <2>2, <2>3 DEF ListFails
<1>5. ASSUME NEW p \in Procs, NEW i, ReleaseFails(p, i) PROVE TypeInv'
  <2>1. Fault /\ At(p, "next") /\ IsNext(p, i) /\ UNCHANGED <<upstream, ready, mode, given>>
    BY <1>5 DEF ReleaseFails
  <2>2. i.key \in Keys /\ GoesOn(p)
    BY <1>5, <2>1, NextItem, ReleaseFailsDoes
  <2>3. ledger' \in [Keys -> Entry \cup {NoEntry}]
    BY <1>1, <1>5, <2>2, ReleaseFailsDoes, EntryTyped
  <2>. QED
    BY <1>1, <2>1, <2>2, <2>3, GoesOnTyped DEF At, TypeOK
<1>6. CASE Crash
  <2>1. faults' \in 0..MaxFaults(asks)
    BY <1>1, <1>6, ProvisionAssumption DEF Crash, Fault, TypeOK
  <2>2. TypeOK'
    BY <1>1, <1>6, <2>1 DEF Crash, TypeOK, given
  <2>. QED
    BY <1>6, <2>2 DEF Crash, TypeInv, KnowsItsPlace, KnowsPlace, Procs
<1>. QED
  BY <1>2, <1>3, <1>4, <1>5, <1>6 DEF Faults, Procs

LEMMA SurroundingsTyped ==
    ASSUME TypeInv,
           \/ \E r \in Runs : RequestRollback(r)
           \/ EditConfig
           \/ \E k \in Keys : PersonCreates(k) \/ PersonDeletes(k) \/ ForgeBuilds(k)
    PROVE  TypeInv'
<1>1. TypeOK
  BY DEF TypeInv
<1>2. CASE \E r \in Runs : RequestRollback(r)
  <2>1. TypeOK'
    BY <1>1, <1>2 DEF RequestRollback, TypeOK, outside, given
  <2>2. \A p \in Procs : p \in Runs => (mode'[p] = mode[p] \/ (mode[p] = "apply" /\ mode'[p] = "undo"))
    BY <1>1, <1>2 DEF RequestRollback, TypeOK
  <2>3. task' = task /\ asks' = asks
    BY <1>2 DEF RequestRollback, outside, given
  <2>. QED
    BY <2>1, <2>2, <2>3 DEF TypeInv, KnowsItsPlace, KnowsPlace, Procs
<1>3. CASE EditConfig
  <2>1. edits' \in 0..MaxEdits
    BY <1>1, <1>3, ProvisionAssumption DEF EditConfig, TypeOK
  <2>2. TypeOK'
    BY <1>1, <1>3, <2>1 DEF EditConfig, TypeOK
  <2>. QED
    BY <1>3, <2>2 DEF EditConfig, TypeInv, KnowsItsPlace, KnowsPlace
<1>4. ASSUME NEW k \in Keys, PersonCreates(k) \/ PersonDeletes(k) PROVE TypeInv'
  <2>1. people' \in 0..MaxPeople
    BY <1>1, <1>4, ProvisionAssumption DEF PersonCreates, PersonDeletes, TypeOK
  <2>2. Premade \subseteq Resource
    BY ProvisionAssumption DEF Resource, Objects, Ids
  <2>3. upstream' \in [Keys -> Resource \cup {Absent}]
    BY <1>1, <1>4, <2>2, WithoutFields DEF PersonCreates, PersonDeletes, TypeOK
  <2>4. TypeOK'
    BY <1>1, <1>4, <2>1, <2>3 DEF PersonCreates, PersonDeletes, TypeOK
  <2>. QED
    BY <1>4, <2>4 DEF PersonCreates, PersonDeletes, TypeInv, KnowsItsPlace, KnowsPlace
<1>5. ASSUME NEW k \in Keys, ForgeBuilds(k) PROVE TypeInv'
  <2>1. nextId \in 1..MaxId /\ nextId' \in 1..(MaxId + 1)
    BY <1>1, <1>5, ProvisionAssumption DEF ForgeBuilds, TypeOK
  <2>2. [maker |-> "forge", object |-> NoHash, id |-> nextId, effects |-> 0] \in Resource
    BY <2>1 DEF Resource, Objects, Ids
  <2>3. upstream' \in [Keys -> Resource \cup {Absent}]
    BY <1>1, <1>5, <2>2 DEF ForgeBuilds, TypeOK
  <2>4. TypeOK'
    BY <1>1, <1>5, <2>1, <2>3 DEF ForgeBuilds, TypeOK
  <2>. QED
    BY <1>5, <2>4 DEF ForgeBuilds, TypeInv, KnowsItsPlace, KnowsPlace
<1>. QED
  BY <1>2, <1>3, <1>4, <1>5

LEMMA TypeStep == TypeInv /\ [Next]_vars => TypeInv'
<1>. SUFFICES ASSUME TypeInv, [Next]_vars PROVE TypeInv'
  OBVIOUS
<1>1. CASE UNCHANGED vars
  BY <1>1 DEF vars, TypeInv, TypeOK, KnowsItsPlace, KnowsPlace
<1>2. CASE Sweep
  <2>1. Sweeper \in Procs /\ TypeOK
    BY DEF Procs, TypeInv
  <2>2. CASE StartSweep
    BY <2>1, <2>2, BeginUndoTyped DEF StartSweep, outside, TypeOK
  <2>. QED
    BY <1>2, <2>1, <2>2, UndoTyped DEF Sweep
<1>. QED
  BY <1>1, <1>2, EnsureTyped, RollbackTyped, FaultsTyped, SurroundingsTyped DEF Next

LEMMA TypeInit == Init => TypeInv
<1>. SUFFICES ASSUME Init PROVE TypeInv
  OBVIOUS
<1>1. Premade \subseteq Resource /\ NoId \in Ids
  BY ProvisionAssumption DEF Resource, Objects, Ids
<1>2. 0 \in 0..MaxPeople /\ 0 \in 0..MaxEdits /\ 0 \in 0..MaxFaults(asks) /\ 1 \in 1..(MaxId + 1)
  BY ProvisionAssumption DEF Init
<1>3. TypeOK
  BY <1>1, <1>2 DEF Init, TypeOK
<1>. QED
  BY <1>3 DEF Init, TypeInv, KnowsItsPlace, KnowsPlace, Procs

\* Every variable has its type; among other things ensure makes maxEnsureAttempts
\* passes at most (ensure.go:61), and a reconcile works on a step of its own run.
THEOREM ProvisionTyping == Spec => []TypeOK
<1>1. TypeInv => TypeOK
  BY DEF TypeInv
<1>. QED
  BY <1>1, TypeInit, TypeStep, PTL DEF Spec

-----------------------------------------------------------------------------
(* Which action did it. *)

LEMMA EnsureMoves ==
    ASSUME TypeInv, NEW r \in Runs, Ensure(r)
    PROVE  OnlyMoves(r) /\ task'[r] \in Applying \cup {Idle}
<1>1. r \in Procs /\ TypeOK
  BY DEF Procs, TypeInv
<1>2. \A at \in EnsureAt : At(r, at) => task[r] \in Applying
  BY <1>1, EnsureFacts
<1>3. task[r] \in Applying /\ GoesOn(r) => OnlyMoves(r) /\ task'[r] \in Applying \cup {Idle}
  BY DEF GoesOn, Applying, Undoing, EnsureAt
<1>4. CASE \E t \in Steps : StartEnsure(r, t)
  BY <1>4, StartEnsureDoes
<1>5. CASE ReadEntry(r) \/ ReadUpstream(r)
  BY <1>2, <1>3, <1>5, ReadEntryDoes, ReadUpstreamDoes DEF EnsureAt
<1>6. CASE RecordNew(r) \/ RecordJoin(r) \/ RecordId(r)
  <2>1. At(r, "record") \/ At(r, "id")
    BY <1>6 DEF RecordNew, RecordJoin, RecordId
  <2>. QED
    BY <1>2, <1>3, <1>6, <2>1, RecordNewDoes, RecordJoinDoes, RecordIdDoes DEF EnsureAt
<1>7. CASE Create(r) \/ Effect(r) \/ Repoint(r)
  <2>1. At(r, "create") \/ At(r, "effect") \/ At(r, "repoint")
    BY <1>7 DEF Create, Effect, Repoint
  <2>2. GoesOn(r)
    BY <1>7, CreateDoes, EffectDoes, RepointDoes
  <2>. QED
    BY <1>2, <1>3, <2>1, <2>2 DEF EnsureAt
<1>8. CASE Succeed(r)
  BY <1>1, <1>8, StopMoves DEF Succeed
<1>. QED
  BY <1>4, <1>5, <1>6, <1>7, <1>8 DEF Ensure

LEMMA UndoMoves ==
    ASSUME TypeInv, NEW p \in Procs,
           \/ Undo(p) \/ ItemFails(p) \/ ListFails(p)
           \/ \E i : ReleaseFails(p, i)
    PROVE  OnlyMoves(p) /\ task'[p] \in Undoing \cup {Idle}
<1>1. TypeOK
  BY DEF TypeInv
<1>2. CASE List(p)
  BY <1>2, ListMoves
<1>3. CASE DeleteUpstream(p)
  BY <1>3, DeleteUpstreamDoes DEF GoesOn
<1>4. CASE Finish(p) \/ ItemFails(p)
  BY <1>4, ItemGivenUp DEF GoesOn
<1>5. CASE \E i : SweepNext(p, i) \/ Release(p, i) \/ ReleaseFails(p, i)
  BY <1>5, SweepNextDoes, ReleaseDoes, ReleaseFailsDoes DEF GoesOn
<1>6. ASSUME NEW ok \in BOOLEAN, Stop(p) \/ BeginUndo(p, FALSE, ok)
      PROVE  OnlyMoves(p) /\ task'[p] \in Undoing \cup {Idle}
  BY <1>1, <1>6, StopMoves, BeginUndoMoves
<1>7. CASE EndSweep(p) \/ ListFails(p)
  <2>1. At(p, "list") \/ At(p, "next")
    BY <1>7 DEF EndSweep, ListFails
  <2>2. task[p].ok \in BOOLEAN
    BY <2>1, UndoFacts
  <2>. QED
    BY <1>6, <1>7, <2>2 DEF EndSweep, ListFails
<1>. QED
  BY <1>2, <1>3, <1>4, <1>5, <1>7 DEF Undo

\* A goroutine that moves did it itself, unless it stopped.
LEMMA WhoMoves ==
    ASSUME TypeInv, [Next]_vars, NEW p \in Procs, task'[p] # task[p], task'[p] # Idle
    PROVE  \/ p \in Runs /\ Ensure(p) /\ task'[p] \in Applying
           \/ /\ task'[p] \in Undoing
              /\ \/ Undo(p) \/ ItemFails(p) \/ ListFails(p)
                 \/ \E i : ReleaseFails(p, i)
                 \/ task'[p].at = "list" /\ (StartRollback(p) \/ (p = Sweeper /\ StartSweep))
<1>1. TypeOK /\ Sweeper \in Procs /\ Runs \subseteq Procs
  BY DEF Procs, TypeInv
<1>2. \A q \in Procs : OnlyMoves(q) => q = p
  BY <1>1 DEF OnlyMoves, TypeOK, Procs
<1>3. ASSUME NEW r \in Runs, Ensure(r) PROVE p = r /\ task'[p] \in Applying
  BY <1>1, <1>2, <1>3, EnsureMoves
<1>4. ASSUME NEW q \in Procs, \/ Undo(q) \/ ItemFails(q) \/ ListFails(q)
                              \/ \E i : ReleaseFails(q, i)
      PROVE  p = q /\ task'[p] \in Undoing
  BY <1>2, <1>4, UndoMoves
<1>5. ASSUME NEW q \in Procs, BeginUndo(q, TRUE, TRUE)
      PROVE  p = q /\ task'[p] \in Undoing /\ task'[p].at = "list"
  BY <1>1, <1>2, <1>5, BeginUndoMoves
<1>6. ASSUME NEW r \in Runs, StartRollback(r)
      PROVE  p = r /\ task'[p] \in Undoing /\ task'[p].at = "list"
  BY <1>1, <1>5, <1>6 DEF StartRollback
<1>7. StartSweep => p = Sweeper /\ task'[p] \in Undoing /\ task'[p].at = "list"
  BY <1>1, <1>5 DEF StartSweep
<1>8. ASSUME NEW r \in Runs, EndRollback(r) \/ EnsureFails(r) PROVE FALSE
  <2>1. Stop(r)
    BY <1>8 DEF EndRollback, EnsureFails
  <2>. QED
    BY <1>1, <1>2, <2>1, StopMoves
<1>9. ~Crash
  BY <1>1 DEF Crash, Procs
<1>10. ~UNCHANGED vars /\ ~EditConfig
  BY DEF vars, EditConfig
<1>11. \A k \in Keys : ~PersonCreates(k) /\ ~PersonDeletes(k) /\ ~ForgeBuilds(k)
  BY DEF PersonCreates, PersonDeletes, ForgeBuilds
<1>12. \A r \in Runs : ~RequestRollback(r)
  BY DEF RequestRollback
<1>13. CASE \E r \in Runs : Ensure(r)
  BY <1>3, <1>13
<1>14. CASE \E r \in Runs : Rollback(r)
  BY <1>1, <1>4, <1>6, <1>8, <1>14 DEF Rollback
<1>15. CASE Sweep
  BY <1>1, <1>4, <1>7, <1>15 DEF Sweep
<1>16. CASE Faults
  BY <1>1, <1>4, <1>8, <1>9, <1>16 DEF Faults, Procs
<1>. QED
  BY <1>10, <1>11, <1>12, <1>13, <1>14, <1>15, <1>16 DEF Next

\* Only a read gets a step on to the look upstream, or ready to be recorded.
LEMMA WhoReads ==
    ASSUME TypeInv, [Next]_vars, NEW r \in Runs, task'[r] # task[r],
           NEW at \in {"upstream", "record"}, At(r, at)'
    PROVE  IF at = "upstream" THEN ReadEntry(r) ELSE ReadUpstream(r)
<1>1. r \in Procs /\ task'[r] # Idle /\ task'[r].at = at /\ TypeOK
  BY DEF At, Procs, TypeInv
<1>2. task'[r] \notin Undoing
  BY <1>1 DEF Undoing
<1>3. Ensure(r)
  BY <1>1, <1>2, WhoMoves
<1>4. \A from \in EnsureAt : At(r, from) => task[r] \in Applying
  BY <1>1, EnsureFacts
<1>5. ~\E t \in Steps : StartEnsure(r, t)
  BY <1>1, StartEnsureDoes
<1>6. (ReadEntry(r) => at = "upstream") /\ (ReadUpstream(r) => at = "record")
  BY <1>1, ReadEntryDoes, ReadUpstreamDoes
<1>7. ASSUME NEW to \in EnsureAt \ {"upstream", "record"}, Goto(r, to), NEW from \in EnsureAt, At(r, from)
      PROVE  FALSE
  BY <1>1, <1>4, <1>7, GotoEnsure
<1>8. ~Stop(r) /\ \A from \in EnsureAt : ~(Retry(r) /\ At(r, from))
  BY <1>1, <1>4, StopMoves, RetryMoves
<1>9. ~(At(r, "record") /\ Recorded(r))
  BY <1>1, RecordedGoes
<1>10. ~RecordNew(r) /\ ~RecordJoin(r)
  BY <1>8, <1>9 DEF RecordNew, RecordJoin, EnsureAt
<1>11. ~Create(r)
  BY <1>7, <1>8 DEF Create, EnsureAt
<1>12. ~Effect(r) /\ ~RecordId(r) /\ ~Repoint(r) /\ ~Succeed(r)
  BY <1>7, <1>8 DEF Effect, RecordId, Repoint, Succeed, EnsureAt
<1>. QED
  BY <1>3, <1>5, <1>6, <1>10, <1>11, <1>12 DEF Ensure

\* The requests that change what stands upstream.
LEMMA UpstreamSteps ==
    ASSUME [Next]_vars, upstream' # upstream
    PROVE  /\ ledger' = ledger
           /\ \/ \E r \in Runs : Create(r) \/ Effect(r) \/ Repoint(r)
              \/ \E p \in Procs : DeleteUpstream(p)
              \/ \E k \in Keys : PersonCreates(k) \/ PersonDeletes(k) \/ ForgeBuilds(k)
<1>1. \A p : Undo(p) => DeleteUpstream(p)
  BY DEF Undo, List, Finish, EndSweep, SweepNext, Release
<1>2. ~Faults /\ ~StartSweep
  BY DEF Faults, EnsureFails, ItemFails, ListFails, ReleaseFails, Crash, StartSweep
<1>3. ~UNCHANGED vars /\ ~EditConfig
  BY DEF vars, EditConfig
<1>4. \A r \in Runs : ~StartRollback(r) /\ ~EndRollback(r) /\ ~RequestRollback(r)
  BY DEF StartRollback, EndRollback, RequestRollback
<1>5. \A r \in Runs : Ensure(r) => Create(r) \/ Effect(r) \/ Repoint(r)
  BY DEF Ensure, StartEnsure, ReadEntry, ReadUpstream, RecordNew, RecordJoin, RecordId, Succeed
<1>6. \/ \E r \in Runs : Create(r) \/ Effect(r) \/ Repoint(r)
      \/ \E p \in Procs : DeleteUpstream(p)
      \/ \E k \in Keys : PersonCreates(k) \/ PersonDeletes(k) \/ ForgeBuilds(k)
  BY <1>1, <1>2, <1>3, <1>4, <1>5 DEF Next, Rollback, Sweep, Procs
<1>. QED
  BY <1>6 DEF Create, Effect, Repoint, DeleteUpstream, PersonCreates, PersonDeletes, ForgeBuilds

\* The resource k is what the step r works on makes or moves.
SetBy(r, k) ==
    LET ask == asks[task[r].step]
    IN  /\ k = KeyOf[task[r].step] /\ upstream'[k] \in Resource
        /\ KindOf[k] = "tag" => TargetStands(r)
        /\ upstream'[k].maker = IF upstream[k] = Absent THEN "wizard" ELSE upstream[k].maker
        /\ upstream'[k].id = task[r].target /\ upstream'[k].object = Object(ask, task[r].config)
        /\ upstream'[k].effects = IF FiresAtOnce(ask) THEN 1 ELSE 0

\* The deletion of l takes k along.
GoesWith(k, l) == k = l \/ (KindOf[k] = "tag" /\ ArtifactOf[k] = l)

\* What stands upstream changes when it is deleted, created, fired or re-pointed.
LEMMA ResourceSteps ==
    ASSUME TypeInv, [Next]_vars, NEW k \in Keys, upstream'[k] # upstream[k]
    PROVE  \/ /\ upstream[k] # Absent /\ upstream'[k] = Absent
              /\ \E l : /\ GoesWith(k, l) /\ upstream' = Without(l)
                        /\ \/ \E p \in Procs : DeleteUpstream(p) /\ l = task[p].item.key
                           \/ l \in Keys /\ PersonDeletes(l)
           \/ \E r \in Runs : /\ Create(r) /\ SetBy(r, k)
                              /\ KindOf[k] # "tag" => upstream[k] = Absent
           \/ \E r \in Runs : Repoint(r) /\ SetBy(r, k)
           \/ /\ upstream[k] # Absent /\ upstream'[k] \in Resource
              /\ \E r \in Runs : Effect(r) /\ k = KeyOf[task[r].step]
              /\ upstream'[k].maker = upstream[k].maker /\ upstream'[k].object = upstream[k].object
              /\ upstream'[k].id = upstream[k].id
              /\ upstream'[k].effects = IF upstream[k].effects < 2 THEN upstream[k].effects + 1
                                        ELSE upstream[k].effects
           \/ PersonCreates(k) /\ upstream'[k] \in Premade
           \/ /\ ForgeBuilds(k)
              /\ upstream'[k] = [maker |-> "forge", object |-> NoHash, id |-> nextId, effects |-> 0]
<1>1. upstream' # upstream /\ TypeOK
  BY DEF TypeInv
<1>2. ASSUME NEW r \in Runs, Create(r) \/ Effect(r) \/ Repoint(r)
      PROVE  /\ k = KeyOf[task[r].step]
             /\ \A res \in Resource : upstream' = [upstream EXCEPT ![k] = res] => upstream'[k] = res
  <2>1. r \in Procs /\ (At(r, "create") \/ At(r, "effect") \/ At(r, "repoint"))
    BY <1>2 DEF Create, Effect, Repoint, Procs
  <2>2. PICK l \in Keys : l = KeyOf[task[r].step]
    BY <2>1, EnsureFacts DEF EnsureAt
  <2>3. \E res \in Resource : upstream' = [upstream EXCEPT ![l] = res]
    BY <1>1, <1>2, <2>2, CreateDoes, EffectDoes, RepointDoes
  <2>. QED
    BY <1>1, <2>2, <2>3, UpstreamChange
<1>3. ASSUME NEW r \in Runs, NEW at \in EnsureAt, At(r, at), k = KeyOf[task[r].step], upstream'[k] = Moved(r),
             KindOf[k] = "tag" => TargetStands(r)
      PROVE  SetBy(r, k)
  BY <1>3, MovedFields DEF SetBy
<1>4. ASSUME NEW r \in Runs, Create(r) PROVE SetBy(r, k) /\ (KindOf[k] # "tag" => upstream[k] = Absent)
  <2>1. k = KeyOf[task[r].step] /\ upstream'[k] = Moved(r)
    BY <1>1, <1>2, <1>4, CreateDoes
  <2>2. At(r, "create") /\ "create" \in EnsureAt
    BY <1>4, CreateDoes DEF EnsureAt
  <2>. QED
    BY <1>1, <1>3, <1>4, <2>1, <2>2, CreateDoes
<1>5. ASSUME NEW r \in Runs, Effect(r)
      PROVE  /\ upstream[k] # Absent /\ upstream'[k] \in Resource /\ k = KeyOf[task[r].step]
             /\ upstream'[k].maker = upstream[k].maker /\ upstream'[k].object = upstream[k].object
             /\ upstream'[k].id = upstream[k].id
             /\ upstream'[k].effects = IF upstream[k].effects < 2 THEN upstream[k].effects + 1
                                        ELSE upstream[k].effects
  BY <1>1, <1>2, <1>5, EffectDoes
<1>6. ASSUME NEW r \in Runs, Repoint(r) PROVE SetBy(r, k)
  <2>1. k = KeyOf[task[r].step] /\ upstream'[k] = Moved(r) /\ TargetStands(r)
    BY <1>1, <1>2, <1>6, RepointDoes
  <2>2. At(r, "repoint") /\ "repoint" \in EnsureAt
    BY <1>6, RepointDoes DEF EnsureAt
  <2>. QED
    BY <1>3, <2>1, <2>2
<1>7. ASSUME NEW l, upstream' = Without(l) PROVE GoesWith(k, l) /\ upstream[k] # Absent /\ upstream'[k] = Absent
  BY <1>1, <1>7, WithoutFields DEF GoesWith
<1>8. ASSUME NEW p \in Procs, DeleteUpstream(p) PROVE upstream' = Without(task[p].item.key)
  BY <1>1, <1>8, DeleteUpstreamDoes
<1>9. ASSUME NEW l \in Keys, PersonCreates(l) PROVE PersonCreates(k) /\ upstream'[k] \in Premade
  BY <1>1, <1>9 DEF PersonCreates, TypeOK
<1>10. ASSUME NEW l \in Keys, PersonDeletes(l) PROVE upstream' = Without(l)
  BY <1>10 DEF PersonDeletes
<1>11. ASSUME NEW l \in Keys, ForgeBuilds(l)
       PROVE  ForgeBuilds(k) /\ upstream'[k] = [maker |-> "forge", object |-> NoHash, id |-> nextId, effects |-> 0]
  BY <1>1, <1>11 DEF ForgeBuilds, TypeOK
<1>12. \/ \E r \in Runs : Create(r) \/ Effect(r) \/ Repoint(r)
       \/ \E p \in Procs : DeleteUpstream(p)
       \/ \E l \in Keys : PersonCreates(l) \/ PersonDeletes(l) \/ ForgeBuilds(l)
  BY <1>1, UpstreamSteps
<1>13. CASE \E p \in Procs : DeleteUpstream(p)
  BY <1>7, <1>8, <1>13
<1>14. CASE \E l \in Keys : PersonDeletes(l)
  BY <1>7, <1>10, <1>14
<1>. QED
  BY <1>4, <1>5, <1>6, <1>9, <1>11, <1>12, <1>13, <1>14

\* The calls that change the ledger.
LEMMA LedgerSteps ==
    ASSUME [Next]_vars, ledger' # ledger
    PROVE  /\ upstream' = upstream
           /\ \/ \E r \in Runs : RecordNew(r) \/ RecordJoin(r) \/ RecordId(r)
              \/ \E p \in Procs : Finish(p) \/ \E i : Release(p, i) \/ ReleaseFails(p, i)
<1>1. \A p : Undo(p) => Finish(p) \/ \E i : Release(p, i)
  BY DEF Undo, List, DeleteUpstream, EndSweep, SweepNext
<1>2. Faults => \E p \in Procs : \E i : ReleaseFails(p, i)
  BY DEF Faults, EnsureFails, ItemFails, ListFails, Crash, Procs
<1>3. ~UNCHANGED vars /\ ~EditConfig /\ ~StartSweep
  BY DEF vars, EditConfig, StartSweep
<1>4. \A r \in Runs : ~StartRollback(r) /\ ~EndRollback(r) /\ ~RequestRollback(r)
  BY DEF StartRollback, EndRollback, RequestRollback
<1>5. \A r \in Runs : Ensure(r) => RecordNew(r) \/ RecordJoin(r) \/ RecordId(r)
  BY DEF Ensure, StartEnsure, ReadEntry, ReadUpstream, Create, Effect, Repoint, Succeed
<1>6. \A k \in Keys : ~PersonCreates(k) /\ ~PersonDeletes(k) /\ ~ForgeBuilds(k)
  BY DEF PersonCreates, PersonDeletes, ForgeBuilds
<1>7. \/ \E r \in Runs : RecordNew(r) \/ RecordJoin(r) \/ RecordId(r)
      \/ \E p \in Procs : Finish(p) \/ \E i : Release(p, i) \/ ReleaseFails(p, i)
  BY <1>1, <1>2, <1>3, <1>4, <1>5, <1>6 DEF Next, Rollback, Sweep, Procs
<1>. QED
  BY <1>7 DEF RecordNew, RecordJoin, RecordId, Finish, Release, ReleaseFails

\* An entry changes when it is registered, joined, given its ID, left, or closed.
LEMMA EntrySteps ==
    ASSUME TypeInv, [Next]_vars, NEW k \in Keys, ledger'[k] # ledger[k]
    PROVE  \/ /\ ledger'[k] = NoEntry
              /\ \E p \in Procs : Finish(p) /\ k = task[p].item.key
           \/ /\ ledger[k] = NoEntry /\ ledger'[k] \in Entry
              /\ \E r \in Runs :
                    LET found == task[r].found
                    IN  /\ RecordNew(r) /\ k = KeyOf[task[r].step]
                        /\ ledger'[k].managed <=> found = Absent \/ KindOf[k] = "artifact"
                        /\ ledger'[k].externalID = IF found = Absent \/ KindOf[k] = "named" THEN NoId
                                                   ELSE found.id
           \/ /\ ledger[k] # NoEntry /\ ledger'[k] \in Entry /\ ledger'[k].externalID = ledger[k].externalID
              /\ \E r \in Runs :
                    /\ RecordJoin(r) /\ k = KeyOf[task[r].step]
                    /\ ledger'[k].managed <=> ledger[k].managed \/ task[r].found = Absent
           \/ /\ ledger[k] # NoEntry /\ ledger'[k] \in Entry
              /\ ledger'[k].managed <=> ledger[k].managed
              /\ \E r \in Runs : /\ RecordId(r) /\ k = KeyOf[task[r].step]
                                 /\ ledger'[k].externalID = CreatedId(r)
           \/ /\ ledger[k] # NoEntry /\ ledger'[k] \in Entry /\ ledger'[k].externalID = ledger[k].externalID
              /\ ledger'[k].managed <=> ledger[k].managed
              /\ \E p \in Procs : \E i : (Release(p, i) \/ ReleaseFails(p, i)) /\ k = i.key
<1>1. ledger' # ledger /\ TypeOK
  BY DEF TypeInv
<1>2. ASSUME NEW l \in Keys, NEW e \in Entry \cup {NoEntry}, ledger' = [ledger EXCEPT ![l] = e]
      PROVE  l = k /\ ledger'[k] = e
  BY <1>1, <1>2, LedgerChange
<1>3. ASSUME NEW p \in Procs, Finish(p) PROVE k = task[p].item.key /\ ledger'[k] = NoEntry
  BY <1>1, <1>3 DEF Finish, TypeOK
<1>4. ASSUME NEW r \in Runs, RecordNew(r) \/ RecordJoin(r) \/ RecordId(r)
      PROVE  /\ task[r].step \in DOMAIN asks /\ task[r].step \in Steps /\ task[r].config \in Configs
             /\ task[r].found \in Resource \cup {Absent} /\ task[r].target \in Ids
             /\ KeyOf[task[r].step] \in Keys /\ ledger[KeyOf[task[r].step]] \in Entry \cup {NoEntry}
  <2>1. r \in Procs /\ (At(r, "record") \/ At(r, "id"))
    BY <1>4 DEF RecordNew, RecordJoin, RecordId, Procs
  <2>. QED
    BY <2>1, EnsureFacts DEF EnsureAt
<1>5. ASSUME NEW r \in Runs, RecordNew(r)
      PROVE  LET found == task[r].found
             IN  /\ ledger[k] = NoEntry /\ ledger'[k] \in Entry /\ k = KeyOf[task[r].step]
                 /\ ledger'[k].managed <=> found = Absent \/ KindOf[k] = "artifact"
                 /\ ledger'[k].externalID = IF found = Absent \/ KindOf[k] = "named" THEN NoId ELSE found.id
  <2> DEFINE t == task[r].step
             found == task[r].found
             managed == found = Absent \/ KindOf[KeyOf[t]] = "artifact"
             id == IF found = Absent \/ KindOf[KeyOf[t]] = "named" THEN NoId ELSE found.id
             e == NewEntry(t, task[r].config, managed, id)
  <2>1. ledger[KeyOf[t]] = NoEntry /\ ledger' = [ledger EXCEPT ![KeyOf[t]] = e]
    BY <1>1, <1>5 DEF RecordNew
  <2>2. id \in Ids /\ managed \in BOOLEAN
    BY <1>4, <1>5 DEF Ids, Resource
  <2>. HIDE DEF id, managed
  <2>3. e \in Entry /\ e.managed = managed /\ e.externalID = id
    BY <1>1, <1>4, <1>5, <2>2, NewEntryFields
  <2>. HIDE DEF e
  <2>4. k = KeyOf[t] /\ ledger'[k] = e
    BY <1>2, <1>4, <1>5, <2>1, <2>3
  <2>. QED
    BY <2>1, <2>3, <2>4 DEF id, managed
<1>6. ASSUME NEW r \in Runs, RecordJoin(r)
      PROVE  /\ ledger[k] # NoEntry /\ ledger'[k] \in Entry /\ ledger'[k].externalID = ledger[k].externalID
             /\ k = KeyOf[task[r].step]
             /\ ledger'[k].managed <=> ledger[k].managed \/ task[r].found = Absent
  <2> DEFINE t == task[r].step
             old == ledger[KeyOf[t]]
             manage == task[r].found = Absent
             e == Joined(old, t, manage)
  <2>1. old # NoEntry /\ ledger' = [ledger EXCEPT ![KeyOf[t]] = e]
    BY <1>1, <1>6 DEF RecordJoin
  <2>2. old \in Entry /\ manage \in BOOLEAN
    BY <1>4, <1>6, <2>1
  <2>. HIDE DEF manage
  <2>3. e \in Entry /\ e.managed = (old.managed \/ manage) /\ e.externalID = old.externalID
    BY <1>4, <1>6, <2>2, JoinedFields
  <2>. HIDE DEF e
  <2>4. k = KeyOf[t] /\ ledger'[k] = e
    BY <1>2, <1>4, <1>6, <2>1, <2>3
  <2>. QED
    BY <2>1, <2>3, <2>4 DEF manage
<1>7. ASSUME NEW r \in Runs, RecordId(r)
      PROVE  /\ ledger[k] # NoEntry /\ ledger'[k] \in Entry /\ k = KeyOf[task[r].step]
             /\ ledger'[k].managed <=> ledger[k].managed
             /\ ledger'[k].externalID = CreatedId(r)
  <2> DEFINE t == task[r].step
             old == ledger[KeyOf[t]]
             e == Joined(old, t, FALSE)
             f == [e EXCEPT !.externalID = CreatedId(r)]
  <2>1. old # NoEntry /\ ledger' = [ledger EXCEPT ![KeyOf[t]] = f]
    BY <1>1, <1>7 DEF RecordId
  <2>2. old \in Entry /\ CreatedId(r) \in Ids
    BY <1>4, <1>7, <2>1 DEF CreatedId
  <2>3. e \in Entry /\ e.managed = (old.managed \/ FALSE)
    BY <1>4, <1>7, <2>2, JoinedAsIs
  <2>. HIDE DEF e
  <2>4. f \in Entry /\ f.managed = e.managed /\ f.externalID = CreatedId(r)
    BY <2>2, <2>3, WithIdFields
  <2>. HIDE DEF f
  <2>5. k = KeyOf[t] /\ ledger'[k] = f
    BY <1>2, <1>4, <1>7, <2>1, <2>4
  <2>. QED
    BY <2>1, <2>3, <2>4, <2>5
<1>8. ASSUME NEW p \in Procs, NEW i, Release(p, i) \/ ReleaseFails(p, i)
      PROVE  /\ ledger[k] # NoEntry /\ ledger'[k] \in Entry /\ ledger'[k].externalID = ledger[k].externalID
             /\ ledger'[k].managed <=> ledger[k].managed
             /\ k = i.key
  <2> DEFINE old == ledger[i.key]
             e == Left(old, i.step)
  <2>1. At(p, "next") /\ IsNext(p, i)
    BY <1>8 DEF Release, ReleaseFails
  <2>2. old # NoEntry /\ ledger' = [ledger EXCEPT ![i.key] = e]
    BY <1>1, <1>8 DEF Release, ReleaseFails
  <2>3. i.key \in Keys /\ old \in Entry
    BY <2>1, <2>2, NextItem
  <2>4. e \in Entry /\ e.managed = old.managed /\ e.externalID = old.externalID
    BY <2>3, LeftFields
  <2>. HIDE DEF e
  <2>5. k = i.key /\ ledger'[k] = e
    BY <1>2, <2>2, <2>3, <2>4
  <2>. QED
    BY <2>2, <2>4, <2>5
<1>. QED
  BY <1>1, <1>3, <1>5, <1>6, <1>7, <1>8, LedgerSteps

-----------------------------------------------------------------------------
(* The ledger is used as it should be. *)

\* p does nothing that others rely on: their references stay, and so do the
\* entries that p is not about to delete itself.
Harmless(p) ==
    /\ \A t \in Steps : RunOf[t] # p =>
          /\ IsRecorded(t)' <=> IsRecorded(t)
          /\ IsRecorded(t) /\ ledger[KeyOf[t]].managed => ledger'[KeyOf[t]].managed
    /\ \A k \in Keys \ Claims(p) : Abandoned(ledger[k]) => ledger'[k] = ledger[k]

\* What is claimed has been given up.
LEMMA ClaimedIsAbandoned ==
    ASSUME TypeInv, NEW p \in Procs, KnowsItsClaims(p), NEW k \in Claims(p)
    PROVE  k \in Keys /\ Abandoned(ledger[k])
<1>1. CASE \E i \in task[p].todo : k = i.key /\ IsDeleting(p) /\ task[p].sweep
  <2>1. task[p].todo \in SUBSET Item
    BY <1>1, UndoFacts DEF IsDeleting
  <2>. QED
    BY <1>1, <2>1 DEF KnowsItsClaims, Item
<1>2. CASE k = task[p].item.key /\ (At(p, "delete") \/ At(p, "finish"))
  BY <1>2 DEF KnowsItsClaims, IsDeleting, At, Item
<1>. QED
  BY <1>1, <1>2 DEF Claims

LEMMA Bystander ==
    ASSUME TypeInv, ProvisionInv, NEW p \in Procs, NEW q \in Procs \ {p}, task'[q] = task[q], Harmless(p)
    PROVE  Sound(q)' /\ Claims(q)' = Claims(q)
<1>1. Sound(q) /\ Claims(p) \cap Claims(q) = {}
  BY DEF ProvisionInv, ClaimsAreExclusive
<1>2. /\ IsDeleting(q)' <=> IsDeleting(q)
      /\ \A at \in {"delete", "finish"} : At(q, at)' <=> At(q, at)
  BY DEF IsDeleting, At
<1>3. Claims(q)' = Claims(q)
  BY <1>2 DEF Claims
<1>4. \A k \in Claims(q) : k \in Keys /\ ledger'[k] = ledger[k]
  BY <1>1, ClaimedIsAbandoned DEF Sound, Harmless
<1>5. RecordsFirst(q)'
  <2>1. SUFFICES ASSUME task[q] # Idle, task[q].at \in {"create", "effect", "id", "repoint", "done"}
                 PROVE  RecordsFirst(q)'
    BY DEF RecordsFirst
  <2>2. task[q].step \in Steps /\ RunOf[task[q].step] = q
    BY <2>1, EnsureFacts DEF EnsureAt, At
  <2>. QED
    BY <1>1, <2>1, <2>2 DEF Sound, RecordsFirst, Harmless
<1>6. ListsItsOwn(q)'
  <2>1. SUFFICES ASSUME IsDeleting(q), ~task[q].sweep PROVE ListsItsOwn(q)'
    BY <1>2 DEF ListsItsOwn
  <2>2. \A t \in Steps : RunOf[t] = q => (IsRecorded(t)' <=> IsRecorded(t))
    BY DEF Harmless
  <2>. QED
    BY <1>1, <2>1, <2>2 DEF Sound, ListsItsOwn
<1>7. KnowsItsClaims(q)'
  <2>1. SUFFICES ASSUME IsDeleting(q) PROVE KnowsItsClaims(q)'
    BY <1>2 DEF KnowsItsClaims
  <2>2. task[q].sweep => \A i \in task[q].todo : i.key \in Claims(q)
    BY <2>1 DEF Claims
  <2>3. task[q].at # "next" => task[q].item.key \in Claims(q)
    BY <2>1 DEF Claims, IsDeleting, At
  <2>. QED
    BY <1>1, <1>4, <2>1, <2>2, <2>3 DEF Sound, KnowsItsClaims
<1>. QED
  BY <1>3, <1>5, <1>6, <1>7 DEF Sound

\* A step that moves p keeps the invariant when p's part of it is right.
LEMMA MovesSound ==
    ASSUME TypeInv, ProvisionInv, NEW p \in Procs, OnlyMoves(p), Harmless(p), Sound(p)',
           GivenUpWhenUnused', \A q \in Procs \ {p} : Claims(p)' \cap Claims(q) = {}
    PROVE  ProvisionInv'
<1>1. \A q \in Procs \ {p} : task'[q] = task[q]
  BY DEF OnlyMoves, TypeInv, TypeOK, Procs
<1>2. \A q \in Procs \ {p} : Sound(q)' /\ Claims(q)' = Claims(q)
  BY <1>1, Bystander
<1>3. ClaimsAreExclusive'
  BY <1>2 DEF ProvisionInv, ClaimsAreExclusive
<1>. QED
  BY <1>2, <1>3 DEF ProvisionInv

LEMMA RestIsHarmless ==
    ASSUME NEW p, ledger' = ledger
    PROVE  Harmless(p)
BY DEF Harmless, IsRecorded

LEMMA OpensIsHarmless ==
    ASSUME TypeInv, GivenUpWhenUnused, NEW t \in Steps, NEW m \in BOOLEAN, Opens(t, m) \/ Joins(t, m),
           NEW p, RunOf[t] = p
    PROVE  /\ Harmless(p) /\ GivenUpWhenUnused' /\ IsRecorded(t)'
           /\ m => ledger'[KeyOf[t]].managed
           /\ \A s \in Steps \ {t} : IsRecorded(s)' <=> IsRecorded(s)
<1> DEFINE k == KeyOf[t]
           old == IF ledger[k] = NoEntry THEN {} ELSE ledger[k].refs
<1>1. PICK e \in Entry :
         /\ ledger' = [ledger EXCEPT ![k] = e]
         /\ e.refs = old \cup {t} /\ ~e.terminating
         /\ m => e.managed
         /\ ledger[k] # NoEntry => ~ledger[k].terminating
         /\ ledger[k] # NoEntry /\ ledger[k].managed => e.managed
  BY DEF Opens, Joins
<1>2. k \in Keys /\ TypeOK
  BY ProvisionAssumption DEF TypeInv
<1>3. ledger'[k] = e /\ \A l \in Keys \ {k} : ledger'[l] = ledger[l]
  BY <1>1, <1>2, LedgerChange
<1>4. e # NoEntry
  BY MarkersAreDistinct
<1>5. GivenUpWhenUnused'
  BY <1>1, <1>3, <1>4 DEF GivenUpWhenUnused
<1>6. \A s \in Steps \ {t} : IsRecorded(s)' <=> IsRecorded(s)
  <2> TAKE s \in Steps \ {t}
  <2>1. KeyOf[s] \in Keys
    BY ProvisionAssumption
  <2>. QED
    BY <1>1, <1>3, <1>4, <2>1 DEF IsRecorded
<1>7. \A s \in Steps : IsRecorded(s) /\ ledger[KeyOf[s]].managed => ledger'[KeyOf[s]].managed
  BY <1>1, <1>3, ProvisionAssumption DEF IsRecorded
<1>8. \A l \in Keys : Abandoned(ledger[l]) => ledger'[l] = ledger[l]
  BY <1>1, <1>3 DEF Abandoned
<1>9. Harmless(p)
  BY <1>6, <1>7, <1>8 DEF Harmless
<1>10. IsRecorded(t)'
  BY <1>1, <1>3, <1>4 DEF IsRecorded
<1>. QED
  BY <1>1, <1>3, <1>5, <1>6, <1>9, <1>10

LEMMA LeavesIsHarmless ==
    ASSUME TypeInv, GivenUpWhenUnused, NEW t \in Steps, IsRecorded(t), Leaves(KeyOf[t], t),
           NEW p, RunOf[t] = p
    PROVE  /\ Harmless(p) /\ GivenUpWhenUnused' /\ ~IsRecorded(t)'
           /\ \A s \in Steps \ {t} : IsRecorded(s)' <=> IsRecorded(s)
           /\ ledger'[KeyOf[t]] \in Entry /\ ledger'[KeyOf[t]] # NoEntry
<1> DEFINE k == KeyOf[t]
<1>1. PICK e \in Entry :
         /\ ledger' = [ledger EXCEPT ![k] = e]
         /\ e.refs = ledger[k].refs \ {t} /\ e.managed = ledger[k].managed
         /\ e.terminating <=> ledger[k].terminating \/ ledger[k].refs \subseteq {t}
  BY DEF Leaves
<1>2. k \in Keys /\ TypeOK
  BY ProvisionAssumption DEF TypeInv
<1>3. ledger'[k] = e /\ \A l \in Keys \ {k} : ledger'[l] = ledger[l]
  BY <1>1, <1>2, LedgerChange
<1>4. e # NoEntry /\ ledger[k] # NoEntry /\ t \in ledger[k].refs /\ ~ledger[k].terminating
  BY <1>2, MarkersAreDistinct DEF IsRecorded, GivenUpWhenUnused
<1>5. GivenUpWhenUnused'
  BY <1>1, <1>3, <1>4 DEF GivenUpWhenUnused
<1>6. \A s \in Steps \ {t} : IsRecorded(s)' <=> IsRecorded(s)
  <2> TAKE s \in Steps \ {t}
  <2>1. KeyOf[s] \in Keys
    BY ProvisionAssumption
  <2>. QED
    BY <1>1, <1>3, <1>4, <2>1 DEF IsRecorded
<1>7. \A s \in Steps : IsRecorded(s) /\ ledger[KeyOf[s]].managed => ledger'[KeyOf[s]].managed
  BY <1>1, <1>3, ProvisionAssumption DEF IsRecorded
<1>8. \A l \in Keys : Abandoned(ledger[l]) => ledger'[l] = ledger[l]
  BY <1>3, <1>4 DEF Abandoned
<1>9. Harmless(p)
  BY <1>6, <1>7, <1>8 DEF Harmless
<1>10. ~IsRecorded(t)'
  BY <1>1, <1>3 DEF IsRecorded
<1>. QED
  BY <1>3, <1>4, <1>5, <1>6, <1>9, <1>10

LEMMA ClosesIsHarmless ==
    ASSUME TypeInv, GivenUpWhenUnused, NEW p \in Procs, KnowsItsClaims(p), NEW k \in Claims(p), Closes(k)
    PROVE  /\ Harmless(p) /\ GivenUpWhenUnused'
           /\ \A s \in Steps : IsRecorded(s)' <=> IsRecorded(s)
           /\ \A l \in Keys \ {k} : ledger'[l] = ledger[l]
<1>1. k \in Keys /\ Abandoned(ledger[k])
  BY ClaimedIsAbandoned
<1>2. ledger'[k] = NoEntry /\ \A l \in Keys \ {k} : ledger'[l] = ledger[l]
  BY <1>1, LedgerChange DEF Closes, TypeInv
<1>3. GivenUpWhenUnused'
  BY <1>2 DEF GivenUpWhenUnused
<1>4. \A s \in Steps : IsRecorded(s)' <=> IsRecorded(s)
  BY <1>1, <1>2, ProvisionAssumption DEF IsRecorded, Abandoned
<1>5. \A s \in Steps : IsRecorded(s) => KeyOf[s] # k
  BY <1>1 DEF IsRecorded, Abandoned
<1>6. Harmless(p)
  BY <1>2, <1>4, <1>5, ProvisionAssumption DEF Harmless
<1>. QED
  BY <1>2, <1>3, <1>4, <1>6

LEMMA EnsureMovesSound ==
    ASSUME TypeInv, ProvisionInv, NEW r \in Runs, OnlyMoves(r), task'[r] \in Applying \cup {Idle},
           Harmless(r), GivenUpWhenUnused', RecordsFirst(r)'
    PROVE  ProvisionInv'
<1>1. ~IsDeleting(r)' /\ ~At(r, "delete")' /\ ~At(r, "finish")'
  BY DEF IsDeleting, At, Applying, EnsureAt
<1>2. Claims(r)' = {}
  BY <1>1 DEF Claims
<1>3. Sound(r)'
  BY <1>1 DEF Sound, ListsItsOwn, KnowsItsClaims
<1>. QED
  BY <1>2, <1>3, MovesSound DEF Procs

\* ... in particular when it does not touch the ledger and goes back or stays recorded.
LEMMA ReadsSound ==
    ASSUME TypeInv, ProvisionInv, NEW r \in Runs, OnlyMoves(r), task'[r] \in Applying \cup {Idle},
           ledger' = ledger,
           \/ task'[r] = Idle
           \/ task'[r].at \in {"entry", "upstream", "record"}
           \/ IsRecorded(task'[r].step) /\ task'[r].at # "create"
    PROVE  ProvisionInv'
<1>1. GivenUpWhenUnused' /\ RecordsFirst(r)'
  BY DEF ProvisionInv, GivenUpWhenUnused, RecordsFirst, IsRecorded
<1>. QED
  BY <1>1, RestIsHarmless, EnsureMovesSound

LEMMA EnsureSound ==
    ASSUME TypeInv, ProvisionInv, NEW r \in Runs, Ensure(r)
    PROVE  ProvisionInv'
<1>1. r \in Procs /\ TypeOK /\ GivenUpWhenUnused /\ RecordsFirst(r)
  BY DEF Procs, TypeInv, ProvisionInv, Sound
<1>2. \A at \in EnsureAt : At(r, at) =>
         /\ task[r] # Idle /\ task[r] \in Applying /\ task[r].at = at
         /\ task[r].step \in Steps /\ RunOf[task[r].step] = r
  BY <1>1, EnsureFacts
<1>. USE DEF EnsureAt
<1>3. ASSUME NEW t \in Steps, StartEnsure(r, t) PROVE ProvisionInv'
  <2>1. OnlyMoves(r) /\ task'[r] \in Applying /\ task'[r].at = "entry"
    BY <1>3, StartEnsureDoes
  <2>2. ledger' = ledger
    BY <1>3 DEF StartEnsure
  <2>. QED
    BY <2>1, <2>2, ReadsSound
<1>4. CASE ReadEntry(r)
  BY <1>4, ReadEntryDoes, ReadsSound DEF ReadEntry, GoesOn
<1>5. CASE ReadUpstream(r)
  BY <1>5, ReadUpstreamDoes, ReadsSound DEF ReadUpstream, GoesOn
<1>6. ASSUME At(r, "record"), GoesOn(r), Retry(r), ledger' = ledger PROVE ProvisionInv'
  BY <1>1, <1>2, <1>6, RetryMoves, ReadsSound DEF GoesOn
<1>7. ASSUME At(r, "record"), GoesOn(r), Stop(r), ledger' = ledger PROVE ProvisionInv'
  BY <1>1, <1>7, StopMoves, ReadsSound DEF GoesOn
<1>8. ASSUME NEW m \in BOOLEAN, Opens(task[r].step, m) \/ Joins(task[r].step, m),
             At(r, "record"), Recorded(r), task[r].found = Absent => m
      PROVE  ProvisionInv'
  <2>1. /\ OnlyMoves(r) /\ task'[r] \in Applying /\ task'[r].step = task[r].step
        /\ task'[r].at = "create" => task[r].found = Absent
    BY <1>1, <1>8, RecordedGoes DEF GoesOn
  <2>2. PICK t \in Steps : t = task[r].step /\ RunOf[t] = r
    BY <1>2, <1>8
  <2>3. /\ Harmless(r) /\ GivenUpWhenUnused' /\ IsRecorded(t)'
        /\ m => ledger'[KeyOf[t]].managed
    BY <1>1, <1>8, <2>2, OpensIsHarmless
  <2>4. RecordsFirst(r)'
    BY <1>8, <2>1, <2>2, <2>3 DEF RecordsFirst, IsRecorded
  <2>. QED
    BY <2>1, <2>3, <2>4, EnsureMovesSound
<1>9. CASE RecordNew(r)
  <2> DEFINE m == task[r].found = Absent \/ KindOf[KeyOf[task[r].step]] = "artifact"
  <2>1. At(r, "record") /\ GoesOn(r) /\ m \in BOOLEAN /\ (task[r].found = Absent => m)
    BY <1>9, RecordNewDoes DEF RecordNew
  <2>2. (Retry(r) /\ ledger' = ledger) \/ (Opens(task[r].step, m) /\ Recorded(r))
    BY <1>9, RecordNewDoes
  <2>. HIDE DEF m
  <2>. QED
    BY <1>6, <1>8, <2>1, <2>2
<1>10. CASE RecordJoin(r)
  <2> DEFINE m == task[r].found = Absent
  <2>1. At(r, "record") /\ GoesOn(r) /\ m \in BOOLEAN /\ (task[r].found = Absent => m)
    BY <1>10, RecordJoinDoes DEF RecordJoin
  <2>2. ((Retry(r) \/ Stop(r)) /\ ledger' = ledger) \/ (Joins(task[r].step, m) /\ Recorded(r))
    BY <1>10, RecordJoinDoes
  <2>. HIDE DEF m
  <2>. QED
    BY <1>6, <1>7, <1>8, <2>1, <2>2
<1>11. CASE Create(r)
  <2>1. At(r, "create") /\ GoesOn(r) /\ ledger' = ledger
    BY <1>11, CreateDoes DEF Create
  <2>2. IsRecorded(task[r].step)
    BY <1>1, <1>2, <2>1 DEF RecordsFirst
  <2>3. CASE Retry(r)
    BY <1>1, <1>2, <2>1, <2>3, RetryMoves, ReadsSound DEF GoesOn
  <2>4. CASE Stop(r)
    BY <1>1, <2>1, <2>4, StopMoves, ReadsSound
  <2>5. CASE \E at \in {"effect", "id", "done"} : Goto(r, at)
    <3>1. PICK at \in {"effect", "id", "done"} : Goto(r, at)
      BY <2>5
    <3>2. task'[r] \in Applying /\ task'[r].at = at /\ task'[r].step = task[r].step
      BY <1>1, <1>2, <2>1, <3>1, GotoEnsure
    <3>. QED
      BY <2>1, <2>2, <3>2, ReadsSound DEF GoesOn
  <2>. QED
    BY <1>11, <2>3, <2>4, <2>5 DEF Create
<1>12. ASSUME NEW at \in {"effect", "repoint"}, At(r, at), GoesOn(r), ledger' = ledger,
              Goto(r, "done") \/ Stop(r)
       PROVE  ProvisionInv'
  <2>1. IsRecorded(task[r].step)
    BY <1>1, <1>2, <1>12 DEF RecordsFirst
  <2>2. CASE Goto(r, "done")
    <3>1. task'[r] \in Applying /\ task'[r].at = "done" /\ task'[r].step = task[r].step
      BY <1>1, <1>2, <1>12, <2>2, GotoEnsure
    <3>. QED
      BY <1>12, <2>1, <3>1, ReadsSound DEF GoesOn
  <2>3. CASE Stop(r)
    BY <1>1, <1>12, <2>3, StopMoves, ReadsSound
  <2>. QED
    BY <1>12, <2>2, <2>3
<1>13. CASE Effect(r)
  BY <1>12, <1>13, EffectDoes DEF Effect
<1>14. CASE Repoint(r)
  BY <1>12, <1>14, RepointDoes DEF Repoint
<1>15. CASE RecordId(r)
  <2>1. At(r, "id") /\ GoesOn(r)
    BY <1>15, RecordIdDoes DEF RecordId
  <2>2. CASE Stop(r) /\ ledger' = ledger
    BY <1>1, <2>2, StopMoves, ReadsSound
  <2>3. CASE Joins(task[r].step, FALSE) /\ Goto(r, "done")
    <3>1. task'[r] \in Applying /\ task'[r].at = "done" /\ task'[r].step = task[r].step
      BY <1>1, <1>2, <2>1, <2>3, GotoEnsure
    <3>2. PICK t \in Steps : t = task[r].step /\ RunOf[t] = r
      BY <1>2, <2>1
    <3>3. Harmless(r) /\ GivenUpWhenUnused' /\ IsRecorded(t)'
      BY <1>1, <2>3, <3>2, OpensIsHarmless
    <3>4. RecordsFirst(r)'
      BY <3>1, <3>2, <3>3 DEF RecordsFirst, IsRecorded
    <3>. QED
      BY <2>1, <3>1, <3>3, <3>4, EnsureMovesSound DEF GoesOn
  <2>. QED
    BY <1>15, <2>2, <2>3, RecordIdDoes
<1>16. CASE Succeed(r)
  BY <1>1, <1>16, StopMoves, ReadsSound DEF Succeed
<1>. QED
  BY <1>3, <1>4, <1>5, <1>9, <1>10, <1>11, <1>13, <1>14, <1>15, <1>16 DEF Ensure

LEMMA UndoMovesSound ==
    ASSUME TypeInv, ProvisionInv, NEW p \in Procs, OnlyMoves(p), task'[p] \in Undoing,
           Harmless(p), GivenUpWhenUnused', ListsItsOwn(p)', KnowsItsClaims(p)',
           \A q \in Procs \ {p} : Claims(p)' \cap Claims(q) = {}
    PROVE  ProvisionInv'
<1>1. RecordsFirst(p)'
  BY DEF RecordsFirst, Undoing
<1>. QED
  BY <1>1, MovesSound DEF Sound

\* ... in particular when it stops or begins to list.
LEMMA BeginsSound ==
    ASSUME TypeInv, ProvisionInv, NEW p \in Procs, OnlyMoves(p), ledger' = ledger,
           task'[p] = Idle \/ task'[p].at = "list"
    PROVE  ProvisionInv'
<1>1. ~IsDeleting(p)' /\ ~At(p, "delete")' /\ ~At(p, "finish")'
  BY DEF IsDeleting, At
<1>2. Claims(p)' = {} /\ RecordsFirst(p)'
  BY <1>1 DEF Claims, RecordsFirst
<1>3. Sound(p)' /\ GivenUpWhenUnused'
  BY <1>1, <1>2 DEF Sound, ListsItsOwn, KnowsItsClaims, ProvisionInv, GivenUpWhenUnused
<1>. QED
  BY <1>2, <1>3, RestIsHarmless, MovesSound

LEMMA ListSound ==
    ASSUME Orderly, TypeInv, ProvisionInv, NEW p \in Procs, List(p)
    PROVE  ProvisionInv'
<1>1. At(p, "list") /\ ledger' = ledger
  BY DEF List
<1>2. /\ OnlyMoves(p) /\ task'[p] \in Undoing /\ task'[p] # Idle /\ task'[p].at = "next"
      /\ task'[p].sweep = task[p].sweep
  BY ListMoves
<1>3. GivenUpWhenUnused'
  BY <1>1 DEF ProvisionInv, GivenUpWhenUnused
<1>4. IsDeleting(p)' /\ ~At(p, "delete")' /\ ~At(p, "finish")'
  BY <1>2 DEF IsDeleting, At
<1>5. CASE task[p].sweep
  <2>1. task'[p].todo = {[key |-> k, step |-> NoStep, entry |-> ledger[k]] :
                            k \in {l \in Keys : Abandoned(ledger[l])}}
    BY <1>5, ListMoves
  <2>2. KnowsItsClaims(p)' /\ ListsItsOwn(p)'
    BY <1>1, <1>2, <1>5, <2>1 DEF KnowsItsClaims, ListsItsOwn, Abandoned
  <2>3. \A q \in Procs \ {p} : ~IsDeleting(q)
    BY <1>5 DEF List, Orderly, Procs
  <2>4. \A q \in Procs \ {p} : Claims(q) = {}
    BY <2>3 DEF Claims, IsDeleting
  <2>. QED
    BY <1>1, <1>2, <1>3, <2>2, <2>4, RestIsHarmless, UndoMovesSound
<1>6. CASE ~task[p].sweep
  <2>1. task'[p].todo = {[key |-> KeyOf[t], step |-> t, entry |-> ledger[KeyOf[t]]] :
                            t \in {s \in Steps : RunOf[s] = p /\ IsRecorded(s)}}
    BY <1>6, ListMoves
  <2>2. \A t \in Steps : IsRecorded(t)' <=> IsRecorded(t)
    BY <1>1 DEF IsRecorded
  <2>3. ListsItsOwn(p)'
    <3> DEFINE item(t) == [key |-> KeyOf[t], step |-> t, entry |-> ledger[KeyOf[t]]]
    <3>1. \A t : item(t).step = t /\ item(t).key = KeyOf[t]
      OBVIOUS
    <3>2. \A i \in task'[p].todo : \E t \in Steps : RunOf[t] = p /\ IsRecorded(t) /\ i = item(t)
      BY <2>1
    <3>3. \A t \in Steps : RunOf[t] = p /\ IsRecorded(t) => item(t) \in task'[p].todo
      BY <2>1
    <3>. HIDE DEF item
    <3>4. \A i \in task'[p].todo :
             /\ i.step \in Steps /\ RunOf[i.step] = p /\ KeyOf[i.step] = i.key /\ IsRecorded(i.step)
             /\ \A j \in task'[p].todo : i.step = j.step => i = j
      BY <3>1, <3>2
    <3>5. \A t \in Steps : RunOf[t] = p /\ IsRecorded(t) => \E i \in task'[p].todo : i.step = t
      BY <3>1, <3>3
    <3>. QED
      BY <2>2, <3>4, <3>5 DEF ListsItsOwn, IsRecorded
  <2>4. KnowsItsClaims(p)' /\ Claims(p)' = {}
    BY <1>2, <1>4, <1>6 DEF KnowsItsClaims, Claims
  <2>. QED
    BY <1>1, <1>2, <1>3, <2>3, <2>4, RestIsHarmless, UndoMovesSound
<1>. QED
  BY <1>5, <1>6

LEMMA SweepNextSound ==
    ASSUME TypeInv, ProvisionInv, NEW p \in Procs, NEW i, SweepNext(p, i)
    PROVE  ProvisionInv'
<1>1. /\ i \in task[p].todo /\ i \in Item
      /\ task[p] \in Undoing /\ task[p] # Idle /\ task[p].sweep /\ task[p].at = "next"
      /\ OnlyMoves(p) /\ task'[p] \in Undoing /\ task'[p] # Idle /\ task'[p].sweep
      /\ task'[p].at = (IF i.entry.managed THEN "delete" ELSE "finish")
      /\ task'[p].todo = task[p].todo \ {i}
      /\ task'[p].item \in Item /\ task'[p].item.key = i.key /\ task'[p].item.entry = i.entry
  BY SweepNextDoes DEF GoesOn
<1>2. ledger' = ledger /\ KnowsItsClaims(p) /\ IsDeleting(p)
  BY <1>1 DEF SweepNext, ProvisionInv, Sound, IsDeleting
<1>3. \A j \in task[p].todo : j.step = NoStep /\ j.entry = ledger[j.key] /\ Abandoned(j.entry)
  BY <1>1, <1>2 DEF KnowsItsClaims
<1>4. \A j \in task[p].todo : j.key = i.key => j = i
  <2>1. task[p].todo \subseteq Item
    BY <1>1 DEF Undoing
  <2>2. \A j \in Item : j.key = i.key /\ j.step = i.step /\ j.entry = i.entry => j = i
    BY <1>1 DEF Item
  <2>. QED
    BY <1>1, <1>3, <2>1, <2>2
<1>5. GivenUpWhenUnused' /\ ListsItsOwn(p)'
  BY <1>1, <1>2 DEF ProvisionInv, GivenUpWhenUnused, ListsItsOwn
<1>6. KnowsItsClaims(p)'
  BY <1>1, <1>2, <1>3, <1>4 DEF KnowsItsClaims, Abandoned
<1>7. Claims(p)' \subseteq Claims(p)
  BY <1>1, <1>2 DEF Claims, IsDeleting
<1>. QED
  BY <1>1, <1>2, <1>5, <1>6, <1>7, RestIsHarmless, UndoMovesSound DEF ProvisionInv, ClaimsAreExclusive

\* What is in use is nobody's to delete.
LEMMA RecordedIsUnclaimed ==
    ASSUME TypeInv, ProvisionInv, NEW t \in Steps, IsRecorded(t), NEW q \in Procs
    PROVE  KeyOf[t] \notin Claims(q)
BY ClaimedIsAbandoned DEF ProvisionInv, Sound, IsRecorded, Abandoned

\* The item a rollback takes next is a reference of its own run, still recorded.
LEMMA OwnItem ==
    ASSUME TypeInv, ProvisionInv, NEW p \in Procs, At(p, "next"), ~task[p].sweep, NEW i, IsNext(p, i)
    PROVE  /\ i \in task[p].todo /\ i.step \in Steps /\ RunOf[i.step] = p
           /\ i.key = KeyOf[i.step] /\ IsRecorded(i.step)
           /\ \A j \in task[p].todo \ {i} : j.step # i.step
BY DEF ProvisionInv, Sound, ListsItsOwn, IsDeleting, IsNext

\* With the reference gone the rest of the list is still right.
LEMMA LeavesList ==
    ASSUME TypeInv, ProvisionInv, NEW p \in Procs, At(p, "next"), ~task[p].sweep, NEW i, IsNext(p, i),
           ~task'[p].sweep, task'[p].todo = task[p].todo \ {i}, task'[p].ok => task[p].ok,
           \A s \in Steps \ {i.step} : IsRecorded(s)' <=> IsRecorded(s),
           task'[p].ok => ~IsRecorded(i.step)'
    PROVE  ListsItsOwn(p)'
<1>1. PICK t \in Steps : t = i.step
  BY OwnItem
<1>2. /\ \A j \in task[p].todo :
            /\ j.step \in Steps /\ RunOf[j.step] = p /\ KeyOf[j.step] = j.key /\ IsRecorded(j.step)
            /\ \A l \in task[p].todo : j.step = l.step => j = l
      /\ task[p].ok =>
            \A s \in Steps : RunOf[s] = p /\ IsRecorded(s) => \E j \in task[p].todo : j.step = s
  BY DEF ProvisionInv, Sound, ListsItsOwn, IsDeleting
<1>3. i \in task[p].todo
  BY DEF IsNext
<1>. QED
  BY <1>1, <1>2, <1>3 DEF ListsItsOwn, IsRecorded

\* A rollback drops a reference: what is left is to be deleted, or not.
LEMMA DropsSound ==
    ASSUME TypeInv, ProvisionInv, NEW p \in Procs, At(p, "next"), ~task[p].sweep, NEW i, IsNext(p, i),
           Leaves(i.key, i.step), OnlyMoves(p), task'[p] \in Undoing, task'[p] # Idle,
           ~task'[p].sweep, task'[p].todo = task[p].todo \ {i}, task'[p].ok => task[p].ok,
           \/ task'[p].at = "next"
           \/ /\ ledger'[i.key].refs = {}
              /\ task'[p].at = (IF ledger'[i.key].managed THEN "delete" ELSE "finish")
              /\ task'[p].item \in Item /\ task'[p].item.key = i.key
              /\ task'[p].item.entry = ledger'[i.key]
    PROVE  ProvisionInv'
<1>1. PICK t \in Steps : t = i.step /\ RunOf[t] = p /\ i.key = KeyOf[t] /\ IsRecorded(t)
  BY OwnItem
<1>2. GivenUpWhenUnused /\ Leaves(KeyOf[t], t)
  BY <1>1 DEF ProvisionInv
<1>3. /\ Harmless(p) /\ GivenUpWhenUnused' /\ ~IsRecorded(t)'
      /\ \A s \in Steps \ {t} : IsRecorded(s)' <=> IsRecorded(s)
      /\ ledger'[KeyOf[t]] \in Entry /\ ledger'[KeyOf[t]] # NoEntry
  BY <1>1, <1>2, LeavesIsHarmless
<1>4. ListsItsOwn(p)'
  BY <1>1, <1>3, LeavesList
<1>5. KnowsItsClaims(p)'
  <2>1. ledger'[i.key].refs = {} => Abandoned(ledger'[i.key])
    BY <1>1, <1>3, ProvisionAssumption DEF GivenUpWhenUnused, Abandoned
  <2>. QED
    BY <2>1 DEF KnowsItsClaims, Abandoned
<1>6. \A q \in Procs \ {p} : Claims(p)' \cap Claims(q) = {}
  <2>1. Claims(p)' \subseteq {i.key}
    BY DEF Claims, IsDeleting, At
  <2>2. \A q \in Procs : i.key \notin Claims(q)
    BY <1>1, RecordedIsUnclaimed
  <2>. QED
    BY <2>1, <2>2
<1>. QED
  BY <1>3, <1>4, <1>5, <1>6, UndoMovesSound

\* A rollback or sweep goes to its next item without touching the ledger.
LEMMA GoesToNextSound ==
    ASSUME TypeInv, ProvisionInv, NEW p \in Procs, IsDeleting(p), OnlyMoves(p), ledger' = ledger,
           task'[p] \in Undoing, task'[p] # Idle, task'[p].sweep = task[p].sweep,
           task'[p].ok => task[p].ok, task'[p].todo = task[p].todo,
           \/ task'[p].at = "next"
           \/ At(p, "delete") /\ task'[p].at = "finish" /\ task'[p].item = task[p].item
    PROVE  ProvisionInv'
<1>1. Sound(p) /\ GivenUpWhenUnused'
  BY DEF ProvisionInv, GivenUpWhenUnused
<1>2. \A t : IsRecorded(t)' <=> IsRecorded(t)
  BY DEF IsRecorded
<1>3. IsDeleting(p)'
  BY DEF IsDeleting, At
<1>4. ListsItsOwn(p)'
  BY <1>1, <1>2 DEF Sound, ListsItsOwn
<1>5. KnowsItsClaims(p)'
  BY <1>1 DEF Sound, KnowsItsClaims, At, Abandoned
<1>6. Claims(p)' \subseteq Claims(p)
  BY DEF Claims, IsDeleting, At
<1>. QED
  BY <1>1, <1>4, <1>5, <1>6, RestIsHarmless, UndoMovesSound DEF ProvisionInv, ClaimsAreExclusive

LEMMA FinishSound ==
    ASSUME TypeInv, ProvisionInv, NEW p \in Procs, Finish(p)
    PROVE  ProvisionInv'
<1>1. /\ At(p, "finish") /\ OnlyMoves(p) /\ task'[p] \in Undoing /\ task'[p] # Idle /\ task'[p].at = "next"
      /\ task'[p].sweep = task[p].sweep
      /\ task'[p].ok => task[p].ok
      /\ task'[p].todo = task[p].todo
  BY ItemGivenUp DEF Finish, GoesOn
<1>2. PICK k : k = task[p].item.key /\ Closes(k) /\ k \in Claims(p)
  BY <1>1 DEF Finish, Closes, Claims
<1>3. Sound(p) /\ GivenUpWhenUnused /\ IsDeleting(p)
  BY <1>1 DEF ProvisionInv, IsDeleting
<1>4. /\ Harmless(p) /\ GivenUpWhenUnused'
      /\ \A s \in Steps : IsRecorded(s)' <=> IsRecorded(s)
      /\ \A l \in Keys \ {k} : ledger'[l] = ledger[l]
  BY <1>2, <1>3, ClosesIsHarmless DEF Sound
<1>5. ListsItsOwn(p)'
  BY <1>1, <1>3, <1>4 DEF Sound, ListsItsOwn
<1>6. KnowsItsClaims(p)'
  <2>1. task[p].todo \subseteq Item
    BY <1>1, UndoFacts
  <2>2. task[p].at # "next"
    BY <1>1 DEF At
  <2>. QED
    BY <1>1, <1>2, <1>3, <1>4, <2>1, <2>2 DEF Sound, KnowsItsClaims, Item, Abandoned
<1>7. Claims(p)' \subseteq Claims(p)
  BY <1>1, <1>3 DEF Claims, IsDeleting, At
<1>. QED
  BY <1>1, <1>4, <1>5, <1>6, <1>7, UndoMovesSound DEF ProvisionInv, ClaimsAreExclusive

LEMMA UndoSound ==
    ASSUME Orderly, TypeInv, ProvisionInv, NEW p \in Procs,
           \/ Undo(p) \/ ItemFails(p) \/ ListFails(p)
           \/ \E i : ReleaseFails(p, i)
    PROVE  ProvisionInv'
<1>1. TypeOK
  BY DEF TypeInv
<1>2. CASE List(p) \/ Finish(p) \/ \E i : SweepNext(p, i)
  BY <1>2, ListSound, FinishSound, SweepNextSound
<1>3. ASSUME NEW i, Release(p, i) PROVE ProvisionInv'
  <2>1. At(p, "next") /\ ~task[p].sweep /\ IsNext(p, i)
    BY <1>3 DEF Release
  <2>2. ledger[i.key] # NoEntry
    BY <2>1, OwnItem DEF IsRecorded
  <2>3. /\ OnlyMoves(p) /\ task'[p] \in Undoing /\ task'[p] # Idle
        /\ task'[p].todo = task[p].todo \ {i}
        /\ Leaves(i.key, i.step)
        /\ \/ task'[p].at = "next"
           \/ /\ ledger'[i.key].refs = {}
              /\ task'[p].at = (IF ledger'[i.key].managed THEN "delete" ELSE "finish")
              /\ task'[p].item \in Item /\ task'[p].item.key = i.key
              /\ task'[p].item.entry = ledger'[i.key]
    BY <1>3, <2>2, ReleaseDoes DEF GoesOn
  <2>4. task'[p].sweep = task[p].sweep /\ task'[p].ok = task[p].ok
    BY <1>3, ReleaseDoes
  <2>5. ~task'[p].sweep /\ (task'[p].ok => task[p].ok)
    BY <2>1, <2>4
  <2>. QED
    BY <2>1, <2>3, <2>5, DropsSound
<1>4. ASSUME NEW i, ReleaseFails(p, i) PROVE ProvisionInv'
  <2>1. At(p, "next") /\ ~task[p].sweep /\ IsNext(p, i)
    BY <1>4 DEF ReleaseFails
  <2>2. /\ OnlyMoves(p) /\ task'[p] \in Undoing /\ task'[p] # Idle /\ task'[p].at = "next"
        /\ task'[p].todo = task[p].todo \ {i}
        /\ ledger' = ledger \/ Leaves(i.key, i.step)
    BY <1>4, ReleaseFailsDoes DEF GoesOn
  <2>3. ~task'[p].sweep /\ ~task'[p].ok
    <3>1. task'[p].sweep = task[p].sweep
      BY <1>4, ReleaseFailsDoes
    <3>2. ~task'[p].ok
      BY <1>4, ReleaseFailsDoes
    <3>. QED
      BY <2>1, <3>1, <3>2
  <2>4. CASE Leaves(i.key, i.step)
    BY <2>1, <2>2, <2>3, <2>4, DropsSound
  <2>5. CASE ledger' = ledger
    <3>1. \A s \in Steps \ {i.step} : IsRecorded(s)' <=> IsRecorded(s)
      BY <2>5 DEF IsRecorded
    <3>2. ListsItsOwn(p)'
      BY <2>1, <2>2, <2>3, <3>1, LeavesList
    <3>3. GivenUpWhenUnused' /\ KnowsItsClaims(p)' /\ Claims(p)' = {}
      BY <2>2, <2>3, <2>5 DEF ProvisionInv, GivenUpWhenUnused, KnowsItsClaims, Claims, At
    <3>. QED
      BY <2>2, <2>5, <3>2, <3>3, RestIsHarmless, UndoMovesSound
  <2>. QED
    BY <2>2, <2>4, <2>5
<1>5. CASE DeleteUpstream(p)
  <2>1. ledger' = ledger /\ IsDeleting(p)
    BY <1>5 DEF DeleteUpstream, IsDeleting
  <2>. QED
    BY <1>5, <2>1, DeleteUpstreamDoes, GoesToNextSound DEF GoesOn
<1>6. CASE ItemFails(p)
  <2>1. ledger' = ledger /\ IsDeleting(p)
    BY <1>6 DEF ItemFails, IsDeleting
  <2>. QED
    BY <1>6, <2>1, ItemGivenUp, GoesToNextSound DEF GoesOn
<1>7. ASSUME ledger' = ledger, task[p].ok \in BOOLEAN,
             Stop(p) \/ BeginUndo(p, FALSE, task[p].ok) \/ BeginUndo(p, FALSE, FALSE)
      PROVE  ProvisionInv'
  <2>1. OnlyMoves(p) /\ (task'[p] = Idle \/ task'[p].at = "list")
    BY <1>1, <1>7, StopMoves, BeginUndoMoves
  <2>. QED
    BY <1>7, <2>1, BeginsSound
<1>8. CASE EndSweep(p) \/ ListFails(p)
  <2>1. At(p, "list") \/ At(p, "next")
    BY <1>8 DEF EndSweep, ListFails
  <2>2. task[p].ok \in BOOLEAN
    BY <2>1, UndoFacts
  <2>. QED
    BY <1>7, <1>8, <2>2 DEF EndSweep, ListFails
<1>. QED
  BY <1>2, <1>3, <1>4, <1>5, <1>6, <1>8 DEF Undo

LEMMA NextSound == Orderly /\ TypeInv /\ ProvisionInv /\ [Next]_vars => ProvisionInv'
<1>. SUFFICES ASSUME Orderly, TypeInv, ProvisionInv, [Next]_vars PROVE ProvisionInv'
  OBVIOUS
<1>1. TypeOK
  BY DEF TypeInv
<1>2. ASSUME UNCHANGED <<ledger, task>> PROVE ProvisionInv'
  <2>1. GivenUpWhenUnused' /\ ClaimsAreExclusive'
    <3>1. \A p \in Procs : Claims(p)' = Claims(p)
      BY <1>2 DEF Claims, IsDeleting, At
    <3>. QED
      BY <1>2, <3>1 DEF ProvisionInv, GivenUpWhenUnused, ClaimsAreExclusive
  <2>2. ASSUME NEW p \in Procs PROVE RecordsFirst(p)' /\ ListsItsOwn(p)' /\ KnowsItsClaims(p)'
    <3>1. RecordsFirst(p) /\ ListsItsOwn(p) /\ KnowsItsClaims(p)
      BY DEF ProvisionInv, Sound
    <3>2. RecordsFirst(p)'
      BY <1>2, <3>1 DEF RecordsFirst, IsRecorded
    <3>3. ListsItsOwn(p)'
      BY <1>2, <3>1 DEF ListsItsOwn, IsRecorded, IsDeleting, At
    <3>4. KnowsItsClaims(p)'
      BY <1>2, <3>1 DEF KnowsItsClaims, IsDeleting, At, Abandoned
    <3>. QED
      BY <3>2, <3>3, <3>4
  <2>. QED
    BY <2>1, <2>2 DEF ProvisionInv, Sound
<1>3. CASE UNCHANGED vars
  BY <1>2, <1>3 DEF vars
<1>4. ASSUME NEW r \in Runs, Rollback(r) PROVE ProvisionInv'
  <2>1. r \in Procs
    BY DEF Procs
  <2>2. CASE StartRollback(r)
    BY <1>1, <2>1, <2>2, BeginUndoMoves, BeginsSound DEF StartRollback
  <2>3. CASE EndRollback(r)
    BY <1>1, <2>1, <2>3, StopMoves, BeginsSound DEF EndRollback
  <2>. QED
    BY <1>4, <2>1, <2>2, <2>3, UndoSound DEF Rollback
<1>5. ASSUME NEW r \in Runs, RequestRollback(r) PROVE ProvisionInv'
  BY <1>2, <1>5 DEF RequestRollback
<1>6. CASE Sweep
  <2>1. Sweeper \in Procs
    BY DEF Procs
  <2>2. CASE StartSweep
    BY <1>1, <2>1, <2>2, BeginUndoMoves, BeginsSound DEF StartSweep
  <2>. QED
    BY <1>6, <2>1, <2>2, UndoSound DEF Sweep
<1>7. CASE Faults
  <2>1. ASSUME NEW r \in Runs, EnsureFails(r) PROVE ProvisionInv'
    BY <1>1, <2>1, StopMoves, BeginsSound DEF EnsureFails, Procs
  <2>2. CASE Crash
    <3>1. ledger' = ledger /\ \A p \in Procs : task'[p] = Idle
      BY <2>2 DEF Crash, Procs
    <3>. QED
      BY <3>1 DEF ProvisionInv, GivenUpWhenUnused, Sound, RecordsFirst, ListsItsOwn, KnowsItsClaims,
         ClaimsAreExclusive, Claims, IsDeleting, At
  <2>3. ASSUME NEW p \in Procs, \/ ItemFails(p) \/ ListFails(p) \/ \E i : ReleaseFails(p, i)
        PROVE  ProvisionInv'
    BY <2>3, UndoSound
  <2>. QED
    BY <1>7, <2>1, <2>2, <2>3 DEF Faults, Procs
<1>8. CASE EditConfig
  BY <1>2, <1>8 DEF EditConfig
<1>9. ASSUME NEW k \in Keys, PersonCreates(k) \/ PersonDeletes(k) \/ ForgeBuilds(k) PROVE ProvisionInv'
  BY <1>2, <1>9 DEF PersonCreates, PersonDeletes, ForgeBuilds
<1>. QED
  BY <1>3, <1>4, <1>5, <1>6, <1>7, <1>8, <1>9, EnsureSound DEF Next

LEMMA ProvisionInit == Init => ProvisionInv
BY DEF Init, ProvisionInv, GivenUpWhenUnused, Sound, RecordsFirst, ListsItsOwn, KnowsItsClaims,
   ClaimsAreExclusive, Claims, IsDeleting, At, Procs

\* The invariant the other theorems rest on: steps are recorded before they act, a
\* rollback drops its own references, all of them unless something failed, and what
\* is about to be deleted is out of use and nobody else's to delete.
THEOREM ProvisionIsSound == Orderly => (Spec => [](TypeInv /\ ProvisionInv))
<1>. SUFFICES ASSUME Orderly PROVE Spec => [](TypeInv /\ ProvisionInv)
  OBVIOUS
<1>1. TypeInv /\ ProvisionInv /\ [Next]_vars => (TypeInv /\ ProvisionInv)'
  BY TypeStep, NextSound
<1>. QED
  BY <1>1, TypeInit, ProvisionInit, PTL DEF Spec

-----------------------------------------------------------------------------
(* The contracts of the ledger and of the runs. *)

\* What a step does to the ledger, and what the run it does it for is at.
EntryStep ==
    \/ ledger' = ledger
    \/ /\ mode' = mode
       /\ \/ \E t \in Steps, m \in BOOLEAN :
                mode[RunOf[t]] \in {"apply", "undo"} /\ (Opens(t, m) \/ Joins(t, m))
          \/ \E t \in Steps :
                mode[RunOf[t]] = "undoing" /\ IsRecorded(t) /\ Leaves(KeyOf[t], t)
          \/ \E p \in Procs, k \in Keys :
                At(p, "finish") /\ k = task[p].item.key /\ Abandoned(ledger[k]) /\ Closes(k)

LEMMA EnsureRecords ==
    ASSUME TypeInv, NEW r \in Runs, RecordNew(r) \/ RecordJoin(r) \/ RecordId(r)
    PROVE  EntryStep
<1>1. PICK t : t = task[r].step
  OBVIOUS
<1>2. t \in Steps /\ mode[RunOf[t]] \in {"apply", "undo"}
  <2>1. r \in Procs /\ (At(r, "record") \/ At(r, "id"))
    BY DEF RecordNew, RecordJoin, RecordId, Procs
  <2>. QED
    BY <1>1, <2>1, EnsureFacts DEF EnsureAt
<1>3. mode' = mode
  BY DEF RecordNew, RecordJoin, RecordId
<1>4. ledger' = ledger \/ \E m \in BOOLEAN : Opens(t, m) \/ Joins(t, m)
  <2> DEFINE m1 == task[r].found = Absent \/ KindOf[KeyOf[task[r].step]] = "artifact"
             m2 == task[r].found = Absent
  <2>1. CASE RecordNew(r)
    <3>1. m1 \in BOOLEAN /\ (ledger' = ledger \/ Opens(t, m1))
      BY <1>1, <2>1, RecordNewDoes
    <3>. QED
      BY <3>1
  <2>2. CASE RecordJoin(r)
    <3>1. m2 \in BOOLEAN /\ (ledger' = ledger \/ Joins(t, m2))
      BY <1>1, <2>2, RecordJoinDoes
    <3>. QED
      BY <3>1
  <2>3. CASE RecordId(r)
    BY <1>1, <2>3, RecordIdDoes
  <2>. QED
    BY <2>1, <2>2, <2>3
<1>. QED
  BY <1>2, <1>3, <1>4 DEF EntryStep

LEMMA UndoReleases ==
    ASSUME TypeInv, ProvisionInv, NEW p \in Procs, NEW i, Release(p, i) \/ ReleaseFails(p, i)
    PROVE  EntryStep
<1>1. At(p, "next") /\ ~task[p].sweep /\ IsNext(p, i) /\ mode' = mode
  BY DEF Release, ReleaseFails
<1>2. i.step \in Steps /\ RunOf[i.step] = p /\ i.key = KeyOf[i.step] /\ IsRecorded(i.step)
  BY <1>1, OwnItem
<1>3. mode[p] = "undoing"
  BY <1>1, UndoFacts
<1>4. ledger' = ledger \/ Leaves(i.key, i.step)
  BY ReleaseDoes, ReleaseFailsDoes
<1>. QED
  BY <1>1, <1>2, <1>3, <1>4 DEF EntryStep

LEMMA UndoCloses ==
    ASSUME TypeInv, ProvisionInv, NEW p \in Procs, Finish(p)
    PROVE  EntryStep
<1>1. PICK k : /\ At(p, "finish") /\ k = task[p].item.key /\ Closes(k)
               /\ k \in Claims(p) /\ mode' = mode
  BY DEF Finish, Closes, Claims
<1>2. k \in Keys /\ Abandoned(ledger[k])
  BY <1>1, ClaimedIsAbandoned DEF ProvisionInv, Sound
<1>. QED
  BY <1>1, <1>2 DEF EntryStep

LEMMA NextIsEntryStep ==
    ASSUME TypeInv, ProvisionInv, [Next]_vars
    PROVE  EntryStep
<1>1. CASE ledger' = ledger
  BY <1>1 DEF EntryStep
<1>2. CASE ledger' # ledger
  BY <1>2, LedgerSteps, EnsureRecords, UndoReleases, UndoCloses
<1>. QED
  BY <1>1, <1>2

\* What the ledger's contract sees of an entry.
StateOf(e) == IF e = NoEntry THEN "absent" ELSE IF e.terminating THEN "terminating" ELSE "live"
UsersOf(e) == IF e = NoEntry THEN {} ELSE e.refs
OwnedOf(e) == IF e = NoEntry THEN FALSE ELSE e.managed

\* A change of one entry is a step of the contract on that key.
LEMMA OpensImplements ==
    ASSUME TypeInv, NEW t \in Steps, NEW m \in BOOLEAN, Opens(t, m)
    PROVE  Contract!Open(KeyOf[t], t, m)
<1> DEFINE k == KeyOf[t]
<1>1. PICK e \in Entry : /\ ledger[k] = NoEntry /\ ledger' = [ledger EXCEPT ![k] = e]
                         /\ e.refs = {t} /\ e.managed = m /\ ~e.terminating
  BY DEF Opens
<1>2. k \in Keys /\ TypeOK
  BY ProvisionAssumption DEF TypeInv
<1>3. e # NoEntry /\ ledger'[k] = e /\ \A l \in Keys \ {k} : ledger'[l] = ledger[l]
  BY <1>1, <1>2, LedgerChange, MarkersAreDistinct
<1>4. /\ StateOf(ledger[k]) = "absent" /\ StateOf(ledger'[k]) = "live"
      /\ UsersOf(ledger'[k]) = {t} /\ OwnedOf(ledger'[k]) = m
  BY <1>1, <1>3 DEF StateOf, UsersOf, OwnedOf
<1>. QED
  BY <1>2, <1>3, <1>4 DEF Contract!Open, StateOf, UsersOf, OwnedOf

LEMMA JoinsImplements ==
    ASSUME TypeInv, NEW t \in Steps, NEW m \in BOOLEAN, Joins(t, m)
    PROVE  Contract!Join(KeyOf[t], t, m)
<1> DEFINE k == KeyOf[t]
<1>1. PICK e \in Entry : /\ ledger[k] # NoEntry /\ ~ledger[k].terminating
                         /\ ledger' = [ledger EXCEPT ![k] = e]
                         /\ e.refs = ledger[k].refs \cup {t} /\ ~e.terminating
                         /\ e.managed = (ledger[k].managed \/ m)
  BY DEF Joins
<1>2. k \in Keys /\ TypeOK
  BY ProvisionAssumption DEF TypeInv
<1>3. e # NoEntry /\ ledger'[k] = e /\ \A l \in Keys \ {k} : ledger'[l] = ledger[l]
  BY <1>1, <1>2, LedgerChange, MarkersAreDistinct
<1>4. /\ StateOf(ledger[k]) = "live" /\ StateOf(ledger'[k]) = "live"
      /\ UsersOf(ledger'[k]) = UsersOf(ledger[k]) \cup {t}
      /\ OwnedOf(ledger'[k]) = (OwnedOf(ledger[k]) \/ m)
  BY <1>1, <1>3 DEF StateOf, UsersOf, OwnedOf
<1>. QED
  BY <1>2, <1>3, <1>4 DEF Contract!Join, StateOf, UsersOf, OwnedOf

LEMMA LeavesImplements ==
    ASSUME TypeInv, GivenUpWhenUnused, NEW t \in Steps, IsRecorded(t), Leaves(KeyOf[t], t)
    PROVE  Contract!Leave(KeyOf[t], t) \/ Contract!LeaveLast(KeyOf[t], t)
<1> DEFINE k == KeyOf[t]
<1>1. PICK e \in Entry : /\ ledger' = [ledger EXCEPT ![k] = e]
                         /\ e.refs = ledger[k].refs \ {t} /\ e.managed = ledger[k].managed
                         /\ e.terminating <=> ledger[k].terminating \/ ledger[k].refs \subseteq {t}
  BY DEF Leaves
<1>2. k \in Keys /\ TypeOK
  BY ProvisionAssumption DEF TypeInv
<1>3. e # NoEntry /\ ledger'[k] = e /\ \A l \in Keys \ {k} : ledger'[l] = ledger[l]
  BY <1>1, <1>2, LedgerChange, MarkersAreDistinct
<1>4. ledger[k] # NoEntry /\ t \in ledger[k].refs /\ ~ledger[k].terminating
  BY <1>2 DEF IsRecorded, GivenUpWhenUnused
<1>5. CASE ledger[k].refs \subseteq {t}
  <2>1. /\ StateOf(ledger[k]) = "live" /\ StateOf(ledger'[k]) = "terminating"
        /\ UsersOf(ledger[k]) = {t} /\ UsersOf(ledger'[k]) = {}
        /\ OwnedOf(ledger'[k]) = OwnedOf(ledger[k])
    BY <1>1, <1>3, <1>4, <1>5 DEF StateOf, UsersOf, OwnedOf
  <2>. QED
    BY <1>2, <1>3, <2>1 DEF Contract!LeaveLast, StateOf, UsersOf, OwnedOf
<1>6. CASE ~(ledger[k].refs \subseteq {t})
  <2>1. /\ StateOf(ledger[k]) = "live" /\ StateOf(ledger'[k]) = "live"
        /\ UsersOf(ledger[k]) \ {t} # {} /\ UsersOf(ledger'[k]) = UsersOf(ledger[k]) \ {t}
        /\ OwnedOf(ledger'[k]) = OwnedOf(ledger[k])
    BY <1>1, <1>3, <1>4, <1>6 DEF StateOf, UsersOf, OwnedOf
  <2> DEFINE users == [l \in Keys |-> UsersOf(ledger[l])]
  <2>2. users' = [users EXCEPT ![k] = @ \ {t}]
    BY <1>2, <1>3, <2>1
  <2>3. UNCHANGED <<[l \in Keys |-> StateOf(ledger[l])], [l \in Keys |-> OwnedOf(ledger[l])]>>
    BY <1>2, <1>3, <2>1
  <2>4. users[k] \ {t} # {} /\ [l \in Keys |-> StateOf(ledger[l])][k] = "live"
    BY <1>2, <2>1
  <2>. QED
    BY <2>2, <2>3, <2>4 DEF Contract!Leave, StateOf, UsersOf, OwnedOf
<1>. QED
  BY <1>5, <1>6

LEMMA ClosesImplements ==
    ASSUME TypeInv, NEW k \in Keys, Abandoned(ledger[k]), Closes(k)
    PROVE  Contract!Close(k)
<1>1. ledger'[k] = NoEntry /\ \A l \in Keys \ {k} : ledger'[l] = ledger[l]
  BY LedgerChange DEF Closes, TypeInv
<1>. QED
  BY <1>1 DEF Contract!Close, Abandoned

\* Ensure, rollback and sweep use the ledger as its contract allows, whatever runs,
\* faults, crashes and other people do in between (ledger.go:4-12).
THEOREM ProvisionKeepsContract == Orderly => (Spec => ContractSpec)
<1>. SUFFICES ASSUME Orderly PROVE Spec => ContractSpec
  OBVIOUS
<1>1. Init => Contract!Init
  BY DEF Init, Contract!Init
<1>2. TypeInv /\ ProvisionInv /\ [Next]_vars => [Contract!Next]_(Contract!vars)
  <2>. SUFFICES ASSUME TypeInv, ProvisionInv, [Next]_vars
                PROVE  [Contract!Next]_(Contract!vars)
    OBVIOUS
  <2>1. CASE ledger' = ledger
    BY <2>1 DEF Contract!vars
  <2>2. ASSUME NEW t \in Steps, NEW m \in BOOLEAN, Opens(t, m) \/ Joins(t, m)
        PROVE  Contract!Next
    BY <2>2, OpensImplements, JoinsImplements, ProvisionAssumption DEF Contract!Next
  <2>3. ASSUME NEW t \in Steps, IsRecorded(t), Leaves(KeyOf[t], t)
        PROVE  Contract!Next
    BY <2>3, LeavesImplements, ProvisionAssumption DEF Contract!Next, ProvisionInv
  <2>4. ASSUME NEW k \in Keys, Abandoned(ledger[k]), Closes(k)
        PROVE  Contract!Next
    BY <2>4, ClosesImplements DEF Contract!Next
  <2>. QED
    BY <2>1, <2>2, <2>3, <2>4, NextIsEntryStep DEF EntryStep
<1>. QED
  BY <1>1, <1>2, ProvisionIsSound, PTL DEF Spec, ContractSpec, Contract!Spec

\* What the contract of the runs sees of a run.
StageOf(m) == CASE m = "undoing" -> "undoing" [] m = "gone" -> "undone" [] OTHER -> "active"
Held(r) == {t \in Steps : RunOf[t] = r /\ ledger[KeyOf[t]] # NoEntry /\ t \in ledger[KeyOf[t]].refs}

LEMMA RecordingAcquires ==
    ASSUME TypeInv, GivenUpWhenUnused, mode' = mode,
           NEW t \in Steps, mode[RunOf[t]] \in {"apply", "undo"},
           NEW m \in BOOLEAN, Opens(t, m) \/ Joins(t, m)
    PROVE  Lives!Next
<1>1. PICK r \in Runs : r = RunOf[t]
  BY ProvisionAssumption
<1>2. IsRecorded(t)' /\ \A s \in Steps \ {t} : IsRecorded(s)' <=> IsRecorded(s)
  BY <1>1, OpensIsHarmless
<1>3. Held(r)' = Held(r) \cup {t} /\ \A q \in Runs \ {r} : Held(q)' = Held(q)
  BY <1>1, <1>2 DEF Held, IsRecorded
<1>4. Lives!Acquire(r, t)
  <2>1. [q \in Runs |-> Held(q)'] = [[q \in Runs |-> Held(q)] EXCEPT ![r] = @ \cup {t}]
    <3>. HIDE DEF Held
    <3>. QED
      BY <1>1, <1>3
  <2>2. mode[r] # "undoing" /\ mode[r] # "gone"
    BY <1>1
  <2>. QED
    BY <2>1, <2>2 DEF Lives!Acquire, Held
<1>. QED
  BY <1>4 DEF Lives!Next

LEMMA LeavingReleases ==
    ASSUME TypeInv, GivenUpWhenUnused, mode' = mode,
           NEW t \in Steps, mode[RunOf[t]] = "undoing", IsRecorded(t), Leaves(KeyOf[t], t)
    PROVE  Lives!Next
<1>1. PICK r \in Runs : r = RunOf[t]
  BY ProvisionAssumption
<1>2. ~IsRecorded(t)' /\ \A s \in Steps \ {t} : IsRecorded(s)' <=> IsRecorded(s)
  BY <1>1, LeavesIsHarmless
<1>3. Held(r)' = Held(r) \ {t} /\ \A q \in Runs \ {r} : Held(q)' = Held(q)
  BY <1>1, <1>2 DEF Held, IsRecorded
<1>4. PICK left \in SUBSET Held(r) : left = Held(r) \ {t}
  OBVIOUS
<1>5. Lives!Release(r)
  <2> DEFINE holds == [q \in Runs |-> Held(q)]
  <2>1. holds' = [holds EXCEPT ![r] = left] /\ left \in SUBSET holds[r]
    BY <1>3, <1>4
  <2>2. [q \in Runs |-> StageOf(mode[q])][r] = "undoing"
    BY <1>1 DEF StageOf
  <2>. QED
    BY <2>1, <2>2 DEF Lives!Release, Held, StageOf
<1>. QED
  BY <1>5 DEF Lives!Next

LEMMA ClosingKeepsHeld ==
    ASSUME TypeInv, NEW k \in Keys, Abandoned(ledger[k]), Closes(k)
    PROVE  \A r \in Runs : Held(r)' = Held(r)
<1>1. ledger'[k] = NoEntry /\ \A l \in Keys \ {k} : ledger'[l] = ledger[l]
  BY LedgerChange DEF Closes, TypeInv
<1>. QED
  BY <1>1, ProvisionAssumption DEF Held, Abandoned

\* A run gets on when its rollback is asked for, begins or ends.
LEMMA ModeSteps ==
    ASSUME [Next]_vars, mode' # mode
    PROVE  \E r \in Runs : StartRollback(r) \/ EndRollback(r) \/ RequestRollback(r)
<1>1. ASSUME NEW p, Undo(p) PROVE FALSE
  BY <1>1 DEF Undo, List, DeleteUpstream, Finish, EndSweep, SweepNext, Release
<1>2. ~Sweep
  BY <1>1 DEF Sweep, StartSweep
<1>3. ~Faults
  <2>1. ASSUME NEW p, NEW i, ReleaseFails(p, i) PROVE FALSE
    BY <2>1 DEF ReleaseFails
  <2>2. ASSUME NEW p, EnsureFails(p) \/ ItemFails(p) \/ ListFails(p) \/ Crash PROVE FALSE
    BY <2>2 DEF EnsureFails, ItemFails, ListFails, Crash
  <2>. QED
    BY <2>1, <2>2 DEF Faults
<1>4. \A r \in Runs : ~Ensure(r)
  BY DEF Ensure, StartEnsure, ReadEntry, ReadUpstream, RecordNew, RecordJoin, Create, Effect, RecordId,
     Repoint, Succeed
<1>5. /\ ~EditConfig /\ \A k \in Keys : ~PersonCreates(k) /\ ~PersonDeletes(k) /\ ~ForgeBuilds(k)
      /\ ~UNCHANGED vars
  BY DEF EditConfig, PersonCreates, PersonDeletes, ForgeBuilds, vars
<1>. QED
  BY <1>1, <1>2, <1>3, <1>4, <1>5 DEF Next, Rollback

\* A step that leaves the ledger alone changes the stage of a run, or nothing.
LEMMA StageSteps ==
    ASSUME TypeInv, ProvisionInv, [Next]_vars, ledger' = ledger, mode' # mode
    PROVE  \E r \in Runs :
              \/ RequestRollback(r)
              \/ mode[r] \in {"undo", "undoing"} /\ mode' = [mode EXCEPT ![r] = "undoing"]
              \/ mode[r] = "undoing" /\ Held(r) = {} /\ mode' = [mode EXCEPT ![r] = "gone"]
<1>1. PICK r \in Runs : StartRollback(r) \/ EndRollback(r) \/ RequestRollback(r)
  BY ModeSteps
<1>2. CASE StartRollback(r)
  BY <1>2 DEF StartRollback
<1>3. CASE EndRollback(r)
  <2>1. /\ At(r, "next") /\ ~task[r].sweep /\ task[r].todo = {} /\ task[r].ok
        /\ mode' = [mode EXCEPT ![r] = "gone"]
    BY <1>3 DEF EndRollback
  <2>2. mode[r] = "undoing"
    BY <2>1, UndoFacts, ProvisionAssumption DEF Procs
  <2>3. ListsItsOwn(r) /\ IsDeleting(r)
    BY <2>1 DEF ProvisionInv, Sound, Procs, IsDeleting
  <2>4. Held(r) = {}
    BY <2>1, <2>3 DEF ListsItsOwn, Held, IsRecorded
  <2>. QED
    BY <2>1, <2>2, <2>4
<1>. QED
  BY <1>1, <1>2, <1>3

\* What ensure, rollback and sweep do to the ledger is what the run controller counts
\* on: a run gets references only before its rollback begins, loses them only by its
\* own rollback, and counts as rolled back only when it has none (rollback.go:39-43).
THEOREM ProvisionKeepsRunSpec == Orderly => (Spec => KeepsRunSpec)
<1>. SUFFICES ASSUME Orderly PROVE Spec => KeepsRunSpec
  OBVIOUS
<1>1. Init => Lives!Init
  BY ProvisionAssumption DEF Init, Lives!Init
<1>2. TypeInv /\ ProvisionInv /\ [Next]_vars => [Lives!Next]_(Lives!vars)
  <2>. SUFFICES ASSUME TypeInv, ProvisionInv, [Next]_vars
                PROVE  [Lives!Next]_(Lives!vars)
    OBVIOUS
  <2>1. CASE ledger' = ledger /\ mode' = mode
    BY <2>1 DEF Lives!vars
  <2>2. CASE ledger' = ledger /\ mode' # mode
    <3>1. PICK r \in Runs :
              \/ RequestRollback(r)
              \/ mode[r] \in {"undo", "undoing"} /\ mode' = [mode EXCEPT ![r] = "undoing"]
              \/ mode[r] = "undoing" /\ Held(r) = {} /\ mode' = [mode EXCEPT ![r] = "gone"]
      BY <2>2, StageSteps
    <3>2. mode \in [Runs -> {"apply", "undo", "undoing", "gone"}]
      BY DEF TypeInv, TypeOK
    <3>3. CASE RequestRollback(r)
      BY <2>2, <3>2, <3>3 DEF RequestRollback, Lives!vars
    <3>4. CASE mode[r] = "undo" /\ mode' = [mode EXCEPT ![r] = "undoing"]
      <4>1. Lives!BeginUndo(r)
        BY <2>2, <3>2, <3>4 DEF Lives!BeginUndo
      <4>. QED
        BY <4>1 DEF Lives!Next
    <3>5. CASE mode[r] = "undoing" /\ mode' = [mode EXCEPT ![r] = "undoing"]
      BY <2>2, <3>2, <3>5
    <3>6. CASE mode[r] = "undoing" /\ Held(r) = {} /\ mode' = [mode EXCEPT ![r] = "gone"]
      <4>1. Lives!EndUndo(r)
        BY <2>2, <3>2, <3>6 DEF Lives!EndUndo, Held
      <4>. QED
        BY <4>1 DEF Lives!Next
    <3>. QED
      BY <3>1, <3>3, <3>4, <3>5, <3>6
  <2>3. ASSUME NEW k \in Keys, Abandoned(ledger[k]), Closes(k), mode' = mode
        PROVE  UNCHANGED Lives!vars
    BY <2>3, ClosingKeepsHeld DEF Lives!vars, Held
  <2>4. GivenUpWhenUnused
    BY DEF ProvisionInv
  <2>. QED
    BY <2>1, <2>2, <2>3, <2>4, NextIsEntryStep, RecordingAcquires, LeavingReleases DEF EntryStep
<1>. QED
  BY <1>1, <1>2, ProvisionIsSound, PTL DEF Spec, KeepsRunSpec, Lives!Spec

-----------------------------------------------------------------------------
(* What users of a resource can count on. *)

\* The rollback of the run has not begun.
Stands(r) == mode[r] \in {"apply", "undo"}

\* A step stops to count as Succeeded only when its run is rolled back.
LEMMA ReadyStays ==
    ASSUME [Next]_vars, ready' # ready
    PROVE  \E r \in Runs : \/ Succeed(r)
                           \/ EndRollback(r) /\ (ready' = ready \/ ready' = {t \in ready : RunOf[t] # r})
<1>1. ASSUME NEW p PROVE ~Undo(p)
  BY DEF Undo, List, DeleteUpstream, Finish, EndSweep, SweepNext, Release
<1>2. ~Sweep /\ ~Faults
  BY <1>1 DEF Sweep, StartSweep, Faults, EnsureFails, ItemFails, ListFails, ReleaseFails, Crash
<1>3. ~UNCHANGED vars /\ ~EditConfig
  BY DEF vars, EditConfig
<1>4. \A k \in Keys : ~PersonCreates(k) /\ ~PersonDeletes(k) /\ ~ForgeBuilds(k)
  BY DEF PersonCreates, PersonDeletes, ForgeBuilds
<1>5. ASSUME NEW r \in Runs, Rollback(r) \/ RequestRollback(r)
      PROVE  EndRollback(r) /\ (ready' = ready \/ ready' = {t \in ready : RunOf[t] # r})
  <2>1. EndRollback(r)
    BY <1>1, <1>5 DEF Rollback, RequestRollback, StartRollback
  <2>. QED
    BY <2>1 DEF EndRollback
<1>6. ASSUME NEW r \in Runs, Ensure(r) PROVE Succeed(r)
  BY <1>6 DEF Ensure, StartEnsure, ReadEntry, ReadUpstream, RecordNew, RecordJoin, Create, Effect,
     RecordId, Repoint
<1>. QED
  BY <1>2, <1>3, <1>4, <1>5, <1>6 DEF Next

\* A step is recorded as Succeeded only when it is done.
LEMMA ReadySteps ==
    ASSUME [Next]_vars, NEW t \in ready' \ ready
    PROVE  \E r \in Runs : Succeed(r) /\ At(r, "done") /\ t = task[r].step
<1>1. PICK r \in Runs : \/ Succeed(r)
                        \/ EndRollback(r) /\ (ready' = ready \/ ready' = {s \in ready : RunOf[s] # r})
  BY ReadyStays
<1>2. Succeed(r)
  BY <1>1
<1>. QED
  BY <1>2 DEF Succeed

\* A run whose rollback has begun never stands again.
LEMMA StoodBefore ==
    ASSUME TypeInv, ProvisionInv, [Next]_vars, NEW r \in Runs
    PROVE  /\ mode'[r] = "apply" => mode[r] = "apply"
           /\ Stands(r)' => Stands(r)
<1>1. CASE mode' = mode
  BY <1>1 DEF Stands
<1>2. CASE mode' # mode
  <2>1. ledger' = ledger
    BY <1>2, NextIsEntryStep DEF EntryStep
  <2>2. mode \in [Runs -> {"apply", "undo", "undoing", "gone"}]
    BY DEF TypeInv, TypeOK
  <2>. QED
    BY <1>2, <2>1, <2>2, StageSteps DEF RequestRollback, Stands
<1>. QED
  BY <1>1, <1>2

\* Whatever the others do, a run that stands stays recorded.
LEMMA StaysRecorded ==
    ASSUME TypeInv, ProvisionInv, [Next]_vars, NEW t \in Steps, IsRecorded(t), Stands(RunOf[t])
    PROVE  IsRecorded(t)'
<1>1. GivenUpWhenUnused /\ \A s \in Steps : RunOf[s] \in Runs
  BY ProvisionAssumption DEF ProvisionInv
<1>2. CASE ledger' = ledger
  BY <1>2 DEF IsRecorded
<1>3. ASSUME NEW s \in Steps, NEW m \in BOOLEAN, Opens(s, m) \/ Joins(s, m) PROVE IsRecorded(t)'
  BY <1>1, <1>3, OpensIsHarmless
<1>4. ASSUME NEW s \in Steps, mode[RunOf[s]] = "undoing", IsRecorded(s), Leaves(KeyOf[s], s)
      PROVE  IsRecorded(t)'
  <2>1. s # t
    BY <1>4 DEF Stands
  <2>. QED
    BY <1>1, <1>4, <2>1, LeavesIsHarmless
<1>5. ASSUME NEW k \in Keys, Abandoned(ledger[k]), Closes(k) PROVE IsRecorded(t)'
  <2>1. KeyOf[t] \in Keys \ {k}
    BY <1>5, ProvisionAssumption DEF IsRecorded, Abandoned
  <2>2. ledger'[KeyOf[t]] = ledger[KeyOf[t]]
    BY <1>5, <2>1, LedgerChange DEF Closes, TypeInv
  <2>. QED
    BY <2>2 DEF IsRecorded
<1>. QED
  BY <1>2, <1>3, <1>4, <1>5, NextIsEntryStep DEF EntryStep

\* A step whose run's rollback has not begun and that was recorded as Succeeded
\* is still on record as a user of its resource, whatever other runs release and
\* sweep in between (rollback.go:39-43).
UsersRecorded == \A t \in ready : Stands(RunOf[t]) => IsRecorded(t)

LEMMA UsersStep ==
    ASSUME TypeInv, ProvisionInv, UsersRecorded, [Next]_vars
    PROVE  UsersRecorded'
<1>. SUFFICES ASSUME NEW t \in ready', Stands(RunOf[t])'
              PROVE  IsRecorded(t)'
  BY DEF UsersRecorded
<1>1. (t \in Steps /\ IsRecorded(t)) \/ t \in ready
  <2>1. ASSUME NEW r \in Runs, At(r, "done"), t = task[r].step PROVE t \in Steps /\ IsRecorded(t)
    <3>1. r \in Procs /\ "done" \in EnsureAt
      BY DEF Procs, EnsureAt
    <3>2. t \in Steps
      BY <2>1, <3>1, EnsureFacts
    <3>3. RecordsFirst(r)
      BY <3>1 DEF ProvisionInv, Sound
    <3>. QED
      BY <2>1, <3>2, <3>3 DEF RecordsFirst, At
  <2>. QED
    BY <2>1, ReadySteps
<1>2. t \in Steps
  BY <1>1 DEF TypeInv, TypeOK
<1>3. Stands(RunOf[t])
  BY <1>2, StoodBefore, ProvisionAssumption
<1>4. IsRecorded(t)
  BY <1>1, <1>3 DEF UsersRecorded
<1>. QED
  BY <1>2, <1>3, <1>4, StaysRecorded

\* A step that succeeded stays on record as a user of its resource until the rollback
\* of its own run begins, whatever the other runs, their rollbacks and the sweeper do
\* in between (rollback.go:39-43).
THEOREM UsersStayRecorded == Orderly => (Spec => []UsersRecorded)
<1>. SUFFICES ASSUME Orderly PROVE Spec => []UsersRecorded
  OBVIOUS
<1>1. Init => UsersRecorded
  BY DEF Init, UsersRecorded
<1>2. TypeInv /\ ProvisionInv /\ UsersRecorded /\ [Next]_vars => UsersRecorded'
  BY UsersStep
<1>. QED
  BY <1>1, <1>2, ProvisionIsSound, PTL DEF Spec

\* A goroutine that works on a step has just started it, or worked on it before.
LEMMA WorksOn ==
    ASSUME TypeInv, [Next]_vars, NEW r \in Runs, task'[r] \in Applying
    PROVE  \/ task[r] \in Applying /\ task[r] # Idle /\ KeepsStep(r)
           \/ \E t \in Steps : StartEnsure(r, t) /\ t = task'[r].step
<1>1. r \in Procs /\ TypeOK /\ task'[r] # Idle
  BY MarkersAreDistinct DEF Procs, TypeInv
<1>2. CASE task'[r] = task[r]
  BY <1>1, <1>2 DEF KeepsStep
<1>3. ASSUME task'[r] # task[r], ~\E t \in Steps : StartEnsure(r, t)
      PROVE  task[r] \in Applying /\ task[r] # Idle /\ KeepsStep(r)
  <2>1. Ensure(r)
    BY <1>1, <1>3, WhoMoves DEF Applying, Undoing, EnsureAt
  <2>2. ~Succeed(r)
    BY <1>1, StopMoves DEF Succeed
  <2>3. GoesOn(r)
    BY <1>3, <2>1, <2>2, ReadEntryDoes, ReadUpstreamDoes, RecordNewDoes, RecordJoinDoes, CreateDoes,
       EffectDoes, RecordIdDoes, RepointDoes DEF Ensure
  <2>4. \A w \in Applying : w \notin Undoing
    BY DEF Applying, Undoing, EnsureAt
  <2>. QED
    BY <1>1, <2>3, <2>4, MarkersAreDistinct DEF GoesOn
<1>4. ASSUME NEW t \in Steps, StartEnsure(r, t) PROVE t = task'[r].step
  BY <1>4, StartEnsureDoes
<1>. QED
  BY <1>2, <1>3, <1>4

\* A tag is set only by runs that waited for the artifact and still count on it.
IsClaimed(t) == \E s \in After[t] : s \in ready /\ KeyOf[s] = ArtifactOf[KeyOf[t]]
TagsAreClaimed ==
    \A t \in Steps :
        KindOf[KeyOf[t]] = "tag" /\ (t \in ready \/ \E r \in Runs : task[r] \in Applying /\ task[r].step = t)
            => IsClaimed(t)

LEMMA ClaimedFirst ==
    ASSUME TypeInv, TagsAreClaimed, [Next]_vars
    PROVE  TagsAreClaimed'
<1>. SUFFICES ASSUME NEW t \in Steps, KindOf[KeyOf[t]] = "tag",
                     t \in ready' \/ \E r \in Runs : task'[r] \in Applying /\ task'[r].step = t
              PROVE  IsClaimed(t)'
  BY DEF TagsAreClaimed
<1>1. TypeInv' /\ Runs \subseteq Procs
  BY TypeStep DEF Procs
<1>2. IsClaimed(t)
  <2>1. CASE t \in ready' \ ready
    <3>1. PICK r \in Runs : At(r, "done") /\ t = task[r].step
      BY <2>1, ReadySteps
    <3>2. task[r] \in Applying
      BY <1>1, <3>1, EnsureFacts DEF EnsureAt
    <3>. QED
      BY <3>1, <3>2 DEF TagsAreClaimed
  <2>2. ASSUME NEW r \in Runs, task'[r] \in Applying, task'[r].step = t PROVE IsClaimed(t)
    <3>1. CASE task[r] \in Applying /\ KeepsStep(r)
      BY <2>2, <3>1 DEF TagsAreClaimed, KeepsStep
    <3>2. CASE StartEnsure(r, t)
      <4>1. After[t] \subseteq ready /\ \E id \in Targets(t) : TRUE
        BY <3>2 DEF StartEnsure
      <4>. QED
        BY <4>1 DEF Targets, IsClaimed
    <3>. QED
      BY <2>2, <3>1, <3>2, WorksOn
  <2>. QED
    BY <2>1, <2>2 DEF TagsAreClaimed
<1>3. PICK s \in After[t] : s \in ready /\ KeyOf[s] = ArtifactOf[KeyOf[t]]
  BY <1>2 DEF IsClaimed
<1>4. ASSUME s \notin ready' PROVE FALSE
  <2>1. PICK r \in Runs : EndRollback(r) /\ ready' = {u \in ready : RunOf[u] # r} /\ RunOf[s] = r
    BY <1>3, <1>4, ReadyStays DEF Succeed
  <2>2. RunOf[t] = r
    BY <1>3, <2>1, ProvisionAssumption
  <2>3. task'[r] = Idle
    BY <1>1, <2>1, StopMoves DEF EndRollback, TypeInv
  <2>4. PICK q \in Runs : task'[q] \in Applying /\ task'[q].step = t
    BY <2>1, <2>2
  <2>5. RunOf[t] = q
    BY <1>1, <2>4, MarkersAreDistinct DEF TypeInv, KnowsItsPlace, KnowsPlace, Applying
  <2>. QED
    BY <2>2, <2>3, <2>4, <2>5, MarkersAreDistinct
<1>. QED
  BY <1>3, <1>4 DEF IsClaimed

LEMMA ClaimedInit == Init => TagsAreClaimed
<1>. SUFFICES ASSUME Init PROVE TagsAreClaimed
  OBVIOUS
<1>1. ready = {} /\ \A r \in Runs : task[r] = Idle
  BY DEF Init
<1>. QED
  BY <1>1, MarkersAreDistinct DEF TagsAreClaimed

\* Only deleteUpstream removes a resource for the wizard.
LEMMA WizardDeletes ==
    ASSUME TypeInv, [Next]_vars, NEW p \in Procs, NEW k \in Keys, Deletes(p, k)
    PROVE  DeleteUpstream(p) /\ GoesWith(k, task[p].item.key)
<1>1. At(p, "delete") /\ task'[p] # task[p] /\ upstream[k] # Absent /\ upstream'[k] = Absent
  BY DEF Deletes
<1>2. ASSUME NEW l PROVE ~PersonDeletes(l) /\ ~PersonCreates(l) /\ ~ForgeBuilds(l)
  BY <1>1 DEF PersonDeletes, PersonCreates, ForgeBuilds
<1>3. \E q \in Procs : DeleteUpstream(q) /\ GoesWith(k, task[q].item.key)
  <2>1. upstream'[k] # upstream[k] /\ upstream'[k] \notin Resource
    BY <1>1, MarkersAreDistinct
  <2>2. \A r \in Runs : ~SetBy(r, k)
    BY <2>1 DEF SetBy
  <2>. QED
    BY <1>2, <2>1, <2>2, ResourceSteps
<1>4. PICK q \in Procs : DeleteUpstream(q) /\ GoesWith(k, task[q].item.key)
  BY <1>3
<1>5. q = p
  BY <1>1, <1>4, DeleteUpstreamDoes DEF GoesOn, OnlyMoves, TypeInv, TypeOK, Procs
<1>. QED
  BY <1>4, <1>5

\* What deleteUpstream works on is out of use, and the wizard's to delete.
LEMMA DeletedIsClaimed ==
    ASSUME TypeInv, ProvisionInv, NEW p \in Procs, DeleteUpstream(p)
    PROVE  /\ task[p].item.key \in Keys /\ task[p].item.key \in Claims(p)
           /\ task[p].item.entry = ledger[task[p].item.key]
           /\ Abandoned(ledger[task[p].item.key]) /\ ledger[task[p].item.key].managed
<1>1. At(p, "delete") /\ IsDeleting(p) /\ task[p].item.key \in Claims(p)
  BY DEF DeleteUpstream, IsDeleting, Claims
<1>2. KnowsItsClaims(p)
  BY DEF ProvisionInv, Sound
<1>. QED
  BY <1>1, <1>2 DEF KnowsItsClaims, At, Item

\* What is deleted is used by no step that stands, nor is what goes with it.
LEMMA InUseIsSpared ==
    ASSUME TypeInv, ProvisionInv, UsersRecorded, TagsAreClaimed, NEW p \in Procs, DeleteUpstream(p),
           NEW t \in ready, Stands(RunOf[t])
    PROVE  ~GoesWith(KeyOf[t], task[p].item.key)
<1>1. t \in Steps /\ Abandoned(ledger[task[p].item.key])
  BY DeletedIsClaimed DEF TypeInv, TypeOK
<1>2. \A s \in ready : Stands(RunOf[s]) => KeyOf[s] # task[p].item.key
  BY <1>1 DEF UsersRecorded, IsRecorded, Abandoned
<1>3. ASSUME KindOf[KeyOf[t]] = "tag" PROVE ArtifactOf[KeyOf[t]] # task[p].item.key
  <2>1. PICK s \in After[t] : s \in ready /\ KeyOf[s] = ArtifactOf[KeyOf[t]]
    BY <1>1, <1>3 DEF TagsAreClaimed, IsClaimed
  <2>2. RunOf[s] = RunOf[t]
    BY <1>1, ProvisionAssumption
  <2>. QED
    BY <1>2, <2>1, <2>2
<1>. QED
  BY <1>2, <1>3 DEF GoesWith

\* The wizard deletes nothing that a succeeded step of a run uses that was not asked to
\* roll back, nor the artifact under a tag that such a step set: not even when the last
\* user leaves while another run is about to join, or a sweep took the entry over from a
\* rollback that failed (rollback.go:39-43, 79-81; index.go:94-97).
THEOREM InUseIsKept == Orderly => (Spec => NeverDeletesInUse)
<1>. SUFFICES ASSUME Orderly PROVE Spec => NeverDeletesInUse
  OBVIOUS
<1> DEFINE A == \A k \in Keys : DeletedByWizard(k) =>
                    \A t \in ready : KeyOf[t] = k => mode[RunOf[t]] # "apply"
<1>1. TypeInv /\ ProvisionInv /\ UsersRecorded /\ TagsAreClaimed /\ [Next]_vars => A
  <2>. SUFFICES ASSUME TypeInv, ProvisionInv, UsersRecorded, TagsAreClaimed, [Next]_vars,
                       NEW k \in Keys, DeletedByWizard(k), NEW t \in ready, KeyOf[t] = k,
                       mode[RunOf[t]] = "apply"
                PROVE  FALSE
    OBVIOUS
  <2>1. PICK p \in Procs : Deletes(p, k)
    BY DEF DeletedByWizard, Procs
  <2>2. DeleteUpstream(p) /\ GoesWith(k, task[p].item.key)
    BY <2>1, WizardDeletes
  <2>. QED
    BY <2>2, InUseIsSpared DEF Stands
<1>2. TypeInv /\ ProvisionInv /\ UsersRecorded /\ TagsAreClaimed /\ [Next]_vars => [A]_vars
  BY <1>1
<1>3. TypeInv /\ TagsAreClaimed /\ [Next]_vars => TagsAreClaimed'
  BY ClaimedFirst
<1>. QED
  BY <1>2, <1>3, ClaimedInit, ProvisionIsSound, UsersStayRecorded, PTL DEF Spec, NeverDeletesInUse
=============================================================================
