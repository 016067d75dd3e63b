------------------------------- MODULE Ledger -------------------------------
(***************************************************************************)
(* The resource ledger (src/internal/ledger/ledger.go): one WizardResource *)
(* object per upstream resource, shared by every run that uses it.  Each   *)
(* caller is a goroutine that calls the package: the rollback and apply of *)
(* one run, or the periodic sweeper.  Every call is split at its API       *)
(* requests, so the calls of different callers interleave between a read   *)
(* and the update computed from it.                                        *)
(*                                                                         *)
(* Reads go through the manager's client, whose cache may trail the API    *)
(* server (src/cmd/main.go:76 passes mgr.GetClient()); writes go to the    *)
(* API server, which accepts an update only for the version it was         *)
(* computed from.                                                          *)
(***************************************************************************)
EXTENDS Integers

CONSTANTS Callers,       \* goroutines calling the ledger
          Keys,          \* upstream resources, one entry each
          Refs,          \* references, one (run, step) pair each
          Owner,         \* [Refs -> Callers]: a run is reconciled by one goroutine at a time
          Ids, NoId,     \* upstream IDs; NoId is the empty string
          NoEntry,       \* no object under the key
          NoRef,         \* the reference of a call that has none
          Idle,          \* a caller outside every call
          Steps,         \* conflictBackoff.Steps: tries of an optimistic update
          MaxVersion,    \* bound on resource versions, for model checking
          CacheMayLag,   \* reads may return an older state than the API server's
          SweepOverlaps  \* a sweep may list entries while another caller deletes one

Entry == [version: Nat, managed: BOOLEAN, externalID: Ids \cup {NoId},
          refs: SUBSET Refs, terminating: BOOLEAN]

Call == [op: {"AddRef", "Release", "Finish"}, pc: {"read", "update", "delete"},
         key: Keys, ref: Refs \cup {NoRef}, manage: BOOLEAN,
         externalID: Ids \cup {NoId}, obj: Entry \cup {NoEntry}, tries: Nat]

ASSUME LedgerAssumption ==
    /\ Owner \in [Refs -> Callers]
    /\ Steps \in Nat \ {0}
    /\ MaxVersion \in Nat
    /\ CacheMayLag \in BOOLEAN
    /\ SweepOverlaps \in BOOLEAN
    /\ NoId \notin Ids
    /\ NoRef \notin Refs
    /\ NoEntry \notin Entry
    /\ Idle \notin Call

VARIABLES entries,  \* the API server's objects
          cache,    \* the state of the objects the client's reads return
          version,  \* the last resourceVersion the API server issued
          calls,    \* the call each caller is in, or Idle
          pending,  \* per caller: entries it is to Finish
          toDelete, \* per caller: those of them whose resource it is to delete first
          held      \* per key: references whose owner was told they are recorded

vars == <<entries, cache, version, calls, pending, toDelete, held>>

\* A call in progress: Finish only deletes, the others work on a reference, and
\* an update has an object to store.
CallsOK ==
    /\ calls \in [Callers -> Call \cup {Idle}]
    /\ \A c \in Callers : calls[c] # Idle =>
          /\ calls[c].op = "Finish" => calls[c].pc = "delete"
          /\ calls[c].op # "Finish" => calls[c].ref \in Refs
          /\ calls[c].pc = "update" => calls[c].obj # NoEntry

\* Every variable has its type, and every call the shape CallsOK names.
TypeOK ==
    /\ entries \in [Keys -> Entry \cup {NoEntry}]
    /\ cache \in [Keys -> Entry \cup {NoEntry}]
    /\ version \in Nat
    /\ CallsOK
    /\ pending \in [Callers -> SUBSET Keys]
    /\ toDelete \in [Callers -> SUBSET Keys]
    /\ held \in [Keys -> SUBSET Refs]

Init ==
    /\ entries = [k \in Keys |-> NoEntry]
    /\ cache = [k \in Keys |-> NoEntry]
    /\ version = 0
    /\ calls = [c \in Callers |-> Idle]
    /\ pending = [c \in Callers |-> {}]
    /\ toDelete = [c \in Callers |-> {}]
    /\ held = [k \in Keys |-> {}]

-----------------------------------------------------------------------------
(* The contents of entries. *)

NewEntry(ref, manage, id) ==
    [version |-> version + 1, managed |-> manage, externalID |-> id,
     refs |-> {ref}, terminating |-> FALSE]

\* The entry AddRef wants to store.
WithRef(e, ref, manage, id) ==
    [e EXCEPT !.refs = @ \cup {ref},
              !.managed = @ \/ manage,
              !.externalID = IF id = NoId THEN @ ELSE id]

\* (mutant) Release drops the reference and leaves the entry joinable.
WithoutRefUnmarked(e, ref) == [e EXCEPT !.refs = @ \ {ref}]

\* The entry Release wants to store: dropping the last reference marks it in
\* the same update.
WithoutRef(e, ref) ==
    [e EXCEPT !.refs = @ \ {ref},
              !.terminating = @ \/ e.refs \subseteq {ref}]

\* (mutant) AddRef does not look at the terminating mark.
JoinableAlways(e) == e # NoEntry

\* ErrTerminating: nobody joins an entry that is being deleted.
Joinable(e) == e # NoEntry /\ ~e.terminating

\* An entry with nobody left who is responsible for it.
Abandoned(e) == e # NoEntry /\ e.terminating /\ e.refs = {}

-----------------------------------------------------------------------------
(* The API server and the client's cache. *)

Publish == cache' = IF CacheMayLag THEN cache ELSE entries'

Store(k, e) ==
    /\ version < MaxVersion
    /\ version' = version + 1
    /\ entries' = [entries EXCEPT ![k] = [e EXCEPT !.version = version + 1]]
    /\ Publish

Remove(k) ==
    /\ entries' = [entries EXCEPT ![k] = NoEntry]
    /\ Publish
    /\ UNCHANGED version

NoWrite == UNCHANGED <<entries, cache, version>>

\* (mutant) The last writer wins.
CurrentAlways(k, e) == entries[k] # NoEntry

\* The optimistic-concurrency check of an update.
Current(k, e) == entries[k] # NoEntry /\ entries[k].version = e.version

\* The watch delivers what was written so far.
Sync ==
    /\ CacheMayLag
    /\ cache # entries
    /\ cache' = entries
    /\ UNCHANGED <<entries, version, calls, pending, toDelete, held>>

-----------------------------------------------------------------------------
(* Calls. *)

Free(c) == calls[c] = Idle /\ pending[c] = {}

InCall(c, pc) == calls[c] # Idle /\ calls[c].pc = pc

Begin(c, op, k, r, manage, id) ==
    calls' = [calls EXCEPT ![c] =
        [op |-> op, pc |-> "read", key |-> k, ref |-> r, manage |-> manage,
         externalID |-> id, obj |-> NoEntry, tries |-> 0]]

\* (mutant) The object read is forgotten before the update.
GotoForgetting(c, pc, obj) == calls' = [calls EXCEPT ![c].pc = pc]

Goto(c, pc, obj) ==
    calls' = [calls EXCEPT ![c].pc = pc, ![c].obj = obj]

Return(c) == calls' = [calls EXCEPT ![c] = Idle]

Hold(k, r) == held' = [held EXCEPT ![k] = @ \cup {r}]

\* Register: one create request.  ErrExists leaves everything as it is.  The
\* answer may be lost, and then the owner does not know of its reference.
Register(c, k, r, manage, id) ==
    /\ Free(c)
    /\ Owner[r] = c
    /\ entries[k] = NoEntry
    /\ Store(k, NewEntry(r, manage, id))
    /\ Hold(k, r) \/ UNCHANGED held
    /\ UNCHANGED <<calls, pending, toDelete>>

CallAddRef(c, k, r, manage, id) ==
    /\ Free(c)
    /\ Owner[r] = c
    /\ Begin(c, "AddRef", k, r, manage, id)
    /\ NoWrite
    /\ UNCHANGED <<pending, toDelete, held>>

\* A rollback releases the references it listed in the ledger.
CallRelease(c, k, r) ==
    /\ Free(c)
    /\ Owner[r] = c
    /\ cache[k] # NoEntry
    /\ r \in cache[k].refs
    /\ Begin(c, "Release", k, r, FALSE, NoId)
    /\ held' = [held EXCEPT ![k] = @ \ {r}]
    /\ NoWrite
    /\ UNCHANGED <<pending, toDelete>>

\* One pass of AddRef's retry loop up to its update: an absent or terminating
\* entry ends the call, and so does one that needs no change.
AddRefRead(c) ==
    LET call == calls[c]
        e == cache[call.key]
        new == WithRef(e, call.ref, call.manage, call.externalID)
    IN  /\ InCall(c, "read") /\ call.op = "AddRef"
        /\ \/ /\ ~Joinable(e)
              /\ Return(c)
              /\ UNCHANGED held
           \/ /\ Joinable(e) /\ new = e
              /\ Return(c)
              /\ Hold(call.key, call.ref)
           \/ /\ Joinable(e) /\ new # e
              /\ Goto(c, "update", new)
              /\ UNCHANGED held
        /\ NoWrite
        /\ UNCHANGED <<pending, toDelete>>

\* (mutant) A managed resource is deleted whoever else uses it.
ReleasedAtOnce(c, e) ==
    \/ /\ ~e.managed
       /\ Goto(c, "delete", e)
       /\ UNCHANGED <<pending, toDelete>>
    \/ /\ e.managed
       /\ Return(c)
       /\ pending' = [pending EXCEPT ![c] = {calls[c].key}]
       /\ toDelete' = [toDelete EXCEPT ![c] = {calls[c].key}]

\* What Release answers once the entry e is stored: OutcomeShared,
\* OutcomeDelete (the caller must delete the resource and Finish), or the
\* removal of an unmanaged resource's entry.
Released(c, e) ==
    \/ /\ e.refs # {}
       /\ Return(c)
       /\ UNCHANGED <<pending, toDelete>>
    \/ /\ e.refs = {} /\ e.managed
       /\ Return(c)
       /\ pending' = [pending EXCEPT ![c] = {calls[c].key}]
       /\ toDelete' = [toDelete EXCEPT ![c] = {calls[c].key}]
    \/ /\ e.refs = {} /\ ~e.managed
       /\ Goto(c, "delete", e)
       /\ UNCHANGED <<pending, toDelete>>

\* One pass of Release's retry loop up to its update; no entry is OutcomeGone.
ReleaseRead(c) ==
    LET call == calls[c]
        e == cache[call.key]
        new == WithoutRef(e, call.ref)
    IN  /\ InCall(c, "read") /\ call.op = "Release"
        /\ \/ /\ e = NoEntry
              /\ Return(c)
              /\ UNCHANGED <<pending, toDelete>>
           \/ /\ e # NoEntry /\ new = e
              /\ Released(c, e)
           \/ /\ e # NoEntry /\ new # e
              /\ Goto(c, "update", new)
              /\ UNCHANGED <<pending, toDelete>>
        /\ NoWrite
        /\ UNCHANGED held

\* The update is accepted, and its answer arrives.
Updated(c) ==
    LET call == calls[c]
    IN  /\ InCall(c, "update")
        /\ Current(call.key, call.obj)
        /\ Store(call.key, call.obj)
        /\ \/ /\ call.op = "AddRef"
              /\ Return(c)
              /\ Hold(call.key, call.ref)
              /\ UNCHANGED <<pending, toDelete>>
           \/ /\ call.op = "Release"
              /\ Released(c, call.obj)
              /\ UNCHANGED held

\* The update is accepted, but the caller sees an error or is gone.
UpdatedUnanswered(c) ==
    /\ InCall(c, "update")
    /\ Current(calls[c].key, calls[c].obj)
    /\ Store(calls[c].key, calls[c].obj)
    /\ Return(c)
    /\ UNCHANGED <<pending, toDelete, held>>

\* A conflict: RetryOnConflict runs the pass again until Steps are used up.
Conflict(c) ==
    LET call == calls[c]
    IN  /\ InCall(c, "update")
        /\ entries[call.key] # NoEntry
        /\ ~Current(call.key, call.obj)
        /\ IF call.tries + 1 < Steps
             THEN calls' = [calls EXCEPT ![c].pc = "read", ![c].obj = NoEntry,
                                         ![c].tries = @ + 1]
             ELSE Return(c)
        /\ NoWrite
        /\ UNCHANGED <<pending, toDelete, held>>

\* The object went away under the update: not a conflict, the call fails.
UpdateNotFound(c) ==
    /\ InCall(c, "update")
    /\ entries[calls[c].key] = NoEntry
    /\ Return(c)
    /\ NoWrite
    /\ UNCHANGED <<pending, toDelete, held>>

\* The delete request that ends Release of an unmanaged resource, and Finish.
\* It names the object and carries no precondition.
Delete(c) ==
    /\ InCall(c, "delete")
    /\ Remove(calls[c].key)
    /\ pending' = [pending EXCEPT ![c] = @ \ {calls[c].key}]
    /\ toDelete' = [toDelete EXCEPT ![c] = @ \ {calls[c].key}]
    /\ Return(c)
    /\ UNCHANGED held

\* A caller that may be about to delete an entry.
Deleting(c) == pending[c] # {} \/ InCall(c, "delete")

\* SweepTerminating lists the entries whose deletion was interrupted and takes
\* them over, one List for all of them.  Only what the listed entry says is
\* managed is deleted upstream; an unmanaged one is just finished.
Sweep(c) ==
    LET abandoned == {k \in Keys : Abandoned(cache[k])}
    IN  /\ Free(c)
        /\ abandoned # {}
        /\ SweepOverlaps \/ \A d \in Callers : ~Deleting(d)
        /\ pending' = [pending EXCEPT ![c] = abandoned]
        /\ toDelete' = [toDelete EXCEPT ![c] = {k \in abandoned : cache[k].managed}]
        /\ NoWrite
        /\ UNCHANGED <<calls, held>>

\* Finish reads the entry, for a managed resource after the upstream delete;
\* nothing there, all done.
FinishRead(c, k) ==
    /\ calls[c] = Idle
    /\ k \in pending[c]
    /\ \/ /\ cache[k] = NoEntry
          /\ pending' = [pending EXCEPT ![c] = @ \ {k}]
          /\ toDelete' = [toDelete EXCEPT ![c] = @ \ {k}]
          /\ UNCHANGED calls
       \/ /\ cache[k] # NoEntry
          /\ calls' = [calls EXCEPT ![c] =
                 [op |-> "Finish", pc |-> "delete", key |-> k, ref |-> NoRef,
                  manage |-> FALSE, externalID |-> NoId, obj |-> cache[k], tries |-> 0]]
          /\ UNCHANGED <<pending, toDelete>>
    /\ NoWrite
    /\ UNCHANGED held

\* The upstream delete fails, or the read of Finish: the entry stays, and the
\* sweep goes on with the next.
DeleteFails(c, k) ==
    /\ calls[c] = Idle
    /\ k \in pending[c]
    /\ pending' = [pending EXCEPT ![c] = @ \ {k}]
    /\ toDelete' = [toDelete EXCEPT ![c] = @ \ {k}]
    /\ NoWrite
    /\ UNCHANGED <<calls, held>>

\* A request fails or the process dies: the call is over, its effects stay.
Abort(c) ==
    /\ ~Free(c)
    /\ Return(c)
    /\ pending' = [pending EXCEPT ![c] = {}]
    /\ toDelete' = [toDelete EXCEPT ![c] = {}]
    /\ NoWrite
    /\ UNCHANGED held

Next ==
    \/ Sync
    \/ \E c \in Callers :
        \/ \E k \in Keys, r \in Refs, manage \in BOOLEAN, id \in Ids \cup {NoId} :
              Register(c, k, r, manage, id) \/ CallAddRef(c, k, r, manage, id)
        \/ \E k \in Keys, r \in Refs : CallRelease(c, k, r)
        \/ \E k \in Keys : FinishRead(c, k) \/ DeleteFails(c, k)
        \/ AddRefRead(c) \/ ReleaseRead(c)
        \/ Updated(c) \/ UpdatedUnanswered(c) \/ Conflict(c) \/ UpdateNotFound(c)
        \/ Delete(c) \/ Sweep(c) \/ Abort(c)

Spec == Init /\ [][Next]_vars

-----------------------------------------------------------------------------
(* Properties. *)

\* A terminating entry has no references: the mark is set only together with
\* the removal of the last one, and no interleaving of AddRef and Release adds
\* one after it (ledger.go:186-198 and 254-262).
TerminatingHasNoRefs ==
    \A k \in Keys : entries[k] # NoEntry /\ entries[k].terminating => entries[k].refs = {}

\* A reference its owner was told of is recorded until the owner releases it:
\* concurrent updates of the same entry lose nothing (ledger.go:4-7).
HeldIsRecorded ==
    \A k \in Keys : held[k] # {} => entries[k] # NoEntry /\ held[k] \subseteq entries[k].refs

\* While some caller is to delete a resource, nobody was told that it may use
\* it: an adopter never latches onto a resource that is halfway through
\* deletion (ledger.go:9-12).
NeverDeletedInUse ==
    \A c \in Callers : \A k \in toDelete[c] : held[k] = {}

\* At most one caller is told to delete a resource (ledger_test.go:192,
\* TestConcurrentAddThenReleaseDeletesExactlyOnce).
OneDeleter ==
    \A c, d \in Callers : c # d => toDelete[c] \cap toDelete[d] = {}

-----------------------------------------------------------------------------
(* Why the properties hold: what is also true of every reachable state when *)
(* reads are current and deletions do not overlap.                          *)

\* Caller c is to delete the resource k and its entry, or is deleting the entry.
Deletes(c, k) == k \in pending[c] \/ (InCall(c, "delete") /\ calls[c].key = k)

\* Whoever deletes a resource finishes its entry afterwards.
FinishedAfterwards == \A c \in Callers : toDelete[c] \subseteq pending[c]

\* A caller works on its own references.
OwnCalls ==
    \A c \in Callers : calls[c] # Idle /\ calls[c].op # "Finish" => Owner[calls[c].ref] = c

\* The API server never issued a version later than the last.
VersionsIssued ==
    /\ \A k \in Keys : entries[k] # NoEntry => entries[k].version <= version
    /\ \A c \in Callers : InCall(c, "update") => calls[c].obj.version <= version

\* An update that would be accepted was computed from what is stored.
UpdatesAreFresh ==
    \A c \in Callers :
        InCall(c, "update") /\ Current(calls[c].key, calls[c].obj) =>
            LET call == calls[c]
                e == entries[call.key]
            IN  \/ /\ call.op = "AddRef"
                   /\ ~e.terminating
                   /\ call.obj = WithRef(e, call.ref, call.manage, call.externalID)
                \/ /\ call.op = "Release"
                   /\ call.obj = WithoutRef(e, call.ref)

\* A reference being released is recorded until the update is accepted.
ReleasedIsRecorded ==
    \A c \in Callers :
        calls[c] # Idle /\ calls[c].op = "Release" /\ calls[c].pc # "delete" =>
            /\ entries[calls[c].key] # NoEntry
            /\ calls[c].ref \in entries[calls[c].key].refs
            /\ calls[c].ref \notin held[calls[c].key]

\* Only a terminating entry is being deleted, and by one caller.
DeletionIsExclusive ==
    \A c \in Callers, k \in Keys :
        Deletes(c, k) =>
            /\ entries[k] # NoEntry
            /\ entries[k].terminating
            /\ \A d \in Callers : Deletes(d, k) => d = c

\* The inductive invariant behind HeldIsRecorded, NeverDeletedInUse, OneDeleter,
\* and the refinement of LedgerSpec.
SerialInv ==
    /\ cache = entries
    /\ OwnCalls
    /\ VersionsIssued
    /\ UpdatesAreFresh
    /\ ReleasedIsRecorded
    /\ DeletionIsExclusive
    /\ TerminatingHasNoRefs
    /\ HeldIsRecorded

-----------------------------------------------------------------------------
(* The ledger implements its contract. *)

Contract == INSTANCE LedgerSpec WITH
    state <- [k \in Keys |-> IF entries[k] = NoEntry THEN "absent"
                             ELSE IF entries[k].terminating THEN "terminating" ELSE "live"],
    users <- [k \in Keys |-> IF entries[k] = NoEntry THEN {} ELSE entries[k].refs],
    owned <- [k \in Keys |-> IF entries[k] = NoEntry THEN FALSE ELSE entries[k].managed]

\* The ledger implements LedgerSpec: with the versions, caches and retries
\* hidden, entries only do what the package comment promises (ledger.go:4-12).
ContractSpec == Contract!Spec
=============================================================================
