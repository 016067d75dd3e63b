---------------------------- MODULE LedgerProofs ----------------------------
(***************************************************************************)
(* What is proved of Ledger for any callers, keys, references and bounds.  *)
(* The theorems here hold however stale the cache is and however many      *)
(* deletions overlap; those of LedgerSerialProofs assume neither happens,  *)
(* and the run MCLedgerSweepAdopt shows that they need to.                 *)
(***************************************************************************)
EXTENDS Ledger, TLAPS

\* The steps of one caller, as one formula.
CallerStep(c) ==
    \/ \E k \in Keys, r \in Refs, manage \in BOOLEAN, id \in Ids \cup {NoId} :
          Register(c, k, r, manage, id) \/ CallAddRef(c, k, r, manage, id)
    \/ \E k \in Keys, r \in Refs : CallRelease(c, k, r)
    \/ \E k \in Keys : FinishRead(c, k) \/ DeleteFails(c, k)
    \/ AddRefRead(c) \/ ReleaseRead(c)
    \/ Updated(c) \/ UpdatedUnanswered(c) \/ Conflict(c) \/ UpdateNotFound(c)
    \/ Delete(c) \/ Sweep(c) \/ Abort(c)

\* An entry stays an entry whatever AddRef and Release make of it.
LEMMA WithRefType ==
    ASSUME NEW e \in Entry, NEW r \in Refs, NEW m \in BOOLEAN, NEW id \in Ids \cup {NoId}
    PROVE  WithRef(e, r, m, id) \in Entry
BY DEF WithRef, Entry

LEMMA WithoutRefType ==
    ASSUME NEW e \in Entry, NEW r
    PROVE  WithoutRef(e, r) \in Entry
BY DEF WithoutRef, Entry

\* Storing an entry keeps the types of the API server's state and the cache.
LEMMA StoreType ==
    ASSUME TypeOK, NEW k \in Keys, NEW e \in Entry, Store(k, e)
    PROVE  /\ entries' \in [Keys -> Entry \cup {NoEntry}]
           /\ cache' \in [Keys -> Entry \cup {NoEntry}]
           /\ version' \in Nat
<1>1. version' \in Nat /\ version + 1 \in Nat
  BY LedgerAssumption DEF TypeOK, Store
<1>2. [e EXCEPT !.version = version + 1] \in Entry
  BY <1>1 DEF Entry
<1>3. entries' \in [Keys -> Entry \cup {NoEntry}]
  BY <1>2 DEF TypeOK, Store
<1>. QED
  BY <1>1, <1>3 DEF Store, Publish, TypeOK

LEMMA RemoveType ==
    ASSUME TypeOK, NEW k \in Keys, Remove(k)
    PROVE  /\ entries' \in [Keys -> Entry \cup {NoEntry}]
           /\ cache' \in [Keys -> Entry \cup {NoEntry}]
           /\ version' \in Nat
BY DEF TypeOK, Remove, Publish

\* A caller that is not idle is in a call.
LEMMA CallType ==
    ASSUME TypeOK, NEW c \in Callers, calls[c] # Idle
    PROVE  calls[c] \in Call
BY DEF TypeOK, CallsOK

-----------------------------------------------------------------------------
(* How each way of moving a caller on keeps the type of calls. *)

LEMMA ReturnType ==
    ASSUME TypeOK, NEW c \in Callers, Return(c)
    PROVE  CallsOK'
BY LedgerAssumption DEF TypeOK, Return, CallsOK

LEMMA SetCallType ==
    ASSUME TypeOK, NEW c \in Callers, NEW call \in Call,
           calls' = [calls EXCEPT ![c] = call],
           call.op = "Finish" => call.pc = "delete",
           call.op # "Finish" => call.ref \in Refs,
           call.pc = "update" => call.obj # NoEntry
    PROVE  CallsOK'
BY DEF TypeOK, CallsOK

LEMMA GotoType ==
    ASSUME TypeOK, NEW c \in Callers, calls[c] # Idle, calls[c].op # "Finish",
           NEW pc \in {"read", "update", "delete"}, NEW e \in Entry, Goto(c, pc, e)
    PROVE  CallsOK'
<1> DEFINE call == [calls[c] EXCEPT !.pc = pc, !.obj = e]
<1>1. calls[c] \in Call /\ calls[c].ref \in Refs
  BY CallType DEF TypeOK, CallsOK
<1>2. call \in Call /\ call.op = calls[c].op /\ call.ref = calls[c].ref /\ call.obj = e
  BY <1>1 DEF Call
<1>3. calls' = [calls EXCEPT ![c] = call]
  BY DEF Goto, TypeOK, CallsOK
<1>4. e # NoEntry
  BY LedgerAssumption
<1>. HIDE DEF call
<1>. QED
  BY <1>1, <1>2, <1>3, <1>4, SetCallType

LEMMA BeginType ==
    ASSUME TypeOK, NEW c \in Callers, NEW op \in {"AddRef", "Release"},
           NEW k \in Keys, NEW r \in Refs, NEW m \in BOOLEAN, NEW id \in Ids \cup {NoId},
           Begin(c, op, k, r, m, id)
    PROVE  CallsOK'
<1> DEFINE call == [op |-> op, pc |-> "read", key |-> k, ref |-> r, manage |-> m,
                    externalID |-> id, obj |-> NoEntry, tries |-> 0]
<1>1. call \in Call
  BY DEF Call
<1>2. call.pc = "read" /\ call.op = op /\ call.ref = r
  OBVIOUS
<1>3. calls' = [calls EXCEPT ![c] = call]
  BY DEF Begin
<1>. HIDE DEF call
<1>. QED
  BY <1>1, <1>2, <1>3, SetCallType

-----------------------------------------------------------------------------
(* Type correctness, action by action. *)

LEMMA RegisterType ==
    ASSUME TypeOK, NEW c \in Callers, NEW k \in Keys, NEW r \in Refs,
           NEW m \in BOOLEAN, NEW id \in Ids \cup {NoId}, Register(c, k, r, m, id)
    PROVE  TypeOK'
<1>1. NewEntry(r, m, id) \in Entry
  BY DEF NewEntry, Entry, TypeOK
<1>2. Store(k, NewEntry(r, m, id))
  BY DEF Register
<1>3. /\ entries' \in [Keys -> Entry \cup {NoEntry}]
      /\ cache' \in [Keys -> Entry \cup {NoEntry}]
      /\ version' \in Nat
  BY <1>1, <1>2, StoreType
<1>4. held' \in [Keys -> SUBSET Refs]
  BY DEF Register, Hold, TypeOK
<1>. QED
  BY <1>3, <1>4 DEF Register, TypeOK, CallsOK

LEMMA CallAddRefType ==
    ASSUME TypeOK, NEW c \in Callers, NEW k \in Keys, NEW r \in Refs,
           NEW m \in BOOLEAN, NEW id \in Ids \cup {NoId}, CallAddRef(c, k, r, m, id)
    PROVE  TypeOK'
<1>1. CallsOK'
  BY BeginType DEF CallAddRef
<1>. QED
  BY <1>1 DEF CallAddRef, NoWrite, TypeOK

LEMMA CallReleaseType ==
    ASSUME TypeOK, NEW c \in Callers, NEW k \in Keys, NEW r \in Refs, CallRelease(c, k, r)
    PROVE  TypeOK'
<1>1. Begin(c, "Release", k, r, FALSE, NoId)
  BY DEF CallRelease
<1>2. CallsOK'
  BY <1>1, BeginType
<1>. QED
  BY <1>2 DEF CallRelease, NoWrite, TypeOK

LEMMA AddRefReadType ==
    ASSUME TypeOK, NEW c \in Callers, AddRefRead(c)
    PROVE  TypeOK'
<1> DEFINE call == calls[c]
           e == cache[call.key]
           new == WithRef(e, call.ref, call.manage, call.externalID)
<1>1. /\ call \in Call /\ call # Idle /\ call.op = "AddRef" /\ call.ref \in Refs
      /\ call.key \in Keys /\ call.manage \in BOOLEAN /\ call.externalID \in Ids \cup {NoId}
  BY CallType DEF AddRefRead, InCall, TypeOK, CallsOK, Call
<1>2. UNCHANGED <<entries, cache, version, pending, toDelete>>
  BY DEF AddRefRead, NoWrite
<1>3. CallsOK' /\ held' \in [Keys -> SUBSET Refs]
  <2>1. CASE Return(c) /\ UNCHANGED held
    BY <2>1, ReturnType DEF TypeOK
  <2>2. CASE Return(c) /\ Hold(call.key, call.ref)
    BY <2>2, <1>1, ReturnType DEF TypeOK, Hold
  <2>3. CASE Joinable(e) /\ Goto(c, "update", new) /\ UNCHANGED held
    <3>1. e \in Entry
      BY <1>1, <2>3 DEF TypeOK, Joinable
    <3>2. new \in Entry
      BY <1>1, <3>1, WithRefType
    <3>. QED
      BY <1>1, <2>3, <3>2, GotoType DEF TypeOK
  <2>. QED
    BY <2>1, <2>2, <2>3 DEF AddRefRead
<1>. QED
  BY <1>2, <1>3 DEF TypeOK

LEMMA ReleasedType ==
    ASSUME TypeOK, NEW c \in Callers, calls[c] # Idle, calls[c].op # "Finish",
           NEW e \in Entry, Released(c, e)
    PROVE  CallsOK' /\ pending' \in [Callers -> SUBSET Keys] /\ toDelete' \in [Callers -> SUBSET Keys]
<1>1. calls[c].key \in Keys
  BY CallType DEF Call
<1>2. CASE Return(c) /\ UNCHANGED <<pending, toDelete>>
  BY <1>2, ReturnType DEF TypeOK
<1>3. CASE /\ Return(c) /\ pending' = [pending EXCEPT ![c] = {calls[c].key}]
           /\ toDelete' = [toDelete EXCEPT ![c] = {calls[c].key}]
  BY <1>1, <1>3, ReturnType DEF TypeOK
<1>4. CASE Goto(c, "delete", e) /\ UNCHANGED <<pending, toDelete>>
  BY <1>4, GotoType DEF TypeOK
<1>. QED
  BY <1>2, <1>3, <1>4 DEF Released

LEMMA ReleaseReadType ==
    ASSUME TypeOK, NEW c \in Callers, ReleaseRead(c)
    PROVE  TypeOK'
<1> DEFINE call == calls[c]
           e == cache[call.key]
           new == WithoutRef(e, call.ref)
<1>1. call \in Call /\ call # Idle /\ call.op = "Release" /\ call.key \in Keys
  BY CallType DEF ReleaseRead, InCall, Call
<1>2. UNCHANGED <<entries, cache, version, held>>
  BY DEF ReleaseRead, NoWrite
<1>3. CallsOK' /\ pending' \in [Callers -> SUBSET Keys] /\ toDelete' \in [Callers -> SUBSET Keys]
  <2>1. CASE Return(c) /\ UNCHANGED <<pending, toDelete>>
    BY <2>1, ReturnType DEF TypeOK
  <2>2. CASE e # NoEntry /\ Released(c, e)
    <3>1. e \in Entry
      BY <1>1, <2>2 DEF TypeOK
    <3>. QED
      BY <1>1, <2>2, <3>1, ReleasedType
  <2>3. CASE e # NoEntry /\ Goto(c, "update", new) /\ UNCHANGED <<pending, toDelete>>
    <3>1. e \in Entry
      BY <1>1, <2>3 DEF TypeOK
    <3>2. new \in Entry
      BY <3>1, WithoutRefType
    <3>. QED
      BY <1>1, <2>3, <3>2, GotoType DEF TypeOK
  <2>. QED
    BY <2>1, <2>2, <2>3 DEF ReleaseRead
<1>. QED
  BY <1>2, <1>3 DEF TypeOK

LEMMA UpdatedType ==
    ASSUME TypeOK, NEW c \in Callers, Updated(c) \/ UpdatedUnanswered(c)
    PROVE  TypeOK'
<1> DEFINE call == calls[c]
<1>1. /\ call \in Call /\ call # Idle /\ call.pc = "update" /\ call.key \in Keys
      /\ call.op # "Finish" /\ call.ref \in Refs /\ call.obj \in Entry
  BY CallType DEF Updated, UpdatedUnanswered, InCall, TypeOK, CallsOK, Call
<1>2. Store(call.key, call.obj)
  BY DEF Updated, UpdatedUnanswered
<1>3. /\ entries' \in [Keys -> Entry \cup {NoEntry}]
      /\ cache' \in [Keys -> Entry \cup {NoEntry}]
      /\ version' \in Nat
  BY <1>1, <1>2, StoreType
<1>4. /\ CallsOK' /\ held' \in [Keys -> SUBSET Refs]
      /\ pending' \in [Callers -> SUBSET Keys] /\ toDelete' \in [Callers -> SUBSET Keys]
  <2>1. CASE Return(c) /\ Hold(call.key, call.ref) /\ UNCHANGED <<pending, toDelete>>
    BY <1>1, <2>1, ReturnType DEF TypeOK, Hold
  <2>2. CASE Released(c, call.obj) /\ UNCHANGED held
    BY <1>1, <2>2, ReleasedType DEF TypeOK
  <2>3. CASE Return(c) /\ UNCHANGED <<pending, toDelete, held>>
    BY <2>3, ReturnType DEF TypeOK
  <2>. QED
    BY <2>1, <2>2, <2>3 DEF Updated, UpdatedUnanswered
<1>. QED
  BY <1>3, <1>4 DEF TypeOK

LEMMA ConflictType ==
    ASSUME TypeOK, NEW c \in Callers, Conflict(c)
    PROVE  TypeOK'
<1> DEFINE call == calls[c]
           again == [call EXCEPT !.pc = "read", !.obj = NoEntry, !.tries = @ + 1]
<1>1. call \in Call /\ call # Idle /\ call.pc = "update" /\ call.op # "Finish" /\ call.ref \in Refs
  BY CallType DEF Conflict, InCall, TypeOK, CallsOK, Call
<1>2. again \in Call /\ again.op = call.op /\ again.ref = call.ref /\ again.pc = "read"
  <2>1. call.tries + 1 \in Nat
    BY <1>1 DEF Call
  <2>. HIDE DEF call
  <2>. QED
    BY <1>1, <2>1 DEF Call
<1>3. CallsOK'
  <2>1. CASE Return(c)
    BY <2>1, ReturnType
  <2>2. CASE calls' = [calls EXCEPT ![c].pc = "read", ![c].obj = NoEntry, ![c].tries = @ + 1]
    <3>1. calls' = [calls EXCEPT ![c] = again]
      BY <2>2 DEF TypeOK, CallsOK
    <3>. HIDE DEF again
    <3>. QED
      BY <1>1, <1>2, <3>1, SetCallType
  <2>. QED
    BY <2>1, <2>2 DEF Conflict
<1>. QED
  BY <1>3 DEF Conflict, NoWrite, TypeOK

LEMMA FinishReadType ==
    ASSUME TypeOK, NEW c \in Callers, NEW k \in Keys, FinishRead(c, k)
    PROVE  TypeOK'
<1> DEFINE call == [op |-> "Finish", pc |-> "delete", key |-> k, ref |-> NoRef,
                    manage |-> FALSE, externalID |-> NoId, obj |-> cache[k], tries |-> 0]
<1>1. call \in Call /\ call.op = "Finish" /\ call.pc = "delete"
  BY DEF Call, TypeOK
<1>2. CallsOK' /\ pending' \in [Callers -> SUBSET Keys] /\ toDelete' \in [Callers -> SUBSET Keys]
  <2>1. CASE /\ pending' = [pending EXCEPT ![c] = @ \ {k}] /\ UNCHANGED calls
             /\ toDelete' = [toDelete EXCEPT ![c] = @ \ {k}]
    BY <2>1 DEF TypeOK, CallsOK
  <2>2. CASE calls' = [calls EXCEPT ![c] = call] /\ UNCHANGED <<pending, toDelete>>
    <3>. HIDE DEF call
    <3>. QED
      BY <1>1, <2>2, SetCallType DEF TypeOK
  <2>. QED
    BY <2>1, <2>2 DEF FinishRead
<1>. QED
  BY <1>2 DEF FinishRead, NoWrite, TypeOK

LEMMA DeleteType ==
    ASSUME TypeOK, NEW c \in Callers, Delete(c)
    PROVE  TypeOK'
<1>1. calls[c].key \in Keys
  BY CallType DEF Delete, InCall, Call
<1>2. CallsOK'
  BY ReturnType DEF Delete
<1>3. pending' \in [Callers -> SUBSET Keys] /\ toDelete' \in [Callers -> SUBSET Keys]
  BY DEF Delete, TypeOK
<1>. QED
  BY <1>1, <1>2, <1>3, RemoveType DEF Delete, TypeOK

LEMMA QuietType ==
    ASSUME TypeOK, NEW c \in Callers,
           \/ UpdateNotFound(c) \/ Sweep(c) \/ Abort(c)
           \/ \E k \in Keys : DeleteFails(c, k)
    PROVE  TypeOK'
<1>1. CASE UpdateNotFound(c)
  BY <1>1, ReturnType DEF UpdateNotFound, NoWrite, TypeOK
<1>2. CASE Sweep(c)
  BY <1>2 DEF Sweep, NoWrite, TypeOK, CallsOK
<1>3. CASE Abort(c)
  BY <1>3, ReturnType DEF Abort, NoWrite, TypeOK
<1>4. CASE \E k \in Keys : DeleteFails(c, k)
  BY <1>4 DEF DeleteFails, NoWrite, TypeOK, CallsOK
<1>. QED
  BY <1>1, <1>2, <1>3, <1>4

LEMMA TypeStep == TypeOK /\ [Next]_vars => TypeOK'
<1>. SUFFICES ASSUME TypeOK, [Next]_vars PROVE TypeOK'
  OBVIOUS
<1>1. CASE UNCHANGED vars
  BY <1>1 DEF vars, TypeOK, CallsOK
<1>2. CASE Sync
  BY <1>2 DEF Sync, TypeOK, CallsOK
<1>3. ASSUME NEW c \in Callers, CallerStep(c) PROVE TypeOK'
  BY <1>3, RegisterType, CallAddRefType, CallReleaseType, AddRefReadType, ReleaseReadType,
     UpdatedType, ConflictType, FinishReadType, DeleteType, QuietType DEF CallerStep
<1>. QED
  BY <1>1, <1>2, <1>3 DEF Next, CallerStep

\* Every state of the ledger, its cache and its callers has its declared type:
\* in particular no update ever stores an object it has not read.
THEOREM Typing == Spec => []TypeOK
<1>1. Init => TypeOK
  BY LedgerAssumption DEF Init, TypeOK, CallsOK
<1>. QED
  BY <1>1, TypeStep, PTL DEF Spec

-----------------------------------------------------------------------------
(* A terminating entry has no references, however stale the reads are.     *)

\* An object whose mark, if it has one, came with the loss of its last reference.
Settled(e) == e # NoEntry /\ e.terminating => e.refs = {}

\* What is stored, what is cached and what is about to be stored.
SettledInv ==
    /\ \A k \in Keys : Settled(entries[k]) /\ Settled(cache[k])
    /\ \A c \in Callers : InCall(c, "update") => Settled(calls[c].obj)

LEMMA WithRefSettled ==
    ASSUME NEW e \in Entry, ~e.terminating, NEW r, NEW m, NEW id
    PROVE  Settled(WithRef(e, r, m, id))
BY DEF Settled, WithRef, Entry

LEMMA WithoutRefSettled ==
    ASSUME NEW e \in Entry, Settled(e), NEW r
    PROVE  Settled(WithoutRef(e, r))
BY LedgerAssumption DEF Settled, WithoutRef, Entry

LEMMA StoreSettled ==
    ASSUME TypeOK, SettledInv, NEW k \in Keys, NEW e \in Entry, Settled(e), Store(k, e)
    PROVE  \A l \in Keys : Settled(entries'[l]) /\ Settled(cache'[l])
<1> DEFINE f == [e EXCEPT !.version = version + 1]
<1>1. f.terminating = e.terminating /\ f.refs = e.refs
  BY DEF Entry
<1>2. e # NoEntry
  BY LedgerAssumption
<1>3. Settled(f)
  BY <1>1, <1>2 DEF Settled
<1>4. entries' = [entries EXCEPT ![k] = f]
  BY DEF Store
<1>5. \A l \in Keys : Settled(entries'[l])
  <2>. HIDE DEF f
  <2>. QED
    BY <1>3, <1>4 DEF SettledInv, TypeOK
<1>. QED
  BY <1>5 DEF Store, Publish, SettledInv

\* Callers that do not write leave the stored objects alone.
LEMMA NoWriteSettled ==
    ASSUME SettledInv, UNCHANGED <<entries, cache>>,
           \A c \in Callers : InCall(c, "update")' => Settled(calls'[c].obj)
    PROVE  SettledInv'
BY DEF SettledInv, Settled

\* A step that ends a call, or moves it anywhere but to an update.
LEMMA OthersSettled ==
    ASSUME TypeOK, SettledInv, NEW c \in Callers,
           \/ UNCHANGED calls
           \/ \E call \in Call \cup {Idle} :
                 /\ calls' = [calls EXCEPT ![c] = call]
                 /\ call = Idle \/ call.pc # "update" \/ Settled(call.obj)
    PROVE  \A d \in Callers : InCall(d, "update")' => Settled(calls'[d].obj)
BY DEF SettledInv, Settled, InCall, TypeOK, CallsOK

LEMMA ReturnIsQuiet ==
    ASSUME TypeOK, NEW c \in Callers, Return(c) \/ UNCHANGED calls
    PROVE  \/ UNCHANGED calls
           \/ \E call \in Call \cup {Idle} :
                 /\ calls' = [calls EXCEPT ![c] = call]
                 /\ call = Idle \/ call.pc # "update" \/ Settled(call.obj)
BY DEF Return

LEMMA GotoIsSettled ==
    ASSUME TypeOK, NEW c \in Callers, calls[c] # Idle, NEW e \in Entry, Settled(e),
           NEW pc \in {"read", "update", "delete"}, Goto(c, pc, e)
    PROVE  \E call \in Call \cup {Idle} :
                 /\ calls' = [calls EXCEPT ![c] = call]
                 /\ call = Idle \/ call.pc # "update" \/ Settled(call.obj)
<1> DEFINE call == [calls[c] EXCEPT !.pc = pc, !.obj = e]
<1>1. calls[c] \in Call
  BY CallType
<1>2. call \in Call /\ call.obj = e
  BY <1>1 DEF Call
<1>3. calls' = [calls EXCEPT ![c] = call]
  BY DEF Goto, TypeOK, CallsOK
<1>. HIDE DEF call
<1>. QED
  BY <1>2, <1>3

LEMMA ReleasedIsSettled ==
    ASSUME TypeOK, NEW c \in Callers, calls[c] # Idle, NEW e \in Entry, Settled(e), Released(c, e)
    PROVE  \/ UNCHANGED calls
           \/ \E call \in Call \cup {Idle} :
                 /\ calls' = [calls EXCEPT ![c] = call]
                 /\ call = Idle \/ call.pc # "update" \/ Settled(call.obj)
BY ReturnIsQuiet, GotoIsSettled DEF Released

LEMMA RegisterSettled ==
    ASSUME TypeOK, SettledInv, NEW c \in Callers, NEW k \in Keys, NEW r \in Refs,
           NEW m \in BOOLEAN, NEW id \in Ids \cup {NoId}, Register(c, k, r, m, id)
    PROVE  SettledInv'
<1>1. NewEntry(r, m, id) \in Entry /\ Settled(NewEntry(r, m, id))
  BY DEF NewEntry, Entry, TypeOK, Settled
<1>2. Store(k, NewEntry(r, m, id)) /\ UNCHANGED calls
  BY DEF Register
<1>3. \A l \in Keys : Settled(entries'[l]) /\ Settled(cache'[l])
  BY <1>1, <1>2, StoreSettled
<1>4. \A d \in Callers : InCall(d, "update")' => Settled(calls'[d].obj)
  BY <1>2, OthersSettled
<1>. QED
  BY <1>3, <1>4 DEF SettledInv, Settled

LEMMA UpdatedSettled ==
    ASSUME TypeOK, SettledInv, NEW c \in Callers, Updated(c) \/ UpdatedUnanswered(c)
    PROVE  SettledInv'
<1> DEFINE call == calls[c]
<1>1. /\ call # Idle /\ call.key \in Keys /\ call.obj \in Entry /\ Settled(call.obj)
  BY CallType DEF Updated, UpdatedUnanswered, InCall, TypeOK, CallsOK, Call, SettledInv
<1>2. Store(call.key, call.obj)
  BY DEF Updated, UpdatedUnanswered
<1>3. \A l \in Keys : Settled(entries'[l]) /\ Settled(cache'[l])
  BY <1>1, <1>2, StoreSettled
<1>4. Return(c) \/ Released(c, call.obj)
  BY DEF Updated, UpdatedUnanswered
<1>5. \A d \in Callers : InCall(d, "update")' => Settled(calls'[d].obj)
  BY <1>1, <1>4, ReturnIsQuiet, ReleasedIsSettled, OthersSettled
<1>. QED
  BY <1>3, <1>5 DEF SettledInv, Settled

LEMMA AddRefReadSettled ==
    ASSUME TypeOK, SettledInv, NEW c \in Callers, AddRefRead(c)
    PROVE  SettledInv'
<1> DEFINE call == calls[c]
           e == cache[call.key]
           new == WithRef(e, call.ref, call.manage, call.externalID)
<1>1. /\ call # Idle /\ call.key \in Keys /\ call.ref \in Refs
      /\ call.manage \in BOOLEAN /\ call.externalID \in Ids \cup {NoId}
  BY CallType DEF AddRefRead, InCall, TypeOK, CallsOK, Call
<1>2. CASE Return(c)
  BY <1>2, ReturnIsQuiet, OthersSettled, NoWriteSettled DEF AddRefRead, NoWrite
<1>3. CASE Joinable(e) /\ Goto(c, "update", new)
  <2>1. e \in Entry /\ ~e.terminating
    BY <1>1, <1>3 DEF TypeOK, Joinable
  <2>2. new \in Entry /\ Settled(new)
    BY <1>1, <2>1, WithRefType, WithRefSettled
  <2>. QED
    BY <1>1, <1>3, <2>2, GotoIsSettled, OthersSettled, NoWriteSettled DEF AddRefRead, NoWrite
<1>. QED
  BY <1>2, <1>3 DEF AddRefRead

LEMMA ReleaseReadSettled ==
    ASSUME TypeOK, SettledInv, NEW c \in Callers, ReleaseRead(c)
    PROVE  SettledInv'
<1> DEFINE call == calls[c]
           e == cache[call.key]
           new == WithoutRef(e, call.ref)
<1>1. call # Idle /\ call.key \in Keys
  BY CallType DEF ReleaseRead, InCall, Call
<1>2. CASE Return(c)
  BY <1>2, ReturnIsQuiet, OthersSettled, NoWriteSettled DEF ReleaseRead, NoWrite
<1>3. CASE e # NoEntry /\ (Released(c, e) \/ Goto(c, "update", new))
  <2>1. e \in Entry /\ Settled(e)
    BY <1>1, <1>3 DEF TypeOK, SettledInv
  <2>2. new \in Entry /\ Settled(new)
    BY <2>1, WithoutRefType, WithoutRefSettled
  <2>. QED
    BY <1>1, <1>3, <2>1, <2>2, GotoIsSettled, ReleasedIsSettled, OthersSettled, NoWriteSettled
       DEF ReleaseRead, NoWrite
<1>. QED
  BY <1>2, <1>3 DEF ReleaseRead

LEMMA BeginSettled ==
    ASSUME TypeOK, SettledInv, NEW c \in Callers, NEW k \in Keys, NEW r \in Refs,
           NEW m \in BOOLEAN, NEW id \in Ids \cup {NoId},
           CallAddRef(c, k, r, m, id) \/ CallRelease(c, k, r)
    PROVE  SettledInv'
BY NoWriteSettled DEF CallAddRef, CallRelease, Begin, NoWrite, SettledInv, InCall, TypeOK, CallsOK

LEMMA DeleteSettled ==
    ASSUME TypeOK, SettledInv, NEW c \in Callers, Delete(c)
    PROVE  SettledInv'
<1>1. calls[c].key \in Keys
  BY CallType DEF Delete, InCall, Call
<1>2. \A l \in Keys : Settled(entries'[l]) /\ Settled(cache'[l])
  BY <1>1 DEF Delete, Remove, Publish, Settled, SettledInv, TypeOK
<1>3. \A d \in Callers : InCall(d, "update")' => Settled(calls'[d].obj)
  BY ReturnIsQuiet, OthersSettled DEF Delete
<1>. QED
  BY <1>2, <1>3 DEF SettledInv, Settled

LEMMA FinishReadSettled ==
    ASSUME TypeOK, SettledInv, NEW c \in Callers, NEW k \in Keys, FinishRead(c, k)
    PROVE  SettledInv'
BY NoWriteSettled DEF FinishRead, NoWrite, SettledInv, InCall, TypeOK, CallsOK

LEMMA ConflictSettled ==
    ASSUME TypeOK, SettledInv, NEW c \in Callers, Conflict(c)
    PROVE  SettledInv'
<1> DEFINE call == calls[c]
           again == [call EXCEPT !.pc = "read", !.obj = NoEntry, !.tries = @ + 1]
<1>1. CASE Return(c)
  BY <1>1, ReturnIsQuiet, OthersSettled, NoWriteSettled DEF Conflict, NoWrite
<1>2. CASE calls' = [calls EXCEPT ![c].pc = "read", ![c].obj = NoEntry, ![c].tries = @ + 1]
  <2>1. call \in Call
    BY CallType DEF Conflict, InCall
  <2>2. again \in Call /\ again.pc = "read"
    <3>1. call.tries + 1 \in Nat
      BY <2>1 DEF Call
    <3>. HIDE DEF call
    <3>. QED
      BY <2>1, <3>1 DEF Call
  <2>3. calls' = [calls EXCEPT ![c] = again]
    BY <1>2 DEF TypeOK, CallsOK
  <2>4. \A d \in Callers : InCall(d, "update")' => Settled(calls'[d].obj)
    <3>. HIDE DEF again
    <3>. QED
      BY <2>2, <2>3, OthersSettled
  <2>. QED
    BY <2>4, NoWriteSettled DEF Conflict, NoWrite
<1>. QED
  BY <1>1, <1>2 DEF Conflict

LEMMA QuietSettled ==
    ASSUME TypeOK, SettledInv, NEW c \in Callers,
           \/ UpdateNotFound(c) \/ Sweep(c) \/ Abort(c)
           \/ \E k \in Keys : DeleteFails(c, k)
    PROVE  SettledInv'
<1>1. Return(c) \/ UNCHANGED calls
  BY DEF UpdateNotFound, Sweep, Abort, DeleteFails
<1>2. UNCHANGED <<entries, cache>>
  BY DEF UpdateNotFound, Sweep, Abort, DeleteFails, NoWrite
<1>. QED
  BY <1>1, <1>2, ReturnIsQuiet, OthersSettled, NoWriteSettled

LEMMA SettledStep == TypeOK /\ SettledInv /\ [Next]_vars => SettledInv'
<1>. SUFFICES ASSUME TypeOK, SettledInv, [Next]_vars PROVE SettledInv'
  OBVIOUS
<1>1. CASE UNCHANGED vars
  BY <1>1 DEF vars, SettledInv, Settled, InCall
<1>2. CASE Sync
  BY <1>2 DEF Sync, SettledInv, Settled, InCall
<1>3. ASSUME NEW c \in Callers, CallerStep(c) PROVE SettledInv'
  BY <1>3, RegisterSettled, BeginSettled, AddRefReadSettled, ReleaseReadSettled, UpdatedSettled,
     ConflictSettled, FinishReadSettled, DeleteSettled, QuietSettled DEF CallerStep
<1>. QED
  BY <1>1, <1>2, <1>3 DEF Next, CallerStep

\* A terminating entry has no references, whatever the cache returns and whoever
\* else deletes: the mark and the removal of the last reference are one update
\* of one object, and AddRef never stores a marked object.
THEOREM TerminatingNoRefs == Spec => []TerminatingHasNoRefs
<1>1. Init => SettledInv
  BY DEF Init, SettledInv, Settled, InCall
<1>2. SettledInv => TerminatingHasNoRefs
  BY DEF SettledInv, Settled, TerminatingHasNoRefs
<1>. QED
  BY <1>1, <1>2, SettledStep, Typing, PTL DEF Spec
=============================================================================
