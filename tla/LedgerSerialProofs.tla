------------------------- MODULE LedgerSerialProofs -------------------------
(***************************************************************************)
(* What is proved of Ledger when its reads are current and no sweep lists  *)
(* entries while another caller deletes one: no recorded reference is      *)
(* lost, a resource in use is never deleted, each resource has one         *)
(* deleter, and the ledger implements LedgerSpec.  All of it follows from  *)
(* SerialInv, whose preservation is proved here action by action.          *)
(***************************************************************************)
EXTENDS LedgerProofs

Serial == ~CacheMayLag /\ ~SweepOverlaps

\* What a caller's call alone has to satisfy.
CallInv(c) ==
    /\ calls[c] # Idle /\ calls[c].op # "Finish" => Owner[calls[c].ref] = c
    /\ InCall(c, "update") => calls[c].obj.version <= version
    /\ InCall(c, "update") /\ Current(calls[c].key, calls[c].obj) =>
            LET call == calls[c]
                e == entries[call.key]
            IN  \/ /\ call.op = "AddRef"
                   /\ ~e.terminating
                   /\ call.obj = WithRef(e, call.ref, call.manage, call.externalID)
                \/ /\ call.op = "Release"
                   /\ call.obj = WithoutRef(e, call.ref)
    /\ calls[c] # Idle /\ calls[c].op = "Release" /\ calls[c].pc # "delete" =>
            /\ entries[calls[c].key] # NoEntry
            /\ calls[c].ref \in entries[calls[c].key].refs
            /\ calls[c].ref \notin held[calls[c].key]

\* What the stored entries alone have to satisfy.
EntryInv ==
    /\ cache = entries
    /\ \A k \in Keys : entries[k] # NoEntry => entries[k].version <= version
    /\ TerminatingHasNoRefs
    /\ HeldIsRecorded

LEMMA SerialInvParts ==
    /\ SerialInv <=> EntryInv /\ DeletionIsExclusive /\ \A c \in Callers : CallInv(c)
    /\ SerialInv' <=> EntryInv' /\ DeletionIsExclusive' /\ \A c \in Callers : CallInv(c)'
<1>1. SerialInv <=> EntryInv /\ DeletionIsExclusive /\ \A c \in Callers : CallInv(c)
  BY DEF SerialInv, EntryInv, CallInv, OwnCalls, VersionsIssued, UpdatesAreFresh, ReleasedIsRecorded
<1>2. SerialInv' <=> EntryInv' /\ DeletionIsExclusive' /\ \A c \in Callers : CallInv(c)'
  BY DEF SerialInv, EntryInv, CallInv, OwnCalls, VersionsIssued, UpdatesAreFresh, ReleasedIsRecorded
<1>. QED
  BY <1>1, <1>2

\* A caller in no call has nothing to satisfy.
LEMMA IdleCall ==
    ASSUME NEW c \in Callers, calls'[c] = Idle
    PROVE  CallInv(c)'
BY DEF CallInv, InCall

\* A caller that does nothing keeps its call when the entries do not change and
\* it is not told that the reference it releases is recorded.
LEMMA BystanderQuiet ==
    ASSUME NEW c \in Callers, CallInv(c), calls'[c] = calls[c], NoWrite,
           calls[c] # Idle /\ calls[c].op = "Release" /\ calls[c].pc # "delete" =>
               (calls[c].ref \in held'[calls[c].key] => calls[c].ref \in held[calls[c].key])
    PROVE  CallInv(c)'
BY DEF CallInv, InCall, NoWrite, Current, WithRef, WithoutRef

\* ... and when another caller stores an entry: the new version makes its update
\* stale, and the entry it releases from still has its reference.
LEMMA BystanderStore ==
    ASSUME TypeOK, NEW c \in Callers, CallInv(c), calls'[c] = calls[c],
           NEW k \in Keys, NEW e \in Entry, Store(k, e),
           calls[c] # Idle /\ calls[c].op = "Release" /\ calls[c].pc # "delete" =>
               /\ calls[c].key = k => calls[c].ref \in e.refs
               /\ calls[c].ref \in held'[calls[c].key] => calls[c].ref \in held[calls[c].key]
    PROVE  CallInv(c)'
<1> DEFINE f == [e EXCEPT !.version = version + 1]
<1>1. /\ f.version = version + 1 /\ f.refs = e.refs /\ f \in Entry /\ f # NoEntry
      /\ version \in Nat
  <2>1. f \in Entry /\ f.version = version + 1 /\ f.refs = e.refs /\ version \in Nat
    BY DEF Entry, TypeOK
  <2>. HIDE DEF f
  <2>. QED
    BY <2>1, LedgerAssumption
<1>2. entries' = [entries EXCEPT ![k] = f] /\ version' = version + 1
  BY DEF Store
<1>. HIDE DEF f
<1>3. CASE calls[c] = Idle
  BY <1>3 DEF CallInv, InCall
<1>4. CASE calls[c] # Idle
  <2>1. calls[c] \in Call
    BY <1>4, CallType
  <2>2. InCall(c, "update") => calls[c].obj.version \in Nat
    BY <2>1 DEF InCall, TypeOK, CallsOK, Call, Entry
  <2>3. CASE calls[c].key = k
    BY <1>1, <1>2, <1>4, <2>1, <2>2, <2>3 DEF CallInv, InCall, Current, TypeOK
  <2>4. CASE calls[c].key # k
    <3>1. calls[c].key \in Keys
      BY <2>1 DEF Call
    <3>2. entries'[calls[c].key] = entries[calls[c].key]
      BY <1>2, <2>4, <3>1 DEF TypeOK
    <3>. QED
      BY <1>1, <1>2, <1>4, <2>2, <3>2 DEF CallInv, InCall, Current
  <2>. QED
    BY <2>3, <2>4
<1>. QED
  BY <1>3, <1>4

\* ... and when another caller removes a terminating entry, which no reference
\* being released can be in.
LEMMA BystanderRemove ==
    ASSUME TypeOK, TerminatingHasNoRefs, NEW c \in Callers, CallInv(c), calls'[c] = calls[c],
           NEW k \in Keys, entries[k] # NoEntry => entries[k].terminating, Remove(k), UNCHANGED held
    PROVE  CallInv(c)'
<1>1. CASE calls[c] = Idle
  BY <1>1 DEF CallInv, InCall
<1>2. CASE calls[c] # Idle
  <2>1. calls[c].key \in Keys
    BY <1>2, CallType DEF Call
  <2>2. CASE calls[c].key = k
    BY <1>2, <2>2 DEF CallInv, InCall, Current, Remove, TypeOK, TerminatingHasNoRefs
  <2>3. CASE calls[c].key # k
    <3>1. entries'[calls[c].key] = entries[calls[c].key]
      BY <2>1, <2>3 DEF TypeOK, Remove
    <3>. QED
      BY <1>2, <3>1 DEF CallInv, InCall, Current, Remove
  <2>. QED
    BY <2>2, <2>3
<1>. QED
  BY <1>1, <1>2

-----------------------------------------------------------------------------
(* The stored entries. *)

LEMMA EntriesQuiet ==
    ASSUME EntryInv, NoWrite,
           \A k \in Keys : held'[k] # {} => entries[k] # NoEntry /\ held'[k] \subseteq entries[k].refs
    PROVE  EntryInv'
BY DEF EntryInv, NoWrite, TerminatingHasNoRefs, HeldIsRecorded

LEMMA EntriesStore ==
    ASSUME Serial, TypeOK, EntryInv, NEW k \in Keys, NEW e \in Entry, Store(k, e),
           e.terminating => e.refs = {},
           \A l \in Keys : l # k => held'[l] = held[l],
           held'[k] \subseteq e.refs
    PROVE  EntryInv'
<1> DEFINE f == [e EXCEPT !.version = version + 1]
<1>1. /\ f.version = version + 1 /\ f.refs = e.refs /\ f.terminating = e.terminating
      /\ f # NoEntry /\ version \in Nat
  <2>1. /\ f \in Entry /\ f.version = version + 1 /\ f.refs = e.refs
        /\ f.terminating = e.terminating /\ version \in Nat
    BY DEF Entry, TypeOK
  <2>. HIDE DEF f
  <2>. QED
    BY <2>1, LedgerAssumption
<1>2. entries' = [entries EXCEPT ![k] = f] /\ version' = version + 1 /\ cache' = entries'
  BY DEF Store, Publish, Serial
<1>. HIDE DEF f
<1>3. \A l \in Keys : entries[l] # NoEntry => entries[l].version \in Nat
  BY DEF TypeOK, Entry
<1>. QED
  BY <1>1, <1>2, <1>3 DEF EntryInv, TerminatingHasNoRefs, HeldIsRecorded, TypeOK

LEMMA EntriesRemove ==
    ASSUME Serial, TypeOK, EntryInv, NEW k \in Keys, Remove(k),
           entries[k] # NoEntry => entries[k].terminating, UNCHANGED held
    PROVE  EntryInv'
BY DEF Serial, Remove, Publish, EntryInv, TerminatingHasNoRefs, HeldIsRecorded, TypeOK

-----------------------------------------------------------------------------
(* Who deletes what. *)

\* No caller takes on a deletion, and the entries being deleted stay marked.
LEMMA DeletionKept ==
    ASSUME DeletionIsExclusive,
           \A d \in Callers, k \in Keys : Deletes(d, k)' =>
               /\ Deletes(d, k)
               /\ entries'[k] = entries[k]
    PROVE  DeletionIsExclusive'
BY DEF DeletionIsExclusive

\* Caller c takes on the deletion of k, whose entry it has just marked.
LEMMA DeletionTaken ==
    ASSUME DeletionIsExclusive, NEW c \in Callers, NEW k \in Keys,
           \A d \in Callers : ~Deletes(d, k),
           entries'[k] # NoEntry, entries'[k].terminating,
           \A d \in Callers, l \in Keys : Deletes(d, l)' =>
               \/ Deletes(d, l) /\ entries'[l] = entries[l]
               \/ d = c /\ l = k
    PROVE  DeletionIsExclusive'
BY DEF DeletionIsExclusive

-----------------------------------------------------------------------------
(* The steps, one lemma per action. *)

\* Steps that end a call or drop a deletion, and change nothing else.
LEMMA QuietSerial ==
    ASSUME TypeOK, SerialInv, NEW c \in Callers, NoWrite, UNCHANGED held,
           Return(c) \/ UNCHANGED calls,
           \A d \in Callers : pending'[d] \subseteq pending[d]
    PROVE  SerialInv'
<1>1. EntryInv /\ DeletionIsExclusive /\ \A d \in Callers : CallInv(d)
  BY SerialInvParts
<1>2. EntryInv'
  BY <1>1, EntriesQuiet DEF EntryInv, HeldIsRecorded
<1>3. \A d \in Callers : calls'[d] = Idle \/ calls'[d] = calls[d]
  BY DEF Return, TypeOK, CallsOK
<1>4. \A d \in Callers : CallInv(d)'
  BY <1>1, <1>3, IdleCall, BystanderQuiet
<1>5. DeletionIsExclusive'
  <2>1. ASSUME NEW d \in Callers, NEW k \in Keys, Deletes(d, k)'
        PROVE  Deletes(d, k) /\ entries'[k] = entries[k]
    BY <2>1, <1>3 DEF Deletes, InCall, NoWrite
  <2>. QED
    BY <1>1, <2>1, DeletionKept
<1>. QED
  BY <1>2, <1>4, <1>5, SerialInvParts

LEMMA EndsSerial ==
    ASSUME TypeOK, SerialInv, NEW c \in Callers,
           \/ UpdateNotFound(c) \/ Abort(c)
           \/ \E k \in Keys : DeleteFails(c, k)
    PROVE  SerialInv'
<1>1. \A d \in Callers : pending'[d] \subseteq pending[d]
  BY DEF UpdateNotFound, Abort, DeleteFails, TypeOK
<1>2. NoWrite /\ UNCHANGED held /\ (Return(c) \/ UNCHANGED calls)
  BY DEF UpdateNotFound, Abort, DeleteFails
<1>. QED
  BY <1>1, <1>2, QuietSerial

\* A call moves on without writing: only that call has to be looked at.
LEMMA MovesSerial ==
    ASSUME TypeOK, SerialInv, NEW c \in Callers, NEW call \in Call,
           calls' = [calls EXCEPT ![c] = call], call.pc # "delete",
           NoWrite, UNCHANGED pending,
           \A k \in Keys : held'[k] \subseteq held[k],
           CallInv(c)'
    PROVE  SerialInv'
<1>1. EntryInv /\ DeletionIsExclusive /\ \A d \in Callers : CallInv(d)
  BY SerialInvParts
<1>2. EntryInv'
  <2>1. \A k \in Keys : held'[k] # {} => entries[k] # NoEntry /\ held'[k] \subseteq entries[k].refs
    BY <1>1 DEF EntryInv, HeldIsRecorded
  <2>. QED
    BY <1>1, <2>1, EntriesQuiet
<1>3. \A d \in Callers : d # c => calls'[d] = calls[d]
  BY DEF TypeOK, CallsOK
<1>4. \A d \in Callers : d # c => CallInv(d)'
  <2>. SUFFICES ASSUME NEW d \in Callers, d # c PROVE CallInv(d)'
    OBVIOUS
  <2>1. calls[d] # Idle => calls[d].key \in Keys
    BY CallType DEF Call
  <2>. QED
    BY <1>1, <1>3, <2>1, BystanderQuiet
<1>5. DeletionIsExclusive'
  <2>1. ASSUME NEW d \in Callers, NEW k \in Keys, Deletes(d, k)'
        PROVE  Deletes(d, k) /\ entries'[k] = entries[k]
    BY <2>1 DEF Deletes, InCall, NoWrite, TypeOK, CallsOK
  <2>. QED
    BY <1>1, <2>1, DeletionKept
<1>. QED
  BY <1>2, <1>4, <1>5, SerialInvParts

LEMMA ConflictSerial ==
    ASSUME TypeOK, SerialInv, NEW c \in Callers, Conflict(c)
    PROVE  SerialInv'
<1> DEFINE call == calls[c]
           again == [call EXCEPT !.pc = "read", !.obj = NoEntry, !.tries = @ + 1]
<1>1. CASE Return(c)
  BY <1>1, QuietSerial DEF Conflict, TypeOK
<1>2. CASE calls' = [calls EXCEPT ![c].pc = "read", ![c].obj = NoEntry, ![c].tries = @ + 1]
  <2>1. call \in Call /\ call # Idle /\ call.pc = "update"
    BY CallType DEF Conflict, InCall
  <2>2. /\ again \in Call /\ again.pc = "read" /\ again.op = call.op
        /\ again.key = call.key /\ again.ref = call.ref
    <3>1. call.tries + 1 \in Nat
      BY <2>1 DEF Call
    <3>. HIDE DEF call
    <3>. QED
      BY <2>1, <3>1 DEF Call
  <2>3. calls' = [calls EXCEPT ![c] = again]
    BY <1>2 DEF TypeOK, CallsOK
  <2>. HIDE DEF again
  <2>4. calls'[c] = again
    BY <2>3 DEF TypeOK, CallsOK
  <2>5. CallInv(c)
    BY SerialInvParts
  <2>6. CallInv(c)'
    BY <2>1, <2>2, <2>4, <2>5 DEF CallInv, InCall, Conflict, NoWrite
  <2>. QED
    BY <2>2, <2>3, <2>6, MovesSerial DEF Conflict
<1>. QED
  BY <1>1, <1>2 DEF Conflict

LEMMA CallAddRefSerial ==
    ASSUME TypeOK, SerialInv, NEW c \in Callers, NEW k \in Keys, NEW r \in Refs,
           NEW m \in BOOLEAN, NEW id \in Ids \cup {NoId}, CallAddRef(c, k, r, m, id)
    PROVE  SerialInv'
<1> DEFINE call == [op |-> "AddRef", pc |-> "read", key |-> k, ref |-> r, manage |-> m,
                    externalID |-> id, obj |-> NoEntry, tries |-> 0]
<1>1. call \in Call /\ call.pc = "read" /\ call.op = "AddRef" /\ call.ref = r
  BY DEF Call
<1>2. calls' = [calls EXCEPT ![c] = call]
  BY DEF CallAddRef, Begin
<1>. HIDE DEF call
<1>3. calls'[c] = call
  BY <1>2 DEF TypeOK, CallsOK
<1>4. CallInv(c)'
  BY <1>1, <1>3 DEF CallInv, InCall, CallAddRef
<1>. QED
  BY <1>1, <1>2, <1>4, MovesSerial DEF CallAddRef

LEMMA CallReleaseSerial ==
    ASSUME TypeOK, SerialInv, NEW c \in Callers, NEW k \in Keys, NEW r \in Refs, CallRelease(c, k, r)
    PROVE  SerialInv'
<1> DEFINE call == [op |-> "Release", pc |-> "read", key |-> k, ref |-> r, manage |-> FALSE,
                    externalID |-> NoId, obj |-> NoEntry, tries |-> 0]
<1>1. call \in Call /\ call.pc = "read" /\ call.op = "Release" /\ call.ref = r /\ call.key = k
  BY DEF Call
<1>2. calls' = [calls EXCEPT ![c] = call]
  BY DEF CallRelease, Begin
<1>. HIDE DEF call
<1>3. calls'[c] = call
  BY <1>2 DEF TypeOK, CallsOK
<1>4. \A l \in Keys : held'[l] \subseteq held[l]
  BY DEF CallRelease, TypeOK
<1>5. r \notin held'[k]
  BY DEF CallRelease, TypeOK
<1>6. entries'[k] # NoEntry /\ r \in entries'[k].refs
  BY DEF CallRelease, NoWrite, SerialInv
<1>7. CallInv(c)'
  BY <1>1, <1>3, <1>5, <1>6 DEF CallInv, InCall, CallRelease
<1>. QED
  BY <1>1, <1>2, <1>4, <1>7, MovesSerial DEF CallRelease

LEMMA WithRefFields ==
    ASSUME NEW e \in Entry, NEW r \in Refs, NEW m \in BOOLEAN, NEW id \in Ids \cup {NoId}
    PROVE  LET new == WithRef(e, r, m, id)
           IN  /\ new.refs = e.refs \cup {r}
               /\ new.terminating = e.terminating
               /\ new.version = e.version
BY DEF WithRef, Entry

LEMMA WithoutRefFields ==
    ASSUME NEW e \in Entry, NEW r
    PROVE  LET new == WithoutRef(e, r)
           IN  /\ new.refs = e.refs \ {r}
               /\ new.terminating <=> e.terminating \/ e.refs \subseteq {r}
               /\ new.version = e.version
BY DEF WithoutRef, Entry

LEMMA AddRefReadSerial ==
    ASSUME TypeOK, SerialInv, NEW c \in Callers, AddRefRead(c)
    PROVE  SerialInv'
<1> DEFINE call == calls[c]
           e == cache[call.key]
           new == WithRef(e, call.ref, call.manage, call.externalID)
<1>1. /\ call \in Call /\ call # Idle /\ call.op = "AddRef" /\ call.key \in Keys /\ call.ref \in Refs
      /\ call.manage \in BOOLEAN /\ call.externalID \in Ids \cup {NoId}
  BY CallType DEF AddRefRead, InCall, TypeOK, CallsOK, Call
<1>2. cache = entries /\ CallInv(c) /\ Owner[call.ref] = c
  BY <1>1, SerialInvParts DEF SerialInv, CallInv
<1>3. CASE Return(c) /\ UNCHANGED held
  BY <1>3, QuietSerial DEF AddRefRead, TypeOK
<1>4. CASE Joinable(e) /\ new = e /\ Return(c) /\ Hold(call.key, call.ref)
  <2>1. e \in Entry /\ e # NoEntry /\ call.ref \in e.refs
    <3>1. e \in Entry /\ e # NoEntry
      BY <1>1, <1>4 DEF Joinable, TypeOK
    <3>. QED
      BY <1>1, <1>4, <3>1, WithRefFields
  <2>2. \A k \in Keys : held'[k] = IF k = call.key THEN held[k] \cup {call.ref} ELSE held[k]
    BY <1>4, <1>1 DEF Hold, TypeOK
  <2>3. EntryInv /\ DeletionIsExclusive /\ \A d \in Callers : CallInv(d)
    BY SerialInvParts
  <2>4. EntryInv'
    <3>1. \A k \in Keys : held'[k] # {} => entries[k] # NoEntry /\ held'[k] \subseteq entries[k].refs
      <4>. SUFFICES ASSUME NEW k \in Keys, held'[k] # {}
                    PROVE  entries[k] # NoEntry /\ held'[k] \subseteq entries[k].refs
        OBVIOUS
      <4>1. held[k] # {} => entries[k] # NoEntry /\ held[k] \subseteq entries[k].refs
        BY <2>3 DEF EntryInv, HeldIsRecorded
      <4>2. CASE k = call.key
        <5>1. entries[k] = e /\ held'[k] = held[k] \cup {call.ref}
          BY <1>2, <2>2, <4>2
        <5>. QED
          BY <2>1, <4>1, <5>1
      <4>3. CASE k # call.key
        BY <2>2, <4>1, <4>3
      <4>. QED
        BY <4>2, <4>3
    <3>. QED
      BY <2>3, <3>1, EntriesQuiet DEF AddRefRead
  <2>5. \A d \in Callers : CallInv(d)'
    <3>. SUFFICES ASSUME NEW d \in Callers PROVE CallInv(d)'
      OBVIOUS
    <3>1. CASE d = c
      BY <3>1, <1>4, IdleCall DEF Return, TypeOK, CallsOK
    <3>2. CASE d # c
      <4>1. calls'[d] = calls[d]
        BY <3>2, <1>4 DEF Return, TypeOK, CallsOK
      <4>2. calls[d] # Idle => calls[d].key \in Keys
        BY CallType DEF Call
      <4>3. calls[d] # Idle /\ calls[d].op = "Release" => calls[d].ref # call.ref
        BY <3>2, <1>2, <2>3 DEF CallInv
      <4>. QED
        BY <2>2, <2>3, <4>1, <4>2, <4>3, BystanderQuiet DEF AddRefRead
    <3>. QED
      BY <3>1, <3>2
  <2>6. DeletionIsExclusive'
    <3>1. ASSUME NEW d \in Callers, NEW k \in Keys, Deletes(d, k)'
          PROVE  Deletes(d, k) /\ entries'[k] = entries[k]
      BY <3>1, <1>4 DEF Deletes, InCall, AddRefRead, NoWrite, Return, TypeOK, CallsOK
    <3>. QED
      BY <2>3, <3>1, DeletionKept
  <2>. QED
    BY <2>4, <2>5, <2>6, SerialInvParts
<1>5. CASE Joinable(e) /\ Goto(c, "update", new) /\ UNCHANGED held
  <2>1. e \in Entry /\ e # NoEntry /\ ~e.terminating
    BY <1>1, <1>5 DEF Joinable, TypeOK
  <2>2. new \in Entry /\ new.version = e.version
    BY <1>1, <2>1, WithRefFields, WithRefType
  <2>. DEFINE next == [call EXCEPT !.pc = "update", !.obj = new]
  <2>3. /\ next \in Call /\ next.pc = "update" /\ next.obj = new /\ next.op = "AddRef"
        /\ next.key = call.key /\ next.ref = call.ref /\ next.manage = call.manage
        /\ next.externalID = call.externalID
    <3>. HIDE DEF call, new
    <3>. QED
      BY <1>1, <2>2 DEF Call
  <2>4. calls' = [calls EXCEPT ![c] = next]
    BY <1>5 DEF Goto, TypeOK, CallsOK
  <2>. HIDE DEF next
  <2>5. calls'[c] = next
    BY <2>4 DEF TypeOK, CallsOK
  <2>6. entries[call.key].version <= version
    BY <1>1, <1>2, <2>1, SerialInvParts DEF EntryInv
  <2>7. CallInv(c)'
    BY <1>1, <1>2, <2>1, <2>2, <2>3, <2>5, <2>6 DEF CallInv, InCall, AddRefRead, NoWrite
  <2>. QED
    BY <1>5, <2>3, <2>4, <2>7, MovesSerial DEF AddRefRead
<1>. QED
  BY <1>3, <1>4, <1>5 DEF AddRefRead

LEMMA ReleaseReadSerial ==
    ASSUME TypeOK, SerialInv, NEW c \in Callers, ReleaseRead(c)
    PROVE  SerialInv'
<1> DEFINE call == calls[c]
           e == cache[call.key]
           new == WithoutRef(e, call.ref)
<1>1. /\ call \in Call /\ call # Idle /\ call.op = "Release" /\ call.pc = "read"
      /\ call.key \in Keys /\ call.ref \in Refs
  BY CallType DEF ReleaseRead, InCall, TypeOK, CallsOK, Call
<1>2. cache = entries /\ CallInv(c)
  BY <1>1, SerialInvParts DEF SerialInv
<1>3. e \in Entry /\ e # NoEntry /\ call.ref \in e.refs /\ call.ref \notin held[call.key]
  BY <1>1, <1>2 DEF CallInv, TypeOK
<1>4. new \in Entry /\ new.version = e.version /\ new # e
  BY <1>3, WithoutRefFields, WithoutRefType
<1>5. Goto(c, "update", new) /\ UNCHANGED pending
  BY <1>3, <1>4 DEF ReleaseRead
<1>. DEFINE next == [call EXCEPT !.pc = "update", !.obj = new]
<1>6. /\ next \in Call /\ next.pc = "update" /\ next.obj = new /\ next.op = "Release"
      /\ next.key = call.key /\ next.ref = call.ref
  <2>. HIDE DEF call, new
  <2>. QED
    BY <1>1, <1>4 DEF Call
<1>7. calls' = [calls EXCEPT ![c] = next]
  BY <1>5 DEF Goto, TypeOK, CallsOK
<1>. HIDE DEF next
<1>8. calls'[c] = next
  BY <1>7 DEF TypeOK, CallsOK
<1>9. entries[call.key].version <= version
  BY <1>1, <1>2, <1>3, SerialInvParts DEF EntryInv
<1>10. CallInv(c)'
  BY <1>1, <1>2, <1>3, <1>4, <1>6, <1>8, <1>9 DEF CallInv, InCall, ReleaseRead, NoWrite
<1>. QED
  BY <1>5, <1>6, <1>7, <1>10, MovesSerial DEF ReleaseRead

\* A caller stores an entry nobody is deleting, ends its call or goes on to
\* delete the entry, and takes the deletion on only if it marked the entry.
LEMMA StoreSerial ==
    ASSUME Serial, TypeOK, SerialInv, NEW c \in Callers,
           NEW k \in Keys, NEW e \in Entry, Store(k, e),
           e.terminating => e.refs = {},
           \A l \in Keys : l # k => held'[l] = held[l],
           held'[k] \subseteq e.refs,
           \A d \in Callers : d # c => calls'[d] = calls[d],
           \A d \in Callers :
               d # c /\ calls[d] # Idle /\ calls[d].op = "Release" /\ calls[d].pc # "delete" =>
                   /\ calls[d].key = k => calls[d].ref \in e.refs
                   /\ calls[d].ref \in held'[calls[d].key] => calls[d].ref \in held[calls[d].key],
           CallInv(c)',
           \A d \in Callers : ~Deletes(d, k),
           \A d \in Callers, l \in Keys :
               Deletes(d, l)' => Deletes(d, l) \/ (d = c /\ l = k /\ e.terminating)
    PROVE  SerialInv'
<1>1. EntryInv /\ DeletionIsExclusive /\ \A d \in Callers : CallInv(d)
  BY SerialInvParts
<1>2. EntryInv'
  BY <1>1, EntriesStore
<1>3. \A d \in Callers : CallInv(d)'
  BY <1>1, BystanderStore
<1>4. DeletionIsExclusive'
  <2>1. /\ \A l \in Keys : l # k => entries'[l] = entries[l]
        /\ entries'[k] # NoEntry
        /\ entries'[k].terminating = e.terminating
    <3>. DEFINE f == [e EXCEPT !.version = version + 1]
    <3>1. f \in Entry /\ f.terminating = e.terminating
      BY DEF Entry, TypeOK
    <3>2. entries' = [entries EXCEPT ![k] = f]
      BY DEF Store
    <3>. HIDE DEF f
    <3>. QED
      BY <3>1, <3>2, LedgerAssumption DEF TypeOK
  <2>2. CASE e.terminating
    <3>1. entries'[k] # NoEntry /\ entries'[k].terminating
      BY <2>1, <2>2
    <3>2. \A d \in Callers, l \in Keys : Deletes(d, l)' =>
             \/ Deletes(d, l) /\ entries'[l] = entries[l]
             \/ d = c /\ l = k
      BY <2>1
    <3>. QED
      BY <1>1, <3>1, <3>2, DeletionTaken
  <2>3. CASE ~e.terminating
    BY <1>1, <2>1, <2>3, DeletionKept
  <2>. QED
    BY <2>2, <2>3
<1>. QED
  BY <1>2, <1>3, <1>4, SerialInvParts

LEMMA RegisterSerial ==
    ASSUME Serial, TypeOK, SerialInv, NEW c \in Callers, NEW k \in Keys, NEW r \in Refs,
           NEW m \in BOOLEAN, NEW id \in Ids \cup {NoId}, Register(c, k, r, m, id)
    PROVE  SerialInv'
<1> DEFINE e == NewEntry(r, m, id)
<1>1. e \in Entry /\ e.refs = {r} /\ ~e.terminating
  BY DEF NewEntry, Entry, TypeOK
<1>2. Store(k, e) /\ calls' = calls /\ pending' = pending /\ entries[k] = NoEntry /\ calls[c] = Idle
  BY DEF Register, Free
<1>. HIDE DEF e
<1>3. EntryInv /\ DeletionIsExclusive /\ \A d \in Callers : CallInv(d)
  BY SerialInvParts
<1>4. held[k] = {}
  BY <1>2, <1>3 DEF EntryInv, HeldIsRecorded
<1>5. held'[k] \subseteq {r} /\ \A l \in Keys : l # k => held'[l] = held[l]
  BY <1>4 DEF Register, Hold, TypeOK
<1>6. \A d \in Callers : ~Deletes(d, k)
  BY <1>2, <1>3 DEF DeletionIsExclusive
<1>7. \A d \in Callers :
        d # c /\ calls[d] # Idle /\ calls[d].op = "Release" /\ calls[d].pc # "delete" =>
            /\ calls[d].key # k
            /\ calls[d].ref \in held'[calls[d].key] => calls[d].ref \in held[calls[d].key]
  <2>. SUFFICES ASSUME NEW d \in Callers, calls[d] # Idle, calls[d].op = "Release", calls[d].pc # "delete"
                PROVE  /\ calls[d].key # k
                       /\ calls[d].ref \in held'[calls[d].key] => calls[d].ref \in held[calls[d].key]
    OBVIOUS
  <2>1. calls[d].key \in Keys
    BY CallType DEF Call
  <2>2. calls[d].key # k
    BY <1>2, <1>3 DEF CallInv
  <2>. QED
    BY <1>5, <2>1, <2>2
<1>8. CallInv(c)'
  BY <1>2, IdleCall
<1>9. \A d \in Callers, l \in Keys : Deletes(d, l)' => Deletes(d, l)
  BY <1>2 DEF Deletes, InCall
<1>. QED
  BY <1>1, <1>2, <1>5, <1>6, <1>7, <1>8, <1>9, StoreSerial

\* What an update that is accepted stores, and that nobody is deleting the entry.
LEMMA AcceptedUpdate ==
    ASSUME TypeOK, SerialInv, NEW c \in Callers, InCall(c, "update"),
           Current(calls[c].key, calls[c].obj)
    PROVE  LET call == calls[c]
               e == entries[call.key]
           IN  /\ call \in Call /\ call # Idle /\ call.key \in Keys /\ call.ref \in Refs
               /\ call.op # "Finish" /\ Owner[call.ref] = c
               /\ e \in Entry /\ call.obj \in Entry
               /\ held[call.key] \subseteq e.refs
               /\ ~e.terminating
               /\ \A d \in Callers : ~Deletes(d, call.key)
               /\ \/ /\ call.op = "AddRef"
                     /\ call.obj.refs = e.refs \cup {call.ref}
                     /\ ~call.obj.terminating
                     /\ call.obj.managed = (e.managed \/ call.manage)
                  \/ /\ call.op = "Release"
                     /\ call.obj.refs = e.refs \ {call.ref}
                     /\ call.ref \in e.refs
                     /\ call.ref \notin held[call.key]
                     /\ call.obj.terminating <=> call.obj.refs = {}
                     /\ call.obj.managed = e.managed
<1> DEFINE call == calls[c]
           e == entries[call.key]
<1>1. /\ call \in Call /\ call # Idle /\ call.key \in Keys /\ call.op # "Finish"
      /\ call.ref \in Refs /\ call.obj \in Entry /\ call.pc = "update"
      /\ call.manage \in BOOLEAN /\ call.externalID \in Ids \cup {NoId}
  BY CallType DEF InCall, TypeOK, CallsOK, Call
<1>2. EntryInv /\ DeletionIsExclusive /\ CallInv(c)
  BY SerialInvParts
<1>3. e # NoEntry /\ e \in Entry
  BY <1>1 DEF Current, TypeOK
<1>4. Owner[call.ref] = c
  BY <1>1, <1>2 DEF CallInv
<1>5. held[call.key] \subseteq e.refs
  BY <1>1, <1>2 DEF EntryInv, HeldIsRecorded
<1>6. CASE call.op = "AddRef"
  <2>1. ~e.terminating /\ call.obj = WithRef(e, call.ref, call.manage, call.externalID)
    BY <1>1, <1>2, <1>6 DEF CallInv
  <2>2. /\ call.obj.refs = e.refs \cup {call.ref}
        /\ ~call.obj.terminating
    BY <1>1, <1>3, <2>1, WithRefFields
  <2>3. call.obj.managed = (e.managed \/ call.manage)
    BY <1>1, <1>3, <2>1 DEF WithRef, Entry
  <2>4. \A d \in Callers : ~Deletes(d, call.key)
    BY <1>1, <1>2, <2>1 DEF DeletionIsExclusive
  <2>. QED
    BY <1>1, <1>3, <1>4, <1>5, <1>6, <2>1, <2>2, <2>3, <2>4
<1>7. CASE call.op = "Release"
  <2>1. call.obj = WithoutRef(e, call.ref) /\ call.ref \in e.refs /\ call.ref \notin held[call.key]
    BY <1>1, <1>2, <1>7 DEF CallInv
  <2>2. ~e.terminating
    BY <1>1, <1>2, <1>3, <2>1 DEF EntryInv, TerminatingHasNoRefs
  <2>3. call.obj.refs = e.refs \ {call.ref} /\ (call.obj.terminating <=> call.obj.refs = {})
    BY <1>3, <2>1, <2>2, WithoutRefFields
  <2>4. call.obj.managed = e.managed
    BY <1>3, <2>1 DEF WithoutRef, Entry
  <2>5. \A d \in Callers : ~Deletes(d, call.key)
    BY <1>1, <1>2, <2>2 DEF DeletionIsExclusive
  <2>. QED
    BY <1>1, <1>3, <1>4, <1>5, <1>7, <2>1, <2>2, <2>3, <2>4, <2>5
<1>. QED
  BY <1>1, <1>6, <1>7 DEF Call

LEMMA UpdatedSerial ==
    ASSUME Serial, TypeOK, SerialInv, NEW c \in Callers, Updated(c) \/ UpdatedUnanswered(c)
    PROVE  SerialInv'
<1> DEFINE call == calls[c]
           k == call.key
           obj == call.obj
<1>1. InCall(c, "update") /\ Current(k, obj) /\ Store(k, obj)
  BY DEF Updated, UpdatedUnanswered
<1>2. /\ call # Idle /\ call \in Call /\ k \in Keys /\ call.ref \in Refs /\ Owner[call.ref] = c
      /\ call.op # "Finish" /\ obj \in Entry /\ entries[k] \in Entry
      /\ held[k] \subseteq entries[k].refs
      /\ \A d \in Callers : ~Deletes(d, k)
  BY <1>1, AcceptedUpdate
<1>3. \/ /\ call.op = "AddRef"
         /\ obj.refs = entries[k].refs \cup {call.ref}
         /\ ~obj.terminating
      \/ /\ call.op = "Release"
         /\ obj.refs = entries[k].refs \ {call.ref}
         /\ call.ref \notin held[k]
         /\ obj.terminating <=> obj.refs = {}
  BY <1>1, AcceptedUpdate
<1>4. \/ Return(c) /\ Hold(k, call.ref) /\ UNCHANGED pending /\ call.op = "AddRef"
      \/ Return(c) /\ UNCHANGED held /\ UNCHANGED pending
      \/ Return(c) /\ UNCHANGED held /\ obj.refs = {} /\ pending' = [pending EXCEPT ![c] = {k}]
         /\ call.op = "Release"
      \/ Goto(c, "delete", obj) /\ UNCHANGED held /\ obj.refs = {} /\ UNCHANGED pending
         /\ call.op = "Release"
  BY <1>2, <1>3 DEF Updated, UpdatedUnanswered, Released
<1>5. CallInv(c) /\ \A d \in Callers : CallInv(d)
  BY SerialInvParts
<1>. HIDE DEF obj
<1>6. obj.terminating => obj.refs = {}
  BY <1>3
<1>7. held'[k] \subseteq obj.refs /\ \A l \in Keys : l # k => held'[l] = held[l]
  BY <1>2, <1>3, <1>4 DEF Hold, TypeOK
<1>8. \A d \in Callers : d # c => calls'[d] = calls[d]
  BY <1>4 DEF Return, Goto, TypeOK, CallsOK
<1>9. ASSUME NEW d \in Callers, d # c, calls[d] # Idle, calls[d].op = "Release", calls[d].pc # "delete"
      PROVE  /\ calls[d].key = k => calls[d].ref \in obj.refs
             /\ calls[d].ref \in held'[calls[d].key] => calls[d].ref \in held[calls[d].key]
  <2>1. calls[d].ref # call.ref /\ calls[d].key \in Keys
    BY <1>2, <1>5, <1>9, CallType DEF CallInv, Call
  <2>2. calls[d].key = k => calls[d].ref \in entries[k].refs
    BY <1>5, <1>9 DEF CallInv
  <2>. QED
    BY <1>2, <1>3, <1>4, <2>1, <2>2 DEF Hold, TypeOK
<1>10. calls'[c] = Idle \/ (calls'[c] # Idle /\ calls'[c].pc = "delete" /\ calls'[c].op = "Release"
                             /\ calls'[c].key = k /\ calls'[c].ref = call.ref /\ obj.refs = {})
  <2>1. CASE Return(c)
    BY <2>1 DEF Return, TypeOK, CallsOK
  <2>2. CASE Goto(c, "delete", obj) /\ obj.refs = {} /\ call.op = "Release"
    <3>. DEFINE next == [call EXCEPT !.pc = "delete", !.obj = obj]
    <3>1. /\ next \in Call /\ next.pc = "delete" /\ next.op = call.op
          /\ next.key = k /\ next.ref = call.ref
      <4>. HIDE DEF call
      <4>. QED
        BY <1>2 DEF Call
    <3>2. calls'[c] = next
      BY <2>2 DEF Goto, TypeOK, CallsOK
    <3>. HIDE DEF next
    <3>. QED
      BY <2>2, <3>1, <3>2, LedgerAssumption
  <2>. QED
    BY <1>4, <2>1, <2>2
<1>11. CallInv(c)'
  BY <1>2, <1>10 DEF CallInv, InCall
<1>12. ASSUME NEW d \in Callers, NEW l \in Keys, Deletes(d, l)'
       PROVE  Deletes(d, l) \/ (d = c /\ l = k /\ obj.terminating)
  <2>1. CASE d # c
    BY <1>4, <1>8, <1>12, <2>1 DEF Deletes, InCall, TypeOK
  <2>2. CASE d = c
    <3>1. CASE l \in pending'[c]
      <4>1. CASE UNCHANGED pending
        BY <2>2, <3>1, <4>1 DEF Deletes
      <4>2. CASE pending' = [pending EXCEPT ![c] = {k}] /\ obj.refs = {} /\ call.op = "Release"
        <5>1. l = k
          BY <3>1, <4>2 DEF TypeOK
        <5>2. obj.terminating
          BY <1>3, <4>2
        <5>. QED
          BY <2>2, <5>1, <5>2
      <4>. QED
        BY <1>4, <4>1, <4>2
    <3>2. CASE l \notin pending'[c]
      <4>1. InCall(c, "delete")' /\ calls'[c].key = l
        BY <1>12, <2>2, <3>2 DEF Deletes
      <4>2. calls'[c].key = k /\ call.op = "Release" /\ obj.refs = {}
        BY <1>4, <1>10, <4>1 DEF InCall, Return, TypeOK, CallsOK
      <4>. QED
        BY <1>3, <2>2, <4>1, <4>2
    <3>. QED
      BY <3>1, <3>2
  <2>. QED
    BY <2>1, <2>2
<1>13. obj \in Entry /\ Store(k, obj)
  BY <1>1, <1>2 DEF obj
<1>. HIDE DEF k, call
<1>. QED
  BY <1>2, <1>6, <1>7, <1>8, <1>9, <1>11, <1>12, <1>13, StoreSerial

LEMMA DeleteSerial ==
    ASSUME Serial, TypeOK, SerialInv, NEW c \in Callers, Delete(c)
    PROVE  SerialInv'
<1> DEFINE k == calls[c].key
<1>1. k \in Keys /\ Deletes(c, k) /\ calls[c] # Idle
  BY CallType DEF Delete, InCall, Call, Deletes
<1>2. EntryInv /\ DeletionIsExclusive /\ \A d \in Callers : CallInv(d)
  BY SerialInvParts
<1>3. entries[k] # NoEntry /\ entries[k].terminating /\ \A d \in Callers : Deletes(d, k) => d = c
  BY <1>1, <1>2 DEF DeletionIsExclusive
<1>4. Remove(k) /\ UNCHANGED held /\ calls' = [calls EXCEPT ![c] = Idle]
      /\ pending' = [pending EXCEPT ![c] = @ \ {k}]
  BY DEF Delete, Return
<1>. HIDE DEF k
<1>5. EntryInv'
  BY <1>1, <1>2, <1>3, <1>4, EntriesRemove
<1>6. \A d \in Callers : CallInv(d)'
  BY <1>1, <1>2, <1>3, <1>4, IdleCall, BystanderRemove DEF EntryInv, TypeOK, CallsOK
<1>7. DeletionIsExclusive'
  <2>1. ASSUME NEW d \in Callers, NEW l \in Keys, Deletes(d, l)'
        PROVE  Deletes(d, l) /\ entries'[l] = entries[l]
    <3>1. Deletes(d, l) /\ ~(d = c /\ l = k)
      BY <1>4, <2>1 DEF Deletes, InCall, TypeOK, CallsOK
    <3>2. l # k
      BY <1>3, <3>1
    <3>. QED
      BY <1>4, <3>1, <3>2 DEF Remove, TypeOK
  <2>. QED
    BY <1>2, <2>1, DeletionKept
<1>. QED
  BY <1>5, <1>6, <1>7, SerialInvParts

LEMMA SweepSerial ==
    ASSUME Serial, TypeOK, SerialInv, NEW c \in Callers, Sweep(c)
    PROVE  SerialInv'
<1>1. EntryInv /\ DeletionIsExclusive /\ \A d \in Callers : CallInv(d)
  BY SerialInvParts
<1>2. NoWrite /\ UNCHANGED <<calls, held>>
      /\ pending' = [pending EXCEPT ![c] = {k \in Keys : Abandoned(cache[k])}]
  BY DEF Sweep
<1>3. \A d \in Callers, k \in Keys : ~Deletes(d, k)
  BY DEF Sweep, Serial, Deleting, Deletes
<1>4. EntryInv'
  BY <1>1, <1>2, EntriesQuiet DEF EntryInv, HeldIsRecorded
<1>5. \A d \in Callers : CallInv(d)'
  BY <1>1, <1>2, BystanderQuiet
<1>6. \A d \in Callers, k \in Keys : Deletes(d, k)' => d = c /\ Abandoned(entries[k])
  <2>1. \A d \in Callers : ~(calls[d] # Idle /\ calls[d].pc = "delete")
    BY DEF Sweep, Serial, Deleting, InCall
  <2>. QED
    BY <1>1, <1>2, <1>3, <2>1 DEF Deletes, InCall, EntryInv, TypeOK
<1>7. DeletionIsExclusive'
  BY <1>2, <1>6 DEF DeletionIsExclusive, Abandoned, NoWrite
<1>. QED
  BY <1>4, <1>5, <1>7, SerialInvParts

LEMMA FinishReadSerial ==
    ASSUME TypeOK, SerialInv, NEW c \in Callers, NEW k \in Keys, FinishRead(c, k)
    PROVE  SerialInv'
<1> DEFINE call == [op |-> "Finish", pc |-> "delete", key |-> k, ref |-> NoRef,
                    manage |-> FALSE, externalID |-> NoId, obj |-> cache[k], tries |-> 0]
<1>1. EntryInv /\ DeletionIsExclusive /\ \A d \in Callers : CallInv(d)
  BY SerialInvParts
<1>2. Deletes(c, k) /\ NoWrite /\ UNCHANGED held /\ calls[c] = Idle
  BY DEF Deletes, FinishRead
<1>3. cache[k] # NoEntry
  BY <1>1, <1>2 DEF EntryInv, DeletionIsExclusive
<1>4. calls' = [calls EXCEPT ![c] = call] /\ UNCHANGED pending
  BY <1>3 DEF FinishRead
<1>5. call.op = "Finish" /\ call.pc = "delete" /\ call.key = k
  OBVIOUS
<1>. HIDE DEF call
<1>6. calls'[c] = call /\ \A d \in Callers : d # c => calls'[d] = calls[d]
  BY <1>4 DEF TypeOK, CallsOK
<1>7. EntryInv'
  BY <1>1, <1>2, EntriesQuiet DEF EntryInv, HeldIsRecorded
<1>8. \A d \in Callers : CallInv(d)'
  <2>1. CallInv(c)'
    BY <1>5, <1>6 DEF CallInv, InCall
  <2>. QED
    BY <1>1, <1>2, <1>6, <2>1, BystanderQuiet
<1>9. DeletionIsExclusive'
  <2>1. ASSUME NEW d \in Callers, NEW l \in Keys, Deletes(d, l)'
        PROVE  Deletes(d, l) /\ entries'[l] = entries[l]
    BY <1>2, <1>4, <1>5, <1>6, <2>1 DEF Deletes, InCall, NoWrite
  <2>. QED
    BY <1>1, <2>1, DeletionKept
<1>. QED
  BY <1>7, <1>8, <1>9, SerialInvParts

-----------------------------------------------------------------------------
LEMMA SerialStep == Serial /\ TypeOK /\ SerialInv /\ [Next]_vars => SerialInv'
<1>. SUFFICES ASSUME Serial, TypeOK, SerialInv, [Next]_vars PROVE SerialInv'
  OBVIOUS
<1>1. CASE UNCHANGED vars
  <2>1. NoWrite /\ UNCHANGED <<calls, pending, held>>
    BY <1>1 DEF vars, NoWrite
  <2>2. CASE Callers = {}
    BY <2>1, <2>2 DEF SerialInv, OwnCalls, VersionsIssued, UpdatesAreFresh, ReleasedIsRecorded,
       DeletionIsExclusive, TerminatingHasNoRefs, HeldIsRecorded, NoWrite
  <2>3. CASE Callers # {}
    BY <2>1, <2>3, QuietSerial
  <2>. QED
    BY <2>2, <2>3
<1>2. CASE Sync
  BY <1>2 DEF Sync, Serial
<1>3. ASSUME NEW c \in Callers, CallerStep(c) PROVE SerialInv'
  BY <1>3, RegisterSerial, CallAddRefSerial, CallReleaseSerial, AddRefReadSerial, ReleaseReadSerial,
     UpdatedSerial, ConflictSerial, FinishReadSerial, DeleteSerial, SweepSerial, EndsSerial DEF CallerStep
<1>. QED
  BY <1>1, <1>2, <1>3 DEF Next, CallerStep

LEMMA SerialInit == Init => SerialInv
BY DEF Init, SerialInv, OwnCalls, VersionsIssued, UpdatesAreFresh, ReleasedIsRecorded,
   DeletionIsExclusive, TerminatingHasNoRefs, HeldIsRecorded, InCall, Deletes

\* The invariant the other theorems rest on.
THEOREM SerialInvariant == Serial => (Spec => []SerialInv)
<1>. SUFFICES ASSUME Serial PROVE Spec => []SerialInv
  OBVIOUS
<1>1. TypeOK /\ SerialInv /\ [Next]_vars => SerialInv'
  BY SerialStep
<1>. QED
  BY <1>1, SerialInit, Typing, PTL DEF Spec

\* Every step takes on a deletion together with the Finish that follows it, and
\* gives up the deletion whenever it gives up the Finish.
LEMMA FinishedAfterwardsStep == TypeOK /\ FinishedAfterwards /\ [Next]_vars => FinishedAfterwards'
<1>. SUFFICES ASSUME TypeOK, FinishedAfterwards, [Next]_vars PROVE FinishedAfterwards'
  OBVIOUS
<1>1. CASE UNCHANGED vars \/ Sync
  BY <1>1 DEF vars, Sync, FinishedAfterwards
<1>2. ASSUME NEW c \in Callers, CallerStep(c) PROVE FinishedAfterwards'
  <2>1. CASE UNCHANGED <<pending, toDelete>>
    BY <2>1 DEF FinishedAfterwards
  <2>2. CASE /\ pending' = [pending EXCEPT ![c] = {calls[c].key}]
             /\ toDelete' = [toDelete EXCEPT ![c] = {calls[c].key}]
    BY <2>2 DEF FinishedAfterwards, TypeOK
  <2>3. CASE \E k : /\ pending' = [pending EXCEPT ![c] = @ \ {k}]
                    /\ toDelete' = [toDelete EXCEPT ![c] = @ \ {k}]
    BY <2>3 DEF FinishedAfterwards, TypeOK
  <2>4. CASE Sweep(c) \/ Abort(c)
    BY <2>4 DEF Sweep, Abort, FinishedAfterwards, TypeOK
  <2>. QED
    BY <1>2, <2>1, <2>2, <2>3, <2>4
       DEF CallerStep, Register, CallAddRef, CallRelease, FinishRead, DeleteFails, AddRefRead,
           ReleaseRead, Released, Updated, UpdatedUnanswered, Conflict, UpdateNotFound, Delete
<1>. QED
  BY <1>1, <1>2 DEF Next, CallerStep

LEMMA AlwaysFinishedAfterwards == Spec => []FinishedAfterwards
<1>1. Init => FinishedAfterwards
  BY DEF Init, FinishedAfterwards
<1>. QED
  BY <1>1, FinishedAfterwardsStep, Typing, PTL DEF Spec

\* A reference whose owner was told of it stays recorded until its owner releases
\* it, however the updates of the same entry interleave (ledger.go:4-7).
THEOREM NoReferenceLost == Serial => (Spec => []HeldIsRecorded)
<1>. SUFFICES ASSUME Serial PROVE Spec => []HeldIsRecorded
  OBVIOUS
<1>1. SerialInv => HeldIsRecorded
  BY DEF SerialInv
<1>. QED
  BY <1>1, SerialInvariant, PTL

\* No caller is to delete a resource some owner was told it may use
\* (ledger.go:9-12).
THEOREM InUseIsKept == Serial => (Spec => []NeverDeletedInUse)
<1>. SUFFICES ASSUME Serial PROVE Spec => []NeverDeletedInUse
  OBVIOUS
<1>1. TypeOK /\ SerialInv /\ FinishedAfterwards => NeverDeletedInUse
  BY DEF TypeOK, SerialInv, DeletionIsExclusive, Deletes, TerminatingHasNoRefs, HeldIsRecorded,
     FinishedAfterwards, NeverDeletedInUse
<1>. QED
  BY <1>1, SerialInvariant, AlwaysFinishedAfterwards, Typing, PTL

\* At most one caller is told to delete a resource (ledger_test.go:192).
THEOREM SingleDeleter == Serial => (Spec => []OneDeleter)
<1>. SUFFICES ASSUME Serial PROVE Spec => []OneDeleter
  OBVIOUS
<1>1. TypeOK /\ SerialInv /\ FinishedAfterwards => OneDeleter
  BY DEF TypeOK, SerialInv, DeletionIsExclusive, Deletes, FinishedAfterwards, OneDeleter
<1>. QED
  BY <1>1, SerialInvariant, AlwaysFinishedAfterwards, Typing, PTL

-----------------------------------------------------------------------------
(* The ledger implements LedgerSpec. *)

\* What LedgerSpec sees of an entry.
StateOf(e) == IF e = NoEntry THEN "absent" ELSE IF e.terminating THEN "terminating" ELSE "live"
UsersOf(e) == IF e = NoEntry THEN {} ELSE e.refs
OwnedOf(e) == IF e = NoEntry THEN FALSE ELSE e.managed

\* The steps of LedgerSpec, said of entries.
Opens(k, r, m) ==
    /\ entries[k] = NoEntry
    /\ StateOf(entries'[k]) = "live" /\ UsersOf(entries'[k]) = {r} /\ OwnedOf(entries'[k]) = m
Joins(k, r, m) ==
    /\ StateOf(entries[k]) = "live" /\ StateOf(entries'[k]) = "live"
    /\ UsersOf(entries'[k]) = UsersOf(entries[k]) \cup {r}
    /\ OwnedOf(entries'[k]) = (OwnedOf(entries[k]) \/ m)
Leaves(k, r) ==
    /\ StateOf(entries[k]) = "live"
    /\ UsersOf(entries'[k]) = UsersOf(entries[k]) \ {r}
    /\ OwnedOf(entries'[k]) = OwnedOf(entries[k])
    /\ \/ UsersOf(entries[k]) \ {r} # {} /\ StateOf(entries'[k]) = "live"
       \/ UsersOf(entries[k]) = {r} /\ StateOf(entries'[k]) = "terminating"
Closes(k) ==
    StateOf(entries[k]) = "terminating" /\ entries'[k] = NoEntry

\* One entry changes, as LedgerSpec lets it.
EntryStep(k) ==
    /\ \A l \in Keys \ {k} : entries'[l] = entries[l]
    /\ \/ \E r \in Refs, m \in BOOLEAN : Opens(k, r, m) \/ Joins(k, r, m)
       \/ \E r \in Refs : Leaves(k, r)
       \/ Closes(k)

\* A create request opens the entry.
LEMMA RegisterOpens ==
    ASSUME TypeOK, NEW c \in Callers, NEW k \in Keys, NEW r \in Refs,
           NEW m \in BOOLEAN, NEW id \in Ids \cup {NoId}, Register(c, k, r, m, id)
    PROVE  EntryStep(k)
<1> DEFINE f == [NewEntry(r, m, id) EXCEPT !.version = version + 1]
<1>1. entries[k] = NoEntry /\ entries' = [entries EXCEPT ![k] = f]
  BY DEF Register, Store
<1>2. f \in Entry /\ f.refs = {r} /\ f.managed = m /\ ~f.terminating
  <2>1. version + 1 \in Nat
    BY DEF TypeOK
  <2>2. NewEntry(r, m, id) \in Entry
    BY <2>1 DEF NewEntry, Entry
  <2>3. /\ NewEntry(r, m, id).refs = {r} /\ NewEntry(r, m, id).managed = m
        /\ ~NewEntry(r, m, id).terminating
    BY DEF NewEntry
  <2>. QED
    BY <2>1, <2>2, <2>3 DEF Entry
<1>. HIDE DEF f
<1>3. entries'[k] = f /\ f # NoEntry /\ \A l \in Keys \ {k} : entries'[l] = entries[l]
  BY <1>1, <1>2, LedgerAssumption DEF TypeOK
<1>. QED
  BY <1>1, <1>2, <1>3 DEF EntryStep, Opens, StateOf, UsersOf, OwnedOf

\* An accepted update joins a live entry, or leaves it.
LEMMA UpdateJoinsOrLeaves ==
    ASSUME TypeOK, SerialInv, NEW c \in Callers, Updated(c) \/ UpdatedUnanswered(c)
    PROVE  EntryStep(calls[c].key)
<1> DEFINE call == calls[c]
           k == call.key
           obj == call.obj
           e == entries[k]
           f == [obj EXCEPT !.version = version + 1]
<1>1. InCall(c, "update") /\ Current(k, obj) /\ Store(k, obj)
  BY DEF Updated, UpdatedUnanswered
<1>2. /\ call # Idle /\ call \in Call /\ k \in Keys /\ call.ref \in Refs
      /\ obj \in Entry /\ e \in Entry /\ e # NoEntry
      /\ call.manage \in BOOLEAN /\ call.externalID \in Ids \cup {NoId}
  BY <1>1, AcceptedUpdate, LedgerAssumption DEF Current, Call
<1>3. \/ /\ call.op = "AddRef"
         /\ ~e.terminating
         /\ obj = WithRef(e, call.ref, call.manage, call.externalID)
      \/ /\ call.op = "Release" /\ call.pc # "delete"
         /\ obj = WithoutRef(e, call.ref)
  BY <1>1 DEF SerialInv, UpdatesAreFresh, InCall
<1>4. entries' = [entries EXCEPT ![k] = f]
  BY <1>1 DEF Store
<1>5. /\ f \in Entry /\ f.refs = obj.refs /\ f.managed = obj.managed
      /\ f.terminating = obj.terminating
  <2>. HIDE DEF obj
  <2>1. version + 1 \in Nat
    BY DEF TypeOK
  <2>. QED
    BY <1>2, <2>1 DEF Entry
<1>. HIDE DEF f, obj, e
<1>6. entries'[k] = f /\ f # NoEntry /\ \A l \in Keys \ {k} : entries'[l] = entries[l]
  BY <1>2, <1>4, <1>5, LedgerAssumption DEF TypeOK
<1>7. CASE obj = WithRef(e, call.ref, call.manage, call.externalID) /\ ~e.terminating
  <2>1. /\ obj.refs = e.refs \cup {call.ref} /\ ~obj.terminating
        /\ obj.managed = (e.managed \/ call.manage)
    BY <1>2, <1>7 DEF WithRef, Entry
  <2>2. Joins(k, call.ref, call.manage)
    BY <1>2, <1>5, <1>6, <1>7, <2>1 DEF Joins, StateOf, UsersOf, OwnedOf, e
  <2>. QED
    BY <1>2, <1>6, <2>2 DEF EntryStep
<1>8. CASE obj = WithoutRef(e, call.ref) /\ call.op = "Release" /\ call.pc # "delete"
  <2>1. call.ref \in e.refs /\ ~e.terminating
    BY <1>2, <1>8 DEF SerialInv, ReleasedIsRecorded, TerminatingHasNoRefs, e
  <2>2. /\ obj.refs = e.refs \ {call.ref} /\ obj.managed = e.managed
        /\ obj.terminating <=> e.refs \subseteq {call.ref}
    BY <1>2, <1>8, <2>1 DEF WithoutRef, Entry
  <2>3. Leaves(k, call.ref)
    BY <1>2, <1>5, <1>6, <2>1, <2>2 DEF Leaves, StateOf, UsersOf, OwnedOf, e
  <2>. QED
    BY <1>2, <1>6, <2>3 DEF EntryStep
<1>. QED
  BY <1>3, <1>7, <1>8

\* A delete request closes a terminating entry.
LEMMA DeleteCloses ==
    ASSUME TypeOK, SerialInv, NEW c \in Callers, Delete(c)
    PROVE  EntryStep(calls[c].key)
<1> DEFINE k == calls[c].key
<1>1. k \in Keys /\ Deletes(c, k) /\ Remove(k)
  BY CallType DEF Delete, InCall, Call, Deletes
<1>2. entries[k] # NoEntry /\ entries[k].terminating
  BY <1>1 DEF SerialInv, DeletionIsExclusive
<1>. HIDE DEF k
<1>3. entries'[k] = NoEntry /\ \A l \in Keys \ {k} : entries'[l] = entries[l]
  BY <1>1 DEF Remove, TypeOK
<1>4. EntryStep(k)
  BY <1>2, <1>3 DEF EntryStep, Closes, StateOf
<1>. QED
  BY <1>4 DEF k

\* Everything else leaves the entries alone.
LEMMA OthersRest ==
    ASSUME NEW c \in Callers,
           \/ \E k \in Keys, r \in Refs, m \in BOOLEAN, id \in Ids \cup {NoId} : CallAddRef(c, k, r, m, id)
           \/ \E k \in Keys, r \in Refs : CallRelease(c, k, r)
           \/ \E k \in Keys : FinishRead(c, k) \/ DeleteFails(c, k)
           \/ AddRefRead(c) \/ ReleaseRead(c) \/ Conflict(c) \/ UpdateNotFound(c)
           \/ Sweep(c) \/ Abort(c)
    PROVE  entries' = entries
BY DEF CallAddRef, CallRelease, FinishRead, DeleteFails, AddRefRead, ReleaseRead, Conflict, UpdateNotFound,
       Sweep, Abort, NoWrite

LEMMA EveryStepIsAnEntryStep ==
    ASSUME TypeOK, SerialInv, [Next]_vars
    PROVE  entries' = entries \/ \E k \in Keys : EntryStep(k)
<1>1. CASE UNCHANGED vars \/ Sync
  BY <1>1 DEF vars, Sync
<1>2. ASSUME NEW c \in Callers, CallerStep(c)
      PROVE  entries' = entries \/ \E k \in Keys : EntryStep(k)
  <2>1. CASE Updated(c) \/ UpdatedUnanswered(c) \/ Delete(c)
    <3>1. calls[c].key \in Keys
      BY <2>1, CallType DEF Updated, UpdatedUnanswered, Delete, InCall, Call
    <3>. QED
      BY <2>1, <3>1, UpdateJoinsOrLeaves, DeleteCloses
  <2>2. CASE \E k \in Keys, r \in Refs, m \in BOOLEAN, id \in Ids \cup {NoId} : Register(c, k, r, m, id)
    BY <2>2, RegisterOpens
  <2>. QED
    BY <1>2, <2>1, <2>2, OthersRest DEF CallerStep
<1>. QED
  BY <1>1, <1>2 DEF Next, CallerStep

\* An entry step is a step of the contract on that key.
LEMMA EntryStepImplements ==
    ASSUME TypeOK, TypeOK', NEW k \in Keys, EntryStep(k)
    PROVE  Contract!Next
<1>. USE DEF StateOf, UsersOf, OwnedOf
<1>1. \A l \in Keys \ {k} : entries'[l] = entries[l]
  BY DEF EntryStep
<1>2. ASSUME NEW r \in Refs, NEW m \in BOOLEAN, Opens(k, r, m)
      PROVE  Contract!Open(k, r, m)
  BY <1>1, <1>2 DEF Opens, Contract!Open
<1>3. ASSUME NEW r \in Refs, NEW m \in BOOLEAN, Joins(k, r, m)
      PROVE  Contract!Join(k, r, m)
  BY <1>1, <1>3 DEF Joins, Contract!Join
<1>4. ASSUME NEW r \in Refs, Leaves(k, r)
      PROVE  Contract!Leave(k, r) \/ Contract!LeaveLast(k, r)
  BY <1>1, <1>4 DEF Leaves, Contract!Leave, Contract!LeaveLast
<1>5. ASSUME Closes(k)
      PROVE  Contract!Close(k)
  <2>1. entries[k] # NoEntry /\ entries[k].terminating /\ entries'[k] = NoEntry
    BY <1>5 DEF Closes
  <2>2. entries' = [entries EXCEPT ![k] = NoEntry]
    BY <1>1, <2>1 DEF TypeOK
  <2>3. \A l \in Keys :
           /\ StateOf(entries'[l]) = IF l = k THEN "absent" ELSE StateOf(entries[l])
           /\ UsersOf(entries'[l]) = IF l = k THEN {} ELSE UsersOf(entries[l])
           /\ OwnedOf(entries'[l]) = IF l = k THEN FALSE ELSE OwnedOf(entries[l])
    BY <1>1, <2>1
  <2>. SUFFICES /\ StateOf(entries[k]) = "terminating"
                /\ [l \in Keys |-> StateOf(entries'[l])] = [[l \in Keys |-> StateOf(entries[l])] EXCEPT ![k] = "absent"]
                /\ [l \in Keys |-> UsersOf(entries'[l])] = [[l \in Keys |-> UsersOf(entries[l])] EXCEPT ![k] = {}]
                /\ [l \in Keys |-> OwnedOf(entries'[l])] = [[l \in Keys |-> OwnedOf(entries[l])] EXCEPT ![k] = FALSE]
    BY DEF Contract!Close
  <2>4. StateOf(entries[k]) = "terminating"
    BY <2>1
  <2>. HIDE DEF StateOf, UsersOf, OwnedOf
  <2>. QED
    BY <2>3, <2>4
<1>. QED
  BY <1>2, <1>3, <1>4, <1>5 DEF EntryStep, Contract!Next

\* The ledger keeps its contract: with versions, caches and retries hidden every step
\* opens, joins, leaves or closes an entry as the package comment promises, or does
\* nothing to it (ledger.go:4-12).
THEOREM LedgerKeepsContract == Serial => (Spec => ContractSpec)
<1>. SUFFICES ASSUME Serial PROVE Spec => ContractSpec
  OBVIOUS
<1>1. Init => Contract!Init
  BY DEF Init, Contract!Init
<1>2. TypeOK /\ TypeOK' /\ SerialInv /\ [Next]_vars => [Contract!Next]_(Contract!vars)
  <2>. SUFFICES ASSUME TypeOK, TypeOK', SerialInv, [Next]_vars
                PROVE  [Contract!Next]_(Contract!vars)
    OBVIOUS
  <2>1. CASE entries' = entries
    BY <2>1 DEF Contract!vars
  <2>2. CASE \E k \in Keys : EntryStep(k)
    BY <2>2, EntryStepImplements
  <2>. QED
    BY <2>1, <2>2, EveryStepIsAnEntryStep
<1>. QED
  BY <1>1, <1>2, SerialInvariant, Typing, PTL DEF Spec, ContractSpec, Contract!Spec
=============================================================================
