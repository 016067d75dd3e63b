----------------------------- MODULE LedgerSpec -----------------------------
(***************************************************************************)
(* What the ledger promises, without resource versions, caches or retries: *)
(* every key has a set of users, a user leaves only by its own release,    *)
(* and a key in use is never deleted.  Module Ledger is shown to implement *)
(* it.  It is the contract src/internal/ledger/ledger.go states in its     *)
(* package comment (lines 4 to 12).                                        *)
(***************************************************************************)
CONSTANTS Keys,   \* upstream resources, one ledger entry each
          Refs    \* references: one (run, step) pair each

VARIABLES state,  \* [Keys -> {"absent", "live", "terminating"}]
          users,  \* [Keys -> SUBSET Refs]
          owned   \* [Keys -> BOOLEAN]: the wizard may delete the resource

vars == <<state, users, owned>>

\* Every variable has its type.
TypeOK ==
    /\ state \in [Keys -> {"absent", "live", "terminating"}]
    /\ users \in [Keys -> SUBSET Refs]
    /\ owned \in [Keys -> BOOLEAN]

Init ==
    /\ state = [k \in Keys |-> "absent"]
    /\ users = [k \in Keys |-> {}]
    /\ owned = [k \in Keys |-> FALSE]

\* The first user creates the record of a resource nobody uses.
Open(k, r, m) ==
    /\ state[k] = "absent"
    /\ state' = [state EXCEPT ![k] = "live"]
    /\ users' = [users EXCEPT ![k] = {r}]
    /\ owned' = [owned EXCEPT ![k] = m]

\* A further user joins; nobody joins a resource that is being deleted.
Join(k, r, m) ==
    /\ state[k] = "live"
    /\ users' = [users EXCEPT ![k] = @ \cup {r}]
    /\ owned' = [owned EXCEPT ![k] = @ \/ m]
    /\ UNCHANGED state

\* A user leaves and others remain.
Leave(k, r) ==
    /\ state[k] = "live"
    /\ users[k] \ {r} # {}
    /\ users' = [users EXCEPT ![k] = @ \ {r}]
    /\ UNCHANGED <<state, owned>>

\* The last user leaves: from here on the resource only goes away.
LeaveLast(k, r) ==
    /\ state[k] = "live"
    /\ users[k] = {r}
    /\ state' = [state EXCEPT ![k] = "terminating"]
    /\ users' = [users EXCEPT ![k] = {}]
    /\ UNCHANGED owned

\* The deletion is over and the record goes.
Close(k) ==
    /\ state[k] = "terminating"
    /\ state' = [state EXCEPT ![k] = "absent"]
    /\ users' = [users EXCEPT ![k] = {}]
    /\ owned' = [owned EXCEPT ![k] = FALSE]

Next ==
    \E k \in Keys :
        \/ \E r \in Refs, m \in BOOLEAN : Open(k, r, m) \/ Join(k, r, m)
        \/ \E r \in Refs : Leave(k, r) \/ LeaveLast(k, r)
        \/ Close(k)

Spec == Init /\ [][Next]_vars
=============================================================================
