------------------------------ MODULE RunSpec ------------------------------
(***************************************************************************)
(* What runs promise: a run acquires resources only until its rollback     *)
(* begins, then only gives them up; it counts as rolled back, and its      *)
(* object goes away, only when it holds nothing; and a rolled back run     *)
(* never comes back.  Two modules are shown to implement it, each with     *)
(* what the other leaves open: RunController, which decides when a run     *)
(* acquires and releases but not what that does to the ledger, and         *)
(* Provision, which does it to the ledger.                                 *)
(***************************************************************************)
CONSTANTS Runs,
          Steps   \* step instances, each holding at most one ledger reference

VARIABLES stage,  \* per run: "active", "undoing", "undone" or "gone"
          holds   \* per run: the steps that hold a reference

vars == <<stage, holds>>

\* Every variable has its type.
TypeOK ==
    /\ stage \in [Runs -> {"active", "undoing", "undone", "gone"}]
    /\ holds \in [Runs -> SUBSET Steps]

Init ==
    /\ stage = [r \in Runs |-> "active"]
    /\ holds = [r \in Runs |-> {}]

Acquire(r, s) ==
    /\ stage[r] = "active"
    /\ holds' = [holds EXCEPT ![r] = @ \cup {s}]
    /\ UNCHANGED stage

BeginUndo(r) ==
    /\ stage[r] = "active"
    /\ stage' = [stage EXCEPT ![r] = "undoing"]
    /\ UNCHANGED holds

Release(r) ==
    /\ stage[r] = "undoing"
    /\ \E left \in SUBSET holds[r] : holds' = [holds EXCEPT ![r] = left]
    /\ UNCHANGED stage

EndUndo(r) ==
    /\ stage[r] = "undoing" /\ holds[r] = {}
    /\ stage' = [stage EXCEPT ![r] = "undone"]
    /\ UNCHANGED holds

Disappear(r) ==
    /\ holds[r] = {}
    /\ stage' = [stage EXCEPT ![r] = "gone"]
    /\ UNCHANGED holds

Next ==
    \E r \in Runs :
       \/ \E s \in Steps : Acquire(r, s)
       \/ BeginUndo(r) \/ Release(r) \/ EndUndo(r) \/ Disappear(r)

Spec == Init /\ [][Next]_vars
=============================================================================
