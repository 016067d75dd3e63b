------------------------------ MODULE MCLedger ------------------------------
(***************************************************************************)
(* Instances of Ledger for TLC: two runs with one reference each and a     *)
(* sweeper that owns none.                                                 *)
(***************************************************************************)
EXTENDS Ledger, TLC

CONSTANTS runA, runB, sweeper, refA, refB

MCOwner == (refA :> runA) @@ (refB :> runB)
=============================================================================
