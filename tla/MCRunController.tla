-------------------------- MODULE MCRunController --------------------------
(***************************************************************************)
(* Instances of RunController: two steps, of which an edit of the          *)
(* parameters may drop the second, and steps that give up at the second    *)
(* transient failure.                                                      *)
(***************************************************************************)
EXTENDS RunController

TwoSteps == {1, 2}
EitherPlan == {{1}, {1, 2}}
OnePlan == {{1, 2}}
AllActs == {"retry", "rollback", "apply", "delete", "edit"}
ApiActs == {"retry", "rollback", "delete"}
WithSnapshot == {TRUE}
EitherSnapshot == {TRUE, FALSE}
=============================================================================
