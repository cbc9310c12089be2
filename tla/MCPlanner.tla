------------------------------ MODULE MCPlanner ------------------------------
(***************************************************************************)
(* Two robots, of which gr owns one action.  In MCDependency the action    *)
(* drop of pr depends on another; in MCIndependent nothing depends on      *)
(* anything, so that a search of pr has three candidates, which then are   *)
(* interchangeable.                                                        *)
(***************************************************************************)
EXTENDS Planner

CONSTANTS pr, gr, take1, take2, drop, throw

MCOwner == [a \in Actions |-> IF a = throw THEN gr ELSE pr]
MCDependency == [a \in Actions |-> IF a = drop THEN take1 ELSE NoAction]

MCIndependent == [a \in Actions |-> NoAction]
MCSymmetry == Permutations({take1, take2, drop})
=============================================================================
