------------------------------ MODULE GoalQueue ------------------------------
(***************************************************************************)
(* What the goal list of an asserv board promises its callers: a first in, *)
(* first out queue of at most MaxGoals goals.  A goal that does not fit is *)
(* refused (FifoPushGoal returns -1), the oldest goal is the one being     *)
(* executed, and clearing forgets them all.  The circular buffer of        *)
(* goals.c is shown to implement it in GoalFifo.                           *)
(***************************************************************************)
EXTENDS Integers, Sequences

CONSTANTS
  MaxGoals,   \* capacity of the list (MAX_GOALS of goals.h)
  Order       \* what a caller hands over: a record [type, data, ID]

VARIABLE queue

Init == queue = <<>>

Push == \E g \in Order :
          queue' = IF Len(queue) < MaxGoals THEN Append(queue, g) ELSE queue

Finish == queue # <<>> /\ queue' = Tail(queue)

Clear == queue' = <<>>

Next == Push \/ Finish \/ Clear

Spec == Init /\ [][Next]_queue
=============================================================================
