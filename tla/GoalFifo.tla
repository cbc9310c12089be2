------------------------------ MODULE GoalFifo -------------------------------
(***************************************************************************)
(* The goal list of the asserv boards, arduino/common/asserv/goals.c: a    *)
(* circular buffer of MaxGoals slots in static memory.  A slot is in use   *)
(* when its type is not NO_GOAL; the goal under execution is the one in    *)
(* the slot current_goal.  The functions of goals.c are operators on the   *)
(* value of the C variable fifo, so that the board (AsservBoard) can use   *)
(* them inside its own steps; the specification below lets a caller invoke *)
(* them in any order.  KEEP_LAST_GOAL is 0 on both robots (parameters.h).  *)
(***************************************************************************)
EXTENDS Integers, Sequences

CONSTANTS
  MaxGoals,   \* MAX_GOALS, 15 on the robots
  GoalTypes,  \* TYPE_POS, TYPE_ANG, TYPE_PWM, TYPE_SPD
  NO_GOAL,    \* the type of a slot that is free
  GoalData,   \* abstraction of the union goal_data
  Ids         \* order ids, uint16_t

ASSUME FifoAssumption ==
  /\ MaxGoals \in Nat \ {0}
  /\ NO_GOAL \notin GoalTypes
  /\ 0 \in Ids
  /\ GoalData # {}

VARIABLE fifo

Slots == 0 .. MaxGoals - 1

Order == [type : GoalTypes, data : GoalData, ID : Ids]

Goal == [type : GoalTypes \cup {NO_GOAL}, data : GoalData, ID : Ids,
         is_reached : BOOLEAN]

Fifo == [slot : [Slots -> Goal], nb_goals : 0 .. MaxGoals,
         current_goal : Slots, last_goal : -1 .. MaxGoals - 1]

\* Mutant of FifoInit: the types of the slots survive.
FifoInitIndexes(f) ==
  [slot |-> f.slot, nb_goals |-> 0, current_goal |-> 0, last_goal |-> -1]

\* FifoInit resets the indexes and the types, and nothing else of a slot.
FifoInit(f) ==
  [slot |-> [i \in Slots |->
               [type |-> NO_GOAL, data |-> f.slot[i].data,
                ID |-> f.slot[i].ID, is_reached |-> f.slot[i].is_reached]],
   nb_goals |-> 0, current_goal |-> 0, last_goal |-> -1]

FifoClearGoals(f) == FifoInit(f)

\* Mutant of FifoPushGoal: the capacity is not tested.
FifoPushGoalUnchecked(f, g) ==
  LET last == (f.last_goal + 1) % MaxGoals
  IN  [slot |-> [f.slot EXCEPT ![last] =
                   [type |-> g.type, data |-> g.data, ID |-> g.ID,
                    is_reached |-> FALSE]],
       nb_goals |-> f.nb_goals + 1,
       current_goal |-> f.current_goal, last_goal |-> last]

FifoPushGoal(f, g) ==
  LET last == (f.last_goal + 1) % MaxGoals
      new  == [type |-> g.type, data |-> g.data, ID |-> g.ID,
               is_reached |-> FALSE]
  IN  IF f.nb_goals >= MaxGoals
      THEN f
      ELSE [slot |-> [f.slot EXCEPT ![last] = new],
            nb_goals |-> f.nb_goals + 1,
            current_goal |-> f.current_goal, last_goal |-> last]

FifoCurrentGoal(f) == f.slot[f.current_goal]

\* Mutant of FifoNextGoal: is_reached is not reset.
FifoNextGoalKeepsFlag(f) ==
  IF FifoCurrentGoal(f).type = NO_GOAL THEN f
  ELSE [slot |-> [f.slot EXCEPT ![f.current_goal].type = NO_GOAL],
        nb_goals |-> f.nb_goals - 1,
        current_goal |-> (f.current_goal + 1) % MaxGoals,
        last_goal |-> f.last_goal]

\* Mutant of FifoNextGoal: current_goal does not move.
FifoNextGoalStays(f) ==
  IF FifoCurrentGoal(f).type = NO_GOAL THEN f
  ELSE [slot |-> [f.slot EXCEPT ![f.current_goal].type = NO_GOAL,
                                ![f.current_goal].is_reached = FALSE],
        nb_goals |-> f.nb_goals - 1,
        current_goal |-> f.current_goal, last_goal |-> f.last_goal]

FifoNextGoal(f) ==
  LET done  == FifoCurrentGoal(f)
      freed == [type |-> NO_GOAL, data |-> done.data, ID |-> done.ID,
                is_reached |-> FALSE]
  IN  IF done.type = NO_GOAL
      THEN f
      ELSE [slot |-> [f.slot EXCEPT ![f.current_goal] = freed],
            nb_goals |-> f.nb_goals - 1,
            current_goal |-> (f.current_goal + 1) % MaxGoals,
            last_goal |-> f.last_goal]

\* What control.c and block.c do to the goal they are executing.
MarkReached(f) ==
  [f EXCEPT !.slot[f.current_goal].is_reached = TRUE]

-----------------------------------------------------------------------------
\* Static storage is zeroed at boot; ControlInit then calls FifoInit.
FifoBoot ==
  \E d \in GoalData :
    fifo = [slot |-> [i \in Slots |-> [type |-> NO_GOAL, data |-> d, ID |-> 0,
                                       is_reached |-> FALSE]],
            nb_goals |-> 0, current_goal |-> 0, last_goal |-> -1]

Push == \E g \in Order : fifo' = FifoPushGoal(fifo, g)

Reach == /\ FifoCurrentGoal(fifo).type # NO_GOAL
         /\ fifo' = MarkReached(fifo)

NextGoal == fifo' = FifoNextGoal(fifo)

Clear == fifo' = FifoClearGoals(fifo)

FifoStep == Push \/ Reach \/ NextGoal \/ Clear

FifoSpec == FifoBoot /\ [][FifoStep]_fifo

-----------------------------------------------------------------------------
\* The slot of the k-th goal of the list, counted from the current one.
SlotOf(f, k) ==
  IF f.current_goal + k < MaxGoals
  THEN f.current_goal + k
  ELSE f.current_goal + k - MaxGoals

\* Every field of the C structure stays in its range, so that no access to
\* the array fifo.fifo of goals.c leaves it.
FifoTypeOK == fifo \in Fifo

\* The three indexes and the slot types agree: exactly the nb_goals slots
\* that start at current_goal hold goals, and the next goal is written just
\* after them.  FifoPushGoal, FifoNextGoal and FifoInit each move only some
\* of the four, and nothing in goals.c ever compares them.
Window(f) ==
  /\ \A k \in 0 .. MaxGoals - 1 :
       (k < f.nb_goals) <=> (f.slot[SlotOf(f, k)].type # NO_GOAL)
  /\ (f.last_goal + 1) % MaxGoals = SlotOf(f, f.nb_goals)

FifoWindow == Window(fifo)

\* The abstract queue a fifo stands for: its goals, oldest first.
Contents(f) ==
  [k \in 1 .. f.nb_goals |->
     LET s == f.slot[SlotOf(f, k - 1)]
     IN  [type |-> s.type, data |-> s.data, ID |-> s.ID]]

Queue == INSTANCE GoalQueue WITH queue <- Contents(fifo)

\* The circular buffer of goals.c implements the bounded first in, first out
\* queue: no goal is lost, duplicated, reordered or resurrected, across any
\* number of wrap-arounds and clears.
IsAQueue == Queue!Spec
=============================================================================
