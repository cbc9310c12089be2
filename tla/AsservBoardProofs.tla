--------------------------- MODULE AsservBoardProofs -------------------------
(***************************************************************************)
(* Proofs about the firmware of the asserv boards, for every capacity of   *)
(* the goal list, every number of orders and every block period.  They     *)
(* rest on the lemmas of GoalFifoProofs about the operators of goals.c.    *)
(***************************************************************************)
EXTENDS AsservBoard, GoalFifoProofs

-----------------------------------------------------------------------------
(* What the operations of goals.c do to the flag is_reached *)

LEMMA PushFlagless ==
  ASSUME NEW f \in Fifo, Window(f), Flagless(f), NEW g \in Order
  PROVE  Flagless(FifoPushGoal(f, g))
<1> DEFINE last == (f.last_goal + 1) % MaxGoals
           new  == [type |-> g.type, data |-> g.data, ID |-> g.ID,
                    is_reached |-> FALSE]
<1>1. CASE f.nb_goals >= MaxGoals
  BY <1>1 DEF FifoPushGoal
<1>2. CASE ~(f.nb_goals >= MaxGoals)
  <2>1. FifoPushGoal(f, g).slot = [f.slot EXCEPT ![last] = new]
    BY <1>2 DEF FifoPushGoal
  <2>2. ASSUME NEW i \in Slots
        PROVE  ~[f.slot EXCEPT ![last] = new][i].is_reached
    BY DEF Fifo, Flagless
  <2> QED
    BY <2>1, <2>2 DEF Flagless
<1> QED
  BY <1>1, <1>2

LEMMA InitFlagless ==
  ASSUME NEW f \in Fifo, Flagless(f)
  PROVE  Flagless(FifoInit(f))
  BY DEF Flagless, FifoInit

\* At most the goal under execution is marked, and only if it is a goal.
OnlyHeadMarked(f) ==
  /\ \A i \in Slots : f.slot[i].is_reached => i = f.current_goal
  /\ FifoCurrentGoal(f).is_reached => FifoCurrentGoal(f).type # NO_GOAL

LEMMA NextFlagless ==
  ASSUME NEW f \in Fifo, Window(f), OnlyHeadMarked(f)
  PROVE  /\ FifoCurrentGoal(f).is_reached => Flagless(FifoNextGoal(f))
         /\ ~FifoCurrentGoal(f).is_reached => Flagless(f)
         /\ Flagless(f) => Flagless(FifoNextGoal(f))
<1> DEFINE freed == [type |-> NO_GOAL, data |-> FifoCurrentGoal(f).data,
                     ID |-> FifoCurrentGoal(f).ID, is_reached |-> FALSE]
<1>1. CASE FifoCurrentGoal(f).type = NO_GOAL
  BY <1>1 DEF OnlyHeadMarked, Flagless, FifoNextGoal, FifoCurrentGoal
<1>2. CASE FifoCurrentGoal(f).type # NO_GOAL
  <2>1. FifoNextGoal(f).slot = [f.slot EXCEPT ![f.current_goal] = freed]
    BY <1>2 DEF FifoNextGoal
  <2>2. ASSUME NEW i \in Slots
        PROVE  ~[f.slot EXCEPT ![f.current_goal] = freed][i].is_reached
    BY DEF Fifo, OnlyHeadMarked
  <2>3. Flagless(FifoNextGoal(f))
    BY <2>1, <2>2 DEF Flagless
  <2>4. ~FifoCurrentGoal(f).is_reached => Flagless(f)
    BY DEF OnlyHeadMarked, Flagless, FifoCurrentGoal
  <2> QED
    BY <2>3, <2>4
<1> QED
  BY <1>1, <1>2

LEMMA MarkHead ==
  ASSUME NEW f \in Fifo, Flagless(f), FifoCurrentGoal(f).type # NO_GOAL
  PROVE  /\ OnlyHeadMarked(MarkReached(f))
         /\ FifoCurrentGoal(MarkReached(f)).ID = FifoCurrentGoal(f).ID
<1>1. /\ MarkReached(f).current_goal = f.current_goal
      /\ MarkReached(f).slot = [f.slot EXCEPT ![f.current_goal] =
                                  [@ EXCEPT !.is_reached = TRUE]]
  BY DEF MarkReached, Fifo
<1>2. \A i \in Slots : /\ MarkReached(f).slot[i].type = f.slot[i].type
                       /\ MarkReached(f).slot[i].ID = f.slot[i].ID
                       /\ MarkReached(f).slot[i].is_reached => i = f.current_goal
  BY <1>1 DEF Fifo, Goal, Flagless
<1>3. f.current_goal \in Slots
  BY DEF Fifo
<1> QED
  BY <1>1, <1>2, <1>3 DEF OnlyHeadMarked, FifoCurrentGoal

-----------------------------------------------------------------------------
(* The inductive invariant *)

\* A sensor that is not in use reports nothing.
SensorsCoherent == \A d \in Directions : ~in_use[d] => ~phase[d]

FifoOK(f) == f \in Fifo /\ Window(f) /\ Flagless(f)

BoardInv == BoardTypeOK /\ FifoOK(fifo) /\ SensorsCoherent

\* An order the host sends is one FifoPushGoal takes.
LEMMA NewGoalIsOrder ==
  ASSUME BoardTypeOK, issued < MaxOrders,
         NEW t \in GoalTypes, NEW d \in GoalData
  PROVE  /\ NewGoal(t, d) \in Order
         /\ issued + 1 \in 0 .. MaxOrders
  BY BoardAssumption DEF BoardTypeOK, NewGoal, Order

LEMMA PushFifoOK ==
  ASSUME NEW f, FifoOK(f), NEW g \in Order
  PROVE  FifoOK(FifoPushGoal(f, g))
  BY PushCorrect, PushFlagless DEF FifoOK

\* A loop leaves the queue alone, or removes its oldest goal and reports it
\* (unless its id is 0).
LoopReports ==
  \/ reached' = reached /\ Contents(fifo') = Contents(fifo)
  \/ /\ fifo.nb_goals > 0
     /\ Contents(fifo') = Tail(Contents(fifo))
     /\ reached' \in {reached, Append(reached, Contents(fifo)[1].ID)}

\* What Conclude is given: the list, its head marked or not, then finished.
LEMMA ConcludeFifo ==
  ASSUME NEW f, NEW started \in BOOLEAN, BoardInv,
         \/ f = fifo
         \/ f = MarkReached(fifo) /\ Current.type # NO_GOAL,
         Conclude(f, started)
  PROVE  /\ FifoOK(fifo')
         /\ order_started' \in BOOLEAN
         /\ reached' \in Seq(Ids)
         /\ LoopReports
<1> USE DEF FifoOK
<1>1. /\ fifo \in Fifo /\ Window(fifo) /\ Flagless(fifo) /\ reached \in Seq(Ids)
  BY DEF BoardInv, BoardTypeOK
<1>2. /\ f \in Fifo /\ Window(f) /\ OnlyHeadMarked(f)
      /\ Contents(f) = Contents(fifo)
      /\ FifoCurrentGoal(f).ID = Current.ID
      /\ f = fifo => ~FifoCurrentGoal(f).is_reached
  <2>1. CASE f = fifo
    <3>1. fifo.current_goal \in Slots
      BY <1>1 DEF Fifo
    <3> QED
      BY <1>1, <2>1, <3>1 DEF OnlyHeadMarked, Flagless, FifoCurrentGoal, Current
  <2>2. CASE f = MarkReached(fifo) /\ Current.type # NO_GOAL
    <3>1. OnlyHeadMarked(f) /\ FifoCurrentGoal(f).ID = Current.ID
      BY <1>1, <2>2, MarkHead DEF Current
    <3>2. f \in Fifo /\ Window(f) /\ Contents(f) = Contents(fifo)
      BY <1>1, <2>2, ReachCorrect
    <3>3. f = fifo => ~FifoCurrentGoal(f).is_reached
      <4>1. fifo.current_goal \in Slots
        BY <1>1 DEF Fifo
      <4> QED
        BY <1>1, <4>1 DEF Flagless, FifoCurrentGoal
    <3> QED
      BY <3>1, <3>2, <3>3
  <2> QED
    BY <2>1, <2>2
<1>3. CASE ~FifoCurrentGoal(f).is_reached
  <2>1. fifo' = f /\ order_started' = started /\ reached' = reached
    BY <1>3 DEF Conclude
  <2>2. Flagless(f)
    BY <1>2, <1>3, NextFlagless
  <2> QED
    BY <1>1, <1>2, <2>1, <2>2 DEF LoopReports
<1>4. CASE FifoCurrentGoal(f).is_reached
  <2>1. /\ fifo' = FifoNextGoal(f)
        /\ order_started' = FALSE
        /\ reached' = IF FifoCurrentGoal(f).ID # 0
                      THEN Append(reached, FifoCurrentGoal(f).ID) ELSE reached
    BY <1>4 DEF Conclude
  <2>2. f = MarkReached(fifo) /\ Current.type # NO_GOAL
    BY <1>2, <1>4
  <2>3. FifoNextGoal(f) \in Fifo /\ Window(FifoNextGoal(f))
    BY <1>2, NextCorrect
  <2>4. Flagless(FifoNextGoal(f))
    BY <1>2, <1>4, NextFlagless
  <2>5. Current.ID \in Ids
    BY <1>1 DEF Current, FifoCurrentGoal, Fifo, Goal
  <2>6. reached' \in Seq(Ids)
    BY <1>1, <1>2, <2>1, <2>5
  <2>7. fifo.nb_goals > 0 /\ SlotOf(fifo, 0) = fifo.current_goal
    <3>1. MaxGoals \in Nat \ {0} /\ fifo.current_goal \in 0 .. MaxGoals - 1
          /\ fifo.nb_goals \in 0 .. MaxGoals
      BY <1>1, FifoAssumption DEF Fifo, Slots
    <3>2. SlotOf(fifo, 0) = fifo.current_goal
      BY <3>1 DEF SlotOf
    <3> QED
      BY <1>1, <2>2, <3>1, <3>2 DEF Window, Current, FifoCurrentGoal
  <2>8. 1 \in 1 .. fifo.nb_goals
    BY <1>1, <2>7 DEF Fifo
  <2>9. Contents(fifo)[1].ID = Current.ID
    BY <2>7, <2>8 DEF Contents, Current, FifoCurrentGoal
  <2>10. Contents(f) # <<>>
    BY <1>1, <1>2, <2>7, ContentsType, EmptySeq
  <2>11. Contents(fifo') = Tail(Contents(fifo))
    BY <1>2, <2>1, <2>10, NextContents
  <2> QED
    BY <1>2, <2>1, <2>3, <2>4, <2>6, <2>7, <2>9, <2>11 DEF LoopReports
<1> QED
  BY <1>3, <1>4

\* One control loop, whatever the sensors and the wheels do.
LEMMA LoopStep ==
  ASSUME BoardInv, asservLoop
  PROVE  /\ BoardInv'
         /\ LoopReports
<1>1. /\ phase' \in [Directions -> BOOLEAN]
      /\ \A d \in Directions : ~in_use[d] => phase'[d] = phase[d]
      /\ in_use' = in_use
  BY DEF asservLoop, ComputeEmergency
<1>2. SensorsCoherent'
  BY <1>1 DEF BoardInv, SensorsCoherent
<1>3. /\ since' \in 0 .. BlockPeriod - 1
      /\ last_goal_nr' \in -1 .. MaxGoals - 1
      /\ moved' \in BOOLEAN
  <2>1. /\ since \in 0 .. BlockPeriod - 1 /\ BlockPeriod \in Nat \ {0}
        /\ fifo.current_goal \in 0 .. MaxGoals - 1
        /\ last_goal_nr \in -1 .. MaxGoals - 1
        /\ MaxGoals \in Nat \ {0}
    BY BoardAssumption, FifoAssumption DEF BoardInv, BoardTypeOK, Fifo, Slots
  <2>2. since' \in 0 .. BlockPeriod - 1
    BY <2>1 DEF asservLoop, ComputeIsBlocked, BlockDue
  <2>3. last_goal_nr' \in -1 .. MaxGoals - 1
    BY <2>1 DEF asservLoop, ComputeIsBlocked
  <2>4. moved' \in BOOLEAN
    BY DEF asservLoop, ComputeIsBlocked
  <2> QED
    BY <2>2, <2>3, <2>4
<1>4. PICK f, started :
        /\ started \in BOOLEAN
        /\ \/ f = fifo
           \/ f = MarkReached(fifo) /\ Current.type # NO_GOAL
        /\ Conclude(f, started)
        /\ linear_speed' \in -1 .. 1
        /\ motors' \in Drives
  <2>1. \/ AfterBlock = fifo
        \/ AfterBlock = MarkReached(fifo) /\ Current.type # NO_GOAL
    BY BoardAssumption, FifoAssumption DEF AfterBlock, Blocked
  <2>2. order_started \in BOOLEAN /\ linear_speed \in -1 .. 1
        /\ Current.data \in -1 .. 1
    BY BoardAssumption
       DEF BoardInv, BoardTypeOK, Current, FifoCurrentGoal, Fifo, Goal
  <2>3. CASE Halt
    BY <2>1, <2>2, <2>3 DEF Halt, StopRobot, Drives
  <2>4. CASE Drive /\ Current.type # NO_GOAL
    <3>1. PICK arrived \in BOOLEAN :
            /\ \/ Current.type = "ANG" /\ goalAngle
               \/ Current.type = "POS" /\ goalPos
               \/ Current.type = "PWM" /\ goalPwm(arrived)
               \/ Current.type = "SPD" /\ goalSpd(arrived)
            /\ Conclude(IF arrived THEN MarkReached(fifo) ELSE AfterBlock,
                        order_started \/ Timed)
      BY <2>4 DEF Drive
    <3>2. linear_speed' \in -1 .. 1 /\ motors' \in Drives
      <4>1. CASE goalAngle
        BY <4>1 DEF goalAngle, Pid, Heading, Drives
      <4>2. CASE goalPos
        BY <2>2, <4>2 DEF goalPos, Pid, Heading, Drives, Directions
      <4>3. CASE goalPwm(arrived)
        BY <2>2, <4>3 DEF goalPwm, Heading, Drives
      <4>4. CASE goalSpd(arrived)
        BY <2>2, <4>4 DEF goalSpd, Pid, Heading, Drives
      <4> QED
        BY <3>1, <4>1, <4>2, <4>3, <4>4
    <3>3. (order_started \/ Timed) \in BOOLEAN
      BY <2>2 DEF Timed
    <3> DEFINE g == IF arrived THEN MarkReached(fifo) ELSE AfterBlock
    <3>4. \/ g = fifo
          \/ g = MarkReached(fifo) /\ Current.type # NO_GOAL
      BY <2>1, <2>4
    <3>5. Conclude(g, order_started \/ Timed)
      BY <3>1
    <3> QED
      BY <3>2, <3>3, <3>4, <3>5
  <2> QED
    BY <2>3, <2>4 DEF asservLoop, ControlCompute
<1>5. /\ FifoOK(fifo')
      /\ order_started' \in BOOLEAN
      /\ reached' \in Seq(Ids)
      /\ LoopReports
  BY <1>4, ConcludeFifo
<1>6. emergency' \in BOOLEAN
  BY <1>1 DEF asservLoop, ControlCompute, EmergencyNow
<1>7. BoardTypeOK'
  BY <1>1, <1>3, <1>4, <1>5, <1>6
     DEF BoardInv, BoardTypeOK, asservLoop, FifoOK
<1>8. FifoOK(fifo)'
  BY <1>5 DEF FifoOK, Window, SlotOf, Flagless
<1> QED
  BY <1>2, <1>5, <1>7, <1>8 DEF BoardInv

\* Everything but the loop.
LEMMA OrderStep ==
  ASSUME BoardInv,
         \/ PushOrder \/ GotoA \/ KillG \/ CleanG \/ SetPos
         \/ \E on \in BOOLEAN : \/ SetPause(on)
                               \/ SetConnected(on)
                               \/ EmergencySetStatus(on)
         \/ UNCHANGED vars
  PROVE  BoardInv' /\ reached' = reached
<1>1. FifoOK(fifo) /\ SensorsCoherent /\ BoardTypeOK
  BY DEF BoardInv
<1>2. FifoOK(fifo') => FifoOK(fifo)'
  BY DEF FifoOK, Window, SlotOf, Flagless
<1>3. CASE PushOrder
  <2>1. PICK t \in GoalTypes, d \in GoalData :
          fifo' = FifoPushGoal(fifo, NewGoal(t, d))
    BY <1>3 DEF PushOrder
  <2>2. NewGoal(t, d) \in Order /\ issued + 1 \in 0 .. MaxOrders
    BY <1>1, <1>3, NewGoalIsOrder DEF PushOrder
  <2>3. FifoOK(fifo')
    BY <1>1, <2>1, <2>2, PushFifoOK
  <2> QED
    BY <1>1, <1>2, <1>3, <2>2, <2>3
       DEF PushOrder, BoardInv, BoardTypeOK, SensorsCoherent, sensors, wheels,
           block, FifoOK
<1>4. CASE GotoA
  <2>1. PICK d \in GoalData :
          fifo' = FifoPushGoal(FifoPushGoal(fifo, NewGoal("POS", d)),
                               NewGoal("ANG", 0))
    BY <1>4 DEF GotoA
  <2>2. /\ NewGoal("POS", d) \in Order /\ NewGoal("ANG", 0) \in Order
        /\ issued + 1 \in 0 .. MaxOrders
    BY <1>1, <1>4, NewGoalIsOrder, BoardAssumption DEF GotoA
  <2>3. FifoOK(fifo')
    BY <1>1, <2>1, <2>2, PushFifoOK
  <2> QED
    BY <1>1, <1>2, <1>4, <2>2, <2>3
       DEF GotoA, BoardInv, BoardTypeOK, SensorsCoherent, sensors, wheels,
           block, FifoOK
<1>5. CASE KillG
  <2>1. OnlyHeadMarked(fifo)
    <3>1. fifo.current_goal \in Slots
      BY <1>1 DEF FifoOK, Fifo
    <3> QED
      BY <1>1, <3>1 DEF FifoOK, OnlyHeadMarked, Flagless, FifoCurrentGoal
  <2>2. FifoOK(fifo')
    BY <1>1, <1>5, <2>1, NextCorrect, NextFlagless DEF KillG, DropGoals, FifoOK
  <2> QED
    BY <1>1, <1>2, <1>5, <2>2
       DEF KillG, DropGoals, BoardInv, BoardTypeOK, SensorsCoherent, sensors,
           wheels, block, FifoOK
<1>6. CASE CleanG
  <2>1. FifoOK(fifo')
    BY <1>1, <1>6, InitCorrect, InitFlagless
       DEF CleanG, DropGoals, FifoClearGoals, FifoOK
  <2> QED
    BY <1>1, <1>2, <1>6, <2>1
       DEF CleanG, DropGoals, BoardInv, BoardTypeOK, SensorsCoherent, sensors,
           wheels, block, FifoOK
<1>7. CASE SetPos
  BY <1>1, <1>2, <1>7
     DEF SetPos, BoardInv, BoardTypeOK, SensorsCoherent, sensors, wheels
<1>8. ASSUME NEW on \in BOOLEAN, SetPause(on) \/ SetConnected(on)
      PROVE  BoardInv' /\ reached' = reached
  BY <1>1, <1>2, <1>8
     DEF SetPause, SetConnected, BoardInv, BoardTypeOK, SensorsCoherent,
         sensors, wheels, block
<1>9. ASSUME NEW on \in BOOLEAN, EmergencySetStatus(on)
      PROVE  BoardInv' /\ reached' = reached
  <2>1. /\ in_use' = [d \in Directions |-> on]
        /\ phase' = [d \in Directions |-> phase[d] /\ on]
        /\ UNCHANGED <<fifo, issued, connected, paused, emergency,
                       linear_speed, motors, order_started, since,
                       last_goal_nr, moved, reached>>
    BY <1>9 DEF EmergencySetStatus, wheels, block
  <2>2. SensorsCoherent'
    BY <2>1 DEF SensorsCoherent
  <2>3. in_use' \in [Directions -> BOOLEAN] /\ phase' \in [Directions -> BOOLEAN]
    BY <1>1, <2>1 DEF BoardTypeOK
  <2> QED
    BY <1>1, <1>2, <2>1, <2>2, <2>3 DEF BoardInv, BoardTypeOK
<1>10. CASE UNCHANGED vars
  BY <1>1, <1>2, <1>10
     DEF vars, BoardInv, BoardTypeOK, SensorsCoherent, sensors, wheels, block
<1> QED
  BY <1>3, <1>4, <1>5, <1>6, <1>7, <1>8, <1>9, <1>10

-----------------------------------------------------------------------------
\* The board's memory stays well formed, and no goal is left marked.
THEOREM BoardSafe ==
  Spec => [](BoardTypeOK /\ FifoWindow /\ NoFlagLeftBehind /\ SensorsCoherent)
<1>1. Init => BoardInv
  <2>1. SUFFICES ASSUME Init
                 PROVE  BoardInv
    OBVIOUS
  <2>2. fifo \in Fifo /\ FifoWindow
    <3>1. FifoBoot => fifo \in Fifo /\ FifoInit(fifo) = fifo
      <4>1. SUFFICES ASSUME NEW d \in GoalData,
              fifo = [slot |-> [i \in Slots |-> [type |-> NO_GOAL, data |-> d,
                                         ID |-> 0, is_reached |-> FALSE]],
                      nb_goals |-> 0, current_goal |-> 0, last_goal |-> -1]
                     PROVE  fifo \in Fifo /\ FifoInit(fifo) = fifo
        BY DEF FifoBoot
      <4>2. fifo \in Fifo
        BY <4>1, FifoAssumption DEF Fifo, Goal, Slots
      <4>3. \A i \in Slots :
              [type |-> NO_GOAL, data |-> fifo.slot[i].data,
               ID |-> fifo.slot[i].ID, is_reached |-> fifo.slot[i].is_reached]
                 = fifo.slot[i]
        BY <4>1
      <4>4. FifoInit(fifo).slot = fifo.slot
        <5>1. fifo.slot = [i \in Slots |-> fifo.slot[i]]
          BY <4>1
        <5> QED
          BY <4>3, <5>1 DEF FifoInit
      <4> QED
        BY <4>1, <4>2, <4>4 DEF FifoInit
    <3> QED
      BY <2>1, <3>1, InitCorrect DEF Init, FifoWindow
  <2>3. NoFlagLeftBehind
    BY <2>1 DEF Init, FifoBoot, NoFlagLeftBehind, Flagless
  <2>4. SensorsCoherent
    BY <2>1 DEF Init, SensorsCoherent
  <2>5. BoardTypeOK
    <3>1. MaxOrders \in Nat /\ BlockPeriod \in Nat \ {0} /\ MaxGoals \in Nat \ {0}
      BY BoardAssumption, FifoAssumption
    <3>2. <<>> \in Seq(Ids)
      OBVIOUS
    <3>3. in_use \in [Directions -> BOOLEAN] /\ phase \in [Directions -> BOOLEAN]
      BY <2>1 DEF Init
    <3>4. fifo \in Fifo
      BY <2>2
    <3>5. /\ issued = 0 /\ linear_speed = 0 /\ since = 0
          /\ last_goal_nr = -1 /\ motors = "off" /\ reached = <<>>
      BY <2>1 DEF Init
    <3>6. /\ connected \in BOOLEAN /\ paused \in BOOLEAN /\ moved \in BOOLEAN
          /\ emergency \in BOOLEAN /\ order_started \in BOOLEAN
      BY <2>1 DEF Init
    <3> QED
      BY <3>1, <3>2, <3>3, <3>4, <3>5, <3>6 DEF BoardTypeOK, Drives
  <2> QED
    BY <2>2, <2>3, <2>4, <2>5 DEF BoardInv, FifoOK, FifoWindow, NoFlagLeftBehind
<1>2. BoardInv /\ [Next]_vars => BoardInv'
  BY LoopStep, OrderStep DEF Next
<1>3. BoardInv => /\ BoardTypeOK /\ FifoWindow
                  /\ NoFlagLeftBehind /\ SensorsCoherent
  BY DEF BoardInv, FifoOK, FifoWindow, NoFlagLeftBehind
<1> QED
  BY <1>1, <1>2, <1>3, PTL DEF Spec

\* BoardInv itself is an invariant.
LEMMA BoardInductive == Spec => []BoardInv
<1>1. /\ BoardTypeOK /\ FifoWindow /\ NoFlagLeftBehind /\ SensorsCoherent
      => BoardInv
  BY DEF BoardInv, FifoOK, FifoWindow, NoFlagLeftBehind, BoardTypeOK
<1> QED
  BY <1>1, BoardSafe, PTL

\* Only the goal at the head of the list is ever reported to the host.
THEOREM OnlyHeadIsReported == Spec => OnlyHeadReported
<1>1. BoardInv /\ [Next]_vars =>
        [reached' # reached =>
           /\ fifo.nb_goals > 0
           /\ reached' = Append(reached, Contents(fifo)[1].ID)
           /\ Contents(fifo)' = Tail(Contents(fifo))]_vars
  <2>1. Contents(fifo)' = Contents(fifo')
    BY DEF Contents, SlotOf
  <2> QED
    BY <2>1, LoopStep, OrderStep DEF Next, LoopReports
<1> QED
  BY <1>1, BoardInductive, PTL DEF Spec, OnlyHeadReported

\* A board told to ignore its sensors never makes an emergency stop.
THEOREM IgnoredSensors == Spec => IgnoredSensorsNeverStop
<1>1. BoardInv /\ [Next]_vars =>
        [asservLoop /\ (\A d \in Directions : ~in_use[d]) => ~emergency']_vars
  <2>1. SUFFICES ASSUME BoardInv, asservLoop,
                        \A d \in Directions : ~in_use[d]
                 PROVE  ~emergency'
    OBVIOUS
  <2>2. \A d \in Directions : ~phase'[d]
    BY <2>1 DEF BoardInv, SensorsCoherent, asservLoop, ComputeEmergency
  <2>3. linear_speed # 0 => linear_speed \in Directions
    BY <2>1 DEF BoardInv, BoardTypeOK, Directions
  <2> QED
    BY <2>1, <2>2, <2>3 DEF asservLoop, ControlCompute, EmergencyNow
<1> QED
  BY <1>1, BoardInductive, PTL DEF Spec, IgnoredSensorsNeverStop
-----------------------------------------------------------------------------
(* The order of the reports *)

\* c is what waits, rep what was reported, n the last order that was sent.
InOrder(c, rep, n) ==
  /\ \A i, j \in 1 .. Len(rep) : i < j => rep[i] <= rep[j]
  /\ \A i \in 1 .. Len(rep) : rep[i] <= n
  /\ \A k \in 1 .. Len(c) : c[k].ID <= n
  /\ \A j, k \in 1 .. Len(c) : j < k => c[j].ID <= c[k].ID
  /\ \A i \in 1 .. Len(rep), k \in 1 .. Len(c) : rep[i] <= c[k].ID

LEMMA IdsAreNumbers ==
  ASSUME NEW c \in Seq(QueuedGoal), NEW rep \in Seq(Ids)
  PROVE  /\ \A i \in 1 .. Len(rep) : rep[i] \in Nat
         /\ \A i \in 1 .. Len(c) : c[i].ID \in Ids /\ c[i].ID \in Nat
<1>1. \A x \in Ids : x \in Nat
  BY BoardAssumption
<1>2. \A i \in 1 .. Len(rep) : rep[i] \in Ids
  BY ElementOfSeq
<1>3. \A i \in 1 .. Len(c) : c[i] \in QueuedGoal
  BY ElementOfSeq
<1> QED
  BY <1>1, <1>2, <1>3 DEF QueuedGoal

\* A goal of the last order, or of the next one, joins the end of the queue.
LEMMA AppendInOrder ==
  ASSUME NEW c \in Seq(QueuedGoal), NEW rep \in Seq(Ids), NEW n \in Nat,
         NEW m \in Nat, n <= m, NEW g \in QueuedGoal, g.ID = m,
         InOrder(c, rep, n)
  PROVE  InOrder(Append(c, g), rep, m)
<1> DEFINE s == Append(c, g)
<1>1. /\ Len(s) = Len(c) + 1 /\ Len(c) \in Nat
      /\ \A i \in 1 .. Len(c) : s[i] = c[i]
      /\ s[Len(c) + 1] = g
  BY AppendProperties, LenProperties
<1>3. /\ \A i \in 1 .. Len(rep) : rep[i] \in Nat
      /\ \A i \in 1 .. Len(c) : c[i].ID \in Nat
  BY IdsAreNumbers
<1> HIDE DEF s
<1>a. \A k \in 1 .. Len(s) : k \in 1 .. Len(c) \/ k = Len(c) + 1
  BY <1>1
<1>4. \A k \in 1 .. Len(s) : s[k].ID <= m
  <2>1. \A k \in 1 .. Len(c) : c[k].ID <= n
    BY DEF InOrder
  <2>2. \A k \in 1 .. Len(c) : c[k].ID <= m
    BY <1>3, <2>1
  <2> QED
    BY <1>1, <1>a, <2>2
<1>5. ASSUME NEW j \in 1 .. Len(s), NEW k \in 1 .. Len(s), j < k
      PROVE  s[j].ID <= s[k].ID
  <2>a. j \in 1 .. Len(c)
    BY <1>1, <1>5
  <2>1. j \in 1 .. Len(c) /\ s[j] = c[j] /\ c[j].ID <= n /\ c[j].ID \in Nat
    BY <2>a, <1>1, <1>3 DEF InOrder
  <2>2. CASE k \in 1 .. Len(c)
    BY <1>1, <1>5, <2>1, <2>2 DEF InOrder
  <2>3. CASE k = Len(c) + 1
    BY <1>1, <2>1, <2>3
  <2> QED
    BY <1>1, <2>2, <2>3
<1>6. /\ \A i \in 1 .. Len(rep) : rep[i] <= m
      /\ \A i \in 1 .. Len(rep), k \in 1 .. Len(s) : rep[i] <= s[k].ID
  <2>1. /\ \A i \in 1 .. Len(rep) : rep[i] <= n
        /\ \A i \in 1 .. Len(rep), k \in 1 .. Len(c) : rep[i] <= c[k].ID
    BY DEF InOrder
  <2>2. \A i \in 1 .. Len(rep) : rep[i] <= m
    BY <1>3, <2>1
  <2>3. \A i \in 1 .. Len(rep), k \in 1 .. Len(s) : rep[i] <= s[k].ID
    BY <1>1, <1>a, <2>1, <2>2
  <2> QED
    BY <2>2, <2>3
<1>7. InOrder(s, rep, m)
  <2>1. \A i, j \in 1 .. Len(rep) : i < j => rep[i] <= rep[j]
    BY DEF InOrder
  <2> QED
    BY <1>4, <1>5, <1>6, <2>1 DEF InOrder
<1> QED
  BY <1>7 DEF s

\* The oldest goal leaves the queue, reported or killed.
LEMMA TailInOrder ==
  ASSUME NEW c \in Seq(QueuedGoal), NEW rep \in Seq(Ids), NEW n \in Nat,
         c # <<>>, InOrder(c, rep, n)
  PROVE  /\ InOrder(Tail(c), rep, n)
         /\ InOrder(Tail(c), Append(rep, c[1].ID), n)
<1> DEFINE s == Tail(c)
           r == Append(rep, c[1].ID)
<1>1. /\ Len(c) \in Nat /\ Len(c) >= 1 /\ Len(s) = Len(c) - 1
      /\ \A i \in 1 .. Len(s) : s[i] = c[i + 1]
  BY HeadTailProperties, LenProperties, EmptySeq
<1>3. 1 \in 1 .. Len(c) /\ c[1].ID \in Ids
  BY <1>1, IdsAreNumbers
<1>4. /\ Len(rep) \in Nat /\ Len(r) = Len(rep) + 1
      /\ \A i \in 1 .. Len(rep) : r[i] = rep[i]
      /\ r[Len(rep) + 1] = c[1].ID
  BY <1>3, AppendProperties, LenProperties
<1>5. /\ \A i \in 1 .. Len(rep) : rep[i] \in Nat
      /\ \A i \in 1 .. Len(c) : c[i].ID \in Nat
  BY IdsAreNumbers
<1>6. \A k \in 1 .. Len(s) : k + 1 \in 1 .. Len(c) /\ 1 < k + 1
  BY <1>1
<1> HIDE DEF s, r
<1>7. InOrder(s, rep, n)
  <2>1. \A k \in 1 .. Len(s) : s[k].ID <= n
    BY <1>1, <1>6 DEF InOrder
  <2>2. \A i \in 1 .. Len(rep), k \in 1 .. Len(s) : rep[i] <= s[k].ID
    BY <1>1, <1>6 DEF InOrder
  <2>3. ASSUME NEW j \in 1 .. Len(s), NEW k \in 1 .. Len(s), j < k
        PROVE  s[j].ID <= s[k].ID
    <3>1. j + 1 \in 1 .. Len(c) /\ k + 1 \in 1 .. Len(c) /\ j + 1 < k + 1
      BY <1>6, <2>3
    <3>2. c[j + 1].ID <= c[k + 1].ID
      BY <3>1 DEF InOrder
    <3> QED
      BY <1>1, <3>2
  <2> QED
    BY <2>1, <2>2, <2>3 DEF InOrder
<1>8. InOrder(s, r, n)
  <2>a. \A i \in 1 .. Len(r) : i \in 1 .. Len(rep) \/ i = Len(rep) + 1
    BY <1>4
  <2>b. /\ \A i \in 1 .. Len(rep) : rep[i] <= n /\ rep[i] <= c[1].ID
        /\ c[1].ID <= n
        /\ \A i, j \in 1 .. Len(rep) : i < j => rep[i] <= rep[j]
    BY <1>3 DEF InOrder
  <2>1. \A i \in 1 .. Len(r) : r[i] <= n
    BY <1>4, <2>a, <2>b
  <2>2. ASSUME NEW i \in 1 .. Len(r), NEW j \in 1 .. Len(r), i < j
        PROVE  r[i] <= r[j]
    <3>1. i \in 1 .. Len(rep) /\ r[i] = rep[i]
      BY <1>4, <2>2
    <3>2. CASE j \in 1 .. Len(rep)
      BY <1>4, <2>2, <2>b, <3>1, <3>2
    <3>3. CASE j = Len(rep) + 1
      BY <1>4, <2>b, <3>1, <3>3
    <3> QED
      BY <2>a, <3>2, <3>3
  <2>c. \A k \in 1 .. Len(s) : c[1].ID <= s[k].ID
    BY <1>1, <1>3, <1>6 DEF InOrder
  <2>3. \A i \in 1 .. Len(r), k \in 1 .. Len(s) : r[i] <= s[k].ID
    <3>1. \A i \in 1 .. Len(rep), k \in 1 .. Len(s) : rep[i] <= s[k].ID
      BY <1>7 DEF InOrder
    <3> QED
      BY <1>4, <2>a, <2>c, <3>1
  <2> QED
    BY <1>7, <2>1, <2>2, <2>3 DEF InOrder
<1> QED
  BY <1>7, <1>8 DEF s, r

\* What FifoPushGoal does of a goal of the order m, kept or refused.
LEMMA PushInOrder ==
  ASSUME NEW f, FifoOK(f), NEW rep \in Seq(Ids), NEW n \in Nat,
         NEW m \in Nat, n <= m, NEW g \in Order, g.ID = m,
         InOrder(Contents(f), rep, n)
  PROVE  InOrder(Contents(FifoPushGoal(f, g)), rep, m)
<1>1. f \in Fifo /\ Window(f)
  BY DEF FifoOK
<1>2. Contents(f) \in Seq(QueuedGoal)
  BY <1>1, ContentsType
<1>3. g \in QueuedGoal
  BY DEF Order, QueuedGoal
<1>4. InOrder(Contents(f), rep, m)
  <2>1. /\ \A i \in 1 .. Len(rep) : rep[i] \in Nat
        /\ \A k \in 1 .. Len(Contents(f)) : Contents(f)[k].ID \in Nat
    BY <1>2, IdsAreNumbers
  <2>2. \A x \in Nat : x <= n => x <= m
    OBVIOUS
  <2>3. /\ \A i \in 1 .. Len(rep) : rep[i] <= m
        /\ \A k \in 1 .. Len(Contents(f)) : Contents(f)[k].ID <= m
    BY <2>1, <2>2 DEF InOrder
  <2> QED
    BY <2>3 DEF InOrder
<1>5. InOrder(Append(Contents(f), g), rep, m)
  BY <1>2, <1>3, AppendInOrder
<1> QED
  BY <1>1, <1>4, <1>5, PushContents

BoardOrder == InOrder(Contents(fifo), reached, issued)

LEMMA OrderKept == BoardInv /\ BoardOrder /\ [Next]_vars => BoardOrder'
<1> SUFFICES ASSUME BoardInv, BoardOrder, [Next]_vars
             PROVE  InOrder(Contents(fifo'), reached', issued')
  BY DEF BoardOrder, InOrder, Contents, SlotOf
<1>1. /\ FifoOK(fifo) /\ fifo \in Fifo /\ Window(fifo)
      /\ issued \in Nat /\ MaxOrders \in Nat
      /\ reached \in Seq(Ids) /\ Contents(fifo) \in Seq(QueuedGoal)
      /\ Len(Contents(fifo)) = fifo.nb_goals
      /\ InOrder(Contents(fifo), reached, issued)
  BY ContentsType, BoardAssumption DEF BoardInv, BoardTypeOK, FifoOK, BoardOrder
<1>2. CASE PushOrder
  <2>1. PICK t \in GoalTypes, d \in GoalData :
          fifo' = FifoPushGoal(fifo, NewGoal(t, d))
    BY <1>2 DEF PushOrder
  <2>2. NewGoal(t, d) \in Order /\ NewGoal(t, d).ID = issued + 1
    BY <1>2, NewGoalIsOrder DEF PushOrder, NewGoal, BoardInv
  <2>3. issued' = issued + 1 /\ reached' = reached
    BY <1>2 DEF PushOrder
  <2> QED
    BY <1>1, <2>1, <2>2, <2>3, PushInOrder
<1>3. CASE GotoA
  <2>1. PICK d \in GoalData :
          fifo' = FifoPushGoal(FifoPushGoal(fifo, NewGoal("POS", d)),
                               NewGoal("ANG", 0))
    BY <1>3 DEF GotoA
  <2> DEFINE f == FifoPushGoal(fifo, NewGoal("POS", d))
  <2>2. /\ NewGoal("POS", d) \in Order /\ NewGoal("POS", d).ID = issued + 1
        /\ NewGoal("ANG", 0) \in Order /\ NewGoal("ANG", 0).ID = issued + 1
    BY <1>3, NewGoalIsOrder, BoardAssumption DEF GotoA, NewGoal, BoardInv
  <2>3. issued' = issued + 1 /\ reached' = reached
    BY <1>3 DEF GotoA
  <2>4. FifoOK(f)
    BY <1>1, <2>2, PushFifoOK
  <2>5. InOrder(Contents(f), reached, issued + 1)
    BY <1>1, <2>2, PushInOrder
  <2>6. fifo' = FifoPushGoal(f, NewGoal("ANG", 0))
    BY <2>1
  <2> HIDE DEF f
  <2> QED
    BY <1>1, <2>2, <2>3, <2>4, <2>5, <2>6, PushInOrder
<1>4. CASE KillG
  <2>1. /\ fifo' = FifoNextGoal(fifo)
        /\ issued' = issued /\ reached' = reached
    BY <1>4 DEF KillG, DropGoals
  <2> QED
    BY <1>1, <2>1, NextContents, TailInOrder
<1>5. CASE CleanG
  <2>1. /\ fifo' = FifoInit(fifo)
        /\ issued' = issued /\ reached' = reached
    BY <1>5 DEF CleanG, DropGoals, FifoClearGoals
  <2>2. Contents(fifo') = <<>> /\ 1 .. Len(<<>>) = {}
    BY <1>1, <2>1, InitCorrect, EmptySeq
  <2> QED
    BY <1>1, <2>1, <2>2 DEF InOrder
<1>6. CASE asservLoop
  <2>1. LoopReports /\ issued' = issued
    BY <1>6, LoopStep DEF asservLoop
  <2>2. fifo.nb_goals > 0 => Contents(fifo) # <<>>
    BY <1>1, EmptySeq
  <2> QED
    BY <1>1, <2>1, <2>2, TailInOrder DEF LoopReports
<1>7. ASSUME UNCHANGED <<fifo, issued, reached>>
      PROVE  InOrder(Contents(fifo'), reached', issued')
  BY <1>1, <1>7
<1>8. CASE SetPos
  BY <1>7, <1>8 DEF SetPos
<1>9. ASSUME NEW on \in BOOLEAN,
             SetPause(on) \/ SetConnected(on) \/ EmergencySetStatus(on)
      PROVE  InOrder(Contents(fifo'), reached', issued')
  BY <1>7, <1>9 DEF SetPause, SetConnected, EmergencySetStatus
<1>10. CASE UNCHANGED vars
  BY <1>7, <1>10 DEF vars
<1> QED
  BY <1>2, <1>3, <1>4, <1>5, <1>6, <1>8, <1>9, <1>10 DEF Next

\* Goals are reported in the order they were sent, whatever the host kills,
\* cleans or sends beyond the capacity of the list.
THEOREM ReportsInOrder == Spec => []ReportedInOrder
<1>1. Init => BoardOrder
  <2>1. SUFFICES ASSUME Init
                 PROVE  Len(Contents(fifo)) = 0 /\ Len(reached) = 0
    BY DEF BoardOrder, InOrder
  <2> QED
    BY <2>1 DEF Init, FifoBoot, Contents
<1>2. BoardOrder => ReportedInOrder
  BY DEF BoardOrder, InOrder, ReportedInOrder
<1> QED
  BY <1>1, <1>2, BoardInductive, OrderKept, PTL DEF Spec
=============================================================================
