----------------------------- MODULE AsservBoard -----------------------------
(***************************************************************************)
(* The firmware of an asserv board (arduino/common/asserv): the serial     *)
(* orders of protocol.cpp and the 100 Hz control loop of asserv.cpp, which *)
(* senses obstacles (emergency.c), looks for a blocked robot (block.c),    *)
(* drives the wheels toward the current goal and finishes it (control.c).  *)
(* loop() is single threaded: an order and a call of asservLoop exclude    *)
(* each other, so each is one action.                                      *)
(*                                                                         *)
(* Kept: every flag, guard and queue operation.  Abstracted: a speed is    *)
(* its sign when it exceeds 1 mm/s, the motors are off or driving in some  *)
(* direction, the geometry and the PID decide nondeterministically whether *)
(* the robot has arrived and how its speed evolves.  Orders that only      *)
(* answer a query or set a parameter change none of this and are left out; *)
(* so is last_finished_id, which only such orders read.                    *)
(***************************************************************************)
EXTENDS GoalFifo

CONSTANTS
  MaxOrders,    \* bound: goal orders the host sends
  BlockPeriod   \* BLOCK_TIME, counted in calls of asservLoop

ASSUME BoardAssumption ==
  /\ GoalTypes = {"POS", "ANG", "PWM", "SPD"}
  /\ GoalData \subseteq -1 .. 1 /\ 0 \in GoalData
  /\ MaxOrders \in Nat /\ Ids = 0 .. MaxOrders
  /\ BlockPeriod \in Nat \ {0}

Directions == {1, -1}      \* EM_FORWARD and EM_BACKWARD

Drives == {"off", "ahead", "back", "turn"}

VARIABLES
  issued,         \* goal orders sent so far; the host numbers them from 1
  connected,      \* flagArduinoConnected
  paused,         \* PAUSE_BIT of control.status_bits
  emergency,      \* EMERGENCY_BIT of control.status_bits
  in_use,         \* emergency_status[d].in_use
  phase,          \* emergency_status[d].phase = FIRST_STOP
  linear_speed,   \* sign of control.speeds.linear_speed, 0 up to 1 mm/s
  motors,         \* what the last applyPwm sent to the wheels
  order_started,  \* control.order_started
  since,          \* loops since last_time of block.c
  last_goal_nr,   \* of block.c
  moved,          \* the robot is BLOCK_MIN_DIST away from last_pos
  reached         \* ids of finished goals, in the order they are sent

vars == <<fifo, issued, connected, paused, emergency, in_use, phase,
          linear_speed, motors, order_started, since, last_goal_nr, moved,
          reached>>

sensors == <<in_use, phase>>
wheels  == <<linear_speed, motors>>
block   == <<since, last_goal_nr, moved>>

Current == FifoCurrentGoal(fifo)

Init ==
  /\ FifoBoot /\ FifoCurrentGoal(fifo).data = 0
  /\ issued = 0
  /\ connected = FALSE
  /\ paused = FALSE
  /\ emergency = FALSE
  /\ in_use \in {[d \in Directions |-> TRUE], [d \in Directions |-> FALSE]}
  /\ phase = [d \in Directions |-> FALSE]
  /\ linear_speed = 0
  /\ motors = "off"
  /\ order_started = FALSE
  /\ since = 0
  /\ last_goal_nr = -1
  /\ moved = FALSE
  /\ reached = <<>>

-----------------------------------------------------------------------------
(* Serial orders, parseAndExecuteOrder *)

NewGoal(t, d) == [type |-> t, data |-> d, ID |-> issued + 1]

\* GOTO, ROT, ROTNOMODULO, PWM and SPD push one goal.  The result of
\* FifoPushGoal is not looked at: a goal that does not fit is forgotten.
PushOrder ==
  /\ issued < MaxOrders
  /\ \E t \in GoalTypes, d \in GoalData :
       /\ t = "ANG" => d = 0
       /\ fifo' = FifoPushGoal(fifo, NewGoal(t, d))
  /\ issued' = issued + 1
  /\ UNCHANGED <<connected, paused, emergency, sensors, wheels,
                 order_started, block, reached>>

\* GOTOA pushes a position and an angle under the same id.
GotoA ==
  /\ issued < MaxOrders
  /\ \E d \in GoalData :
       fifo' = FifoPushGoal(FifoPushGoal(fifo, NewGoal("POS", d)),
                            NewGoal("ANG", 0))
  /\ issued' = issued + 1
  /\ UNCHANGED <<connected, paused, emergency, sensors, wheels,
                 order_started, block, reached>>

\* KILLG and CLEANG acknowledge themselves, not the goals they remove.
DropGoals(rest) ==
  /\ fifo' = rest
  /\ order_started' = FALSE
  /\ UNCHANGED <<issued, connected, paused, emergency, sensors, wheels,
                 block, reached>>

KillG == DropGoals(FifoNextGoal(fifo))

CleanG == DropGoals(FifoClearGoals(fifo))

SetPause(on) ==
  /\ paused' = on
  /\ UNCHANGED <<fifo, issued, connected, emergency, sensors, wheels,
                 order_started, block, reached>>

SetConnected(on) ==
  /\ connected' = on
  /\ UNCHANGED <<fifo, issued, paused, emergency, sensors, wheels,
                 order_started, block, reached>>

\* Mutant of EmergencySetStatus: the phases are left as they are.
EmergencySetStatusKeepsPhase(enable) ==
  /\ in_use' = [d \in Directions |-> enable]
  /\ UNCHANGED <<fifo, issued, connected, paused, emergency, phase, wheels,
                 order_started, block, reached>>

EmergencySetStatus(enable) ==
  /\ in_use' = [d \in Directions |-> enable]
  /\ phase' = [d \in Directions |-> phase[d] /\ enable]
  /\ UNCHANGED <<fifo, issued, connected, paused, emergency, wheels,
                 order_started, block, reached>>

\* SET_POS moves current_pos, and so its distance to last_pos of block.c.
SetPos ==
  /\ moved' \in BOOLEAN
  /\ UNCHANGED <<fifo, issued, connected, paused, emergency, sensors, wheels,
                 order_started, since, last_goal_nr, reached>>

-----------------------------------------------------------------------------
(* One call of asservLoop *)

\* A sensor in use reports whether something is near; one that is not in use
\* keeps its phase.
ComputeEmergency ==
  /\ phase' \in [Directions -> BOOLEAN]
  /\ \A d \in Directions : ~in_use[d] => phase'[d] = phase[d]
  /\ UNCHANGED in_use

BlockDue == since + 1 >= BlockPeriod

\* Only positions and angles that were the current slot at the last
\* calculation, from which the robot has not moved, count as blocked.
Blocked ==
  /\ BlockDue
  /\ Current.type \in {"POS", "ANG"}
  /\ fifo.current_goal = last_goal_nr
  /\ ~moved

AfterBlock == IF Blocked THEN MarkReached(fifo) ELSE fifo

\* Mutant of ComputeIsBlocked: last_goal_nr is never saved.
ComputeIsBlockedForgets ==
  /\ since' = IF BlockDue THEN 0 ELSE since + 1
  /\ last_goal_nr' = last_goal_nr
  /\ moved' \in BOOLEAN

\* The position is read after block.c looked at it, in RobotStateUpdate, and
\* the robot may have moved whatever its motors do: it coasts, it is pushed.
ComputeIsBlocked ==
  /\ since' = IF BlockDue THEN 0 ELSE since + 1
  /\ last_goal_nr' = IF BlockDue /\ Current.type \in {"POS", "ANG"}
                     THEN fifo.current_goal ELSE last_goal_nr
  /\ moved' \in BOOLEAN

\* What the current goal makes of the wheels.  arrived stands for the
\* distance (or time) to the goal, after the obstacle check.
Heading(s) == IF s = 1 THEN "ahead" ELSE IF s = -1 THEN "back" ELSE "turn"

\* applyPID drives the wheels at the linear speed just computed.
Pid(speeds) == /\ linear_speed' \in speeds
               /\ motors' = Heading(linear_speed')

StopRobot == linear_speed' = 0 /\ motors' = "off"

\* calcSpeed accelerates toward the goal and never beyond one step of
\* acceleration away from the present speed.
goalAngle ==
  Pid({0} \cup (IF linear_speed = -1 THEN {-1} ELSE {}))

goalPos ==
  \E s \in IF Current.data = 0 THEN Directions ELSE {Current.data} :
    Pid({0, s} \cup (IF linear_speed = -s THEN {-s} ELSE {}))

\* A PWM goal writes the motors itself and leaves linear_speed as it was.
goalPwm(arrived) ==
  /\ motors' = IF arrived THEN "off" ELSE Heading(Current.data)
  /\ UNCHANGED linear_speed

goalSpd(arrived) ==
  Pid(IF arrived THEN {0}
      ELSE IF Current.data = -1 THEN {-1}
      ELSE {0, Current.data} \cup (IF linear_speed = -1 THEN {-1} ELSE {}))

\* A timed goal starts its clock on its first loop and cannot end on it.
Timed == Current.type \in {"PWM", "SPD"}

\* When the current goal is reached its id is sent, unless it is 0, and the
\* next goal becomes the current one.
Conclude(f, started) ==
  LET done == FifoCurrentGoal(f)
  IN  IF done.is_reached
      THEN /\ reached' = IF done.ID # 0 THEN Append(reached, done.ID)
                                        ELSE reached
           /\ fifo' = FifoNextGoal(f)
           /\ order_started' = FALSE
      ELSE /\ fifo' = f
           /\ order_started' = started
           /\ UNCHANGED reached

\* EMERGENCY_BIT is computed afresh on every loop, from the linear speed
\* commanded by the previous one.
EmergencyNow == linear_speed # 0 /\ phase'[linear_speed]

Drive ==
  \E arrived \in BOOLEAN :
    /\ arrived /\ Timed => order_started
    /\ \/ Current.type = "ANG" /\ goalAngle
       \/ Current.type = "POS" /\ goalPos
       \/ Current.type = "PWM" /\ goalPwm(arrived)
       \/ Current.type = "SPD" /\ goalSpd(arrived)
    /\ Conclude(IF arrived THEN MarkReached(fifo) ELSE AfterBlock,
                order_started \/ Timed)

Halt == StopRobot /\ Conclude(AfterBlock, order_started)

ControlCompute ==
  /\ emergency' = EmergencyNow
  /\ IF emergency' \/ paused \/ Current.type = NO_GOAL THEN Halt ELSE Drive

asservLoop ==
  /\ connected
  /\ ComputeEmergency
  /\ ComputeIsBlocked
  /\ ControlCompute
  /\ UNCHANGED <<issued, connected, paused>>

-----------------------------------------------------------------------------
Next ==
  \/ PushOrder
  \/ GotoA
  \/ KillG
  \/ CleanG
  \/ SetPos
  \/ \E on \in BOOLEAN : \/ SetPause(on)
                        \/ SetConnected(on)
                        \/ EmergencySetStatus(on)
  \/ asservLoop

Spec == Init /\ [][Next]_vars

\* loop() calls asservLoop forever while the computer is connected.
FairSpec == Spec /\ WF_vars(asservLoop)

-----------------------------------------------------------------------------
(* Properties *)

BoardTypeOK ==
  /\ fifo \in Fifo
  /\ issued \in 0 .. MaxOrders
  /\ connected \in BOOLEAN /\ paused \in BOOLEAN /\ emergency \in BOOLEAN
  /\ in_use \in [Directions -> BOOLEAN]
  /\ phase \in [Directions -> BOOLEAN]
  /\ linear_speed \in -1 .. 1
  /\ motors \in Drives
  /\ order_started \in BOOLEAN
  /\ since \in 0 .. BlockPeriod - 1
  /\ last_goal_nr \in -1 .. MaxGoals - 1
  /\ moved \in BOOLEAN
  /\ reached \in Seq(Ids)

\* No slot keeps is_reached set between two loops.  FifoInit does not reset
\* the flag and ControlCompute tests it without looking at the type of the
\* slot, so a flag left behind would finish a goal that does not exist when
\* current_goal comes around to it.
Flagless(f) == \A i \in Slots : ~f.slot[i].is_reached

NoFlagLeftBehind == Flagless(fifo)

\* The board only reports the goal at the head of its queue: an id that is
\* sent belongs to a goal that was in the list, was its oldest, and leaves it.
OnlyHeadReported ==
  [][reached' # reached =>
       /\ fifo.nb_goals > 0
       /\ reached' = Append(reached, Contents(fifo)[1].ID)
       /\ Contents(fifo)' = Tail(Contents(fifo))]_vars

\* Goals are reported in the order they were sent, whatever was killed,
\* cleaned or refused in between.
ReportedInOrder ==
  \A i, j \in 1 .. Len(reached) : i < j => reached[i] <= reached[j]

\* A board told to ignore its sensors never stops for one again, even if it
\* is told so while something is in front of it: a sensor that is not in use
\* is no longer read, so a phase left set would stop the robot for good.
IgnoredSensorsNeverStop ==
  [][asservLoop /\ (\A d \in Directions : ~in_use[d]) => ~emergency']_vars

\* What block.c promises: the robot does not stay for ever on a position or
\* an angle without moving, be it paused or held by its sensors.
BlockedGoalEnds ==
  \A id \in Ids \ {0} :
    (Current.type \in {"POS", "ANG"} /\ Current.ID = id)
      ~> \/ ~(Current.type \in {"POS", "ANG"} /\ Current.ID = id)
         \/ moved \/ ~connected

\* "clear emergency everytime, it will be reset if necessary" (control.c:90):
\* after an emergency stop, as long as the same obstacles are seen, the robot
\* is not driven toward them.
EmergencyHolds ==
  [][emergency /\ asservLoop /\ phase' = phase
       => /\ phase'[1] => motors' # "ahead"
          /\ phase'[-1] => motors' # "back"]_vars
=============================================================================
