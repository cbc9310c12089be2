------------------------------ MODULE MatchProofs ------------------------------
(***************************************************************************)
(* What the IA promises at the loss of the lidar and at the end of a match *)
(* holds for any delays that are in the order of those of the code.        *)
(*                                                                         *)
(* No property is inductive by itself: each rests on what the timers under *)
(* way will still do.  The invariant is made of named parts:               *)
(*   Timely  no timer is overdue, none is left without a process, and the  *)
(*           status loop only runs in a match;                             *)
(*   Fresh   before the first match nothing has happened;                  *)
(*   Watched until a stop is lifted, a flag tells that the robots are      *)
(*           paused, and without one the next check comes soon enough;     *)
(*   Shown   the stop of gr comes after a funny action that was made or    *)
(*           will be made before it;                                       *)
(*   Halted  the stops of both robots come before the exit of the process. *)
(***************************************************************************)
EXTENDS Match, TLAPS

Timely ==
  /\ \A t \in timers : clock <= t.at
  /\ ~running => timers = {}
  /\ ~match_started => \A t \in timers : t.name # "status"

Fresh ==
  stopped = {} /\ ~match_started =>
    /\ paused = NonePaused
    /\ ~emergencyStopped_silence /\ ~emergencyStopped_status

Flagged == emergencyStopped_silence \/ emergencyStopped_status

Watched ==
  match_started /\ stopped = {} /\ ~resumed =>
    /\ Flagged => paused = AllPaused
    /\ bad => Flagged
    /\ ~Flagged => \A t \in timers : t.name = "status" =>
         t.at <= t0 + last_lidar_data + SilenceTimeout + CheckPeriod

(* In ts, a timer of that name comes before t. *)
Before(ts, name, t) == \E u \in ts : u.name = name /\ u.at < t.at

Shown ==
  \A t \in timers : t.name = "grStop" => funny \/ Before(timers, "funny", t)

Halted ==
  \A t \in timers : t.name \in {"stop", "exit"} =>
    /\ "pr" \in stopped
    /\ "gr" \in stopped \/ Before(timers, "grStop", t)

Inv ==
  /\ MatchTypeOK /\ Timely /\ Fresh /\ Watched /\ PauseWillBeLifted
  /\ Shown /\ FunnyBeforeStop /\ Halted /\ ExitLeavesNoRobot

USE MatchAssumption

-----------------------------------------------------------------------------
LEMMA SetTimeout ==
  ASSUME NEW name \in TimerNames, NEW delay \in Nat, MatchTypeOK
  PROVE  setTimeout(name, delay) \subseteq [name : TimerNames, at : Nat]
BY DEF setTimeout, MatchTypeOK

LEMMA ElapsedType == MatchTypeOK => Elapsed \in Nat
BY DEF MatchTypeOK, Elapsed

(* What a due timer tells: it fires in time, in a process that runs. *)
LEMMA DueNow ==
  ASSUME Inv, NEW t \in timers, NEW name, Due(t, name)
  PROVE  t.at = clock /\ t.name = name /\ running
BY DEF Inv, Timely, Due, MatchTypeOK

(* The check of the lidar, by its timer or by data.  Everything but its    *)
(* flags, its timer and the pauses is left alone.                          *)
LEMMA StatusStep ==
  ASSUME Inv, match_started, running, NEW heard \in Nat,
         updateStatus(heard), last_lidar_data' = heard,
         UNCHANGED <<running, clock, match_started, t0, going, stopped, funny,
                     bad, hasty>>
  PROVE  Inv'
<1> USE DEF Inv
<1> DEFINE next == [name |-> "status", at |-> clock + CheckPeriod]
           talks == emergencyStopped_silence /\ Elapsed - heard < SilenceTimeout
<1>1. /\ timers' = {t \in timers : t.name # "status"} \cup {next}
      /\ clock \in Nat /\ t0 \in Nat /\ t0 <= clock /\ Elapsed = clock - t0
      /\ Elapsed' = Elapsed
  BY DEF updateStatus, setTimeout, MatchTypeOK, Elapsed
<1>2. next \in [name : TimerNames, at : Nat] /\ next.name = "status"
      /\ next.at = clock + CheckPeriod
  BY <1>1 DEF TimerNames
<1>3. \/ /\ emergencyStopped_silence' = TRUE /\ emergencyStopped_status' = TRUE
         /\ paused' = AllPaused /\ resumed' = resumed
      \/ /\ ~Lost(heard) \/ emergencyStopped_silence \/ emergencyStopped_status
         /\ emergencyStopped_silence' = (emergencyStopped_silence /\ ~talks)
         /\ emergencyStopped_status' = emergencyStopped_status
         /\ paused' = IF talks THEN NonePaused ELSE paused
         /\ resumed' = (resumed \/ talks)
  BY DEF updateStatus, resume
<1> HIDE DEF next, talks
<1>4. MatchTypeOK'
  BY <1>1, <1>2, <1>3 DEF MatchTypeOK, AllPaused, NonePaused
<1>5. Timely'
  BY <1>1, <1>2 DEF Timely
<1>6. Fresh'
  BY DEF Fresh
<1>7. Watched'
  <2>1. SUFFICES ASSUME stopped = {}, ~resumed'
                 PROVE  /\ Flagged' => paused' = AllPaused
                        /\ bad => Flagged'
                        /\ ~Flagged' => next.at <= t0 + heard + SilenceTimeout
                                                      + CheckPeriod
    BY <1>1, <1>2 DEF Watched
  <2>2. CASE emergencyStopped_silence' /\ paused' = AllPaused
    BY <2>2 DEF Flagged
  <2>3. CASE /\ ~Lost(heard) \/ emergencyStopped_silence
                \/ emergencyStopped_status
             /\ emergencyStopped_silence' = emergencyStopped_silence
             /\ emergencyStopped_status' = emergencyStopped_status
             /\ paused' = paused /\ ~resumed
    <3>1. /\ Flagged' = Flagged
          /\ Flagged => paused = AllPaused
          /\ bad => Flagged
      BY <2>1, <2>3 DEF Watched, Flagged
    <3>2. ~Flagged' => next.at <= t0 + heard + SilenceTimeout + CheckPeriod
      BY <1>1, <1>2, <2>3 DEF Flagged, Lost
    <3> QED BY <2>3, <3>1, <3>2
  <2> QED BY <1>3, <2>1, <2>2, <2>3 DEF MatchTypeOK
<1>8. PauseWillBeLifted'
  BY <1>3 DEF PauseWillBeLifted, MatchTypeOK
<1>9. Shown' /\ Halted'
  <2>1. \A t : t.name # "status" => (t \in timers' <=> t \in timers)
    BY <1>1, <1>2
  <2>2. \A t, name : name # "status" /\ Before(timers, name, t)
                       => Before(timers', name, t)
    BY <2>1 DEF Before
  <2> QED BY <2>1, <2>2 DEF Shown, Halted
<1>10. FunnyBeforeStop' /\ ExitLeavesNoRobot'
  BY DEF FunnyBeforeStop, ExitLeavesNoRobot
<1> QED BY <1>4, <1>5, <1>6, <1>7, <1>8, <1>9, <1>10

LEMMA StatusOrderStep ==
  ASSUME Inv, NEW good \in BOOLEAN, onLidarStatus(good)
  PROVE  Inv'
<1> USE DEF Inv
<1>1. /\ match_started
      /\ UNCHANGED <<running, clock, timers, match_started, t0, last_lidar_data,
                     emergencyStopped_silence, going, stopped, funny, hasty>>
  BY DEF onLidarStatus
<1>2. /\ bad' = ~good
      /\ \/ /\ ~good /\ ~emergencyStopped_silence
            /\ emergencyStopped_status' = TRUE
            /\ paused' = AllPaused /\ resumed' = resumed
         \/ /\ good \/ emergencyStopped_silence
            /\ emergencyStopped_status' = (emergencyStopped_status /\ ~good)
            /\ paused' = IF good /\ emergencyStopped_status
                           THEN NonePaused ELSE paused
            /\ resumed' = (resumed \/ (good /\ emergencyStopped_status))
  BY DEF onLidarStatus, resume
<1>3. MatchTypeOK'
  BY <1>1, <1>2 DEF MatchTypeOK, AllPaused, NonePaused
<1>4. Timely' /\ Fresh' /\ Shown' /\ FunnyBeforeStop' /\ Halted'
      /\ ExitLeavesNoRobot'
  BY <1>1 DEF Timely, Fresh, Shown, FunnyBeforeStop, Halted, Before,
              ExitLeavesNoRobot
<1>5. Watched'
  <2>1. CASE ~good /\ ~emergencyStopped_silence
    BY <1>1, <1>2, <2>1 DEF Watched, Flagged
  <2>2. CASE good /\ emergencyStopped_status
    BY <1>1, <1>2, <2>2 DEF Watched, Flagged
  <2>3. CASE good /\ ~emergencyStopped_status
    <3>1. Flagged' = Flagged /\ paused' = paused /\ resumed' = resumed /\ ~bad'
      BY <1>1, <1>2, <2>3 DEF Flagged, MatchTypeOK
    <3> QED BY <1>1, <3>1 DEF Watched
  <2>4. CASE ~good /\ emergencyStopped_silence
    <3>1. Flagged /\ Flagged' /\ paused' = paused /\ resumed' = resumed
      BY <1>1, <1>2, <2>4 DEF Flagged, MatchTypeOK
    <3> QED BY <1>1, <3>1 DEF Watched
  <2> QED BY <2>1, <2>2, <2>3, <2>4
<1>6. PauseWillBeLifted'
  BY <1>1, <1>2 DEF PauseWillBeLifted, MatchTypeOK
<1> QED BY <1>3, <1>4, <1>5, <1>6

LEMMA JackStep == Inv /\ doJack => Inv'
<1> SUFFICES ASSUME Inv, doJack PROVE Inv'
  OBVIOUS
<1> USE DEF Inv
<1> DEFINE new == setTimeout("end", MatchLength)
                    \cup setTimeout("grStart", GrDelay)
<1>1. /\ running /\ ~match_started /\ match_started' /\ t0' = clock
      /\ timers' = timers \cup new
      /\ going' = going \cup {"pr"} /\ bad' = FALSE
      /\ UNCHANGED <<running, clock, lidar, paused, stopped, funny, resumed,
                     hasty>>
  BY DEF doJack
<1>2. /\ \A t \in new : t.name \in {"end", "grStart"} /\ clock <= t.at
      /\ new \subseteq [name : TimerNames, at : Nat]
  BY SetTimeout DEF setTimeout, TimerNames, MatchTypeOK
<1> HIDE DEF new
<1>3. MatchTypeOK'
  <2>1. timers' \subseteq [name : TimerNames, at : Nat] /\ t0' \in 0 .. clock'
    BY <1>1, <1>2 DEF MatchTypeOK
  <2> QED BY <1>1, <2>1 DEF doJack, MatchTypeOK, lidar, Robots
<1>4. Timely' /\ Fresh'
  BY <1>1, <1>2 DEF Timely, Fresh
<1>5. Watched' /\ PauseWillBeLifted'
  BY <1>1, <1>2 DEF Timely, Fresh, Watched, PauseWillBeLifted, Flagged, lidar
<1>6. Shown' /\ FunnyBeforeStop'
  BY <1>1, <1>2 DEF Shown, FunnyBeforeStop, Before
<1>7. Halted' /\ ExitLeavesNoRobot'
  BY <1>1, <1>2 DEF Halted, ExitLeavesNoRobot, Before
<1> QED BY <1>3, <1>4, <1>5, <1>6, <1>7

(* A timer that only starts a robot or makes the funny action. *)
LEMMA SmallTimerStep ==
  ASSUME Inv, NEW t \in timers, GrStart(t) \/ funnyAction(t)
  PROVE  Inv'
<1> USE DEF Inv
<1>1. /\ running /\ t.at = clock /\ t.name \in {"grStart", "funny"}
      /\ timers' = timers \ {t}
      /\ t.name = "funny" => funny'
      /\ funny => funny'
      /\ going' = going \/ going' = going \cup {"gr"}
      /\ funny' \in BOOLEAN
      /\ UNCHANGED <<running, clock, match_started, t0, lidar, paused, stopped,
                     history>>
  <2>1. CASE GrStart(t)
    BY <2>1, DueNow DEF GrStart, MatchTypeOK
  <2>2. CASE funnyAction(t)
    BY <2>2, DueNow DEF funnyAction
  <2> QED BY <2>1, <2>2
<1>2. MatchTypeOK'
  BY <1>1 DEF MatchTypeOK, lidar, history, Robots
<1>3. Timely' /\ Fresh' /\ Watched' /\ PauseWillBeLifted'
  BY <1>1 DEF Timely, Fresh, Watched, PauseWillBeLifted, Flagged, lidar, history
<1>4. Shown' /\ FunnyBeforeStop'
  BY <1>1 DEF Shown, FunnyBeforeStop, Before
<1>5. Halted' /\ ExitLeavesNoRobot'
  BY <1>1 DEF Halted, ExitLeavesNoRobot, Before
<1> QED BY <1>2, <1>3, <1>4, <1>5

(* The stop of gr: its funny action cannot still be to come. *)
LEMMA GrStopStep ==
  ASSUME Inv, NEW t \in timers, GrStop(t)
  PROVE  Inv'
<1> USE DEF Inv
<1>1. /\ running /\ t.at = clock /\ t.name = "grStop"
      /\ timers' = timers \ {t} /\ stopped' = stopped \cup {"gr"}
      /\ paused' = [r \in Robots |-> r \in {"gr"} \/ paused[r]]
      /\ UNCHANGED <<running, clock, match_started, t0, lidar, going, funny,
                     history>>
  BY DueNow DEF GrStop, stop
<1>2. MatchTypeOK'
  BY <1>1 DEF MatchTypeOK, lidar, history, Robots
<1>3. Timely' /\ Fresh' /\ Watched' /\ PauseWillBeLifted'
  BY <1>1 DEF Timely, Fresh, Watched, PauseWillBeLifted
<1>4. funny
  BY <1>1 DEF Shown, Before, Timely, MatchTypeOK
<1>5. Shown' /\ FunnyBeforeStop' /\ Halted' /\ ExitLeavesNoRobot'
  BY <1>1, <1>4 DEF Shown, FunnyBeforeStop, Halted, ExitLeavesNoRobot
<1> QED BY <1>2, <1>3, <1>5

(* The end of the match arms the stops in their order. *)
LEMMA TimeoutStep ==
  ASSUME Inv, NEW t \in timers, timeout(t)
  PROVE  Inv'
<1> USE DEF Inv
<1> DEFINE show == [name |-> "funny", at |-> clock + FunnyDelay]
           halt == [name |-> "grStop", at |-> clock + GrStopDelay]
           last == [name |-> "stop", at |-> clock + StopDelay]
<1>1. /\ running /\ t.name = "end" /\ clock \in Nat
      /\ timers' = {u \in timers \ {t} : u.name # "status"}
                     \cup {show, halt, last}
      /\ ~match_started' /\ stopped' = stopped \cup {"pr"}
      /\ paused' = [r \in Robots |-> r \in {"pr"} \/ paused[r]]
      /\ UNCHANGED <<running, clock, t0, lidar, going, funny, history>>
  BY DueNow DEF timeout, stop, stopLidar, TimeoutTimers, setTimeout, MatchTypeOK
<1>2. /\ show.name = "funny" /\ halt.name = "grStop" /\ last.name = "stop"
      /\ show.at < halt.at /\ halt.at < last.at /\ clock <= show.at
      /\ {show, halt, last} \subseteq [name : TimerNames, at : Nat]
  BY <1>1 DEF TimerNames
<1> HIDE DEF show, halt, last
<1>3. MatchTypeOK'
  <2>1. timers' \subseteq [name : TimerNames, at : Nat]
    BY <1>1, <1>2 DEF MatchTypeOK
  <2> QED BY <1>1, <2>1 DEF timeout, MatchTypeOK, lidar, history, Robots
<1>4. Timely' /\ Fresh' /\ Watched' /\ PauseWillBeLifted'
  <2>1. Timely'
    <3>1. \A u \in timers' : clock <= u.at /\ u.name # "status"
      BY <1>1, <1>2, <1>3 DEF Timely, MatchTypeOK
    <3> QED BY <1>1, <3>1 DEF Timely
  <2> QED BY <1>1, <2>1 DEF Fresh, Watched, PauseWillBeLifted
<1>5. Shown' /\ FunnyBeforeStop'
  BY <1>1, <1>2 DEF Shown, FunnyBeforeStop, Before
<1>6. Halted' /\ ExitLeavesNoRobot'
  BY <1>1, <1>2 DEF Halted, ExitLeavesNoRobot, Before
<1> QED BY <1>3, <1>4, <1>5, <1>6

(* ia.stop in a match, by an order or by the timer of an earlier match:    *)
(* but for that timer, those under way stay.                               *)
LEMMA StopInMatch ==
  ASSUME Inv, running, match_started, NEW ts \in SUBSET timers, stopIa(ts),
         \A t \in timers : t.name # "stop" => t \in ts,
         UNCHANGED <<clock, t0, lidar, going, bad, resumed, hasty>>
  PROVE  Inv'
<1> USE DEF Inv
<1> DEFINE halt == [name |-> "grStop", at |-> clock + EarlyGrStopDelay]
           last == [name |-> "exit", at |-> clock + ExitDelay]
<1>1. /\ timers' = {u \in ts : u.name # "status"} \cup {halt, last}
      /\ running' /\ ~match_started' /\ stopped' = stopped \cup {"pr"} /\ funny'
      /\ running' = running /\ match_started' = FALSE /\ funny' = TRUE
      /\ paused' = [r \in Robots |-> r \in {"pr"} \/ paused[r]]
  BY DEF stopIa, stop, stopLidar, StopTimers, setTimeout
<1>2. /\ halt.name = "grStop" /\ last.name = "exit" /\ halt.at < last.at
      /\ clock <= halt.at /\ {halt, last} \subseteq [name : TimerNames, at : Nat]
  BY DEF TimerNames, MatchTypeOK
<1> HIDE DEF halt, last
<1>3. MatchTypeOK'
  <2>1. timers' \subseteq [name : TimerNames, at : Nat]
    BY <1>1, <1>2 DEF MatchTypeOK
  <2> QED BY <1>1, <2>1 DEF MatchTypeOK, lidar, Robots
<1>4. Timely' /\ Fresh' /\ Watched' /\ PauseWillBeLifted'
  <2>1. Timely'
    <3>1. \A u \in timers' : clock <= u.at /\ u.name # "status"
      BY <1>1, <1>2, <1>3 DEF Timely, MatchTypeOK
    <3> QED BY <1>1, <3>1 DEF Timely
  <2> QED BY <1>1, <2>1 DEF Fresh, Watched, PauseWillBeLifted
<1>5. Shown' /\ FunnyBeforeStop'
  BY <1>1 DEF Shown, FunnyBeforeStop
<1>6. Halted' /\ ExitLeavesNoRobot'
  BY <1>1, <1>2 DEF Halted, ExitLeavesNoRobot, Before
<1> QED BY <1>3, <1>4, <1>5, <1>6

(* When a timer ends the process, the stop of gr is over. *)
LEMMA AllStopped ==
  ASSUME Inv, NEW t \in timers, Due(t, "stop") \/ Due(t, "exit")
  PROVE  going \subseteq stopped
<1>1. t.name \in {"stop", "exit"} /\ t.at = clock
  BY DueNow
<1>2. "pr" \in stopped /\ "gr" \in stopped
  BY <1>1 DEF Inv, Halted, Before, Timely, MatchTypeOK
<1> QED BY <1>2 DEF Inv, MatchTypeOK, Robots

(* The process ends, and its timers with it. *)
LEMMA EndStep ==
  ASSUME Inv, running' = FALSE, timers' = {}, hasty' \in BOOLEAN,
         hasty' \/ going \subseteq stopped,
         UNCHANGED <<clock, match_started, t0, lidar, paused, going, stopped,
                     funny, bad, resumed>>
  PROVE  Inv'
<1> USE DEF Inv
<1>1. MatchTypeOK' /\ Timely'
  BY DEF MatchTypeOK, Timely, lidar
<1>2. Fresh' /\ Watched' /\ PauseWillBeLifted'
  BY DEF Fresh, Watched, PauseWillBeLifted, Flagged, lidar
<1>3. Shown' /\ FunnyBeforeStop' /\ Halted' /\ ExitLeavesNoRobot'
  BY DEF Shown, FunnyBeforeStop, Halted, ExitLeavesNoRobot
<1> QED BY <1>1, <1>2, <1>3

LEMMA StopStep ==
  ASSUME Inv, StopOrder \/ \E t \in timers : StopTimer(t) \/ Exit(t)
  PROVE  Inv'
<1>1. CASE StopOrder
  <2>1. CASE match_started
    <3>1. hasty' = hasty
      BY <1>1, <2>1 DEF StopOrder, Inv, MatchTypeOK
    <3> QED BY <1>1, <2>1, <3>1, StopInMatch DEF StopOrder
  <2>2. CASE ~match_started
    BY <1>1, <2>2, EndStep DEF StopOrder, stopIa, Inv, MatchTypeOK
  <2> QED BY <2>1, <2>2
<1>2. ASSUME NEW t \in timers, StopTimer(t)
      PROVE  Inv'
  <2>1. /\ running /\ going \subseteq stopped /\ t.name = "stop"
        /\ hasty \in BOOLEAN /\ stopIa(timers \ {t})
        /\ UNCHANGED <<clock, t0, lidar, going, bad, resumed, hasty>>
    BY <1>2, DueNow, AllStopped DEF StopTimer, Inv, MatchTypeOK, history
  <2>2. CASE match_started
    <3>1. \A u \in timers : u.name # "stop" => u \in timers \ {t}
      BY <2>1
    <3> HIDE DEF Inv
    <3> QED BY <2>1, <2>2, <3>1, StopInMatch
  <2>3. CASE ~match_started
    BY <2>1, <2>3, EndStep DEF stopIa
  <2> QED BY <2>2, <2>3
<1>3. ASSUME NEW t \in timers, Exit(t)
      PROVE  Inv'
  <2>1. going \subseteq stopped /\ hasty \in BOOLEAN
    BY <1>3, AllStopped DEF Exit, Inv, MatchTypeOK
  <2> QED BY <1>3, <2>1, EndStep DEF Exit, history
<1> QED BY <1>1, <1>2, <1>3

LEMMA TickStep == Inv /\ Tick => Inv'
<1> SUFFICES ASSUME Inv, Tick PROVE Inv'
  OBVIOUS
<1> USE DEF Inv
<1>1. MatchTypeOK' /\ Timely'
  BY DEF Tick, MatchTypeOK, Timely, lidar, history
<1>2. Fresh' /\ Watched' /\ PauseWillBeLifted'
  BY DEF Tick, Fresh, Watched, PauseWillBeLifted, Flagged, lidar, history
<1>3. Shown' /\ FunnyBeforeStop' /\ Halted' /\ ExitLeavesNoRobot'
  BY DEF Tick, Shown, FunnyBeforeStop, Halted, ExitLeavesNoRobot, Before,
         history
<1> QED BY <1>1, <1>2, <1>3

-----------------------------------------------------------------------------
LEMMA InitInv == Init => Inv
<1> SUFFICES ASSUME Init PROVE Inv
  OBVIOUS
<1>1. MatchTypeOK
  <2>1. paused \in [Robots -> BOOLEAN] /\ t0 \in 0 .. clock
    BY DEF Init, NonePaused
  <2>2. going \subseteq Robots /\ stopped \subseteq Robots
        /\ timers \subseteq [name : TimerNames, at : Nat]
    BY DEF Init
  <2> QED BY <2>1, <2>2 DEF Init, MatchTypeOK
<1>2. Timely /\ Fresh /\ Watched /\ PauseWillBeLifted
  BY DEF Init, Timely, Fresh, Watched, PauseWillBeLifted
<1>3. Shown /\ FunnyBeforeStop /\ Halted /\ ExitLeavesNoRobot
  BY DEF Init, Shown, FunnyBeforeStop, Halted, ExitLeavesNoRobot
<1> QED BY <1>1, <1>2, <1>3 DEF Inv

(* The status loop only runs in a match, and data are only heard in one. *)
LEMMA CheckStep == Inv /\ (Check \/ onAllSpot) => Inv' /\ match_started
<1> SUFFICES ASSUME Inv, Check \/ onAllSpot PROVE Inv' /\ match_started
  OBVIOUS
<1>1. CASE Check
  <2>1. match_started /\ running /\ last_lidar_data \in Nat
    BY <1>1 DEF Check, Inv, Timely, MatchTypeOK
  <2> QED BY <1>1, <2>1, StatusStep DEF Check
<1>2. CASE onAllSpot
  <2>1. Elapsed \in Nat
    BY ElapsedType DEF Inv
  <2> QED BY <1>2, <2>1, StatusStep DEF onAllSpot
<1> QED BY <1>1, <1>2

LEMMA NextInv == Inv /\ [Next]_vars => Inv'
<1> SUFFICES ASSUME Inv, [Next]_vars PROVE Inv'
  OBVIOUS
<1>1. CASE onAllSpot \/ Check
  BY <1>1, CheckStep
<1>2. CASE \E good \in BOOLEAN : onLidarStatus(good)
  BY <1>2, StatusOrderStep
<1>3. CASE doJack
  BY <1>3, JackStep
<1>4. CASE StopOrder
  BY <1>4, StopStep
<1>5. ASSUME NEW t \in timers,
             \/ GrStart(t) \/ timeout(t) \/ funnyAction(t)
             \/ GrStop(t) \/ StopTimer(t) \/ Exit(t)
      PROVE  Inv'
  BY <1>5, SmallTimerStep, TimeoutStep, GrStopStep, StopStep
<1>6. CASE Tick
  BY <1>6, TickStep
<1>7. CASE UNCHANGED vars
  BY <1>7 DEF vars, lidar, history, Inv, MatchTypeOK, Timely, Fresh, Watched,
     PauseWillBeLifted, Shown, FunnyBeforeStop, Halted, ExitLeavesNoRobot,
     Before, Flagged
<1> QED BY <1>1, <1>2, <1>3, <1>4, <1>5, <1>6, <1>7 DEF Next, Fire

LEMMA MatchInductive == Spec => []Inv
BY InitInv, NextInv, PTL DEF Spec

(* The variables of the match keep their types; the clock never runs       *)
(* behind t0.                                                              *)
THEOREM MatchTypes == Spec => []MatchTypeOK
BY MatchInductive, PTL DEF Inv

(* For any delays, until an emergency stop is lifted, a lidar that is ill  *)
(* or silent for one period more than it may has paused both robots.       *)
THEOREM LossIsSeen == Spec => []LossPauses
<1>1. Inv => LossPauses
  <2>1. SUFFICES ASSUME Inv, match_started, stopped = {}, ~resumed, bad \/ Silent
                 PROVE  Flagged
    BY DEF Inv, Watched, LossPauses
  <2>2. CASE bad
    BY <2>1, <2>2 DEF Inv, Watched
  <2>3. CASE Silent
    BY <2>1, <2>3 DEF Inv, Watched, Silent, Looping, Elapsed, Timely, MatchTypeOK
  <2> QED BY <2>1, <2>2, <2>3
<1> QED BY <1>1, MatchInductive, PTL

(* For any delays, a robot that waits for the lidar waits for something    *)
(* that will be noticed.                                                   *)
THEOREM PauseIsLifted == Spec => []PauseWillBeLifted
BY MatchInductive, PTL DEF Inv

(* Whatever stops, matches and orders overlap, gr is not stopped before    *)
(* its funny action.                                                       *)
THEOREM FunnyActionIsMade == Spec => []FunnyBeforeStop
BY MatchInductive, PTL DEF Inv

(* Whatever stops, matches and orders overlap, the IA does not end by      *)
(* itself before it has stopped every robot it started.                    *)
THEOREM NoRobotIsLeft == Spec => []ExitLeavesNoRobot
BY MatchInductive, PTL DEF Inv

(* Out of a match no message, and no timer left, lifts a pause. *)
THEOREM OnlyAMatchLifts == Spec => OnlyAMatchResumes
<1>1. Inv /\ [Next]_vars =>
        [\A r \in Robots : paused[r] /\ ~paused'[r] => match_started]_vars
  <2>1. SUFFICES ASSUME Inv, Next, ~match_started, NEW r \in Robots, paused[r]
                 PROVE  paused'[r]
    OBVIOUS
  <2>2. ~onAllSpot /\ ~Check
    BY <2>1, CheckStep
  <2>3. \A good \in BOOLEAN : ~onLidarStatus(good)
    BY <2>1 DEF onLidarStatus
  <2>4. CASE doJack \/ Tick \/ StopOrder
    BY <2>1, <2>4 DEF doJack, Tick, StopOrder, stopIa
  <2>5. ASSUME NEW t \in timers,
               \/ GrStart(t) \/ timeout(t) \/ funnyAction(t)
               \/ GrStop(t) \/ StopTimer(t) \/ Exit(t)
        PROVE  paused'[r]
    BY <2>1, <2>5 DEF GrStart, timeout, funnyAction, GrStop, StopTimer, Exit,
       stop, stopIa
  <2> QED BY <2>1, <2>2, <2>3, <2>4, <2>5 DEF Next, Fire
<1> QED BY <1>1, MatchInductive, PTL DEF Spec, OnlyAMatchResumes
=============================================================================
