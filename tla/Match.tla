------------------------------- MODULE Match -------------------------------
(***************************************************************************)
(* The match, as the IA runs it: the jack and the clock of ia.class.js and *)
(* timer.class.js, the watch that lidar.class.js keeps on the lidar node,  *)
(* and the start, pause, resume and stop they give to the two robots.      *)
(*                                                                         *)
(* The IA is one event loop; what makes it hard is its timers, so time is  *)
(* explicit: a timer fires at its date, before the clock moves on.  The    *)
(* lidar node and the operator may do anything at any time.                *)
(***************************************************************************)
EXTENDS Integers

CONSTANTS
  CheckPeriod,     \* 200 ms, the status loop
  SilenceTimeout,  \* 1000 ms
  GrDelay,         \* 15 s, gr leaves after pr
  MatchLength,     \* 89.5 s
  FunnyDelay, GrStopDelay, StopDelay,  \* 2.5, 4 and 5 s after the end
  EarlyGrStopDelay, ExitDelay          \* 1 and 4 s after a stop in the match

ASSUME MatchAssumption ==
  /\ {CheckPeriod, SilenceTimeout, GrDelay, MatchLength, FunnyDelay,
      GrStopDelay, StopDelay, EarlyGrStopDelay, ExitDelay} \subseteq Nat \ {0}
  /\ CheckPeriod < SilenceTimeout
  /\ FunnyDelay < GrStopDelay /\ GrStopDelay < StopDelay
  /\ EarlyGrStopDelay < ExitDelay

VARIABLES
  running,             \* the process of the IA
  clock,
  timers,              \* a set of [name, at]
  match_started, t0,   \* timer.class.js
  last_lidar_data,
  emergencyStopped_silence, emergencyStopped_status,
  paused,              \* of each robot
  going,               \* robots whose loop has been started
  stopped,             \* robots that were sent "stop"
  funny,               \* the funny action has been asked for
  bad,                 \* last status of this match does not allow to go on
  resumed,             \* an emergency stop has been lifted
  hasty                \* the operator ended the IA out of a match

lidar == <<last_lidar_data, emergencyStopped_silence, emergencyStopped_status>>
history == <<bad, resumed, hasty>>
vars == <<running, clock, timers, match_started, t0, lidar, paused, going,
          stopped, funny, history>>

Robots == {"pr", "gr"}
TimerNames == {"status", "grStart", "end", "funny", "grStop", "stop", "exit"}
AllPaused == [r \in Robots |-> TRUE]
NonePaused == [r \in Robots |-> FALSE]

setTimeout(name, delay) == {[name |-> name, at |-> clock + delay]}
Looping == \E t \in timers : t.name = "status"

(* Mutant of Elapsed: the dates are swapped.                              *)
ElapsedBackwards == IF match_started THEN t0 - clock ELSE 0

(* timer.get: 0 out of a match *)
Elapsed == IF match_started THEN clock - t0 ELSE 0

Init ==
  /\ running = TRUE /\ clock = 0 /\ timers = {}
  /\ match_started = FALSE /\ t0 = 0
  /\ last_lidar_data = 0
  /\ emergencyStopped_silence = FALSE /\ emergencyStopped_status = FALSE
  /\ paused = NonePaused /\ going = {} /\ stopped = {} /\ funny = FALSE
  /\ bad = FALSE /\ resumed = FALSE /\ hasty = FALSE

-----------------------------------------------------------------------------
(* Mutant of Lost: a silence is noticed three times too late.             *)
LostLate(heard) == Elapsed - heard > 3 * SilenceTimeout

Lost(heard) == Elapsed - heard > SilenceTimeout

(* Mutant of resume: the other reason to stop is looked at.               *)
resumeIfWell(lift) ==
  /\ paused' = IF lift /\ ~emergencyStopped_status THEN NonePaused ELSE paused
  /\ resumed' = (resumed \/ lift)

(* resume, if the emergency stop is lifted. *)
resume(lift) ==
  /\ paused' = IF lift THEN NonePaused ELSE paused
  /\ resumed' = (resumed \/ lift)

(* Mutant of stopLidar: the timer of the status loop is left.             *)
stopLidarNot(ts) == ts

(* lidar.stop, with the timers of ts under way. *)
stopLidar(ts) == {t \in ts : t.name # "status"}

(* updateStatus: sees whether the lidar, last heard at the date heard, is *)
(* silent or talks again, and arms its timer again.                        *)
updateStatus(heard) ==
  /\ timers' = {t \in timers : t.name # "status"}
                  \cup setTimeout("status", CheckPeriod)
  /\ \/ /\ Lost(heard) /\ ~emergencyStopped_silence /\ ~emergencyStopped_status
        /\ emergencyStopped_silence' = TRUE /\ emergencyStopped_status' = TRUE
        /\ paused' = AllPaused /\ UNCHANGED resumed
     \/ LET talks == emergencyStopped_silence /\ Elapsed - heard < SilenceTimeout
        IN /\ ~Lost(heard) \/ emergencyStopped_silence \/ emergencyStopped_status
           /\ emergencyStopped_silence' = (emergencyStopped_silence /\ ~talks)
           /\ resume(talks)
           /\ UNCHANGED emergencyStopped_status

(* The timer of the status loop. *)
Check ==
  /\ \E t \in timers : t.name = "status" /\ t.at <= clock
  /\ updateStatus(last_lidar_data)
  /\ UNCHANGED <<running, clock, match_started, t0, last_lidar_data, going,
                 stopped, funny, bad, hasty>>

(* onAllSpot: the positions seen by the lidar.  What the robots do of     *)
(* them, detectCollision, is in module Planner.                            *)
onAllSpot ==
  /\ running /\ match_started
  /\ last_lidar_data' = Elapsed
  /\ updateStatus(Elapsed)
  /\ UNCHANGED <<running, clock, match_started, t0, going, stopped, funny,
                 bad, hasty>>

(* onLidarStatus: out of a match the status is stored, and not read again. *)
onLidarStatus(good) ==
  /\ running /\ match_started
  /\ bad' = ~good
  /\ \/ /\ ~good /\ ~emergencyStopped_silence
        /\ emergencyStopped_status' = TRUE
        /\ paused' = AllPaused /\ UNCHANGED resumed
     \/ /\ good \/ emergencyStopped_silence
        /\ emergencyStopped_status' = (emergencyStopped_status /\ ~good)
        /\ resume(good /\ emergencyStopped_status)
  /\ UNCHANGED <<running, clock, timers, match_started, t0, last_lidar_data,
                 emergencyStopped_silence, going, stopped, funny, hasty>>

-----------------------------------------------------------------------------
(* doJack and timer.start.  lidar.start is commented out: the status loop *)
(* begins with the first data.                                             *)
doJack ==
  /\ running /\ ~match_started
  /\ match_started' = TRUE /\ t0' = clock
  /\ timers' = timers \cup setTimeout("end", MatchLength)
                      \cup setTimeout("grStart", GrDelay)
  /\ going' = going \cup {"pr"}
  /\ bad' = FALSE
  /\ UNCHANGED <<running, clock, lidar, paused, stopped, funny, resumed, hasty>>

(* A timer t of that name that is due. *)
Due(t, name) == t.name = name /\ t \in timers /\ t.at <= clock

GrStart(t) ==
  /\ Due(t, "grStart")
  /\ timers' = timers \ {t} /\ going' = going \cup {"gr"}
  /\ UNCHANGED <<running, clock, match_started, t0, lidar, paused, stopped,
                 funny, history>>

(* The robots of R are told to stop for good (robot.class.js, stop). *)
stop(R) ==
  /\ paused' = [r \in Robots |-> r \in R \/ paused[r]]
  /\ stopped' = stopped \cup R

(* Mutant of TimeoutTimers: the delays of gr are exchanged.               *)
TimeoutTimersSwapped ==
  setTimeout("funny", GrStopDelay) \cup setTimeout("grStop", FunnyDelay)
    \cup setTimeout("stop", StopDelay)

(* Mutant of TimeoutTimers: the IA is not stopped.                        *)
TimeoutTimersWithoutStop ==
  setTimeout("funny", FunnyDelay) \cup setTimeout("grStop", GrStopDelay)

(* The timers armed at the end of the match, and by ia.stop in a match.   *)
TimeoutTimers ==
  setTimeout("funny", FunnyDelay) \cup setTimeout("grStop", GrStopDelay)
    \cup setTimeout("stop", StopDelay)

(* Mutant of StopTimers: gr is forgotten.                                 *)
StopTimersWithoutGr == setTimeout("exit", ExitDelay)

StopTimers ==
  setTimeout("grStop", EarlyGrStopDelay) \cup setTimeout("exit", ExitDelay)

(* The end of the match, and ia.timeout: pr and the watch stop at once. *)
timeout(t) ==
  /\ Due(t, "end")
  /\ match_started' = FALSE
  /\ stop({"pr"})
  /\ timers' = stopLidar(timers \ {t}) \cup TimeoutTimers
  /\ UNCHANGED <<running, clock, t0, lidar, going, funny, history>>

funnyAction(t) ==
  /\ Due(t, "funny")
  /\ timers' = timers \ {t} /\ funny' = TRUE
  /\ UNCHANGED <<running, clock, match_started, t0, lidar, paused, going,
                 stopped, history>>

GrStop(t) ==
  /\ Due(t, "grStop")
  /\ timers' = timers \ {t} /\ stop({"gr"})
  /\ UNCHANGED <<running, clock, match_started, t0, lidar, going, funny,
                 history>>

(* ia.stop, with the timers of ts under way: in a match, ends it and the  *)
(* process a little later; out of a match, ends the process.               *)
stopIa(ts) ==
  IF match_started
  THEN /\ match_started' = FALSE /\ funny' = TRUE
       /\ stop({"pr"})
       /\ timers' = stopLidar(ts) \cup StopTimers
       /\ UNCHANGED running
  ELSE /\ running' = FALSE /\ timers' = {}
       /\ UNCHANGED <<match_started, funny, paused, stopped>>

StopTimer(t) ==
  /\ Due(t, "stop")
  /\ stopIa(timers \ {t})
  /\ UNCHANGED <<clock, t0, lidar, going, history>>

(* The orders ia.stop and kill. *)
StopOrder ==
  /\ running
  /\ stopIa(timers)
  /\ hasty' = (hasty \/ ~match_started)
  /\ UNCHANGED <<clock, t0, lidar, going, bad, resumed>>

Exit(t) ==
  /\ Due(t, "exit")
  /\ running' = FALSE /\ timers' = {}
  /\ UNCHANGED <<clock, match_started, t0, lidar, paused, going, stopped,
                 funny, history>>

Fire ==
  \/ Check
  \/ \E t \in timers : \/ GrStart(t) \/ timeout(t) \/ funnyAction(t)
                       \/ GrStop(t) \/ StopTimer(t) \/ Exit(t)

(* Nothing depends on the time while no timer runs. *)
Tick ==
  /\ timers # {} /\ \A t \in timers : clock < t.at
  /\ clock' = clock + 1
  /\ UNCHANGED <<running, timers, match_started, t0, lidar, paused, going,
                 stopped, funny, history>>

Next ==
  \/ onAllSpot \/ \E good \in BOOLEAN : onLidarStatus(good)
  \/ doJack \/ StopOrder \/ Fire \/ Tick

Spec == Init /\ [][Next]_vars
FairSpec == Spec /\ WF_vars(Fire) /\ WF_vars(Tick)

-----------------------------------------------------------------------------
MatchTypeOK ==
  /\ running \in BOOLEAN /\ match_started \in BOOLEAN
  /\ clock \in Nat /\ t0 \in 0 .. clock
  /\ timers \subseteq [name : TimerNames, at : Nat]
  /\ last_lidar_data \in Nat
  /\ emergencyStopped_silence \in BOOLEAN /\ emergencyStopped_status \in BOOLEAN
  /\ paused \in [Robots -> BOOLEAN]
  /\ going \subseteq Robots /\ stopped \subseteq Robots
  /\ funny \in BOOLEAN /\ bad \in BOOLEAN /\ resumed \in BOOLEAN
  /\ hasty \in BOOLEAN

Silent == Looping /\ Elapsed - last_lidar_data > SilenceTimeout + CheckPeriod

(* The first loss of the lidar is never missed: from a bad status, or one *)
(* period after it has been silent too long, both robots are paused until  *)
(* an emergency stop is lifted (lidar.class.js:51-71, 206-233).            *)
LossPauses ==
  match_started /\ stopped = {} /\ ~resumed /\ (bad \/ Silent) =>
    paused = AllPaused

(* No pause for ever: a robot that waits for the lidar has a flag up that *)
(* data will lower, or one that the next good status will lower (the node  *)
(* sends its status only when it changes, so a good one must not have been *)
(* wasted).                                                                *)
PauseWillBeLifted ==
  match_started /\ stopped = {} /\ paused # NonePaused =>
    emergencyStopped_silence \/ (emergencyStopped_status /\ bad)

(* Out of a match nothing lifts a pause: what stopped the robots at the   *)
(* end cannot be undone by the lidar (ia.class.js:121).  timer.get is 0    *)
(* then, so that the status loop, were it left, would take the lidar for   *)
(* well.                                                                   *)
OnlyAMatchResumes ==
  [][\A r \in Robots : paused[r] /\ ~paused'[r] => match_started]_vars

(* When the IA ends, every robot it has started has been told to stop,    *)
(* unless the operator ended it out of a match.  gr is stopped by a timer  *)
(* and may be started by another after it (ia.class.js:194, 201, 226).     *)
ExitLeavesNoRobot == ~running /\ ~hasty => going \subseteq stopped

(* gr makes its funny action before it is stopped (ia.class.js:199-211). *)
FunnyBeforeStop == "gr" \in stopped => funny

(* Once started, the IA ends by itself: the stop at 5 s counts on the     *)
(* match being over, and stops a second one.                               *)
EveryMatchEnds == match_started ~> ~running
=============================================================================
