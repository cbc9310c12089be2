---------------------------- MODULE RobotClient ----------------------------
(***************************************************************************)
(* The client of the robot pr: its life (clients/robot/robot.js, pr.js,    *)
(* shared/client.js, shared/factory.js) and the orders of its extension    *)
(* base_constructor (clients/extension), carried out through               *)
(* actuators/servo.real.js and ax12.real.js.                               *)
(*                                                                         *)
(* Orders of the extension are told apart by what they wait for: "servo"   *)
(* (engage, rotate) and "drop" wait for the servo board, "push" for the    *)
(* AX12 program, "message" and "module--" go to the IA and wait for        *)
(* nothing.  The boards and the program are external: they acknowledge     *)
(* the orders and shake hands at any time after they are opened, or never. *)
(* The real drivers are modelled, not the simulated ones; those of an      *)
(* earlier factory only for the answers they owe.                          *)
(***************************************************************************)
EXTENDS Naturals, Sequences, FiniteSets, SequencesExt

CONSTANTS MaxOrders,  \* bound: orders given to the extension
          MaxStarts   \* bound: factories

ASSUME RobotAssumption == MaxOrders \in Nat /\ MaxStarts \in Nat

VARIABLES
  alive,      \* the process
  muted,      \* the robot does not hear the server
  starting, started,
  detecting,  \* factories that have not called back
  late,       \* factories that may call back again
  opened,     \* started, of the extension
  servo,      \* its board: "none", "waiting", "up" or "halted"
  ax12,       \* its AX12 program: "none", "waiting", "up" or "down"
  asserv,     \* the board of the asserv: "none", "waiting" or "up"
  ext,        \* the fifo of the extension and what is out for it
  toQueue, toFinish,  \* timers of dropModule, 300 and 1100 ms
  orders, starts,
  told,       \* last order sent to the robot: start, pause, resume, stop
  undetected, \* it was stopped, or killed, before its factory called back
  bypasses    \* times an order of the servos was finished by something
              \* else than its answer, or dropped by a clean

life == <<alive, muted, starting, started, detecting, late>>
boards == <<opened, servo, ax12, asserv>>
timers == <<toQueue, toFinish>>
bounds == <<orders, starts>>
history == <<told, undetected, bypasses>>
vars == <<life, boards, ext, timers, bounds, history>>

-----------------------------------------------------------------------------
(* clients/shared/fifo.js on the record of the extension: the orders       *)
(* queued, order_in_progress, whether the one in progress will call no     *)
(* callback, the callbacks kept for the servo board and the AX12 program,  *)
(* and whether the IA got a message ahead of an order of the servos.       *)
EmptyFifo == [queue |-> <<>>, order_in_progress |-> FALSE, lost |-> FALSE,
              servoAcks |-> 0, axAcks |-> 0, early |-> FALSE]

clean(x) == [x EXCEPT !.queue = <<>>, !.order_in_progress = FALSE,
                      !.lost = FALSE]

Waits(k) == k \in {"servo", "drop"} \/ (~opened /\ k # "module--")

(* nextOrder, and processFifoOrder on every order it comes to: what waits  *)
(* for nothing is over as it is called, a push is too, although its        *)
(* callback is kept.  An order that finds the extension stopped, or the    *)
(* servos not connected, returns without a callback.                       *)
nextOrder(x) ==
  LET i == SelectInSeq(x.queue, Waits)
      passed == IF i = 0 THEN x.queue ELSE SubSeq(x.queue, 1, i - 1)
      told_IA == {"message", "module--"} \cap ToSet(passed) # {}
      sent == i # 0 /\ opened /\ servo = "up"
      pushes == Cardinality({j \in 1 .. Len(passed) : passed[j] = "push"})
      follows == IF i # 0 /\ opened /\ x.queue[i] = "drop"
                   THEN <<"module--">> ELSE <<>>
  IN IF x.order_in_progress THEN x
     ELSE [queue |-> SubSeq(x.queue, Len(passed) + 2, Len(x.queue)) \o follows,
           order_in_progress |-> i # 0,
           lost |-> i # 0 /\ ~sent,
           servoAcks |-> IF sent THEN x.servoAcks + 1 ELSE x.servoAcks,
           axAcks |-> IF ax12 = "up" THEN x.axAcks + pushes ELSE x.axAcks,
           early |-> x.early \/ (told_IA /\ x.servoAcks > 0)]

(* Mutant of newOrders: order_in_progress is not looked at.               *)
newOrdersAtOnce(x, ks) ==
  nextOrder([x EXCEPT !.queue = @ \o ks, !.order_in_progress = FALSE])

queued(x, ks) == nextOrder([x EXCEPT !.queue = @ \o ks])

(* newOrder, for each of some orders: the first one, if it can be called,  *)
(* is called before the others are queued.                                 *)
newOrders(x, ks) ==
  queued(queued(x, SubSeq(ks, 1, 1)), SubSeq(ks, 2, Len(ks)))

(* Mutant of orderFinished: the next order is not called.                 *)
orderFinishedAlone(x) == [x EXCEPT !.order_in_progress = FALSE, !.lost = FALSE]

orderFinished(x) ==
  nextOrder([x EXCEPT !.order_in_progress = FALSE, !.lost = FALSE])

(* The orders in progress that the servo board is to answer: one, or none. *)
Awaited(x) == IF x.order_in_progress /\ ~x.lost THEN 1 ELSE 0

-----------------------------------------------------------------------------
Init ==
  /\ alive = TRUE /\ muted = FALSE
  /\ starting = FALSE /\ started = FALSE /\ detecting = 0 /\ late = 0
  /\ opened = FALSE /\ servo = "none" /\ ax12 = "none" /\ asserv = "none"
  /\ ext = EmptyFifo /\ toQueue = 0 /\ toFinish = 0
  /\ orders = 0 /\ starts = 0
  /\ told = "start" /\ undetected = FALSE /\ bypasses = 0

(* The order start is heard even by a muted robot; one that has started,   *)
(* or is about to, ignores it.                                             *)
Start ==
  /\ alive /\ told' = "start"
  /\ \/ /\ started \/ starting
        /\ UNCHANGED <<life, bounds>>
     \/ /\ ~started /\ ~starting /\ starts < MaxStarts
        /\ muted' = FALSE /\ starting' = TRUE
        /\ detecting' = detecting + 1 /\ starts' = starts + 1
        /\ UNCHANGED <<alive, started, late, orders>>
  /\ UNCHANGED <<boards, ext, timers, undetected, bypasses>>

(* What start does once the factory has called back: it makes the asserv,  *)
(* and openExtensions the servos and the AX12 program.                     *)
Opened ==
  /\ started' = TRUE /\ opened' = TRUE
  /\ servo' = "waiting" /\ ax12' = "waiting" /\ asserv' = "waiting"
  /\ UNCHANGED <<alive, muted, starting, ext, timers, bounds, history>>

(* The detection of the boards ends: the AX12 program has said "ax12", or *)
(* a timer of 1 s has killed it.  A second line of it may be read after.   *)
Detected ==
  /\ alive /\ detecting > 0
  /\ detecting' = detecting - 1 /\ late' \in {late, late + 1}
  /\ Opened

DetectedAgain ==
  /\ alive /\ late > 0 /\ late' = late - 1
  /\ Opened /\ UNCHANGED detecting

(* closeExtensions: the servo board and the AX12 program are sent HALT and *)
(* the fifo is emptied.  A board whose port is open, but that has not      *)
(* answered yet, has no ordersSerial: stop throws, and the process ends.   *)
closeExtensions ==
  \/ /\ opened' = FALSE
     /\ servo' = IF servo = "up" THEN "halted" ELSE servo
     /\ ext' = clean(ext)
     /\ bypasses' = bypasses + Awaited(ext)
     /\ undetected' = (undetected \/ detecting + late > 0)
     /\ UNCHANGED alive
  \/ /\ servo = "waiting" /\ alive' = FALSE
     /\ UNCHANGED <<opened, servo, ext, bypasses, undetected>>

(* Mutant of stop: the extensions are left open.                          *)
stopWithoutExtensions ==
  /\ muted' = TRUE /\ started' = FALSE /\ starting' = FALSE
  /\ UNCHANGED <<alive, opened, servo, ext, bypasses, undetected>>

(* stop: the robot is muted, and hears only start and kill from now on.    *)
(* The asserv is stopped first, and throws as the servos do.               *)
stop ==
  \/ /\ closeExtensions
     /\ IF alive' THEN /\ muted' = TRUE
                       /\ started' = FALSE /\ starting' = FALSE
        ELSE UNCHANGED <<muted, started, starting>>
  \/ /\ asserv = "waiting" /\ alive' = FALSE
     /\ UNCHANGED <<muted, started, starting, opened, servo, ext, bypasses,
                    undetected>>

(* stop, and pause and resume, whose cases fall through to that of stop    *)
(* (robot.js:73-84): the IA pauses and resumes robots that have started.   *)
StopOrder ==
  /\ alive
  /\ told' \in {"stop"} \cup (IF told = "start" /\ opened THEN {"pause"}
                              ELSE IF told = "pause" THEN {"resume"} ELSE {})
  /\ IF muted
     THEN UNCHANGED <<life, boards, ext, bypasses, undetected>>
     ELSE stop /\ UNCHANGED <<detecting, late, ax12, asserv>>
  /\ UNCHANGED <<timers, bounds>>

kill ==
  /\ alive /\ alive' = FALSE
  /\ UNCHANGED <<muted, starting, started, detecting, late, boards, ext,
                 timers, bounds, history>>

-----------------------------------------------------------------------------
(* The order "stop" of the extension itself: it can be opened again only  *)
(* by a stop and a start of the robot.                                     *)
ExtensionStop ==
  /\ alive /\ opened
  /\ closeExtensions
  /\ told' = "stop"
  /\ UNCHANGED <<muted, starting, started, detecting, late, ax12, asserv,
                 timers, bounds>>

ExtensionClean ==
  /\ alive /\ opened /\ ext # clean(ext)
  /\ ext' = clean(ext)
  /\ bypasses' = bypasses + Awaited(ext)
  /\ UNCHANGED <<life, boards, timers, bounds, told, undetected>>

(* prepareModule, and the orders of one step. *)
Prepared == <<"servo", "push", "drop", "servo", "servo">>

TakeOrder ==
  /\ alive /\ opened /\ orders < MaxOrders
  /\ orders' = orders + 1
  /\ \E ks \in {Prepared, <<"drop">>, <<"push">>, <<"message">>} :
       ext' = newOrders(ext, ks)
  /\ UNCHANGED <<life, boards, timers, starts, history>>

(* Mutant of DropModule: it arms the timer of orderFinished twice.        *)
DropModuleTwice ==
  /\ alive /\ opened /\ orders < MaxOrders
  /\ orders' = orders + 1
  /\ toQueue' = toQueue + 1 /\ toFinish' = toFinish + 2
  /\ UNCHANGED <<life, boards, ext, starts, history>>

(* dropModule waits beside the fifo: it queues nothing yet, and will       *)
(* finish whatever order is then in progress.                              *)
DropModule ==
  /\ alive /\ opened /\ orders < MaxOrders
  /\ orders' = orders + 1
  /\ toQueue' = toQueue + 1 /\ toFinish' = toFinish + 1
  /\ UNCHANGED <<life, boards, ext, starts, history>>

DropQueue ==
  /\ alive /\ toQueue > 0 /\ toQueue' = toQueue - 1
  /\ ext' = newOrders(ext, <<"drop", "servo", "push", "push">>)
  /\ UNCHANGED <<life, boards, toFinish, bounds, history>>

DropFinish ==
  /\ alive /\ toFinish > toQueue /\ toFinish' = toFinish - 1
  /\ ext' = orderFinished(ext)
  /\ bypasses' = bypasses + Awaited(ext)
  /\ UNCHANGED <<life, boards, toQueue, bounds, told, undetected>>

-----------------------------------------------------------------------------
(* The boards.  A board of the servos that was halted keeps its port open, *)
(* and may shake hands again; what it is then sent to initialise waits for *)
(* nothing.                                                                *)
ServoUp ==
  /\ alive /\ servo \in {"waiting", "halted"} /\ servo' = "up"
  /\ UNCHANGED <<life, opened, ax12, asserv, ext, timers, bounds, history>>

AsservUp ==
  /\ alive /\ asserv = "waiting" /\ asserv' = "up"
  /\ UNCHANGED <<life, opened, servo, ax12, ext, timers, bounds, history>>

(* The AX12 program says "0;".  Any line but "ax12" before that one has no *)
(* ordersSerial to send on: parseCommand throws, and the process ends.     *)
AX12Up ==
  /\ alive /\ ax12 \in {"waiting", "down"}
  /\ \/ ax12' = "up" /\ UNCHANGED alive
     \/ ax12 = "waiting" /\ alive' = FALSE /\ UNCHANGED ax12
  /\ UNCHANGED <<muted, starting, started, detecting, late, opened, servo,
                 asserv, ext, timers, bounds, history>>

(* It exits; what it has printed may be read later. *)
AX12Exit ==
  /\ alive /\ ax12 = "up" /\ ax12' = "down"
  /\ UNCHANGED <<life, opened, servo, asserv, ext, timers, bounds, history>>

ServoAck ==
  /\ alive /\ ext.servoAcks > 0
  /\ ext' = orderFinished([ext EXCEPT !.servoAcks = @ - 1])
  /\ UNCHANGED <<life, boards, timers, bounds, history>>

AxAck ==
  /\ alive /\ ext.axAcks > 0
  /\ ext' = orderFinished([ext EXCEPT !.axAcks = @ - 1])
  /\ bypasses' = bypasses + Awaited(ext)
  /\ UNCHANGED <<life, boards, timers, bounds, told, undetected>>

Next ==
  \/ Start \/ Detected \/ DetectedAgain \/ StopOrder \/ kill
  \/ ExtensionStop \/ ExtensionClean \/ TakeOrder \/ DropModule
  \/ DropQueue \/ DropFinish \/ ServoUp \/ AsservUp \/ AX12Up \/ AX12Exit
  \/ ServoAck \/ AxAck

Spec == Init /\ [][Next]_vars

(* Node runs its timers, and the servo board answers what it is sent.  The *)
(* AX12 program, which may exit, need not.                                 *)
FairSpec == /\ Spec
            /\ WF_vars(DropQueue) /\ WF_vars(DropFinish) /\ WF_vars(ServoAck)

-----------------------------------------------------------------------------
Kinds == {"servo", "drop", "push", "message", "module--"}

RobotTypeOK ==
  /\ {alive, muted, starting, started, opened, undetected} \subseteq BOOLEAN
  /\ servo \in {"none", "waiting", "up", "halted"}
  /\ ax12 \in {"none", "waiting", "up", "down"}
  /\ asserv \in {"none", "waiting", "up"}
  /\ ext \in [queue : Seq(Kinds), order_in_progress : BOOLEAN,
              lost : BOOLEAN, servoAcks : Nat, axAcks : Nat, early : BOOLEAN]
  /\ detecting \in 0 .. MaxStarts /\ late \in 0 .. MaxStarts
  /\ toQueue \in 0 .. MaxOrders /\ toFinish \in 0 .. MaxOrders
  /\ orders \in 0 .. MaxOrders /\ starts \in 0 .. MaxStarts
  /\ told \in {"start", "pause", "resume", "stop"} /\ bypasses \in Nat

(* The servos have the order the fifo waits for, and no other one but      *)
(* those that something else than their answer has finished: a push that   *)
(* the AX12 program answers, a timer of dropModule, a clean or a stop,     *)
(* each of them at most one.  The IA is told that a module is gone, or an  *)
(* action finished, before an order ahead of it is done only after one of  *)
(* these.                                                                  *)
ServoOrdersOut ==
  /\ Awaited(ext) <= ext.servoAcks
  /\ ext.servoAcks <= Awaited(ext) + bypasses
  /\ ext.early => bypasses > 0

(* A robot that was stopped stays so until it is started again, but for    *)
(* a factory that was under way, whose callback opens the extensions of a  *)
(* robot that is muted (robot.js:121-133).                                 *)
StopIsFinal == alive /\ told = "stop" /\ ~undetected => ~opened

(* The fifo never waits for an answer that nobody owes it, unless an order *)
(* came to a stopped extension or before its servos: then it is blocked.   *)
QueueDrains == ext.queue # <<>> ~> ext.queue = <<>> \/ ext.lost \/ ~alive

(* ia/README.md:22-23, "pause: stopper le robot, concerver les files et    *)
(* l'action en cours", "resume : reprendre l'ordre en cours".              *)
PauseKeepsRobot == told \in {"pause", "resume"} => opened
=============================================================================
