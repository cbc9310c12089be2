# Verification of the UTCoupe 2017 robots

TLA+ models of the software of the two robots of UTCoupe (Eurobot 2017): `pr`
(petit robot) and `gr` (grand robot), their AI, and the boards that drive them.
Paths below are relative to the repository (`src/`).

## 1. The system

```
 webclient --- server ---+--- ia ------ pathfinding (C++, over pipes)
                         |     |-- actions of pr, actions of gr   (the planner)
                         |     `-- lidar watch, timer, jack
                         +--- lidar --- hokuyo (C, over pipes)
                         +--- pr client: asserv fifo --serial-- asserv board
                         |               extensions  --serial-- servo boards, AX12
                         `--- gr client: (same)
```

Every program is a client of one websocket server, which routes *orders* (name,
parameters) by the name of the receiver. Each JavaScript program is a single
event loop: a handler runs to its end before the next one starts. Concurrency is
between programs, between a program and its timers, and between a program and
what it asked for earlier. The boards are single threaded too: their `loop()`
alternates between reading serial orders and one turn of control.

| Component | State it keeps | Operations | What makes it correct |
|---|---|---|---|
| goal list (`arduino/common/asserv/goals.c`) | ring of 15 goals, three indexes | push, current, next, clear | indexes and slot types agree; a bounded FIFO |
| asserv board (`asserv.cpp`, `protocol.cpp`, `control.c`, `emergency.c`, `block.c`) | the list, pause and emergency bits, phases of the sensors, commanded speed, memory of the blocked robot | serial orders; 100 Hz loop: sense, detect blocking, drive, finish | only the head of the list is acknowledged, once, in order; an obstacle stops the robot; a blocked goal ends |
| path front (`ia/pathfinding.class.js`) | `busy`, pending queries, FIFO of callbacks, 1 s timers | getPath, answer, timeout | an answer reaches its own query; no query starves |
| planner (`ia/actions.class.js`, `ia/robot.class.js`) | actions to do / in progress / done, id of the valid search, path, pause flag | search, path found or not, path finished, action finished, collision, pause, resume | no action twice, dependencies first, the loop of a robot never dies |
| lidar watch (`ia/lidar.class.js`) | time of last data, two stop flags, a timer | data, status, 200 ms check | a silent or bad lidar pauses the robots, and no pause is for ever |
| match (`ia/ia.class.js`, `timer`, `jack`) | match started, timers | jack, end at 90 s, stop | a robot stopped at the end is not resumed; the funny action is made; the IA ends, and leaves no robot going |
| asserv client (`clients/asserv`, `clients/shared/fifo.js`, `orders.manager.js`) | FIFO of orders, one in progress, order ids and callbacks | order from the AI, acknowledgement, collision, start sequence | only what bypasses the FIFO adds to the orders that are out; a message means that what precedes it is done, once that has settled; two collisions do not block the FIFO |
| robot client, extensions, actuators (`clients/robot`, `extension`, `actuators`) | started flags, a factory under way, a FIFO per extension, the state of two boards | start, stop, pause, resume, actuator sequences, acknowledgements | the servos have the order the FIFO waits for, and one more for each time something else finished one; a stopped robot stays stopped; the FIFO never waits for nobody |
| server (`server/`) | which programs run, network | spawn, kill, route | the recorded state follows the processes |
| hokuyo driver (`hokuyo/main.js`) | child process, the frame being assembled, status | start, stop, data, close | one program in charge; a frame is of one scan; the status follows the child |
| lidar node (`lidar/`) | spots and last sign of life of each hokuyo | start, stop, data, 200 ms status | the status follows the hokuyos |
| servo boards, AX12, sender (`arduino/*/others`, `ax12`, `arduino/common/shared`) | output ring, servo state | commands | replies in order, none lost |
| path search (`pathfinding/src`) | bitmap, obstacles | set obstacles, search | one answer per query, in order |

What is hard about it: answers that come after their timeout, collisions that
replace a search whose path is still being computed, orders that bypass the FIFO
everything else waits in, flags that belong to an object that is gone (a goal of
the board, a candidate of the planner), and stops that meet a message under way.
`PROJECT.json` lists these hazards at the lines where they bite.

## 2. Modules

| Module | Models | Kind |
|---|---|---|
| `GoalQueue` | what the goal list promises: a bounded queue | abstract specification |
| `GoalFifo` | `goals.c` | detailed; implements `GoalQueue` (`IsAQueue`) |
| `GoalFifoProofs` | | proofs |
| `AsservBoard` | the firmware, over the operators of `GoalFifo` | component |
| `AsservBoardProofs` | | proofs |
| `Pathfinding` | `pathfinding.class.js` | component |
| `PathfindingProofs` | | proofs |
| `Planner` | `actions.class.js` and `robot.class.js` for both robots, over `Pathfinding` | composition; implements `Pathfinding` (`UsesPathfinding`) |
| `PlannerProofs` | | proofs |
| `AsservClient` | `fifo.js`, `orders.manager.js`, `asserv.js`, `asserv.real.js` | component, the board reduced to its promises |
| `AsservClientProofs` | | proofs |
| `Match` | `ia.class.js`, `timer.class.js`, `lidar.class.js` | component, with explicit time |
| `MatchProofs` | | proofs |
| `RobotClient` | `robot.js`, `pr.js`, `factory.js`, `baseconstructor.js` over `fifo.js`, `servo.real.js`, `ax12.real.js` | composition of a robot, an extension and its boards |
| `RobotClientProofs` | | proofs |
| `Hokuyo` | `hokuyo/main.js` | component |
| `HokuyoProofs` | | proofs |
| `MC*` | | constants for TLC |

**GoalFifo.** The C variable `fifo` is a record; `FifoPushGoal`, `FifoNextGoal`,
`FifoInit` are functions of that record so that `AsservBoard` can call them
inside a larger step. `FifoInit` leaves `is_reached`, `ID` and the data of a slot
alone, as the code does; static memory is zero at boot.

**AsservBoard.** One action per serial order that changes the control state, and
`asservLoop`, one turn of the loop: `ComputeEmergency`, `ComputeIsBlocked`,
`ControlCompute` in that order, the reaction to the sensors using the speed
*commanded by the previous turn*, as `control.c:94` does. Distances, PID and
acceleration are replaced by the choices they leave: has the goal been reached,
what is the sign of the new speed, has the robot moved since `block.c` last
looked. The unlimited counters are the orders sent (`MaxOrders`); time is counted
in turns (`BlockPeriod`). The field `reached` records the ids sent.

**Pathfinding.** A query sent to the program is numbered; the number stands for
the closure, the timer and the `params` object that `prepareAndDoQuery` creates.
`started` is the number of the last one, so it also tells which timer
`this.timeout_getpath` designates: the variable is shared by all queries, and the
closure of a late answer clears the timer of a later query. The callback of the
asker runs inside the handler, before the next pending query is shifted, and may
ask again; `CallbackThenNext` is that whole end of a handler. The program
(external) answers each line in order, late or never.

**Planner.** Per robot: the sets `todo`, `done`, the action `inprogress`, the id
of the valid search, the candidates left of that search (those of an older one
are never looked at again: every use first compares the id), the 500 ms retry
timers. `ActionsTodo` leaves the priority, the distance and the content of the
robot open: any sequence of doable actions. The messages a robot has yet to send
are `drive` (`path_finished`, from the asserv FIFO) and `acts`
(`action_finished`, from an extension). A collision does not empty them: the
order the AI sends is `asserv.collision`, which bypasses the FIFO and leaves it.
`Pause` and `Resume` come from the lidar, and what a robot does of them is what
`clients/robot/robot.js:73-84` does: both cases fall through into `stop`.

**AsservClient.** Operators named like the methods, on a record that holds the
objects of the client; an action is a whole handler. Orders are told apart by
what becomes of them (move, setting, message, the empty callback a collision
queues). `Out` counts the orders that are on a line or in the board, `Surplus`
those beyond the one in progress: a start sequence, which `place` sends before
every match, is worth two, a collision three, and each is gone once it is
acknowledged. The serial lines are FIFO and lose nothing. The board is reduced to what
`AsservBoard` shows: it acknowledges moves in order when they end, and forgets
them on `CLEANG`.

**Match.** The IA is one event loop, and what decides is which of its timers
comes first: `timers` is a set of names and dates, `clock` moves on only when no
timer is due, and the actions of the timers, `Fire`, are the callbacks. All delays
are constants; `MatchAssumption` orders them as the code does and no more. Data of
the lidar, its status, the jack and the stop of the operator may come at any
instant. `updateStatus` is one operator because data and the 200 ms timer both
call it. `bad`, `resumed` and `hasty` are history: they say of a state what led to
it (the last status of this match, an emergency stop that was lifted, an operator
who ended the IA out of a match) and no action reads them.

**RobotClient.** The life of `pr`: `start` creates a factory that calls back
about 1 s later (or twice: `detectAx12` calls back for every line that begins
with "ax12"), `Opened` is that callback, `stop` closes the extensions. The record
`ext` is the FIFO of `base_constructor` together with what is out for it: `lost`
says that the order in progress returned without a callback (`baseconstructor.js:93`,
`servo.real.js:209`), `servoAcks` and `axAcks` count callbacks kept by the two
drivers. `nextOrder` takes at once all orders that are over as they are called, as
the recursion of `orderFinished` does. An order of the AI that queues several
calls the first one before it queues the others (`newOrders`). `toQueue` and
`toFinish` are the two timers of `dropModule`. A board whose port is open and
that has not shaken hands makes a stop throw, which ends the process: the servos
(`closeExtensions`) and the asserv (`stop`), of which `asserv` keeps just that. A
servo board told to HALT keeps its port and may shake hands again (`ServoUp`); the
AX12 program may exit and be heard again (`AX12Exit`, `AX12Up`), and ends the
process when its first line is not the expected one. `told`, `undetected` and
`bypasses` are history; `bypasses` counts how often an order of the servos was
finished by something else than its answer (a push that the AX12 program answers,
a timer of `dropModule`) or dropped by a clean or a stop.

**Hokuyo.** `child` is the JavaScript variable, `program` the processes: after a
stop, or a start over a start, a program that was told to end still prints into
the same `count` and `bufferData` as its successor. A frame is abstracted to the
program it is from, whether that program has gone on to its next frame, and
whether a part was cut; `part` is what the C program prints next
(`communication.c:35-68`). Orders nearer than 500 ms are ignored (`recent`).
`mixed` counts the frames put together from two, `strays` the lines of a program
told to end, both since a program was started or a line lost: nothing else resets
them.

## 3. Runs

Passing runs:

| Run | Instance | Shows |
|---|---|---|
| `goal_fifo` | 3 slots, 2 types, 3 ids; no other bound | `FifoWindow`; `IsAQueue`: the ring implements the queue |
| `asserv_board` | 2 slots, 2 goal orders (a GOTOA is two goals), blocking every 2 turns | `OnlyHeadReported`, `ReportedInOrder`, `IgnoredSensorsNeverStop`; `BlockedGoalEnds` under fairness |
| `path_front` | 6 queries of 2 kinds | `AnswersGoToTheirQuery`, `PendingWillBeServed`; `PendingIsSent` under fairness |
| `planner` | 2 robots, 4 actions of which one depends on another, 2 searches per robot, 1 emergency stop | `NoActionTwice`, `DependenciesAreDone`, `CandidatesAreTodo`, `ActionWillBeReported`, `LoopStaysAlive`, `PausedBeginsNothing`, `UsesPathfinding` |
| `asserv_client` | 3 orders of any kind, 2 collisions, 1 start sequence | `OnlyBypassesAddOrders`, `PathFinishedMeansArrived`, `CallbacksAreAwaited`; `FifoKeepsGoing` under fairness |
| `match` | period 1, silence 2, gr at 4, match of 8 units; the delays after it 1, 2, 3 | `LossPauses`, `PauseWillBeLifted`, `OnlyAMatchResumes`, `FunnyBeforeStop`, `ExitLeavesNoRobot`; `EveryMatchEnds` under fairness |
| `robot_client` | 2 orders of the AI (up to 5 of the FIFO each), 1 factory, which may call back twice | `ServoOrdersOut`, `StopIsFinal`; `QueueDrains` under fairness |
| `hokuyo` | 2 programs, 3 lines lost, cut or printed as errors, 3 strays between two of them | `OneProgram`, `MixedFramesAreFew`, `NoProgramIsWaiting`; `FramesKeepComing` under fairness |

Why the bounds are enough. Two slots and two orders make the ring of the board
wrap, be full for the second goal of a GOTOA, be cleaned with the current slot in
any position and be reused; the theorems below hold for every size. Six queries
let two of them time out, be answered late and have pending ones behind them. Two
searches per robot let a collision, or the retry timer of the first, overtake a
search whose query is still out, with two candidates left; the emergency stop
comes and ends anywhere in them. An id is only compared for
equality with the last one. Three orders are a move, the message behind it and
the move after it, which is all the order properties relate; two collisions
overlap the start sequence and each other in every way. In `match` the units
keep the order of the real delays and let every timer meet every other one that it
can meet: a silence can begin, be noticed and end several times, `gr` can start
after a stop of the operator, and the jack can be pulled again between the end of
a match and the exit. Two orders in `robot_client` are a `prepare_module`, whose
five orders wait for each other, with a `drop_module` whose timers fall anywhere
in it; a factory that calls back twice meets a stop before, between and after
its calls. A robot that starts again is left to the theorems. Two
programs are the one that was told to end and its successor; three lost lines cut
a frame, the next one, and the start of a third; three strays let `mixed` reach
the bound that `MixedFramesAreFew` sets. The theorems below hold for any
delays and any bounds.

Runs that TLC must find violated, each a statement of a comment of the code
that the code does not keep (the full text is under `findings`):

| Run | Statement | What happens |
|---|---|---|
| `board_emergency` | "clear emergency everytime, it will be reset if necessary" (`control.c:90`) | the stop sets the commanded speed to 0, so the next turn looks in no direction, and drives toward the obstacle again |
| `planner_lost` | "Leave 1000 ms to the C program to answer, then abort" (`pathfinding.class.js:195`); an action is to do, in progress, done or killed (`actions.class.js:34-41`) | the robots share `timeout_getpath`: an answer clears the timer of a newer query, and its own calls its callback a second time; the next candidate of the same search then overwrites the action in progress |
| `client_blocked` | "you have to call the orderFinished method in the callback [...] This is mandatory" (`fifo.js:15-16`) | three collisions on a path: the empty callbacks they queue (`asserv.js:204`) outnumber the calls of `orderFinished`, one stays in progress with nothing to come, and the FIFO waits for ever |
| `robot_pause` | "`pause`: stopper le robot, concerver les files et l'action en cours" (`ia/README.md:22`) | the case falls through to `stop`: the extensions are closed, their queues emptied, the client muted, and `resume` is not heard |

Other differences met while modelling, which the models contain but no run
states.

- Boards. A paused board still finishes a goal through `block.c`
  (`protocol.h:53`). `KILLG` on a GOTOA leaves its angle (`protocol.h:37`).
  `block.c:26` remembers the slot of a goal and not the goal, so that a new goal
  in the same slot may be given up at once, although "goal didn't change"
  (`block.c:31`).
- Path front. A late answer clears `busy` while a newer query is out
  (`pathfinding.class.js:209`), and stops the timer of that query
  (`pathfinding.class.js:208`), which is then not aborted after 1 s.
- Planner. A path that comes back during a pause is dropped
  (`actions.class.js:361`), and nothing searches again after `resume`. The 500 ms
  retry timer of an abandoned search (`actions.class.js:377`) may also begin an
  action over the one in progress, after six searches of a robot, which no run
  reaches. The manual collision calls a method that no class defines
  (`robot.class.js:271`), and is not an action of the model.
- Asserv client. `asserv.collision` sends the next move instead of cleaning the
  FIFO (`asserv.js:140`); a collision calls `orderFinished` three times
  (`asserv.real.js:169`), so that the message of a path overtakes its moves,
  against `fifo.js:39`. `PathFinishedMeansArrived` says when it no longer does: as
  soon as no more orders are out than the FIFO waits for. The two moves of the start
  sequence, which bypass the FIFO (`asserv.real.js:159`), are the same on a smaller
  scale.
- Lidar watch. Once an emergency stop was lifted by data, `emergencyStopped_status`
  stays up and a second silence is not noticed (`lidar.class.js:55`); data lift a
  stop while the status is still bad, and a status that is bad during a silence is
  not kept (`lidar.class.js:63`, `213`). A lidar that is silent from the start of
  the match is never missed: `lidar.start` is commented out (`ia.class.js:196`).
- Match. A stop of the operator in the 4 s after the end exits before `gr` is told
  to stop (`ia.class.js:239`; `hasty` in the model); in any case `gr` goes on for
  4 s after the end of a match that "ends at 1'30" (`timer.class.js:44`).
- Robot client. A stop between the opening of the servo port and the answer of
  the board reads a method of `undefined` and ends the process
  (`servo.real.js:143`; `asserv.real.js:78` does the same for the asserv, and
  `ax12.real.js:108` for a first line of the AX12 program that is not the expected
  one); a factory that was under way at a stop opens the extensions of the stopped
  robot, which has `started` again but stays muted (`robot.js:121-133`); `push` finishes its order
  itself and again when the AX12 acknowledges (`baseconstructor.js:144`);
  `drop_module` finishes whatever order is in progress 1.1 s later
  (`baseconstructor.js:271`). The servos then have one order more than the FIFO
  waits for, and `ServoOrdersOut` says that each time adds no more than that. The
  order "stop" of the module grabber, which is not modelled, calls a method that
  does not exist.
- Hokuyo driver. `start` calls `quitC`, which resets `started`: a second start is
  never refused as "Already started !" (`main.js:74`) but restarts the program. A
  part that was cut may make `JSON.parse` throw, which nothing catches
  (`main.js:167`).

Deadlock is not checked: every bounded model stops when its bounds are used up.

## 4. Fairness

- `AsservBoard`: weak fairness of `asservLoop`. `loop()` calls it again and again
  while the computer is connected; `BlockedGoalEnds` excepts a disconnected board.
- `Pathfinding`: weak fairness of `Timeout`, the event loop runs a timer that is
  due. None for the program: it may never answer.
- `AsservClient`: weak fairness of the acknowledgement handler, of the board
  reading its line and of the board ending a move. The last is
  `BlockedGoalEnds` of the board. The AI owes nothing.
- `Match`: weak fairness of `Fire` and of `Tick`: node runs timers that are due,
  and time goes on. None for the lidar, the jack or the operator.
- `RobotClient`: weak fairness of the timers of `dropModule` and of the
  acknowledgements of the servo board, which answers an order when its movement
  is made. None for the AX12 program, which may exit, the handshakes, the factory
  or the AI.
- `Hokuyo`: weak fairness of the timers, of the data of each program and of the
  end of a program that was sent SIGINT. The program prints scans in an endless
  loop (`main.c:126`), but only while its range finder works (`main.c:179`, `186`):
  that it does is an assumption of `FramesKeepComing`. Lines may be lost or cut up to the bound, and the program may end
  by itself at any time.
- `Planner` is checked for safety only; that its loop goes on is stated as the
  invariants `LoopStaysAlive` and `ActionWillBeReported`, something to come exists.

## 5. Proofs

All theorems are checked by TLAPS for every value of the constants that satisfies
the named assumptions (`FifoAssumption`, `BoardAssumption`,
`PathfindingAssumption`, `PlannerAssumption`, `ClientAssumption`, `MatchAssumption`,
`RobotAssumption`, `HokuyoAssumption`), which TLC evaluates in the runs.

| Theorem | States | Argument |
|---|---|---|
| `FifoSafe` | `[](FifoTypeOK /\ FifoWindow)` | the two together are inductive: that `FifoNextGoal` keeps the window needs the range of the indexes, that `nb_goals` stays in range needs the window (a free current slot means an empty list) |
| `FifoImplementsQueue` | `FifoSpec => IsAQueue` | each step of the ring, in a state of `FifoSafe`, is `Push`, `Finish`, `Clear` or a stutter of the queue on `Contents(fifo)`; the arithmetic modulo the size is in lemmas about `SlotOf` |
| `BoardSafe` | `[](BoardTypeOK /\ Window(fifo) /\ Flagless(fifo))` of the board | the lemmas about the list operators are reused; a flag is set and tested in the same turn, and `FifoNextGoal` clears it |
| `OnlyHeadIsReported` | the action property of the same name | in a state without flags, only the current goal of a non-empty list can be concluded |
| `IgnoredSensors` | `IgnoredSensorsNeverStop` | invariant: a sensor not in use has no phase |
| `ReportsInOrder` | `[]ReportedInOrder` | invariant: the ids increase along the list from its current slot, and those already reported are smaller; a push appends the greatest id, what is taken away keeps the order |
| `PathfindingSafe` | `[](PathfindingTypeOK /\ AnswersGoToTheirQuery /\ PendingWillBeServed)` | inductive invariant: the callbacks and the queries of the program are the same numbers in the same order, if `busy`, the last timer is that of the last query; only the first two hold when a callback runs, and `CallbackThenNext` restores the third |
| `PlannerSafe` | `[](NoActionTwice /\ DependenciesAreDone /\ CandidatesAreTodo)` | inductive invariant `Inv`: every query not yet answered is in the front exactly once; those of the last search of a robot, and its candidates left, are all different actions to do whose dependency is done; older queries have smaller numbers. The three properties alone are not inductive: an answer begins the action its query names, so what was true when it was asked must be carried through the front |
| `PlannerReports` | `[](PlannerTypeOK /\ ActionWillBeReported)` | inductive with `Inv`, which gives the types of what only a search or an answer writes: `path_finished` is promised by the step that begins the action, `action_finished` by the step that consumes it |
| `PausedIsQuiet` | `PausedBeginsNothing` | from the invariant above, each step: only `CallbackPath` begins an action |
| `LoopAlive` | `[]LoopStaysAlive` | inductive with `Inv`: a robot whose last search is out has a query that waits or whose callback is not silenced. To keep it the numbers of the front must designate one query (`Numbered`): a timeout silences the callback its timer was set for and no other. A handler takes away the awaited query it answers only (`Gives`), and what it asks is awaited (`Grows`) |
| `PlannerUsesFront` | `Spec => UsesPathfinding` | refinement, step by step. The set of the queries ever asked has as many members as the front counts (`History`): a search asks under a new number, an answer asks a candidate that its search has not asked. Hence the front is never asked more than the `MaxQueries` queries there are |
| `PlannerFrontSafe` | `[](AnswersGoToTheirQuery /\ PendingWillBeServed)` of the front in the planner | `PathfindingSafe` through the refinement |
| `ClientTypes`, `OnlyBypasses`, `PathFinished`, `CallbacksAwaited` | the invariants and the action property of `AsservClient` | one inductive invariant `Inv`: the orders of the FIFO are in the order they were given; every id on its way to the board and back is there once and has its callback (`Flight`, `Callbacks`); they keep their order (`Ordered`), so that a cleaning drops nothing given after it; the order in progress is awaited, and the messages sent are older than it and than all that is still to do, unless all that is out was given before the last collision (`Fresh`). When `Surplus` is not positive the order awaited is the only one out. `Net` counts what the calls a handler makes send, which gives `OnlyBypasses`. `nextOrder` calls all leading messages at once, so what it does is first brought to one form (`NextOrderIs`) |
| `MatchTypes`, `LossIsSeen`, `PauseIsLifted`, `FunnyActionIsMade`, `NoRobotIsLeft`, `OnlyAMatchLifts` | the invariants and the action property of `Match` | one inductive invariant about what the timers under way will still do: none is overdue; the status loop runs in a match only (this alone gives `OnlyAMatchLifts`); until a stop is lifted, a flag tells that the robots are paused, and without a flag the next check comes before a silence is `SilenceTimeout + CheckPeriod` long; a stop of `gr` to come has its funny action before it, an exit to come has the stop of `gr` before it |
| `RobotTypes`, `StopHolds`, `ServoOrders` | the invariants of `RobotClient` | inductive invariant: what is under way was counted; a robot that was muted or told to stop has its extensions closed and no factory under way (`Closed`); the acknowledgements to come from the servo board are that of the order in progress and at most one for each time the FIFO was bypassed (`Owned`). `nextOrder` is shown once to keep that (`NextOrderCorrect`), whatever the queue and the number |
| `HokuyoTypes`, `OneProgramRuns`, `ClosedIsWaiting`, `FramesAlign` | the invariants of `Hokuyo` | the first three are inductive together; for the last, once one frame more was mixed than there were strays, `count` is 0 or follows the part that the program in charge prints next, in a buffer of one frame (`Aligned`, `Follows`): only a stray can break that, and then it has raised the bound |

Only model-checked: liveness (`BlockedGoalEnds`, `PendingIsSent`,
`FifoKeepsGoing`, `EveryMatchEnds`, `QueueDrains`, `FramesKeepComing`; fairness
and ENABLED are out of reach of the prover). Every other property of a passing
run is stated by a theorem.

Each component is proved by itself. That the board keeps what `AsservClient`
takes of it (moves acknowledged in order, when they end) is `ReportsInOrder`,
`OnlyHeadIsReported` and the run of `BlockedGoalEnds`; no theorem composes the
two modules.

## 6. Not modelled

Most lines of the repository are the sources of a wireless driver,
libraries and CAD of former years (`libs`, `os48`, `ax12/lib`, `old/`), which the
robots' own code does not call or takes as given; the models cover a small share
of the total for that reason alone.

Geometry, PID and speeds of the boards; the geometry of `detectCollision`; the A*
of the path program; the scan processing of the hokuyo program; the simulators
and the web client. The server: the models take a message as handled some time
after it is sent, in order, and lose nothing between two programs that run. The
lidar node: `Match` takes any status at any time. The handshake and the loss of
the port of the asserv board. The other extensions: they queue fixed sequences
over the FIFO that `RobotClient` models. The servo boards, the AX12 program and
the sender of the boards, of which `RobotClient` and `AsservBoard` take only that
what is sent may be answered at any time.

## 7. Plan

1. Done: `GoalQueue`, `GoalFifo`, `AsservBoard`, `Pathfinding`, `Planner`,
   `AsservClient`, `Match`, `RobotClient`, `Hokuyo`, with the proofs above.
2. `Server`: a record of programs against `close` events of their predecessors
   (`server.class.js:280`).
3. `LidarNode`: the status over the signs of life of two hokuyos, composed with
   `Hokuyo` below it and `Match` above it.
4. The handshake and the restart of the asserv board in `AsservClient`.
5. Proofs: done for every safety property. Left: a composition of the board
   with `AsservClient`, in which `ReportsInOrder` takes the place of the assumed
   order of the acknowledgements.

Files: `MC*.cfg` are run as named in `PROJECT.json`, e.g.
`tlc -config MCPlanner.cfg MCPlanner.tla`; proofs with `tlapm GoalFifoProofs.tla`.
