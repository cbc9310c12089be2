------------------------------- MODULE Planner -------------------------------
(***************************************************************************)
(* The planning of a match by the IA: for each robot, the loop of          *)
(* ia/robot.class.js and the actions of ia/actions.class.js, on top of the *)
(* path front they share (module Pathfinding).  A search (doNextAction)    *)
(* lists the doable actions and asks for a path to one after the other     *)
(* until a path is found; the action is then in progress until the robot   *)
(* reports its end, a collision puts it back, or a new search overwrites   *)
(* it.                                                                     *)
(*                                                                         *)
(* Abstracted: the order the priorities and distances give to the doable   *)
(* actions, and which of them the modules the robot carries rule out (any  *)
(* choice); positions (the path is there or is not).  External to the IA   *)
(* and modelled from how it uses them: the orders a robot has yet to carry *)
(* out, each of which ends with a message to the IA, and what a robot does *)
(* of "pause" and "stop" (clients/robot/robot.js).                         *)
(***************************************************************************)
EXTENDS Naturals, Sequences, FiniteSets, SequencesExt

CONSTANTS
  Robots,
  Actions,
  NoAction,
  owner,        \* the robot an action of actions.json belongs to
  dependency,   \* the action it depends on, or NoAction
  MaxSearches,  \* bound: searches of a robot
  MaxPauses     \* bound: emergency stops called by the lidar

ASSUME PlannerAssumption ==
  /\ NoAction \notin Actions
  /\ owner \in [Actions -> Robots]
  /\ dependency \in [Actions -> Actions \cup {NoAction}]
  /\ MaxSearches \in Nat /\ MaxPauses \in Nat
  /\ IsFiniteSet(Actions) /\ IsFiniteSet(Robots)

PathQuery == [robot : Robots, action : Actions, id : 1 .. MaxSearches]
NoQuery   == [robot |-> NoAction, action |-> NoAction, id |-> 0]
MaxQueries == Cardinality(Robots) * MaxSearches * Cardinality(Actions)

VARIABLES
  pf,          \* the path front
  started,     \* robots whose start() was called
  todo, inprogress, done,   \* of the Actions of a robot
  valid_id,    \* valid_id_do_action
  candidates,  \* the array `actions' of the search valid_id designates
  retries,     \* the 500 ms timers set when no path was found
  path,        \* robot.path is not empty
  paused,      \* robot.paused
  drive,       \* path_finished messages the asserv has yet to send
  acts,        \* action_finished messages the extensions have yet to send
  mode,        \* of the robot: running, told to stop, stopped
  pauses       \* emergency stops so far

search == <<valid_id, candidates, retries>>
state  == <<todo, inprogress, done>>
robot  == <<drive, acts, mode>>
vars   == <<pf, started, state, search, path, paused, robot, pauses>>

PF == INSTANCE Pathfinding WITH Query <- PathQuery

-----------------------------------------------------------------------------
(* Orders reach a robot only while its client is not muted. *)
Sent(r, queue, a) == IF mode[r] = "running" THEN Append(queue, a) ELSE queue

isDone(a, d) == a = NoAction \/ a \in d

(* Mutant of ActionsTodo: a dependency begun counts as done.              *)
ActionsTodoBegun(t, d) ==
  UNION {SetToSeqs(S) : S \in SUBSET {a \in t : dependency[a] \notin t}}

(* What doNextAction may put in actions_todo, given what is to do and     *)
(* done: the doable actions the robot's content allows, in any order.      *)
ActionsTodo(t, d) ==
  UNION {SetToSeqs(S) : S \in SUBSET {a \in t : isDone(dependency[a], d)}}

Rest(s) == IF s = <<>> THEN <<>> ELSE Tail(s)

(* The query pathDoAction makes for the first of the candidates.          *)
QueryFor(r, s, id) ==
  IF s = <<>> THEN NoQuery
  ELSE [robot |-> r, action |-> Head(s), id |-> id]

(* robot.loop: a new search.  Of t actions to do and d done; n retry      *)
(* timers run besides the one it may set.                                  *)
DoNextAction(r, t, d, n) ==
  /\ valid_id[r] < MaxSearches
  /\ valid_id' = [valid_id EXCEPT ![r] = @ + 1]
  /\ \E s \in ActionsTodo(t, d) :
       LET q == QueryFor(r, s, valid_id[r] + 1)
       IN /\ candidates' = [candidates EXCEPT ![r] = Rest(s)]
          /\ retries' = [retries EXCEPT ![r] = IF s = <<>> THEN n + 1 ELSE n]
          /\ pf' = IF q = NoQuery THEN pf ELSE PF!getPath(pf, q)

Init ==
  /\ pf = PF!Constructed
  /\ started = {}
  /\ todo = [r \in Robots |-> {a \in Actions : owner[a] = r}]
  /\ inprogress = [r \in Robots |-> NoAction]
  /\ done = [r \in Robots |-> {}]
  /\ valid_id = [r \in Robots |-> 0]
  /\ candidates = [r \in Robots |-> <<>>]
  /\ retries = [r \in Robots |-> 0]
  /\ path = [r \in Robots |-> FALSE]
  /\ paused = [r \in Robots |-> FALSE]
  /\ drive = [r \in Robots |-> <<>>]
  /\ acts = [r \in Robots |-> <<>>]
  /\ mode = [r \in Robots |-> "running"]
  /\ pauses = 0

(* doJack starts pr at once and gr 15 s later. *)
Start(r) ==
  /\ r \notin started /\ started' = started \cup {r}
  /\ DoNextAction(r, todo[r], done[r], retries[r])
  /\ UNCHANGED <<state, path, paused, robot, pauses>>

RetryTimer(r) ==
  /\ retries[r] > 0
  /\ DoNextAction(r, todo[r], done[r], retries[r] - 1)
  /\ UNCHANGED <<started, state, path, paused, robot, pauses>>

-----------------------------------------------------------------------------
(* The callback pathDoAction gives to getPath, called for query q; p is   *)
(* the front at that moment.                                               *)
CallbackPaused(q, p) ==
  /\ paused[q.robot]
  /\ pf' = PF!CallbackThenNext(p, NoQuery)
  /\ UNCHANGED <<state, search, path, robot>>

(* Mutant of CallbackPath: the action is not deleted from todo.           *)
CallbackPathKeepsTodo(q, p) ==
  LET r == q.robot IN
  /\ ~paused[r]
  /\ path' = [path EXCEPT ![r] = TRUE]
  /\ IF q.id = valid_id[r]
       THEN /\ inprogress' = [inprogress EXCEPT ![r] = q.action]
            /\ drive' = [drive EXCEPT ![r] = Sent(r, @, q.action)]
       ELSE UNCHANGED <<inprogress, drive>>
  /\ pf' = PF!CallbackThenNext(p, NoQuery)
  /\ UNCHANGED <<todo, done, search, acts, mode>>

(* Mutant of CallbackPath: robot.paused is not looked at.                 *)
CallbackPathUnpaused(q, p) ==
  LET r == q.robot IN
  /\ path' = [path EXCEPT ![r] = TRUE]
  /\ IF q.id = valid_id[r]
       THEN /\ inprogress' = [inprogress EXCEPT ![r] = q.action]
            /\ todo' = [todo EXCEPT ![r] = @ \ {q.action}]
            /\ drive' = [drive EXCEPT ![r] = Sent(r, @, q.action)]
       ELSE UNCHANGED <<inprogress, todo, drive>>
  /\ pf' = PF!CallbackThenNext(p, NoQuery)
  /\ UNCHANGED <<done, search, acts, mode>>

(* Mutant of CallbackPath: path_finished is not asked of the robot.       *)
CallbackPathUnreported(q, p) ==
  LET r == q.robot IN
  /\ ~paused[r]
  /\ path' = [path EXCEPT ![r] = TRUE]
  /\ IF q.id = valid_id[r]
       THEN /\ inprogress' = [inprogress EXCEPT ![r] = q.action]
            /\ todo' = [todo EXCEPT ![r] = @ \ {q.action}]
       ELSE UNCHANGED <<inprogress, todo>>
  /\ pf' = PF!CallbackThenNext(p, NoQuery)
  /\ UNCHANGED <<done, search, robot>>

(* A path was found: doAction.  It sends the path and, behind it, the     *)
(* request for the path_finished message.                                  *)
CallbackPath(q, p) ==
  LET r == q.robot IN
  /\ ~paused[r]
  /\ path' = [path EXCEPT ![r] = TRUE]
  /\ IF q.id = valid_id[r]
       THEN /\ inprogress' = [inprogress EXCEPT ![r] = q.action]
            /\ todo' = [todo EXCEPT ![r] = @ \ {q.action}]
            /\ drive' = [drive EXCEPT ![r] = Sent(r, @, q.action)]
       ELSE UNCHANGED <<inprogress, todo, drive>>
  /\ pf' = PF!CallbackThenNext(p, NoQuery)
  /\ UNCHANGED <<done, search, acts, mode>>

(* Mutant of CallbackNull: the candidate is looked at, not shifted.       *)
CallbackNullPeeks(q, p) ==
  LET r    == q.robot
      next == IF q.id = valid_id[r] THEN QueryFor(r, candidates[r], q.id)
                                    ELSE NoQuery
  IN
  /\ ~paused[r]
  /\ candidates' = candidates
  /\ retries' = IF q.id = valid_id[r] /\ next = NoQuery
                  THEN [retries EXCEPT ![r] = @ + 1] ELSE retries
  /\ pf' = PF!CallbackThenNext(p, next)
  /\ UNCHANGED <<state, valid_id, path, robot>>

(* Mutant of CallbackNull: no timer is set when no candidate is left.     *)
CallbackNullGivesUp(q, p) ==
  LET r    == q.robot
      next == IF q.id = valid_id[r] THEN QueryFor(r, candidates[r], q.id)
                                    ELSE NoQuery
  IN
  /\ ~paused[r]
  /\ candidates' = IF next = NoQuery THEN candidates
                   ELSE [candidates EXCEPT ![r] = Tail(@)]
  /\ retries' = retries
  /\ pf' = PF!CallbackThenNext(p, next)
  /\ UNCHANGED <<state, valid_id, path, robot>>

(* Mutant of CallbackNull: the pending query is sent first.               *)
CallbackNullLast(q, p) ==
  LET r    == q.robot
      next == IF q.id = valid_id[r] THEN QueryFor(r, candidates[r], q.id)
                                    ELSE NoQuery
  IN
  /\ ~paused[r]
  /\ candidates' = IF next = NoQuery THEN candidates
                   ELSE [candidates EXCEPT ![r] = Tail(@)]
  /\ retries' = IF q.id = valid_id[r] /\ next = NoQuery
                  THEN [retries EXCEPT ![r] = @ + 1] ELSE retries
  /\ pf' = LET served == PF!CallbackThenNext(p, NoQuery)
           IN IF next = NoQuery THEN served ELSE PF!getPath(served, next)
  /\ UNCHANGED <<state, valid_id, path, robot>>

(* No path was found: pathDoAction with what is left of the candidates.   *)
CallbackNull(q, p) ==
  LET r    == q.robot
      next == IF q.id = valid_id[r] THEN QueryFor(r, candidates[r], q.id)
                                    ELSE NoQuery
  IN
  /\ ~paused[r]
  /\ candidates' = IF next = NoQuery THEN candidates
                   ELSE [candidates EXCEPT ![r] = Tail(@)]
  /\ retries' = IF q.id = valid_id[r] /\ next = NoQuery
                  THEN [retries EXCEPT ![r] = @ + 1] ELSE retries
  /\ pf' = PF!CallbackThenNext(p, next)
  /\ UNCHANGED <<state, valid_id, path, robot>>

(* The program answers the oldest query; the path may have been found.    *)
Answer ==
  /\ pf.stdin # <<>>
  /\ LET e == Head(pf.callbacksFifo)
         p == PF!Answered(pf)
     IN \/ /\ e.nr \in pf.silenced
           /\ pf' = PF!CallbackThenNext(p, NoQuery)
           /\ UNCHANGED <<state, search, path, robot>>
        \/ /\ e.nr \notin pf.silenced
           /\ \/ CallbackPaused(e.query, p)
              \/ CallbackPath(e.query, p)
              \/ CallbackNull(e.query, p)
  /\ UNCHANGED <<started, paused, pauses>>

(* 1000 ms have passed: the callback is given null. *)
Timeout ==
  /\ pf.timers # <<>>
  /\ LET e == Head(pf.timers)
         p == PF!TimedOut(pf)
     IN CallbackPaused(e.query, p) \/ CallbackNull(e.query, p)
  /\ UNCHANGED <<started, paused, pauses>>

-----------------------------------------------------------------------------
(* Mutant of PathFinished: inprogress is not looked at.                   *)
PathFinishedUnchecked(r) ==
  /\ drive[r] # <<>> /\ drive' = [drive EXCEPT ![r] = Tail(@)]
  /\ path' = [path EXCEPT ![r] = FALSE]
  /\ acts' = [acts EXCEPT ![r] = Sent(r, @, inprogress[r])]
  /\ UNCHANGED <<pf, started, state, search, paused, mode, pauses>>

(* path_finished: the orders of the action in progress, whichever it is,  *)
(* are sent, and behind them the request for action_finished.              *)
PathFinished(r) ==
  /\ drive[r] # <<>> /\ drive' = [drive EXCEPT ![r] = Tail(@)]
  /\ path' = [path EXCEPT ![r] = FALSE]
  /\ acts' = IF inprogress[r] = NoAction THEN acts
             ELSE [acts EXCEPT ![r] = Sent(r, @, inprogress[r])]
  /\ UNCHANGED <<pf, started, state, search, paused, mode, pauses>>

(* action_finished: the action in progress is done and the loop goes on.  *)
(* The extensions each have their queue: messages may overtake.            *)
ActionFinished(r) ==
  /\ \E i \in 1 .. Len(acts[r]) : acts' = [acts EXCEPT ![r] = RemoveAt(@, i)]
  /\ IF inprogress[r] = NoAction THEN UNCHANGED <<pf, state, search>>
     ELSE LET d == done[r] \cup {inprogress[r]} IN
          /\ done' = [done EXCEPT ![r] = d]
          /\ inprogress' = [inprogress EXCEPT ![r] = NoAction]
          /\ DoNextAction(r, todo[r], d, retries[r])
          /\ UNCHANGED todo
  /\ UNCHANGED <<started, path, paused, drive, mode, pauses>>

(* onPos: the last checkpoint of the path is reached. *)
OnPos(r) ==
  /\ path[r] /\ path' = [path EXCEPT ![r] = FALSE]
  /\ UNCHANGED <<pf, started, state, search, paused, robot, pauses>>

(* onCollision, when the lidar sees an obstacle ahead on the path.  The   *)
(* order "asserv.collision" leaves what the robot has queued as it is.     *)
OnCollision(r) ==
  LET back == {inprogress[r]} \ {NoAction} IN
  /\ path[r] /\ path' = [path EXCEPT ![r] = FALSE]
  /\ todo' = [todo EXCEPT ![r] = @ \cup back]
  /\ inprogress' = [inprogress EXCEPT ![r] = NoAction]
  /\ DoNextAction(r, todo[r] \cup back, done[r], retries[r])
  /\ UNCHANGED <<done, started, paused, robot, pauses>>

-----------------------------------------------------------------------------
(* The lidar calls an emergency stop: both robots are paused.  robot.js   *)
(* falls through from "pause" into "stop", so a running robot will stop.   *)
Pause ==
  /\ pauses < MaxPauses /\ pauses' = pauses + 1
  /\ paused' = [r \in Robots |-> TRUE]
  /\ mode' = [r \in Robots |->
                IF mode[r] = "running" THEN "stopping" ELSE mode[r]]
  /\ UNCHANGED <<pf, started, state, search, path, drive, acts>>

(* The end of the emergency stop.  "resume" falls through too. *)
Resume ==
  /\ pauses > 0
  /\ paused' = [r \in Robots |-> FALSE]
  /\ mode' = [r \in Robots |->
                IF mode[r] = "running" THEN "stopping" ELSE mode[r]]
  /\ UNCHANGED <<pf, started, state, search, path, drive, acts, pauses>>

(* The robot receives the order: its client is muted, the queues of its   *)
(* extensions are emptied and nothing is reported any more.                *)
RobotStops(r) ==
  /\ mode[r] = "stopping"
  /\ mode' = [mode EXCEPT ![r] = "stopped"]
  /\ drive' = [drive EXCEPT ![r] = <<>>]
  /\ acts' = [acts EXCEPT ![r] = <<>>]
  /\ UNCHANGED <<pf, started, state, search, path, paused, pauses>>

Next ==
  \/ \E r \in Robots :
       \/ Start(r) \/ RetryTimer(r)
       \/ PathFinished(r) \/ ActionFinished(r)
       \/ OnPos(r) \/ OnCollision(r) \/ RobotStops(r)
  \/ Answer \/ Timeout \/ Pause \/ Resume

Spec == Init /\ [][Next]_vars

-----------------------------------------------------------------------------
PlannerTypeOK ==
  /\ started \subseteq Robots
  /\ todo \in [Robots -> SUBSET Actions]
  /\ inprogress \in [Robots -> Actions \cup {NoAction}]
  /\ done \in [Robots -> SUBSET Actions]
  /\ valid_id \in [Robots -> 0 .. MaxSearches]
  /\ candidates \in [Robots -> Seq(Actions)]
  /\ retries \in [Robots -> Nat]
  /\ path \in [Robots -> BOOLEAN]
  /\ paused \in [Robots -> BOOLEAN]
  /\ drive \in [Robots -> Seq(Actions)]
  /\ acts \in [Robots -> Seq(Actions)]
  /\ mode \in [Robots -> {"running", "stopping", "stopped"}]
  /\ pauses \in 0 .. MaxPauses

(* An action is never in two of todo, inprogress and done: none that is   *)
(* done is done again, none in progress is searched for.                   *)
NoActionTwice ==
  \A r \in Robots :
    /\ todo[r] \cap done[r] = {}
    /\ inprogress[r] \notin todo[r] \cup done[r]

(* No action is begun or done before the one it depends on is done.       *)
DependenciesAreDone ==
  \A r \in Robots : \A a \in done[r] \cup {inprogress[r]} :
    a # NoAction => isDone(dependency[a], done[r])

(* pathDoAction finds every candidate in todo, though the list was drawn  *)
(* up several answers earlier: else reading its startpoints would throw    *)
(* and end the IA.                                                         *)
CandidatesAreTodo ==
  \A r \in Robots : \A i \in 1 .. Len(candidates[r]) :
    candidates[r][i] \in todo[r]

(* While nothing stops the robot, an action in progress has a report to   *)
(* come from the robot: the plan cannot wait for ever.                     *)
ActionWillBeReported ==
  \A r \in Robots :
    inprogress[r] # NoAction /\ mode[r] = "running" =>
      drive[r] # <<>> \/ acts[r] # <<>>

(* A paused robot begins nothing, though the path it asked before may      *)
(* come back during the pause.                                             *)
PausedBeginsNothing ==
  [][\A r \in Robots :
       paused[r] => inprogress'[r] \in {inprogress[r], NoAction}]_vars

CurrentQuery(r) ==
  LET current(q) == q.robot = r /\ q.id = valid_id[r]
  IN \/ \E i \in 1 .. Len(pf.pendingQueries) : current(pf.pendingQueries[i])
     \/ \E i \in 1 .. Len(pf.callbacksFifo) :
          /\ current(pf.callbacksFifo[i].query)
          /\ pf.callbacksFifo[i].nr \notin pf.silenced

(* A started robot carries an action, waits for a path of its current     *)
(* search or will retry.                                                   *)
Alive(r) == inprogress[r] # NoAction \/ CurrentQuery(r) \/ retries[r] > 0

(* As long as no emergency stop is called, the loop never dies, whatever   *)
(* collides, times out or comes late.                                      *)
LoopStaysAlive == pauses = 0 => \A r \in started : Alive(r)

(* actions.class.js:34-41: an action is to do, in progress, done or killed *)
(* (kill is never called); none disappears from the plan.                  *)
(* pathfinding.class.js:195 leaves a query 1 s to answer, "then abort":    *)
(* but the answer of one query clears the timer of another, and its own    *)
(* timer, which runs on, calls back a second time.                         *)
NoActionIsLost ==
  \A a \in Actions :
    a \in todo[owner[a]] \cup done[owner[a]] \cup {inprogress[owner[a]]}

(* The IA uses the front as module Pathfinding says: this is PF!Spec, with  *)
(* the steps that leave the front alone told apart first.                  *)
UsesPathfinding == PF!Init /\ [][pf' # pf => PF!Next]_pf
=============================================================================
