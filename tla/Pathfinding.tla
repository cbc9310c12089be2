----------------------------- MODULE Pathfinding -----------------------------
(***************************************************************************)
(* ia/pathfinding.class.js: the front the two robots of the IA share to    *)
(* ask the C++ program of pathfinding/src for paths.  One query is meant   *)
(* to be with the program at a time (busy), the others wait in             *)
(* pendingQueries.  A query is given up after 1000 ms (timers), but its    *)
(* entry of callbacksFifo stays, for the program still answers it.         *)
(*                                                                         *)
(* A handler of the JavaScript event loop is one action: the callback of   *)
(* the asker runs inside it, between busy = false and the start of the     *)
(* next pending query, and may itself call getPath.  Queries are numbered  *)
(* in the order they are written to the program; a number stands for the   *)
(* closure, the timer and the params object prepareAndDoQuery creates.     *)
(* The obstacles updateMap sends before a query get no answer and are      *)
(* left out.                                                               *)
(***************************************************************************)
EXTENDS Naturals, Sequences

CONSTANTS
  Query,        \* what the askers ask
  NoQuery,      \* a callback that asks nothing more
  MaxQueries    \* bound: queries asked in a behaviour

ASSUME PathfindingAssumption == NoQuery \notin Query /\ MaxQueries \in Nat

VARIABLE pf

Sent == [nr : 1 .. MaxQueries, query : Query]   \* a query sent to the program

(***************************************************************************)
(* The constructor.  started counts the queries sent, so it also is the    *)
(* query whose timer this.timeout_getpath designates; silenced holds those *)
(* whose params.callback is the empty function; stdin the queries the      *)
(* program has not answered yet, in the order of its input.                *)
(***************************************************************************)
Constructed ==
  [busy |-> FALSE, pendingQueries |-> <<>>, callbacksFifo |-> <<>>,
   timers |-> <<>>, started |-> 0, silenced |-> {}, stdin |-> <<>>]

prepareAndDoQuery(p, q) ==
  LET entry == [nr |-> p.started + 1, query |-> q]
  IN [busy |-> TRUE,
      pendingQueries |-> p.pendingQueries,
      callbacksFifo |-> Append(p.callbacksFifo, entry),
      timers |-> Append(p.timers, entry),
      started |-> p.started + 1,
      silenced |-> p.silenced,
      stdin |-> Append(p.stdin, p.started + 1)]

getPath(p, q) ==
  IF p.busy THEN [p EXCEPT !.pendingQueries = Append(@, q)]
            ELSE prepareAndDoQuery(p, q)

(* Mutant of CallbackThenNext: the pending query is not shifted.          *)
CallbackThenPeek(p, next) ==
  LET asked == IF next = NoQuery THEN p ELSE getPath(p, next)
  IN IF asked.pendingQueries = <<>> THEN asked
     ELSE prepareAndDoQuery(asked, Head(asked.pendingQueries))

(* Mutant of CallbackThenNext: the callback alone.                        *)
CallbackAlone(p, next) == IF next = NoQuery THEN p ELSE getPath(p, next)

(* The end of both closures: the callback, which asks next, then the head *)
(* of pendingQueries.                                                      *)
CallbackThenNext(p, next) ==
  LET asked == IF next = NoQuery THEN p ELSE getPath(p, next)
  IN IF asked.pendingQueries = <<>> THEN asked
     ELSE prepareAndDoQuery(
            [asked EXCEPT !.pendingQueries = Tail(@)],
            Head(asked.pendingQueries))

(* clearTimeout(this.timeout_getpath): the timer of the query sent last.  *)
ClearTimeout(p) ==
  IF p.timers # <<>> /\ p.timers[Len(p.timers)].nr = p.started
    THEN SubSeq(p.timers, 1, Len(p.timers) - 1)
    ELSE p.timers

(* What parse and the closure given to sendQuery do up to the callback.   *)
Answered(p) ==
  [p EXCEPT !.busy = FALSE, !.timers = ClearTimeout(p),
            !.callbacksFifo = Tail(@), !.stdin = Tail(@)]

(* Mutant of TimedOut: it also forgets the callback.                      *)
TimedOutForgets(p) ==
  [p EXCEPT !.busy = FALSE, !.timers = Tail(@),
            !.silenced = @ \cup {Head(p.timers).nr},
            !.callbacksFifo = SelectSeq(@, LAMBDA e : e # Head(p.timers))]

(* Timers all last 1000 ms, so they fire in the order they were set.      *)
TimedOut(p) ==
  [p EXCEPT !.busy = FALSE, !.timers = Tail(@),
            !.silenced = @ \cup {Head(p.timers).nr}]

(* Queries asked so far; the bound of the model. *)
Asked(p) == p.started + Len(p.pendingQueries)

MayAsk == {NoQuery} \cup (IF Asked(pf) < MaxQueries THEN Query ELSE {})

-----------------------------------------------------------------------------
Init == pf = Constructed

Ask ==
  \E q \in Query : Asked(pf) < MaxQueries /\ pf' = getPath(pf, q)

(* The program answers in the order it was asked, whether or not it found *)
(* a path.  A silenced callback asks nothing.                              *)
Answer ==
  /\ pf.stdin # <<>>
  /\ \E next \in MayAsk :
       /\ Head(pf.callbacksFifo).nr \in pf.silenced => next = NoQuery
       /\ pf' = CallbackThenNext(Answered(pf), next)

Timeout ==
  /\ pf.timers # <<>>
  /\ \E next \in MayAsk : pf' = CallbackThenNext(TimedOut(pf), next)

Next == Ask \/ Answer \/ Timeout

Spec == Init /\ [][Next]_pf

(* The event loop runs a timer that is due.  Nothing is assumed of the    *)
(* program: it may never answer.                                           *)
FairSpec == Spec /\ WF_pf(Timeout)

-----------------------------------------------------------------------------
(* The state of the front has its type, and no more queries are sent than *)
(* were asked.                                                             *)
PathfindingTypeOK ==
  pf \in [busy : BOOLEAN, pendingQueries : Seq(Query),
          callbacksFifo : Seq(Sent), timers : Seq(Sent),
          started : 0 .. MaxQueries, silenced : SUBSET (1 .. MaxQueries),
          stdin : Seq(1 .. MaxQueries)]

(* parse() hands an answer to the oldest callback: it is the callback of  *)
(* the query the program answers, whatever timed out before.               *)
AnswersGoToTheirQuery ==
  /\ Len(pf.callbacksFifo) = Len(pf.stdin)
  /\ \A i \in 1 .. Len(pf.stdin) : pf.callbacksFifo[i].nr = pf.stdin[i]

(* No query waits in pendingQueries for nobody: busy is set, and the timer *)
(* of the query sent last runs, whose end starts the next one.             *)
PendingWillBeServed ==
  /\ pf.pendingQueries # <<>> => pf.busy
  /\ pf.busy => /\ pf.timers # <<>>
                /\ pf.timers[Len(pf.timers)].nr = pf.started

(* Even if the program never answers again, as many queries are sent to it *)
(* as were asked: none starves in pendingQueries.                          *)
PendingIsSent ==
  \A n \in 1 .. MaxQueries : n = Asked(pf) ~> pf.started >= n
=============================================================================
