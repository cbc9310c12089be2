----------------------------- MODULE AsservClient -----------------------------
(***************************************************************************)
(* The asserv client of a robot: the queue of orders of                    *)
(* clients/shared/fifo.js, which clients/asserv/asserv.js fills and        *)
(* clients/asserv/asserv.real.js empties into the serial line through      *)
(* clients/shared/orders.manager.js, where the acknowledgement of an order *)
(* calls the callback kept under its id.                                   *)
(*                                                                         *)
(* Orders are told apart by what becomes of them: a "move" is acknowledged *)
(* when the board has carried it out, a "setting" at once, a "message" is  *)
(* sent to the IA and never reaches the board, and "nothing" is the empty  *)
(* callback a collision queues.  The board (module AsservBoard) is reduced *)
(* to that: it keeps its goals in order, acknowledges each when reached    *)
(* and drops them all when told to clean.  The order asserv.clean, which   *)
(* nothing in the repository sends, is left out.                           *)
(***************************************************************************)
EXTENDS Integers, Sequences, SequencesExt

CONSTANTS
  MaxOrders,      \* bound: orders given by the IA
  MaxCollisions,  \* bound: collisions
  MaxStarts       \* bound: start sequences

ASSUME ClientAssumption ==
  MaxOrders \in Nat /\ MaxCollisions \in Nat /\ MaxStarts \in Nat

Kinds == {"move", "setting", "message"}

VARIABLES
  client,      \* the objects of the client, below
  line,        \* orders on the serial line to the board
  board,       \* goals of the board
  acks,        \* ids on the serial line from the board
  given,       \* orders given by the IA, which number them
  flushed,     \* orders given before the last collision
  collisions, starts

vars == <<client, line, board, acks, given, flushed, collisions, starts>>

MaxId == MaxOrders + 2 * MaxCollisions + 2 * MaxStarts

Order  == [nr : 0 .. MaxOrders, kind : Kinds \cup {"nothing"}]
OnLine == [nr : 0 .. MaxOrders, kind : {"move", "setting", "clean"},
           id : 1 .. MaxId]

(* Mutant of Constructed: the ids start from 0.                           *)
ConstructedFromZero ==
  [fifo |-> <<>>, order_in_progress |-> FALSE, currentId |-> 0,
   ordersCallback |-> {}, messages |-> <<>>, written |-> <<>>]

(***************************************************************************)
(* The client: the fifo, its flag order_in_progress, currentId and the ids *)
(* of ordersCallback, the messages sent to the IA, and what one handler    *)
(* writes on the line.                                                     *)
(***************************************************************************)
Constructed ==
  [fifo |-> <<>>, order_in_progress |-> FALSE, currentId |-> 1,
   ordersCallback |-> {}, messages |-> <<>>, written |-> <<>>]

sendOrder(c, nr, kind) ==
  [c EXCEPT
     !.written = Append(@, [nr |-> nr, kind |-> kind, id |-> c.currentId]),
     !.ordersCallback = @ \cup {c.currentId},
     !.currentId = @ + 1]

(* Mutant of nextOrder: order_in_progress is not looked at.               *)
nextOrderAtOnce(c) ==
  IF c.fifo = <<>> THEN c
  ELSE LET o == Head(c.fifo)
           after == [c EXCEPT !.fifo = Tail(@),
                              !.order_in_progress = o.kind # "message"]
       IN IF o.kind = "message"
            THEN [after EXCEPT !.messages = Append(@, o.nr)]
          ELSE IF o.kind = "nothing" THEN after
          ELSE sendOrder(after, o.nr, o.kind)

Waits(o) == o.kind # "message"

(* A message finishes as it is called, so the leading ones are all called; *)
(* the first other order is then in progress.                              *)
nextOrder(c) ==
  LET first == SelectInSeq(c.fifo, Waits)
      sent  == IF first = 0 THEN c.fifo ELSE SubSeq(c.fifo, 1, first - 1)
      after == [c EXCEPT
        !.fifo = SubSeq(@, Len(sent) + 2, Len(@)),
        !.order_in_progress = first # 0,
        !.messages = @ \o [i \in 1 .. Len(sent) |-> sent[i].nr]]
  IN IF c.order_in_progress THEN c
     ELSE IF first = 0 \/ c.fifo[first].kind = "nothing" THEN after
     ELSE sendOrder(after, c.fifo[first].nr, c.fifo[first].kind)

(* Mutant of newOrder: a message is sent without waiting its turn.        *)
newOrderUrgent(c, o) ==
  IF o.kind = "message" THEN [c EXCEPT !.messages = Append(@, o.nr)]
  ELSE nextOrder([c EXCEPT !.fifo = Append(@, o)])

newOrder(c, o) == nextOrder([c EXCEPT !.fifo = Append(@, o)])

(* Mutant of orderFinished: the next order is not called.                 *)
orderFinishedAlone(c) == [c EXCEPT !.order_in_progress = FALSE]

orderFinished(c) == nextOrder([c EXCEPT !.order_in_progress = FALSE])

(* Mutant of callOrderCallback: the callback is kept.                     *)
callOrderCallbackKeeps(c, id) ==
  IF id \in c.ordersCallback THEN orderFinished(c) ELSE c

(* Every callback is orderFinished; it is removed once it was called.     *)
callOrderCallback(c, id) ==
  IF id \in c.ordersCallback
    THEN [orderFinished(c) EXCEPT !.ordersCallback = @ \ {id}]
    ELSE c

(* AsservReal's then Asserv's: two orders to the board, whose             *)
(* acknowledgements will each call orderFinished, and a call of it now.    *)
setEmergencyStop(c) ==
  orderFinished(sendOrder(sendOrder(c, 0, "setting"), 0, "clean"))

(* The handler ends: what it wrote is on the line. *)
Handle(c) ==
  /\ client' = [c EXCEPT !.written = <<>>]
  /\ line' = line \o c.written

-----------------------------------------------------------------------------
Init ==
  /\ client = Constructed
  /\ line = <<>> /\ board = <<>> /\ acks = <<>>
  /\ given = 0 /\ flushed = 0 /\ collisions = 0 /\ starts = 0

AddOrderToFifo ==
  /\ given < MaxOrders /\ given' = given + 1
  /\ \E k \in Kinds : Handle(newOrder(client, [nr |-> given + 1, kind |-> k]))
  /\ UNCHANGED <<board, acks, flushed, collisions, starts>>

(* asserv.collision bypasses the fifo, then queues an empty callback. *)
Collision ==
  /\ collisions < MaxCollisions /\ collisions' = collisions + 1
  /\ flushed' = given
  /\ Handle(newOrder(setEmergencyStop(client), [nr |-> 0, kind |-> "nothing"]))
  /\ UNCHANGED <<board, acks, given, starts>>

(* doStartSequence bypasses the fifo too: goxy then goa. *)
DoStartSequence ==
  /\ starts < MaxStarts /\ starts' = starts + 1
  /\ Handle(sendOrder(sendOrder(client, 0, "move"), 0, "move"))
  /\ UNCHANGED <<board, acks, given, flushed, collisions>>

(* An acknowledgement: parseCommand finds the callback of its id. *)
Acknowledged ==
  /\ acks # <<>> /\ acks' = Tail(acks)
  /\ Handle(callOrderCallback(client, Head(acks)))
  /\ UNCHANGED <<board, given, flushed, collisions, starts>>

(* The board takes an order from the line. *)
BoardReceives ==
  /\ line # <<>> /\ line' = Tail(line)
  /\ \/ /\ Head(line).kind = "move"
        /\ board' = Append(board, Head(line))
        /\ UNCHANGED acks
     \/ /\ Head(line).kind = "setting"
        /\ acks' = Append(acks, Head(line).id)
        /\ UNCHANGED board
     \/ /\ Head(line).kind = "clean"
        /\ board' = <<>>
        /\ acks' = Append(acks, Head(line).id)
  /\ UNCHANGED <<client, given, flushed, collisions, starts>>

(* The board reaches its current goal, or gives it up: it reports both. *)
BoardReaches ==
  /\ board # <<>> /\ board' = Tail(board)
  /\ acks' = Append(acks, Head(board).id)
  /\ UNCHANGED <<client, line, given, flushed, collisions, starts>>

Next == \/ AddOrderToFifo \/ Collision \/ DoStartSequence \/ Acknowledged
        \/ BoardReceives \/ BoardReaches

Spec == Init /\ [][Next]_vars

(* The board loops for ever and a blocked goal ends (BlockedGoalEnds of    *)
(* AsservBoard); node runs a handler for the data it reads.                *)
FairSpec ==
  /\ Spec
  /\ WF_vars(Acknowledged) /\ WF_vars(BoardReceives) /\ WF_vars(BoardReaches)

-----------------------------------------------------------------------------
ClientTypeOK ==
  /\ client \in [fifo : Seq(Order), order_in_progress : BOOLEAN,
                 currentId : 1 .. MaxId + 1,
                 ordersCallback : SUBSET (1 .. MaxId),
                 messages : Seq(1 .. MaxOrders), written : {<<>>}]
  /\ line \in Seq(OnLine) /\ board \in Seq(OnLine) /\ acks \in Seq(1 .. MaxId)

(* The ids on their way to the board and back: each will call its callback *)
(* once, except those of the goals CLEANG drops.                           *)
Out == Len(line) + Len(board) + Len(acks)

(* How many more orders are out than the one the fifo has in progress. *)
Surplus == Out - (IF client.order_in_progress THEN 1 ELSE 0)

(* Moves the board has not finished. *)
Moves == {o \in ToSet(line) \cup ToSet(board) : o.kind = "move"}

(* The fifo is what makes a path a sequence of moves: an order out for each *)
(* order in progress.  Only what bypasses it adds to that: the two moves of *)
(* a start sequence (their acknowledgements each call the next order), the  *)
(* two orders of a collision and the order its own call of orderFinished    *)
(* sends.  No acknowledgement and no order of the IA ever does, however     *)
(* late, whatever was bypassed, dropped or called back before.              *)
OnlyBypassesAddOrders ==
  [][Surplus' <= Surplus + 2 * (starts' - starts)
                         + 3 * (collisions' - collisions)]_vars

(* fifo.js:39: orderFinished "has to be called by each order added to the *)
(* fifo, when the order is finished".  So a message tells the IA that what *)
(* was ordered before it is done: when it is sent, every move ordered      *)
(* before it (and after the last collision) is over.                       *)
MessageMeansArrived ==
  \A i \in 1 .. Len(client.messages) : \A o \in Moves :
    o.nr > flushed => client.messages[i] < o.nr

(* While more orders are out than in progress an acknowledgement may       *)
(* finish an order that is not its own, and "path_finished" overtake a     *)
(* move.  Once that has settled it means arrived again: after the start    *)
(* sequence of a match when its two moves are acknowledged, and after each *)
(* collision when its two orders and the surplus of moves are.             *)
PathFinishedMeansArrived == Surplus <= 0 => MessageMeansArrived

(* An acknowledgement always finds its callback, or the fifo would wait    *)
(* for ever.  Without a collision no callback is kept for nothing; the     *)
(* goals CLEANG drops are never acknowledged and their callbacks stay.     *)
CallbacksAreAwaited ==
  LET awaited == {o.id : o \in ToSet(line) \cup ToSet(board)} \cup ToSet(acks)
  IN /\ awaited \subseteq client.ordersCallback
     /\ collisions = 0 => client.ordersCallback \subseteq awaited

(* fifo.js:15: "for each order added to the Fifo objects, you have to call *)
(* the orderFinished method"; then what the fifo has in progress always    *)
(* has an acknowledgement to come.  The empty callback of a collision      *)
(* (asserv.js:204) calls it no more than the goals CLEANG drops do, and    *)
(* the three calls a collision is worth do not always make up for them.    *)
FifoIsAnswered == client.order_in_progress => Out > 0

(* Up to two collisions do not block the fifo: an order given is sent,     *)
(* whatever they drop and whoever finishes what.  Three may.               *)
FifoKeepsGoing ==
  \A n \in 1 .. MaxOrders :
    given = n ~> \A i \in 1 .. Len(client.fifo) : client.fifo[i].nr \notin 1 .. n
=============================================================================
