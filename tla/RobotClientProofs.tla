--------------------------- MODULE RobotClientProofs ---------------------------
(***************************************************************************)
(* The life of the robot and the fifo of its extension, for any number of  *)
(* orders and of starts.                                                   *)
(*                                                                         *)
(* The invariant has three parts.  Bounded: what is under way was counted. *)
(* Closed: a robot that was muted, or told to stop, has its extensions     *)
(* closed and no factory under way.  Owned: the answers to come from the   *)
(* servo board are that of the order in progress and at most one for each  *)
(* time the fifo was bypassed.                                             *)
(***************************************************************************)
EXTENDS RobotClient, SequenceTheorems, FiniteSetTheorems, WellFoundedInduction,
        TLAPS

Ext == [queue : Seq(Kinds), order_in_progress : BOOLEAN, lost : BOOLEAN,
        servoAcks : Nat, axAcks : Nat, early : BOOLEAN]

(* b times, an order of the servos was finished without its answer. *)
Own(x, b) ==
  /\ Awaited(x) <= x.servoAcks
  /\ x.servoAcks <= Awaited(x) + b
  /\ x.early => b > 0

Bounded ==
  detecting + late <= starts /\ toQueue <= toFinish /\ toFinish <= orders

Closed ==
  alive /\ ~undetected /\ (muted \/ told = "stop") =>
    ~opened /\ detecting = 0 /\ late = 0

Owned == bypasses \in Nat /\ Own(ext, bypasses)

Inv == RobotTypeOK /\ Bounded /\ Closed /\ Owned

USE RobotAssumption

-----------------------------------------------------------------------------
(* The least of some natural numbers, which Min chooses, exists. *)
Less == {ss \in Nat \X Nat : ss[1] < ss[2]}

LEMMA MinIsIn ==
  ASSUME NEW S \in SUBSET Nat, S # {}
  PROVE  Min(S) \in S
<1>1. OpToRel(<, Nat) = Less
  BY Zenon DEF OpToRel, Less
<1>2. \E x \in S : \A y \in S : <<y, x>> \notin Less
  BY <1>1, NatLessThanWellFounded, WFMin
<1>3. \A x, y \in Nat : <<y, x>> \notin Less => x <= y
  <2>1. SUFFICES ASSUME NEW x \in Nat, NEW y \in Nat, y < x
                 PROVE  <<y, x>> \in Less
    BY SMT
  <2> DEFINE p == <<y, x>>
  <2>2. p \in Nat \X Nat /\ p[1] = y /\ p[2] = x
    BY Zenon
  <2>3. p \in {ss \in Nat \X Nat : ss[1] < ss[2]}
    BY <2>1, <2>2, Zenon
  <2> QED BY <2>3 DEF Less
<1>4. \E x \in S : \A y \in S : x <= y
  BY <1>2, <1>3
<1> QED BY <1>4 DEF Min

LEMMA WaitingIndex ==
  ASSUME NEW q \in Seq(Kinds)
  PROVE  SelectInSeq(q, Waits) \in 0 .. Len(q)
<1> DEFINE I == {i \in 1 .. Len(q) : Waits(q[i])}
<1>1. I # {} => Min(I) \in I
  <2>1. I \in SUBSET Nat
    OBVIOUS
  <2> HIDE DEF I
  <2> QED BY <2>1, MinIsIn
<1>2. SelectInSeq(q, Waits) = IF I # {} THEN Min(I) ELSE 0
  BY DEF SelectInSeq
<1> QED BY <1>1, <1>2

(* A part of a queue, and a queue after another one. *)
LEMMA PartOfQueue ==
  ASSUME NEW q \in Seq(Kinds), NEW m \in Nat \ {0}, NEW n \in 0 .. Len(q)
  PROVE  SubSeq(q, m, n) \in Seq(Kinds)
<1>1. \A i \in m .. n : q[i] \in Kinds
  OBVIOUS
<1> QED BY <1>1, SubSeqProperties

LEMMA QueueThen ==
  ASSUME NEW q \in Seq(Kinds), NEW r \in Seq(Kinds)
  PROVE  q \o r \in Seq(Kinds)
BY ConcatProperties

(* The number of pushes that are passed. *)
LEMMA PushesType ==
  ASSUME NEW q \in Seq(Kinds)
  PROVE  Cardinality({j \in 1 .. Len(q) : q[j] = "push"}) \in Nat
<1> DEFINE S == {j \in 1 .. Len(q) : q[j] = "push"}
<1>1. IsFiniteSet(1 .. Len(q)) /\ S \in SUBSET (1 .. Len(q))
  BY FS_Interval
<1>2. IsFiniteSet(S)
  BY <1>1, FS_Subset
<1> HIDE DEF S
<1>3. Cardinality(S) \in Nat
  BY <1>2, FS_CardinalityType
<1> QED BY <1>3 DEF S

(* What Own says of an order in progress, and of none. *)
LEMMA OwnCases ==
  ASSUME NEW x \in Ext, NEW b \in Nat
  PROVE  /\ Awaited(x) \in {0, 1}
         /\ ~x.order_in_progress => Awaited(x) = 0
         /\ Awaited(x) = 0 =>
              (Own(x, b) <=> x.servoAcks <= b /\ (x.early => b > 0))
         /\ Awaited(x) = 1 =>
              (Own(x, b) <=> /\ 1 <= x.servoAcks /\ x.servoAcks <= b + 1
                             /\ x.early => b > 0)
<1>1. x.servoAcks \in Nat
  BY DEF Ext
<1>2. Awaited(x) \in {0, 1} /\ (~x.order_in_progress => Awaited(x) = 0)
  BY DEF Awaited
<1> QED BY <1>1, <1>2 DEF Own

-----------------------------------------------------------------------------
LEMMA NextOrderCorrect ==
  ASSUME NEW x \in Ext, NEW b \in Nat
  PROVE  nextOrder(x) \in Ext /\ (Own(x, b) => Own(nextOrder(x), b))
<1> DEFINE i == SelectInSeq(x.queue, Waits)
           passed == IF i = 0 THEN x.queue ELSE SubSeq(x.queue, 1, i - 1)
           told_IA == {"message", "module--"} \cap ToSet(passed) # {}
           sent == i # 0 /\ opened /\ servo = "up"
           pushes == Cardinality({j \in 1 .. Len(passed) : passed[j] = "push"})
           follows == IF i # 0 /\ opened /\ x.queue[i] = "drop"
                        THEN <<"module--">> ELSE <<>>
           queue == SubSeq(x.queue, Len(passed) + 2, Len(x.queue)) \o follows
           next == [
             queue |-> queue,
             order_in_progress |-> i # 0,
             lost |-> i # 0 /\ ~sent,
             servoAcks |-> IF sent THEN x.servoAcks + 1 ELSE x.servoAcks,
             axAcks |-> IF ax12 = "up" THEN x.axAcks + pushes ELSE x.axAcks,
             early |-> x.early \/ (told_IA /\ x.servoAcks > 0)]
<1>1. nextOrder(x) = IF x.order_in_progress THEN x ELSE next
  BY DEF nextOrder
<1>2. x.queue \in Seq(Kinds) /\ i \in 0 .. Len(x.queue)
  BY WaitingIndex DEF Ext
<1>3. passed \in Seq(Kinds)
  <2>1. CASE i = 0
    BY <1>2, <2>1
  <2>2. CASE i # 0
    <3>1. i - 1 \in 0 .. Len(x.queue)
      BY <1>2, <2>2
    <3> QED BY <1>2, <2>2, <3>1, PartOfQueue
  <2> QED BY <2>1, <2>2
<1>4. follows \in Seq(Kinds)
  <2>1. <<"module--">> \in Seq(Kinds) /\ << >> \in Seq(Kinds)
    BY DEF Kinds
  <2> QED BY <2>1
<1>5. queue \in Seq(Kinds)
  <2>1. Len(passed) + 2 \in Nat \ {0} /\ Len(x.queue) \in 0 .. Len(x.queue)
    BY <1>2, <1>3
  <2> QED BY <1>2, <1>4, <2>1, PartOfQueue, QueueThen
<1>6. pushes \in Nat
  BY <1>3, PushesType
<1>7. (sent => i # 0) /\ sent \in BOOLEAN /\ told_IA \in BOOLEAN
  OBVIOUS
<1>8. x.early \in BOOLEAN /\ x.servoAcks \in Nat /\ x.axAcks \in Nat
  BY DEF Ext
<1> HIDE DEF i, passed, told_IA, sent, pushes, follows, queue
<1>9. next \in Ext
  BY <1>5, <1>6, <1>7, <1>8 DEF Ext
<1>10. ASSUME Own(x, b), ~x.order_in_progress
       PROVE  Own(next, b)
  <2>1. x.servoAcks <= b /\ (x.early => b > 0)
    BY <1>10, OwnCases
  <2>2. /\ next.servoAcks = IF sent THEN x.servoAcks + 1 ELSE x.servoAcks
        /\ next.early <=> x.early \/ (told_IA /\ x.servoAcks > 0)
        /\ next.order_in_progress /\ ~next.lost <=> sent
    BY <1>7
  <2>3. next.early => b > 0
    BY <1>8, <2>1, <2>2
  <2> HIDE DEF next
  <2>4. Awaited(next) = IF sent THEN 1 ELSE 0
    BY <2>2 DEF Awaited
  <2>5. CASE sent
    <3>1. 1 <= next.servoAcks /\ next.servoAcks <= b + 1
      BY <1>8, <2>1, <2>2, <2>5
    <3> QED BY <1>9, <2>3, <2>4, <2>5, <3>1, OwnCases
  <2>6. CASE ~sent
    <3>1. next.servoAcks <= b
      BY <2>1, <2>2, <2>6
    <3> QED BY <1>9, <2>3, <2>4, <2>6, <3>1, OwnCases
  <2> QED BY <2>5, <2>6
<1> QED BY <1>1, <1>9, <1>10

LEMMA QueuedCorrect ==
  ASSUME NEW x \in Ext, NEW b \in Nat, NEW ks \in Seq(Kinds)
  PROVE  queued(x, ks) \in Ext /\ (Own(x, b) => Own(queued(x, ks), b))
<1> DEFINE y == [x EXCEPT !.queue = x.queue \o ks]
<1>1. queued(x, ks) = nextOrder(y)
  BY DEF queued
<1>2. x.queue \o ks \in Seq(Kinds)
  BY QueueThen DEF Ext
<1>3. y \in Ext
  BY <1>2 DEF Ext
<1>4. /\ y.servoAcks = x.servoAcks /\ y.early = x.early /\ y.lost = x.lost
      /\ y.order_in_progress = x.order_in_progress
  BY DEF Ext
<1> HIDE DEF y
<1>5. Own(x, b) => Own(y, b)
  BY <1>4 DEF Own, Awaited
<1> QED BY <1>1, <1>3, <1>5, NextOrderCorrect

LEMMA NewOrdersCorrect ==
  ASSUME NEW x \in Ext, NEW b \in Nat, NEW ks \in Seq(Kinds), ks # << >>
  PROVE  newOrders(x, ks) \in Ext /\ (Own(x, b) => Own(newOrders(x, ks), b))
<1> DEFINE first == SubSeq(ks, 1, 1)
           rest == SubSeq(ks, 2, Len(ks))
           y == queued(x, first)
<1>1. 1 \in 0 .. Len(ks) /\ Len(ks) \in 0 .. Len(ks)
  BY EmptySeq
<1>2. first \in Seq(Kinds) /\ rest \in Seq(Kinds)
  BY <1>1, PartOfQueue
<1>3. newOrders(x, ks) = queued(y, rest)
  BY DEF newOrders
<1> HIDE DEF first, rest
<1>4. y \in Ext /\ (Own(x, b) => Own(y, b))
  BY <1>2, QueuedCorrect
<1> HIDE DEF y
<1>5. queued(y, rest) \in Ext /\ (Own(y, b) => Own(queued(y, rest), b))
  BY <1>2, <1>4, QueuedCorrect
<1> QED BY <1>3, <1>4, <1>5

(* An order that is finished by something else than its answer. *)
LEMMA FinishedCorrect ==
  ASSUME NEW x \in Ext, NEW b \in Nat
  PROVE  /\ orderFinished(x) \in Ext
         /\ x.servoAcks <= b /\ (x.early => b > 0) => Own(orderFinished(x), b)
<1> DEFINE y == [x EXCEPT !.order_in_progress = FALSE, !.lost = FALSE]
<1>1. orderFinished(x) = nextOrder(y)
  BY DEF orderFinished
<1>2. y \in Ext
  BY DEF Ext
<1>3. y.servoAcks = x.servoAcks /\ y.early = x.early /\ ~y.order_in_progress
  BY DEF Ext
<1> HIDE DEF y
<1>4. x.servoAcks <= b /\ (x.early => b > 0) => Own(y, b)
  BY <1>2, <1>3, OwnCases
<1> QED BY <1>1, <1>2, <1>4, NextOrderCorrect

LEMMA BypassCorrect ==
  ASSUME NEW x \in Ext, NEW b \in Nat, Own(x, b)
  PROVE  /\ b + Awaited(x) \in Nat
         /\ Own(orderFinished(x), b + Awaited(x))
         /\ clean(x) \in Ext /\ Own(clean(x), b + Awaited(x))
<1> DEFINE n == b + Awaited(x)
<1>1. x.servoAcks \in Nat
  BY DEF Ext
<1>2. n \in Nat /\ x.servoAcks <= n /\ (x.early => n > 0)
  BY <1>1, OwnCases
<1> HIDE DEF n
<1>3. Own(orderFinished(x), n)
  BY <1>2, FinishedCorrect
<1>4. clean(x) \in Ext
  <2>1. << >> \in Seq(Kinds)
    OBVIOUS
  <2> QED BY <2>1 DEF Ext, clean
<1>5. /\ clean(x).servoAcks = x.servoAcks /\ clean(x).early = x.early
      /\ ~clean(x).order_in_progress
  BY DEF Ext, clean
<1>6. Own(clean(x), n)
  BY <1>2, <1>4, <1>5, OwnCases
<1> QED BY <1>2, <1>3, <1>4, <1>6 DEF n

-----------------------------------------------------------------------------
(* The types, one by one. *)
Flags == /\ alive \in BOOLEAN /\ muted \in BOOLEAN /\ starting \in BOOLEAN
         /\ started \in BOOLEAN /\ opened \in BOOLEAN /\ undetected \in BOOLEAN

Boards == /\ servo \in {"none", "waiting", "up", "halted"}
          /\ ax12 \in {"none", "waiting", "up", "down"}
          /\ asserv \in {"none", "waiting", "up"}

Rest == /\ ext \in Ext /\ bypasses \in Nat
        /\ detecting \in 0 .. MaxStarts /\ late \in 0 .. MaxStarts
        /\ toQueue \in 0 .. MaxOrders /\ toFinish \in 0 .. MaxOrders
        /\ orders \in 0 .. MaxOrders /\ starts \in 0 .. MaxStarts
        /\ told \in {"start", "pause", "resume", "stop"}

LEMMA Types == RobotTypeOK <=> Flags /\ Boards /\ Rest
BY Zenon DEF RobotTypeOK, Flags, Boards, Rest, Ext

LEMMA TypesNext == RobotTypeOK' <=> Flags' /\ Boards' /\ Rest'
BY Zenon DEF RobotTypeOK, Flags, Boards, Rest, Ext

(* A robot client that was just launched has nothing under way. *)
LEMMA InitInv == Init => Inv
<1> SUFFICES ASSUME Init PROVE Inv
  OBVIOUS
<1>1. EmptyFifo \in Ext /\ Own(EmptyFifo, 0)
  BY DEF EmptyFifo, Ext, Own, Awaited
<1>2. Flags
  BY Zenon DEF Init, Flags
<1>3. Boards /\ Rest
  BY <1>1 DEF Init, Boards, Rest
<1>4. Owned
  BY <1>1 DEF Init, Owned
<1> QED BY <1>2, <1>3, <1>4, Types DEF Init, Inv, Bounded, Closed

-----------------------------------------------------------------------------
(* What an action that leaves the fifo alone leaves of it. *)
LEMMA FifoKept ==
  ASSUME Owned, UNCHANGED <<ext, bypasses>>
  PROVE  Owned'
BY DEF Owned, Own, Awaited

(* The life of the robot. *)
LEMMA StartStep ==
  ASSUME Inv, Start
  PROVE  Inv'
<1>1. Flags /\ Boards /\ Rest /\ Bounded /\ Closed /\ Owned
  BY Types DEF Inv
<1>2. Flags' /\ Boards'
  BY <1>1 DEF Start, Flags, Boards, life, boards
<1>3. Rest' /\ Bounded'
  <2>1. CASE started \/ starting
    BY <1>1, <2>1 DEF Start, Rest, Bounded, life, timers, bounds
  <2>2. CASE ~(started \/ starting)
    <3>1. /\ detecting' = detecting + 1 /\ starts' = starts + 1
          /\ starts < MaxStarts /\ told' = "start"
          /\ UNCHANGED <<ext, bypasses, late, toQueue, toFinish, orders>>
      BY <2>2 DEF Start, timers
    <3> QED BY <1>1, <3>1 DEF Rest, Bounded
  <2> QED BY <2>1, <2>2
<1>4. Closed'
  BY <1>1 DEF Start, Flags, Rest, Closed, life, boards
<1>5. Owned'
  BY <1>1, FifoKept DEF Start
<1> QED BY <1>2, <1>3, <1>4, <1>5, TypesNext DEF Inv

LEMMA OpenedStep ==
  ASSUME Inv, Detected \/ DetectedAgain
  PROVE  Inv'
<1>1. Flags /\ Boards /\ Rest /\ Bounded /\ Closed /\ Owned
  BY Types DEF Inv
<1>2. Flags' /\ Boards'
  BY <1>1 DEF Detected, DetectedAgain, Opened, Flags, Boards, history
<1>3. Rest' /\ Bounded'
  BY <1>1 DEF Detected, DetectedAgain, Opened, Rest, Bounded, timers, bounds,
              history
<1>4. Closed'
  <2>1. detecting \in Nat /\ late \in Nat /\ detecting + late > 0
    BY <1>1 DEF Detected, DetectedAgain, Rest
  <2>2. UNCHANGED <<alive, muted, told, undetected>>
    BY DEF Detected, DetectedAgain, Opened, history
  <2>3. ~(alive /\ ~undetected /\ (muted \/ told = "stop"))
    BY <1>1, <2>1 DEF Closed
  <2> QED BY <2>2, <2>3 DEF Closed
<1>5. Owned'
  BY <1>1, FifoKept DEF Detected, DetectedAgain, Opened, history
<1> QED BY <1>2, <1>3, <1>4, <1>5, TypesNext DEF Inv

(* closeExtensions empties the fifo, or ends the process. *)
ClosesOrEnds ==
  /\ Owned' /\ ext' \in Ext /\ bypasses' \in Nat
  /\ servo' \in {"none", "waiting", "up", "halted"}
  /\ opened' \in BOOLEAN /\ alive' \in BOOLEAN /\ undetected' \in BOOLEAN
  /\ alive' => ~opened' /\ (detecting + late > 0 => undetected')
               /\ (undetected => undetected')

LEMMA CloseStep ==
  ASSUME Inv, closeExtensions
  PROVE  ClosesOrEnds
<1>1. Flags /\ Boards /\ Rest /\ Owned
  BY Types DEF Inv
<1>2. ext \in Ext /\ bypasses \in Nat /\ Own(ext, bypasses)
  BY <1>1 DEF Rest, Owned
<1>3. ext' \in Ext /\ bypasses' \in Nat /\ Owned'
  <2>1. CASE ext' = clean(ext) /\ bypasses' = bypasses + Awaited(ext)
    <3>1. /\ bypasses' \in Nat /\ ext' \in Ext
          /\ Own(clean(ext), bypasses + Awaited(ext))
      BY <1>2, <2>1, BypassCorrect
    <3> QED BY <2>1, <3>1 DEF Owned, Own, Awaited
  <2>2. CASE UNCHANGED <<ext, bypasses>>
    BY <1>1, <1>2, <2>2, FifoKept
  <2> QED BY <2>1, <2>2 DEF closeExtensions
<1>4. servo' \in {"none", "waiting", "up", "halted"}
  BY <1>1 DEF closeExtensions, Boards
<1>5. opened' \in BOOLEAN /\ alive' \in BOOLEAN /\ undetected' \in BOOLEAN
  BY <1>1, Zenon DEF closeExtensions, Flags
<1>6. alive' => ~opened' /\ (detecting + late > 0 => undetected')
                /\ (undetected => undetected')
  BY <1>1 DEF closeExtensions, Flags
<1> QED BY <1>3, <1>4, <1>5, <1>6 DEF ClosesOrEnds

LEMMA StopStep ==
  ASSUME Inv, StopOrder
  PROVE  Inv'
<1>1. Flags /\ Boards /\ Rest /\ Bounded /\ Closed /\ Owned
  BY Types DEF Inv
<1>2. told' \in {"start", "pause", "resume", "stop"}
  BY DEF StopOrder
<1>3. CASE muted
  <2>1. UNCHANGED <<life, boards, ext, bypasses, undetected, timers, bounds>>
    BY <1>3 DEF StopOrder
  <2>2. Flags' /\ Boards'
    BY <1>1, <2>1 DEF Flags, Boards, life, boards
  <2>3. Rest' /\ Bounded'
    BY <1>1, <1>2, <2>1 DEF Rest, Bounded, life, timers, bounds
  <2>4. Closed'
    BY <1>1, <1>3, <2>1 DEF Closed, life, boards
  <2>5. Owned'
    BY <1>1, <2>1, FifoKept
  <2> QED BY <2>2, <2>3, <2>4, <2>5, TypesNext DEF Inv
<1>4. CASE ~muted
  <2>1. stop /\ UNCHANGED <<detecting, late, ax12, asserv, timers, bounds>>
    BY <1>4 DEF StopOrder
  <2>2. CASE closeExtensions /\ (alive' => muted' = TRUE /\ started' = FALSE
                                           /\ starting' = FALSE)
             /\ (~alive' => UNCHANGED <<muted, started, starting>>)
    <3>1. ClosesOrEnds
      BY <2>2, CloseStep
    <3>2. Flags' /\ Boards'
      BY <1>1, <2>1, <2>2, <3>1 DEF Flags, Boards, ClosesOrEnds
    <3>3. Rest' /\ Bounded'
      BY <1>1, <1>2, <2>1, <3>1 DEF Rest, Bounded, timers, bounds, ClosesOrEnds
    <3>4. Closed'
      BY <1>1, <2>1, <2>2, <3>1 DEF Closed, Rest, ClosesOrEnds
    <3> QED BY <3>1, <3>2, <3>3, <3>4, TypesNext DEF Inv, ClosesOrEnds
  <2>3. CASE /\ alive' = FALSE
             /\ UNCHANGED <<muted, started, starting, opened, servo, ext,
                            bypasses, undetected>>
    <3>1. Flags' /\ Boards'
      BY <1>1, <2>1, <2>3 DEF Flags, Boards
    <3>2. Rest' /\ Bounded' /\ Closed'
      BY <1>1, <1>2, <2>1, <2>3 DEF Rest, Bounded, Closed, timers, bounds
    <3>3. Owned'
      BY <1>1, <2>3, FifoKept
    <3> QED BY <3>1, <3>2, <3>3, TypesNext DEF Inv
  <2> QED BY <2>1, <2>2, <2>3 DEF stop
<1> QED BY <1>1, <1>3, <1>4 DEF Flags

LEMMA ExtensionStopStep ==
  ASSUME Inv, ExtensionStop
  PROVE  Inv'
<1>1. Flags /\ Boards /\ Rest /\ Bounded /\ Closed /\ Owned
  BY Types DEF Inv
<1>2. /\ closeExtensions /\ told' = "stop"
      /\ UNCHANGED <<muted, starting, started, detecting, late, ax12, asserv,
                     timers, bounds>>
  BY DEF ExtensionStop
<1>3. ClosesOrEnds
  BY <1>2, CloseStep
<1>4. Flags' /\ Boards'
  BY <1>1, <1>2, <1>3 DEF Flags, Boards, ClosesOrEnds
<1>5. Rest' /\ Bounded'
  BY <1>1, <1>2, <1>3 DEF Rest, Bounded, timers, bounds, ClosesOrEnds
<1>6. Closed'
  BY <1>1, <1>2, <1>3 DEF Closed, Rest, ClosesOrEnds
<1> QED BY <1>3, <1>4, <1>5, <1>6, TypesNext DEF Inv, ClosesOrEnds

LEMMA KillStep ==
  ASSUME Inv, kill
  PROVE  Inv'
<1>1. Flags /\ Boards /\ Rest /\ Bounded /\ Owned
  BY Types DEF Inv
<1>2. Flags' /\ Boards'
  BY <1>1 DEF kill, Flags, Boards, boards, history
<1>3. Rest' /\ Bounded' /\ Closed'
  BY <1>1 DEF kill, Rest, Bounded, Closed, timers, bounds, history
<1>4. Owned'
  BY <1>1, FifoKept DEF kill, history
<1> QED BY <1>2, <1>3, <1>4, TypesNext DEF Inv

-----------------------------------------------------------------------------
(* The orders of the extension and the boards leave the life of the robot *)
(* alone.                                                                  *)
LEMMA LifeKept ==
  ASSUME Flags, Boards, Closed, UNCHANGED <<life, boards, told, undetected>>
  PROVE  Flags' /\ Boards' /\ Closed'
BY DEF Flags, Boards, Closed, life, boards

LEMMA CountsKept ==
  ASSUME Rest, Bounded, ext' \in Ext, bypasses' \in Nat,
         UNCHANGED <<life, timers, bounds, told>>
  PROVE  Rest' /\ Bounded'
BY DEF Rest, Bounded, life, timers, bounds

LEMMA CleanStep ==
  ASSUME Inv, ExtensionClean
  PROVE  Inv'
<1>1. Flags /\ Boards /\ Rest /\ Bounded /\ Closed /\ Owned
  BY Types DEF Inv
<1>2. ext \in Ext /\ bypasses \in Nat /\ Own(ext, bypasses)
  BY <1>1 DEF Rest, Owned
<1>3. /\ ext' = clean(ext) /\ bypasses' = bypasses + Awaited(ext)
      /\ UNCHANGED <<life, boards, timers, bounds, told, undetected>>
  BY DEF ExtensionClean
<1>4. /\ bypasses' \in Nat /\ ext' \in Ext
      /\ Own(clean(ext), bypasses + Awaited(ext))
  BY <1>2, <1>3, BypassCorrect
<1>5. Owned'
  BY <1>3, <1>4 DEF Owned, Own, Awaited
<1> QED BY <1>1, <1>3, <1>4, <1>5, LifeKept, CountsKept, TypesNext DEF Inv

LEMMA TakeOrderStep ==
  ASSUME Inv, TakeOrder
  PROVE  Inv'
<1>1. Flags /\ Boards /\ Rest /\ Bounded /\ Closed /\ Owned
  BY Types DEF Inv
<1>2. PICK ks \in {Prepared, <<"drop">>, <<"push">>, <<"message">>} :
        ext' = newOrders(ext, ks)
  BY DEF TakeOrder
<1>3. ks \in Seq(Kinds) /\ ks # << >>
  <2>1. /\ Prepared \in Seq(Kinds) /\ <<"drop">> \in Seq(Kinds)
        /\ <<"push">> \in Seq(Kinds) /\ <<"message">> \in Seq(Kinds)
    BY DEF Prepared, Kinds
  <2>2. /\ Prepared # << >> /\ <<"drop">> # << >>
        /\ <<"push">> # << >> /\ <<"message">> # << >>
    BY DEF Prepared
  <2> QED BY <1>2, <2>1, <2>2, Zenon
<1>4. ext' \in Ext /\ Own(newOrders(ext, ks), bypasses)
  BY <1>1, <1>2, <1>3, NewOrdersCorrect DEF Rest, Owned
<1>5. UNCHANGED <<life, boards, told, undetected, bypasses>>
  BY DEF TakeOrder, history
<1>6. Rest' /\ Bounded'
  BY <1>1, <1>4 DEF TakeOrder, Rest, Bounded, life, timers, history
<1>7. Owned'
  BY <1>1, <1>2, <1>4, <1>5 DEF Owned, Own, Awaited
<1> QED BY <1>1, <1>5, <1>6, <1>7, LifeKept, TypesNext DEF Inv

(* dropModule and its two timers. *)
LEMMA DropModuleStep ==
  ASSUME Inv, DropModule
  PROVE  Inv'
<1>1. Flags /\ Boards /\ Rest /\ Bounded /\ Closed /\ Owned
  BY Types DEF Inv
<1>2. UNCHANGED <<life, boards, told, undetected>>
  BY DEF DropModule, history
<1>3. Rest' /\ Bounded'
  BY <1>1 DEF DropModule, Rest, Bounded, life, history
<1>4. Owned'
  BY <1>1, FifoKept DEF DropModule, history
<1> QED BY <1>1, <1>2, <1>3, <1>4, LifeKept, TypesNext DEF Inv

LEMMA DropQueueStep ==
  ASSUME Inv, DropQueue
  PROVE  Inv'
<1>1. Flags /\ Boards /\ Rest /\ Bounded /\ Closed /\ Owned
  BY Types DEF Inv
<1> DEFINE ks == <<"drop", "servo", "push", "push">>
<1>2. ext' = newOrders(ext, ks)
      /\ UNCHANGED <<life, boards, told, undetected, bypasses>>
  BY DEF DropQueue, history
<1>3. ks \in Seq(Kinds) /\ ks # << >>
  BY DEF Kinds
<1> HIDE DEF ks
<1>4. ext' \in Ext /\ Own(newOrders(ext, ks), bypasses)
  BY <1>1, <1>2, <1>3, NewOrdersCorrect DEF Rest, Owned
<1>5. Rest' /\ Bounded'
  BY <1>1, <1>4 DEF DropQueue, Rest, Bounded, life, bounds, history
<1>6. Owned'
  BY <1>1, <1>2, <1>4 DEF Owned, Own, Awaited
<1> QED BY <1>1, <1>2, <1>5, <1>6, LifeKept, TypesNext DEF Inv

LEMMA DropFinishStep ==
  ASSUME Inv, DropFinish
  PROVE  Inv'
<1>1. Flags /\ Boards /\ Rest /\ Bounded /\ Closed /\ Owned
  BY Types DEF Inv
<1>2. /\ ext' = orderFinished(ext) /\ bypasses' = bypasses + Awaited(ext)
      /\ UNCHANGED <<life, boards, told, undetected>>
  BY DEF DropFinish
<1>3. ext \in Ext /\ bypasses \in Nat /\ Own(ext, bypasses)
  BY <1>1 DEF Rest, Owned
<1>4. /\ ext' \in Ext /\ bypasses' \in Nat
      /\ Own(orderFinished(ext), bypasses + Awaited(ext))
  BY <1>2, <1>3, FinishedCorrect, BypassCorrect
<1>5. Rest' /\ Bounded'
  BY <1>1, <1>4 DEF DropFinish, Rest, Bounded, life, bounds
<1>6. Owned'
  BY <1>2, <1>4 DEF Owned, Own, Awaited
<1> QED BY <1>1, <1>2, <1>5, <1>6, LifeKept, TypesNext DEF Inv

-----------------------------------------------------------------------------
(* The boards. *)
LEMMA BoardStep ==
  ASSUME Inv, ServoUp \/ AsservUp \/ AX12Up \/ AX12Exit
  PROVE  Inv'
<1>1. Flags /\ Boards /\ Rest /\ Bounded /\ Closed /\ Owned
  BY Types DEF Inv
<1>2. /\ UNCHANGED <<muted, starting, started, detecting, late, opened, ext,
                     timers, bounds, told, undetected, bypasses>>
      /\ alive' \in {alive, FALSE}
  BY DEF ServoUp, AsservUp, AX12Up, AX12Exit, life, history
<1>3. Boards'
  BY <1>1 DEF ServoUp, AsservUp, AX12Up, AX12Exit, Boards
<1>4. Flags' /\ Closed'
  <2>1. CASE alive' = alive
    BY <1>1, <1>2, <2>1 DEF Flags, Closed
  <2>2. CASE alive' = FALSE
    BY <1>1, <1>2, <2>2 DEF Flags, Closed
  <2> QED BY <1>2, <2>1, <2>2
<1>5. Rest' /\ Bounded'
  BY <1>1, <1>2 DEF Rest, Bounded, timers, bounds
<1>6. Owned'
  BY <1>1, <1>2, FifoKept
<1> QED BY <1>3, <1>4, <1>5, <1>6, TypesNext DEF Inv

LEMMA ServoAckStep ==
  ASSUME Inv, ServoAck
  PROVE  Inv'
<1>1. Flags /\ Boards /\ Rest /\ Bounded /\ Closed /\ Owned
  BY Types DEF Inv
<1> DEFINE x == [ext EXCEPT !.servoAcks = ext.servoAcks - 1]
<1>2. /\ ext.servoAcks > 0 /\ ext' = orderFinished(x)
      /\ UNCHANGED <<life, boards, timers, bounds, told, undetected, bypasses>>
  BY DEF ServoAck, history
<1>3. ext \in Ext /\ bypasses \in Nat /\ Own(ext, bypasses)
  BY <1>1 DEF Rest, Owned
<1>4. x \in Ext /\ x.servoAcks = ext.servoAcks - 1 /\ x.early = ext.early
  BY <1>2, <1>3 DEF Ext
<1>5. x.servoAcks <= bypasses /\ (x.early => bypasses > 0)
  <2>1. ext.servoAcks \in Nat
    BY <1>3 DEF Ext
  <2>2. ext.servoAcks <= bypasses + 1 /\ (ext.early => bypasses > 0)
    BY <1>3, <2>1, OwnCases
  <2> HIDE DEF x
  <2> QED BY <1>3, <1>4, <2>1, <2>2
<1> HIDE DEF x
<1>6. ext' \in Ext /\ Own(orderFinished(x), bypasses)
  BY <1>2, <1>3, <1>4, <1>5, FinishedCorrect
<1>7. Owned'
  BY <1>1, <1>2, <1>6 DEF Owned, Own, Awaited
<1> QED BY <1>1, <1>2, <1>3, <1>6, <1>7, LifeKept, CountsKept, TypesNext DEF Inv

LEMMA AxAckStep ==
  ASSUME Inv, AxAck
  PROVE  Inv'
<1>1. Flags /\ Boards /\ Rest /\ Bounded /\ Closed /\ Owned
  BY Types DEF Inv
<1> DEFINE x == [ext EXCEPT !.axAcks = ext.axAcks - 1]
<1>2. /\ ext.axAcks > 0 /\ ext' = orderFinished(x)
      /\ bypasses' = bypasses + Awaited(ext)
      /\ UNCHANGED <<life, boards, timers, bounds, told, undetected>>
  BY DEF AxAck
<1>3. ext \in Ext /\ bypasses \in Nat /\ Own(ext, bypasses)
  BY <1>1 DEF Rest, Owned
<1>4. /\ x \in Ext /\ x.servoAcks = ext.servoAcks /\ x.early = ext.early
      /\ x.order_in_progress = ext.order_in_progress /\ x.lost = ext.lost
  BY <1>2, <1>3 DEF Ext
<1> HIDE DEF x
<1>5. Own(x, bypasses) /\ Awaited(x) = Awaited(ext)
  BY <1>3, <1>4 DEF Own, Awaited
<1>6. /\ ext' \in Ext /\ bypasses' \in Nat
      /\ Own(orderFinished(x), bypasses + Awaited(ext))
  BY <1>2, <1>3, <1>4, <1>5, FinishedCorrect, BypassCorrect
<1>7. Owned'
  BY <1>2, <1>6 DEF Owned, Own, Awaited
<1> QED BY <1>1, <1>2, <1>6, <1>7, LifeKept, CountsKept, TypesNext DEF Inv

LEMMA StutterStep ==
  ASSUME Inv, UNCHANGED vars
  PROVE  Inv'
<1>1. UNCHANGED <<life, boards, ext, timers, bounds, told, undetected, bypasses>>
  BY DEF vars, history
<1>2. Flags /\ Boards /\ Rest /\ Bounded /\ Closed /\ Owned
  BY Types DEF Inv
<1>3. ext' \in Ext /\ bypasses' \in Nat
  BY <1>1, <1>2 DEF Rest
<1>4. Owned'
  BY <1>1, <1>2, FifoKept
<1> QED BY <1>1, <1>2, <1>3, <1>4, LifeKept, CountsKept, TypesNext DEF Inv

-----------------------------------------------------------------------------
(* The invariant holds of every state, for any number of orders and starts: *)
(* what is under way was counted, a stopped robot is closed, and every      *)
(* answer to come has its order, in progress or bypassed.                   *)
THEOREM RobotInductive == Spec => []Inv
<1>1. Inv /\ [Next]_vars => Inv'
  BY StartStep, OpenedStep, StopStep, KillStep, ExtensionStopStep, CleanStep,
     TakeOrderStep, DropModuleStep, DropQueueStep, DropFinishStep, BoardStep,
     ServoAckStep, AxAckStep, StutterStep DEF Next
<1> QED BY InitInv, <1>1, PTL DEF Spec

(* The types and the bounds, for any number of orders and of starts.       *)
THEOREM RobotTypes == Spec => []RobotTypeOK
<1>1. Inv => RobotTypeOK
  BY DEF Inv
<1> QED BY <1>1, RobotInductive, PTL

(* A robot that was stopped keeps its extensions closed until it is        *)
(* started again, unless a factory was under way.                          *)
THEOREM StopHolds == Spec => []StopIsFinal
<1>1. Inv => StopIsFinal
  BY DEF Inv, Closed, StopIsFinal
<1> QED BY <1>1, RobotInductive, PTL

(* Whatever pushes, dropModule, cleans and stops do, the servos have the   *)
(* order the fifo waits for and at most one more for each order these have *)
(* finished or dropped, and the IA gets no message early before one did.   *)
THEOREM ServoOrders == Spec => []ServoOrdersOut
<1>1. Inv => ServoOrdersOut
  BY DEF Inv, Owned, Own, ServoOrdersOut
<1> QED BY <1>1, RobotInductive, PTL
=============================================================================
