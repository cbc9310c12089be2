---- MODULE AsservClientProofs ----
(***************************************************************************)
(* The asserv client, for any number of orders, collisions and start       *)
(* sequences.                                                              *)
(*                                                                         *)
(* The invariant has four parts.  ClientOK: the orders of the fifo are in  *)
(* the order they were given, and no more ids are used than orders were    *)
(* given or bypassed the fifo.  Flight: every id on its way to the board   *)
(* and back is there once, was used, and has its callback.  Ordered: they  *)
(* keep their order, so that a cleaning drops nothing given after it.      *)
(* Fresh: the order in progress is awaited, the messages are older than    *)
(* it and than what is queued, unless all that is out was given before the *)
(* last collision.  The first and the last speak of a client in the middle *)
(* of a handler too, and so go through the calls a handler makes one after *)
(* the other, and Net counts what these send.                              *)
(***************************************************************************)
EXTENDS AsservClient, SequenceTheorems, FiniteSetTheorems, WellFoundedInduction,
        TLAPS

WOrder == [nr : 0 .. MaxOrders, kind : {"move", "setting", "clean"}, id : Nat]

Client == [fifo : Seq(Order), order_in_progress : BOOLEAN, currentId : Nat,
           ordersCallback : SUBSET Nat, messages : Seq(1 .. MaxOrders),
           written : Seq(WOrder)]

\* A fifo of some of the orders 1 .. g, in their order, and of collisions.
Listed(s, g) ==
  /\ \A i \in 1 .. Len(s) :
       s[i].nr <= g /\ (s[i].kind = "nothing" <=> s[i].nr = 0)
  /\ \A i, j \in 1 .. Len(s) :
       i < j /\ s[i].nr # 0 /\ s[j].nr # 0 => s[i].nr < s[j].nr

\* g orders were given, n bypassed the fifo.
ClientOK(c, g, n) ==
  /\ c \in Client
  /\ Listed(c.fifo, g)
  /\ 1 <= c.currentId /\ c.currentId <= g + n + 1
  /\ \A i \in 1 .. Len(c.fifo) :
       c.fifo[i].nr # 0 => c.currentId <= c.fifo[i].nr + n

\* What a handler that began with the id k and the callbacks cb wrote, after
\* y collisions.
Sends(k, cb, y, c) ==
  /\ k <= c.currentId /\ Len(c.written) = c.currentId - k
  /\ \A i \in 1 .. Len(c.written) :
       /\ c.written[i].id = k + i - 1
       /\ c.written[i].kind = "clean" => y # 0
  /\ c.ordersCallback = cb \cup (k .. c.currentId - 1)

-----------------------------------------------------------------------------
(* The least of some natural numbers, which Min chooses, exists. *)
Less == {ss \in Nat \X Nat : ss[1] < ss[2]}

LEMMA MinIsLeast ==
  ASSUME NEW S \in SUBSET Nat, S # {}
  PROVE  Min(S) \in S /\ \A y \in S : Min(S) <= y
<1>1. OpToRel(<, Nat) = Less
  BY Zenon DEF OpToRel, Less
<1>2. \E x \in S : \A y \in S : <<y, x>> \notin Less
  BY <1>1, NatLessThanWellFounded, WFMin
<1>3. \A x, y \in Nat : <<y, x>> \notin Less => x <= y
  <2>1. SUFFICES ASSUME NEW x \in Nat, NEW y \in Nat, y < x
                 PROVE  <<y, x>> \in Less
    BY SMT
  <2> DEFINE p == <<y, x>>
  <2>2. p \in Nat \X Nat /\ p[1] = y /\ p[2] = x
    BY Zenon
  <2>3. p \in {ss \in Nat \X Nat : ss[1] < ss[2]}
    BY <2>1, <2>2, Zenon
  <2> QED
    BY <2>3 DEF Less
<1>4. \E x \in S : \A y \in S : x <= y
  BY <1>2, <1>3
<1> QED
  BY <1>4 DEF Min

(* The orders before the first that waits are messages. *)
LEMMA FirstThatWaits ==
  ASSUME NEW q \in Seq(Order)
  PROVE  LET first == SelectInSeq(q, Waits) IN
         /\ first \in 0 .. Len(q)
         /\ first # 0 => q[first].kind # "message"
         /\ \A i \in 1 .. Len(q) :
              first = 0 \/ i < first => q[i].kind = "message"
<1> DEFINE I == {i \in 1 .. Len(q) : Waits(q[i])}
<1>1. I # {} => Min(I) \in I /\ \A y \in I : Min(I) <= y
  <2>1. I \in SUBSET Nat
    OBVIOUS
  <2> HIDE DEF I
  <2> QED
    BY <2>1, MinIsLeast
<1>2. SelectInSeq(q, Waits) = IF I # {} THEN Min(I) ELSE 0
  BY DEF SelectInSeq
<1>3. CASE I = {}
  BY <1>2, <1>3 DEF Waits
<1>4. CASE I # {}
  <2> DEFINE m == Min(I)
  <2>1. m \in I /\ \A y \in I : m <= y
    BY <1>1, <1>4
  <2>2. m \in 1 .. Len(q) /\ Waits(q[m])
    BY <2>1
  <2>3. \A i \in 1 .. Len(q) : i < m => ~Waits(q[i])
    BY <2>1
  <2>4. SelectInSeq(q, Waits) = m
    BY <1>2, <1>4
  <2> HIDE DEF m, I
  <2> QED
    BY <2>2, <2>3, <2>4 DEF Waits
<1> QED
  BY <1>3, <1>4
-----------------------------------------------------------------------------
(* What nextOrder does of a client that has no order in progress: n        *)
(* messages are sent, and the order behind them, if any, is in progress.   *)
Sent(c, d, n) ==
  /\ d.messages \in Seq(1 .. MaxOrders)
  /\ Len(d.messages) = Len(c.messages) + n
  /\ \A i \in 1 .. Len(c.messages) : d.messages[i] = c.messages[i]
  /\ \A i \in 1 .. n : d.messages[Len(c.messages) + i] = c.fifo[i].nr
  /\ d.fifo \in Seq(Order)

Called(c, d, n) ==
  LET o == c.fifo[n + 1]
  IN  /\ d.order_in_progress = TRUE
      /\ Len(d.fifo) = Len(c.fifo) - n - 1
      /\ \A i \in 1 .. Len(d.fifo) : d.fifo[i] = c.fifo[n + 1 + i]
      /\ o.kind # "message"
      /\ IF o.kind = "nothing"
           THEN /\ d.currentId = c.currentId /\ d.written = c.written
                /\ d.ordersCallback = c.ordersCallback
           ELSE /\ d.currentId = c.currentId + 1
                /\ d.written = Append(c.written, [nr |-> o.nr, kind |-> o.kind,
                                                  id |-> c.currentId])
                /\ d.ordersCallback = c.ordersCallback \cup {c.currentId}

Emptied(c, d) ==
  /\ d.order_in_progress = FALSE /\ Len(d.fifo) = 0
  /\ d.currentId = c.currentId /\ d.written = c.written
  /\ d.ordersCallback = c.ordersCallback

NextOrderIs(c, d) ==
  \E n \in 0 .. Len(c.fifo) :
    /\ Sent(c, d, n)
    /\ IF n = Len(c.fifo) THEN Emptied(c, d) ELSE Called(c, d, n)

OrderSent(c, d, nr, kind) ==
  LET w == [nr |-> nr, kind |-> kind, id |-> c.currentId] IN
  /\ w \in WOrder
  /\ d.fifo = c.fifo /\ d.messages = c.messages
  /\ d.order_in_progress = c.order_in_progress
  /\ d.currentId = c.currentId + 1
  /\ d.written = Append(c.written, w)
  /\ d.ordersCallback = c.ordersCallback \cup {c.currentId}

LEMMA SendOrderClient ==
  ASSUME NEW c \in Client, NEW nr \in 0 .. MaxOrders,
         NEW kind \in {"move", "setting", "clean"}
  PROVE  /\ sendOrder(c, nr, kind) \in Client
         /\ OrderSent(c, sendOrder(c, nr, kind), nr, kind)
<1> DEFINE w == [nr |-> nr, kind |-> kind, id |-> c.currentId]
           ws == Append(c.written, w)
           cb == c.ordersCallback \cup {c.currentId}
           d == [c EXCEPT !.written = ws, !.ordersCallback = cb,
                          !.currentId = c.currentId + 1]
<1>1. c.currentId \in Nat /\ c.written \in Seq(WOrder)
      /\ c.ordersCallback \in SUBSET Nat
  BY DEF Client
<1>2. w \in WOrder
  BY <1>1 DEF WOrder
<1>3. sendOrder(c, nr, kind) = d
  BY DEF sendOrder, Client
<1> HIDE DEF w
<1>4. ws \in Seq(WOrder)
  BY <1>1, <1>2, AppendProperties
<1>5. cb \in SUBSET Nat /\ c.currentId + 1 \in Nat
  BY <1>1
<1> HIDE DEF ws, cb
<1>6. /\ d \in Client /\ d.fifo = c.fifo /\ d.messages = c.messages
      /\ d.order_in_progress = c.order_in_progress
      /\ d.currentId = c.currentId + 1 /\ d.written = ws
      /\ d.ordersCallback = cb
  BY <1>4, <1>5 DEF Client
<1> HIDE DEF d
<1> QED
  BY <1>2, <1>3, <1>6 DEF w, ws, cb, OrderSent

LEMMA NextOrderShape ==
  ASSUME NEW c \in Client, Listed(c.fifo, MaxOrders), ~c.order_in_progress
  PROVE  nextOrder(c) \in Client /\ NextOrderIs(c, nextOrder(c))
<1> DEFINE q == c.fifo
           first == SelectInSeq(q, Waits)
           sent == IF first = 0 THEN q ELSE SubSeq(q, 1, first - 1)
           n == Len(sent)
           rest == SubSeq(q, n + 2, Len(q))
           told == [i \in 1 .. n |-> sent[i].nr]
           flag == (first # 0)
           ms == c.messages \o told
           after == [c EXCEPT !.fifo = rest, !.order_in_progress = flag,
                              !.messages = ms]
<1>1. /\ q \in Seq(Order) /\ Len(q) \in Nat /\ c.messages \in Seq(1 .. MaxOrders)
      /\ \A i \in 1 .. Len(q) : q[i] \in Order
  BY LenProperties, ElementOfSeq DEF Client
<1>2. /\ first \in 0 .. Len(q)
      /\ first # 0 => q[first].kind # "message"
      /\ \A i \in 1 .. Len(q) : first = 0 \/ i < first => q[i].kind = "message"
  BY <1>1, FirstThatWaits
<1> HIDE DEF first
<1>3. /\ sent \in Seq(Order) /\ n = IF first = 0 THEN Len(q) ELSE first - 1
      /\ \A i \in 1 .. n : sent[i] = q[i] /\ q[i].kind = "message"
  <2>1. CASE first = 0
    BY <1>1, <1>2, <2>1
  <2>2. CASE first # 0
    <3>1. \A i \in 1 .. first - 1 : q[i] \in Order
      BY <1>1, <1>2
    <3>2. /\ SubSeq(q, 1, first - 1) \in Seq(Order)
          /\ Len(SubSeq(q, 1, first - 1)) = first - 1
          /\ \A i \in 1 .. first - 1 : SubSeq(q, 1, first - 1)[i] = q[i]
      BY <1>1, <1>2, <2>2, <3>1, SubSeqProperties
    <3> QED
      BY <1>1, <1>2, <2>2, <3>2
  <2> QED
    BY <2>1, <2>2
<1> HIDE DEF sent
<1>4. n \in 0 .. Len(q)
  BY <1>1, <1>2, <1>3
<1> HIDE DEF n
<1>5. /\ rest \in Seq(Order)
      /\ Len(rest) = IF n = Len(q) THEN 0 ELSE Len(q) - n - 1
      /\ \A i \in 1 .. Len(rest) : rest[i] = q[n + 1 + i]
  <2>1. \A i \in n + 2 .. Len(q) : q[i] \in Order
    BY <1>1, <1>4
  <2>2. /\ rest \in Seq(Order)
        /\ Len(rest) = IF n + 2 <= Len(q) THEN Len(q) - (n + 2) + 1 ELSE 0
        /\ \A i \in 1 .. Len(q) - (n + 2) + 1 : rest[i] = q[n + 2 + i - 1]
    BY <1>1, <1>4, <2>1, SubSeqProperties
  <2>3. n \in Nat /\ n <= Len(q)
    BY <1>1, <1>4
  <2> HIDE DEF q, rest
  <2>4. Len(rest) = IF n = Len(q) THEN 0 ELSE Len(q) - n - 1
    BY <1>1, <2>2, <2>3
  <2>5. ASSUME NEW i \in 1 .. Len(rest)
        PROVE  rest[i] = q[n + 1 + i]
    <3>1. i \in 1 .. Len(q) - (n + 2) + 1
      BY <1>1, <2>3, <2>4
    <3>2. n + 2 + i - 1 = n + 1 + i
      BY <2>3, <3>1
    <3> QED
      BY <2>2, <3>1, <3>2
  <2> QED
    BY <2>2, <2>4, <2>5
<1>6. /\ told \in Seq(1 .. MaxOrders) /\ Len(told) = n
      /\ \A i \in 1 .. n : told[i] = q[i].nr
  <2>1. \A i \in 1 .. n : sent[i].nr \in 1 .. MaxOrders
    <3>1. ASSUME NEW i \in 1 .. n
          PROVE  q[i].nr \in 1 .. MaxOrders
      <4>1. i \in 1 .. Len(q) /\ q[i].kind = "message" /\ q[i] \in Order
        BY <1>1, <1>3, <1>4
      <4>2. q[i].nr # 0
        BY <4>1 DEF Listed
      <4> QED
        BY <4>1, <4>2, ClientAssumption DEF Order
    <3> QED
      BY <1>3, <3>1
  <2>2. told \in [1 .. n -> 1 .. MaxOrders] /\ n \in Nat
    BY <1>4, <2>1
  <2>3. told \in Seq(1 .. MaxOrders)
    BY <2>2, SeqDef
  <2>4. DOMAIN told = 1 .. n /\ DOMAIN told = 1 .. Len(told)
        /\ Len(told) \in Nat
    BY <2>3, LenProperties
  <2>5. Len(told) = n
    BY <2>2, <2>4
  <2> QED
    BY <1>3, <2>3, <2>5
<1> HIDE DEF rest, told
<1>7. /\ ms \in Seq(1 .. MaxOrders) /\ Len(ms) = Len(c.messages) + n
      /\ Len(c.messages) \in Nat
      /\ \A i \in 1 .. Len(c.messages) : ms[i] = c.messages[i]
      /\ \A i \in 1 .. n : ms[Len(c.messages) + i] = q[i].nr
  <2> DEFINE m == c.messages
             l == Len(m)
  <2>1. m \in Seq(1 .. MaxOrders) /\ l \in Nat
    BY <1>1, LenProperties
  <2> HIDE DEF m
  <2>2. /\ m \o told \in Seq(1 .. MaxOrders) /\ Len(m \o told) = l + n
        /\ \A i \in 1 .. l + n :
             (m \o told)[i] = IF i <= l THEN m[i] ELSE told[i - l]
    BY <1>6, <2>1, ConcatProperties
  <2> HIDE DEF l
  <2>3. n \in Nat
    BY <1>1, <1>4
  <2>4. \A i \in 1 .. l : (m \o told)[i] = m[i]
    BY <2>1, <2>2, <2>3
  <2>5. ASSUME NEW i \in 1 .. n
        PROVE  (m \o told)[l + i] = q[i].nr
    <3>1. l + i \in 1 .. l + n /\ ~(l + i <= l) /\ (l + i) - l = i
      BY <2>1, <2>3
    <3> QED
      BY <1>6, <2>2, <3>1
  <2> QED
    BY <2>1, <2>2, <2>4, <2>5 DEF l, m
<1> HIDE DEF ms
<1>8. flag \in BOOLEAN /\ (flag <=> n # Len(q))
  BY <1>1, <1>2, <1>3
<1> HIDE DEF flag
<1>9. /\ after \in Client /\ after.fifo = rest /\ after.messages = ms
      /\ after.order_in_progress = flag /\ after.currentId = c.currentId
      /\ after.written = c.written /\ after.ordersCallback = c.ordersCallback
  BY <1>5, <1>7, <1>8 DEF Client
<1>10. nextOrder(c) =
         IF first = 0 \/ q[first].kind = "nothing" THEN after
         ELSE sendOrder(after, q[first].nr, q[first].kind)
  BY DEF nextOrder, after, flag, ms, told, rest, n, sent, first
<1> HIDE DEF after
<1>11. CASE first = 0
  <2>1. n = Len(q) /\ ~flag
    BY <1>3, <1>8, <1>11
  <2>2. Emptied(c, after) /\ Sent(c, after, n)
    BY <1>5, <1>7, <1>8, <1>9, <2>1 DEF Emptied, Sent
  <2> QED
    BY <1>4, <1>9, <1>10, <1>11, <2>1, <2>2 DEF NextOrderIs
<1>12. CASE first # 0
  <2>1. /\ n # Len(q) /\ flag = TRUE /\ first = n + 1 /\ first \in 1 .. Len(q)
        /\ q[first] \in Order /\ q[first].kind # "message"
    BY <1>1, <1>2, <1>3, <1>8, <1>12
  <2>2. CASE q[first].kind = "nothing"
    <3>1. Called(c, after, n) /\ Sent(c, after, n)
      BY <1>5, <1>7, <1>9, <2>1, <2>2 DEF Called, Sent
    <3> QED
      BY <1>4, <1>9, <1>10, <2>1, <2>2, <3>1 DEF NextOrderIs
  <2>3. CASE q[first].kind # "nothing"
    <3> DEFINE x == q[first].nr
               k == q[first].kind
               d == sendOrder(after, x, k)
               w == [nr |-> x, kind |-> k, id |-> c.currentId]
    <3>1. x \in 0 .. MaxOrders /\ k \in {"move", "setting", "clean"}
      BY <2>1, <2>3 DEF Order, Kinds
    <3>2. /\ d \in Client /\ d.fifo = rest /\ d.messages = ms
          /\ d.order_in_progress = flag
          /\ d.currentId = c.currentId + 1
          /\ d.written = Append(c.written, w)
          /\ d.ordersCallback = c.ordersCallback \cup {c.currentId}
      <4> HIDE DEF x, k
      <4>1. after \in Client
        BY <1>9
      <4>2. d \in Client /\ OrderSent(after, d, x, k)
        BY <3>1, <4>1, SendOrderClient
      <4> HIDE DEF d
      <4> QED
        BY <1>9, <4>2 DEF OrderSent
    <3> HIDE DEF d
    <3>3. Called(c, d, n) /\ Sent(c, d, n)
      BY <1>5, <1>7, <2>1, <2>3, <3>2 DEF Called, Sent
    <3> QED
      BY <1>4, <1>10, <1>12, <2>1, <2>3, <3>2, <3>3 DEF NextOrderIs, d
  <2> QED
    BY <2>2, <2>3
<1> QED
  BY <1>11, <1>12
-----------------------------------------------------------------------------
(* The calls a handler makes, one after the other. *)
LEMMA WriteSends ==
  ASSUME NEW k \in Nat, NEW cb \in SUBSET Nat, NEW y \in Nat,
         NEW c \in Client, Sends(k, cb, y, c),
         NEW d \in Client, NEW nr, NEW kind, kind = "clean" => y # 0,
         d.currentId = c.currentId + 1,
         [nr |-> nr, kind |-> kind, id |-> c.currentId] \in WOrder,
         d.written = Append(c.written,
                            [nr |-> nr, kind |-> kind, id |-> c.currentId]),
         d.ordersCallback = c.ordersCallback \cup {c.currentId}
  PROVE  Sends(k, cb, y, d)
<1> DEFINE w == [nr |-> nr, kind |-> kind, id |-> c.currentId]
           p == c.written
           l == Len(p)
<1>1. c.currentId \in Nat /\ p \in Seq(WOrder) /\ l \in Nat
  BY LenProperties DEF Client
<1>2. w \in WOrder /\ w.id = c.currentId /\ w.kind = kind
      /\ d.written = Append(p, w)
  OBVIOUS
<1>3. /\ k <= c.currentId /\ l = c.currentId - k
      /\ \A i \in 1 .. l : p[i].id = k + i - 1 /\ (p[i].kind = "clean" => y # 0)
      /\ c.ordersCallback = cb \cup (k .. c.currentId - 1)
  BY DEF Sends
<1> HIDE DEF w, p
<1>4. /\ Len(d.written) = l + 1
      /\ \A i \in 1 .. l : d.written[i] = p[i]
      /\ d.written[l + 1] = w
  <2>1. /\ Len(Append(p, w)) = l + 1
        /\ \A i \in 1 .. l : Append(p, w)[i] = p[i]
        /\ Append(p, w)[l + 1] = w
    BY <1>1, <1>2, AppendProperties
  <2> QED
    BY <1>2, <2>1
<1> HIDE DEF l
<1>5. k <= d.currentId /\ Len(d.written) = d.currentId - k
  BY <1>1, <1>3, <1>4
<1>6. ASSUME NEW i \in 1 .. Len(d.written)
      PROVE  d.written[i].id = k + i - 1
             /\ (d.written[i].kind = "clean" => y # 0)
  <2>1. CASE i = l + 1
    BY <1>1, <1>2, <1>3, <1>4, <2>1
  <2>2. CASE i # l + 1
    <3>1. i \in 1 .. l
      BY <1>1, <1>4, <2>2
    <3> QED
      BY <1>3, <1>4, <3>1
  <2> QED
    BY <2>1, <2>2
<1>7. d.ordersCallback = cb \cup (k .. d.currentId - 1)
  <2>1. (k .. c.currentId - 1) \cup {c.currentId} = k .. d.currentId - 1
    BY <1>1, <1>3
  <2> QED
    BY <1>3, <2>1
<1> QED
  BY <1>5, <1>6, <1>7 DEF Sends

LEMMA NextOrderKeeps ==
  ASSUME NEW g \in 0 .. MaxOrders, NEW n \in Nat,
         NEW k \in Nat, NEW cb \in SUBSET Nat, NEW y \in Nat,
         NEW c, ClientOK(c, g, n), Sends(k, cb, y, c)
  PROVE  ClientOK(nextOrder(c), g, n) /\ Sends(k, cb, y, nextOrder(c))
<1>1. CASE c.order_in_progress
  <2>1. nextOrder(c) = c
    BY <1>1 DEF nextOrder
  <2> QED
    BY <2>1
<1>2. CASE ~c.order_in_progress
  <2> DEFINE q == c.fifo
             d == nextOrder(c)
             r == d.fifo
  <2>0. c \in Client /\ q \in Seq(Order) /\ c.currentId \in Nat
    BY DEF Client, ClientOK
  <2>1. /\ c \in Client /\ q \in Seq(Order) /\ Len(q) \in Nat
        /\ c.currentId \in Nat
        /\ \A i \in 1 .. Len(q) : q[i] \in Order /\ q[i].nr \in Nat
    <3>1. \A i \in 1 .. Len(q) : q[i] \in Order
      BY <2>0, ElementOfSeq
    <3>2. \A o \in Order : o.nr \in Nat
      BY ClientAssumption DEF Order
    <3>3. Len(q) \in Nat
      BY <2>0, LenProperties
    <3> QED
      BY <2>0, <3>1, <3>2, <3>3
  <2>2. Listed(q, g) /\ Listed(q, MaxOrders)
    <3>1. Listed(q, g)
      BY DEF ClientOK
    <3>2. g \in Nat /\ MaxOrders \in Nat /\ g <= MaxOrders
      BY ClientAssumption
    <3>3. \A i \in 1 .. Len(q) : q[i].nr <= MaxOrders
      BY <2>1, <3>1, <3>2 DEF Listed
    <3> QED
      BY <3>1, <3>3 DEF Listed
  <2>3. d \in Client /\ NextOrderIs(c, d)
    BY <1>2, <2>1, <2>2, NextOrderShape
  <2> HIDE DEF d
  <2>4. PICK m \in 0 .. Len(q) :
          /\ Sent(c, d, m)
          /\ IF m = Len(q) THEN Emptied(c, d) ELSE Called(c, d, m)
    BY <2>3 DEF NextOrderIs
  <2>5. CASE m = Len(q)
    <3>1. Len(r) = 0 /\ d.currentId = c.currentId /\ d.written = c.written
          /\ d.ordersCallback = c.ordersCallback
      BY <2>4, <2>5 DEF Emptied
    <3>2. ClientOK(d, g, n)
      BY <2>3, <3>1 DEF ClientOK, Listed
    <3>3. Sends(k, cb, y, d)
      BY <3>1 DEF Sends
    <3> QED
      BY <3>2, <3>3 DEF d
  <2>6. CASE m # Len(q)
    <3> DEFINE o == q[m + 1]
    <3>1. Called(c, d, m)
      BY <2>4, <2>6
    <3>2. m \in Nat /\ m + 1 \in 1 .. Len(q) /\ o \in Order /\ o.kind # "message"
      <4>1. m \in Nat /\ m + 1 \in 1 .. Len(q)
        BY <2>1, <2>6
      <4> QED
        BY <2>1, <3>1, <4>1 DEF Called
    <3>3. Len(r) = Len(q) - m - 1
          /\ \A i \in 1 .. Len(r) : r[i] = q[m + 1 + i]
      BY <3>1 DEF Called
    <3>4. \A i \in 1 .. Len(r) : m + 1 + i \in 1 .. Len(q) /\ m + 1 < m + 1 + i
      BY <2>1, <3>2, <3>3
    <3>5. Listed(r, g)
      <4>1. \A i \in 1 .. Len(r) :
              r[i].nr <= g /\ (r[i].kind = "nothing" <=> r[i].nr = 0)
        BY <2>2, <3>3, <3>4 DEF Listed
      <4>2. ASSUME NEW i \in 1 .. Len(r), NEW j \in 1 .. Len(r), i < j,
                   r[i].nr # 0, r[j].nr # 0
            PROVE  r[i].nr < r[j].nr
        <5>1. m + 1 + i < m + 1 + j
          BY <2>1, <3>2, <3>3, <4>2
        <5> QED
          BY <2>2, <3>3, <3>4, <4>2, <5>1 DEF Listed
      <4> QED
        BY <4>1, <4>2 DEF Listed
    <3>6. CASE o.kind = "nothing"
      <4>1. d.currentId = c.currentId /\ d.written = c.written
            /\ d.ordersCallback = c.ordersCallback
        BY <3>1, <3>6 DEF Called
      <4>2. Sends(k, cb, y, d)
        BY <4>1 DEF Sends
      <4>3. \A i \in 1 .. Len(r) : r[i].nr # 0 => d.currentId <= r[i].nr + n
        BY <3>3, <3>4, <4>1 DEF ClientOK
      <4>4. ClientOK(d, g, n)
        BY <2>3, <3>5, <4>1, <4>3 DEF ClientOK
      <4> QED
        BY <4>2, <4>4 DEF d
    <3>7. CASE o.kind # "nothing"
      <4> DEFINE w == [nr |-> o.nr, kind |-> o.kind, id |-> c.currentId]
      <4>1. d.currentId = c.currentId + 1
            /\ d.written = Append(c.written, w)
            /\ d.ordersCallback = c.ordersCallback \cup {c.currentId}
        BY <3>1, <3>7 DEF Called
      <4>2. o.nr # 0 /\ o.nr <= g /\ o.nr \in Nat
        BY <2>1, <2>2, <3>2, <3>7 DEF Listed
      <4>3. o.kind \in {"move", "setting"} /\ o.nr \in 0 .. MaxOrders
        BY <3>2, <3>7 DEF Order, Kinds
      <4>4. w \in WOrder
        BY <2>1, <4>3 DEF WOrder
      <4>5. o.kind = "clean" => y # 0
        BY <4>3
      <4> HIDE DEF o
      <4>6. Sends(k, cb, y, d)
        BY <2>1, <2>3, <4>1, <4>4, <4>5, WriteSends
      <4>7. c.currentId <= o.nr + n
        BY <3>2, <4>2 DEF ClientOK, o
      <4>8. ASSUME NEW i \in 1 .. Len(r), r[i].nr # 0
            PROVE  d.currentId <= r[i].nr + n
        <5>1. r[i] = q[m + 1 + i] /\ r[i].nr \in Nat
          BY <2>1, <3>3, <3>4
        <5>2. o.nr < r[i].nr
          BY <2>2, <3>2, <3>4, <4>2, <4>8, <5>1 DEF Listed, o
        <5>3. /\ c.currentId \in Nat /\ o.nr \in Nat /\ r[i].nr \in Nat
              /\ d.currentId = c.currentId + 1
          BY <2>1, <4>1, <4>2, <5>1
        <5> HIDE DEF r
        <5> QED
          BY <4>7, <5>2, <5>3
      <4>9. 1 <= d.currentId /\ d.currentId <= g + n + 1
        BY <2>1, <4>1, <4>2, <4>7 DEF ClientOK
      <4>10. ClientOK(d, g, n)
        BY <2>3, <3>5, <4>8, <4>9 DEF ClientOK
      <4> QED
        BY <4>6, <4>10 DEF d
    <3> QED
      BY <3>6, <3>7
  <2> QED
    BY <2>5, <2>6
<1> QED
  BY <1>1, <1>2
LEMMA SendOrderKeeps ==
  ASSUME NEW g \in Nat, NEW n \in Nat,
         NEW k \in Nat, NEW cb \in SUBSET Nat, NEW y \in Nat,
         NEW c, ClientOK(c, g, n), Sends(k, cb, y, c),
         NEW kind \in {"move", "setting", "clean"}, kind = "clean" => y # 0
  PROVE  /\ ClientOK(sendOrder(c, 0, kind), g, n + 1)
         /\ Sends(k, cb, y, sendOrder(c, 0, kind))
         /\ sendOrder(c, 0, kind).order_in_progress = c.order_in_progress
<1> DEFINE d == sendOrder(c, 0, kind)
           w == [nr |-> 0, kind |-> kind, id |-> c.currentId]
<1>1. c \in Client /\ c.currentId \in Nat /\ 0 \in 0 .. MaxOrders
  BY ClientAssumption DEF ClientOK, Client
<1>2. d \in Client /\ OrderSent(c, d, 0, kind)
  BY <1>1, SendOrderClient
<1> HIDE DEF d
<1>3. /\ w \in WOrder /\ d.fifo = c.fifo
      /\ d.order_in_progress = c.order_in_progress
      /\ d.currentId = c.currentId + 1
      /\ d.written = Append(c.written, w)
      /\ d.ordersCallback = c.ordersCallback \cup {c.currentId}
  BY <1>2 DEF OrderSent
<1>4. Sends(k, cb, y, d)
  BY <1>1, <1>2, <1>3, WriteSends
<1>5. c.fifo \in Seq(Order)
      /\ \A i \in 1 .. Len(c.fifo) : c.fifo[i].nr \in Nat
  <2>1. c.fifo \in Seq(Order)
    BY <1>1 DEF Client
  <2>2. \A o \in Order : o.nr \in Nat
    BY ClientAssumption DEF Order
  <2> QED
    BY <2>1, <2>2, ElementOfSeq
<1>6. ASSUME NEW i \in 1 .. Len(c.fifo), c.fifo[i].nr # 0
      PROVE  d.currentId <= c.fifo[i].nr + (n + 1)
  <2>1. c.currentId <= c.fifo[i].nr + n
    BY <1>6 DEF ClientOK
  <2> QED
    BY <1>1, <1>3, <1>5, <2>1
<1>7. 1 <= d.currentId /\ d.currentId <= g + (n + 1) + 1
  BY <1>1, <1>3 DEF ClientOK
<1>8. ClientOK(d, g, n + 1)
  BY <1>2, <1>3, <1>6, <1>7 DEF ClientOK
<1> QED
  BY <1>3, <1>4, <1>8 DEF d

Queued(c, o) == [c EXCEPT !.fifo = Append(@, o)]

LEMMA QueuedSame ==
  ASSUME NEW c \in Client, NEW o
  PROVE  /\ Queued(c, o).order_in_progress = c.order_in_progress
         /\ Queued(c, o).messages = c.messages
         /\ Queued(c, o).written = c.written
         /\ \A k, cb, y : Sends(k, cb, y, c) => Sends(k, cb, y, Queued(c, o))
<1> DEFINE d == Queued(c, o)
<1>1. /\ d.written = c.written /\ d.ordersCallback = c.ordersCallback
      /\ d.order_in_progress = c.order_in_progress
      /\ d.currentId = c.currentId /\ d.messages = c.messages
  BY DEF Client, Queued
<1> HIDE DEF d
<1>2. \A k, cb, y : Sends(k, cb, y, c) => Sends(k, cb, y, d)
  BY <1>1 DEF Sends
<1> QED
  BY <1>1, <1>2 DEF d

\* An order the IA has just given, or the empty callback of a collision.
LEMMA AppendKeeps ==
  ASSUME NEW g \in Nat, NEW h \in Nat, g <= h, NEW n \in Nat,
         NEW c, ClientOK(c, g, n),
         NEW o \in Order, o.nr <= h, o.kind = "nothing" <=> o.nr = 0,
         o.nr # 0 => g < o.nr
  PROVE  ClientOK(Queued(c, o), h, n)
<1> DEFINE q == c.fifo
           qs == Append(q, o)
           d == [c EXCEPT !.fifo = qs]
           l == Len(q)
<1>1. c \in Client /\ q \in Seq(Order) /\ l \in Nat /\ c.currentId \in Nat
  BY LenProperties DEF ClientOK, Client
<1>2. \A i \in 1 .. l : q[i] \in Order /\ q[i].nr \in Nat
  <2>1. \A i \in 1 .. l : q[i] \in Order
    BY <1>1, ElementOfSeq
  <2>2. \A x \in Order : x.nr \in Nat
    BY ClientAssumption DEF Order
  <2> QED
    BY <2>1, <2>2
<1>3. o.nr \in Nat
  BY ClientAssumption DEF Order
<1>4. /\ qs \in Seq(Order) /\ Len(qs) = l + 1
      /\ \A i \in 1 .. l : qs[i] = q[i]
      /\ qs[l + 1] = o
  BY <1>1, AppendProperties
<1>5. /\ Listed(q, g) /\ 1 <= c.currentId /\ c.currentId <= g + n + 1
      /\ \A i \in 1 .. l : q[i].nr # 0 => c.currentId <= q[i].nr + n
  BY DEF ClientOK
<1> HIDE DEF qs
<1>6. /\ d \in Client /\ d.fifo = qs /\ d.currentId = c.currentId
      /\ d.written = c.written /\ d.ordersCallback = c.ordersCallback
      /\ d.order_in_progress = c.order_in_progress
  BY <1>1, <1>4 DEF Client
<1> HIDE DEF d, q, l
<1>7. \A i \in 1 .. l + 1 : i \in 1 .. l \/ i = l + 1
  BY <1>1
<1>8. Listed(qs, h)
  <2>1. ASSUME NEW i \in 1 .. l + 1
        PROVE  qs[i].nr <= h /\ (qs[i].kind = "nothing" <=> qs[i].nr = 0)
    <3>1. CASE i = l + 1
      BY <1>4, <3>1
    <3>2. CASE i \in 1 .. l
      BY <1>2, <1>4, <1>5, <3>2 DEF Listed, l
    <3> QED
      BY <1>7, <3>1, <3>2
  <2>2. ASSUME NEW i \in 1 .. l + 1, NEW j \in 1 .. l + 1, i < j,
               qs[i].nr # 0, qs[j].nr # 0
        PROVE  qs[i].nr < qs[j].nr
    <3>1. i \in 1 .. l
      BY <1>1, <2>2
    <3>2. qs[i] = q[i] /\ q[i].nr \in Nat /\ q[i].nr <= g
      BY <1>2, <1>4, <1>5, <3>1 DEF Listed, l
    <3>3. CASE j = l + 1
      <4>1. qs[j] = o /\ g < o.nr
        BY <1>4, <2>2, <3>3
      <4> QED
        BY <1>3, <3>2, <4>1
    <3>4. CASE j \in 1 .. l
      BY <1>4, <1>5, <2>2, <3>1, <3>4 DEF Listed, l
    <3> QED
      BY <1>7, <3>3, <3>4
  <2> QED
    BY <1>4, <2>1, <2>2 DEF Listed
<1>9. ASSUME NEW i \in 1 .. l + 1, qs[i].nr # 0
      PROVE  c.currentId <= qs[i].nr + n
  <2>1. CASE i = l + 1
    <3>1. qs[i] = o /\ g < o.nr
      BY <1>4, <1>9, <2>1
    <3> QED
      BY <1>1, <1>3, <1>5, <3>1
  <2>2. CASE i \in 1 .. l
    BY <1>4, <1>5, <1>9, <2>2
  <2> QED
    BY <1>7, <2>1, <2>2
<1>10. 1 <= d.currentId /\ d.currentId <= h + n + 1
  BY <1>1, <1>5, <1>6
<1>11. ClientOK(d, h, n)
  BY <1>4, <1>6, <1>8, <1>9, <1>10 DEF ClientOK
<1> QED
  BY <1>11 DEF d, qs, q, Queued

LEMMA FinishedKeeps ==
  ASSUME NEW g \in 0 .. MaxOrders, NEW n \in Nat,
         NEW k \in Nat, NEW cb \in SUBSET Nat, NEW y \in Nat,
         NEW c, ClientOK(c, g, n), Sends(k, cb, y, c)
  PROVE  ClientOK(orderFinished(c), g, n) /\ Sends(k, cb, y, orderFinished(c))
<1> DEFINE d == [c EXCEPT !.order_in_progress = FALSE]
<1>1. c \in Client
  BY DEF ClientOK
<1>2. /\ d \in Client /\ d.fifo = c.fifo /\ d.currentId = c.currentId
      /\ d.written = c.written /\ d.ordersCallback = c.ordersCallback
  BY <1>1 DEF Client
<1> HIDE DEF d
<1>3. ClientOK(d, g, n) /\ Sends(k, cb, y, d)
  BY <1>2 DEF ClientOK, Sends
<1>4. orderFinished(c) = nextOrder(d)
  BY DEF orderFinished, d
<1> QED
  BY <1>3, <1>4, NextOrderKeeps
-----------------------------------------------------------------------------
(* The elements of a sequence, each there once. *)
Once(s) == \A i, j \in 1 .. Len(s) : i # j => s[i] # s[j]

LEMMA ElementsOf ==
  ASSUME NEW S, NEW s \in Seq(S)
  PROVE  /\ Len(s) \in Nat /\ ToSet(s) = {s[i] : i \in 1 .. Len(s)}
         /\ ToSet(s) \in SUBSET S
         /\ \A i \in 1 .. Len(s) : s[i] \in ToSet(s)
<1>1. DOMAIN s = 1 .. Len(s) /\ Len(s) \in Nat
  BY LenProperties
<1>2. \A i \in 1 .. Len(s) : s[i] \in S
  BY ElementOfSeq
<1> QED
  BY <1>1, <1>2 DEF ToSet

LEMMA EmptyOnce ==
  ASSUME NEW S
  PROVE  <<>> \in Seq(S) /\ Len(<<>>) = 0 /\ ToSet(<<>>) = {} /\ Once(<<>>)
<1>1. <<>> \in Seq(S) /\ Len(<<>>) = 0
  BY EmptySeq
<1>2. ToSet(<<>>) = {<<>>[i] : i \in 1 .. Len(<<>>)}
  BY <1>1, ElementsOf
<1> QED
  BY <1>1, <1>2 DEF Once

LEMMA Shortened ==
  ASSUME NEW S, NEW s \in Seq(S), s # <<>>
  PROVE  /\ Head(s) \in S /\ Tail(s) \in Seq(S) /\ Len(s) = Len(Tail(s)) + 1
         /\ ToSet(s) = {Head(s)} \cup ToSet(Tail(s))
         /\ Once(s) => Once(Tail(s)) /\ Head(s) \notin ToSet(Tail(s))
<1> DEFINE t == Tail(s)
           n == Len(t)
<1>1. /\ Head(s) \in S /\ t \in Seq(S) /\ n = Len(s) - 1
      /\ \A i \in 1 .. n : t[i] = s[i + 1]
      /\ Head(s) = s[1]
  BY HeadTailProperties
<1>2. Len(s) \in Nat /\ n \in Nat
  BY <1>1, LenProperties
<1>3. Len(s) = n + 1 /\ 1 \in 1 .. Len(s)
      /\ \A i \in 1 .. n : i + 1 \in 1 .. Len(s) /\ i + 1 # 1
  BY <1>1, <1>2
<1>4. ToSet(t) = {t[i] : i \in 1 .. n} /\ ToSet(s) = {s[i] : i \in 1 .. Len(s)}
  BY <1>1, ElementsOf
<1> HIDE DEF t, n
<1>5. ToSet(s) = {Head(s)} \cup ToSet(t)
  <2>1. ASSUME NEW i \in 1 .. Len(s)
        PROVE  s[i] = Head(s) \/ \E j \in 1 .. n : s[i] = t[j]
    <3>1. CASE i = 1
      BY <1>1, <3>1
    <3>2. CASE i # 1
      <4>1. i - 1 \in 1 .. n /\ i = (i - 1) + 1
        BY <1>2, <1>3, <3>2
      <4>2. t[i - 1] = s[i]
        BY <1>1, <4>1
      <4> QED
        BY <4>1, <4>2
    <3> QED
      BY <3>1, <3>2
  <2>2. ToSet(s) \subseteq {Head(s)} \cup ToSet(t)
    BY <1>4, <2>1
  <2>3. {Head(s)} \cup ToSet(t) \subseteq ToSet(s)
    BY <1>1, <1>3, <1>4
  <2> QED
    BY <2>2, <2>3
<1>6. ASSUME Once(s)
      PROVE  Once(t) /\ Head(s) \notin ToSet(t)
  <2>1. \A i, j \in 1 .. n : i # j => i + 1 # j + 1
    BY <1>2
  <2>2. Once(t)
    BY <1>1, <1>3, <1>6, <2>1 DEF Once, n
  <2>3. \A i \in 1 .. n : t[i] # Head(s)
    BY <1>1, <1>3, <1>6 DEF Once
  <2> QED
    BY <1>4, <2>2, <2>3
<1> QED
  BY <1>1, <1>3, <1>5, <1>6 DEF t, n

LEMMA Joined ==
  ASSUME NEW S, NEW s \in Seq(S), NEW w \in Seq(S)
  PROVE  /\ s \o w \in Seq(S) /\ Len(s \o w) = Len(s) + Len(w)
         /\ ToSet(s \o w) = ToSet(s) \cup ToSet(w)
         /\ Once(s) /\ Once(w) /\ ToSet(s) \cap ToSet(w) = {} => Once(s \o w)
<1> DEFINE t == s \o w
           n == Len(s)
           m == Len(w)
<1>1. /\ t \in Seq(S) /\ Len(t) = n + m
      /\ \A i \in 1 .. n + m : t[i] = IF i <= n THEN s[i] ELSE w[i - n]
  BY ConcatProperties
<1>2. n \in Nat /\ m \in Nat
  BY LenProperties
<1>3. /\ ToSet(s) = {s[i] : i \in 1 .. n} /\ ToSet(w) = {w[i] : i \in 1 .. m}
      /\ ToSet(t) = {t[i] : i \in 1 .. n + m}
  BY <1>1, ElementsOf
<1> HIDE DEF t, n, m
<1>4. ASSUME NEW i \in 1 .. n + m
      PROVE  \/ i \in 1 .. n /\ t[i] = s[i]
             \/ i - n \in 1 .. m /\ i = n + (i - n) /\ t[i] = w[i - n]
  BY <1>1, <1>2
<1>5. \A i \in 1 .. n : i \in 1 .. n + m /\ t[i] = s[i]
  BY <1>1, <1>2
<1>6. ASSUME NEW i \in 1 .. m
      PROVE  n + i \in 1 .. n + m /\ t[n + i] = w[i]
  <2>1. n + i \in 1 .. n + m /\ ~(n + i <= n) /\ (n + i) - n = i
    BY <1>2
  <2> QED
    BY <1>1, <2>1
<1>7. ToSet(t) = ToSet(s) \cup ToSet(w)
  <2>1. ToSet(t) \subseteq ToSet(s) \cup ToSet(w)
    BY <1>3, <1>4
  <2>2. ToSet(s) \subseteq ToSet(t)
    BY <1>3, <1>5
  <2>3. ToSet(w) \subseteq ToSet(t)
    BY <1>3, <1>6
  <2> QED
    BY <2>1, <2>2, <2>3
<1>8. ASSUME Once(s), Once(w), ToSet(s) \cap ToSet(w) = {}
      PROVE  Once(t)
  <2>1. \A x \in 1 .. n, y \in 1 .. m : s[x] # w[y]
    BY <1>3, <1>8
  <2>2. ASSUME NEW i \in 1 .. n + m, NEW j \in 1 .. n + m, i # j
        PROVE  t[i] # t[j]
    <3>1. CASE i \in 1 .. n /\ t[i] = s[i] /\ j \in 1 .. n /\ t[j] = s[j]
      BY <1>8, <2>2, <3>1 DEF Once, n
    <3>2. CASE /\ i - n \in 1 .. m /\ i = n + (i - n) /\ t[i] = w[i - n]
               /\ j - n \in 1 .. m /\ j = n + (j - n) /\ t[j] = w[j - n]
      <4>1. i - n # j - n
        BY <2>2, <3>2
      <4> QED
        BY <1>8, <3>2, <4>1 DEF Once, m
    <3> QED
      BY <1>4, <2>1, <3>1, <3>2
  <2> QED
    BY <1>1, <2>2 DEF Once
<1> QED
  BY <1>1, <1>7, <1>8 DEF t, n, m

LEMMA Appended ==
  ASSUME NEW S, NEW s \in Seq(S), NEW e \in S
  PROVE  /\ Append(s, e) \in Seq(S) /\ Len(Append(s, e)) = Len(s) + 1
         /\ ToSet(Append(s, e)) = ToSet(s) \cup {e}
         /\ Once(s) /\ e \notin ToSet(s) => Once(Append(s, e))
<1> DEFINE w == <<e>>
<1>1. w \in Seq(S) /\ Len(w) = 1 /\ w[1] = e
  OBVIOUS
<1>2. Append(s, e) = s \o w
  BY AppendIsConcat
<1> HIDE DEF w
<1>3. ToSet(w) = {e}
  <2>1. ToSet(w) = {w[i] : i \in 1 .. 1}
    BY <1>1, ElementsOf
  <2> QED
    BY <1>1, <2>1
<1>4. Once(w)
  BY <1>1 DEF Once
<1> QED
  BY <1>1, <1>2, <1>3, <1>4, Joined
LEMMA FirstAppended ==
  ASSUME NEW e
  PROVE  Len(Append(<<>>, e)) = 1 /\ ToSet(Append(<<>>, e)) = {e}
<1>1. Append(<<>>, e) = <<e>> /\ <<e>> \in Seq({e}) /\ <<e>>[1] = e
      /\ Len(<<e>>) = 1
  OBVIOUS
<1>2. ToSet(<<e>>) = {<<e>>[i] : i \in 1 .. Len(<<e>>)}
  BY <1>1, ElementsOf
<1> QED
  BY <1>1, <1>2

-----------------------------------------------------------------------------
(* What is out, F, given up to the order f: the orders that the last       *)
(* collision dropped from the account.                                     *)
Past(F, f) == \A o \in F : o.nr <= f

\* The messages sent are older than the order x.
Newer(c, x) == \A i \in 1 .. Len(c.messages) : c.messages[i] < x

\* The messages sent are older than what is queued.
OldMessages(c, g) ==
  \A i \in 1 .. Len(c.messages) :
    /\ c.messages[i] <= g
    /\ \A j \in 1 .. Len(c.fifo) : c.fifo[j].nr # 0 => c.messages[i] < c.fifo[j].nr

\* What is queued before the empty callback of a collision is older than it.
Stale(c, f) ==
  \A i, j \in 1 .. Len(c.fifo) : i < j /\ c.fifo[j].nr = 0 => c.fifo[i].nr <= f

\* The id k is that of the order in progress, or has been given since.
Current(c, F, k) ==
  /\ k < c.currentId
  /\ \A o \in F : (o.id = k => Newer(c, o.nr)) /\ (o.kind = "clean" => o.id < k)

(* The orders F are out and the ids I awaited, after g orders of which f    *)
(* were given before the last collision.                                   *)
Fresh(c, F, I, f, g) ==
  /\ OldMessages(c, g) /\ Stale(c, f)
  /\ \A o \in F : o.nr <= g /\ o.id < c.currentId
  /\ (\E j \in 1 .. Len(c.fifo) : c.fifo[j].nr = 0) => Past(F, f)
  /\ c.order_in_progress => Past(F, f) \/ \E k \in I : Current(c, F, k)

\* The same in a handler that began with the id k.
FreshFrom(c, F, I, k, f, g) ==
  Fresh(c, F \cup ToSet(c.written), I \cup (k .. c.currentId - 1), f, g)

LEMMA NextOrderFresh ==
  ASSUME NEW g \in 0 .. MaxOrders, NEW f \in Nat, NEW n \in Nat, NEW k \in Nat,
         NEW F \in SUBSET WOrder, NEW I,
         NEW c, ClientOK(c, g, n), k <= c.currentId, FreshFrom(c, F, I, k, f, g)
  PROVE  FreshFrom(nextOrder(c), F, I, k, f, g)
<1> DEFINE q == c.fifo
           d == nextOrder(c)
           r == d.fifo
           l == Len(c.messages)
           G == F \cup ToSet(c.written)
           J == I \cup (k .. c.currentId - 1)
<1>1. CASE c.order_in_progress
  <2>1. nextOrder(c) = c
    BY <1>1 DEF nextOrder
  <2> QED
    BY <2>1
<1>2. CASE ~c.order_in_progress
  <2>1. /\ c \in Client /\ q \in Seq(Order) /\ Len(q) \in Nat /\ l \in Nat
        /\ c.messages \in Seq(1 .. MaxOrders) /\ c.written \in Seq(WOrder)
        /\ c.currentId \in Nat
    BY LenProperties DEF ClientOK, Client
  <2>2. \A i \in 1 .. Len(q) : q[i].nr \in Nat /\ q[i] \in Order
    <3>1. \A x \in Order : x.nr \in Nat
      BY ClientAssumption DEF Order
    <3> QED
      BY <2>1, <3>1, ElementOfSeq
  <2>3. /\ Listed(q, g) /\ Listed(q, MaxOrders) /\ g \in Nat
    <3>1. g \in Nat /\ MaxOrders \in Nat /\ g <= MaxOrders
      BY ClientAssumption
    <3>2. Listed(q, g)
      BY DEF ClientOK
    <3>3. \A i \in 1 .. Len(q) : q[i].nr <= MaxOrders
      BY <2>2, <3>1, <3>2 DEF Listed
    <3> QED
      BY <3>1, <3>2, <3>3 DEF Listed
  <2>4. d \in Client /\ NextOrderIs(c, d)
    BY <1>2, <2>1, <2>3, NextOrderShape
  <2>5. /\ OldMessages(c, g) /\ Stale(c, f)
        /\ \A o \in G : o.nr <= g /\ o.id < c.currentId
        /\ (\E j \in 1 .. Len(q) : q[j].nr = 0) => Past(G, f)
    BY DEF FreshFrom, Fresh
  <2>6. \A o \in G : o.id \in Nat /\ o.nr \in Nat
    <3>1. ToSet(c.written) \in SUBSET WOrder
      BY <2>1, ElementsOf
    <3> QED
      BY <3>1, ClientAssumption DEF WOrder
  <2> HIDE DEF d, G, J
  <2>7. PICK m \in 0 .. Len(q) :
          /\ Sent(c, d, m)
          /\ IF m = Len(q) THEN Emptied(c, d) ELSE Called(c, d, m)
    BY <2>4 DEF NextOrderIs
  <2>8. m \in Nat /\ m <= Len(q)
    BY <2>1
  <2>9. /\ d.messages \in Seq(1 .. MaxOrders) /\ Len(d.messages) = l + m
        /\ \A i \in 1 .. l : d.messages[i] = c.messages[i]
        /\ \A i \in 1 .. m : d.messages[l + i] = q[i].nr
    BY <2>7 DEF Sent
  <2>10. ASSUME NEW i \in 1 .. Len(d.messages)
         PROVE  \/ i \in 1 .. l /\ d.messages[i] = c.messages[i]
                \/ \E j \in 1 .. Len(q) : j <= m /\ d.messages[i] = q[j].nr
                                          /\ q[j].nr # 0
    <3>1. CASE i <= l
      BY <2>1, <2>8, <2>9, <3>1
    <3>2. CASE ~(i <= l)
      <4>1. i - l \in 1 .. m /\ l + (i - l) = i /\ i - l \in 1 .. Len(q)
            /\ i - l <= m
        BY <2>1, <2>8, <2>9, <3>2
      <4>2. d.messages[i] \in 1 .. MaxOrders
        BY <2>9, ElementOfSeq
      <4>3. d.messages[i] # 0
        BY <4>2, ClientAssumption
      <4> QED
        BY <2>9, <4>1, <4>3
    <3> QED
      BY <3>1, <3>2
  <2>11. \A i \in 1 .. Len(d.messages) : d.messages[i] <= g
    BY <2>2, <2>3, <2>5, <2>10 DEF Listed, OldMessages
  <2>12. ASSUME NEW i \in 1 .. Len(d.messages), NEW j \in 1 .. Len(q), m < j,
                q[j].nr # 0
         PROVE  d.messages[i] < q[j].nr
    <3>1. CASE i \in 1 .. l /\ d.messages[i] = c.messages[i]
      BY <2>5, <2>12, <3>1 DEF OldMessages
    <3>2. CASE \E x \in 1 .. Len(q) : x <= m /\ d.messages[i] = q[x].nr
                                      /\ q[x].nr # 0
      <4>1. PICK x \in 1 .. Len(q) : x <= m /\ d.messages[i] = q[x].nr
                                     /\ q[x].nr # 0
        BY <3>2
      <4>2. x < j
        BY <2>8, <2>12, <4>1
      <4> QED
        BY <2>3, <2>12, <4>1, <4>2 DEF Listed
    <3> QED
      BY <2>10, <3>1, <3>2
  <2>13. CASE m = Len(q)
    <3>1. /\ Len(r) = 0 /\ d.order_in_progress = FALSE
          /\ d.currentId = c.currentId /\ d.written = c.written
      BY <2>7, <2>13 DEF Emptied
    <3>2. OldMessages(d, g) /\ Stale(d, f)
      BY <2>11, <3>1 DEF OldMessages, Stale
    <3>3. Fresh(d, G, J, f, g)
      BY <2>5, <3>1, <3>2 DEF Fresh
    <3> QED
      BY <3>1, <3>3 DEF FreshFrom, d, G, J
  <2>14. CASE m # Len(q)
    <3> DEFINE o == q[m + 1]
    <3>1. Called(c, d, m)
      BY <2>7, <2>14
    <3>2. /\ d.order_in_progress = TRUE /\ Len(r) = Len(q) - m - 1
          /\ \A i \in 1 .. Len(r) : r[i] = q[m + 1 + i]
      BY <3>1 DEF Called
    <3>3. m + 1 \in 1 .. Len(q) /\ m < m + 1
      BY <2>1, <2>8, <2>14
    <3>4. \A i \in 1 .. Len(r) :
            m + 1 + i \in 1 .. Len(q) /\ m < m + 1 + i /\ m + 1 < m + 1 + i
      BY <2>1, <2>8, <3>2
    <3>5. OldMessages(d, g)
      BY <2>11, <2>12, <3>2, <3>4 DEF OldMessages
    <3>6. Stale(d, f)
      <4>1. \A i, j \in 1 .. Len(r) : i < j => m + 1 + i < m + 1 + j
        BY <2>8, <3>2
      <4>2. ASSUME NEW i \in 1 .. Len(r), NEW j \in 1 .. Len(r), i < j, r[j].nr = 0
            PROVE  r[i].nr <= f
        BY <2>5, <3>2, <3>4, <4>1, <4>2 DEF Stale
      <4> QED
        BY <4>2 DEF Stale
    <3>7. CASE o.kind = "nothing"
      <4>1. /\ d.currentId = c.currentId /\ d.written = c.written
        BY <3>1, <3>7 DEF Called
      <4>2. o.nr = 0
        BY <2>3, <3>3, <3>7 DEF Listed
      <4>3. Past(G, f)
        BY <2>5, <3>3, <4>2
      <4>4. Fresh(d, G, J, f, g)
        BY <2>5, <3>5, <3>6, <4>1, <4>3 DEF Fresh
      <4> QED
        BY <4>1, <4>4 DEF FreshFrom, d, G, J
    <3>8. CASE o.kind # "nothing"
      <4> DEFINE w == [nr |-> o.nr, kind |-> o.kind, id |-> c.currentId]
                 G2 == G \cup {w}
                 J2 == J \cup {c.currentId}
      <4>1. /\ d.currentId = c.currentId + 1
            /\ d.written = Append(c.written, w)
        BY <3>1, <3>8 DEF Called
      <4>2. o.nr # 0 /\ o.nr <= g /\ o.nr \in Nat
        BY <2>2, <2>3, <3>3, <3>8 DEF Listed
      <4>3. o.kind \in {"move", "setting"} /\ o.nr \in 0 .. MaxOrders
        <5>1. o \in Order /\ o.kind # "message"
          BY <2>2, <3>1, <3>3 DEF Called
        <5> QED
          BY <3>8, <5>1 DEF Order, Kinds
      <4>4. w \in WOrder /\ w.nr = o.nr /\ w.kind = o.kind /\ w.id = c.currentId
        BY <2>1, <4>3 DEF WOrder
      <4> HIDE DEF w, J2, G2
      <4>5. ToSet(d.written) = ToSet(c.written) \cup {w}
        BY <2>1, <4>1, <4>4, Appended
      <4>6. \A x \in G2 : x.nr <= g /\ x.id < d.currentId
        <5>1. c.currentId \in Nat /\ d.currentId = c.currentId + 1
          BY <2>1, <4>1
        <5>2. w.nr <= g /\ w.id < d.currentId
          BY <4>2, <4>4, <5>1
        <5>3. ASSUME NEW x \in G
              PROVE  x.nr <= g /\ x.id < d.currentId
          <6>1. x.nr <= g /\ x.id < c.currentId /\ x.id \in Nat
            BY <2>5, <2>6
          <6> QED
            BY <5>1, <6>1
        <5> QED
          BY <5>2, <5>3, Zenon DEF G2
      <4>7. ASSUME \E j \in 1 .. Len(r) : r[j].nr = 0
            PROVE  Past(G2, f)
        <5>1. PICK j \in 1 .. Len(r) : r[j].nr = 0
          BY <4>7
        <5>2. q[m + 1 + j].nr = 0 /\ m + 1 + j \in 1 .. Len(q) /\ m + 1 < m + 1 + j
          BY <3>2, <3>4, <5>1
        <5>3. Past(G, f)
          BY <2>5, <5>2
        <5>4. o.nr <= f
          BY <2>5, <3>3, <5>2 DEF Stale
        <5> QED
          BY <4>4, <5>3, <5>4 DEF Past, G2
      <4>8. Current(d, G2, c.currentId)
        <5>1. Newer(d, o.nr)
          BY <2>12, <3>3, <4>2 DEF Newer
        <5>2. \A x \in G : x.id < c.currentId /\ x.id # c.currentId
          BY <2>1, <2>5, <2>6
        <5>3. c.currentId < d.currentId
          BY <2>1, <4>1
        <5>4. ASSUME NEW x \in G2
              PROVE  /\ x.id = c.currentId => Newer(d, x.nr)
                     /\ x.kind = "clean" => x.id < c.currentId
          <6>1. CASE x \in G
            BY <5>2, <6>1
          <6>2. CASE x = w
            BY <4>3, <4>4, <5>1, <6>2
          <6> QED
            BY <5>4, <6>1, <6>2 DEF G2
        <5> QED
          BY <5>3, <5>4 DEF Current
      <4>9. Fresh(d, G2, J2, f, g)
        BY <3>5, <3>6, <4>6, <4>7, <4>8 DEF Fresh, J2
      <4>10. G2 = F \cup ToSet(d.written)
        BY <4>5 DEF G, G2
      <4>11. J2 = I \cup (k .. d.currentId - 1)
        <5>1. (k .. c.currentId - 1) \cup {c.currentId} = k .. d.currentId - 1
          BY <2>1, <4>1
        <5> QED
          BY <5>1 DEF J, J2
      <4> QED
        BY <4>9, <4>10, <4>11 DEF FreshFrom, d
    <3> QED
      BY <3>7, <3>8
  <2> QED
    BY <2>13, <2>14
<1> QED
  BY <1>1, <1>2

\* What bypasses the fifo: a move is no order of the IA, a cleaning makes all
\* that is out past.
LEMMA SendOrderFresh ==
  ASSUME NEW g \in 0 .. MaxOrders, NEW f \in Nat, NEW k \in Nat,
         NEW F \in SUBSET WOrder, NEW I \in SUBSET (1 .. k - 1),
         NEW c \in Client, k <= c.currentId, FreshFrom(c, F, I, k, f, g),
         NEW kind \in {"move", "setting", "clean"}, kind = "clean" => f = g
  PROVE  FreshFrom(sendOrder(c, 0, kind), F, I, k, f, g)
<1> DEFINE d == sendOrder(c, 0, kind)
           w == [nr |-> 0, kind |-> kind, id |-> c.currentId]
           G == F \cup ToSet(c.written)
           J == I \cup (k .. c.currentId - 1)
           G2 == G \cup {w}
           J2 == J \cup {c.currentId}
<1>1. /\ c.currentId \in Nat /\ 0 \in 0 .. MaxOrders /\ g \in Nat
      /\ c.written \in Seq(WOrder)
  BY ClientAssumption DEF Client
<1>2. OrderSent(c, d, 0, kind)
  BY <1>1, SendOrderClient
<1>3. /\ OldMessages(c, g) /\ Stale(c, f)
      /\ \A o \in G : o.nr <= g /\ o.id < c.currentId
      /\ (\E j \in 1 .. Len(c.fifo) : c.fifo[j].nr = 0) => Past(G, f)
      /\ c.order_in_progress => Past(G, f) \/ \E x \in J : Current(c, G, x)
  BY DEF FreshFrom, Fresh
<1>4. \A o \in G : o.id \in Nat /\ o.nr \in Nat
  <2>1. ToSet(c.written) \in SUBSET WOrder
    BY <1>1, ElementsOf
  <2> QED
    BY <2>1, ClientAssumption DEF WOrder
<1> HIDE DEF d
<1>5. /\ w \in WOrder /\ d.fifo = c.fifo /\ d.messages = c.messages
      /\ d.order_in_progress = c.order_in_progress
      /\ d.currentId = c.currentId + 1
      /\ d.written = Append(c.written, w)
      /\ w.nr = 0 /\ w.kind = kind /\ w.id = c.currentId
  BY <1>2 DEF OrderSent
<1> HIDE DEF w, G2, J2, G, J
<1>6. ToSet(d.written) = ToSet(c.written) \cup {w}
  BY <1>1, <1>5, Appended
<1>7. \A x \in G2 : x.nr <= g /\ x.id < d.currentId
  BY <1>1, <1>3, <1>4, <1>5 DEF G2
<1>8. OldMessages(d, g) /\ Stale(d, f)
  BY <1>3, <1>5 DEF OldMessages, Stale
<1>9. Past(G, f) => Past(G2, f)
  BY <1>5 DEF Past, G2
<1>10. kind = "clean" => Past(G2, f)
  BY <1>7 DEF Past
<1>11. ASSUME kind # "clean", NEW x \in J, Current(c, G, x)
       PROVE  Current(d, G2, x)
  <2>1. x \in Nat /\ x < c.currentId
    BY <1>1, <1>11 DEF Current, J
  <2>2. x < d.currentId /\ w.id # x
    BY <1>1, <1>5, <2>1
  <2>3. \A y : Newer(c, y) => Newer(d, y)
    BY <1>5 DEF Newer
  <2> QED
    BY <1>5, <1>11, <2>2, <2>3 DEF Current, G2
<1>12. c.order_in_progress => Past(G2, f) \/ \E x \in J : Current(d, G2, x)
  BY <1>3, <1>9, <1>10, <1>11
<1>13. Fresh(d, G2, J2, f, g)
  BY <1>3, <1>5, <1>7, <1>8, <1>9, <1>12 DEF Fresh, J2
<1>14. G2 = F \cup ToSet(d.written)
  BY <1>6 DEF G, G2
<1>15. J2 = I \cup (k .. d.currentId - 1)
  <2>1. (k .. c.currentId - 1) \cup {c.currentId} = k .. d.currentId - 1
    BY <1>1, <1>5
  <2> QED
    BY <2>1 DEF J, J2
<1> QED
  BY <1>13, <1>14, <1>15 DEF FreshFrom, d

\* An order the IA has just given, or the empty callback of a collision.
LEMMA QueuedFresh ==
  ASSUME NEW g \in 0 .. MaxOrders, NEW h \in 0 .. MaxOrders, g <= h,
         NEW f \in Nat, NEW n \in Nat, NEW k \in Nat,
         NEW F \in SUBSET WOrder, NEW I,
         NEW c, ClientOK(c, g, n), FreshFrom(c, F, I, k, f, g),
         NEW o \in Order, o.nr # 0 => g < o.nr, o.nr = 0 => f = h
  PROVE  FreshFrom(Queued(c, o), F, I, k, f, h)
<1> DEFINE q == c.fifo
           qs == Append(q, o)
           d == [c EXCEPT !.fifo = qs]
           l == Len(q)
           G == F \cup ToSet(c.written)
           J == I \cup (k .. c.currentId - 1)
<1>1. /\ c \in Client /\ q \in Seq(Order) /\ l \in Nat /\ Listed(q, g)
      /\ c.messages \in Seq(1 .. MaxOrders) /\ c.written \in Seq(WOrder)
      /\ g \in Nat /\ h \in Nat
  BY LenProperties, ClientAssumption DEF ClientOK, Client
<1>2. /\ \A i \in 1 .. l : q[i].nr \in Nat /\ q[i].nr <= g
      /\ \A i \in 1 .. Len(c.messages) : c.messages[i] \in Nat
      /\ o.nr \in Nat
  <2>1. \A x \in Order : x.nr \in Nat
    BY ClientAssumption DEF Order
  <2>2. \A i \in 1 .. Len(c.messages) : c.messages[i] \in Nat
    BY <1>1, ElementOfSeq, ClientAssumption
  <2> QED
    BY <1>1, <2>1, <2>2, ElementOfSeq DEF Listed
<1>3. \A x \in G : x.nr \in Nat
  <2>1. ToSet(c.written) \in SUBSET WOrder
    BY <1>1, ElementsOf
  <2> QED
    BY <2>1, ClientAssumption DEF WOrder
<1>4. /\ OldMessages(c, g) /\ Stale(c, f)
      /\ \A x \in G : x.nr <= g /\ x.id < c.currentId
      /\ (\E j \in 1 .. l : q[j].nr = 0) => Past(G, f)
      /\ c.order_in_progress => Past(G, f) \/ \E x \in J : Current(c, G, x)
  BY DEF FreshFrom, Fresh
<1>5. /\ Len(qs) = l + 1 /\ qs[l + 1] = o
      /\ \A i \in 1 .. l : qs[i] = q[i]
  BY <1>1, AppendProperties
<1> HIDE DEF qs
<1>6. /\ d.fifo = qs /\ d.messages = c.messages /\ d.currentId = c.currentId
      /\ d.written = c.written /\ d.order_in_progress = c.order_in_progress
  BY <1>1 DEF Client
<1> HIDE DEF d, q, l, G, J
<1>7. \A i \in 1 .. l + 1 : i \in 1 .. l \/ i = l + 1
  BY <1>1
<1>8. \A x \in G : x.nr <= h /\ x.id < c.currentId
  BY <1>1, <1>3, <1>4
<1>9. o.nr = 0 => Past(G, f)
  BY <1>8 DEF Past
<1>10. OldMessages(d, h)
  <2>1. \A i \in 1 .. Len(c.messages) :
          /\ c.messages[i] <= h
          /\ o.nr # 0 => c.messages[i] < o.nr
          /\ \A j \in 1 .. l : q[j].nr # 0 => c.messages[i] < q[j].nr
    <3>1. \A i \in 1 .. Len(c.messages) :
            /\ c.messages[i] <= g
            /\ \A j \in 1 .. l : q[j].nr # 0 => c.messages[i] < q[j].nr
      BY <1>4 DEF OldMessages, q, l
    <3> QED
      BY <1>1, <1>2, <3>1
  <2>2. \A i \in 1 .. Len(c.messages) : \A j \in 1 .. l + 1 :
          qs[j].nr # 0 => c.messages[i] < qs[j].nr
    BY <1>5, <1>7, <2>1
  <2> QED
    BY <1>5, <1>6, <2>1, <2>2 DEF OldMessages
<1>11. Stale(d, f)
  <2>1. ASSUME NEW i \in 1 .. l + 1, NEW j \in 1 .. l + 1, i < j, qs[j].nr = 0
        PROVE  qs[i].nr <= f
    <3>1. i \in 1 .. l
      BY <1>1, <2>1
    <3>2. qs[i] = q[i] /\ q[i].nr \in Nat /\ q[i].nr <= g
      BY <1>2, <1>5, <3>1
    <3>3. CASE j = l + 1
      <4>1. f = h
        BY <1>5, <2>1, <3>3
      <4> QED
        BY <1>1, <3>2, <4>1
    <3>4. CASE j \in 1 .. l
      BY <1>4, <1>5, <2>1, <3>1, <3>2, <3>4 DEF Stale, q, l
    <3> QED
      BY <1>7, <3>3, <3>4
  <2> QED
    BY <1>5, <1>6, <2>1 DEF Stale
<1>12. (\E j \in 1 .. l + 1 : qs[j].nr = 0) => Past(G, f)
  BY <1>4, <1>5, <1>7, <1>9
<1>13. \A x : Current(c, G, x) => Current(d, G, x)
  BY <1>6 DEF Current, Newer
<1>14. Fresh(d, G, J, f, h)
  BY <1>4, <1>5, <1>6, <1>8, <1>10, <1>11, <1>12, <1>13 DEF Fresh
<1> QED
  BY <1>6, <1>14 DEF FreshFrom, d, qs, q, Queued, G, J

\* The order in progress is over, so that the ids awaited do not matter.
LEMMA FinishedFresh ==
  ASSUME NEW g \in 0 .. MaxOrders, NEW f \in Nat, NEW n \in Nat, NEW k \in Nat,
         NEW F \in SUBSET WOrder, NEW I, NEW H,
         NEW c, ClientOK(c, g, n), k <= c.currentId, FreshFrom(c, F, I, k, f, g)
  PROVE  FreshFrom(orderFinished(c), F, H, k, f, g)
<1> DEFINE d == [c EXCEPT !.order_in_progress = FALSE]
<1>1. c \in Client
  BY DEF ClientOK
<1>2. /\ d \in Client /\ d.fifo = c.fifo /\ d.currentId = c.currentId
      /\ d.written = c.written /\ d.ordersCallback = c.ordersCallback
      /\ d.messages = c.messages /\ d.order_in_progress = FALSE
  BY <1>1 DEF Client
<1> HIDE DEF d
<1>3. ClientOK(d, g, n)
  BY <1>2 DEF ClientOK
<1>4. FreshFrom(d, F, H, k, f, g)
  BY <1>2 DEF FreshFrom, Fresh, OldMessages, Stale
<1>5. orderFinished(c) = nextOrder(d)
  BY DEF orderFinished, d
<1> QED
  BY <1>2, <1>3, <1>4, <1>5, NextOrderFresh
-----------------------------------------------------------------------------
(* The ids on their way: of the orders L on the line, of the goals B of    *)
(* the board, and the acknowledged ones A.  Each was used, and once.       *)
Apart(L, B, A, k) ==
  /\ L \cap B = {}
  /\ \A x, y \in L \cup B : x.id = y.id => x = y
  /\ \A x \in L \cup B : x.id \in 1 .. k - 1 /\ x.id \notin A
  /\ A \subseteq 1 .. k - 1

Flight(k, l, b, a) ==
  /\ l \in Seq(WOrder) /\ b \in Seq(WOrder) /\ a \in Seq(Nat)
  /\ Once(l) /\ Once(b) /\ Once(a)
  /\ Apart(ToSet(l), ToSet(b), ToSet(a), k)

Awaited(l, b, a) == {o.id : o \in ToSet(l) \cup ToSet(b)} \cup ToSet(a)

\* The board takes the head of the line: a goal, a setting, or a cleaning.
LineTakes(k, l, b, a) ==
  LET h == Head(l) IN
  /\ Flight(k, Tail(l), Append(b, h), a)
  /\ Awaited(Tail(l), Append(b, h), a) = Awaited(l, b, a)
  /\ Flight(k, Tail(l), b, Append(a, h.id))
  /\ Awaited(Tail(l), b, Append(a, h.id)) = Awaited(l, b, a)
  /\ Flight(k, Tail(l), <<>>, Append(a, h.id))
  /\ Awaited(Tail(l), <<>>, Append(a, h.id)) \subseteq Awaited(l, b, a)

LEMMA LineTaken ==
  ASSUME NEW k \in Nat, NEW l, NEW b, NEW a, Flight(k, l, b, a), l # <<>>
  PROVE  LineTakes(k, l, b, a)
<1> DEFINE h == Head(l)
           L == ToSet(l)
           T == ToSet(Tail(l))
           B == ToSet(b)
           A == ToSet(a)
<1>1. /\ l \in Seq(WOrder) /\ b \in Seq(WOrder) /\ a \in Seq(Nat)
      /\ Once(l) /\ Once(b) /\ Once(a) /\ Apart(L, B, A, k)
  BY DEF Flight
<1>2. h \in WOrder /\ Tail(l) \in Seq(WOrder) /\ L = {h} \cup T
      /\ Once(Tail(l)) /\ h \notin T
  BY <1>1, Shortened
<1>3. h.id \in Nat
  BY <1>2 DEF WOrder
<1>4. h \notin B /\ h.id \notin A /\ h.id \in 1 .. k - 1
  BY <1>1, <1>2 DEF Apart
<1>5. /\ Append(b, h) \in Seq(WOrder) /\ ToSet(Append(b, h)) = B \cup {h}
      /\ Once(Append(b, h))
  BY <1>1, <1>2, <1>4, Appended
<1>6. /\ Append(a, h.id) \in Seq(Nat) /\ ToSet(Append(a, h.id)) = A \cup {h.id}
      /\ Once(Append(a, h.id))
  BY <1>1, <1>3, <1>4, Appended
<1>7. <<>> \in Seq(WOrder) /\ ToSet(<<>>) = {} /\ Once(<<>>)
  BY EmptyOnce
<1> HIDE DEF h, L, T, B, A
<1>8. Apart(T, B \cup {h}, A, k)
  BY <1>1, <1>2, <1>4 DEF Apart
<1>9. Apart(T, B, A \cup {h.id}, k) /\ Apart(T, {}, A \cup {h.id}, k)
  BY <1>1, <1>2, <1>4 DEF Apart
<1>10. Flight(k, Tail(l), Append(b, h), a)
  BY <1>1, <1>2, <1>5, <1>8 DEF Flight, T, A
<1>11. Flight(k, Tail(l), b, Append(a, h.id))
  BY <1>1, <1>2, <1>6, <1>9 DEF Flight, T, B
<1>12. Flight(k, Tail(l), <<>>, Append(a, h.id))
  BY <1>2, <1>6, <1>7, <1>9 DEF Flight, T
<1>13. Awaited(l, b, a) = {o.id : o \in L \cup B} \cup A
  BY DEF Awaited, L, B, A
<1>14. Awaited(Tail(l), Append(b, h), a) = {o.id : o \in T \cup (B \cup {h})} \cup A
  BY <1>5 DEF Awaited, T, A
<1>15. Awaited(Tail(l), b, Append(a, h.id))
         = {o.id : o \in T \cup B} \cup (A \cup {h.id})
  BY <1>6 DEF Awaited, T, B
<1>16. Awaited(Tail(l), <<>>, Append(a, h.id))
         = {o.id : o \in T} \cup (A \cup {h.id})
  BY <1>6, <1>7 DEF Awaited, T
<1>17. L \cup B = T \cup (B \cup {h})
  BY <1>2
<1>18. {o.id : o \in L \cup B} = {o.id : o \in T \cup B} \cup {h.id}
  BY <1>17
<1> QED
  BY <1>10, <1>11, <1>12, <1>13, <1>14, <1>15, <1>16, <1>17, <1>18
  DEF h, LineTakes

LEMMA GoalTaken ==
  ASSUME NEW k \in Nat, NEW l, NEW b, NEW a, Flight(k, l, b, a), b # <<>>
  PROVE  /\ Flight(k, l, Tail(b), Append(a, Head(b).id))
         /\ Awaited(l, Tail(b), Append(a, Head(b).id)) = Awaited(l, b, a)
<1> DEFINE h == Head(b)
           L == ToSet(l)
           T == ToSet(Tail(b))
           B == ToSet(b)
           A == ToSet(a)
<1>1. /\ l \in Seq(WOrder) /\ b \in Seq(WOrder) /\ a \in Seq(Nat)
      /\ Once(l) /\ Once(b) /\ Once(a) /\ Apart(L, B, A, k)
  BY DEF Flight
<1>2. h \in WOrder /\ Tail(b) \in Seq(WOrder) /\ B = {h} \cup T
      /\ Once(Tail(b)) /\ h \notin T
  BY <1>1, Shortened
<1>3. h.id \in Nat
  BY <1>2 DEF WOrder
<1>4. h \notin L /\ h.id \notin A /\ h.id \in 1 .. k - 1
  BY <1>1, <1>2 DEF Apart
<1>5. /\ Append(a, h.id) \in Seq(Nat) /\ ToSet(Append(a, h.id)) = A \cup {h.id}
      /\ Once(Append(a, h.id))
  BY <1>1, <1>3, <1>4, Appended
<1> HIDE DEF h, L, T, B, A
<1>6. Apart(L, T, A \cup {h.id}, k)
  BY <1>1, <1>2, <1>4 DEF Apart
<1>7. Flight(k, l, Tail(b), Append(a, h.id))
  BY <1>1, <1>2, <1>5, <1>6 DEF Flight, T, L
<1>8. Awaited(l, b, a) = {o.id : o \in L \cup B} \cup A
  BY DEF Awaited, L, B, A
<1>9. Awaited(l, Tail(b), Append(a, h.id))
         = {o.id : o \in L \cup T} \cup (A \cup {h.id})
  BY <1>5 DEF Awaited, T, L
<1>10. {o.id : o \in L \cup B} = {o.id : o \in L \cup T} \cup {h.id}
  BY <1>2
<1> QED
  BY <1>7, <1>8, <1>9, <1>10 DEF h

LEMMA AckTaken ==
  ASSUME NEW k \in Nat, NEW l, NEW b, NEW a, Flight(k, l, b, a), a # <<>>
  PROVE  /\ Flight(k, l, b, Tail(a)) /\ Head(a) \in 1 .. k - 1
         /\ Awaited(l, b, Tail(a)) = Awaited(l, b, a) \ {Head(a)}
         /\ Head(a) \in Awaited(l, b, a)
<1> DEFINE h == Head(a)
           L == ToSet(l)
           B == ToSet(b)
           A == ToSet(a)
           T == ToSet(Tail(a))
<1>1. /\ l \in Seq(WOrder) /\ b \in Seq(WOrder) /\ a \in Seq(Nat)
      /\ Once(l) /\ Once(b) /\ Once(a) /\ Apart(L, B, A, k)
  BY DEF Flight
<1>2. h \in Nat /\ Tail(a) \in Seq(Nat) /\ A = {h} \cup T
      /\ Once(Tail(a)) /\ h \notin T
  BY <1>1, Shortened
<1> HIDE DEF h, L, B, A, T
<1>3. Apart(L, B, T, k) /\ h \in 1 .. k - 1 /\ \A x \in L \cup B : x.id # h
  BY <1>1, <1>2 DEF Apart
<1>4. Flight(k, l, b, Tail(a))
  BY <1>1, <1>2, <1>3 DEF Flight, L, B, T
<1>5. /\ Awaited(l, b, a) = {o.id : o \in L \cup B} \cup A
      /\ Awaited(l, b, Tail(a)) = {o.id : o \in L \cup B} \cup T
  BY DEF Awaited, L, B, A, T
<1> QED
  BY <1>2, <1>3, <1>4, <1>5 DEF h

\* What becomes of the ids when a handler that began with the id k and the
\* callbacks cb has put on the line l what it wrote.
Delivered(k, cb, y, l, b, a, c) ==
  LET m == l \o c.written IN
  /\ Flight(c.currentId, m, b, a) /\ Len(m) = Len(l) + Len(c.written)
  /\ ToSet(m) = ToSet(l) \cup ToSet(c.written)
  /\ Awaited(m, b, a) = Awaited(l, b, a) \cup (k .. c.currentId - 1)
  /\ c.ordersCallback = cb \cup (k .. c.currentId - 1)
  /\ k <= c.currentId
  /\ \A o \in ToSet(c.written) : o.kind = "clean" => y # 0

LEMMA LineSent ==
  ASSUME NEW k \in Nat \ {0}, NEW cb \in SUBSET (1 .. k - 1), NEW y \in Nat,
         NEW l, NEW b, NEW a, Flight(k, l, b, a),
         NEW c \in Client, Sends(k, cb, y, c)
  PROVE  Delivered(k, cb, y, l, b, a, c)
<1> DEFINE w == c.written
           j == c.currentId
           m == l \o w
           L == ToSet(l)
           W == ToSet(w)
           B == ToSet(b)
           A == ToSet(a)
<1>1. /\ l \in Seq(WOrder) /\ b \in Seq(WOrder) /\ a \in Seq(Nat)
      /\ Once(l) /\ Once(b) /\ Once(a) /\ Apart(L, B, A, k)
  BY DEF Flight
<1>2. w \in Seq(WOrder) /\ j \in Nat
  BY DEF Client
<1>3. /\ k <= j /\ Len(w) = j - k
      /\ \A i \in 1 .. Len(w) :
           w[i].id = k + i - 1 /\ (w[i].kind = "clean" => y # 0)
      /\ c.ordersCallback = cb \cup (k .. j - 1)
  BY DEF Sends
<1>4. Len(w) \in Nat /\ W = {w[i] : i \in 1 .. Len(w)}
  BY <1>2, ElementsOf
<1>5. /\ m \in Seq(WOrder) /\ Len(m) = Len(l) + Len(w) /\ ToSet(m) = L \cup W
      /\ Once(l) /\ Once(w) /\ L \cap W = {} => Once(m)
  BY <1>1, <1>2, Joined
<1> HIDE DEF w, j, m, L, W, B, A
<1>6. \A o \in W : o.id \in k .. j - 1 /\ (o.kind = "clean" => y # 0)
  <2>1. ASSUME NEW i \in 1 .. Len(w)
        PROVE  w[i].id \in k .. j - 1 /\ (w[i].kind = "clean" => y # 0)
    BY <1>2, <1>3
  <2> QED
    BY <1>4, <2>1
<1>7. \A o, p \in W : o.id = p.id => o = p
  <2>1. ASSUME NEW i \in 1 .. Len(w), NEW x \in 1 .. Len(w), w[i].id = w[x].id
        PROVE  i = x
    BY <1>3, <2>1
  <2> QED
    BY <1>4, <2>1
<1>8. Once(w)
  <2>1. ASSUME NEW i \in 1 .. Len(w), NEW x \in 1 .. Len(w), i # x
        PROVE  w[i] # w[x]
    <3>1. w[i].id # w[x].id
      BY <1>3, <2>1
    <3> QED
      BY <3>1
  <2> QED
    BY <2>1 DEF Once
<1>9. {o.id : o \in W} = k .. j - 1
  <2>1. ASSUME NEW x \in k .. j - 1
        PROVE  \E o \in W : o.id = x
    <3>1. x - k + 1 \in 1 .. Len(w) /\ k + (x - k + 1) - 1 = x
      BY <1>2, <1>3
    <3> QED
      BY <1>3, <1>4, <3>1
  <2> QED
    BY <1>6, <2>1
<1>10. \A o \in L \cup B : o.id \in 1 .. k - 1
  BY <1>1 DEF Apart
<1>11. \A x \in 1 .. k - 1 : x \in 1 .. j - 1 /\ x \notin k .. j - 1
  BY <1>2, <1>3
<1>12. \A x \in k .. j - 1 : x \in 1 .. j - 1
  OBVIOUS
<1>13. L \cap W = {} /\ B \cap W = {}
  BY <1>6, <1>10, <1>11
<1>14. Apart(L \cup W, B, A, j)
  <2>1. (L \cup W) \cap B = {} /\ A \subseteq 1 .. j - 1
    BY <1>1, <1>11, <1>13 DEF Apart
  <2>2. \A x \in (L \cup W) \cup B : x.id \in 1 .. j - 1 /\ x.id \notin A
    BY <1>1, <1>6, <1>11, <1>12 DEF Apart
  <2>3. \A x, z \in (L \cup W) \cup B : x.id = z.id => x = z
    BY <1>1, <1>6, <1>7, <1>10, <1>11 DEF Apart
  <2> QED
    BY <2>1, <2>2, <2>3 DEF Apart
<1>15. Flight(j, m, b, a)
  BY <1>1, <1>5, <1>8, <1>13, <1>14 DEF Flight, B, A
<1>16. /\ Awaited(l, b, a) = {o.id : o \in L \cup B} \cup A
       /\ Awaited(m, b, a) = {o.id : o \in (L \cup W) \cup B} \cup A
  BY <1>5 DEF Awaited, L, B, A
<1>17. {o.id : o \in (L \cup W) \cup B}
         = {o.id : o \in L \cup B} \cup {o.id : o \in W}
  OBVIOUS
<1> QED
  BY <1>3, <1>5, <1>6, <1>9, <1>15, <1>16, <1>17 DEF Delivered, w, j, m, L, W
-----------------------------------------------------------------------------
(* The line keeps the ids in the order they were used, and the goals of    *)
(* the board are older: a cleaning never drops what was ordered after it.  *)
Ordered(l, b) ==
  /\ \A i, j \in 1 .. Len(l) : i < j => l[i].id < l[j].id
  /\ \A i \in 1 .. Len(l) : \A o \in ToSet(b) : o.id < l[i].id

LEMMA LineOrdered ==
  ASSUME NEW k \in Nat, NEW l, NEW b, NEW a, Flight(k, l, b, a), Ordered(l, b),
         NEW cb, NEW y, NEW c \in Client, Sends(k, cb, y, c)
  PROVE  Ordered(l \o c.written, b)
<1> DEFINE w == c.written
           t == l \o w
           n == Len(l)
           m == Len(w)
<1>1. l \in Seq(WOrder) /\ w \in Seq(WOrder) /\ n \in Nat /\ m \in Nat
  BY LenProperties DEF Flight, Client
<1>2. Len(t) = n + m
      /\ \A i \in 1 .. n + m : t[i] = IF i <= n THEN l[i] ELSE w[i - n]
  BY <1>1, ConcatProperties
<1>3. \A i \in 1 .. m : w[i].id = k + i - 1
  BY DEF Sends
<1>4. /\ \A i \in 1 .. n : l[i].id \in 1 .. k - 1
      /\ \A o \in ToSet(b) : o.id \in 1 .. k - 1
  BY <1>1, ElementsOf DEF Flight, Apart
<1>5. /\ \A i, j \in 1 .. n : i < j => l[i].id < l[j].id
      /\ \A i \in 1 .. n : \A o \in ToSet(b) : o.id < l[i].id
  BY DEF Ordered
<1> HIDE DEF t, n, m, w
<1>6. ASSUME NEW i \in 1 .. n + m
      PROVE  \/ i \in 1 .. n /\ t[i] = l[i]
             \/ i - n \in 1 .. m /\ t[i].id = k + (i - n) - 1
  <2>1. CASE i <= n
    BY <1>1, <1>2, <2>1
  <2>2. CASE ~(i <= n)
    <3>1. i - n \in 1 .. m /\ t[i] = w[i - n]
      BY <1>1, <1>2, <2>2
    <3> QED
      BY <1>3, <3>1
  <2> QED
    BY <2>1, <2>2
<1>7. ASSUME NEW i \in 1 .. n + m, NEW j \in 1 .. n + m, i < j
      PROVE  t[i].id < t[j].id
  <2>1. CASE j \in 1 .. n /\ t[j] = l[j]
    <3>1. i \in 1 .. n /\ t[i] = l[i]
      BY <1>1, <1>2, <1>7, <2>1
    <3> QED
      BY <1>5, <1>7, <2>1, <3>1
  <2>2. CASE j - n \in 1 .. m /\ t[j].id = k + (j - n) - 1
    <3>1. k <= t[j].id /\ t[j].id \in Nat
      BY <1>1, <2>2
    <3>2. CASE i \in 1 .. n /\ t[i] = l[i]
      BY <1>4, <3>1, <3>2
    <3>3. CASE i - n \in 1 .. m /\ t[i].id = k + (i - n) - 1
      BY <1>1, <1>7, <2>2, <3>3
    <3> QED
      BY <1>6, <3>2, <3>3
  <2> QED
    BY <1>6, <2>1, <2>2
<1>8. ASSUME NEW i \in 1 .. n + m, NEW o \in ToSet(b)
      PROVE  o.id < t[i].id
  <2>1. CASE i \in 1 .. n /\ t[i] = l[i]
    BY <1>5, <2>1
  <2>2. CASE i - n \in 1 .. m /\ t[i].id = k + (i - n) - 1
    <3>1. k <= t[i].id /\ t[i].id \in Nat
      BY <1>1, <2>2
    <3> QED
      BY <1>4, <3>1
  <2> QED
    BY <1>6, <2>1, <2>2
<1> QED
  BY <1>2, <1>7, <1>8 DEF Ordered, t, w

LEMMA HeadOrdered ==
  ASSUME NEW k \in Nat, NEW l, NEW b, NEW a, Flight(k, l, b, a), Ordered(l, b),
         l # <<>>
  PROVE  /\ Ordered(Tail(l), Append(b, Head(l))) /\ Ordered(Tail(l), b)
         /\ Ordered(Tail(l), <<>>)
         /\ \A o \in ToSet(b) : o.id < Head(l).id
<1> DEFINE h == Head(l)
           t == Tail(l)
           n == Len(t)
<1>1. /\ l \in Seq(WOrder) /\ b \in Seq(WOrder) /\ h \in WOrder
      /\ t \in Seq(WOrder) /\ n = Len(l) - 1
      /\ \A i \in 1 .. n : t[i] = l[i + 1]
      /\ h = l[1] /\ Len(l) \in Nat /\ n \in Nat
  BY LenProperties, HeadTailProperties DEF Flight
<1>2. ToSet(Append(b, h)) = ToSet(b) \cup {h} /\ ToSet(<<>>) = {}
  <2>1. ToSet(<<>>) = {}
    BY EmptyOnce
  <2> QED
    BY <1>1, <2>1, Appended
<1> HIDE DEF h, t, n
<1>3. \A i \in 1 .. n : i + 1 \in 1 .. Len(l) /\ 1 < i + 1
  BY <1>1
<1>4. 1 \in 1 .. Len(l) /\ \A i, j \in 1 .. n : i < j => i + 1 < j + 1
  BY <1>1
<1>5. /\ \A i, j \in 1 .. n : i < j => t[i].id < t[j].id
      /\ \A i \in 1 .. n : h.id < t[i].id /\ \A o \in ToSet(b) : o.id < t[i].id
      /\ \A o \in ToSet(b) : o.id < h.id
  BY <1>1, <1>3, <1>4 DEF Ordered
<1> QED
  BY <1>2, <1>5 DEF Ordered, h, t, n

LEMMA GoalOrdered ==
  ASSUME NEW k \in Nat, NEW l, NEW b, NEW a, Flight(k, l, b, a), Ordered(l, b),
         b # <<>>
  PROVE  Ordered(l, Tail(b))
<1>1. ToSet(b) = {Head(b)} \cup ToSet(Tail(b))
  BY Shortened DEF Flight
<1> QED
  BY <1>1 DEF Ordered
-----------------------------------------------------------------------------
(* The orders a handler writes against those it puts in progress: each     *)
(* call of the fifo sends what it then has in progress, or nothing.        *)
Flag(c) == IF c.order_in_progress THEN 1 ELSE 0

Net(c) == Len(c.written) - Flag(c)

LEMMA NetOf ==
  ASSUME NEW c \in Client
  PROVE  Len(c.written) \in Nat /\ Flag(c) \in 0 .. 1 /\ Net(c) \in Int
<1>1. c.written \in Seq(WOrder) /\ c.order_in_progress \in BOOLEAN
  BY DEF Client
<1>2. Len(c.written) \in Nat /\ Flag(c) \in 0 .. 1
  BY <1>1, LenProperties DEF Flag
<1> QED
  BY <1>2 DEF Net

LEMMA NextOrderNet ==
  ASSUME NEW g \in 0 .. MaxOrders, NEW n \in Nat, NEW c, ClientOK(c, g, n)
  PROVE  Net(nextOrder(c)) <= Net(c)
<1> DEFINE q == c.fifo
           d == nextOrder(c)
<1>1. c \in Client /\ q \in Seq(Order) /\ Len(q) \in Nat /\ Listed(q, g)
      /\ c.written \in Seq(WOrder) /\ c.currentId \in Nat
  BY LenProperties DEF ClientOK, Client
<1>2. Len(c.written) \in Nat /\ Net(c) \in Int
  BY <1>1, NetOf
<1>3. CASE c.order_in_progress
  <2>1. nextOrder(c) = c
    BY <1>3 DEF nextOrder
  <2> QED
    BY <1>2, <2>1
<1>4. CASE ~c.order_in_progress
  <2>1. \A i \in 1 .. Len(q) : q[i].nr \in 0 .. MaxOrders /\ q[i] \in Order
    <3>1. \A x \in Order : x.nr \in 0 .. MaxOrders
      BY DEF Order
    <3> QED
      BY <1>1, <3>1, ElementOfSeq
  <2>2. Listed(q, MaxOrders)
    BY <1>1, <2>1, ClientAssumption DEF Listed
  <2>3. d \in Client /\ NextOrderIs(c, d)
    BY <1>1, <1>4, <2>2, NextOrderShape
  <2> HIDE DEF d
  <2>4. PICK m \in 0 .. Len(q) :
          IF m = Len(q) THEN Emptied(c, d) ELSE Called(c, d, m)
    BY <2>3 DEF NextOrderIs
  <2>5. CASE m = Len(q)
    <3>1. d.order_in_progress = FALSE /\ d.written = c.written
      BY <2>4, <2>5 DEF Emptied
    <3> QED
      BY <1>2, <1>4, <3>1 DEF Net, Flag, d
  <2>6. CASE m # Len(q)
    <3>1. Called(c, d, m) /\ m + 1 \in 1 .. Len(q)
      BY <1>1, <2>4, <2>6
    <3>2. d.order_in_progress = TRUE
      BY <3>1 DEF Called
    <3>3. CASE q[m + 1].kind = "nothing"
      <4>1. d.written = c.written
        BY <3>1, <3>3 DEF Called
      <4> QED
        BY <1>2, <1>4, <3>2, <4>1 DEF Net, Flag, d
    <3>4. CASE q[m + 1].kind # "nothing"
      <4> DEFINE w == [nr |-> q[m + 1].nr, kind |-> q[m + 1].kind,
                       id |-> c.currentId]
      <4>1. d.written = Append(c.written, w)
        BY <3>1, <3>4 DEF Called
      <4>2. w \in WOrder
        <5>1. q[m + 1] \in Order /\ q[m + 1].kind # "message"
          BY <2>1, <3>1 DEF Called
        <5> QED
          BY <1>1, <2>1, <3>1, <3>4, <5>1 DEF WOrder, Order, Kinds
      <4> HIDE DEF w
      <4>3. Len(d.written) = Len(c.written) + 1
        BY <1>1, <4>1, <4>2, Appended
      <4>4. Flag(d) = 1 /\ Flag(c) = 0
        BY <1>4, <3>2 DEF Flag
      <4>5. Net(d) <= Net(c)
        BY <1>2, <4>3, <4>4 DEF Net
      <4> QED
        BY <4>5 DEF d
    <3> QED
      BY <3>3, <3>4
  <2> QED
    BY <2>5, <2>6
<1> QED
  BY <1>3, <1>4

LEMMA SendOrderNet ==
  ASSUME NEW c \in Client, NEW kind \in {"move", "setting", "clean"}
  PROVE  Net(sendOrder(c, 0, kind)) = Net(c) + 1
<1> DEFINE d == sendOrder(c, 0, kind)
           w == [nr |-> 0, kind |-> kind, id |-> c.currentId]
<1>1. 0 \in 0 .. MaxOrders /\ c.written \in Seq(WOrder)
  BY ClientAssumption DEF Client
<1>2. OrderSent(c, d, 0, kind)
  BY <1>1, SendOrderClient
<1> HIDE DEF d
<1>3. /\ w \in WOrder /\ d.order_in_progress = c.order_in_progress
      /\ d.written = Append(c.written, w)
  BY <1>2 DEF OrderSent
<1> HIDE DEF w
<1>4. Len(d.written) = Len(c.written) + 1
  BY <1>1, <1>3, Appended
<1>5. Flag(d) = Flag(c)
  BY <1>3 DEF Flag
<1>6. Len(c.written) \in Nat /\ Flag(c) \in 0 .. 1
  BY NetOf
<1> QED
  BY <1>4, <1>5, <1>6 DEF Net, d

LEMMA QueuedNet ==
  ASSUME NEW c \in Client, NEW o
  PROVE  Net(Queued(c, o)) = Net(c)
<1>1. /\ Queued(c, o).order_in_progress = c.order_in_progress
      /\ Queued(c, o).written = c.written
  BY QueuedSame
<1> QED
  BY <1>1 DEF Net, Flag

LEMMA FinishedNet ==
  ASSUME NEW g \in 0 .. MaxOrders, NEW n \in Nat, NEW c, ClientOK(c, g, n)
  PROVE  Net(orderFinished(c)) <= Net(c) + 1
<1> DEFINE d == [c EXCEPT !.order_in_progress = FALSE]
<1>1. c \in Client
  BY DEF ClientOK
<1>2. /\ d \in Client /\ d.fifo = c.fifo /\ d.currentId = c.currentId
      /\ d.written = c.written /\ d.order_in_progress = FALSE
  BY <1>1 DEF Client
<1>3. nextOrder(d) = orderFinished(c)
  BY DEF orderFinished
<1> HIDE DEF d
<1>4. ClientOK(d, g, n)
  BY <1>2 DEF ClientOK
<1>5. Net(nextOrder(d)) <= Net(d)
  BY <1>4, NextOrderNet
<1>6. nextOrder(d) \in Client
  <2>2. d.fifo \in Seq(Order) /\ g \in Nat /\ MaxOrders \in Nat /\ g <= MaxOrders
        /\ Listed(d.fifo, g)
    BY <1>4, ClientAssumption DEF ClientOK, Client
  <2>3. \A i \in 1 .. Len(d.fifo) : d.fifo[i].nr \in Nat
    <3>1. \A x \in Order : x.nr \in Nat
      BY ClientAssumption DEF Order
    <3> QED
      BY <2>2, <3>1, ElementOfSeq
  <2>4. Listed(d.fifo, MaxOrders)
    BY <2>2, <2>3 DEF Listed
  <2> QED
    BY <1>2, <2>4, NextOrderShape
<1>7. /\ Net(nextOrder(d)) \in Int
      /\ Len(c.written) \in Nat /\ Flag(c) \in 0 .. 1
  BY <1>1, <1>6, NetOf
<1>8. Net(d) <= Net(c) + 1 /\ Net(d) \in Int /\ Net(c) \in Int
  <2>1. Flag(d) = 0
    BY <1>2 DEF Flag
  <2> QED
    BY <1>2, <1>7, <2>1 DEF Net
<1> QED
  BY <1>3, <1>5, <1>7, <1>8
-----------------------------------------------------------------------------
Bypassed == 2 * collisions + 2 * starts

Counters ==
  /\ given \in 0 .. MaxOrders /\ flushed \in 0 .. given
  /\ collisions \in 0 .. MaxCollisions /\ starts \in 0 .. MaxStarts

Callbacks ==
  /\ client.ordersCallback \subseteq 1 .. client.currentId - 1
  /\ Awaited(line, board, acks) \subseteq client.ordersCallback
  /\ collisions = 0 => client.ordersCallback \subseteq Awaited(line, board, acks)

NoClean == collisions = 0 => \A o \in ToSet(line) : o.kind # "clean"

OrdersFresh ==
  Fresh(client, ToSet(line) \cup ToSet(board), Awaited(line, board, acks),
        flushed, given)

Inv ==
  /\ Counters /\ ClientOK(client, given, Bypassed) /\ client.written = <<>>
  /\ Flight(client.currentId, line, board, acks) /\ Ordered(line, board)
  /\ Callbacks /\ NoClean /\ OrdersFresh

\* The handler has ended.
LEMMA WrittenClient ==
  ASSUME NEW c \in Client
  PROVE  LET e == [c EXCEPT !.written = <<>>] IN
         /\ e \in Client /\ e.written = <<>> /\ e.fifo = c.fifo
         /\ e.messages = c.messages /\ e.currentId = c.currentId
         /\ e.order_in_progress = c.order_in_progress
         /\ e.ordersCallback = c.ordersCallback
         /\ \A g, n : ClientOK(c, g, n) => ClientOK(e, g, n)
         /\ \A F, I, f, g : Fresh(c, F, I, f, g) => Fresh(e, F, I, f, g)
<1> DEFINE e == [c EXCEPT !.written = <<>>]
<1>1. <<>> \in Seq(WOrder)
  BY EmptyOnce
<1>2. /\ e \in Client /\ e.written = <<>> /\ e.fifo = c.fifo
      /\ e.messages = c.messages /\ e.currentId = c.currentId
      /\ e.order_in_progress = c.order_in_progress
      /\ e.ordersCallback = c.ordersCallback
  BY <1>1 DEF Client
<1> HIDE DEF e
<1>3. \A g, n : ClientOK(c, g, n) => ClientOK(e, g, n)
  BY <1>2 DEF ClientOK
<1>4. \A F, I, f, g : Fresh(c, F, I, f, g) => Fresh(e, F, I, f, g)
  BY <1>2 DEF Fresh, OldMessages, Stale, Current, Newer
<1> QED
  BY <1>2, <1>3, <1>4 DEF e

\* A handler begins with nothing written.
LEMMA Begins ==
  ASSUME NEW g \in Nat, NEW n \in Nat, NEW y,
         NEW c, ClientOK(c, g, n), c.written = <<>>
  PROVE  /\ Sends(c.currentId, c.ordersCallback, y, c)
         /\ \A F, I, f, h :
              Fresh(c, F, I, f, h) => FreshFrom(c, F, I, c.currentId, f, h)
<1>1. c.currentId \in Nat
  BY DEF ClientOK, Client
<1>2. Len(c.written) = 0
  OBVIOUS
<1>3. c.currentId .. c.currentId - 1 = {}
  BY <1>1
<1>4. ToSet(c.written) = {}
  BY EmptyOnce
<1>5. ASSUME NEW F, NEW I, NEW f, NEW h, Fresh(c, F, I, f, h)
      PROVE  FreshFrom(c, F, I, c.currentId, f, h)
  <2>1. F \cup ToSet(c.written) = F /\ I \cup (c.currentId .. c.currentId - 1) = I
    BY <1>3, <1>4
  <2> QED
    BY <1>5, <2>1 DEF FreshFrom
<1>6. Sends(c.currentId, c.ordersCallback, y, c)
  BY <1>1, <1>2, <1>3 DEF Sends
<1> QED
  BY <1>5, <1>6

\* A step of the client that is no acknowledgement.
LEMMA Handled ==
  ASSUME Inv, NEW d, Handle(d), UNCHANGED <<board, acks>>, Counters',
         ClientOK(d, given', Bypassed'),
         Sends(client.currentId, client.ordersCallback, collisions', d),
         collisions <= collisions',
         FreshFrom(d, ToSet(line) \cup ToSet(board), Awaited(line, board, acks),
                   client.currentId, flushed', given')
  PROVE  Inv'
<1> DEFINE k == client.currentId
           cb == client.ordersCallback
<1>1. k \in Nat \ {0} /\ cb \in SUBSET (1 .. k - 1) /\ collisions' \in Nat
      /\ collisions \in Nat
  BY DEF Inv, Counters, Callbacks, ClientOK, Client
<1>2. d \in Client
  BY DEF ClientOK
<1>3. Flight(k, line, board, acks)
  BY DEF Inv
<1>4. /\ client' = [d EXCEPT !.written = <<>>]
      /\ line' = line \o d.written /\ board' = board /\ acks' = acks
  BY DEF Handle
<1>5. /\ Flight(d.currentId, line', board, acks)
      /\ ToSet(line') = ToSet(line) \cup ToSet(d.written)
      /\ Awaited(line', board, acks)
           = Awaited(line, board, acks) \cup (k .. d.currentId - 1)
      /\ d.ordersCallback = cb \cup (k .. d.currentId - 1)
      /\ k <= d.currentId
      /\ \A o \in ToSet(d.written) : o.kind = "clean" => collisions' # 0
  <2>1. Delivered(k, cb, collisions', line, board, acks, d)
    BY <1>1, <1>2, <1>3, LineSent
  <2> QED
    BY <1>4, <2>1 DEF Delivered
<1>6. /\ client'.written = <<>> /\ client'.currentId = d.currentId
      /\ client'.ordersCallback = d.ordersCallback
      /\ ClientOK(client', given', Bypassed')
  BY <1>2, <1>4, WrittenClient
<1>7. Callbacks'
  <2>1. d.currentId \in Nat
    BY <1>2 DEF Client
  <2>2. client'.ordersCallback \subseteq 1 .. client'.currentId - 1
    BY <1>1, <1>5, <1>6, <2>1
  <2>3. Awaited(line', board', acks') \subseteq client'.ordersCallback
    BY <1>4, <1>5, <1>6 DEF Inv, Callbacks
  <2>4. ASSUME collisions' = 0
        PROVE  client'.ordersCallback \subseteq Awaited(line', board', acks')
    <3>1. collisions = 0
      BY <1>1, <2>4
    <3> QED
      BY <1>4, <1>5, <1>6, <3>1 DEF Inv, Callbacks
  <2> QED
    BY <2>2, <2>3, <2>4 DEF Callbacks
<1>8. NoClean'
  <2>1. collisions' = 0 => collisions = 0
    BY <1>1
  <2> QED
    BY <1>5, <2>1 DEF Inv, NoClean
<1>9. Flight(client'.currentId, line', board', acks')
  BY <1>4, <1>5, <1>6
<1>10. Ordered(line', board')
  <2>1. Ordered(line, board)
    BY DEF Inv
  <2>2. Sends(k, cb, collisions', d)
    OBVIOUS
  <2> HIDE DEF k, cb
  <2>3. Ordered(line \o d.written, board)
    BY <1>1, <1>2, <1>3, <2>1, <2>2, LineOrdered
  <2> QED
    BY <1>4, <2>3
<1>11. OrdersFresh'
  <2>1. /\ (ToSet(line) \cup ToSet(board)) \cup ToSet(d.written)
             = ToSet(line') \cup ToSet(board')
        /\ Awaited(line, board, acks) \cup (k .. d.currentId - 1)
             = Awaited(line', board', acks')
    BY <1>4, <1>5
  <2>2. Fresh(d, ToSet(line') \cup ToSet(board'), Awaited(line', board', acks'),
              flushed', given')
    BY <2>1 DEF FreshFrom
  <2>3. Fresh(client', ToSet(line') \cup ToSet(board'),
              Awaited(line', board', acks'), flushed', given')
    BY <1>2, <1>4, <2>2, WrittenClient
  <2> QED
    BY <2>3 DEF OrdersFresh
<1> QED
  BY <1>6, <1>7, <1>8, <1>9, <1>10, <1>11 DEF Inv

(* What such a step puts out and in progress. *)
LEMMA HandledNet ==
  ASSUME Inv, NEW d \in Client, Handle(d), UNCHANGED <<board, acks>>
  PROVE  /\ Surplus \in Int /\ Net(client) \in Int /\ Net(d) \in Int
         /\ Surplus' = Surplus + Net(d) - Net(client)
<1>1. /\ line \in Seq(WOrder) /\ d.written \in Seq(WOrder) /\ client \in Client
      /\ client.written = <<>>
      /\ Len(line) \in Nat /\ Len(board) \in Nat /\ Len(acks) \in Nat
  <2>1. /\ line \in Seq(WOrder) /\ board \in Seq(WOrder) /\ acks \in Seq(Nat)
        /\ d.written \in Seq(WOrder)
    BY DEF Inv, Flight, Client
  <2> QED
    BY <2>1, LenProperties DEF Inv, ClientOK
<1>2. /\ client' = [d EXCEPT !.written = <<>>] /\ line' = line \o d.written
      /\ board' = board /\ acks' = acks
  BY DEF Handle
<1>3. client'.order_in_progress = d.order_in_progress
  BY <1>2, WrittenClient
<1>4. Len(line') = Len(line) + Len(d.written)
  BY <1>1, <1>2, Joined
<1>5. /\ Len(d.written) \in Nat /\ Flag(d) \in 0 .. 1 /\ Net(d) \in Int
      /\ Len(client.written) = 0 /\ Flag(client) \in 0 .. 1
  BY <1>1, NetOf
<1>6. Surplus = Len(line) + Len(board) + Len(acks) - Flag(client)
  BY DEF Surplus, Out, Flag
<1>7. Surplus' = Len(line') + Len(board) + Len(acks) - Flag(d)
  BY <1>2, <1>3 DEF Surplus, Out, Flag
<1>8. Net(client) = 0 - Flag(client) /\ Net(d) = Len(d.written) - Flag(d)
  BY <1>5 DEF Net
<1>9. Surplus \in Int /\ Net(client) \in Int
  BY <1>1, <1>5, <1>6, <1>8
<1>10. Surplus' = Surplus + Len(d.written) - Flag(d) + Flag(client)
  <2>1. /\ Len(line) \in Int /\ Len(board) \in Int /\ Len(acks) \in Int
        /\ Len(d.written) \in Int /\ Flag(d) \in Int /\ Flag(client) \in Int
    BY <1>1, <1>5
  <2> QED
    BY <1>4, <1>6, <1>7, <2>1
<1>11. Surplus + Len(d.written) - Flag(d) + Flag(client)
         = Surplus + Net(d) - Net(client)
  BY <1>5, <1>8, <1>9
<1> QED
  BY <1>5, <1>9, <1>10, <1>11

LEMMA AddOrderKeepsInv == Inv /\ AddOrderToFifo => Inv' /\ Surplus' <= Surplus
<1> SUFFICES ASSUME Inv, AddOrderToFifo PROVE Inv' /\ Surplus' <= Surplus
  OBVIOUS
<1> USE ClientAssumption
<1>1. /\ given \in 0 .. MaxOrders /\ given < MaxOrders /\ given' = given + 1
      /\ UNCHANGED <<board, acks, flushed, collisions, starts>>
  BY DEF AddOrderToFifo, Inv, Counters
<1>2. PICK kind \in Kinds : Handle(newOrder(client, [nr |-> given + 1, kind |-> kind]))
  BY DEF AddOrderToFifo
<1> DEFINE o == [nr |-> given + 1, kind |-> kind]
           a == Queued(client, o)
           d == nextOrder(a)
           k == client.currentId
           cb == client.ordersCallback
           n == Bypassed
<1>3. o \in Order /\ o.nr = given + 1 /\ o.kind # "nothing"
  BY <1>1 DEF Order, Kinds
<1>4. given + 1 \in 0 .. MaxOrders /\ given \in Nat /\ given + 1 \in Nat
      /\ given <= given + 1 /\ given < given + 1 /\ given + 1 # 0
  BY <1>1
<1>5. n \in Nat /\ collisions \in Nat /\ Bypassed' = n
  BY <1>1 DEF Inv, Counters, Bypassed
<1>6. k \in Nat /\ cb \in SUBSET Nat /\ client \in Client
      /\ ClientOK(client, given, n) /\ client.written = <<>>
  BY DEF Inv, ClientOK, Client
<1> DEFINE F == ToSet(line) \cup ToSet(board)
           I == Awaited(line, board, acks)
<1>7. /\ Sends(k, cb, collisions, client) /\ F \in SUBSET WOrder
      /\ FreshFrom(client, F, I, k, flushed, given)
  <2>1. line \in Seq(WOrder) /\ board \in Seq(WOrder)
    BY DEF Inv, Flight
  <2>2. F \in SUBSET WOrder
    BY <2>1, ElementsOf
  <2> QED
    BY <1>4, <1>5, <1>6, <2>2, Begins DEF Inv, OrdersFresh
<1> HIDE DEF o, n, F, I
<1>8. /\ ClientOK(a, given + 1, n) /\ Sends(k, cb, collisions, a)
      /\ a.currentId = k /\ FreshFrom(a, F, I, k, flushed, given + 1)
      /\ Net(a) = Net(client)
  <2>1. /\ o.nr <= given + 1 /\ (o.kind = "nothing" <=> o.nr = 0)
        /\ (o.nr # 0 => given < o.nr) /\ o.nr # 0
    BY <1>3, <1>4
  <2>2. ClientOK(a, given + 1, n)
    BY <1>3, <1>4, <1>5, <1>6, <2>1, AppendKeeps
  <2>3. FreshFrom(a, F, I, k, flushed, given + 1)
    <3>1. flushed \in Nat
      BY <1>1 DEF Inv, Counters
    <3> QED
      BY <1>1, <1>3, <1>4, <1>5, <1>6, <1>7, <2>1, <3>1, QueuedFresh
  <2>4. a.currentId = k
    BY <1>6 DEF Queued, Client
  <2>5. Net(a) = Net(client)
    BY <1>6, QueuedNet
  <2> QED
    BY <1>6, <1>7, <2>2, <2>3, <2>4, <2>5, QueuedSame
<1> HIDE DEF a
<1>9. /\ ClientOK(d, given + 1, n) /\ Sends(k, cb, collisions, d)
      /\ FreshFrom(d, F, I, k, flushed, given + 1)
  <2>1. flushed \in Nat /\ k <= a.currentId
    BY <1>1, <1>6, <1>8 DEF Inv, Counters
  <2> QED
    BY <1>4, <1>5, <1>6, <1>7, <1>8, <2>1, NextOrderKeeps, NextOrderFresh
<1>10. Handle(d)
  BY <1>2 DEF newOrder, d, a, o, Queued
<1>11. Net(d) <= Net(client)
  BY <1>4, <1>5, <1>8, NextOrderNet
<1>12. Counters'
  BY <1>1, <1>4 DEF Inv, Counters
<1> HIDE DEF d
<1>13. Inv'
  BY <1>1, <1>5, <1>9, <1>10, <1>12, Handled DEF F, I
<1>14. d \in Client
  BY <1>9 DEF ClientOK
<1>15. Surplus' = Surplus + Net(d) - Net(client)
       /\ Surplus \in Int /\ Net(d) \in Int /\ Net(client) \in Int
  BY <1>1, <1>10, <1>14, HandledNet
<1>16. Surplus' <= Surplus
  BY <1>11, <1>15
<1> QED
  BY <1>13, <1>16

LEMMA CollisionKeepsInv == Inv /\ Collision => Inv' /\ Surplus' <= Surplus + 3
<1> SUFFICES ASSUME Inv, Collision PROVE Inv' /\ Surplus' <= Surplus + 3
  OBVIOUS
<1> USE ClientAssumption
<1> DEFINE k == client.currentId
           cb == client.ordersCallback
           n == Bypassed
           y == collisions + 1
           F == ToSet(line) \cup ToSet(board)
           I == Awaited(line, board, acks)
           c1 == sendOrder(client, 0, "setting")
           c2 == sendOrder(c1, 0, "clean")
           c3 == orderFinished(c2)
           o == [nr |-> 0, kind |-> "nothing"]
           c4 == Queued(c3, o)
           d == nextOrder(c4)
           g == given
           HandlerOK(c, x) ==
             /\ ClientOK(c, g, x) /\ Sends(k, cb, y, c) /\ c \in Client
             /\ k <= c.currentId /\ FreshFrom(c, F, I, k, g, g) /\ Net(c) \in Int
<1>1. /\ g \in 0 .. MaxOrders /\ given' = g /\ g \in Nat /\ flushed' = g
      /\ collisions \in 0 .. MaxCollisions /\ collisions < MaxCollisions
      /\ collisions' = y /\ starts' = starts /\ starts \in 0 .. MaxStarts
      /\ board' = board /\ acks' = acks
  BY DEF Collision, Inv, Counters
<1>2. /\ y \in Nat /\ y # 0 /\ y \in 0 .. MaxCollisions /\ collisions <= y
      /\ n \in Nat /\ n + 1 \in Nat /\ n + 1 + 1 \in Nat
      /\ Bypassed' = n + 1 + 1
  BY <1>1 DEF Bypassed
<1>3. /\ k \in Nat /\ cb \in SUBSET Nat /\ F \in SUBSET WOrder
      /\ ClientOK(client, g, n) /\ client.written = <<>>
      /\ client \in Client /\ I \in SUBSET (1 .. k - 1)
  <2>1. line \in Seq(WOrder) /\ board \in Seq(WOrder)
    BY DEF Inv, Flight
  <2>2. F \in SUBSET WOrder
    BY <2>1, ElementsOf
  <2> QED
    BY <2>2 DEF Inv, ClientOK, Client, Callbacks
<1>4. Handle(d)
  BY DEF Collision, newOrder, setEmergencyStop, Queued
<1>5. Fresh(client, F, I, g, g)
  <2>1. Fresh(client, F, I, flushed, g)
    BY DEF Inv, OrdersFresh
  <2>2. /\ client.fifo \in Seq(Order) /\ Listed(client.fifo, g)
        /\ \A i \in 1 .. Len(client.fifo) : client.fifo[i].nr <= g
    BY <1>3 DEF ClientOK, Client, Listed
  <2>3. Past(F, g) /\ Stale(client, g)
    BY <2>1, <2>2 DEF Fresh, Past, Stale
  <2> HIDE DEF F, I
  <2> QED
    BY <2>1, <2>3 DEF Fresh
<1> HIDE DEF n, y, k, cb, F, I, g
<1>6. HandlerOK(client, n)
  <2>1. Sends(k, cb, y, client) /\ FreshFrom(client, F, I, k, g, g)
    BY <1>1, <1>2, <1>3, <1>5, Begins DEF k, cb
  <2>2. k <= client.currentId
    BY <1>3 DEF k
  <2> QED
    BY <1>3, <2>1, <2>2, NetOf
<1>7. ASSUME NEW c, NEW x, ClientOK(c, g, x), Sends(k, cb, y, c),
             FreshFrom(c, F, I, k, g, g)
      PROVE  HandlerOK(c, x)
  <2>1. c \in Client
    BY <1>7 DEF ClientOK
  <2> QED
    BY <1>7, <2>1, NetOf DEF Sends
<1>8. HandlerOK(c1, n + 1) /\ Net(c1) = Net(client) + 1
  <2>1. ClientOK(c1, g, n + 1) /\ Sends(k, cb, y, c1)
    BY <1>1, <1>2, <1>3, <1>6, SendOrderKeeps
  <2>2. FreshFrom(c1, F, I, k, g, g)
    BY <1>1, <1>3, <1>6, SendOrderFresh
  <2> QED
    BY <1>3, <1>7, <2>1, <2>2, SendOrderNet
<1> HIDE DEF c1
<1>9. HandlerOK(c2, n + 1 + 1) /\ Net(c2) = Net(c1) + 1
  <2>1. ClientOK(c2, g, n + 1 + 1) /\ Sends(k, cb, y, c2)
    <3>1. ClientOK(c1, g, n + 1) /\ Sends(k, cb, y, c1)
      BY <1>8
    <3> HIDE DEF HandlerOK
    <3> QED
      BY <1>1, <1>2, <1>3, <3>1, SendOrderKeeps
  <2>2. FreshFrom(c2, F, I, k, g, g)
    BY <1>1, <1>3, <1>8, SendOrderFresh
  <2> QED
    BY <1>7, <1>8, <2>1, <2>2, SendOrderNet
<1> HIDE DEF c2
<1>10. HandlerOK(c3, n + 1 + 1) /\ Net(c3) <= Net(c2) + 1
  BY <1>1, <1>2, <1>3, <1>7, <1>9, FinishedKeeps, FinishedFresh, FinishedNet
<1> HIDE DEF c3
<1>11. HandlerOK(c4, n + 1 + 1) /\ Net(c4) = Net(c3)
  <2>1. /\ o \in Order /\ o.nr <= g /\ (o.kind = "nothing" <=> o.nr = 0)
        /\ (o.nr # 0 => g < o.nr) /\ g <= g /\ (o.nr = 0 => g = g)
    BY <1>1 DEF Order
  <2> HIDE DEF o
  <2>2. ClientOK(c4, g, n + 1 + 1)
    BY <1>1, <1>2, <1>10, <2>1, AppendKeeps
  <2>3. FreshFrom(c4, F, I, k, g, g)
    BY <1>1, <1>2, <1>3, <1>10, <2>1, QueuedFresh
  <2>4. Sends(k, cb, y, c4) /\ Net(c4) = Net(c3)
    BY <1>10, QueuedSame, QueuedNet
  <2> QED
    BY <1>7, <2>2, <2>3, <2>4
<1> HIDE DEF c4
<1>12. HandlerOK(d, n + 1 + 1) /\ Net(d) <= Net(c4)
  BY <1>1, <1>2, <1>3, <1>7, <1>11, NextOrderKeeps, NextOrderFresh, NextOrderNet
<1> HIDE DEF d
<1>13. Net(d) <= Net(client) + 3
  BY <1>6, <1>8, <1>9, <1>10, <1>11, <1>12
<1>14. Counters'
  BY <1>1, <1>2 DEF Counters, g
<1>15. Inv'
  BY <1>1, <1>2, <1>4, <1>12, <1>14, Handled DEF k, cb, F, I
<1>16. Surplus' = Surplus + Net(d) - Net(client)
       /\ Surplus \in Int /\ Net(d) \in Int /\ Net(client) \in Int
  BY <1>1, <1>4, <1>12, HandledNet
<1>17. Surplus' <= Surplus + 3
  BY <1>13, <1>16
<1> QED
  BY <1>15, <1>17

LEMMA StartKeepsInv == Inv /\ DoStartSequence => Inv' /\ Surplus' <= Surplus + 2
<1> SUFFICES ASSUME Inv, DoStartSequence PROVE Inv' /\ Surplus' <= Surplus + 2
  OBVIOUS
<1> USE ClientAssumption
<1> DEFINE k == client.currentId
           cb == client.ordersCallback
           n == Bypassed
           F == ToSet(line) \cup ToSet(board)
           I == Awaited(line, board, acks)
           c1 == sendOrder(client, 0, "move")
           d == sendOrder(c1, 0, "move")
           g == given
           f == flushed
           HandlerOK(c, x) ==
             /\ ClientOK(c, g, x) /\ Sends(k, cb, collisions, c) /\ c \in Client
             /\ k <= c.currentId /\ FreshFrom(c, F, I, k, f, g) /\ Net(c) \in Int
<1>1. /\ g \in 0 .. MaxOrders /\ given' = g /\ g \in Nat
      /\ flushed' = f /\ f \in Nat /\ f \in 0 .. g
      /\ collisions \in 0 .. MaxCollisions /\ collisions' = collisions
      /\ starts' = starts + 1 /\ starts \in 0 .. MaxStarts /\ starts < MaxStarts
      /\ board' = board /\ acks' = acks
  BY DEF DoStartSequence, Inv, Counters
<1>2. /\ collisions \in Nat /\ collisions <= collisions
      /\ starts + 1 \in 0 .. MaxStarts
      /\ n \in Nat /\ n + 1 \in Nat /\ Bypassed' = n + 1 + 1
  BY <1>1 DEF Bypassed
<1>3. /\ k \in Nat /\ cb \in SUBSET Nat /\ F \in SUBSET WOrder
      /\ ClientOK(client, g, n) /\ client.written = <<>>
      /\ client \in Client /\ I \in SUBSET (1 .. k - 1)
      /\ Fresh(client, F, I, f, g)
  <2>1. line \in Seq(WOrder) /\ board \in Seq(WOrder)
    BY DEF Inv, Flight
  <2>2. F \in SUBSET WOrder
    BY <2>1, ElementsOf
  <2> QED
    BY <2>2 DEF Inv, ClientOK, Client, Callbacks, OrdersFresh
<1>4. Handle(d)
  BY DEF DoStartSequence
<1> HIDE DEF n, k, cb, F, I, g, f
<1>5. HandlerOK(client, n)
  <2>1. Sends(k, cb, collisions, client) /\ FreshFrom(client, F, I, k, f, g)
    BY <1>1, <1>2, <1>3, Begins DEF k, cb
  <2>2. k <= client.currentId
    BY <1>3 DEF k
  <2> QED
    BY <1>3, <2>1, <2>2, NetOf
<1>6. ASSUME NEW c, NEW x, ClientOK(c, g, x), Sends(k, cb, collisions, c),
             FreshFrom(c, F, I, k, f, g)
      PROVE  HandlerOK(c, x)
  <2>1. c \in Client
    BY <1>6 DEF ClientOK
  <2> QED
    BY <1>6, <2>1, NetOf DEF Sends
<1>7. HandlerOK(c1, n + 1) /\ Net(c1) = Net(client) + 1
  BY <1>1, <1>2, <1>3, <1>5, <1>6, SendOrderKeeps, SendOrderFresh, SendOrderNet
<1> HIDE DEF c1
<1>8. HandlerOK(d, n + 1 + 1) /\ Net(d) = Net(c1) + 1
  BY <1>1, <1>2, <1>3, <1>6, <1>7, SendOrderKeeps, SendOrderFresh, SendOrderNet
<1> HIDE DEF d
<1>9. Counters'
  BY <1>1, <1>2 DEF Counters, g, f
<1>10. Inv'
  BY <1>1, <1>2, <1>4, <1>8, <1>9, Handled DEF k, cb, F, I
<1>11. Surplus' = Surplus + Net(d) - Net(client)
       /\ Surplus \in Int /\ Net(d) \in Int /\ Net(client) \in Int
  BY <1>1, <1>4, <1>8, HandledNet
<1>12. Surplus' <= Surplus + 2
  BY <1>5, <1>7, <1>8, <1>11
<1> QED
  BY <1>10, <1>12

LEMMA AcknowledgedKeepsInv == Inv /\ Acknowledged => Inv' /\ Surplus' <= Surplus
<1> SUFFICES ASSUME Inv, Acknowledged PROVE Inv' /\ Surplus' <= Surplus
  OBVIOUS
<1> USE ClientAssumption
<1> DEFINE k == client.currentId
           cb == client.ordersCallback
           h == Head(acks)
           t == Tail(acks)
           e == orderFinished(client)
           d == [e EXCEPT !.ordersCallback = @ \ {h}]
           m == line \o e.written
<1>1. /\ acks # <<>> /\ acks' = t /\ board' = board
      /\ UNCHANGED <<given, flushed, collisions, starts>>
      /\ Handle(callOrderCallback(client, h))
  BY DEF Acknowledged
<1>2. /\ given \in 0 .. MaxOrders /\ given \in Nat /\ collisions \in Nat
      /\ Bypassed \in Nat /\ Bypassed' = Bypassed /\ Counters'
  BY <1>1 DEF Inv, Counters, Bypassed
<1>3. /\ ClientOK(client, given, Bypassed) /\ client.written = <<>>
      /\ client \in Client /\ k \in Nat \ {0} /\ cb \in SUBSET (1 .. k - 1)
      /\ cb \in SUBSET Nat /\ k \in Nat
  BY DEF Inv, Callbacks, ClientOK, Client
<1>4. Flight(k, line, board, acks)
  BY DEF Inv
<1>5. /\ Flight(k, line, board, t) /\ h \in 1 .. k - 1
      /\ Awaited(line, board, t) = Awaited(line, board, acks) \ {h}
      /\ h \in Awaited(line, board, acks)
  BY <1>1, <1>3, <1>4, AckTaken
<1>6. h \in cb
  BY <1>5 DEF Inv, Callbacks
<1>7. callOrderCallback(client, h) = d
  BY <1>6 DEF callOrderCallback
<1>8. Sends(k, cb, collisions, client)
  BY <1>2, <1>3, Begins
<1>9. ClientOK(e, given, Bypassed) /\ Sends(k, cb, collisions, e)
  BY <1>2, <1>3, <1>8, FinishedKeeps
<1>10. e \in Client /\ e.currentId \in Nat /\ e.ordersCallback \in SUBSET Nat
       /\ e.written \in Seq(WOrder)
  BY <1>9 DEF ClientOK, Client
<1> HIDE DEF k, cb, h, t, e
<1>11. Delivered(k, cb, collisions, line, board, t, e)
  BY <1>2, <1>3, <1>5, <1>9, <1>10, LineSent
<1>12. /\ Flight(e.currentId, m, board, t)
       /\ Len(m) = Len(line) + Len(e.written)
       /\ ToSet(m) = ToSet(line) \cup ToSet(e.written)
       /\ Awaited(m, board, t) = Awaited(line, board, t) \cup (k .. e.currentId - 1)
       /\ e.ordersCallback = cb \cup (k .. e.currentId - 1)
       /\ k <= e.currentId
       /\ \A o \in ToSet(e.written) : o.kind = "clean" => collisions # 0
  BY <1>11 DEF Delivered
<1>13. /\ d \in Client /\ d.fifo = e.fifo /\ d.messages = e.messages
       /\ d.written = e.written /\ d.currentId = e.currentId
       /\ d.order_in_progress = e.order_in_progress
       /\ d.ordersCallback = e.ordersCallback \ {h}
  BY <1>10 DEF Client
<1>14. client' = [d EXCEPT !.written = <<>>] /\ line' = line \o d.written
  BY <1>1, <1>7 DEF Handle, h
<1> HIDE DEF d, m
<1>15. line' = m
  BY <1>13, <1>14 DEF m
<1>16. ClientOK(d, given, Bypassed)
  BY <1>9, <1>13 DEF ClientOK
<1>17. /\ client' \in Client /\ client'.written = <<>>
       /\ client'.messages = e.messages /\ client'.currentId = e.currentId
       /\ client'.fifo = e.fifo
       /\ client'.order_in_progress = e.order_in_progress
       /\ client'.ordersCallback = e.ordersCallback \ {h}
       /\ ClientOK(client', given, Bypassed)
  BY <1>13, <1>14, <1>16, WrittenClient
<1>18. Callbacks'
  <2>1. \A x \in k .. e.currentId - 1 : x # h
    BY <1>3, <1>5, <1>10
  <2>2. \A x \in 1 .. k - 1 : x \in 1 .. e.currentId - 1
    BY <1>3, <1>10, <1>12
  <2>3. \A x \in k .. e.currentId - 1 : x \in 1 .. e.currentId - 1
    BY <1>3, <1>10
  <2>4. client'.ordersCallback \subseteq 1 .. client'.currentId - 1
    BY <1>3, <1>12, <1>17, <2>2, <2>3
  <2>5. Awaited(line', board', acks')
          = (Awaited(line, board, acks) \ {h}) \cup (k .. e.currentId - 1)
    BY <1>1, <1>5, <1>12, <1>15
  <2>6. client'.ordersCallback = (cb \cup (k .. e.currentId - 1)) \ {h}
    BY <1>12, <1>17
  <2>7. Awaited(line, board, acks) \subseteq cb
        /\ (collisions = 0 => cb \subseteq Awaited(line, board, acks))
    BY DEF Inv, Callbacks, cb
  <2>8. Awaited(line', board', acks') \subseteq client'.ordersCallback
    BY <2>1, <2>5, <2>6, <2>7
  <2>9. collisions' = 0 => client'.ordersCallback \subseteq Awaited(line', board', acks')
    BY <1>1, <2>5, <2>6, <2>7
  <2> QED
    BY <2>4, <2>8, <2>9 DEF Callbacks
<1>19. NoClean'
  BY <1>1, <1>12, <1>15 DEF Inv, NoClean
<1>20. Ordered(line', board')
  <2>1. Ordered(line, board)
    BY DEF Inv
  <2>2. Ordered(m, board)
    BY <1>3, <1>5, <1>9, <1>10, <2>1, LineOrdered DEF m
  <2> QED
    BY <1>1, <1>15, <2>2
<1>21. OrdersFresh'
  <2> DEFINE F == ToSet(line) \cup ToSet(board)
             I == Awaited(line, board, acks)
             H == Awaited(line, board, t)
  <2>1. line \in Seq(WOrder) /\ board \in Seq(WOrder)
    BY <1>4 DEF Flight
  <2>2. F \in SUBSET WOrder
    BY <2>1, ElementsOf
  <2>3. Fresh(client, F, I, flushed, given) /\ flushed \in Nat
    BY <1>2 DEF Inv, Counters, OrdersFresh
  <2> HIDE DEF F, I, H
  <2>4. FreshFrom(client, F, I, k, flushed, given)
    BY <1>2, <1>3, <2>3, Begins DEF k
  <2>5. k <= client.currentId
    BY <1>3 DEF k
  <2>6. FreshFrom(e, F, H, k, flushed, given)
    BY <1>2, <1>3, <2>2, <2>3, <2>4, <2>5, FinishedFresh DEF e
  <2>7. /\ F \cup ToSet(e.written) = ToSet(line') \cup ToSet(board')
        /\ H \cup (k .. e.currentId - 1) = Awaited(line', board', acks')
    BY <1>1, <1>12, <1>15 DEF F, H
  <2>8. Fresh(e, ToSet(line') \cup ToSet(board'), Awaited(line', board', acks'),
              flushed, given)
    BY <2>6, <2>7 DEF FreshFrom
  <2>9. Fresh(client', ToSet(line') \cup ToSet(board'),
              Awaited(line', board', acks'), flushed, given)
    BY <1>17, <2>8 DEF Fresh, OldMessages, Stale, Current, Newer
  <2> QED
    BY <1>1, <2>9 DEF OrdersFresh
<1>22. Flight(client'.currentId, line', board', acks')
  BY <1>1, <1>12, <1>15, <1>17
<1>23. ClientOK(client', given', Bypassed')
  BY <1>1, <1>2, <1>17
<1>24. Inv'
  BY <1>2, <1>17, <1>18, <1>19, <1>20, <1>21, <1>22, <1>23 DEF Inv
<1>25. Surplus' <= Surplus
  <2>1. Net(e) <= Net(client) + 1
    BY <1>2, <1>3, FinishedNet DEF e
  <2>2. /\ Len(e.written) \in Nat /\ Flag(e) \in 0 .. 1
        /\ Len(client.written) = 0 /\ Flag(client) \in 0 .. 1
    BY <1>3, <1>10, NetOf
  <2>3. /\ acks \in Seq(Nat) /\ Len(line) \in Nat /\ Len(board) \in Nat
        /\ Len(t) \in Nat
    BY <1>4, <1>5, LenProperties DEF Flight
  <2>4. Len(acks) = Len(t) + 1
    BY <1>1, <2>3, Shortened DEF t
  <2>5. Surplus = Len(line) + Len(board) + Len(acks) - Flag(client)
    BY DEF Surplus, Out, Flag
  <2>6. Surplus' = Len(m) + Len(board) + Len(t) - Flag(e)
    BY <1>1, <1>15, <1>17 DEF Surplus, Out, Flag
  <2>7. Len(e.written) - Flag(e) <= 0 - Flag(client) + 1
    BY <2>1, <2>2 DEF Net
  <2>8. Surplus = Len(line) + Len(board) + Len(t) + 1 - Flag(client)
    BY <2>2, <2>3, <2>4, <2>5
  <2>9. Surplus' = Len(line) + Len(board) + Len(t) + (Len(e.written) - Flag(e))
    BY <1>12, <2>2, <2>3, <2>6
  <2> QED
    BY <2>2, <2>3, <2>7, <2>8, <2>9
<1> QED
  BY <1>24, <1>25

\* The board has taken an order: the client has not noticed.
LEMMA BoardStep ==
  ASSUME Inv, UNCHANGED <<client, given, flushed, collisions, starts>>,
         Flight(client.currentId, line', board', acks'), Ordered(line', board'),
         Awaited(line', board', acks') \subseteq Awaited(line, board, acks),
         \/ Awaited(line', board', acks') = Awaited(line, board, acks)
         \/ collisions # 0,
         ToSet(line') \subseteq ToSet(line),
         ToSet(board') \subseteq ToSet(line) \cup ToSet(board),
         \A k \in Awaited(line, board, acks) :
           Current(client, ToSet(line) \cup ToSet(board), k) =>
             k \in Awaited(line', board', acks')
  PROVE  Inv'
<1> DEFINE F == ToSet(line) \cup ToSet(board)
           I == Awaited(line, board, acks)
           G == ToSet(line') \cup ToSet(board')
           J == Awaited(line', board', acks')
<1>1. Fresh(client, F, I, flushed, given) /\ G \subseteq F
  BY DEF Inv, OrdersFresh
<1>2. \A k \in I : Current(client, F, k) => k \in J
  OBVIOUS
<1>3. OrdersFresh'
  <2> HIDE DEF F, I, G, J
  <2>1. Fresh(client, G, J, flushed, given)
    <3>1. Past(F, flushed) => Past(G, flushed)
      BY <1>1 DEF Past
    <3>2. \A k : Current(client, F, k) => Current(client, G, k)
      BY <1>1 DEF Current
    <3> QED
      BY <1>1, <1>2, <3>1, <3>2 DEF Fresh
  <2> QED
    BY <2>1 DEF OrdersFresh, G, J
<1>4. Callbacks'
  <2>1. /\ client.ordersCallback \subseteq 1 .. client.currentId - 1
        /\ I \subseteq client.ordersCallback
        /\ (collisions = 0 => client.ordersCallback \subseteq I)
    BY DEF Inv, Callbacks
  <2>2. J \subseteq I /\ (J = I \/ collisions # 0)
    OBVIOUS
  <2> HIDE DEF I, J
  <2>3. J \subseteq client.ordersCallback
    BY <2>1, <2>2
  <2>4. collisions = 0 => client.ordersCallback \subseteq J
    BY <2>1, <2>2
  <2> QED
    BY <2>1, <2>3, <2>4 DEF Callbacks, J
<1>5. /\ Counters' /\ ClientOK(client', given', Bypassed')
      /\ client'.written = <<>> /\ NoClean'
  <2>1. Bypassed' = Bypassed
    BY DEF Bypassed
  <2> QED
    BY <2>1 DEF Inv, Counters, NoClean
<1> QED
  BY <1>3, <1>4, <1>5 DEF Inv

LEMMA BoardReceivesKeepsInv == Inv /\ BoardReceives => Inv' /\ Surplus' <= Surplus
<1> SUFFICES ASSUME Inv, BoardReceives PROVE Inv' /\ Surplus' <= Surplus
  OBVIOUS
<1> DEFINE k == client.currentId
           h == Head(line)
           t == Tail(line)
<1>1. /\ line # <<>> /\ line' = t
      /\ UNCHANGED <<client, given, flushed, collisions, starts>>
  BY DEF BoardReceives
<1>2. Flight(k, line, board, acks) /\ k \in Nat /\ Ordered(line, board)
  BY DEF Inv, ClientOK, Client
<1>3. LineTakes(k, line, board, acks)
  BY <1>1, <1>2, LineTaken
<1>4. /\ line \in Seq(WOrder) /\ board \in Seq(WOrder) /\ acks \in Seq(Nat)
      /\ Len(line) \in Nat /\ Len(board) \in Nat /\ Len(acks) \in Nat
  BY <1>2, LenProperties DEF Flight
<1>5. /\ h \in WOrder /\ t \in Seq(WOrder) /\ Len(line) = Len(t) + 1
      /\ ToSet(line) = {h} \cup ToSet(t)
  BY <1>1, <1>4, Shortened
<1>6. Len(t) \in Nat /\ h.id \in Nat
  BY <1>5, LenProperties DEF WOrder
<1>7. Len(Append(board, h)) = Len(board) + 1
      /\ ToSet(Append(board, h)) = ToSet(board) \cup {h}
  BY <1>4, <1>5, Appended
<1>8. Len(Append(acks, h.id)) = Len(acks) + 1
  BY <1>4, <1>6, Appended
<1>9. /\ Ordered(t, Append(board, h)) /\ Ordered(t, board) /\ Ordered(t, <<>>)
      /\ \A o \in ToSet(board) : o.id < h.id
  BY <1>1, <1>2, HeadOrdered
<1>10. Len(<<>>) = 0 /\ ToSet(<<>>) = {}
  BY EmptyOnce
<1> HIDE DEF h, t
<1>11. CASE board' = Append(board, h) /\ acks' = acks
  <2>1. /\ Flight(k, t, board', acks')
        /\ Awaited(t, board', acks') = Awaited(line, board, acks)
    BY <1>3, <1>11 DEF LineTakes, h, t
  <2>2. ToSet(board') = ToSet(board) \cup {h} /\ Ordered(t, board')
        /\ Len(board') = Len(board) + 1
    BY <1>7, <1>9, <1>11
  <2>3. Inv'
    BY <1>1, <1>5, <2>1, <2>2, BoardStep
  <2>4. Out' = Out
    BY <1>1, <1>4, <1>5, <1>6, <1>11, <2>2 DEF Out
  <2> QED
    BY <1>1, <1>4, <2>3, <2>4 DEF Surplus, Out
<1>12. CASE board' = board /\ acks' = Append(acks, h.id)
  <2>1. /\ Flight(k, t, board', acks')
        /\ Awaited(t, board', acks') = Awaited(line, board, acks)
    BY <1>3, <1>12 DEF LineTakes, h, t
  <2>2. Ordered(t, board') /\ Len(acks') = Len(acks) + 1
    BY <1>8, <1>9, <1>12
  <2>3. Inv'
    BY <1>1, <1>5, <1>12, <2>1, <2>2, BoardStep
  <2>4. Out' = Out
    BY <1>1, <1>4, <1>5, <1>6, <1>12, <2>2 DEF Out
  <2> QED
    BY <1>1, <1>4, <2>3, <2>4 DEF Surplus, Out
<1>13. CASE h.kind = "clean" /\ board' = <<>> /\ acks' = Append(acks, h.id)
  <2>1. /\ Flight(k, t, board', acks')
        /\ Awaited(t, board', acks') \subseteq Awaited(line, board, acks)
    BY <1>3, <1>13 DEF LineTakes, h, t
  <2>2. Ordered(t, board') /\ Len(acks') = Len(acks) + 1
        /\ Len(board') = 0 /\ ToSet(board') = {}
    BY <1>8, <1>9, <1>10, <1>13
  <2>3. collisions # 0
    BY <1>5, <1>13 DEF Inv, NoClean
  <2>4. ASSUME NEW j \in Awaited(line, board, acks),
               Current(client, ToSet(line) \cup ToSet(board), j)
        PROVE  j \in Awaited(t, board', acks')
    <3>1. h.id < j
      BY <1>5, <1>13, <2>4 DEF Current
    <3>2. \A o \in ToSet(board) : o.id # j
      <4>1. \A o \in ToSet(board) : o.id \in Nat
        <5>1. ToSet(board) \in SUBSET WOrder
          BY <1>4, ElementsOf
        <5> QED
          BY <5>1 DEF WOrder
      <4>2. ASSUME j \in Int PROVE \A o \in ToSet(board) : o.id # j
        BY <1>6, <1>9, <3>1, <4>1, <4>2
      <4>3. \A x \in Awaited(line, board, acks) : x \in Int
        <5>1. /\ ToSet(line) \in SUBSET WOrder /\ ToSet(board) \in SUBSET WOrder
              /\ ToSet(acks) \in SUBSET Nat
          BY <1>4, ElementsOf
        <5> QED
          BY <5>1 DEF Awaited, WOrder
      <4> QED
        BY <4>2, <4>3
    <3>3. j # h.id
      BY <1>6, <3>1
    <3>4. j \in {o.id : o \in ToSet(line) \cup ToSet(board)} \cup ToSet(acks)
      BY DEF Awaited
    <3>5. j \in {o.id : o \in ToSet(t)} \cup ToSet(acks)
      BY <1>5, <3>2, <3>3, <3>4
    <3>6. ToSet(acks') = ToSet(acks) \cup {h.id}
      BY <1>4, <1>6, <1>13, Appended
    <3> QED
      BY <2>2, <3>5, <3>6 DEF Awaited
  <2>5. Inv'
    BY <1>1, <1>5, <1>13, <2>1, <2>2, <2>3, <2>4, BoardStep
  <2>6. Out' <= Out
    BY <1>1, <1>4, <1>5, <1>6, <1>13, <2>2 DEF Out
  <2>7. Out' \in Int /\ Out \in Int
    BY <1>1, <1>4, <1>6, <2>2 DEF Out
  <2>8. Surplus = Out - Flag(client) /\ Surplus' = Out' - Flag(client)
        /\ Flag(client) \in 0 .. 1
    BY <1>1 DEF Surplus, Flag
  <2> QED
    BY <2>5, <2>6, <2>7, <2>8
<1> QED
  BY <1>11, <1>12, <1>13 DEF BoardReceives, h

LEMMA BoardReachesKeepsInv == Inv /\ BoardReaches => Inv' /\ Surplus' <= Surplus
<1> SUFFICES ASSUME Inv, BoardReaches PROVE Inv' /\ Surplus' <= Surplus
  OBVIOUS
<1> DEFINE k == client.currentId
           h == Head(board)
           t == Tail(board)
<1>1. /\ board # <<>> /\ board' = t /\ acks' = Append(acks, h.id)
      /\ UNCHANGED <<client, line, given, flushed, collisions, starts>>
  BY DEF BoardReaches
<1>2. Flight(k, line, board, acks) /\ k \in Nat /\ Ordered(line, board)
  BY DEF Inv, ClientOK, Client
<1>3. /\ Flight(k, line, t, acks') /\ Ordered(line, t)
      /\ Awaited(line, t, acks') = Awaited(line, board, acks)
  BY <1>1, <1>2, GoalTaken, GoalOrdered
<1>4. /\ line \in Seq(WOrder) /\ board \in Seq(WOrder) /\ acks \in Seq(Nat)
      /\ Len(line) \in Nat /\ Len(board) \in Nat /\ Len(acks) \in Nat
  BY <1>2, LenProperties DEF Flight
<1>5. /\ h \in WOrder /\ t \in Seq(WOrder) /\ Len(board) = Len(t) + 1
      /\ ToSet(board) = {h} \cup ToSet(t)
  BY <1>1, <1>4, Shortened
<1>6. Len(t) \in Nat /\ h.id \in Nat
  BY <1>5, LenProperties DEF WOrder
<1>7. Len(acks') = Len(acks) + 1
  BY <1>1, <1>4, <1>6, Appended
<1> HIDE DEF h, t
<1>8. Inv'
  BY <1>1, <1>3, <1>5, BoardStep
<1>9. Out' = Out
  BY <1>1, <1>4, <1>5, <1>6, <1>7 DEF Out
<1> QED
  BY <1>1, <1>4, <1>8, <1>9 DEF Surplus, Out

LEMMA InitInv == Init => Inv
<1> SUFFICES ASSUME Init PROVE Inv
  OBVIOUS
<1> USE ClientAssumption
<1>1. /\ <<>> \in Seq(Order) /\ <<>> \in Seq(WOrder) /\ <<>> \in Seq(Nat)
      /\ <<>> \in Seq(1 .. MaxOrders) /\ Len(<<>>) = 0 /\ ToSet(<<>>) = {}
      /\ Once(<<>>)
  BY EmptyOnce
<1>2. /\ client.fifo = <<>> /\ client.order_in_progress = FALSE
      /\ client.currentId = 1 /\ client.ordersCallback = {}
      /\ client.messages = <<>> /\ client.written = <<>>
      /\ line = <<>> /\ board = <<>> /\ acks = <<>>
      /\ given = 0 /\ flushed = 0 /\ collisions = 0 /\ starts = 0 /\ Bypassed = 0
  BY DEF Init, Constructed, Bypassed
<1>3. client \in Client
  BY <1>1 DEF Init, Constructed, Client
<1>4. ClientOK(client, given, Bypassed)
  BY <1>1, <1>2, <1>3 DEF ClientOK, Listed
<1>5. Flight(client.currentId, line, board, acks)
  BY <1>1, <1>2 DEF Flight, Apart
<1>6. Callbacks /\ NoClean
  BY <1>1, <1>2 DEF Callbacks, Awaited, NoClean
<1>7. OrdersFresh /\ Ordered(line, board)
  BY <1>1, <1>2 DEF OrdersFresh, Fresh, OldMessages, Stale, Past, Ordered
<1> QED
  BY <1>2, <1>4, <1>5, <1>6, <1>7 DEF Inv, Counters

LEMMA NextInv == Inv /\ [Next]_vars => Inv'
<1> SUFFICES ASSUME Inv, [Next]_vars PROVE Inv'
  OBVIOUS
<1>1. CASE AddOrderToFifo
  BY <1>1, AddOrderKeepsInv
<1>2. CASE Collision
  BY <1>2, CollisionKeepsInv
<1>3. CASE DoStartSequence
  BY <1>3, StartKeepsInv
<1>4. CASE Acknowledged
  BY <1>4, AcknowledgedKeepsInv
<1>5. CASE BoardReceives
  BY <1>5, BoardReceivesKeepsInv
<1>6. CASE BoardReaches
  BY <1>6, BoardReachesKeepsInv
<1>7. CASE UNCHANGED vars
  <2>1. /\ client' = client /\ line' = line /\ board' = board /\ acks' = acks
        /\ given' = given /\ flushed' = flushed /\ collisions' = collisions
        /\ starts' = starts
    BY <1>7 DEF vars
  <2> QED
    BY <2>1 DEF Inv, Counters, Callbacks, NoClean, OrdersFresh, Bypassed
<1> QED
  BY <1>1, <1>2, <1>3, <1>4, <1>5, <1>6, <1>7 DEF Next

(* Whatever handlers, lines and the board do, in any order, the client     *)
(* keeps its fifo, its ids and its callbacks as its calls take them to be. *)
THEOREM Invariance == Spec => []Inv
BY InitInv, NextInv, PTL DEF Spec
-----------------------------------------------------------------------------
LEMMA Retyped ==
  ASSUME NEW S, NEW T, NEW s \in Seq(S), \A x \in ToSet(s) : x \in T
  PROVE  s \in Seq(T)
<1>1. Len(s) \in Nat /\ s \in [1 .. Len(s) -> S]
      /\ \A i \in 1 .. Len(s) : s[i] \in ToSet(s)
  BY LenProperties, ElementsOf
<1>2. s \in [1 .. Len(s) -> T]
  BY <1>1
<1> QED
  BY <1>1, <1>2, SeqDef

LEMMA InvTypes == Inv => ClientTypeOK
<1> SUFFICES ASSUME Inv PROVE ClientTypeOK
  OBVIOUS
<1> USE ClientAssumption
<1> DEFINE k == client.currentId
<1>1. /\ given \in 0 .. MaxOrders /\ collisions \in 0 .. MaxCollisions
      /\ starts \in 0 .. MaxStarts
  BY DEF Inv, Counters
<1>2. client \in Client /\ 1 <= k /\ k <= given + Bypassed + 1 /\ k \in Nat
      /\ client.written = <<>> /\ client.ordersCallback \subseteq 1 .. k - 1
  BY DEF Inv, ClientOK, Client, Callbacks
<1>3. MaxId \in Nat /\ k \in 1 .. MaxId + 1
  BY <1>1, <1>2 DEF MaxId, Bypassed
<1>4. \A x \in 1 .. k - 1 : x \in 1 .. MaxId
  BY <1>2, <1>3
<1>5. client \in [fifo : Seq(Order), order_in_progress : BOOLEAN,
                  currentId : 1 .. MaxId + 1,
                  ordersCallback : SUBSET (1 .. MaxId),
                  messages : Seq(1 .. MaxOrders), written : {<<>>}]
  BY <1>2, <1>3, <1>4 DEF Client
<1>6. /\ line \in Seq(WOrder) /\ board \in Seq(WOrder) /\ acks \in Seq(Nat)
      /\ Apart(ToSet(line), ToSet(board), ToSet(acks), k)
  BY DEF Inv, Flight
<1>7. /\ \A o \in ToSet(line) \cup ToSet(board) : o \in WOrder /\ o.id \in 1 .. MaxId
      /\ \A x \in ToSet(acks) : x \in 1 .. MaxId
  BY <1>4, <1>6, ElementsOf DEF Apart
<1>8. \A o \in WOrder : o.id \in 1 .. MaxId => o \in OnLine
  BY DEF WOrder, OnLine
<1>9. line \in Seq(OnLine) /\ board \in Seq(OnLine) /\ acks \in Seq(1 .. MaxId)
  BY <1>6, <1>7, <1>8, Retyped
<1> QED
  BY <1>5, <1>9 DEF ClientTypeOK

(* At any time, the objects of the client and the lines are what their     *)
(* readers take them for, and no id is used that no order was given.       *)
THEOREM ClientTypes == Spec => []ClientTypeOK
BY Invariance, InvTypes, PTL

LEMMA InvSurplus ==
  Inv /\ [Next]_vars =>
    [Surplus' <= Surplus + 2 * (starts' - starts)
                         + 3 * (collisions' - collisions)]_vars
<1> SUFFICES ASSUME Inv, Next
             PROVE  Surplus' <= Surplus + 2 * (starts' - starts)
                                        + 3 * (collisions' - collisions)
  OBVIOUS
<1>1. collisions \in Int /\ starts \in Int
  BY ClientAssumption DEF Inv, Counters
<1>2. Surplus \in Int
  <2>1. line \in Seq(WOrder) /\ board \in Seq(WOrder) /\ acks \in Seq(Nat)
    BY DEF Inv, Flight
  <2>2. Len(line) \in Nat /\ Len(board) \in Nat /\ Len(acks) \in Nat
    BY <2>1, LenProperties
  <2> QED
    BY <2>2 DEF Surplus, Out
<1>3. CASE Collision
  <2>1. Surplus' <= Surplus + 3
    BY <1>3, CollisionKeepsInv
  <2>2. collisions' = collisions + 1 /\ starts' = starts
    BY <1>3 DEF Collision
  <2> QED
    BY <1>1, <1>2, <2>1, <2>2
<1>4. CASE DoStartSequence
  <2>1. Surplus' <= Surplus + 2
    BY <1>4, StartKeepsInv
  <2>2. collisions' = collisions /\ starts' = starts + 1
    BY <1>4 DEF DoStartSequence
  <2> QED
    BY <1>1, <1>2, <2>1, <2>2
<1>5. CASE AddOrderToFifo \/ Acknowledged \/ BoardReceives \/ BoardReaches
  <2>1. Surplus' <= Surplus
    BY <1>5, AddOrderKeepsInv, AcknowledgedKeepsInv, BoardReceivesKeepsInv,
       BoardReachesKeepsInv
  <2>2. collisions' = collisions /\ starts' = starts
    BY <1>5 DEF AddOrderToFifo, Acknowledged, BoardReceives, BoardReaches
  <2>3. starts' - starts = 0 /\ collisions' - collisions = 0
    BY <1>1, <2>2
  <2>4. Surplus + 2 * 0 + 3 * 0 = Surplus
    BY <1>2
  <2> QED
    BY <2>1, <2>3, <2>4
<1> QED
  BY <1>3, <1>4, <1>5 DEF Next

(* For any number of orders, collisions and start sequences, in any order: *)
(* the orders out exceed what the fifo has in progress only by what        *)
(* bypassed it.  No late, lost or surplus acknowledgement adds to them.    *)
THEOREM OnlyBypasses == Spec => OnlyBypassesAddOrders
<1>1. Spec => []Inv
  BY Invariance
<1> QED
  BY <1>1, InvSurplus, PTL DEF Spec, OnlyBypassesAddOrders

LEMMA InvPathFinished == Inv => PathFinishedMeansArrived
<1> SUFFICES ASSUME Inv, Surplus <= 0,
                    NEW i \in 1 .. Len(client.messages), NEW o \in Moves, o.nr > flushed
             PROVE  client.messages[i] < o.nr
  BY DEF PathFinishedMeansArrived, MessageMeansArrived
<1> DEFINE F == ToSet(line) \cup ToSet(board)
<1>1. /\ line \in Seq(WOrder) /\ board \in Seq(WOrder) /\ acks \in Seq(Nat)
      /\ Len(line) \in Nat /\ Len(board) \in Nat /\ Len(acks) \in Nat
  <2>1. line \in Seq(WOrder) /\ board \in Seq(WOrder) /\ acks \in Seq(Nat)
    BY DEF Inv, Flight
  <2> QED
    BY <2>1, LenProperties
<1>2. /\ ToSet(line) = {line[x] : x \in 1 .. Len(line)}
      /\ ToSet(board) = {board[x] : x \in 1 .. Len(board)}
      /\ ToSet(acks) = {acks[x] : x \in 1 .. Len(acks)}
  BY <1>1, ElementsOf
<1>3. o \in F /\ Len(line) + Len(board) # 0
  <2>1. o \in F
    BY DEF Moves
  <2>2. CASE Len(line) + Len(board) = 0
    <3>1. Len(line) = 0 /\ Len(board) = 0
      BY <1>1, <2>2
    <3>2. F = {}
      BY <1>2, <3>1
    <3> QED
      BY <2>1, <3>2
  <2> QED
    BY <2>1, <2>2
<1>4. client.order_in_progress /\ Len(line) + Len(board) = 1 /\ Len(acks) = 0
  BY <1>1, <1>3 DEF Surplus, Out
<1>5. \A x \in F : x = o
  <2>1. CASE Len(line) = 1 /\ Len(board) = 0
    BY <1>2, <1>3, <2>1
  <2>2. CASE Len(line) = 0 /\ Len(board) = 1
    BY <1>2, <1>3, <2>2
  <2>3. \/ Len(line) = 1 /\ Len(board) = 0
        \/ Len(line) = 0 /\ Len(board) = 1
    <3>1. \A a, b \in Nat : a + b = 1 => (a = 1 /\ b = 0) \/ (a = 0 /\ b = 1)
      OBVIOUS
    <3>2. Len(line) \in Nat /\ Len(board) \in Nat /\ Len(line) + Len(board) = 1
      BY <1>1, <1>4
    <3> QED
      BY <3>1, <3>2, Zenon
  <2> QED
    BY <2>1, <2>2, <2>3
<1>6. Past(F, flushed) \/ \E k \in Awaited(line, board, acks) : Current(client, F, k)
  BY <1>4 DEF Inv, OrdersFresh, Fresh
<1>7. CASE Past(F, flushed)
  <2>1. o.nr <= flushed /\ o.nr \in Int /\ flushed \in Int
    <3>1. o \in WOrder
      BY <1>1, <1>3, ElementsOf
    <3> QED
      BY <1>3, <1>7, <3>1, ClientAssumption DEF Past, WOrder, Inv, Counters
  <2> QED
    BY <2>1
<1>8. CASE \E k \in Awaited(line, board, acks) : Current(client, F, k)
  <2>1. PICK k \in Awaited(line, board, acks) : Current(client, F, k)
    BY <1>8
  <2>2. ToSet(acks) = {}
    BY <1>2, <1>4
  <2>3. k = o.id
    BY <1>5, <2>1, <2>2 DEF Awaited
  <2> QED
    BY <1>3, <2>1, <2>3 DEF Current, Newer
<1> QED
  BY <1>6, <1>7, <1>8

(* A message is sent to the IA when every move ordered before it is over,  *)
(* whenever no more is out than in progress: for any number of orders,     *)
(* collisions and start sequences, once what each put out is acknowledged. *)
THEOREM PathFinished == Spec => []PathFinishedMeansArrived
BY Invariance, InvPathFinished, PTL

LEMMA InvCallbacks == Inv => CallbacksAreAwaited
BY DEF Inv, Callbacks, Awaited, CallbacksAreAwaited

(* An acknowledgement finds its callback, after any collisions and start   *)
(* sequences; without a collision no callback is kept for nothing.         *)
THEOREM CallbacksAwaited == Spec => []CallbacksAreAwaited
BY Invariance, InvCallbacks, PTL
=============================================================================
