-------------------------- MODULE PathfindingProofs --------------------------
(***************************************************************************)
(* The front of the path finder keeps its promises whatever the number of  *)
(* queries and however the program delays or withholds its answers.        *)
(*                                                                         *)
(* The invariant of a state p of the front has three parts, Typed, Matched *)
(* and Served.  Only the first two hold when a closure calls the callback  *)
(* (busy is FALSE and queries may still be pending): CallbackThenNext      *)
(* restores the third.                                                     *)
(***************************************************************************)
EXTENDS Pathfinding, SequenceTheorems, TLAPS

Typed(p) ==
  p \in [busy : BOOLEAN, pendingQueries : Seq(Query),
         callbacksFifo : Seq(Sent), timers : Seq(Sent),
         started : 0 .. MaxQueries, silenced : SUBSET (1 .. MaxQueries),
         stdin : Seq(1 .. MaxQueries)]

Matched(p) ==
  /\ Len(p.callbacksFifo) = Len(p.stdin)
  /\ \A i \in 1 .. Len(p.stdin) : p.callbacksFifo[i].nr = p.stdin[i]

LastIsTimed(p) ==
  p.timers # <<>> /\ p.timers[Len(p.timers)].nr = p.started

Served(p) ==
  /\ p.pendingQueries # <<>> => p.busy
  /\ p.busy => LastIsTimed(p)

Inv(p) == Typed(p) /\ Matched(p) /\ Served(p) /\ Asked(p) <= MaxQueries

-----------------------------------------------------------------------------
(* A query is sent: it gets the next number, in the three sequences, and  *)
(* the timer that runs last.                                               *)
LEMMA PrepareCorrect ==
  ASSUME NEW p, NEW q \in Query,
         Typed(p), Matched(p), p.started < MaxQueries
  PROVE  LET r == prepareAndDoQuery(p, q) IN
         /\ Typed(r) /\ Matched(r) /\ r.busy /\ LastIsTimed(r)
         /\ r.started = p.started + 1
         /\ r.pendingQueries = p.pendingQueries
<1> DEFINE n == p.started + 1
           e == [nr |-> n, query |-> q]
           f == Append(p.callbacksFifo, e)
           t == Append(p.timers, e)
           s == Append(p.stdin, n)
           r == [busy |-> TRUE, pendingQueries |-> p.pendingQueries,
                 callbacksFifo |-> f, timers |-> t, started |-> n,
                 silenced |-> p.silenced, stdin |-> s]
<1>1. /\ p.pendingQueries \in Seq(Query) /\ p.callbacksFifo \in Seq(Sent)
      /\ p.timers \in Seq(Sent) /\ p.started \in 0 .. MaxQueries
      /\ p.silenced \in SUBSET (1 .. MaxQueries)
      /\ p.stdin \in Seq(1 .. MaxQueries)
  BY DEF Typed
<1>2. n \in 1 .. MaxQueries /\ e \in Sent /\ e.nr = n
  BY <1>1, PathfindingAssumption DEF Sent
<1> HIDE DEF n, e
<1>3. /\ f \in Seq(Sent) /\ Len(f) = Len(p.callbacksFifo) + 1
      /\ \A i \in 1 .. Len(p.callbacksFifo) : f[i] = p.callbacksFifo[i]
      /\ f[Len(p.callbacksFifo) + 1] = e
  BY <1>1, <1>2, AppendProperties
<1>4. /\ t \in Seq(Sent) /\ t # <<>> /\ t[Len(t)] = e
  BY <1>1, <1>2, AppendProperties
<1>5. /\ s \in Seq(1 .. MaxQueries) /\ Len(s) = Len(p.stdin) + 1
      /\ \A i \in 1 .. Len(p.stdin) : s[i] = p.stdin[i]
      /\ s[Len(p.stdin) + 1] = n
  BY <1>1, <1>2, AppendProperties
<1> HIDE DEF f, t, s
<1>6. Typed(r)
  BY <1>1, <1>2, <1>3, <1>4, <1>5 DEF Typed
<1>7. Matched(r)
  <2>1. Len(p.callbacksFifo) = Len(p.stdin) /\ Len(p.stdin) \in Nat
    BY <1>1, LenProperties DEF Matched
  <2>2. ASSUME NEW i \in 1 .. Len(s)
        PROVE  f[i].nr = s[i]
    <3>1. CASE i \in 1 .. Len(p.stdin)
      BY <3>1, <2>1, <1>3, <1>5 DEF Matched
    <3>2. CASE i = Len(p.stdin) + 1
      BY <3>2, <2>1, <1>2, <1>3, <1>5
    <3> QED
      BY <3>1, <3>2, <2>1, <1>5
  <2> QED
    BY <2>1, <2>2, <1>3, <1>5 DEF Matched
<1>8. r.busy /\ LastIsTimed(r) /\ r.started = n
      /\ r.pendingQueries = p.pendingQueries
  BY <1>2, <1>4 DEF LastIsTimed
<1>9. r = prepareAndDoQuery(p, q)
  BY DEF prepareAndDoQuery, r, f, t, s, e, n
<1> HIDE DEF r
<1> QED
  BY <1>6, <1>7, <1>8, <1>9 DEF n

(* A pending sequence is replaced: nothing else of the invariant moves. *)
LEMMA PendingReplaced ==
  ASSUME NEW p, NEW s \in Seq(Query), Typed(p), Matched(p),
         NEW r, r = [p EXCEPT !.pendingQueries = s]
  PROVE  /\ Typed(r) /\ Matched(r) /\ r.pendingQueries = s
         /\ r.started = p.started /\ r.busy = p.busy
         /\ LastIsTimed(p) => LastIsTimed(r)
  BY DEF Typed, Matched, LastIsTimed

(* getPath sends the query or makes it wait; it counts one more. *)
LEMMA GetPathCorrect ==
  ASSUME NEW p, NEW q \in Query,
         Typed(p), Matched(p), p.busy => LastIsTimed(p),
         Asked(p) < MaxQueries
  PROVE  LET r == getPath(p, q) IN
         /\ Typed(r) /\ Matched(r) /\ r.busy /\ LastIsTimed(r)
         /\ Asked(r) = Asked(p) + 1
<1>1. /\ p.pendingQueries \in Seq(Query) /\ p.started \in Nat
      /\ Len(p.pendingQueries) \in Nat
  BY LenProperties, PathfindingAssumption DEF Typed
<1>2. CASE p.busy
  <2> DEFINE s == Append(p.pendingQueries, q)
  <2>1. s \in Seq(Query) /\ Len(s) = Len(p.pendingQueries) + 1
    BY <1>1, AppendProperties
  <2> HIDE DEF s
  <2> DEFINE r == getPath(p, q)
  <2>2. r = [p EXCEPT !.pendingQueries = s]
    BY <1>2 DEF getPath, s
  <2> HIDE DEF r
  <2>3. /\ Typed(r) /\ Matched(r) /\ r.busy /\ LastIsTimed(r)
        /\ r.pendingQueries = s /\ r.started = p.started
    BY <1>2, <2>1, <2>2, PendingReplaced
  <2>4. Asked(r) = Asked(p) + 1
    BY <1>1, <2>1, <2>3 DEF Asked
  <2> QED
    BY <2>3, <2>4 DEF r
<1>3. CASE ~p.busy
  <2>1. p.started < MaxQueries
    BY <1>1, PathfindingAssumption DEF Asked
  <2> QED
    BY <1>1, <1>3, <2>1, PrepareCorrect DEF getPath, Asked
<1> QED
  BY <1>2, <1>3

(* Whatever the callback asks, the front ends up serving what is pending. *)
LEMMA CallbackCorrect ==
  ASSUME NEW p, NEW next \in MayAsk,
         Typed(p), Matched(p), ~p.busy, Asked(p) = Asked(pf),
         Asked(pf) <= MaxQueries
  PROVE  Inv(CallbackThenNext(p, next))
<1> DEFINE asked == IF next = NoQuery THEN p ELSE getPath(p, next)
<1>1. /\ Typed(asked) /\ Matched(asked)
      /\ asked.busy => LastIsTimed(asked)
      /\ Asked(asked) <= MaxQueries /\ asked.started \in Nat
      /\ asked.pendingQueries \in Seq(Query)
  <2>1. /\ Typed(asked) /\ Matched(asked)
        /\ asked.busy => LastIsTimed(asked)
        /\ Asked(asked) <= MaxQueries
    <3>1. CASE next = NoQuery
      BY <3>1
    <3>2. CASE next # NoQuery
      <4>1. next \in Query /\ Asked(pf) < MaxQueries
        BY <3>2 DEF MayAsk
      <4>2. Asked(p) \in Int
        BY LenProperties, PathfindingAssumption DEF Typed, Asked
      <4> QED
        BY <3>2, <4>1, <4>2, GetPathCorrect, PathfindingAssumption
    <3> QED
      BY <3>1, <3>2
  <2> HIDE DEF asked
  <2> QED
    BY <2>1, PathfindingAssumption DEF Typed
<1>2. CallbackThenNext(p, next) =
        IF asked.pendingQueries = <<>> THEN asked
        ELSE prepareAndDoQuery([asked EXCEPT !.pendingQueries = Tail(@)],
                               Head(asked.pendingQueries))
  BY DEF CallbackThenNext
<1> HIDE DEF asked
<1>3. CASE asked.pendingQueries = <<>>
  BY <1>1, <1>2, <1>3 DEF Inv, Served
<1>4. CASE asked.pendingQueries # <<>>
  <2> DEFINE s == Tail(asked.pendingQueries)
             b == [asked EXCEPT !.pendingQueries = s]
             r == prepareAndDoQuery(b, Head(asked.pendingQueries))
  <2>1. /\ s \in Seq(Query) /\ Head(asked.pendingQueries) \in Query
        /\ Len(s) = Len(asked.pendingQueries) - 1 /\ Len(s) \in Nat
    BY <1>1, <1>4, HeadTailProperties, LenProperties
  <2> HIDE DEF s
  <2>a. b = [asked EXCEPT !.pendingQueries = s]
    BY DEF b, s
  <2> HIDE DEF b
  <2>2. /\ Typed(b) /\ Matched(b) /\ b.started = asked.started
        /\ b.pendingQueries = s
    BY <1>1, <2>1, <2>a, PendingReplaced
  <2>3. b.started < MaxQueries
    BY <1>1, <2>1, <2>2, PathfindingAssumption DEF Asked
  <2>4. /\ Typed(r) /\ Matched(r) /\ r.busy /\ LastIsTimed(r)
        /\ r.started = b.started + 1 /\ r.pendingQueries = s
    BY <2>1, <2>2, <2>3, PrepareCorrect
  <2>5. CallbackThenNext(p, next) = r
    BY <1>2, <1>4 DEF b, s
  <2> HIDE DEF r
  <2> QED
    BY <1>1, <2>1, <2>2, <2>4, <2>5, PathfindingAssumption
       DEF Inv, Served, Asked
<1> QED
  BY <1>3, <1>4

-----------------------------------------------------------------------------
(* A timer is kept or the last one is dropped. *)
LEMMA ClearTimeoutType ==
  ASSUME NEW p, Typed(p)
  PROVE  ClearTimeout(p) \in Seq(Sent)
<1>1. p.timers \in Seq(Sent)
  BY DEF Typed
<1>2. CASE p.timers # <<>> /\ p.timers[Len(p.timers)].nr = p.started
  <2>1. 0 \in 0 .. Len(p.timers) /\ Len(p.timers) \in Nat \ {0}
    BY <1>1, <1>2, EmptySeq, LenProperties
  <2> QED
    BY <1>1, <1>2, <2>1, SubSeqProperties DEF ClearTimeout
<1> QED
  BY <1>1, <1>2 DEF ClearTimeout

(* An answer takes the head of both queues, which stay matched. *)
LEMMA AnsweredCorrect ==
  ASSUME NEW p, Typed(p), Matched(p), p.stdin # <<>>
  PROVE  LET r == Answered(p) IN
         /\ Typed(r) /\ Matched(r) /\ ~r.busy /\ Asked(r) = Asked(p)
<1> DEFINE t == ClearTimeout(p)
           f == Tail(p.callbacksFifo)
           s == Tail(p.stdin)
           r == [p EXCEPT !.busy = FALSE, !.timers = t,
                          !.callbacksFifo = f, !.stdin = s]
<1>1. p.stdin \in Seq(1 .. MaxQueries) /\ p.callbacksFifo \in Seq(Sent)
  BY DEF Typed
<1>2. p.callbacksFifo # <<>>
  BY <1>1, EmptySeq, LenProperties DEF Matched
<1>3. /\ s \in Seq(1 .. MaxQueries) /\ Len(s) = Len(p.stdin) - 1
      /\ \A i \in 1 .. Len(s) : s[i] = p.stdin[i + 1]
  BY <1>1, HeadTailProperties
<1>4. /\ f \in Seq(Sent) /\ Len(f) = Len(p.callbacksFifo) - 1
      /\ \A i \in 1 .. Len(f) : f[i] = p.callbacksFifo[i + 1]
  BY <1>1, <1>2, HeadTailProperties
<1>5. t \in Seq(Sent)
  BY ClearTimeoutType
<1> HIDE DEF t, f, s
<1>6. Typed(r)
  BY <1>3, <1>4, <1>5 DEF Typed
<1>7. r.callbacksFifo = f /\ r.stdin = s /\ r.busy = FALSE
      /\ r.pendingQueries = p.pendingQueries /\ r.started = p.started
  BY DEF Typed
<1> HIDE DEF r
<1>8. Matched(r)
  <2>1. Len(p.callbacksFifo) = Len(p.stdin) /\ Len(p.stdin) \in Nat
    BY <1>1, LenProperties DEF Matched
  <2> QED
    BY <2>1, <1>3, <1>4, <1>7 DEF Matched
<1>9. r = Answered(p)
  BY DEF Answered, r, t, f, s
<1> QED
  BY <1>6, <1>7, <1>8, <1>9 DEF Asked

(* A timeout leaves the queues as they are: the late answer is awaited. *)
LEMMA TimedOutCorrect ==
  ASSUME NEW p, Typed(p), Matched(p), p.timers # <<>>
  PROVE  LET r == TimedOut(p) IN
         /\ Typed(r) /\ Matched(r) /\ ~r.busy /\ Asked(r) = Asked(p)
<1> DEFINE t == Tail(p.timers)
           c == p.silenced \cup {Head(p.timers).nr}
           r == [p EXCEPT !.busy = FALSE, !.timers = t, !.silenced = c]
<1>1. /\ p.timers \in Seq(Sent) /\ p.silenced \in SUBSET (1 .. MaxQueries)
  BY DEF Typed
<1>2. t \in Seq(Sent) /\ Head(p.timers) \in Sent
  BY <1>1, HeadTailProperties
<1>3. c \in SUBSET (1 .. MaxQueries)
  BY <1>1, <1>2 DEF Sent
<1> HIDE DEF t, c
<1>4. Typed(r)
  BY <1>2, <1>3 DEF Typed
<1>5. /\ r.callbacksFifo = p.callbacksFifo /\ r.stdin = p.stdin
      /\ r.busy = FALSE /\ r.pendingQueries = p.pendingQueries
      /\ r.started = p.started
  BY DEF Typed
<1> HIDE DEF r
<1>6. r = TimedOut(p)
  BY DEF TimedOut, r, t, c
<1> QED
  BY <1>4, <1>5, <1>6 DEF Matched, Asked

-----------------------------------------------------------------------------
LEMMA InitInv == Init => Inv(pf)
<1> SUFFICES ASSUME Init PROVE Inv(pf)
  OBVIOUS
<1>1. pf = Constructed
  BY DEF Init
<1>2. Typed(Constructed)
  BY PathfindingAssumption DEF Typed, Constructed
<1>3. /\ Matched(Constructed) /\ Served(Constructed)
      /\ Asked(Constructed) <= MaxQueries
  BY EmptySeq, PathfindingAssumption
     DEF Matched, Served, Asked, Constructed
<1> QED
  BY <1>1, <1>2, <1>3 DEF Inv

LEMMA NextInv == Inv(pf) /\ [Next]_pf => Inv(pf')
<1> SUFFICES ASSUME Inv(pf), [Next]_pf PROVE Inv(pf')
  OBVIOUS
<1>1. Typed(pf) /\ Matched(pf) /\ Served(pf) /\ Asked(pf) <= MaxQueries
  BY DEF Inv
<1>2. CASE Ask
  <2>1. PICK q \in Query : Asked(pf) < MaxQueries /\ pf' = getPath(pf, q)
    BY <1>2 DEF Ask
  <2>2. Asked(pf) \in Int
    BY <1>1, LenProperties, PathfindingAssumption DEF Typed, Asked
  <2> QED
    BY <1>1, <2>1, <2>2, GetPathCorrect, PathfindingAssumption
       DEF Inv, Served
<1>3. CASE Answer
  <2>1. PICK next \in MayAsk : pf' = CallbackThenNext(Answered(pf), next)
    BY <1>3 DEF Answer
  <2>2. /\ Typed(Answered(pf)) /\ Matched(Answered(pf))
        /\ ~Answered(pf).busy /\ Asked(Answered(pf)) = Asked(pf)
    BY <1>1, <1>3, AnsweredCorrect DEF Answer
  <2> QED
    BY <1>1, <2>1, <2>2, CallbackCorrect
<1>4. CASE Timeout
  <2>1. PICK next \in MayAsk : pf' = CallbackThenNext(TimedOut(pf), next)
    BY <1>4 DEF Timeout
  <2>2. /\ Typed(TimedOut(pf)) /\ Matched(TimedOut(pf))
        /\ ~TimedOut(pf).busy /\ Asked(TimedOut(pf)) = Asked(pf)
    BY <1>1, <1>4, TimedOutCorrect DEF Timeout
  <2> QED
    BY <1>1, <2>1, <2>2, CallbackCorrect
<1>5. CASE UNCHANGED pf
  BY <1>1, <1>5 DEF Inv
<1> QED
  BY <1>2, <1>3, <1>4, <1>5 DEF Next

(* The front of the path finder: an answer always goes to the callback of *)
(* the query it answers, however many queries have timed out, and pending  *)
(* queries always have the timer of a sent one to wait for.                *)
THEOREM PathfindingSafe ==
  Spec => [](PathfindingTypeOK /\ AnswersGoToTheirQuery /\ PendingWillBeServed)
<1>1. Inv(pf) =>
        PathfindingTypeOK /\ AnswersGoToTheirQuery /\ PendingWillBeServed
  BY DEF Inv, Typed, Matched, Served, LastIsTimed, PathfindingTypeOK,
         AnswersGoToTheirQuery, PendingWillBeServed
<1>2. Inv(pf) /\ [Next]_pf => Inv(pf)'
  BY NextInv DEF Inv, Typed, Matched, Served, LastIsTimed, Asked
<1> QED
  BY InitInv, <1>1, <1>2, PTL DEF Spec
=============================================================================
