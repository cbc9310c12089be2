---------------------------- MODULE PlannerProofs ----------------------------
(***************************************************************************)
(* The plan stays consistent for any number of robots, actions, searches   *)
(* and emergency stops, however the answers of the path program are late.  *)
(*                                                                         *)
(* The invariant Inv has two parts.  FrontOK(pf): every query that was     *)
(* asked and is not answered is in the front once.  Plan(r): for the robot *)
(* r, what is to do, in progress and done exclude each other, and the      *)
(* queries of its last search that are still in the front, and the         *)
(* candidates that search has left, are actions to do, all different.  An  *)
(* answer can then only begin an action that is to do, and the one it      *)
(* begins is in no other query of the same search.                         *)
(*                                                                         *)
(* Two more invariants stand on it.  Loop: the numbers of the front tell   *)
(* which queries are still awaited (Numbered), and a robot without action  *)
(* or retry timer awaits one of its last search.  History: the queries     *)
(* ever asked are all different, so that there are never more than the     *)
(* module Pathfinding allows, and the planner is one of its users.         *)
(***************************************************************************)
EXTENDS Planner, SequenceTheorems, FiniteSetTheorems, TLAPS

Entry == [nr : Nat, query : PathQuery]

Typed(p) ==
  /\ p \in [busy : BOOLEAN, pendingQueries : Seq(PathQuery),
            callbacksFifo : Seq(Entry), timers : Seq(Entry), started : Nat,
            silenced : SUBSET Nat, stdin : Seq(Nat)]
  /\ Len(p.callbacksFifo) = Len(p.stdin)

\* The queries asked and not yet answered.
Waiting(p)  == {p.pendingQueries[i] : i \in 1 .. Len(p.pendingQueries)}
Sending(p)  == {p.callbacksFifo[i].query : i \in 1 .. Len(p.callbacksFifo)}
Asked(p)    == Waiting(p) \cup Sending(p)

Once(p) ==
  /\ \A i, j \in 1 .. Len(p.pendingQueries) :
       p.pendingQueries[i] = p.pendingQueries[j] => i = j
  /\ \A i, j \in 1 .. Len(p.callbacksFifo) :
       p.callbacksFifo[i].query = p.callbacksFifo[j].query => i = j
  /\ Waiting(p) \cap Sending(p) = {}

FrontOK(p) == Typed(p) /\ Once(p)

-----------------------------------------------------------------------------
(* The queries of a sequence when one is appended or the first taken away. *)
LEMMA AppendOnce ==
  ASSUME NEW S, NEW s \in Seq(S), NEW x \in S
  PROVE  LET t == Append(s, x) IN
         /\ t \in Seq(S) /\ Len(t) = Len(s) + 1 /\ Len(s) \in Nat
         /\ \A i \in 1 .. Len(s) : t[i] = s[i]
         /\ t[Len(s) + 1] = x
  BY AppendProperties, LenProperties

LEMMA TailOnce ==
  ASSUME NEW S, NEW s \in Seq(S), s # <<>>
  PROVE  LET t == Tail(s) IN
         /\ t \in Seq(S) /\ Len(s) \in Nat /\ Len(s) >= 1
         /\ Len(t) = Len(s) - 1 /\ Len(t) \in Nat
         /\ \A i \in 1 .. Len(t) : t[i] = s[i + 1]
         /\ Head(s) = s[1] /\ s[1] \in S
  BY HeadTailProperties, LenProperties, EmptySeq

(* A query that is nowhere in the front is sent to the program. *)
LEMMA PrepareAsks ==
  ASSUME NEW p, NEW q \in PathQuery, FrontOK(p), q \notin Asked(p)
  PROVE  LET r == PF!prepareAndDoQuery(p, q) IN
         /\ FrontOK(r) /\ Asked(r) = Asked(p) \cup {q}
         /\ r.pendingQueries = p.pendingQueries
<1> DEFINE e == [nr |-> p.started + 1, query |-> q]
           f == Append(p.callbacksFifo, e)
           t == Append(p.timers, e)
           s == Append(p.stdin, p.started + 1)
           r == [busy |-> TRUE, pendingQueries |-> p.pendingQueries,
                 callbacksFifo |-> f, timers |-> t, started |-> p.started + 1,
                 silenced |-> p.silenced, stdin |-> s]
<1>1. /\ p.pendingQueries \in Seq(PathQuery) /\ p.callbacksFifo \in Seq(Entry)
      /\ p.timers \in Seq(Entry) /\ p.started \in Nat
      /\ p.silenced \in SUBSET Nat /\ p.stdin \in Seq(Nat)
      /\ Len(p.callbacksFifo) = Len(p.stdin)
  BY DEF FrontOK, Typed
<1>2. e \in Entry /\ e.query = q /\ p.started + 1 \in Nat
  BY <1>1 DEF Entry
<1> HIDE DEF e
<1>3. /\ f \in Seq(Entry) /\ Len(f) = Len(p.callbacksFifo) + 1
      /\ Len(p.callbacksFifo) \in Nat
      /\ \A i \in 1 .. Len(p.callbacksFifo) : f[i] = p.callbacksFifo[i]
      /\ f[Len(p.callbacksFifo) + 1] = e
  BY <1>1, <1>2, AppendOnce
<1>4. t \in Seq(Entry)
  BY <1>1, <1>2, AppendOnce
<1>5. s \in Seq(Nat) /\ Len(s) = Len(p.stdin) + 1
  BY <1>1, <1>2, AppendOnce
<1> HIDE DEF f, t, s
<1>6. Typed(r)
  BY <1>1, <1>2, <1>3, <1>4, <1>5 DEF Typed
<1>7. Waiting(r) = Waiting(p)
  BY DEF Waiting
<1>8. Sending(r) = Sending(p) \cup {q}
  <2>1. ASSUME NEW i \in 1 .. Len(f)
        PROVE  f[i].query \in Sending(p) \cup {q}
    BY <1>2, <1>3 DEF Sending
  <2>2. ASSUME NEW x \in Sending(p) \cup {q}
        PROVE  \E i \in 1 .. Len(f) : f[i].query = x
    <3>1. CASE x = q
      BY <3>1, <1>2, <1>3
    <3>2. CASE x \in Sending(p)
      BY <3>2, <1>3 DEF Sending
    <3> QED
      BY <3>1, <3>2
  <2> QED
    BY <2>1, <2>2 DEF Sending
<1>9. Once(r)
  <2>1. ASSUME NEW i \in 1 .. Len(f), NEW j \in 1 .. Len(f),
               f[i].query = f[j].query
        PROVE  i = j
    <3>1. \A k \in 1 .. Len(p.callbacksFifo) : f[k].query # q
      BY <1>3 DEF Asked, Sending
    <3> QED
      BY <2>1, <3>1, <1>2, <1>3 DEF FrontOK, Once
  <2>2. Waiting(r) \cap Sending(r) = {}
    BY <1>7, <1>8 DEF FrontOK, Once, Asked
  <2> QED
    BY <2>1, <2>2 DEF FrontOK, Once
<1>10. r = PF!prepareAndDoQuery(p, q)
  BY DEF PF!prepareAndDoQuery, r, f, t, s, e
<1>11. FrontOK(r) /\ Asked(r) = Asked(p) \cup {q}
  BY <1>6, <1>7, <1>8, <1>9 DEF FrontOK, Asked
<1>12. r.pendingQueries = p.pendingQueries
  OBVIOUS
<1> HIDE DEF r
<1> QED
  BY <1>10, <1>11, <1>12

(* getPath sends such a query or makes it wait. *)
LEMMA GetPathAsks ==
  ASSUME NEW p, NEW q \in PathQuery, FrontOK(p), q \notin Asked(p)
  PROVE  LET r == PF!getPath(p, q) IN
         FrontOK(r) /\ Asked(r) = Asked(p) \cup {q}
<1>1. CASE ~p.busy
  BY <1>1, PrepareAsks DEF PF!getPath
<1>2. CASE p.busy
  <2> DEFINE s == Append(p.pendingQueries, q)
             r == [p EXCEPT !.pendingQueries = s]
  <2>1. p.pendingQueries \in Seq(PathQuery)
    BY DEF FrontOK, Typed
  <2>2. /\ s \in Seq(PathQuery) /\ Len(s) = Len(p.pendingQueries) + 1
        /\ Len(p.pendingQueries) \in Nat
        /\ \A i \in 1 .. Len(p.pendingQueries) : s[i] = p.pendingQueries[i]
        /\ s[Len(p.pendingQueries) + 1] = q
    BY <2>1, AppendOnce
  <2>3. r = PF!getPath(p, q)
    BY <1>2 DEF PF!getPath
  <2> HIDE DEF s
  <2>4. /\ Typed(r) /\ r.pendingQueries = s
        /\ r.callbacksFifo = p.callbacksFifo
    BY <2>2 DEF FrontOK, Typed
  <2> HIDE DEF r
  <2>5. Sending(r) = Sending(p)
    BY <2>4 DEF Sending
  <2>6. Waiting(r) = Waiting(p) \cup {q}
    <3>1. ASSUME NEW i \in 1 .. Len(s)
          PROVE  s[i] \in Waiting(p) \cup {q}
      BY <2>2 DEF Waiting
    <3>2. ASSUME NEW x \in Waiting(p) \cup {q}
          PROVE  \E i \in 1 .. Len(s) : s[i] = x
      BY <2>2 DEF Waiting
    <3>3. Waiting(r) = {s[i] : i \in 1 .. Len(s)}
      BY <2>4 DEF Waiting
    <3> QED
      BY <3>1, <3>2, <3>3
  <2>7. Once(r)
    <3>1. ASSUME NEW i \in 1 .. Len(s), NEW j \in 1 .. Len(s), s[i] = s[j]
          PROVE  i = j
      <4>1. \A k \in 1 .. Len(p.pendingQueries) : s[k] # q
        BY <2>2 DEF Asked, Waiting
      <4> QED
        BY <3>1, <4>1, <2>2 DEF FrontOK, Once
    <3>2. Waiting(r) \cap Sending(r) = {}
      BY <2>5, <2>6 DEF FrontOK, Once, Asked
    <3> QED
      BY <3>1, <3>2, <2>4 DEF FrontOK, Once
  <2> QED
    BY <2>3, <2>4, <2>5, <2>6, <2>7 DEF FrontOK, Asked
<1> QED
  BY <1>1, <1>2

(* After the callback, which asks q or nothing, the head of the pending    *)
(* queries is sent: it was asked before.                                   *)
LEMMA ServeAsks ==
  ASSUME NEW p, FrontOK(p)
  PROVE  LET r == PF!CallbackThenNext(p, NoQuery) IN
         FrontOK(r) /\ Asked(r) = Asked(p)
<1>1. PF!CallbackThenNext(p, NoQuery) =
        IF p.pendingQueries = <<>> THEN p
        ELSE PF!prepareAndDoQuery([p EXCEPT !.pendingQueries = Tail(@)],
                                  Head(p.pendingQueries))
  BY DEF PF!CallbackThenNext
<1>2. CASE p.pendingQueries = <<>>
  BY <1>1, <1>2
<1>3. CASE p.pendingQueries # <<>>
  <2> DEFINE w == p.pendingQueries
             s == Tail(w)
             q == Head(w)
             b == [p EXCEPT !.pendingQueries = s]
  <2>1. w \in Seq(PathQuery)
    BY DEF FrontOK, Typed
  <2>2. /\ s \in Seq(PathQuery) /\ Len(w) \in Nat /\ Len(w) >= 1
        /\ Len(s) = Len(w) - 1
        /\ \A i \in 1 .. Len(s) : s[i] = w[i + 1]
        /\ q = w[1] /\ q \in PathQuery
    BY <2>1, <1>3, TailOnce
  <2> HIDE DEF s, q
  <2>3. /\ Typed(b) /\ b.pendingQueries = s
        /\ b.callbacksFifo = p.callbacksFifo
    BY <2>2 DEF FrontOK, Typed
  <2>4. PF!CallbackThenNext(p, NoQuery) = PF!prepareAndDoQuery(b, q)
    BY <1>1, <1>3 DEF s, q
  <2> HIDE DEF b
  <2>5. Sending(b) = Sending(p)
    BY <2>3 DEF Sending
  <2>6. Waiting(b) = Waiting(p) \ {q}
    <3>1. ASSUME NEW i \in 1 .. Len(s)
          PROVE  s[i] \in Waiting(p) /\ s[i] # q
      <4>1. i + 1 \in 1 .. Len(w) /\ 1 \in 1 .. Len(w) /\ i + 1 # 1
        BY <2>2
      <4> QED
        BY <4>1, <2>2 DEF Waiting, FrontOK, Once
    <3>2. ASSUME NEW x \in Waiting(p) \ {q}
          PROVE  \E i \in 1 .. Len(s) : s[i] = x
      <4>1. PICK k \in 1 .. Len(w) : w[k] = x
        BY DEF Waiting
      <4>2. k - 1 \in 1 .. Len(s) /\ s[k - 1] = w[k]
        BY <4>1, <2>2
      <4> QED
        BY <4>1, <4>2
    <3>3. Waiting(b) = {s[i] : i \in 1 .. Len(s)}
      BY <2>3 DEF Waiting
    <3> QED
      BY <3>1, <3>2, <3>3
  <2>7. Once(b)
    <3>1. ASSUME NEW i \in 1 .. Len(s), NEW j \in 1 .. Len(s), s[i] = s[j]
          PROVE  i = j
      <4>1. i + 1 \in 1 .. Len(w) /\ j + 1 \in 1 .. Len(w)
        BY <2>2
      <4>2. i + 1 = j + 1
        BY <3>1, <4>1, <2>2 DEF FrontOK, Once
      <4> QED
        BY <4>2, <2>2
    <3> QED
      BY <3>1, <2>3, <2>5, <2>6 DEF FrontOK, Once
  <2>8. q \in Waiting(p) /\ q \notin Asked(b)
    <3>1. q \in Waiting(p)
      BY <2>2 DEF Waiting
    <3> QED
      BY <3>1, <2>5, <2>6 DEF Asked, FrontOK, Once
  <2>9. FrontOK(b) /\ Asked(b) = Asked(p) \ {q}
    BY <2>3, <2>5, <2>6, <2>7, <2>8 DEF FrontOK, Asked
  <2>10. /\ FrontOK(PF!prepareAndDoQuery(b, q))
         /\ Asked(PF!prepareAndDoQuery(b, q)) = Asked(b) \cup {q}
    BY <2>2, <2>8, <2>9, PrepareAsks
  <2> QED
    BY <2>4, <2>8, <2>9, <2>10 DEF Asked
<1> QED
  BY <1>2, <1>3

LEMMA NothingAsked == NoQuery \notin PathQuery
  BY DEF NoQuery, PathQuery

LEMMA CallbackAsks ==
  ASSUME NEW p, NEW q \in PathQuery, FrontOK(p), q \notin Asked(p)
  PROVE  LET r == PF!CallbackThenNext(p, q) IN
         FrontOK(r) /\ Asked(r) = Asked(p) \cup {q}
<1> DEFINE a == PF!getPath(p, q)
<1>1. FrontOK(a) /\ Asked(a) = Asked(p) \cup {q}
  BY GetPathAsks
<1>2. PF!CallbackThenNext(p, q) = PF!CallbackThenNext(a, NoQuery)
  BY NothingAsked DEF PF!CallbackThenNext
<1> HIDE DEF a
<1> QED
  BY <1>1, <1>2, ServeAsks

(* An answer takes the oldest query out of the front. *)
LEMMA AnswerTakes ==
  ASSUME NEW p, FrontOK(p), p.stdin # <<>>
  PROVE  LET q == Head(p.callbacksFifo).query IN
         /\ FrontOK(PF!Answered(p))
         /\ q \in Asked(p) /\ q \in PathQuery
         /\ Asked(PF!Answered(p)) = Asked(p) \ {q}
<1> DEFINE c == p.callbacksFifo
           f == Tail(c)
           q == Head(c).query
           t == PF!ClearTimeout(p)
           s == Tail(p.stdin)
           r == [p EXCEPT !.busy = FALSE, !.timers = t,
                          !.callbacksFifo = f, !.stdin = s]
<1>1. /\ c \in Seq(Entry) /\ p.timers \in Seq(Entry)
      /\ p.stdin \in Seq(Nat) /\ Len(c) = Len(p.stdin)
  BY DEF FrontOK, Typed
<1>2. c # <<>>
  BY <1>1, EmptySeq, LenProperties
<1>3. /\ f \in Seq(Entry) /\ Len(c) \in Nat /\ Len(c) >= 1
      /\ Len(f) = Len(c) - 1
      /\ \A i \in 1 .. Len(f) : f[i] = c[i + 1]
      /\ Head(c) = c[1] /\ c[1] \in Entry
  BY <1>1, <1>2, TailOnce
<1>4. s \in Seq(Nat) /\ Len(s) = Len(p.stdin) - 1
  BY <1>1, TailOnce
<1>5. t \in Seq(Entry)
  <2>1. CASE p.timers # <<>> /\ p.timers[Len(p.timers)].nr = p.started
    <3>1. 0 \in 0 .. Len(p.timers) /\ Len(p.timers) \in Nat \ {0}
      BY <1>1, <2>1, EmptySeq, LenProperties
    <3> QED
      BY <1>1, <2>1, <3>1, SubSeqProperties DEF PF!ClearTimeout
  <2> QED
    BY <1>1, <2>1 DEF PF!ClearTimeout
<1>6. PF!Answered(p) = r
  BY DEF PF!Answered
<1>7. q = c[1].query /\ q \in PathQuery
  BY <1>3 DEF Entry
<1> HIDE DEF f, q, t, s
<1>8. /\ Typed(r) /\ r.callbacksFifo = f
      /\ r.pendingQueries = p.pendingQueries
  BY <1>1, <1>3, <1>4, <1>5 DEF FrontOK, Typed
<1> HIDE DEF r
<1>9. Waiting(r) = Waiting(p)
  BY <1>8 DEF Waiting
<1>10. Sending(r) = Sending(p) \ {q}
  <2>1. ASSUME NEW i \in 1 .. Len(f)
        PROVE  f[i].query \in Sending(p) /\ f[i].query # q
    <3>1. i + 1 \in 1 .. Len(c) /\ 1 \in 1 .. Len(c) /\ i + 1 # 1
      BY <1>3
    <3> QED
      BY <3>1, <1>3, <1>7 DEF Sending, FrontOK, Once
  <2>2. ASSUME NEW x \in Sending(p) \ {q}
        PROVE  \E i \in 1 .. Len(f) : f[i].query = x
    <3>1. PICK k \in 1 .. Len(c) : c[k].query = x
      BY DEF Sending
    <3>2. k - 1 \in 1 .. Len(f) /\ f[k - 1] = c[k]
      BY <3>1, <1>3, <1>7
    <3> QED
      BY <3>1, <3>2
  <2>3. Sending(r) = {f[i].query : i \in 1 .. Len(f)}
    BY <1>8 DEF Sending
  <2> QED
    BY <2>1, <2>2, <2>3
<1>11. q \in Sending(p)
  BY <1>3, <1>7 DEF Sending
<1>12. Once(r)
  <2>1. ASSUME NEW i \in 1 .. Len(f), NEW j \in 1 .. Len(f),
               f[i].query = f[j].query
        PROVE  i = j
    <3>1. i + 1 \in 1 .. Len(c) /\ j + 1 \in 1 .. Len(c)
      BY <1>3
    <3>2. i + 1 = j + 1
      BY <2>1, <3>1, <1>3 DEF FrontOK, Once
    <3> QED
      BY <3>2, <1>3
  <2> QED
    BY <2>1, <1>8, <1>9, <1>10 DEF FrontOK, Once
<1>13. /\ FrontOK(r) /\ q \in Asked(p) /\ Asked(r) = Asked(p) \ {q}
  BY <1>8, <1>9, <1>10, <1>11, <1>12 DEF FrontOK, Asked, Once
<1> QED
  BY <1>6, <1>7, <1>13 DEF q

LEMMA AskedAreQueries ==
  ASSUME NEW p, FrontOK(p)
  PROVE  Asked(p) \subseteq PathQuery
<1>1. p.pendingQueries \in Seq(PathQuery) /\ p.callbacksFifo \in Seq(Entry)
  BY DEF FrontOK, Typed
<1>2. Waiting(p) \subseteq PathQuery
  BY <1>1 DEF Waiting
<1>3. Sending(p) \subseteq PathQuery
  <2>1. \A i \in 1 .. Len(p.callbacksFifo) : p.callbacksFifo[i] \in Entry
    BY <1>1
  <2> QED
    BY <2>1 DEF Sending, Entry
<1> QED
  BY <1>2, <1>3 DEF Asked

(* A timeout leaves every query where it is. *)
LEMMA TimeoutKeeps ==
  ASSUME NEW p, FrontOK(p), p.timers # <<>>
  PROVE  /\ FrontOK(PF!TimedOut(p)) /\ Asked(PF!TimedOut(p)) = Asked(p)
         /\ Head(p.timers).query \in PathQuery
<1> DEFINE t == Tail(p.timers)
           c == p.silenced \cup {Head(p.timers).nr}
           r == [p EXCEPT !.busy = FALSE, !.timers = t, !.silenced = c]
<1>1. p.timers \in Seq(Entry) /\ p.silenced \in SUBSET Nat
  BY DEF FrontOK, Typed
<1>2. t \in Seq(Entry) /\ Head(p.timers) \in Entry
  BY <1>1, HeadTailProperties
<1>3. c \in SUBSET Nat /\ Head(p.timers).query \in PathQuery
  BY <1>1, <1>2 DEF Entry
<1>4. r = PF!TimedOut(p)
  BY DEF PF!TimedOut
<1> HIDE DEF t, c
<1>5. /\ Typed(r) /\ r.callbacksFifo = p.callbacksFifo
      /\ r.pendingQueries = p.pendingQueries
  BY <1>2, <1>3 DEF FrontOK, Typed
<1> HIDE DEF r
<1>6. Waiting(r) = Waiting(p) /\ Sending(r) = Sending(p)
  BY <1>5 DEF Waiting, Sending
<1>7. Once(r)
  BY <1>5, <1>6 DEF FrontOK, Once
<1>8. FrontOK(r) /\ Asked(r) = Asked(p)
  BY <1>5, <1>6, <1>7 DEF FrontOK, Asked
<1> QED
  BY <1>3, <1>4, <1>8

-----------------------------------------------------------------------------
(* Of one robot: t is to do, g in progress, d done. *)
State(t, g, d) ==
  /\ t \subseteq Actions /\ d \subseteq Actions
  /\ g \in Actions \cup {NoAction}
  /\ t \cap d = {} /\ g \notin t \cup d
  /\ \A a \in d \cup {g} : a # NoAction => isDone(dependency[a], d)

Doable(a, t, d) == a \in t /\ isDone(dependency[a], d)

(* Of the robot r: v is the last search, c its candidates, asked the       *)
(* queries of the front.                                                   *)
Search(r, t, d, v, c, asked) ==
  /\ v \in Nat /\ c \in Seq(Actions)
  /\ \A i \in 1 .. Len(c) : Doable(c[i], t, d)
  /\ \A i, j \in 1 .. Len(c) : c[i] = c[j] => i = j
  /\ \A q \in asked : q.robot = r =>
       /\ q.id <= v
       /\ q.id = v => /\ Doable(q.action, t, d)
                      /\ \A i \in 1 .. Len(c) : c[i] # q.action

Plan(r) ==
  /\ State(todo[r], inprogress[r], done[r])
  /\ Search(r, todo[r], done[r], valid_id[r], candidates[r], Asked(pf))

Functions ==
  /\ todo = [r \in Robots |-> todo[r]]
  /\ inprogress = [r \in Robots |-> inprogress[r]]
  /\ done = [r \in Robots |-> done[r]]
  /\ valid_id = [r \in Robots |-> valid_id[r]]
  /\ candidates = [r \in Robots |-> candidates[r]]

Inv == Functions /\ FrontOK(pf) /\ \A r \in Robots : Plan(r)

LEMMA FewerAsked ==
  ASSUME NEW r, NEW t, NEW d, NEW v, NEW c, NEW asked,
         NEW fewer \in SUBSET asked, Search(r, t, d, v, c, asked)
  PROVE  Search(r, t, d, v, c, fewer)
  BY DEF Search

(* The list of a search: doable actions, all different. *)
LEMMA ActionsTodoDoable ==
  ASSUME NEW t \in SUBSET Actions, NEW d, NEW s \in ActionsTodo(t, d)
  PROVE  /\ s \in Seq(Actions)
         /\ \A i \in 1 .. Len(s) : Doable(s[i], t, d)
         /\ \A i, j \in 1 .. Len(s) : s[i] = s[j] => i = j
<1> DEFINE D == {a \in t : isDone(dependency[a], d)}
<1>1. PICK S \in SUBSET D : s \in SetToSeqs(S)
  BY DEF ActionsTodo
<1> DEFINE n == Cardinality(S)
<1>2. n \in Nat
  <2>1. S \in SUBSET Actions
    BY <1>1
  <2>2. IsFiniteSet(S)
    BY <2>1, FS_Subset, PlannerAssumption
  <2> QED
    BY <2>2, FS_CardinalityType
<1>3. s \in [1 .. n -> S] /\ \A i, j \in 1 .. n : i # j => s[i] # s[j]
  BY <1>1 DEF SetToSeqs
<1> HIDE DEF n
<1>4. s \in Seq(S) /\ Len(s) = n
  BY <1>2, <1>3
<1>5. s \in Seq(Actions)
  BY <1>1, <1>4
<1> QED
  BY <1>1, <1>3, <1>4, <1>5 DEF Doable

(* A search leaves the rest of its list behind, and one query of a number  *)
(* no query of the robot has.                                              *)
LEMMA SearchStarts ==
  ASSUME Functions, FrontOK(pf), NEW r \in Robots, NEW t, NEW g, NEW d, NEW n,
         State(t, g, d), DoNextAction(r, t, d, n),
         \A x \in Robots :
           Search(x, todo[x], done[x], valid_id[x], candidates[x], Asked(pf))
  PROVE  /\ FrontOK(pf')
         /\ valid_id' = [x \in Robots |-> valid_id'[x]]
         /\ candidates' = [x \in Robots |-> candidates'[x]]
         /\ Search(r, t, d, valid_id'[r], candidates'[r], Asked(pf'))
         /\ \A x \in Robots \ {r} :
              Search(x, todo[x], done[x], valid_id'[x], candidates'[x],
                     Asked(pf'))
<1>1. PICK s \in ActionsTodo(t, d) :
        /\ candidates' = [candidates EXCEPT ![r] = Rest(s)]
        /\ LET q == QueryFor(r, s, valid_id[r] + 1)
           IN pf' = IF q = NoQuery THEN pf ELSE PF!getPath(pf, q)
  BY DEF DoNextAction
<1>2. /\ valid_id' = [valid_id EXCEPT ![r] = @ + 1]
      /\ valid_id[r] < MaxSearches
  BY DEF DoNextAction
<1>3. /\ s \in Seq(Actions)
      /\ \A i \in 1 .. Len(s) : Doable(s[i], t, d)
      /\ \A i, j \in 1 .. Len(s) : s[i] = s[j] => i = j
  BY ActionsTodoDoable DEF State
<1>4. /\ valid_id[r] \in Nat
      /\ \A q \in Asked(pf) : q.robot = r => q.id <= valid_id[r]
  BY DEF Search
<1>5. /\ valid_id'[r] = valid_id[r] + 1 /\ candidates'[r] = Rest(s)
      /\ valid_id' = [x \in Robots |-> valid_id'[x]]
      /\ candidates' = [x \in Robots |-> candidates'[x]]
      /\ \A x \in Robots \ {r} : /\ valid_id'[x] = valid_id[x]
                                 /\ candidates'[x] = candidates[x]
  BY <1>1, <1>2 DEF Functions
<1>10. \A x \in Asked(pf) : x.robot = r =>
        x.id <= valid_id'[r] /\ x.id # valid_id'[r]
  <2>1. \A x \in Asked(pf) : x.id \in Nat
    BY AskedAreQueries, PlannerAssumption DEF PathQuery
  <2> QED
    BY <2>1, <1>4, <1>5
<1>6. CASE s = <<>>
  <2>1. pf' = pf
    BY <1>1, <1>6 DEF QueryFor
  <2>2. candidates'[r] = <<>>
    BY <1>5, <1>6 DEF Rest
  <2>3. Search(r, t, d, valid_id'[r], <<>>, Asked(pf))
    <3>1. valid_id'[r] \in Nat
      BY <1>4, <1>5
    <3>2. <<>> \in Seq(Actions) /\ 1 .. Len(<<>>) = {}
      OBVIOUS
    <3> QED
      BY <1>10, <3>1, <3>2 DEF Search
  <2> QED
    BY <1>5, <2>1, <2>2, <2>3
<1>7. CASE s # <<>>
  <2> DEFINE c == Tail(s)
             q == [robot |-> r, action |-> Head(s), id |-> valid_id[r] + 1]
  <2>1. /\ c \in Seq(Actions) /\ Len(s) \in Nat /\ Len(s) >= 1
        /\ Len(c) = Len(s) - 1
        /\ \A i \in 1 .. Len(c) : c[i] = s[i + 1]
        /\ Head(s) = s[1] /\ s[1] \in Actions
    BY <1>3, <1>7, TailOnce
  <2>2. /\ q \in PathQuery /\ q.robot = r /\ q.action = s[1]
        /\ q.id = valid_id[r] + 1
    BY <1>2, <1>4, <2>1, PlannerAssumption DEF PathQuery
  <2>3. pf' = PF!getPath(pf, q)
    <3>1. QueryFor(r, s, valid_id[r] + 1) = q
      BY <1>7 DEF QueryFor
    <3> QED
      BY <1>1, <3>1, <2>2, NothingAsked
  <2>4. candidates'[r] = c
    BY <1>5, <1>7 DEF Rest
  <2> HIDE DEF c, q
  <2>5. q \notin Asked(pf)
    BY <1>4, <2>2
  <2>6. FrontOK(pf') /\ Asked(pf') = Asked(pf) \cup {q}
    BY <2>2, <2>3, <2>5, GetPathAsks
  <2>7. Search(r, t, d, valid_id'[r], c, Asked(pf'))
    <3>1. ASSUME NEW i \in 1 .. Len(c)
          PROVE  Doable(c[i], t, d) /\ c[i] # s[1]
      <4>1. i + 1 \in 1 .. Len(s) /\ 1 \in 1 .. Len(s) /\ i + 1 # 1
        BY <2>1
      <4> QED
        BY <4>1, <1>3, <2>1
    <3>2. ASSUME NEW i \in 1 .. Len(c), NEW j \in 1 .. Len(c), c[i] = c[j]
          PROVE  i = j
      <4>1. i + 1 \in 1 .. Len(s) /\ j + 1 \in 1 .. Len(s)
        BY <2>1
      <4>2. i + 1 = j + 1
        BY <3>2, <4>1, <1>3, <2>1
      <4> QED
        BY <4>2
    <3>3. Doable(s[1], t, d)
      BY <1>3, <2>1
    <3>4. ASSUME NEW x \in Asked(pf'), x.robot = r
          PROVE  /\ x.id <= valid_id'[r]
                 /\ x.id = valid_id'[r] => x = q
      <4>1. CASE x \in Asked(pf)
        BY <3>4, <4>1, <1>10
      <4>2. CASE x = q
        BY <4>2, <1>4, <1>5, <2>2
      <4> QED
        BY <4>1, <4>2, <2>6
    <3>5. valid_id'[r] \in Nat
      BY <1>4, <1>5
    <3> QED
      BY <3>1, <3>2, <3>3, <3>4, <3>5, <2>1, <2>2 DEF Search
  <2>8. ASSUME NEW x \in Robots \ {r}
        PROVE  Search(x, todo[x], done[x], valid_id'[x], candidates'[x],
                      Asked(pf'))
    BY <1>5, <2>2, <2>6 DEF Search
  <2> QED
    BY <1>5, <2>4, <2>6, <2>7, <2>8
<1> QED
  BY <1>6, <1>7

-----------------------------------------------------------------------------
LEMMA InitInv == Init => Inv
<1> SUFFICES ASSUME Init PROVE Inv
  OBVIOUS
<1> USE DEF Init
<1>1. Functions
  BY DEF Functions
<1>2. FrontOK(pf) /\ Asked(pf) = {}
  <2>1. Typed(pf)
    BY EmptySeq DEF Typed, PF!Constructed
  <2>2. Waiting(pf) = {} /\ Sending(pf) = {}
    BY EmptySeq DEF Waiting, Sending, PF!Constructed
  <2>3. Once(pf)
    BY <2>2, EmptySeq DEF Once, PF!Constructed
  <2> QED
    BY <2>1, <2>2, <2>3 DEF FrontOK, Asked
<1>3. ASSUME NEW r \in Robots
      PROVE  Plan(r)
  <2>1. State(todo[r], inprogress[r], done[r])
    BY PlannerAssumption DEF State
  <2>2. Search(r, todo[r], done[r], valid_id[r], candidates[r], {})
    BY EmptySeq DEF Search
  <2> QED
    BY <2>1, <2>2, <1>2 DEF Plan
<1> QED
  BY <1>1, <1>2, <1>3 DEF Inv

(* A search step of r that also brings its state to t, g and d. *)
LEMMA SearchStep ==
  ASSUME Inv, NEW r \in Robots, NEW t, NEW g, NEW d, NEW n,
         State(t, g, d), DoNextAction(r, t, d, n),
         todo' = [todo EXCEPT ![r] = t],
         inprogress' = [inprogress EXCEPT ![r] = g],
         done' = [done EXCEPT ![r] = d]
  PROVE  Inv'
<1>1. /\ Functions /\ FrontOK(pf)
      /\ \A x \in Robots : /\ State(todo[x], inprogress[x], done[x])
                           /\ Search(x, todo[x], done[x], valid_id[x],
                                     candidates[x], Asked(pf))
  BY DEF Inv, Plan
<1>2. /\ FrontOK(pf')
      /\ valid_id' = [x \in Robots |-> valid_id'[x]]
      /\ candidates' = [x \in Robots |-> candidates'[x]]
      /\ Search(r, t, d, valid_id'[r], candidates'[r], Asked(pf'))
      /\ \A x \in Robots \ {r} :
           Search(x, todo[x], done[x], valid_id'[x], candidates'[x],
                  Asked(pf'))
  BY <1>1, SearchStarts
<1>3. /\ todo' = [x \in Robots |-> todo'[x]]
      /\ inprogress' = [x \in Robots |-> inprogress'[x]]
      /\ done' = [x \in Robots |-> done'[x]]
      /\ todo'[r] = t /\ inprogress'[r] = g /\ done'[r] = d
      /\ \A x \in Robots \ {r} : /\ todo'[x] = todo[x]
                                 /\ inprogress'[x] = inprogress[x]
                                 /\ done'[x] = done[x]
  BY <1>1 DEF Functions
<1>4. ASSUME NEW x \in Robots
      PROVE  /\ State(todo'[x], inprogress'[x], done'[x])
             /\ Search(x, todo'[x], done'[x], valid_id'[x], candidates'[x],
                       Asked(pf'))
  BY <1>1, <1>2, <1>3
<1>5. Functions'
  BY <1>2, <1>3 DEF Functions
<1>6. FrontOK(pf)'
  BY <1>2 DEF FrontOK, Typed, Once, Waiting, Sending
<1>7. Asked(pf)' = Asked(pf')
  BY DEF Asked, Waiting, Sending
<1>8. \A x \in Robots : Plan(x)'
  BY <1>4, <1>7 DEF Plan, State, Search, Doable, isDone
<1> QED
  BY <1>5, <1>6, <1>8 DEF Inv

(* A step that begins, ends or finds nothing and asks no query. *)
LEMMA QuietStep ==
  ASSUME Inv, UNCHANGED <<state, valid_id, candidates>>,
         FrontOK(pf'), Asked(pf') \subseteq Asked(pf)
  PROVE  Inv'
<1>1. \A x \in Robots : Search(x, todo[x], done[x], valid_id[x],
                               candidates[x], Asked(pf'))
  BY FewerAsked DEF Inv, Plan
<1>2. UNCHANGED <<todo, inprogress, done, valid_id, candidates>>
  BY DEF state
<1>3. Asked(pf)' = Asked(pf')
  BY DEF Asked, Waiting, Sending
<1>4. FrontOK(pf)'
  BY DEF FrontOK, Typed, Once, Waiting, Sending
<1>5. Functions'
  BY <1>2 DEF Inv, Functions
<1>6. \A x \in Robots : Plan(x)'
  BY <1>1, <1>2, <1>3 DEF Inv, Plan, State, Search, Doable, isDone
<1> QED
  BY <1>4, <1>5, <1>6 DEF Inv

(* A path is found for q, which p no longer holds. *)
LEMMA PathStep ==
  ASSUME Inv, NEW q \in Asked(pf), q \in PathQuery, NEW p, FrontOK(p),
         Asked(p) = Asked(pf) \ {q}, CallbackPath(q, p)
  PROVE  Inv'
<1> DEFINE r == q.robot
<1>1. r \in Robots /\ q.action \in Actions
  BY DEF PathQuery
<1>2. FrontOK(pf') /\ Asked(pf') = Asked(p)
  BY ServeAsks DEF CallbackPath
<1>3. CASE q.id # valid_id[r]
  <2>1. UNCHANGED <<state, valid_id, candidates>>
    BY <1>3 DEF CallbackPath, state, search
  <2> QED
    BY <1>2, <2>1, QuietStep
<1>4. CASE q.id = valid_id[r]
  <2> DEFINE t == todo[r] \ {q.action}
  <2>1. /\ todo' = [todo EXCEPT ![r] = t]
        /\ inprogress' = [inprogress EXCEPT ![r] = q.action]
        /\ UNCHANGED <<done, valid_id, candidates>>
    BY <1>4 DEF CallbackPath, search
  <2>2. /\ State(todo[r], inprogress[r], done[r])
        /\ Search(r, todo[r], done[r], valid_id[r], candidates[r], Asked(pf))
    BY <1>1 DEF Inv, Plan
  <2>3. /\ Doable(q.action, todo[r], done[r])
        /\ \A i \in 1 .. Len(candidates[r]) : candidates[r][i] # q.action
    BY <1>4, <2>2 DEF Search
  <2>4. State(t, q.action, done[r])
    BY <1>1, <2>2, <2>3 DEF State, Doable
  <2>5. \A x \in Asked(pf') : x.robot = r /\ x.id = valid_id[r] =>
                              x.action # q.action
    <3>1. \A x \in PathQuery : /\ x.robot = r /\ x.id = q.id
                              /\ x.action = q.action => x = q
      BY DEF PathQuery
    <3> QED
      BY <1>2, <1>4, <3>1, AskedAreQueries DEF Inv
  <2>6. Search(r, t, done[r], valid_id[r], candidates[r], Asked(pf'))
    BY <1>2, <2>2, <2>3, <2>5 DEF Search, Doable
  <2>7. \A x \in Robots \ {r} :
          /\ State(todo[x], inprogress[x], done[x])
          /\ Search(x, todo[x], done[x], valid_id[x], candidates[x],
                    Asked(pf'))
    BY <1>2, FewerAsked DEF Inv, Plan
  <2>8. /\ todo' = [x \in Robots |-> todo'[x]]
        /\ inprogress' = [x \in Robots |-> inprogress'[x]]
        /\ todo'[r] = t /\ inprogress'[r] = q.action
        /\ \A x \in Robots \ {r} : /\ todo'[x] = todo[x]
                                   /\ inprogress'[x] = inprogress[x]
    BY <1>1, <2>1 DEF Inv, Functions
  <2>9. \A x \in Robots :
          /\ State(todo'[x], inprogress'[x], done[x])
          /\ Search(x, todo'[x], done[x], valid_id[x], candidates[x],
                    Asked(pf'))
    BY <2>4, <2>6, <2>7, <2>8
  <2>10. Asked(pf)' = Asked(pf')
    BY DEF Asked, Waiting, Sending
  <2>11. \A x \in Robots : Plan(x)'
    BY <2>1, <2>9, <2>10 DEF Plan, State, Search, Doable, isDone
  <2>12. Functions'
    BY <2>1, <2>8 DEF Inv, Functions
  <2>13. FrontOK(pf)'
    BY <1>2 DEF FrontOK, Typed, Once, Waiting, Sending
  <2> QED
    BY <2>11, <2>12, <2>13 DEF Inv
<1> QED
  BY <1>3, <1>4

(* No path: the next candidate of the search is asked, if it is the last   *)
(* search of its robot and has one left.                                   *)
LEMMA NullStep ==
  ASSUME Inv, NEW q \in PathQuery, NEW p, FrontOK(p),
         Asked(p) \subseteq Asked(pf), CallbackNull(q, p)
  PROVE  Inv'
<1> DEFINE r    == q.robot
           c    == candidates[r]
           next == IF q.id = valid_id[r] THEN QueryFor(r, c, q.id)
                                         ELSE NoQuery
<1>1. r \in Robots
  BY DEF PathQuery
<1>2. /\ candidates' = IF next = NoQuery THEN candidates
                       ELSE [candidates EXCEPT ![r] = Tail(@)]
      /\ pf' = PF!CallbackThenNext(p, next)
      /\ UNCHANGED <<state, valid_id>>
  BY DEF CallbackNull
<1>3. CASE next = NoQuery
  <2>1. FrontOK(pf') /\ Asked(pf') = Asked(p)
    BY <1>2, <1>3, ServeAsks
  <2>2. UNCHANGED <<state, valid_id, candidates>>
    BY <1>2, <1>3
  <2> QED
    BY <2>1, <2>2, QuietStep
<1>4. CASE next # NoQuery
  <2>1. q.id = valid_id[r] /\ c # <<>>
    BY <1>4 DEF QueryFor
  <2>2. /\ next.robot = r /\ next.action = Head(c)
        /\ next.id = valid_id[r]
        /\ next = [robot |-> r, action |-> Head(c), id |-> q.id]
    BY <2>1 DEF QueryFor
  <2>3. Search(r, todo[r], done[r], valid_id[r], c, Asked(pf))
    BY <1>1 DEF Inv, Plan
  <2> DEFINE f == Tail(c)
  <2>4. /\ f \in Seq(Actions) /\ Len(c) \in Nat /\ Len(c) >= 1
        /\ Len(f) = Len(c) - 1
        /\ \A i \in 1 .. Len(f) : f[i] = c[i + 1]
        /\ Head(c) = c[1] /\ c[1] \in Actions
    BY <2>1, <2>3, TailOnce DEF Search
  <2>5. next \in PathQuery
    BY <1>1, <2>2, <2>4 DEF PathQuery
  <2>6. 1 \in 1 .. Len(c)
    BY <2>4
  <2> HIDE DEF next, f
  <2>7. next \notin Asked(p)
    BY <2>2, <2>3, <2>4, <2>6 DEF Search
  <2>8. FrontOK(pf') /\ Asked(pf') = Asked(p) \cup {next}
    BY <1>2, <2>5, <2>7, CallbackAsks
  <2>9. /\ candidates' = [candidates EXCEPT ![r] = f]
        /\ candidates' = [x \in Robots |-> candidates'[x]]
        /\ candidates'[r] = f
        /\ \A x \in Robots \ {r} : candidates'[x] = candidates[x]
    BY <1>1, <1>2, <1>4 DEF Inv, Functions, f
  <2>10. Search(r, todo[r], done[r], valid_id[r], f, Asked(pf'))
    <3>1. ASSUME NEW i \in 1 .. Len(f)
          PROVE  /\ Doable(f[i], todo[r], done[r]) /\ f[i] # c[1]
                 /\ \E k \in 1 .. Len(c) : f[i] = c[k]
      <4>1. i + 1 \in 1 .. Len(c) /\ i + 1 # 1
        BY <2>4
      <4> QED
        BY <4>1, <2>3, <2>4, <2>6 DEF Search
    <3>2. ASSUME NEW i \in 1 .. Len(f), NEW j \in 1 .. Len(f), f[i] = f[j]
          PROVE  i = j
      <4>1. i + 1 \in 1 .. Len(c) /\ j + 1 \in 1 .. Len(c)
        BY <2>4
      <4>2. i + 1 = j + 1
        BY <3>2, <4>1, <2>3, <2>4 DEF Search
      <4> QED
        BY <4>2
    <3>3. ASSUME NEW x \in Asked(pf'), x.robot = r
          PROVE  /\ x.id <= valid_id[r]
                 /\ x.id = valid_id[r] =>
                      /\ Doable(x.action, todo[r], done[r])
                      /\ \A i \in 1 .. Len(f) : f[i] # x.action
      <4>1. CASE x \in Asked(pf)
        BY <3>1, <3>3, <4>1, <2>3 DEF Search
      <4>2. CASE x = next
        BY <3>1, <4>2, <2>2, <2>3, <2>4, <2>6 DEF Search
      <4> QED
        BY <4>1, <4>2, <2>8
    <3> QED
      BY <3>1, <3>2, <3>3, <2>3, <2>4 DEF Search
  <2>11. \A x \in Robots \ {r} :
           Search(x, todo[x], done[x], valid_id[x], candidates'[x],
                  Asked(pf'))
    BY <2>2, <2>8, <2>9 DEF Inv, Plan, Search
  <2>12. Asked(pf)' = Asked(pf')
    BY DEF Asked, Waiting, Sending
  <2>13. UNCHANGED <<todo, inprogress, done, valid_id>>
    BY <1>2 DEF state
  <2>14. \A x \in Robots : /\ State(todo[x], inprogress[x], done[x])
                           /\ Search(x, todo[x], done[x], valid_id[x],
                                     candidates'[x], Asked(pf'))
    BY <2>9, <2>10, <2>11 DEF Inv, Plan
  <2>15. \A x \in Robots : Plan(x)'
    BY <2>12, <2>13, <2>14 DEF Plan, State, Search, Doable, isDone
  <2>16. Functions'
    BY <2>9, <2>13 DEF Inv, Functions
  <2>17. FrontOK(pf)'
    BY <2>8 DEF FrontOK, Typed, Once, Waiting, Sending
  <2> QED
    BY <2>15, <2>16, <2>17 DEF Inv
<1> QED
  BY <1>3, <1>4

LEMMA NextInv == Inv /\ [Next]_vars => Inv'
<1> SUFFICES ASSUME Inv, [Next]_vars PROVE Inv'
  OBVIOUS
<1>1. /\ Functions /\ FrontOK(pf)
      /\ \A x \in Robots : State(todo[x], inprogress[x], done[x])
  BY DEF Inv, Plan
<1>2. ASSUME UNCHANGED <<pf, state, search>>
      PROVE  Inv'
  BY <1>1, <1>2, QuietStep DEF search
<1>3. ASSUME NEW r \in Robots, NEW n, UNCHANGED state,
             DoNextAction(r, todo[r], done[r], n)
      PROVE  Inv'
  <2>1. /\ todo' = [todo EXCEPT ![r] = todo[r]]
        /\ inprogress' = [inprogress EXCEPT ![r] = inprogress[r]]
        /\ done' = [done EXCEPT ![r] = done[r]]
    BY <1>1, <1>3 DEF state, Functions
  <2> QED
    BY <1>1, <1>3, <2>1, SearchStep
<1>4. CASE \E r \in Robots : Start(r)
  BY <1>3, <1>4 DEF Start
<1>5. CASE \E r \in Robots : RetryTimer(r)
  BY <1>3, <1>5 DEF RetryTimer
<1>6. CASE \E r \in Robots : PathFinished(r)
  BY <1>2, <1>6 DEF PathFinished
<1>7. CASE \E r \in Robots : ActionFinished(r)
  <2>1. PICK r \in Robots : ActionFinished(r)
    BY <1>7
  <2>2. CASE inprogress[r] = NoAction
    BY <1>2, <2>1, <2>2 DEF ActionFinished
  <2>3. CASE inprogress[r] # NoAction
    <3> DEFINE d == done[r] \cup {inprogress[r]}
    <3>1. State(todo[r], NoAction, d)
      BY <1>1, <2>3, PlannerAssumption DEF State, isDone
    <3>2. /\ DoNextAction(r, todo[r], d, retries[r])
          /\ done' = [done EXCEPT ![r] = d]
          /\ inprogress' = [inprogress EXCEPT ![r] = NoAction]
          /\ todo' = [todo EXCEPT ![r] = todo[r]]
      BY <1>1, <2>1, <2>3 DEF ActionFinished, Functions
    <3> HIDE DEF d
    <3> QED
      BY <3>1, <3>2, SearchStep
  <2> QED
    BY <2>2, <2>3
<1>8. CASE \E r \in Robots : OnPos(r)
  BY <1>2, <1>8 DEF OnPos
<1>9. CASE \E r \in Robots : OnCollision(r)
  <2>1. PICK r \in Robots : OnCollision(r)
    BY <1>9
  <2> DEFINE t == todo[r] \cup ({inprogress[r]} \ {NoAction})
  <2>2. State(t, NoAction, done[r])
    BY <1>1, PlannerAssumption DEF State, isDone
  <2>3. /\ DoNextAction(r, t, done[r], retries[r])
        /\ todo' = [todo EXCEPT ![r] = t]
        /\ inprogress' = [inprogress EXCEPT ![r] = NoAction]
        /\ done' = [done EXCEPT ![r] = done[r]]
    BY <1>1, <2>1 DEF OnCollision, Functions
  <2> HIDE DEF t
  <2> QED
    BY <2>2, <2>3, SearchStep
<1>10. CASE \E r \in Robots : RobotStops(r)
  BY <1>2, <1>10 DEF RobotStops
<1>11. CASE Answer
  <2> DEFINE q == Head(pf.callbacksFifo).query
             p == PF!Answered(pf)
  <2>1. /\ FrontOK(p) /\ q \in Asked(pf) /\ q \in PathQuery
        /\ Asked(p) = Asked(pf) \ {q}
    BY <1>1, <1>11, AnswerTakes DEF Answer
  <2>2. ASSUME UNCHANGED <<state, search>>,
               pf' = PF!CallbackThenNext(p, NoQuery)
        PROVE  Inv'
    BY <2>1, <2>2, ServeAsks, QuietStep DEF search
  <2>3. \/ UNCHANGED <<state, search>> /\ pf' = PF!CallbackThenNext(p, NoQuery)
        \/ CallbackPaused(q, p) \/ CallbackPath(q, p) \/ CallbackNull(q, p)
    BY <1>11 DEF Answer
  <2> HIDE DEF q, p
  <2>4. CASE CallbackPaused(q, p)
    BY <2>2, <2>4 DEF CallbackPaused
  <2>5. CASE CallbackPath(q, p)
    BY <2>1, <2>5, PathStep
  <2>6. CASE CallbackNull(q, p)
    BY <2>1, <2>6, NullStep
  <2> QED
    BY <2>2, <2>3, <2>4, <2>5, <2>6
<1>12. CASE Timeout
  <2> DEFINE q == Head(pf.timers).query
             p == PF!TimedOut(pf)
  <2>1. FrontOK(p) /\ Asked(p) = Asked(pf) /\ q \in PathQuery
    BY <1>1, <1>12, TimeoutKeeps DEF Timeout
  <2>2. CallbackPaused(q, p) \/ CallbackNull(q, p)
    BY <1>12 DEF Timeout
  <2> HIDE DEF q, p
  <2>3. CASE CallbackPaused(q, p)
    BY <2>1, <2>3, ServeAsks, QuietStep DEF CallbackPaused, search
  <2>4. CASE CallbackNull(q, p)
    BY <2>1, <2>4, NullStep
  <2> QED
    BY <2>2, <2>3, <2>4
<1>13. CASE Pause
  BY <1>2, <1>13 DEF Pause
<1>14. CASE Resume
  BY <1>2, <1>14 DEF Resume
<1>15. CASE UNCHANGED vars
  BY <1>2, <1>15 DEF vars
<1> QED
  BY <1>4, <1>5, <1>6, <1>7, <1>8, <1>9, <1>10, <1>11, <1>12, <1>13, <1>14,
     <1>15 DEF Next

(* The plan of the IA, whatever the number of robots, actions, searches    *)
(* and emergency stops: an action is never begun twice, the actions an     *)
(* action depends on are done first, and every candidate is still to do.   *)
THEOREM PlannerSafe ==
  Spec => [](NoActionTwice /\ DependenciesAreDone /\ CandidatesAreTodo)
<1>1. Inv => NoActionTwice /\ DependenciesAreDone /\ CandidatesAreTodo
  BY DEF Inv, Plan, State, Search, Doable, NoActionTwice, DependenciesAreDone,
         CandidatesAreTodo
<1> QED
  BY InitInv, NextInv, <1>1, PTL DEF Spec
-----------------------------------------------------------------------------
(* A message that overtakes leaves a shorter sequence of messages. *)
LEMMA RemoveAtType ==
  ASSUME NEW S, NEW s \in Seq(S), NEW i \in 1 .. Len(s)
  PROVE  RemoveAt(s, i) \in Seq(S)
<1>1. /\ Len(s) \in Nat /\ \A k \in 1 .. Len(s) : s[k] \in S
  BY LenProperties, ElementOfSeq
<1>2. SubSeq(s, 1, i - 1) \in Seq(S)
  <2>1. i - 1 \in Int /\ \A k \in 1 .. i - 1 : s[k] \in S
    BY <1>1
  <2> QED
    BY <2>1, SubSeqProperties
<1>3. SubSeq(s, i + 1, Len(s)) \in Seq(S)
  <2>1. i + 1 \in Int /\ Len(s) \in Int
        /\ \A k \in i + 1 .. Len(s) : s[k] \in S
    BY <1>1
  <2> QED
    BY <2>1, SubSeqProperties
<1> QED
  BY <1>2, <1>3, ConcatProperties DEF RemoveAt

(* A message is promised, or not while the robot is stopped. *)
LEMMA SentType ==
  ASSUME NEW r, NEW s \in Seq(Actions), NEW a \in Actions
  PROVE  /\ Sent(r, s, a) \in Seq(Actions)
         /\ mode[r] = "running" => Sent(r, s, a) # <<>>
  BY AppendProperties DEF Sent

(* A search keeps the types of what only it writes, whatever it lists. *)
LEMMA SearchTypes ==
  ASSUME PlannerTypeOK, NEW r \in Robots, NEW t, NEW d, NEW n \in Nat,
         DoNextAction(r, t, d, n)
  PROVE  /\ valid_id' \in [Robots -> 0 .. MaxSearches]
         /\ retries' \in [Robots -> Nat]
<1>1. /\ valid_id' = [valid_id EXCEPT ![r] = @ + 1]
      /\ valid_id[r] < MaxSearches
  BY DEF DoNextAction
<1>2. valid_id[r] + 1 \in 0 .. MaxSearches
  BY <1>1, PlannerAssumption DEF PlannerTypeOK
<1>3. \/ retries' = [retries EXCEPT ![r] = n]
      \/ retries' = [retries EXCEPT ![r] = n + 1]
  <2>1. PICK s \in ActionsTodo(t, d) :
          retries' = [retries EXCEPT ![r] = IF s = <<>> THEN n + 1 ELSE n]
    BY DEF DoNextAction
  <2> QED
    BY <2>1
<1>4. n + 1 \in Nat
  OBVIOUS
<1>5. valid_id' = [valid_id EXCEPT ![r] = valid_id[r] + 1]
  BY <1>1
<1>6. retries' \in [Robots -> Nat]
  BY <1>3, <1>4 DEF PlannerTypeOK
<1>7. valid_id' \in [Robots -> 0 .. MaxSearches]
  BY <1>2, <1>5 DEF PlannerTypeOK
<1> QED
  BY <1>6, <1>7

LEMMA InitTypes == Init => PlannerTypeOK
  BY PlannerAssumption DEF Init, PlannerTypeOK

(* What a step does not send or receive is left to Inv: the sets of        *)
(* actions and the candidates.                                             *)
LEMMA PlanTypes ==
  ASSUME Inv
  PROVE  /\ todo \in [Robots -> SUBSET Actions]
         /\ inprogress \in [Robots -> Actions \cup {NoAction}]
         /\ done \in [Robots -> SUBSET Actions]
         /\ candidates \in [Robots -> Seq(Actions)]
  BY DEF Inv, Functions, Plan, State, Search

Messages ==
  /\ started \subseteq Robots
  /\ valid_id \in [Robots -> 0 .. MaxSearches]
  /\ retries \in [Robots -> Nat]
  /\ path \in [Robots -> BOOLEAN]
  /\ paused \in [Robots -> BOOLEAN]
  /\ drive \in [Robots -> Seq(Actions)]
  /\ acts \in [Robots -> Seq(Actions)]
  /\ mode \in [Robots -> {"running", "stopping", "stopped"}]
  /\ pauses \in 0 .. MaxPauses

LEMMA MessagesStep ==
  ASSUME PlannerTypeOK, Inv, [Next]_vars
  PROVE  Messages'
<1> USE DEF Messages
<1>1. Messages
  BY DEF PlannerTypeOK
<1>2. ASSUME NEW q \in PathQuery, NEW p,
             UNCHANGED <<started, paused, pauses>>,
             \/ UNCHANGED <<state, search, path, robot>>
             \/ CallbackPaused(q, p) \/ CallbackPath(q, p)
             \/ CallbackNull(q, p)
      PROVE  Messages'
  <2> DEFINE r == q.robot
  <2>1. r \in Robots /\ q.action \in Actions
    BY DEF PathQuery
  <2>2. CASE UNCHANGED <<state, search, path, robot>> \/ CallbackPaused(q, p)
    BY <1>1, <1>2, <2>2 DEF CallbackPaused, search, robot
  <2>3. CASE CallbackPath(q, p)
    <3>1. /\ path' = [path EXCEPT ![r] = TRUE]
          /\ UNCHANGED <<search, acts, mode>>
      BY <2>3 DEF CallbackPath
    <3>2. drive' \in [Robots -> Seq(Actions)]
      <4>1. Sent(r, drive[r], q.action) \in Seq(Actions)
        BY <1>1, <2>1, SentType
      <4> QED
        BY <1>1, <2>1, <2>3, <4>1 DEF CallbackPath
    <3> QED
      BY <1>1, <1>2, <3>1, <3>2 DEF search
  <2>4. CASE CallbackNull(q, p)
    <3>1. UNCHANGED <<valid_id, path, robot>>
      BY <2>4 DEF CallbackNull
    <3>2. retries' \in [Robots -> Nat]
      <4>1. retries[r] + 1 \in Nat
        BY <1>1, <2>1
      <4>2. \/ retries' = retries
            \/ retries' = [retries EXCEPT ![r] = retries[r] + 1]
        BY <2>4 DEF CallbackNull
      <4> QED
        BY <1>1, <4>1, <4>2
    <3> QED
      BY <1>1, <1>2, <3>1, <3>2 DEF robot
  <2> QED
    BY <1>2, <2>2, <2>3, <2>4
<1>3. CASE \E r \in Robots : Start(r)
  <2>1. PICK r \in Robots : Start(r)
    BY <1>3
  <2>2. /\ valid_id' \in [Robots -> 0 .. MaxSearches]
        /\ retries' \in [Robots -> Nat]
    BY <1>1, <2>1, SearchTypes DEF Start
  <2> QED
    BY <1>1, <2>1, <2>2 DEF Start, robot
<1>4. CASE \E r \in Robots : RetryTimer(r)
  <2>1. PICK r \in Robots : RetryTimer(r)
    BY <1>4
  <2>2. retries[r] - 1 \in Nat
    BY <1>1, <2>1 DEF RetryTimer
  <2>3. /\ valid_id' \in [Robots -> 0 .. MaxSearches]
        /\ retries' \in [Robots -> Nat]
    BY <1>1, <2>1, <2>2, SearchTypes DEF RetryTimer
  <2> QED
    BY <1>1, <2>1, <2>3 DEF RetryTimer, robot
<1>5. CASE \E r \in Robots : PathFinished(r)
  <2>1. PICK r \in Robots : PathFinished(r)
    BY <1>5
  <2>2. Tail(drive[r]) \in Seq(Actions)
    BY <1>1, <2>1, HeadTailProperties DEF PathFinished
  <2>3. acts' \in [Robots -> Seq(Actions)]
    <3>1. CASE inprogress[r] = NoAction
      BY <1>1, <2>1, <3>1 DEF PathFinished
    <3>2. CASE inprogress[r] # NoAction
      <4>1. inprogress[r] \in Actions
        BY <3>2, PlanTypes
      <4>2. Sent(r, acts[r], inprogress[r]) \in Seq(Actions)
        BY <1>1, <4>1, SentType
      <4> QED
        BY <1>1, <2>1, <3>2, <4>2 DEF PathFinished
    <3> QED
      BY <3>1, <3>2
  <2> QED
    BY <1>1, <2>1, <2>2, <2>3 DEF PathFinished, search
<1>6. CASE \E r \in Robots : ActionFinished(r)
  <2>1. PICK r \in Robots : ActionFinished(r)
    BY <1>6
  <2>2. acts' \in [Robots -> Seq(Actions)]
    <3>1. PICK i \in 1 .. Len(acts[r]) :
            acts' = [acts EXCEPT ![r] = RemoveAt(acts[r], i)]
      BY <2>1 DEF ActionFinished
    <3>2. RemoveAt(acts[r], i) \in Seq(Actions)
      BY <1>1, RemoveAtType
    <3> QED
      BY <1>1, <3>1, <3>2
  <2>3. /\ valid_id' \in [Robots -> 0 .. MaxSearches]
        /\ retries' \in [Robots -> Nat]
    <3>1. CASE inprogress[r] = NoAction
      BY <1>1, <2>1, <3>1 DEF ActionFinished, search
    <3>2. CASE inprogress[r] # NoAction
      <4>1. DoNextAction(r, todo[r], done[r] \cup {inprogress[r]}, retries[r])
        BY <2>1, <3>2 DEF ActionFinished
      <4> QED
        BY <1>1, <4>1, SearchTypes
    <3> QED
      BY <3>1, <3>2
  <2>4. UNCHANGED <<started, path, paused, drive, mode, pauses>>
    BY <2>1 DEF ActionFinished
  <2> QED
    BY <1>1, <2>2, <2>3, <2>4
<1>7. CASE \E r \in Robots : OnPos(r)
  BY <1>1, <1>7 DEF OnPos, search, robot
<1>8. CASE \E r \in Robots : OnCollision(r)
  <2>1. PICK r \in Robots : OnCollision(r)
    BY <1>8
  <2>2. /\ DoNextAction(r, todo[r] \cup ({inprogress[r]} \ {NoAction}),
                        done[r], retries[r])
        /\ path' = [path EXCEPT ![r] = FALSE]
        /\ UNCHANGED <<started, paused, robot, pauses>>
    BY <2>1 DEF OnCollision
  <2>3. /\ valid_id' \in [Robots -> 0 .. MaxSearches]
        /\ retries' \in [Robots -> Nat]
    BY <1>1, <2>2, SearchTypes
  <2> QED
    BY <1>1, <2>2, <2>3 DEF robot
<1>9. CASE \E r \in Robots : RobotStops(r)
  BY <1>1, <1>9, EmptySeq DEF RobotStops, search
<1>10. CASE Answer
  <2>1. Head(pf.callbacksFifo).query \in PathQuery
    BY <1>10, AnswerTakes DEF Answer, Inv
  <2> QED
    BY <1>2, <1>10, <2>1 DEF Answer
<1>11. CASE Timeout
  <2>1. Head(pf.timers).query \in PathQuery
    BY <1>11, TimeoutKeeps DEF Timeout, Inv
  <2> QED
    BY <1>2, <1>11, <2>1 DEF Timeout
<1>12. CASE Pause
  <2>1. pauses' \in 0 .. MaxPauses
    BY <1>1, <1>12, PlannerAssumption DEF Pause
  <2> QED
    BY <1>1, <1>12, <2>1 DEF Pause, search
<1>13. CASE Resume
  BY <1>1, <1>13 DEF Resume, search
<1>14. CASE UNCHANGED vars
  BY <1>1, <1>14 DEF vars, search, robot
<1> QED
  BY <1>3, <1>4, <1>5, <1>6, <1>7, <1>8, <1>9, <1>10, <1>11, <1>12, <1>13,
     <1>14 DEF Next

LEMMA TypesStep ==
  ASSUME PlannerTypeOK, Inv, [Next]_vars
  PROVE  PlannerTypeOK'
<1>1. Inv'
  BY NextInv
<1>2. Messages'
  BY MessagesStep
<1>3. /\ todo' \in [Robots -> SUBSET Actions]
      /\ inprogress' \in [Robots -> Actions \cup {NoAction}]
      /\ done' \in [Robots -> SUBSET Actions]
      /\ candidates' \in [Robots -> Seq(Actions)]
  BY <1>1 DEF Inv, Functions, Plan, State, Search
<1> QED
  BY <1>2, <1>3 DEF Messages, PlannerTypeOK

-----------------------------------------------------------------------------
(* The report of an action in progress is promised when the action begins, *)
(* and its first half is replaced by the second before it is consumed.     *)
LEMMA ReportStep ==
  ASSUME PlannerTypeOK, Inv, ActionWillBeReported, [Next]_vars
  PROVE  ActionWillBeReported'
<1> DEFINE OK(x) == inprogress'[x] # NoAction /\ mode'[x] = "running" =>
                      drive'[x] # <<>> \/ acts'[x] # <<>>
<1> SUFFICES ASSUME NEW x \in Robots PROVE OK(x)
  BY DEF ActionWillBeReported
<1>1. /\ PlannerTypeOK
      /\ inprogress[x] # NoAction /\ mode[x] = "running" =>
           drive[x] # <<>> \/ acts[x] # <<>>
  BY DEF ActionWillBeReported
<1>2. ASSUME UNCHANGED <<inprogress, drive, acts, mode>>
      PROVE  OK(x)
  BY <1>1, <1>2
<1>3. ASSUME NEW q \in PathQuery, NEW p,
             \/ UNCHANGED <<state, search, path, robot>>
             \/ CallbackPaused(q, p) \/ CallbackPath(q, p)
             \/ CallbackNull(q, p)
      PROVE  OK(x)
  <2>1. CASE ~CallbackPath(q, p)
    BY <1>2, <1>3, <2>1 DEF CallbackPaused, CallbackNull, state, robot
  <2>2. CASE CallbackPath(q, p)
    <3> DEFINE r == q.robot
    <3>1. r \in Robots /\ q.action \in Actions
      BY DEF PathQuery
    <3>2. CASE q.id # valid_id[r]
      BY <1>2, <2>2, <3>2 DEF CallbackPath
    <3>3. CASE q.id = valid_id[r]
      <4>1. /\ inprogress' = [inprogress EXCEPT ![r] = q.action]
            /\ drive' = [drive EXCEPT ![r] = Sent(r, drive[r], q.action)]
            /\ UNCHANGED <<acts, mode>>
        BY <2>2, <3>3 DEF CallbackPath
      <4>2. mode[r] = "running" => Sent(r, drive[r], q.action) # <<>>
        BY <1>1, <3>1, SentType DEF PlannerTypeOK
      <4> QED
        BY <1>1, <3>1, <4>1, <4>2 DEF PlannerTypeOK
    <3> QED
      BY <3>2, <3>3
  <2> QED
    BY <2>1, <2>2
<1>4. CASE \E r \in Robots : Start(r) \/ RetryTimer(r) \/ OnPos(r)
  BY <1>2, <1>4 DEF Start, RetryTimer, OnPos, state, robot
<1>5. CASE \E r \in Robots : PathFinished(r)
  <2>1. PICK r \in Robots : PathFinished(r)
    BY <1>5
  <2>2. UNCHANGED <<inprogress, mode>> /\ drive' = [drive EXCEPT ![r] = Tail(@)]
    BY <2>1 DEF PathFinished, state
  <2>3. CASE inprogress[r] = NoAction
    BY <1>1, <2>1, <2>2, <2>3 DEF PathFinished, PlannerTypeOK
  <2>4. CASE inprogress[r] # NoAction
    <3>1. acts' = [acts EXCEPT ![r] = Sent(r, acts[r], inprogress[r])]
      BY <2>1, <2>4 DEF PathFinished
    <3>2. inprogress[r] \in Actions
      BY <2>4, PlanTypes
    <3>3. mode[r] = "running" => Sent(r, acts[r], inprogress[r]) # <<>>
      BY <1>1, <3>2, SentType DEF PlannerTypeOK
    <3> QED
      BY <1>1, <2>2, <3>1, <3>3 DEF PlannerTypeOK
  <2> QED
    BY <2>3, <2>4
<1>6. CASE \E r \in Robots : ActionFinished(r)
  <2>1. PICK r \in Robots : ActionFinished(r)
    BY <1>6
  <2>2. inprogress'[r] = NoAction
    BY <1>1, <2>1 DEF ActionFinished, PlannerTypeOK, state
  <2>3. ASSUME x # r
        PROVE  /\ inprogress'[x] = inprogress[x] /\ acts'[x] = acts[x]
               /\ drive' = drive /\ mode' = mode
    BY <1>1, <2>1, <2>3 DEF ActionFinished, PlannerTypeOK, state
  <2> QED
    BY <1>1, <2>2, <2>3
<1>7. CASE \E r \in Robots : OnCollision(r)
  <2>1. PICK r \in Robots : OnCollision(r)
    BY <1>7
  <2>2. /\ inprogress' = [inprogress EXCEPT ![r] = NoAction]
        /\ UNCHANGED <<drive, acts, mode>>
    BY <2>1 DEF OnCollision, robot
  <2> QED
    BY <1>1, <2>2 DEF PlannerTypeOK
<1>8. CASE \E r \in Robots : RobotStops(r)
  <2>1. PICK r \in Robots : RobotStops(r)
    BY <1>8
  <2>2. mode'[r] # "running"
    BY <1>1, <2>1 DEF RobotStops, PlannerTypeOK
  <2>3. ASSUME x # r
        PROVE  /\ inprogress' = inprogress /\ acts'[x] = acts[x]
               /\ drive'[x] = drive[x] /\ mode'[x] = mode[x]
    BY <1>1, <2>1, <2>3 DEF RobotStops, PlannerTypeOK, state
  <2> QED
    BY <1>1, <2>2, <2>3
<1>9. CASE Answer
  <2>1. Head(pf.callbacksFifo).query \in PathQuery
    BY <1>9, AnswerTakes DEF Answer, Inv
  <2> QED
    BY <1>3, <1>9, <2>1 DEF Answer
<1>10. CASE Timeout
  <2>1. Head(pf.timers).query \in PathQuery
    BY <1>10, TimeoutKeeps DEF Timeout, Inv
  <2> QED
    BY <1>3, <1>10, <2>1 DEF Timeout
<1>11. CASE Pause \/ Resume
  <2>1. mode'[x] # "running" \/ mode'[x] = mode[x]
    BY <1>11 DEF Pause, Resume
  <2>2. mode'[x] # "running"
    BY <1>1, <1>11 DEF Pause, Resume, PlannerTypeOK
  <2> QED
    BY <2>2
<1>12. CASE UNCHANGED vars
  BY <1>2, <1>12 DEF vars, state, robot
<1> QED
  BY <1>4, <1>5, <1>6, <1>7, <1>8, <1>9, <1>10, <1>11, <1>12 DEF Next

(* Whatever the queries, collisions and emergency stops, the planner's     *)
(* state has its type, and an action in progress on a robot that runs has  *)
(* a report to come: path_finished, or then action_finished.               *)
THEOREM PlannerReports == Spec => [](PlannerTypeOK /\ ActionWillBeReported)
<1> DEFINE IInv == Inv /\ PlannerTypeOK /\ ActionWillBeReported
<1>1. Init => ActionWillBeReported
  BY DEF Init, ActionWillBeReported
<1>2. Init => IInv
  BY <1>1, InitInv, InitTypes
<1>3. IInv /\ [Next]_vars => IInv'
  BY NextInv, TypesStep, ReportStep
<1> QED
  BY <1>2, <1>3, PTL DEF Spec
-----------------------------------------------------------------------------
(* Only an answer that found a path begins an action, and its callback      *)
(* looks at robot.paused first.                                            *)
LEMMA PausedStep ==
  ASSUME PlannerTypeOK, Inv, [Next]_vars, NEW x \in Robots, paused[x]
  PROVE  inprogress'[x] \in {inprogress[x], NoAction}
<1> DEFINE OK == inprogress'[x] \in {inprogress[x], NoAction}
<1>1. inprogress \in [Robots -> Actions \cup {NoAction}]
  BY DEF PlannerTypeOK
<1>2. ASSUME NEW q \in PathQuery, NEW p,
             \/ UNCHANGED <<state, search, path, robot>>
             \/ CallbackPaused(q, p) \/ CallbackPath(q, p)
             \/ CallbackNull(q, p)
      PROVE  OK
  <2>1. CASE CallbackPath(q, p)
    <3>1. q.robot # x
      BY <2>1 DEF CallbackPath
    <3>2. \/ inprogress' = [inprogress EXCEPT ![q.robot] = q.action]
          \/ inprogress' = inprogress
      BY <2>1 DEF CallbackPath
    <3> QED
      BY <1>1, <3>1, <3>2
  <2> QED
    BY <1>2, <2>1 DEF CallbackPaused, CallbackNull, state
<1>3. CASE Answer
  <2>1. Head(pf.callbacksFifo).query \in PathQuery
    BY <1>3, AnswerTakes DEF Answer, Inv
  <2> QED
    BY <1>2, <1>3, <2>1 DEF Answer
<1>4. CASE Timeout
  <2>1. Head(pf.timers).query \in PathQuery
    BY <1>4, TimeoutKeeps DEF Timeout, Inv
  <2> QED
    BY <1>2, <1>4, <2>1 DEF Timeout
<1>5. CASE \E r \in Robots : ActionFinished(r) \/ OnCollision(r)
  <2>1. PICK r \in Robots : ActionFinished(r) \/ OnCollision(r)
    BY <1>5
  <2>2. \/ inprogress' = [inprogress EXCEPT ![r] = NoAction]
        \/ inprogress' = inprogress
    BY <2>1 DEF ActionFinished, OnCollision, state
  <2> QED
    BY <1>1, <2>2
<1>6. CASE \/ \E r \in Robots : \/ Start(r) \/ RetryTimer(r) \/ PathFinished(r)
                               \/ OnPos(r) \/ RobotStops(r)
           \/ Pause \/ Resume \/ UNCHANGED vars
  BY <1>6 DEF Start, RetryTimer, PathFinished, OnPos, RobotStops, Pause,
              Resume, vars, state
<1> QED
  BY <1>3, <1>4, <1>5, <1>6 DEF Next

(* A paused robot begins no action, however late the path it asked for     *)
(* before the emergency stop comes back.                                   *)
THEOREM PausedIsQuiet == Spec => PausedBeginsNothing
<1>1. PlannerTypeOK /\ Inv /\ [Next]_vars =>
        [\A r \in Robots :
           paused[r] => inprogress'[r] \in {inprogress[r], NoAction}]_vars
  BY PausedStep
<1>2. PlannerTypeOK /\ Inv /\ [Next]_vars => (PlannerTypeOK /\ Inv)'
  BY NextInv, TypesStep
<1>3. Init => PlannerTypeOK /\ Inv
  BY InitInv, InitTypes
<1> QED
  BY <1>1, <1>2, <1>3, PTL DEF Spec, PausedBeginsNothing
-----------------------------------------------------------------------------
(* The front from the side of an asker.  A number designates one query: no *)
(* number above started was given, and a timer bears the number of the      *)
(* entry of callbacksFifo it was set for.  A query is awaited as long as   *)
(* its callback, which is not silenced, will be called.                    *)
Numbered(p) ==
  /\ \A n \in p.silenced : n <= p.started
  /\ \A i \in 1 .. Len(p.callbacksFifo) : p.callbacksFifo[i].nr <= p.started
  /\ \A i \in 1 .. Len(p.timers) : p.timers[i].nr <= p.started
  /\ \A i \in 1 .. Len(p.timers) : \A j \in 1 .. Len(p.callbacksFifo) :
       p.timers[i].nr = p.callbacksFifo[j].nr =>
         p.timers[i] = p.callbacksFifo[j]

Live(p, q) ==
  \E i \in 1 .. Len(p.callbacksFifo) :
    p.callbacksFifo[i].query = q /\ p.callbacksFifo[i].nr \notin p.silenced

Pending(p, q) ==
  \E i \in 1 .. Len(p.pendingQueries) : p.pendingQueries[i] = q

Awaited(p, q) == Pending(p, q) \/ Live(p, q)

\* From p to r, n more queries are asked and none is awaited no more.
Grows(p, r, n) ==
  /\ Numbered(r) /\ PF!Asked(r) = PF!Asked(p) + n
  /\ \A q : Awaited(p, q) => Awaited(r, q)

\* From p to r, only the query x may be awaited no more.
Gives(p, r, x) ==
  /\ Numbered(r) /\ PF!Asked(r) = PF!Asked(p)
  /\ \A q : Awaited(p, q) /\ q # x => Awaited(r, q)

LEMMA GrowsTwice ==
  ASSUME NEW p, NEW r, NEW s, NEW n \in Nat, PF!Asked(p) \in Nat,
         Grows(p, r, 0), Grows(r, s, n)
  PROVE  Grows(p, s, n)
  BY DEF Grows

LEMMA AskedNat ==
  ASSUME NEW p, Typed(p)
  PROVE  PF!Asked(p) \in Nat
<1>1. p.pendingQueries \in Seq(PathQuery) /\ p.started \in Nat
  BY DEF Typed
<1> QED
  BY <1>1, LenProperties DEF PF!Asked

(* Numbers are as long as the sequences that hold them. *)
LEMMA NumberTypes ==
  ASSUME NEW p, Typed(p)
  PROVE  /\ Len(p.callbacksFifo) \in Nat /\ Len(p.timers) \in Nat
         /\ Len(p.pendingQueries) \in Nat
         /\ p.started \in Nat /\ p.silenced \subseteq Nat
         /\ \A i \in 1 .. Len(p.callbacksFifo) : p.callbacksFifo[i].nr \in Nat
         /\ \A i \in 1 .. Len(p.timers) : p.timers[i].nr \in Nat
<1>1. /\ p.callbacksFifo \in Seq(Entry) /\ p.timers \in Seq(Entry)
      /\ p.pendingQueries \in Seq(PathQuery)
      /\ p.started \in Nat /\ p.silenced \subseteq Nat
  BY DEF Typed
<1>2. /\ \A i \in 1 .. Len(p.callbacksFifo) : p.callbacksFifo[i] \in Entry
      /\ \A i \in 1 .. Len(p.timers) : p.timers[i] \in Entry
  BY <1>1, ElementOfSeq
<1>3. \A e \in Entry : e.nr \in Nat
  BY DEF Entry
<1> QED
  BY <1>1, <1>2, <1>3, LenProperties

(* A query sent gets a number nobody bears: it is awaited. *)
LEMMA PrepareGrows ==
  ASSUME NEW p, NEW q \in PathQuery, Typed(p), Numbered(p),
         NEW r, r = PF!prepareAndDoQuery(p, q)
  PROVE  Grows(p, r, 1) /\ Awaited(r, q)
<1> DEFINE n == p.started + 1
           e == [nr |-> n, query |-> q]
           c == p.callbacksFifo
           f == Append(c, e)
           u == p.timers
           t == Append(u, e)
<1>1. /\ c \in Seq(Entry) /\ u \in Seq(Entry) /\ p.started \in Nat
  BY DEF Typed
<1>2. e \in Entry /\ e.nr = n /\ e.query = q /\ n \in Nat
  BY <1>1 DEF Entry
<1>3. /\ r.callbacksFifo = f /\ r.timers = t /\ r.started = n
      /\ r.silenced = p.silenced /\ r.pendingQueries = p.pendingQueries
  BY DEF PF!prepareAndDoQuery
<1>4. /\ Len(c) \in Nat /\ Len(u) \in Nat /\ p.silenced \subseteq Nat
      /\ \A i \in 1 .. Len(c) : c[i].nr \in Nat
      /\ \A i \in 1 .. Len(u) : u[i].nr \in Nat
  BY NumberTypes
<1>5. /\ \A k \in p.silenced : k <= p.started
      /\ \A i \in 1 .. Len(c) : c[i].nr <= p.started
      /\ \A i \in 1 .. Len(u) : u[i].nr <= p.started
      /\ \A i \in 1 .. Len(u) : \A j \in 1 .. Len(c) :
           u[i].nr = c[j].nr => u[i] = c[j]
  BY DEF Numbered
<1>6. PF!Asked(r) = PF!Asked(p) + 1
  <2>1. Len(p.pendingQueries) \in Nat
    BY NumberTypes
  <2> QED
    BY <1>1, <1>3, <2>1 DEF PF!Asked
<1> HIDE DEF e, c, u
<1>7. /\ Len(f) = Len(c) + 1 /\ f[Len(c) + 1] = e
      /\ \A i \in 1 .. Len(c) : f[i] = c[i]
  BY <1>1, <1>2, AppendOnce
<1>8. /\ Len(t) = Len(u) + 1 /\ t[Len(u) + 1] = e
      /\ \A i \in 1 .. Len(u) : t[i] = u[i]
  BY <1>1, <1>2, AppendOnce
<1> HIDE DEF f, t
<1>9. /\ \A i \in 1 .. Len(f) : i \in 1 .. Len(c) \/ i = Len(c) + 1
      /\ \A i \in 1 .. Len(t) : i \in 1 .. Len(u) \/ i = Len(u) + 1
  BY <1>4, <1>7, <1>8
<1>10. /\ \A k \in p.silenced : k <= n /\ k # n
       /\ \A i \in 1 .. Len(c) : c[i].nr <= n /\ c[i].nr # n
       /\ \A i \in 1 .. Len(u) : u[i].nr <= n /\ u[i].nr # n
  <2>1. \A k \in Nat : k <= p.started => k <= n /\ k # n
    BY <1>1
  <2> QED
    BY <1>4, <1>5, <2>1
<1>11. n <= n
  BY <1>2
<1> HIDE DEF n
<1>12. Numbered(r)
  <2>1. /\ \A i \in 1 .. Len(f) : f[i].nr <= n
        /\ \A i \in 1 .. Len(t) : t[i].nr <= n
    BY <1>2, <1>7, <1>8, <1>9, <1>10, <1>11
  <2>2. ASSUME NEW i \in 1 .. Len(t), NEW j \in 1 .. Len(f), t[i].nr = f[j].nr
        PROVE  t[i] = f[j]
    <3>1. CASE i \in 1 .. Len(u) /\ j \in 1 .. Len(c)
      BY <2>2, <3>1, <1>5, <1>7, <1>8
    <3>2. CASE i = Len(u) + 1 /\ j \in 1 .. Len(c)
      BY <2>2, <3>2, <1>2, <1>7, <1>8, <1>10
    <3>3. CASE i \in 1 .. Len(u) /\ j = Len(c) + 1
      BY <2>2, <3>3, <1>2, <1>7, <1>8, <1>10
    <3>4. CASE i = Len(u) + 1 /\ j = Len(c) + 1
      BY <3>4, <1>7, <1>8
    <3> QED
      BY <3>1, <3>2, <3>3, <3>4, <1>9
  <2> QED
    BY <1>3, <1>10, <2>1, <2>2 DEF Numbered
<1>13. 1 .. Len(c) \subseteq 1 .. Len(f) /\ Len(c) + 1 \in 1 .. Len(f)
  BY <1>4, <1>7
<1>14. Live(r, q)
  BY <1>2, <1>3, <1>7, <1>10, <1>13 DEF Live
<1>15. ASSUME NEW x, Live(p, x)
       PROVE  Live(r, x)
  <2>1. PICK i \in 1 .. Len(c) : c[i].query = x /\ c[i].nr \notin p.silenced
    BY <1>15 DEF Live, c
  <2>2. i \in 1 .. Len(f) /\ f[i] = c[i]
    BY <1>7, <1>13
  <2> QED
    BY <1>3, <2>1, <2>2 DEF Live
<1>16. \A x : Pending(p, x) => Pending(r, x)
  BY <1>3 DEF Pending
<1> QED
  BY <1>6, <1>12, <1>14, <1>15, <1>16 DEF Grows, Awaited

(* getPath sends the query or makes it wait. *)
LEMMA GetPathGrows ==
  ASSUME NEW p, NEW q \in PathQuery, Typed(p), Numbered(p),
         NEW r, r = PF!getPath(p, q)
  PROVE  Grows(p, r, 1) /\ Awaited(r, q)
<1>1. CASE ~p.busy
  BY <1>1, PrepareGrows DEF PF!getPath
<1>2. CASE p.busy
  <2> DEFINE w == p.pendingQueries
             s == Append(w, q)
  <2>1. w \in Seq(PathQuery) /\ Len(w) \in Nat /\ p.started \in Nat
    BY LenProperties DEF Typed
  <2>2. /\ Len(s) = Len(w) + 1 /\ s[Len(w) + 1] = q
        /\ \A i \in 1 .. Len(w) : s[i] = w[i]
    BY <2>1, AppendOnce
  <2>3. /\ r.pendingQueries = s /\ r.callbacksFifo = p.callbacksFifo
        /\ r.timers = p.timers /\ r.started = p.started
        /\ r.silenced = p.silenced
    BY <1>2 DEF PF!getPath, Typed
  <2> HIDE DEF s
  <2>4. 1 .. Len(w) \subseteq 1 .. Len(s) /\ Len(w) + 1 \in 1 .. Len(s)
    BY <2>1, <2>2
  <2>5. Numbered(r) /\ \A x : Live(p, x) => Live(r, x)
    BY <2>3 DEF Numbered, Live
  <2>6. \A x : Pending(p, x) => Pending(r, x)
    BY <2>2, <2>3, <2>4 DEF Pending
  <2>7. Pending(r, q)
    BY <2>2, <2>3, <2>4 DEF Pending
  <2>8. PF!Asked(r) = PF!Asked(p) + 1
    <3>1. /\ PF!Asked(r) = p.started + Len(s)
          /\ PF!Asked(p) = p.started + Len(w)
      BY <2>3 DEF PF!Asked
    <3>2. p.started + (Len(w) + 1) = (p.started + Len(w)) + 1
      BY <2>1
    <3> QED
      BY <2>2, <3>1, <3>2
  <2> QED
    BY <2>5, <2>6, <2>7, <2>8 DEF Grows, Awaited
<1> QED
  BY <1>1, <1>2

(* The head of the pending queries is sent: it is awaited as it was. *)
LEMMA ServeGrows ==
  ASSUME NEW p, Typed(p), Numbered(p),
         NEW r, r = PF!CallbackThenNext(p, NoQuery)
  PROVE  Grows(p, r, 0)
<1>0. PF!Asked(p) \in Nat
  BY AskedNat
<1>1. r = IF p.pendingQueries = <<>> THEN p
          ELSE PF!prepareAndDoQuery([p EXCEPT !.pendingQueries = Tail(@)],
                                    Head(p.pendingQueries))
  BY DEF PF!CallbackThenNext
<1>2. CASE p.pendingQueries = <<>>
  BY <1>0, <1>1, <1>2 DEF Grows
<1>3. CASE p.pendingQueries # <<>>
  <2> DEFINE w == p.pendingQueries
             s == Tail(w)
             q == Head(w)
             b == [p EXCEPT !.pendingQueries = s]
  <2>1. w \in Seq(PathQuery) /\ p.started \in Nat
    BY DEF Typed
  <2>2. /\ s \in Seq(PathQuery) /\ Len(w) \in Nat /\ Len(w) >= 1
        /\ Len(s) = Len(w) - 1 /\ Len(s) \in Nat
        /\ \A i \in 1 .. Len(s) : s[i] = w[i + 1]
        /\ q = w[1] /\ q \in PathQuery
    BY <2>1, <1>3, TailOnce
  <2>3. r = PF!prepareAndDoQuery(b, q)
    BY <1>1, <1>3
  <2> HIDE DEF s, q
  <2>4. Typed(b)
    BY <2>2 DEF Typed
  <2>5. /\ b.pendingQueries = s /\ b.callbacksFifo = p.callbacksFifo
        /\ b.timers = p.timers /\ b.started = p.started
        /\ b.silenced = p.silenced
    BY DEF Typed
  <2> HIDE DEF b
  <2>6. Numbered(b) /\ \A x : Live(p, x) => Live(b, x)
    BY <2>5 DEF Numbered, Live
  <2>7. Grows(b, r, 1) /\ Awaited(r, q)
    BY <2>2, <2>3, <2>4, <2>6, PrepareGrows
  <2>8. ASSUME NEW x, Pending(p, x)
        PROVE  x = q \/ Pending(b, x)
    <3>1. PICK i \in 1 .. Len(w) : w[i] = x
      BY <2>8 DEF Pending
    <3>2. CASE i = 1
      BY <3>1, <3>2, <2>2
    <3>3. CASE i # 1
      <4>1. i - 1 \in 1 .. Len(s) /\ s[i - 1] = w[i]
        BY <3>3, <2>2
      <4> QED
        BY <3>1, <4>1, <2>5 DEF Pending
    <3> QED
      BY <3>2, <3>3
  <2>9. PF!Asked(r) = PF!Asked(p) + 0
    <3>1. PF!Asked(b) = PF!Asked(p) - 1
      BY <2>1, <2>2, <2>5 DEF PF!Asked
    <3>2. PF!Asked(r) = PF!Asked(b) + 1
      BY <2>7 DEF Grows
    <3> QED
      BY <1>0, <3>1, <3>2
  <2>10. ASSUME NEW x, Awaited(p, x)
         PROVE  Awaited(r, x)
    <3>1. x = q \/ Awaited(b, x)
      BY <2>10, <2>6, <2>8 DEF Awaited
    <3> QED
      BY <3>1, <2>7 DEF Grows
  <2> QED
    BY <2>7, <2>9, <2>10 DEF Grows
<1> QED
  BY <1>2, <1>3

LEMMA CallbackGrows ==
  ASSUME NEW p, NEW q \in PathQuery, FrontOK(p), q \notin Asked(p),
         Numbered(p), NEW r, r = PF!CallbackThenNext(p, q)
  PROVE  Grows(p, r, 1) /\ Awaited(r, q)
<1> DEFINE a == PF!getPath(p, q)
<1>1. FrontOK(a)
  BY GetPathAsks
<1>2. r = PF!CallbackThenNext(a, NoQuery)
  BY NothingAsked DEF PF!CallbackThenNext
<1>3. Grows(p, a, 1) /\ Awaited(a, q)
  BY GetPathGrows DEF FrontOK
<1> HIDE DEF a
<1>4. Grows(a, r, 0)
  BY <1>1, <1>2, <1>3, ServeGrows DEF FrontOK, Grows
<1>5. PF!Asked(a) \in Nat /\ PF!Asked(p) \in Nat
  BY <1>1, AskedNat DEF FrontOK
<1> QED
  BY <1>3, <1>4, <1>5 DEF Grows

(* An answer ends the wait of the query it answers, if it was awaited.     *)
LEMMA AnswerGives ==
  ASSUME NEW p, Typed(p), Numbered(p), p.stdin # <<>>,
         NEW r, r = PF!Answered(p),
         NEW e, e = Head(p.callbacksFifo)
  PROVE  Gives(p, r, e.query) /\ (e.nr \in p.silenced => Grows(p, r, 0))
<1> DEFINE c == p.callbacksFifo
           f == Tail(c)
           u == p.timers
           t == PF!ClearTimeout(p)
<1>1. /\ c \in Seq(Entry) /\ u \in Seq(Entry)
      /\ p.stdin \in Seq(Nat) /\ Len(c) = Len(p.stdin)
  BY DEF Typed
<1>2. c # <<>>
  BY <1>1, EmptySeq, LenProperties
<1>3. /\ Len(c) \in Nat /\ Len(c) >= 1 /\ Len(f) = Len(c) - 1
      /\ Len(f) \in Nat
      /\ \A i \in 1 .. Len(f) : f[i] = c[i + 1]
      /\ e = c[1]
  BY <1>1, <1>2, TailOnce
<1>4. Len(t) \in Nat /\ Len(t) <= Len(u) /\ Len(u) \in Nat
      /\ \A i \in 1 .. Len(t) : t[i] = u[i]
  <2>1. Len(u) \in Nat /\ \A i \in 1 .. Len(u) : u[i] \in Entry
    BY <1>1, LenProperties, ElementOfSeq
  <2>2. CASE u # <<>> /\ u[Len(u)].nr = p.started
    <3>1. t = SubSeq(u, 1, Len(u) - 1) /\ Len(u) # 0
      BY <1>1, <2>1, <2>2, EmptySeq DEF PF!ClearTimeout
    <3>2. Len(u) - 1 \in Int /\ \A i \in 1 .. Len(u) - 1 : u[i] \in Entry
      BY <2>1
    <3>3. /\ Len(t) = IF 1 <= Len(u) - 1 THEN Len(u) - 1 - 1 + 1 ELSE 0
          /\ \A i \in 1 .. Len(u) - 1 - 1 + 1 : t[i] = u[1 + i - 1]
      BY <3>1, <3>2, SubSeqProperties
    <3> HIDE DEF t, u
    <3>4. Len(t) = Len(u) - 1
      <4>1. \A n \in Nat : (IF 1 <= n - 1 THEN n - 1 - 1 + 1 ELSE 0) =
                          IF n = 0 THEN 0 ELSE n - 1
        OBVIOUS
      <4> QED
        BY <3>1, <3>3, <2>1, <4>1
    <3>5. \A i \in 1 .. Len(t) : t[i] = u[i]
      BY <3>3, <3>4, <2>1
    <3> QED
      BY <3>4, <3>5, <3>1, <2>1
  <2>3. CASE ~(u # <<>> /\ u[Len(u)].nr = p.started)
    BY <2>1, <2>3 DEF PF!ClearTimeout
  <2> QED
    BY <2>2, <2>3
<1>5. /\ r.callbacksFifo = f /\ r.timers = t /\ r.started = p.started
      /\ r.silenced = p.silenced /\ r.pendingQueries = p.pendingQueries
  BY DEF PF!Answered, Typed
<1> HIDE DEF c, f, t, u
<1>6. /\ \A i \in 1 .. Len(f) : i + 1 \in 1 .. Len(c)
      /\ \A i \in 1 .. Len(t) : i \in 1 .. Len(u)
  BY <1>3, <1>4
<1>7. Numbered(r)
  <2>1. /\ \A i \in 1 .. Len(c) : c[i].nr <= p.started
        /\ \A i \in 1 .. Len(u) : u[i].nr <= p.started
        /\ \A i \in 1 .. Len(u) : \A j \in 1 .. Len(c) :
             u[i].nr = c[j].nr => u[i] = c[j]
        /\ \A k \in p.silenced : k <= p.started
    BY DEF Numbered, c, u
  <2>2. /\ \A i \in 1 .. Len(f) : f[i].nr <= p.started
        /\ \A i \in 1 .. Len(t) : t[i].nr <= p.started
    BY <1>3, <1>4, <1>6, <2>1
  <2>3. \A i \in 1 .. Len(t) : \A j \in 1 .. Len(f) :
          t[i].nr = f[j].nr => t[i] = f[j]
    BY <1>3, <1>4, <1>6, <2>1
  <2> QED
    BY <1>5, <2>1, <2>2, <2>3 DEF Numbered
<1>8. PF!Asked(r) = PF!Asked(p) /\ PF!Asked(p) \in Nat
  BY <1>5, AskedNat DEF PF!Asked
<1>9. ASSUME NEW x, Live(p, x), x # e.query \/ e.nr \in p.silenced
      PROVE  Live(r, x)
  <2>1. PICK i \in 1 .. Len(c) : c[i].query = x /\ c[i].nr \notin p.silenced
    BY <1>9 DEF Live, c
  <2>2. i # 1
    BY <1>3, <1>9, <2>1
  <2>3. i - 1 \in 1 .. Len(f) /\ f[i - 1] = c[i]
    BY <1>3, <2>2
  <2> QED
    BY <1>5, <2>1, <2>3 DEF Live
<1>10. \A x : Pending(p, x) => Pending(r, x)
  BY <1>5 DEF Pending
<1>11. Gives(p, r, e.query)
  BY <1>7, <1>8, <1>9, <1>10 DEF Gives, Awaited
<1>12. e.nr \in p.silenced => Grows(p, r, 0)
  BY <1>7, <1>8, <1>9, <1>10 DEF Grows, Awaited
<1> QED
  BY <1>11, <1>12

(* A timeout ends the wait of the query its timer was set for. *)
LEMMA TimeoutGives ==
  ASSUME NEW p, Typed(p), Numbered(p), p.timers # <<>>,
         NEW r, r = PF!TimedOut(p), NEW e, e = Head(p.timers)
  PROVE  Gives(p, r, e.query)
<1> DEFINE c == p.callbacksFifo
           u == p.timers
           t == Tail(u)
<1>1. u \in Seq(Entry)
  BY DEF Typed
<1>2. /\ Len(u) \in Nat /\ Len(u) >= 1 /\ Len(t) = Len(u) - 1
      /\ Len(t) \in Nat
      /\ \A i \in 1 .. Len(t) : t[i] = u[i + 1]
      /\ e = u[1]
  BY <1>1, TailOnce
<1>3. /\ r.callbacksFifo = c /\ r.timers = t /\ r.started = p.started
      /\ r.silenced = p.silenced \cup {e.nr}
      /\ r.pendingQueries = p.pendingQueries
  BY DEF PF!TimedOut, Typed
<1> HIDE DEF c, t, u
<1>4. \A i \in 1 .. Len(t) : i + 1 \in 1 .. Len(u)
  BY <1>2
<1>5. 1 \in 1 .. Len(u)
  BY <1>2
<1>6. /\ \A i \in 1 .. Len(c) : c[i].nr <= p.started
      /\ \A i \in 1 .. Len(u) : u[i].nr <= p.started
      /\ \A i \in 1 .. Len(u) : \A j \in 1 .. Len(c) :
           u[i].nr = c[j].nr => u[i] = c[j]
      /\ \A k \in p.silenced : k <= p.started
  BY DEF Numbered, c, u
<1>7. Numbered(r)
  <2>1. \A k \in r.silenced : k <= p.started
    BY <1>2, <1>3, <1>5, <1>6
  <2>2. \A i \in 1 .. Len(t) : t[i].nr <= p.started
    BY <1>2, <1>4, <1>6
  <2>3. \A i \in 1 .. Len(t) : \A j \in 1 .. Len(c) :
          t[i].nr = c[j].nr => t[i] = c[j]
    BY <1>2, <1>4, <1>6
  <2> QED
    BY <1>3, <1>6, <2>1, <2>2, <2>3 DEF Numbered
<1>8. PF!Asked(r) = PF!Asked(p)
  BY <1>3 DEF PF!Asked
<1>9. ASSUME NEW x, Live(p, x), x # e.query
      PROVE  Live(r, x)
  <2>1. PICK i \in 1 .. Len(c) : c[i].query = x /\ c[i].nr \notin p.silenced
    BY <1>9 DEF Live, c
  <2>2. c[i].nr # e.nr
    BY <1>2, <1>5, <1>6, <1>9, <2>1
  <2> QED
    BY <1>3, <2>1, <2>2 DEF Live
<1>10. \A x : Pending(p, x) => Pending(r, x)
  BY <1>3 DEF Pending
<1> QED
  BY <1>7, <1>8, <1>9, <1>10 DEF Gives, Awaited
-----------------------------------------------------------------------------
(* What a step asks, as an asker and as the front see it.                  *)
Unasked(r, q) ==      \* the search that r goes on with does not list q
  \A i \in 1 .. Len(candidates'[r]) : candidates'[r][i] # q.action

SearchAsks(r, q) ==
  /\ q \in PathQuery /\ q.robot = r /\ q.id = valid_id[r] + 1
  /\ pf' = PF!getPath(pf, q) /\ Grows(pf, pf', 1) /\ Awaited(pf', q)
  /\ Unasked(r, q)

SearchWaits(r) == pf' = pf /\ retries'[r] > 0

\* The search of r took effect; of the other robots nothing moved.
Searched(r) ==
  /\ valid_id[r] \in Nat /\ valid_id'[r] = valid_id[r] + 1
  /\ \A x \in Robots \ {r} : /\ valid_id'[x] = valid_id[x]
                             /\ candidates'[x] = candidates[x]
                             /\ retries'[x] = retries[x]
  /\ SearchWaits(r) \/ \E q : SearchAsks(r, q)

LEMMA SearchGrows ==
  ASSUME Inv, PlannerTypeOK, Numbered(pf), NEW r \in Robots,
         NEW t, NEW g, NEW d, NEW n \in Nat, State(t, g, d),
         DoNextAction(r, t, d, n)
  PROVE  Searched(r)
<1>1. PICK s \in ActionsTodo(t, d) :
        /\ candidates' = [candidates EXCEPT ![r] = Rest(s)]
        /\ retries' = [retries EXCEPT ![r] = IF s = <<>> THEN n + 1 ELSE n]
        /\ LET q == QueryFor(r, s, valid_id[r] + 1)
           IN pf' = IF q = NoQuery THEN pf ELSE PF!getPath(pf, q)
  BY DEF DoNextAction
<1>2. /\ valid_id' = [valid_id EXCEPT ![r] = @ + 1]
      /\ valid_id[r] < MaxSearches
  BY DEF DoNextAction
<1>3. /\ valid_id[r] \in Nat /\ valid_id'[r] = valid_id[r] + 1
      /\ \A x \in Robots \ {r} : /\ valid_id'[x] = valid_id[x]
                                 /\ candidates'[x] = candidates[x]
                                 /\ retries'[x] = retries[x]
  BY <1>1, <1>2, PlannerAssumption DEF PlannerTypeOK
<1>4. s \in Seq(Actions)
  BY ActionsTodoDoable DEF State
<1>5. CASE s = <<>>
  <2>1. pf' = pf
    BY <1>1, <1>5 DEF QueryFor
  <2>2. retries'[r] = n + 1
    BY <1>1, <1>5 DEF PlannerTypeOK
  <2> QED
    BY <1>3, <2>1, <2>2 DEF Searched, SearchWaits
<1>6. CASE s # <<>>
  <2> DEFINE q == [robot |-> r, action |-> Head(s), id |-> valid_id[r] + 1]
  <2>1. Head(s) \in Actions
    BY <1>4, <1>6, HeadTailProperties
  <2>2. /\ q \in PathQuery /\ q.robot = r /\ q.id = valid_id[r] + 1
    BY <1>2, <1>3, <2>1, PlannerAssumption DEF PathQuery
  <2>3. pf' = PF!getPath(pf, q)
    <3>1. QueryFor(r, s, valid_id[r] + 1) = q
      BY <1>6 DEF QueryFor
    <3> QED
      BY <1>1, <3>1, <2>2, NothingAsked
  <2> HIDE DEF q
  <2>4. Grows(pf, pf', 1) /\ Awaited(pf', q)
    BY <2>2, <2>3, GetPathGrows DEF Inv, FrontOK
  <2>5. /\ FrontOK(pf)
        /\ \A x \in Robots : Search(x, todo[x], done[x], valid_id[x],
                                    candidates[x], Asked(pf))
    BY DEF Inv, Plan
  <2>6. q \notin Asked(pf)
    BY <1>3, <2>2, <2>5 DEF Search
  <2>7. q \in Asked(pf')
    BY <2>2, <2>3, <2>5, <2>6, GetPathAsks
  <2>8. Search(r, t, d, valid_id'[r], candidates'[r], Asked(pf'))
    BY <2>5, SearchStarts DEF Inv
  <2>9. Unasked(r, q)
    BY <1>3, <2>2, <2>7, <2>8 DEF Search, Unasked
  <2> QED
    BY <1>3, <2>2, <2>3, <2>4, <2>9 DEF Searched, SearchAsks
<1> QED
  BY <1>5, <1>6

(* The callback of q, given no path while p is the front: it asks nothing, *)
(* or the next candidate of the search q belongs to.                       *)
AsksNothing(q, p) ==
  /\ pf' = PF!CallbackThenNext(p, NoQuery) /\ Grows(p, pf', 0)
  /\ UNCHANGED candidates
  /\ \A x \in Robots : retries'[x] >= retries[x]
  /\ q.id = valid_id[q.robot] => retries'[q.robot] > 0

AsksNext(q, p, next) ==
  /\ next \in PathQuery /\ next.robot = q.robot /\ next.id = q.id
  /\ q.id = valid_id[q.robot]
  /\ candidates[q.robot] # <<>> /\ next.action = Head(candidates[q.robot])
  /\ candidates' = [candidates EXCEPT ![q.robot] = Tail(@)]
  /\ UNCHANGED retries
  /\ pf' = PF!CallbackThenNext(p, next) /\ Grows(p, pf', 1)
  /\ Awaited(pf', next)

LEMMA NullGrows ==
  ASSUME Inv, PlannerTypeOK, NEW q \in PathQuery, NEW p, FrontOK(p),
         Asked(p) \subseteq Asked(pf), Numbered(p), CallbackNull(q, p)
  PROVE  AsksNothing(q, p) \/ \E next : AsksNext(q, p, next)
<1> DEFINE r    == q.robot
           c    == candidates[r]
           next == IF q.id = valid_id[r] THEN QueryFor(r, c, q.id)
                                         ELSE NoQuery
<1>1. r \in Robots
  BY DEF PathQuery
<1>2. /\ candidates' = IF next = NoQuery THEN candidates
                       ELSE [candidates EXCEPT ![r] = Tail(@)]
      /\ retries' = IF q.id = valid_id[r] /\ next = NoQuery
                      THEN [retries EXCEPT ![r] = @ + 1] ELSE retries
      /\ pf' = PF!CallbackThenNext(p, next)
  BY DEF CallbackNull
<1>3. \A x \in Robots : retries[x] \in Nat
  BY DEF PlannerTypeOK
<1>4. CASE next = NoQuery
  <2>1. pf' = PF!CallbackThenNext(p, NoQuery) /\ UNCHANGED candidates
    BY <1>2, <1>4
  <2>2. Grows(p, pf', 0)
    BY <2>1, ServeGrows DEF FrontOK
  <2>3. \A x \in Robots : retries'[x] = IF x = r /\ q.id = valid_id[r]
                                          THEN retries[x] + 1 ELSE retries[x]
    BY <1>2, <1>4 DEF PlannerTypeOK
  <2>4. \A m \in Nat : m + 1 >= m /\ m >= m /\ m + 1 > 0
    OBVIOUS
  <2>5. \A x \in Robots : retries'[x] >= retries[x]
    BY <1>3, <2>3, <2>4
  <2>6. q.id = valid_id[r] => retries'[r] > 0
    BY <1>1, <1>3, <2>3, <2>4
  <2> QED
    BY <2>1, <2>2, <2>5, <2>6 DEF AsksNothing
<1>5. CASE next # NoQuery
  <2>1. q.id = valid_id[r] /\ c # <<>>
    BY <1>5 DEF QueryFor
  <2>2. next = [robot |-> r, action |-> Head(c), id |-> q.id]
    BY <2>1 DEF QueryFor
  <2>3. Search(r, todo[r], done[r], valid_id[r], c, Asked(pf))
    BY <1>1 DEF Inv, Plan
  <2>4. Head(c) = c[1] /\ c[1] \in Actions /\ Len(c) \in Nat /\ Len(c) >= 1
    BY <2>1, <2>3, TailOnce DEF Search
  <2>5. 1 \in 1 .. Len(c)
    BY <2>4
  <2>6. next \in PathQuery
    BY <1>1, <2>2, <2>4 DEF PathQuery
  <2>7. next \notin Asked(p)
    BY <2>1, <2>2, <2>3, <2>4, <2>5 DEF Search
  <2>8. /\ candidates' = [candidates EXCEPT ![r] = Tail(@)]
        /\ UNCHANGED retries
    BY <1>2, <1>5
  <2>9. /\ next.robot = r /\ next.id = q.id /\ next.action = Head(c)
    BY <2>2
  <2> HIDE DEF next
  <2>10. Grows(p, pf', 1) /\ Awaited(pf', next)
    BY <1>2, <2>6, <2>7, CallbackGrows
  <2>11. AsksNext(q, p, next)
    BY <1>2, <2>1, <2>6, <2>8, <2>9, <2>10 DEF AsksNext
  <2> QED
    BY <2>11
<1> QED
  BY <1>4, <1>5

-----------------------------------------------------------------------------
(* A started robot carries an action, waits for an answer of its last      *)
(* search or will retry.                                                   *)
Awaits(r) == \E q : Awaited(pf, q) /\ q.robot = r /\ q.id = valid_id[r]

Lives(r) == inprogress[r] # NoAction \/ Awaits(r) \/ retries[r] > 0

Loop ==
  /\ Numbered(pf)
  /\ pauses = 0 => /\ \A r \in Robots : ~paused[r]
                   /\ \A r \in started : Lives(r)

LEMMA LivesAlive == Loop => LoopStaysAlive
<1> SUFFICES ASSUME Loop, pauses = 0, NEW r \in started PROVE Alive(r)
  BY DEF LoopStaysAlive
<1>1. Lives(r)
  BY DEF Loop
<1>2. ASSUME Awaits(r)
      PROVE  CurrentQuery(r)
  <2>1. PICK q : Awaited(pf, q) /\ q.robot = r /\ q.id = valid_id[r]
    BY <1>2 DEF Awaits
  <2> QED
    BY <2>1 DEF Awaited, Pending, Live, CurrentQuery
<1> QED
  BY <1>1, <1>2 DEF Lives, Alive

LEMMA InitLoop == Init => Loop
<1> SUFFICES ASSUME Init PROVE Loop
  OBVIOUS
<1>1. Numbered(pf)
  BY EmptySeq DEF Init, PF!Constructed, Numbered
<1> QED
  BY <1>1 DEF Init, Loop

\* Of the robot x, after the step.
LivesNext(x) ==
  \/ inprogress'[x] # NoAction
  \/ \E q : Awaited(pf', q) /\ q.robot = x /\ q.id = valid_id'[x]
  \/ retries'[x] > 0

LEMMA LoopNext ==
  ASSUME Numbered(pf'),
         pauses' = 0 => /\ \A x \in Robots : ~paused'[x]
                        /\ \A x \in started' : LivesNext(x)
  PROVE  Loop'
<1>1. Numbered(pf)'
  BY DEF Numbered
<1>2. \A x : LivesNext(x) => Lives(x)'
  BY DEF LivesNext, Lives, Awaits, Awaited, Pending, Live
<1> QED
  BY <1>1, <1>2 DEF Loop

(* A search makes its robot live, and keeps the others alive. *)
LEMMA SearchLoop ==
  ASSUME Inv, PlannerTypeOK, Loop, NEW r \in Robots,
         NEW t, NEW g, NEW d, NEW n \in Nat, State(t, g, d),
         DoNextAction(r, t, d, n),
         started' \subseteq started \cup {r}, UNCHANGED <<paused, pauses>>,
         inprogress' = inprogress \/ inprogress' = [inprogress EXCEPT ![r] = g]
  PROVE  Loop'
<1>1. Searched(r)
  BY SearchGrows DEF Loop
<1>2. LivesNext(r) /\ Numbered(pf') /\ \A q : Awaited(pf, q) => Awaited(pf', q)
  <2>1. CASE SearchWaits(r)
    <3>1. pf' = pf /\ retries'[r] > 0
      BY <2>1 DEF SearchWaits
    <3>2. Numbered(pf')
      BY <3>1 DEF Loop, Numbered
    <3>3. \A q : Awaited(pf, q) => Awaited(pf', q)
      BY <3>1
    <3> QED
      BY <3>1, <3>2, <3>3 DEF LivesNext
  <2>2. CASE \E q : SearchAsks(r, q)
    <3>1. PICK q : SearchAsks(r, q)
      BY <2>2
    <3>2. /\ Awaited(pf', q) /\ q.robot = r /\ q.id = valid_id'[r]
          /\ Grows(pf, pf', 1)
      BY <1>1, <3>1 DEF SearchAsks, Searched
    <3> QED
      BY <3>2 DEF LivesNext, Grows
  <2> QED
    BY <1>1, <2>1, <2>2 DEF Searched
<1>3. ASSUME pauses = 0, NEW x \in started', x # r
      PROVE  LivesNext(x)
  <2>1. x \in started /\ x \in Robots /\ Lives(x)
    BY <1>3 DEF Loop, PlannerTypeOK
  <2>2. /\ valid_id'[x] = valid_id[x] /\ retries'[x] = retries[x]
        /\ inprogress'[x] = inprogress[x]
    BY <1>1, <1>3, <2>1 DEF Searched, PlannerTypeOK
  <2> QED
    BY <1>2, <2>1, <2>2 DEF Lives, Awaits, LivesNext
<1>4. pauses' = 0 => /\ \A x \in Robots : ~paused'[x]
                     /\ \A x \in started' : LivesNext(x)
  BY <1>2, <1>3 DEF Loop
<1> QED
  BY <1>2, <1>4, LoopNext

(* A step of the robots that neither ends an action nor touches a search.  *)
LEMMA QuietLoop ==
  ASSUME Loop, UNCHANGED <<pf, started, inprogress, valid_id, retries>>,
         pauses' = 0 => pauses = 0 /\ UNCHANGED paused
  PROVE  Loop'
<1>1. Numbered(pf')
  BY DEF Loop, Numbered
<1>2. \A x : Lives(x) => LivesNext(x)
  BY DEF Lives, LivesNext, Awaits
<1> QED
  BY <1>1, <1>2, LoopNext DEF Loop

(* The callback of q is called while p is the front, which awaits what pf  *)
(* did but q.                                                              *)
LEMMA CallbackLoop ==
  ASSUME Inv, PlannerTypeOK, Loop, NEW q \in PathQuery, NEW p, FrontOK(p),
         Asked(p) \subseteq Asked(pf), Gives(pf, p, q),
         CallbackPaused(q, p) \/ CallbackPath(q, p) \/ CallbackNull(q, p),
         UNCHANGED <<started, paused, pauses>>
  PROVE  Loop'
<1> DEFINE r == q.robot
<1>1. r \in Robots /\ started \subseteq Robots /\ Numbered(p)
  BY DEF PathQuery, PlannerTypeOK, Gives
<1>2. ASSUME pf' = PF!CallbackThenNext(p, NoQuery)
      PROVE  Numbered(pf') /\ \A x : Awaited(pf, x) /\ x # q => Awaited(pf', x)
  <2>1. Grows(p, pf', 0)
    BY <1>1, <1>2, ServeGrows DEF FrontOK
  <2> QED
    BY <2>1 DEF Gives, Grows
\* A robot lives on, unless q is what it waited for.
<1>3. ASSUME NEW x \in Robots, Lives(x), x # r \/ q.id # valid_id[r],
             valid_id'[x] = valid_id[x],
             inprogress'[x] # NoAction \/ inprogress'[x] = inprogress[x],
             retries'[x] > 0 \/ retries'[x] = retries[x],
             \A y : Awaited(pf, y) /\ y # q => Awaited(pf', y)
      PROVE  LivesNext(x)
  <2>1. ASSUME NEW y, y.robot = x, y.id = valid_id[x]
        PROVE  y # q
    BY <1>3, <2>1
  <2> QED
    BY <1>3, <2>1 DEF Lives, LivesNext, Awaits
<1>4. CASE CallbackPaused(q, p)
  <2>1. paused[r] /\ pf' = PF!CallbackThenNext(p, NoQuery)
    BY <1>4 DEF CallbackPaused
  <2>2. pauses # 0
    BY <1>1, <2>1 DEF Loop
  <2> QED
    BY <1>2, <2>1, <2>2, LoopNext
<1>5. CASE CallbackPath(q, p)
  <2>1. pf' = PF!CallbackThenNext(p, NoQuery) /\ UNCHANGED <<valid_id, retries>>
    BY <1>5 DEF CallbackPath, search
  <2>2. \A x \in Robots : \/ inprogress'[x] # NoAction
                          \/ /\ inprogress'[x] = inprogress[x]
                             /\ x # r \/ q.id # valid_id[r]
    <3>1. q.action # NoAction
      BY PlannerAssumption DEF PathQuery
    <3> QED
      BY <1>5, <3>1 DEF CallbackPath, PlannerTypeOK
  <2>3. \A x \in Robots : Lives(x) => LivesNext(x)
    <3> SUFFICES ASSUME NEW x \in Robots, Lives(x) PROVE LivesNext(x)
      OBVIOUS
    <3>1. CASE inprogress'[x] # NoAction
      BY <3>1 DEF LivesNext
    <3>2. CASE inprogress'[x] = inprogress[x] /\ (x # r \/ q.id # valid_id[r])
      BY <1>2, <1>3, <2>1, <3>2
    <3> QED
      BY <2>2, <3>1, <3>2
  <2> QED
    BY <1>1, <1>2, <2>1, <2>3, LoopNext DEF Loop
<1>6. CASE CallbackNull(q, p)
  <2>1. UNCHANGED <<inprogress, valid_id>>
    BY <1>6 DEF CallbackNull, state
  <2>2. CASE AsksNothing(q, p)
    <3>1. /\ pf' = PF!CallbackThenNext(p, NoQuery)
          /\ \A x \in Robots : retries'[x] >= retries[x]
          /\ q.id = valid_id[r] => retries'[r] > 0
      BY <2>2 DEF AsksNothing
    <3>2. \A x \in Robots : retries'[x] > 0 \/ retries'[x] = retries[x]
      BY <1>6 DEF CallbackNull, PlannerTypeOK
    <3>3. \A x \in Robots : Lives(x) => LivesNext(x)
      <4> SUFFICES ASSUME NEW x \in Robots, Lives(x) PROVE LivesNext(x)
        OBVIOUS
      <4>1. CASE x = r /\ q.id = valid_id[r]
        BY <3>1, <4>1 DEF LivesNext
      <4>2. CASE x # r \/ q.id # valid_id[r]
        BY <1>2, <1>3, <2>1, <3>1, <3>2, <4>2
      <4> QED
        BY <4>1, <4>2
    <3> QED
      BY <1>1, <1>2, <3>1, <3>3, LoopNext DEF Loop
  <2>3. CASE \E next : AsksNext(q, p, next)
    <3>1. PICK next : AsksNext(q, p, next)
      BY <2>3
    <3>2. /\ Grows(p, pf', 1) /\ Awaited(pf', next) /\ UNCHANGED retries
          /\ next.robot = r /\ next.id = valid_id[r]
      BY <3>1 DEF AsksNext
    <3>3. Numbered(pf') /\ \A x : Awaited(pf, x) /\ x # q => Awaited(pf', x)
      BY <3>2 DEF Gives, Grows
    <3>4. \A x \in Robots : Lives(x) => LivesNext(x)
      <4> SUFFICES ASSUME NEW x \in Robots, Lives(x) PROVE LivesNext(x)
        OBVIOUS
      <4>1. CASE x = r
        BY <2>1, <3>2, <4>1 DEF LivesNext
      <4>2. CASE x # r
        BY <1>3, <2>1, <3>2, <3>3, <4>2
      <4> QED
        BY <4>1, <4>2
    <3> QED
      BY <1>1, <3>3, <3>4, LoopNext DEF Loop
  <2> QED
    BY <1>1, <1>6, <2>2, <2>3, NullGrows
<1> QED
  BY <1>4, <1>5, <1>6
LEMMA LoopStep ==
  ASSUME Inv, PlannerTypeOK, Loop, [Next]_vars
  PROVE  Loop'
<1>1. /\ FrontOK(pf) /\ Numbered(pf)
      /\ \A r \in Robots : State(todo[r], inprogress[r], done[r])
      /\ \A r \in Robots : retries[r] \in Nat
  BY DEF Inv, Plan, Loop, PlannerTypeOK
<1>2. CASE \E r \in Robots : Start(r) \/ RetryTimer(r)
  <2>1. PICK r \in Robots : Start(r) \/ RetryTimer(r)
    BY <1>2
  <2>2. PICK n \in Nat : DoNextAction(r, todo[r], done[r], n)
    <3>1. CASE Start(r)
      BY <1>1, <3>1 DEF Start
    <3>2. CASE RetryTimer(r)
      <4>1. retries[r] - 1 \in Nat
        BY <1>1, <3>2 DEF RetryTimer
      <4> QED
        BY <3>2, <4>1 DEF RetryTimer
    <3> QED
      BY <2>1, <3>1, <3>2
  <2>3. /\ started' \subseteq started \cup {r}
        /\ UNCHANGED <<inprogress, paused, pauses>>
    BY <2>1 DEF Start, RetryTimer, state
  <2> QED
    BY <1>1, <2>2, <2>3, SearchLoop
<1>3. CASE \E r \in Robots : ActionFinished(r)
  <2>1. PICK r \in Robots : ActionFinished(r)
    BY <1>3
  <2>2. CASE inprogress[r] = NoAction
    BY <2>1, <2>2, QuietLoop DEF ActionFinished, state, search
  <2>3. CASE inprogress[r] # NoAction
    <3> DEFINE d == done[r] \cup {inprogress[r]}
    <3>1. State(todo[r], NoAction, d)
      BY <1>1, <2>3, PlannerAssumption DEF State, isDone
    <3>2. /\ DoNextAction(r, todo[r], d, retries[r])
          /\ inprogress' = [inprogress EXCEPT ![r] = NoAction]
          /\ UNCHANGED <<started, paused, pauses>>
      BY <2>1, <2>3 DEF ActionFinished
    <3> HIDE DEF d
    <3> QED
      BY <1>1, <3>1, <3>2, SearchLoop
  <2> QED
    BY <2>2, <2>3
<1>4. CASE \E r \in Robots : OnCollision(r)
  <2>1. PICK r \in Robots : OnCollision(r)
    BY <1>4
  <2> DEFINE t == todo[r] \cup ({inprogress[r]} \ {NoAction})
  <2>2. State(t, NoAction, done[r])
    BY <1>1, PlannerAssumption DEF State, isDone
  <2>3. /\ DoNextAction(r, t, done[r], retries[r])
        /\ inprogress' = [inprogress EXCEPT ![r] = NoAction]
        /\ UNCHANGED <<started, paused, pauses>>
    BY <2>1 DEF OnCollision
  <2> HIDE DEF t
  <2> QED
    BY <1>1, <2>2, <2>3, SearchLoop
<1>5. CASE \E r \in Robots : PathFinished(r) \/ OnPos(r) \/ RobotStops(r)
  BY <1>5, QuietLoop DEF PathFinished, OnPos, RobotStops, state, search
<1>6. CASE Answer
  <2> DEFINE e == Head(pf.callbacksFifo)
             p == PF!Answered(pf)
  <2>1. /\ FrontOK(p) /\ e.query \in PathQuery
        /\ Asked(p) \subseteq Asked(pf)
    BY <1>1, <1>6, AnswerTakes DEF Answer
  <2>2. Gives(pf, p, e.query) /\ (e.nr \in pf.silenced => Grows(pf, p, 0))
    BY <1>1, <1>6, AnswerGives DEF Answer, FrontOK
  <2>3. UNCHANGED <<started, paused, pauses>>
    BY <1>6 DEF Answer
  <2>4. \/ /\ e.nr \in pf.silenced
           /\ pf' = PF!CallbackThenNext(p, NoQuery)
           /\ UNCHANGED <<state, search, path, robot>>
        \/ CallbackPaused(e.query, p) \/ CallbackPath(e.query, p)
        \/ CallbackNull(e.query, p)
    BY <1>6 DEF Answer
  <2> HIDE DEF e, p
  <2>5. CASE /\ e.nr \in pf.silenced
             /\ pf' = PF!CallbackThenNext(p, NoQuery)
             /\ UNCHANGED <<state, search, path, robot>>
    <3>1. Grows(pf, p, 0)
      BY <2>2, <2>5
    <3>2. Grows(p, pf', 0)
      BY <2>1, <2>5, <3>1, ServeGrows DEF FrontOK, Grows
    <3>3. Numbered(pf') /\ \A x : Awaited(pf, x) => Awaited(pf', x)
      BY <3>1, <3>2 DEF Grows
    <3>4. \A x : Lives(x) => LivesNext(x)
      BY <2>5, <3>3 DEF Lives, LivesNext, Awaits, state, search
    <3> QED
      BY <2>3, <3>3, <3>4, LoopNext DEF Loop
  <2> QED
    BY <2>1, <2>2, <2>3, <2>4, <2>5, CallbackLoop
<1>7. CASE Timeout
  <2> DEFINE e == Head(pf.timers)
             p == PF!TimedOut(pf)
  <2>1. FrontOK(p) /\ Asked(p) \subseteq Asked(pf) /\ e.query \in PathQuery
    BY <1>1, <1>7, TimeoutKeeps DEF Timeout
  <2>2. Gives(pf, p, e.query)
    BY <1>1, <1>7, TimeoutGives DEF Timeout, FrontOK
  <2>3. /\ UNCHANGED <<started, paused, pauses>>
        /\ CallbackPaused(e.query, p) \/ CallbackNull(e.query, p)
    BY <1>7 DEF Timeout
  <2> HIDE DEF e, p
  <2> QED
    BY <2>1, <2>2, <2>3, CallbackLoop
<1>8. CASE Pause \/ Resume
  <2>1. pauses' # 0
    BY <1>8 DEF Pause, Resume, PlannerTypeOK
  <2> QED
    BY <1>8, <2>1, QuietLoop DEF Pause, Resume, state, search
<1>9. CASE UNCHANGED vars
  BY <1>9, QuietLoop DEF vars, state, search
<1> QED
  BY <1>2, <1>3, <1>4, <1>5, <1>6, <1>7, <1>8, <1>9 DEF Next

(* As long as no emergency stop is called, the loop of a started robot      *)
(* goes on, whatever collides, times out or comes late.                    *)
THEOREM LoopAlive == Spec => []LoopStaysAlive
<1> DEFINE IInv == Inv /\ PlannerTypeOK /\ Loop
<1>1. Init => IInv
  BY InitInv, InitTypes, InitLoop
<1>2. IInv /\ [Next]_vars => IInv'
  BY NextInv, TypesStep, LoopStep
<1>3. IInv => LoopStaysAlive
  BY LivesAlive
<1> QED
  BY <1>1, <1>2, <1>3, PTL DEF Spec

-----------------------------------------------------------------------------
(* No more queries than there are of them. *)
LEMMA QueriesBound ==
  /\ IsFiniteSet(PathQuery) /\ Cardinality(PathQuery) <= MaxQueries
  /\ MaxQueries \in Nat
<1> DEFINE I == 1 .. MaxSearches
           T == (Robots \X I) \X Actions
           f == [q \in PathQuery |-> <<<<q.robot, q.id>>, q.action>>]
<1>1. IsFiniteSet(I) /\ Cardinality(I) = MaxSearches
  BY FS_Interval, PlannerAssumption
<1>2. /\ IsFiniteSet(Robots \X I)
      /\ Cardinality(Robots \X I) = Cardinality(Robots) * MaxSearches
  BY <1>1, FS_Product, PlannerAssumption
<1>3. IsFiniteSet(T) /\ Cardinality(T) = MaxQueries
  BY <1>2, FS_Product, PlannerAssumption DEF MaxQueries
<1>4. f \in Injection(PathQuery, T)
  <2>1. f \in [PathQuery -> T]
    BY DEF PathQuery
  <2>2. ASSUME NEW x \in PathQuery, NEW y \in PathQuery, f[x] = f[y]
        PROVE  x = y
    <3>1. x.robot = y.robot /\ x.id = y.id /\ x.action = y.action
      BY <2>2
    <3> QED
      BY <3>1 DEF PathQuery
  <2> HIDE DEF f
  <2> QED
    BY <2>1, <2>2 DEF Injection, IsInjective
<1> HIDE DEF f, T
<1>5. /\ IsFiniteSet(PathQuery)
      /\ Cardinality(PathQuery) <= Cardinality(T)
  BY <1>3, <1>4, FS_Injection
<1> QED
  BY <1>3, <1>5, FS_CardinalityType

(* Every query ever asked: as many as the front counts, of numbers up to   *)
(* the last search of their robot, and of that one none of the candidates. *)
Asks(q, v, c) ==
  /\ q.id <= v
  /\ q.id = v => \A i \in 1 .. Len(c) : c[i] # q.action

Past(S, n, v, c) ==
  /\ S \in SUBSET PathQuery /\ Cardinality(S) = n
  /\ \A q \in S : Asks(q, v[q.robot], c[q.robot])

History ==
  Numbered(pf) /\ \E S : Past(S, PF!Asked(pf), valid_id, candidates)

LEMMA HistoryNext ==
  ASSUME Numbered(pf'), NEW S, Past(S, PF!Asked(pf'), valid_id', candidates')
  PROVE  History'
<1>1. Numbered(pf)'
  BY DEF Numbered
<1>2. PF!Asked(pf)' = PF!Asked(pf')
  BY DEF PF!Asked
<1>3. Past(S, PF!Asked(pf), valid_id, candidates)'
  BY <1>2 DEF Past, Asks
<1> QED
  BY <1>1, <1>3 DEF History

LEMMA InitHistory == Init => History
<1> SUFFICES ASSUME Init PROVE History
  OBVIOUS
<1>1. Numbered(pf)
  BY EmptySeq DEF Init, PF!Constructed, Numbered
<1>2. PF!Asked(pf) = 0
  BY EmptySeq DEF Init, PF!Constructed, PF!Asked
<1>3. Past({}, PF!Asked(pf), valid_id, candidates)
  BY <1>2, FS_EmptySet DEF Past
<1> QED
  BY <1>1, <1>3 DEF History

\* A query that was never asked may be asked, and is asked once.
LEMMA OneMore ==
  ASSUME NEW S \in SUBSET PathQuery, NEW q \in PathQuery, q \notin S
  PROVE  /\ Cardinality(S) \in Nat /\ Cardinality(S) < MaxQueries
         /\ Cardinality(S \cup {q}) = Cardinality(S) + 1
         /\ S \cup {q} \in SUBSET PathQuery
<1>1. IsFiniteSet(S) /\ S \cup {q} \in SUBSET PathQuery
  BY QueriesBound, FS_Subset
<1>2. /\ IsFiniteSet(S \cup {q})
      /\ Cardinality(S \cup {q}) = Cardinality(S) + 1
  BY <1>1, FS_AddElement
<1>3. /\ Cardinality(S) \in Nat /\ Cardinality(PathQuery) \in Nat
  BY <1>1, QueriesBound, FS_CardinalityType
<1>4. Cardinality(S \cup {q}) <= Cardinality(PathQuery)
  BY <1>1, QueriesBound, FS_Subset
<1> QED
  BY <1>1, <1>2, <1>3, <1>4, QueriesBound

(* A search asks at most one query, which the front takes as an Ask.       *)
LEMMA SearchHistory ==
  ASSUME Inv, PlannerTypeOK, History, NEW r \in Robots,
         NEW t, NEW g, NEW d, NEW n \in Nat, State(t, g, d),
         DoNextAction(r, t, d, n)
  PROVE  History' /\ (PF!Ask \/ UNCHANGED pf)
<1>1. PICK S : Past(S, PF!Asked(pf), valid_id, candidates)
  BY DEF History
<1>2. /\ Searched(r) /\ Numbered(pf)
  BY SearchGrows DEF History
<1>3. ASSUME NEW x \in S
      PROVE  /\ Asks(x, valid_id'[x.robot], candidates'[x.robot])
             /\ x.robot = r => x.id # valid_id[r] + 1
  <2>1. x \in PathQuery /\ Asks(x, valid_id[x.robot], candidates[x.robot])
    BY <1>1 DEF Past
  <2>2. x.robot \in Robots /\ x.id \in Nat
    BY <2>1, PlannerAssumption DEF PathQuery
  <2>3. CASE x.robot = r
    <3>1. x.id <= valid_id[r] /\ valid_id[r] \in Nat
          /\ valid_id'[r] = valid_id[r] + 1
      BY <1>2, <2>1, <2>3 DEF Asks, Searched
    <3>2. x.id <= valid_id'[r] /\ x.id # valid_id'[r]
      BY <2>2, <3>1
    <3> QED
      BY <2>3, <3>1, <3>2 DEF Asks
  <2>4. CASE x.robot # r
    BY <1>2, <2>1, <2>2, <2>4 DEF Searched
  <2> QED
    BY <2>3, <2>4
<1>4. CASE SearchWaits(r)
  <2>1. pf' = pf
    BY <1>4 DEF SearchWaits
  <2>2. Past(S, PF!Asked(pf'), valid_id', candidates')
    BY <1>1, <1>3, <2>1 DEF Past
  <2>3. Numbered(pf')
    BY <1>2, <2>1
  <2> QED
    BY <2>1, <2>2, <2>3, HistoryNext
<1>5. CASE \E q : SearchAsks(r, q)
  <2>1. PICK q : SearchAsks(r, q)
    BY <1>5
  <2>2. /\ q \in PathQuery /\ q.robot = r /\ q.id = valid_id[r] + 1
        /\ pf' = PF!getPath(pf, q) /\ Numbered(pf')
        /\ PF!Asked(pf') = PF!Asked(pf) + 1
        /\ Unasked(r, q)
    BY <2>1 DEF SearchAsks, Grows
  <2>3. q \notin S
    BY <1>3, <2>2
  <2>4. /\ PF!Asked(pf) < MaxQueries
        /\ Cardinality(S \cup {q}) = PF!Asked(pf')
        /\ S \cup {q} \in SUBSET PathQuery
    BY <1>1, <2>2, <2>3, OneMore DEF Past
  <2>5. Asks(q, valid_id'[q.robot], candidates'[q.robot])
    <3>1. valid_id'[r] = q.id /\ q.id \in Nat
      BY <1>2, <2>2, PlannerAssumption DEF Searched
    <3> QED
      BY <2>2, <3>1 DEF Asks, Unasked
  <2>6. Past(S \cup {q}, PF!Asked(pf'), valid_id', candidates')
    BY <1>3, <2>4, <2>5 DEF Past
  <2>7. PF!Ask
    BY <2>2, <2>4 DEF PF!Ask
  <2> QED
    BY <2>2, <2>6, <2>7, HistoryNext
<1> QED
  BY <1>2, <1>4, <1>5 DEF Searched

\* After the callback: it asked nothing, or something that may be asked.
FrontStep(p) ==
  \/ pf' = PF!CallbackThenNext(p, NoQuery)
  \/ /\ PF!Asked(pf) < MaxQueries
     /\ \E next \in PathQuery : pf' = PF!CallbackThenNext(p, next)

LEMMA QuietHistory ==
  ASSUME History, Numbered(pf'), PF!Asked(pf') = PF!Asked(pf),
         UNCHANGED <<valid_id, candidates>>
  PROVE  History'
<1>1. PICK S : Past(S, PF!Asked(pf), valid_id, candidates)
  BY DEF History
<1>2. Past(S, PF!Asked(pf'), valid_id', candidates')
  BY <1>1
<1> QED
  BY <1>2, HistoryNext

LEMMA CallbackHistory ==
  ASSUME Inv, PlannerTypeOK, History, NEW q \in PathQuery, NEW p, FrontOK(p),
         Asked(p) \subseteq Asked(pf), Gives(pf, p, q),
         CallbackPaused(q, p) \/ CallbackPath(q, p) \/ CallbackNull(q, p)
  PROVE  History' /\ FrontStep(p)
<1> DEFINE r == q.robot
           c == candidates[r]
<1>1. r \in Robots /\ Numbered(p) /\ PF!Asked(p) = PF!Asked(pf)
      /\ PF!Asked(p) \in Nat
  BY AskedNat DEF PathQuery, Gives, FrontOK
<1>2. ASSUME pf' = PF!CallbackThenNext(p, NoQuery),
             UNCHANGED <<valid_id, candidates>>
      PROVE  History' /\ FrontStep(p)
  <2>1. Grows(p, pf', 0)
    BY <1>1, <1>2, ServeGrows DEF FrontOK
  <2>2. Numbered(pf') /\ PF!Asked(pf') = PF!Asked(pf)
    BY <1>1, <2>1 DEF Grows
  <2> QED
    BY <1>2, <2>2, QuietHistory DEF FrontStep
<1>3. CASE CallbackPaused(q, p) \/ CallbackPath(q, p)
  BY <1>2, <1>3 DEF CallbackPaused, CallbackPath, search
<1>4. CASE CallbackNull(q, p)
  <2>1. UNCHANGED valid_id
    BY <1>4 DEF CallbackNull
  <2>2. CASE AsksNothing(q, p)
    BY <1>2, <2>1, <2>2 DEF AsksNothing
  <2>3. CASE \E next : AsksNext(q, p, next)
    <3>1. PICK next : AsksNext(q, p, next)
      BY <2>3
    <3>2. /\ next \in PathQuery /\ next.robot = r /\ next.id = valid_id[r]
          /\ c # <<>> /\ next.action = Head(c)
          /\ pf' = PF!CallbackThenNext(p, next) /\ Numbered(pf')
          /\ PF!Asked(pf') = PF!Asked(pf) + 1
      BY <1>1, <3>1 DEF AsksNext, Grows
    <3> DEFINE f == Tail(c)
    <3>3. /\ candidates'[r] = f
          /\ \A x \in Robots \ {r} : candidates'[x] = candidates[x]
      BY <1>1, <3>1 DEF AsksNext, PlannerTypeOK
    <3>4. Search(r, todo[r], done[r], valid_id[r], c, Asked(pf))
      BY <1>1 DEF Inv, Plan
    <3>5. /\ Len(c) \in Nat /\ Len(c) >= 1
          /\ Len(f) = Len(c) - 1
          /\ \A i \in 1 .. Len(f) : f[i] = c[i + 1]
          /\ Head(c) = c[1]
      BY <3>2, <3>4, TailOnce DEF Search
    <3> HIDE DEF f
    <3>6. /\ 1 \in 1 .. Len(c)
          /\ \A i \in 1 .. Len(f) : i + 1 \in 1 .. Len(c) /\ i + 1 # 1
      BY <3>5
    <3>7. \A i \in 1 .. Len(f) : f[i] # c[1]
      BY <3>4, <3>5, <3>6 DEF Search
    <3>8. PICK S : Past(S, PF!Asked(pf), valid_id, candidates)
      BY DEF History
    <3>9. next \notin S
      <4>1. \A x \in S : x.robot = r /\ x.id = valid_id[r] => x.action # c[1]
        BY <3>6, <3>8 DEF Past, Asks
      <4> QED
        BY <3>2, <3>5, <4>1
    <3>10. /\ PF!Asked(pf) < MaxQueries
           /\ Cardinality(S \cup {next}) = PF!Asked(pf')
           /\ S \cup {next} \in SUBSET PathQuery
      BY <3>2, <3>8, <3>9, OneMore DEF Past
    <3>11. ASSUME NEW x \in S
           PROVE  Asks(x, valid_id'[x.robot], candidates'[x.robot])
      <4>1. x.robot \in Robots /\ Asks(x, valid_id[x.robot], candidates[x.robot])
        BY <3>8 DEF Past, PathQuery
      <4>2. CASE x.robot # r
        BY <2>1, <3>3, <4>1, <4>2
      <4>3. CASE x.robot = r
        BY <2>1, <3>3, <3>5, <3>6, <4>1, <4>3 DEF Asks
      <4> QED
        BY <4>2, <4>3
    <3>12. Asks(next, valid_id'[next.robot], candidates'[next.robot])
      <4>1. next.id <= valid_id[r]
        BY <3>2, PlannerAssumption DEF PathQuery
      <4> QED
        BY <2>1, <3>2, <3>3, <3>5, <3>7, <4>1 DEF Asks
    <3>13. Past(S \cup {next}, PF!Asked(pf'), valid_id', candidates')
      BY <3>10, <3>11, <3>12 DEF Past
    <3>14. FrontStep(p)
      BY <3>2, <3>10 DEF FrontStep
    <3> QED
      BY <3>2, <3>13, <3>14, HistoryNext
  <2> QED
    BY <1>1, <1>4, <2>2, <2>3, NullGrows
<1> QED
  BY <1>3, <1>4

LEMMA FrontSteps ==
  ASSUME Inv, PlannerTypeOK, History, [Next]_vars
  PROVE  History' /\ [PF!Next]_pf
<1>1. /\ FrontOK(pf) /\ Numbered(pf)
      /\ \A r \in Robots : State(todo[r], inprogress[r], done[r])
      /\ \A r \in Robots : retries[r] \in Nat
  BY DEF Inv, Plan, History, PlannerTypeOK
<1>2. ASSUME NEW r \in Robots, NEW t, NEW g, NEW d, NEW n \in Nat,
             State(t, g, d), DoNextAction(r, t, d, n)
      PROVE  History' /\ [PF!Next]_pf
  BY <1>2, SearchHistory DEF PF!Next
<1>3. ASSUME UNCHANGED <<pf, valid_id, candidates>>
      PROVE  History' /\ [PF!Next]_pf
  <2>1. Numbered(pf') /\ PF!Asked(pf') = PF!Asked(pf)
    BY <1>1, <1>3
  <2> QED
    BY <1>3, <2>1, QuietHistory
<1>4. CASE \E r \in Robots : Start(r)
  BY <1>1, <1>2, <1>4 DEF Start
<1>5. CASE \E r \in Robots : RetryTimer(r)
  <2>1. PICK r \in Robots : RetryTimer(r)
    BY <1>5
  <2>2. retries[r] - 1 \in Nat
    BY <1>1, <2>1 DEF RetryTimer
  <2> QED
    BY <1>1, <1>2, <2>1, <2>2 DEF RetryTimer
<1>6. CASE \E r \in Robots : ActionFinished(r)
  <2>1. PICK r \in Robots : ActionFinished(r)
    BY <1>6
  <2>2. CASE inprogress[r] = NoAction
    BY <1>3, <2>1, <2>2 DEF ActionFinished, search
  <2>3. CASE inprogress[r] # NoAction
    <3> DEFINE d == done[r] \cup {inprogress[r]}
    <3>1. State(todo[r], NoAction, d)
      BY <1>1, <2>3, PlannerAssumption DEF State, isDone
    <3>2. DoNextAction(r, todo[r], d, retries[r])
      BY <2>1, <2>3 DEF ActionFinished
    <3> HIDE DEF d
    <3> QED
      BY <1>1, <1>2, <3>1, <3>2
  <2> QED
    BY <2>2, <2>3
<1>7. CASE \E r \in Robots : OnCollision(r)
  <2>1. PICK r \in Robots : OnCollision(r)
    BY <1>7
  <2> DEFINE t == todo[r] \cup ({inprogress[r]} \ {NoAction})
  <2>2. State(t, NoAction, done[r])
    BY <1>1, PlannerAssumption DEF State, isDone
  <2>3. DoNextAction(r, t, done[r], retries[r])
    BY <2>1 DEF OnCollision
  <2> HIDE DEF t
  <2> QED
    BY <1>1, <1>2, <2>2, <2>3
<1>8. CASE \/ \E r \in Robots : PathFinished(r) \/ OnPos(r) \/ RobotStops(r)
           \/ Pause \/ Resume \/ UNCHANGED vars
  BY <1>3, <1>8 DEF PathFinished, OnPos, RobotStops, Pause, Resume, vars, search
<1>9. CASE Answer
  <2> DEFINE e == Head(pf.callbacksFifo)
             p == PF!Answered(pf)
  <2>1. /\ FrontOK(p) /\ e.query \in PathQuery
        /\ Asked(p) \subseteq Asked(pf)
    BY <1>1, <1>9, AnswerTakes DEF Answer
  <2>2. Gives(pf, p, e.query)
    BY <1>1, <1>9, AnswerGives DEF Answer, FrontOK
  <2>3. CASE /\ e.nr \in pf.silenced
             /\ pf' = PF!CallbackThenNext(p, NoQuery)
             /\ UNCHANGED <<state, search, path, robot>>
    <3>1. Grows(p, pf', 0)
      BY <2>1, <2>2, <2>3, ServeGrows DEF FrontOK, Gives
    <3>2. Numbered(pf') /\ PF!Asked(pf') = PF!Asked(pf)
      <4>1. PF!Asked(pf) \in Nat
        BY <1>1, AskedNat DEF FrontOK
      <4> QED
        BY <2>2, <3>1, <4>1 DEF Grows, Gives
    <3>3. History'
      BY <2>3, <3>2, QuietHistory DEF search
    <3>4. PF!Answer
      BY <1>9, <2>3 DEF PF!Answer, PF!MayAsk, Answer
    <3> QED
      BY <3>3, <3>4 DEF PF!Next
  <2>4. CASE /\ e.nr \notin pf.silenced
             /\ \/ CallbackPaused(e.query, p) \/ CallbackPath(e.query, p)
                \/ CallbackNull(e.query, p)
    <3>1. History' /\ FrontStep(p)
      BY <2>1, <2>2, <2>4, CallbackHistory
    <3>2. PF!Answer
      BY <1>9, <2>4, <3>1 DEF PF!Answer, PF!MayAsk, FrontStep, Answer
    <3> QED
      BY <3>1, <3>2 DEF PF!Next
  <2> QED
    BY <1>9, <2>3, <2>4 DEF Answer
<1>10. CASE Timeout
  <2> DEFINE e == Head(pf.timers)
             p == PF!TimedOut(pf)
  <2>1. FrontOK(p) /\ Asked(p) \subseteq Asked(pf) /\ e.query \in PathQuery
    BY <1>1, <1>10, TimeoutKeeps DEF Timeout
  <2>2. Gives(pf, p, e.query)
    BY <1>1, <1>10, TimeoutGives DEF Timeout, FrontOK
  <2>3. CallbackPaused(e.query, p) \/ CallbackNull(e.query, p)
    BY <1>10 DEF Timeout
  <2>4. History' /\ FrontStep(p)
    BY <2>1, <2>2, <2>3, CallbackHistory
  <2>5. PF!Timeout
    BY <1>10, <2>4 DEF PF!Timeout, PF!MayAsk, FrontStep, Timeout
  <2> QED
    BY <2>4, <2>5 DEF PF!Next
<1> QED
  BY <1>4, <1>5, <1>6, <1>7, <1>8, <1>9, <1>10 DEF Next

(* The planner uses the front as module Pathfinding says: every step of    *)
(* the IA asks, answers or gives up a query, or leaves the front alone,    *)
(* and no query is asked twice.                                            *)
THEOREM PlannerUsesFront == Spec => UsesPathfinding
<1> DEFINE IInv == Inv /\ PlannerTypeOK /\ History
<1>1. Init => IInv /\ PF!Init
  BY InitInv, InitTypes, InitHistory DEF Init, PF!Init
<1>2. IInv /\ [Next]_vars => IInv' /\ [PF!Next]_pf
  BY NextInv, TypesStep, FrontSteps
<1>3. [PF!Next]_pf => [pf' # pf => PF!Next]_pf
  OBVIOUS
<1> QED
  BY <1>1, <1>2, <1>3, PTL DEF Spec, UsesPathfinding
-----------------------------------------------------------------------------
(* What module PathfindingProofs proves of the front holds of the IA.      *)
Finder == INSTANCE PathfindingProofs WITH Query <- PathQuery

LEMMA FinderSpec == PF!Spec => Finder!Spec
<1>1. PF!Init => Finder!Init
  BY DEF PF!Init, PF!Constructed, Finder!Init, Finder!Constructed
<1>2. [PF!Next]_pf => [Finder!Next]_pf
  BY DEF PF!Next, PF!Ask, PF!Answer, PF!Timeout, PF!MayAsk, PF!Asked,
         PF!CallbackThenNext, PF!getPath, PF!prepareAndDoQuery, PF!Answered,
         PF!ClearTimeout, PF!TimedOut,
         Finder!Next, Finder!Ask, Finder!Answer, Finder!Timeout,
         Finder!MayAsk, Finder!Asked, Finder!CallbackThenNext,
         Finder!getPath, Finder!prepareAndDoQuery, Finder!Answered,
         Finder!ClearTimeout, Finder!TimedOut
<1> QED
  BY <1>1, <1>2, PTL DEF PF!Spec, Finder!Spec

(* In the IA an answer goes to the callback of its query, and a query that *)
(* waits has a timer to wait for, whatever the two robots ask and when.    *)
THEOREM PlannerFrontSafe ==
  Spec => [](PF!AnswersGoToTheirQuery /\ PF!PendingWillBeServed)
<1>1. NoQuery \notin PathQuery /\ MaxQueries \in Nat
  BY NothingAsked, QueriesBound
<1>2. Finder!Spec => [](Finder!PathfindingTypeOK
                        /\ Finder!AnswersGoToTheirQuery
                        /\ Finder!PendingWillBeServed)
  BY <1>1, Finder!PathfindingSafe
<1>3. Finder!AnswersGoToTheirQuery /\ Finder!PendingWillBeServed =>
        PF!AnswersGoToTheirQuery /\ PF!PendingWillBeServed
  BY DEF Finder!AnswersGoToTheirQuery, Finder!PendingWillBeServed,
         PF!AnswersGoToTheirQuery, PF!PendingWillBeServed
<1>4. [pf' # pf => PF!Next]_pf => [PF!Next]_pf
  OBVIOUS
<1>5. UsesPathfinding => PF!Spec
  BY <1>4, PTL DEF UsesPathfinding, PF!Spec
<1> QED
  BY <1>2, <1>3, <1>5, FinderSpec, PlannerUsesFront, PTL
=============================================================================
