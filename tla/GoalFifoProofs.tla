---------------------------- MODULE GoalFifoProofs ---------------------------
(***************************************************************************)
(* Proofs about the circular buffer of goals.c, for every capacity and     *)
(* every set of goals: the type invariant, the agreement of its indexes,   *)
(* and the refinement of the bounded queue.                                *)
(***************************************************************************)
EXTENDS GoalFifo, SequenceTheorems, TLAPS

-----------------------------------------------------------------------------
\* The index arithmetic of goals.c is a step to the right that wraps to 0.
LEMMA NextIndex ==
  ASSUME NEW i \in -1 .. MaxGoals - 1
  PROVE  (i + 1) % MaxGoals = IF i + 1 < MaxGoals THEN i + 1 ELSE 0
<1>1. MaxGoals \in Nat \ {0}
  BY FifoAssumption
<1>2. CASE i + 1 < MaxGoals
  BY <1>1, <1>2
<1>3. CASE i + 1 = MaxGoals
  BY <1>1, <1>3
<1> QED
  BY <1>1, <1>2, <1>3

\* Different positions in the list are different slots.
LEMMA SlotOfInjective ==
  ASSUME NEW f \in Fifo,
         NEW j \in 0 .. MaxGoals - 1, NEW k \in 0 .. MaxGoals - 1
  PROVE  /\ SlotOf(f, k) \in Slots
         /\ SlotOf(f, j) = SlotOf(f, k) => j = k
  BY FifoAssumption DEF Fifo, Slots, SlotOf

-----------------------------------------------------------------------------
\* FifoInit leaves a well-formed, empty list.
LEMMA InitCorrect ==
  ASSUME NEW f \in Fifo
  PROVE  /\ FifoInit(f) \in Fifo
         /\ Window(FifoInit(f))
         /\ Contents(FifoInit(f)) = <<>>
<1> DEFINE h == FifoInit(f)
<1>1. MaxGoals \in Nat \ {0}
  BY FifoAssumption
<1>2. h \in Fifo
  BY <1>1 DEF FifoInit, Fifo, Goal, Slots
<1>3. (h.last_goal + 1) % MaxGoals = SlotOf(h, h.nb_goals)
  BY <1>1, NextIndex DEF FifoInit, SlotOf
<1>4. \A k \in 0 .. MaxGoals - 1 : h.slot[SlotOf(h, k)].type = NO_GOAL
  BY <1>1 DEF FifoInit, Fifo, Goal, Slots, SlotOf
<1>5. Window(h)
  BY <1>1, <1>3, <1>4 DEF Window, FifoInit
<1>6. Contents(h) = <<>>
  BY DEF Contents, FifoInit
<1> QED
  BY <1>2, <1>5, <1>6

\* FifoPushGoal keeps the list well formed.
LEMMA PushCorrect ==
  ASSUME NEW f \in Fifo, Window(f), NEW g \in Order
  PROVE  /\ FifoPushGoal(f, g) \in Fifo
         /\ Window(FifoPushGoal(f, g))
<1> DEFINE h    == FifoPushGoal(f, g)
           last == (f.last_goal + 1) % MaxGoals
<1>1. MaxGoals \in Nat \ {0} /\ NO_GOAL \notin GoalTypes
  BY FifoAssumption
<1>2. CASE f.nb_goals >= MaxGoals
  BY <1>2 DEF FifoPushGoal
<1>3. CASE f.nb_goals < MaxGoals
  <2>1. last \in Slots /\ last = SlotOf(f, f.nb_goals)
    BY <1>1, <1>3, NextIndex DEF Fifo, Slots, Window, SlotOf
  <2>2. /\ h.nb_goals = f.nb_goals + 1
        /\ h.current_goal = f.current_goal
        /\ h.last_goal = last
        /\ h.slot = [f.slot EXCEPT ![last] = [type |-> g.type,
              data |-> g.data, ID |-> g.ID, is_reached |-> FALSE]]
    BY <1>1, <1>3 DEF FifoPushGoal, Fifo
  <2>3. h \in Fifo
    <3>1. h.slot \in [Slots -> Goal]
      BY <2>1, <2>2 DEF Fifo, Goal, Order
    <3>2. h.nb_goals \in 0 .. MaxGoals /\ h.current_goal \in Slots
      BY <1>1, <1>3, <2>2 DEF Fifo
    <3>3. h.last_goal \in -1 .. MaxGoals - 1
      BY <1>1, <2>1, <2>2 DEF Slots
    <3>4. h = [slot |-> h.slot, nb_goals |-> h.nb_goals,
               current_goal |-> h.current_goal, last_goal |-> h.last_goal]
      BY <1>1, <1>3 DEF FifoPushGoal, Fifo
    <3> QED
      BY <3>1, <3>2, <3>3, <3>4 DEF Fifo
  <2>4. \A k \in 0 .. MaxGoals - 1 : SlotOf(h, k) = SlotOf(f, k)
    BY <2>2 DEF SlotOf
  <2>5. ASSUME NEW k \in 0 .. MaxGoals - 1
        PROVE  (k < h.nb_goals) <=> (h.slot[SlotOf(h, k)].type # NO_GOAL)
    <3>1. CASE k = f.nb_goals
      BY <1>1, <1>3, <2>1, <2>2, <2>4, <3>1 DEF Fifo, Order
    <3>2. CASE k # f.nb_goals
      <4>1. SlotOf(h, k) # last /\ SlotOf(h, k) \in Slots
        BY <1>1, <1>3, <2>1, <2>4, <3>2, SlotOfInjective DEF Fifo
      <4>2. h.slot[SlotOf(h, k)] = f.slot[SlotOf(f, k)]
        BY <2>2, <2>4, <4>1 DEF Fifo
      <4> QED
        BY <1>1, <1>3, <2>2, <3>2, <4>2 DEF Window, Fifo
    <3> QED
      BY <3>1, <3>2
  <2>6. (h.last_goal + 1) % MaxGoals = SlotOf(h, h.nb_goals)
    <3>1. (last + 1) % MaxGoals = IF last + 1 < MaxGoals THEN last + 1 ELSE 0
      BY <1>1, <2>1, NextIndex DEF Slots
    <3>2. f.current_goal \in 0 .. MaxGoals - 1 /\ f.nb_goals \in 0 .. MaxGoals
      BY DEF Fifo, Slots
    <3>3. SlotOf(h, h.nb_goals) = IF last + 1 < MaxGoals THEN last + 1 ELSE 0
      BY <1>1, <1>3, <2>1, <2>2, <3>2 DEF SlotOf
    <3> QED
      BY <2>2, <3>1, <3>3
  <2> QED
    BY <2>3, <2>5, <2>6 DEF Window
<1> QED
  BY <1>1, <1>2, <1>3 DEF Fifo

\* FifoNextGoal keeps the list well formed.
LEMMA NextCorrect ==
  ASSUME NEW f \in Fifo, Window(f)
  PROVE  /\ FifoNextGoal(f) \in Fifo
         /\ Window(FifoNextGoal(f))
<1> DEFINE h    == FifoNextGoal(f)
           cur  == f.current_goal
           next == (f.current_goal + 1) % MaxGoals
           freed == [type |-> NO_GOAL, data |-> f.slot[cur].data,
                     ID |-> f.slot[cur].ID, is_reached |-> FALSE]
<1>1. MaxGoals \in Nat \ {0} /\ NO_GOAL \notin GoalTypes
  BY FifoAssumption
<1>2. cur \in 0 .. MaxGoals - 1 /\ f.nb_goals \in 0 .. MaxGoals
  BY DEF Fifo, Slots
<1>3. CASE f.slot[cur].type = NO_GOAL
  BY <1>3 DEF FifoNextGoal, FifoCurrentGoal
<1>4. CASE f.slot[cur].type # NO_GOAL
  <2>1. f.nb_goals > 0
    <3>1. SlotOf(f, 0) = cur
      BY <1>1, <1>2 DEF SlotOf
    <3> QED
      BY <1>1, <1>2, <1>4, <3>1 DEF Window
  <2>2. next = IF cur + 1 < MaxGoals THEN cur + 1 ELSE 0
    BY <1>1, <1>2, NextIndex
  <2>3. /\ h = [slot |-> [f.slot EXCEPT ![cur] = freed],
                nb_goals |-> f.nb_goals - 1, current_goal |-> next,
                last_goal |-> f.last_goal]
        /\ h.slot = [f.slot EXCEPT ![cur] = freed]
        /\ h.nb_goals = f.nb_goals - 1
        /\ h.current_goal = next
        /\ h.last_goal = f.last_goal
    BY <1>4 DEF FifoNextGoal, FifoCurrentGoal
  <2> HIDE DEF h, next, freed
  <2>4. h \in Fifo
    <3>1. f.slot \in [Slots -> Goal] /\ f.last_goal \in -1 .. MaxGoals - 1
      BY DEF Fifo
    <3>2. freed \in Goal
      BY <1>2, <3>1 DEF Goal, Slots, freed
    <3>3. [f.slot EXCEPT ![cur] = freed] \in [Slots -> Goal]
      BY <3>1, <3>2
    <3>4. next \in Slots
      BY <1>1, <1>2, <2>2 DEF Slots
    <3> QED
      BY <1>1, <1>2, <2>1, <2>3, <3>1, <3>3, <3>4 DEF Fifo
  <2>5. ASSUME NEW k \in 0 .. MaxGoals - 1
        PROVE  (k < h.nb_goals) <=> (h.slot[SlotOf(h, k)].type # NO_GOAL)
    <3>1. CASE k = MaxGoals - 1
      <4>1. SlotOf(h, k) = cur
        BY <1>1, <1>2, <2>2, <2>3, <3>1 DEF SlotOf
      <4> QED
        BY <1>1, <1>2, <2>3, <3>1, <4>1 DEF Fifo, Slots, freed
    <3>2. CASE k < MaxGoals - 1
      <4>1. SlotOf(h, k) = SlotOf(f, k + 1)
        BY <1>1, <1>2, <2>2, <2>3, <3>2 DEF SlotOf
      <4>2. SlotOf(h, k) \in 0 .. MaxGoals - 1 /\ SlotOf(h, k) # cur
        BY <1>1, <1>2, <3>2, <4>1 DEF SlotOf
      <4>3. h.slot[SlotOf(h, k)] = f.slot[SlotOf(f, k + 1)]
        BY <2>3, <4>1, <4>2 DEF Fifo, Slots
      <4>4. (k + 1 < f.nb_goals) <=> (f.slot[SlotOf(f, k + 1)].type # NO_GOAL)
        BY <1>1, <3>2 DEF Window
      <4> QED
        BY <1>2, <2>3, <4>3, <4>4
    <3> QED
      BY <1>1, <3>1, <3>2
  <2>6. (h.last_goal + 1) % MaxGoals = SlotOf(h, h.nb_goals)
    <3>1. h.last_goal = f.last_goal /\ SlotOf(h, h.nb_goals) = SlotOf(f, f.nb_goals)
      BY <1>1, <1>2, <2>1, <2>2, <2>3 DEF SlotOf
    <3> QED
      BY <3>1 DEF Window
  <2> QED
    BY <2>4, <2>5, <2>6 DEF Window, h
<1> QED
  BY <1>3, <1>4

\* Marking the goal under execution as reached changes nothing else.
LEMMA ReachCorrect ==
  ASSUME NEW f \in Fifo, Window(f)
  PROVE  /\ MarkReached(f) \in Fifo
         /\ Window(MarkReached(f))
         /\ Contents(MarkReached(f)) = Contents(f)
<1> DEFINE h == MarkReached(f)
<1>1. /\ h.nb_goals = f.nb_goals /\ h.current_goal = f.current_goal
      /\ h.last_goal = f.last_goal
      /\ h.slot = [f.slot EXCEPT ![f.current_goal] =
                     [@ EXCEPT !.is_reached = TRUE]]
  BY DEF MarkReached, Fifo
<1>2. h \in Fifo
  BY DEF MarkReached, Fifo, Goal
<1>3. \A i \in Slots : /\ h.slot[i].type = f.slot[i].type
                       /\ h.slot[i].data = f.slot[i].data
                       /\ h.slot[i].ID = f.slot[i].ID
  BY <1>1 DEF Fifo, Goal
<1>4. \A k : SlotOf(h, k) = SlotOf(f, k)
  BY <1>1 DEF SlotOf
<1>5. \A k \in 0 .. MaxGoals - 1 : SlotOf(f, k) \in Slots
  BY SlotOfInjective
<1>6. Window(h)
  BY <1>1, <1>3, <1>4, <1>5 DEF Window
<1>7. \A k \in 1 .. f.nb_goals : k - 1 \in 0 .. MaxGoals - 1
  BY FifoAssumption DEF Fifo
<1>8. Contents(h) = Contents(f)
  BY <1>1, <1>3, <1>4, <1>5, <1>7 DEF Contents
<1> QED
  BY <1>2, <1>6, <1>8

-----------------------------------------------------------------------------
\* Type correctness and the agreement of the indexes, for every call order.
THEOREM FifoSafe == FifoSpec => [](FifoTypeOK /\ FifoWindow)
<1>1. FifoBoot => FifoTypeOK /\ FifoWindow
  <2>1. SUFFICES ASSUME FifoBoot
                 PROVE  FifoTypeOK /\ FifoWindow
    OBVIOUS
  <2>2. MaxGoals \in Nat \ {0} /\ 0 \in Ids
    BY FifoAssumption
  <2>3. FifoTypeOK
    BY <2>1, <2>2 DEF FifoBoot, FifoTypeOK, Fifo, Goal, Slots
  <2>4. FifoInit(fifo) = fifo
    <3>1. PICK d \in GoalData :
            fifo = [slot |-> [i \in Slots |-> [type |-> NO_GOAL, data |-> d,
                                               ID |-> 0, is_reached |-> FALSE]],
                    nb_goals |-> 0, current_goal |-> 0, last_goal |-> -1]
      BY <2>1 DEF FifoBoot
    <3>2. \A i \in Slots :
            [type |-> NO_GOAL, data |-> fifo.slot[i].data,
             ID |-> fifo.slot[i].ID, is_reached |-> fifo.slot[i].is_reached]
               = fifo.slot[i]
      BY <3>1
    <3>3. fifo.slot = [i \in Slots |-> fifo.slot[i]]
      BY <3>1
    <3>4. FifoInit(fifo).slot = fifo.slot
      BY <3>2, <3>3 DEF FifoInit
    <3> QED
      BY <3>1, <3>4 DEF FifoInit
  <2> QED
    BY <2>3, <2>4, InitCorrect DEF FifoTypeOK, FifoWindow
<1>2. FifoTypeOK /\ FifoWindow /\ [FifoStep]_fifo
        => (FifoTypeOK /\ FifoWindow)'
  <2>1. SUFFICES ASSUME FifoTypeOK, FifoWindow, [FifoStep]_fifo
                 PROVE  fifo' \in Fifo /\ Window(fifo')
    BY DEF FifoTypeOK, FifoWindow, Window, SlotOf
  <2>2. fifo \in Fifo /\ Window(fifo)
    BY <2>1 DEF FifoTypeOK, FifoWindow
  <2>3. CASE Push
    BY <2>2, <2>3, PushCorrect DEF Push
  <2>4. CASE Reach
    BY <2>2, <2>4, ReachCorrect DEF Reach
  <2>5. CASE NextGoal
    BY <2>2, <2>5, NextCorrect DEF NextGoal
  <2>6. CASE Clear
    BY <2>2, <2>6, InitCorrect DEF Clear, FifoClearGoals
  <2>7. CASE UNCHANGED fifo
    BY <2>2, <2>7
  <2> QED
    BY <2>1, <2>3, <2>4, <2>5, <2>6, <2>7 DEF FifoStep
<1> QED
  BY <1>1, <1>2, PTL DEF FifoSpec

-----------------------------------------------------------------------------
QueuedGoal == [type : GoalTypes \cup {NO_GOAL}, data : GoalData, ID : Ids]

\* The contents of a list is a sequence of nb_goals goals.
LEMMA ContentsType ==
  ASSUME NEW f \in Fifo
  PROVE  /\ Contents(f) \in Seq(QueuedGoal)
         /\ Len(Contents(f)) = f.nb_goals
<1>1. f.nb_goals \in Nat
  BY FifoAssumption DEF Fifo
<1>2. \A k \in 1 .. f.nb_goals : SlotOf(f, k - 1) \in Slots
  BY SlotOfInjective, FifoAssumption DEF Fifo
<1>3. ASSUME NEW k \in 1 .. f.nb_goals
      PROVE  [type |-> f.slot[SlotOf(f, k - 1)].type,
              data |-> f.slot[SlotOf(f, k - 1)].data,
              ID |-> f.slot[SlotOf(f, k - 1)].ID] \in QueuedGoal
  BY <1>2 DEF Fifo, Goal, QueuedGoal
<1>4. Contents(f) \in [1 .. f.nb_goals -> QueuedGoal]
  BY <1>3 DEF Contents
<1>5. Contents(f) \in Seq(QueuedGoal)
  BY <1>1, <1>4, SeqDef
<1>6. DOMAIN Contents(f) = 1 .. Len(Contents(f))
      /\ Len(Contents(f)) \in Nat
  BY <1>5, LenProperties
<1>7. DOMAIN Contents(f) = 1 .. f.nb_goals
  BY DEF Contents
<1> QED
  BY <1>1, <1>5, <1>6, <1>7

\* A push appends the goal when there is room and is refused otherwise.
LEMMA PushContents ==
  ASSUME NEW f \in Fifo, Window(f), NEW g \in Order
  PROVE  Contents(FifoPushGoal(f, g)) =
           IF Len(Contents(f)) < MaxGoals THEN Append(Contents(f), g)
                                          ELSE Contents(f)
<1> DEFINE h    == FifoPushGoal(f, g)
           last == (f.last_goal + 1) % MaxGoals
           new  == [type |-> g.type, data |-> g.data, ID |-> g.ID,
                    is_reached |-> FALSE]
           n    == f.nb_goals
<1>1. MaxGoals \in Nat \ {0}
  BY FifoAssumption
<1>2. n \in 0 .. MaxGoals /\ Len(Contents(f)) = n
  BY ContentsType DEF Fifo
<1>3. CASE n >= MaxGoals
  BY <1>1, <1>2, <1>3 DEF FifoPushGoal
<1>4. CASE n < MaxGoals
  <2>1. last \in Slots /\ last = SlotOf(f, n)
    BY <1>1, <1>2, <1>4, SlotOfInjective DEF Window
  <2>2. h.nb_goals = n + 1 /\ h.current_goal = f.current_goal
        /\ h.slot = [f.slot EXCEPT ![last] = new]
    BY <1>1, <1>2, <1>4 DEF FifoPushGoal
  <2> HIDE DEF h, last
  <2>3. \A k \in 0 .. n : SlotOf(h, k) = SlotOf(f, k) /\ SlotOf(f, k) \in Slots
    BY <1>1, <1>2, <1>4, <2>2, SlotOfInjective DEF SlotOf
  <2>4. h.slot[SlotOf(h, n)] = new
    BY <1>2, <2>1, <2>2, <2>3 DEF Fifo
  <2>5. ASSUME NEW k \in 0 .. n - 1
        PROVE  h.slot[SlotOf(h, k)] = f.slot[SlotOf(f, k)]
    <3>1. SlotOf(f, k) # last
      BY <1>1, <1>2, <1>4, <2>1, SlotOfInjective
    <3> QED
      BY <1>2, <2>2, <2>3, <3>1 DEF Fifo
  <2>6. /\ Append(Contents(f), g) \in Seq(QueuedGoal)
        /\ Len(Append(Contents(f), g)) = n + 1
        /\ \A k \in 1 .. n + 1 :
             Append(Contents(f), g)[k] = IF k = n + 1 THEN g ELSE Contents(f)[k]
    <3>1. g \in QueuedGoal
      BY DEF Order, QueuedGoal
    <3> QED
      BY <1>1, <1>2, <3>1, ContentsType, AppendProperties
  <2>7. [type |-> new.type, data |-> new.data, ID |-> new.ID] = g
    BY DEF Order
  <2>8. ASSUME NEW k \in 1 .. n + 1
        PROVE  Contents(h)[k] = IF k = n + 1 THEN g ELSE Contents(f)[k]
    <3>1. CASE k = n + 1
      <4>1. k - 1 = n
        BY <1>2, <3>1
      <4>2. Contents(h)[k] = [type |-> new.type, data |-> new.data, ID |-> new.ID]
        BY <1>2, <2>2, <2>4, <3>1, <4>1 DEF Contents
      <4> QED
        BY <2>7, <3>1, <4>2
    <3>2. CASE k # n + 1
      <4>1. k \in 1 .. n /\ k - 1 \in 0 .. n - 1
        BY <1>2, <3>2
      <4>2. h.slot[SlotOf(h, k - 1)] = f.slot[SlotOf(f, k - 1)]
        BY <2>5, <4>1
      <4> QED
        BY <2>2, <3>2, <4>1, <4>2 DEF Contents
    <3> QED
      BY <3>1, <3>2
  <2>9. Contents(h) \in Seq(QueuedGoal) /\ Len(Contents(h)) = n + 1
    BY <2>2, PushCorrect, ContentsType DEF h
  <2>10. Contents(h) = Append(Contents(f), g)
    BY <2>6, <2>8, <2>9, SeqEqual
  <2> QED
    BY <1>2, <1>4, <2>10 DEF h
<1> QED
  BY <1>1, <1>2, <1>3, <1>4

\* Finishing the current goal removes the head of a non-empty list.
LEMMA NextContents ==
  ASSUME NEW f \in Fifo, Window(f)
  PROVE  Contents(FifoNextGoal(f)) =
           IF Contents(f) = <<>> THEN Contents(f) ELSE Tail(Contents(f))
<1> DEFINE h    == FifoNextGoal(f)
           cur  == f.current_goal
           next == (f.current_goal + 1) % MaxGoals
           freed == [type |-> NO_GOAL, data |-> f.slot[cur].data,
                     ID |-> f.slot[cur].ID, is_reached |-> FALSE]
           n    == f.nb_goals
<1>1. MaxGoals \in Nat \ {0} /\ NO_GOAL \notin GoalTypes
  BY FifoAssumption
<1>2. /\ n \in 0 .. MaxGoals /\ cur \in 0 .. MaxGoals - 1
      /\ Len(Contents(f)) = n
  BY ContentsType DEF Fifo, Slots
<1>3. SlotOf(f, 0) = cur
  BY <1>1, <1>2 DEF SlotOf
<1>4. (f.slot[cur].type = NO_GOAL) <=> (n = 0)
  BY <1>1, <1>2, <1>3 DEF Window
<1>5. CASE n = 0
  <2>1. Contents(f) = <<>>
    BY <1>2, <1>5, ContentsType
  <2> QED
    BY <1>4, <1>5, <2>1 DEF FifoNextGoal, FifoCurrentGoal
<1>6. CASE n > 0
  <2>1. next = IF cur + 1 < MaxGoals THEN cur + 1 ELSE 0
    BY <1>1, <1>2, NextIndex
  <2>2. /\ h.slot = [f.slot EXCEPT ![cur] = freed]
        /\ h.nb_goals = n - 1
        /\ h.current_goal = next
    BY <1>2, <1>4, <1>6 DEF FifoNextGoal, FifoCurrentGoal
  <2> HIDE DEF h, next, freed
  <2>3. ASSUME NEW k \in 0 .. n - 2
        PROVE  h.slot[SlotOf(h, k)] = f.slot[SlotOf(f, k + 1)]
    <3>1. SlotOf(h, k) = SlotOf(f, k + 1)
      <4>1. k \in Nat /\ k + 1 < MaxGoals
        BY <1>1, <1>2
      <4>2. h.current_goal = IF cur + 1 < MaxGoals THEN cur + 1 ELSE 0
        BY <2>1, <2>2
      <4> QED
        BY <1>1, <1>2, <4>1, <4>2 DEF SlotOf
    <3>2. SlotOf(f, k + 1) \in Slots /\ SlotOf(f, k + 1) # cur
      BY <1>1, <1>2 DEF SlotOf, Slots
    <3> QED
      BY <2>2, <3>1, <3>2 DEF Fifo
  <2>4. /\ Contents(f) # <<>>
        /\ Tail(Contents(f)) \in Seq(QueuedGoal)
        /\ Len(Tail(Contents(f))) = n - 1
        /\ \A k \in 1 .. n - 1 : Tail(Contents(f))[k] = Contents(f)[k + 1]
    <3>1. Contents(f) # <<>>
      BY <1>2, <1>6, EmptySeq
    <3> QED
      BY <1>2, <3>1, ContentsType, HeadTailProperties
  <2>5. ASSUME NEW k \in 1 .. n - 1
        PROVE  Contents(h)[k] = Contents(f)[k + 1]
    <3>1. k - 1 \in 0 .. n - 2 /\ k + 1 \in 1 .. n
      BY <1>2
    <3>2. (k - 1) + 1 = k /\ (k + 1) - 1 = k
      BY <1>2
    <3>3. h.slot[SlotOf(h, k - 1)] = f.slot[SlotOf(f, k)]
      BY <2>3, <3>1, <3>2
    <3> QED
      BY <2>2, <3>1, <3>2, <3>3 DEF Contents
  <2>6. Contents(h) \in Seq(QueuedGoal) /\ Len(Contents(h)) = n - 1
    BY <2>2, NextCorrect, ContentsType DEF h
  <2>7. Contents(h) = Tail(Contents(f))
    BY <2>4, <2>5, <2>6, SeqEqual
  <2> QED
    BY <2>4, <2>7 DEF h
<1> QED
  BY <1>2, <1>5, <1>6

-----------------------------------------------------------------------------
\* Every behaviour of the buffer, seen through Contents, is one of the queue.
THEOREM FifoImplementsQueue == FifoSpec => IsAQueue
<1>1. FifoBoot => Queue!Init
  BY DEF FifoBoot, Queue!Init, Contents
<1>2. /\ FifoTypeOK /\ FifoWindow
      /\ [FifoStep]_fifo
      => [Queue!Next]_(Contents(fifo))
  <2>1. SUFFICES ASSUME fifo \in Fifo, Window(fifo), [FifoStep]_fifo
                 PROVE  Queue!Next \/ Contents(fifo') = Contents(fifo)
    BY DEF FifoTypeOK, FifoWindow, Contents, SlotOf
  <2>2. CASE Push
    <3>1. PICK g \in Order : fifo' = FifoPushGoal(fifo, g)
      BY <2>2 DEF Push
    <3>2. Contents(fifo') = IF Len(Contents(fifo)) < MaxGoals
                            THEN Append(Contents(fifo), g) ELSE Contents(fifo)
      BY <2>1, <3>1, PushContents
    <3>3. g \in Order
      OBVIOUS
    <3>4. Contents(fifo)' = Contents(fifo')
      BY DEF Contents, SlotOf
    <3> QED
      BY <3>2, <3>3, <3>4 DEF Queue!Next, Queue!Push
  <2>3. CASE Reach
    BY <2>1, <2>3, ReachCorrect DEF Reach
  <2>4. CASE NextGoal
    <3>1. Contents(fifo') = IF Contents(fifo) = <<>> THEN Contents(fifo)
                            ELSE Tail(Contents(fifo))
      BY <2>1, <2>4, NextContents DEF NextGoal
    <3>2. Contents(fifo)' = Contents(fifo')
      BY DEF Contents, SlotOf
    <3> QED
      BY <3>1, <3>2 DEF Queue!Next, Queue!Finish
  <2>5. CASE Clear
    <3>1. Contents(fifo') = <<>>
      BY <2>1, <2>5, InitCorrect DEF Clear, FifoClearGoals
    <3>2. Contents(fifo)' = Contents(fifo')
      BY DEF Contents, SlotOf
    <3> QED
      BY <3>1, <3>2 DEF Queue!Next, Queue!Clear
  <2>6. CASE UNCHANGED fifo
    BY <2>6
  <2> QED
    BY <2>1, <2>2, <2>3, <2>4, <2>5, <2>6 DEF FifoStep
<1> QED
  BY <1>1, <1>2, FifoSafe, PTL DEF FifoSpec, IsAQueue, Queue!Spec
=============================================================================
