----------------------------- MODULE HokuyoProofs -----------------------------
(***************************************************************************)
(* The driver of the range finder keeps its promises for any number of     *)
(* programs started and of lines lost.                                     *)
(*                                                                         *)
(* OneProgram and NoProgramIsWaiting are inductive over the types.  That   *)
(* few frames are mixed is not: Aligned says that one more than the strays *)
(* are mixed only when count follows the program in charge, which does not *)
(* mix the next frames then, unless there is another stray.                *)
(***************************************************************************)
EXTENDS Hokuyo, TLAPS

Types == HokuyoTypeOK /\ errors <= lost

Follows ==
  \/ count = 0
  \/ /\ count = part[child] /\ bufferData.from = child
     /\ ~bufferData.over /\ ~bufferData.mixed

Aligned == child # None => mixed <= strays \/ Follows

Inv ==
  Types /\ OneProgram /\ NoProgramIsWaiting /\ MixedFramesAreFew /\ Aligned

USE HokuyoAssumption

LEMMA NextPart == \A n \in 0 .. 2 : Next3(n) \in 0 .. 2
BY SMT DEF Next3

Buffer == [from : {None} \cup Programs, over : BOOLEAN, mixed : BOOLEAN,
           cut : BOOLEAN]

LEMMA AddedType ==
  ASSUME HokuyoTypeOK, NEW p \in Programs, NEW cut \in BOOLEAN
  PROVE  /\ PassedOver(p) \in Buffer /\ Added(p, cut) \in Buffer
         /\ NewCount(p) \in 0 .. 2
<1>1. PassedOver(p) \in Buffer
  BY DEF HokuyoTypeOK, PassedOver, Buffer
<1>2. Added(p, cut) \in Buffer
  BY <1>1 DEF HokuyoTypeOK, Added, Buffer
<1>3. NewCount(p) \in 0 .. 2
  BY NextPart DEF HokuyoTypeOK, NewCount
<1> QED BY <1>1, <1>2, <1>3

LEMMA QuitType ==
  ASSUME HokuyoTypeOK
  PROVE  quitC \in [Programs -> {"none", "running", "told", "closed"}]
BY DEF HokuyoTypeOK, quitC

LEMMA InitInv == Init => Inv
BY DEF Init, Inv, Types, HokuyoTypeOK, OneProgram, NoProgramIsWaiting,
       MixedFramesAreFew, Aligned, Empty, None, Programs, Prints

(* A line that is understood, whatever was cut of it. *)
LEMMA ParseStep ==
  ASSUME Inv, NEW p \in Programs, NEW cut \in BOOLEAN, parseData(p, cut),
         lost' \in 0 .. MaxLost, lost <= lost',
         cut \/ p = child \/ strays < MaxStrays
  PROVE  Inv'
<1> USE DEF Inv
<1>1. Types'
  <2>1. bufferData' \in Buffer /\ count' \in 0 .. 2
    BY AddedType DEF Types, parseData, Empty, Buffer
  <2>2. part' \in [Programs -> 0 .. 2]
    BY NextPart DEF Types, HokuyoTypeOK, parseData
  <2>3. mixed' \in Nat /\ framed' \in {None} \cup Programs /\ alive' \in BOOLEAN
    <3>1. mixed' \in {0, mixed, mixed + 1} /\ framed' \in {p, framed}
      BY DEF parseData
    <3>2. alive' \in BOOLEAN
      BY DEF parseData, Types, HokuyoTypeOK
    <3> QED BY <3>1, <3>2 DEF Types, HokuyoTypeOK
  <2>4. errors' \in 0 .. MaxLost /\ errors' <= lost'
    BY DEF Types, HokuyoTypeOK, parseData
  <2>5. strays' \in 0 .. MaxStrays
    BY DEF parseData, Types, HokuyoTypeOK
  <2> QED
    BY <2>1, <2>2, <2>3, <2>4, <2>5 DEF Types, HokuyoTypeOK, parseData, Buffer
<1>2. OneProgram'
  BY DEF OneProgram, parseData
<1>3. NoProgramIsWaiting'
  BY DEF NoProgramIsWaiting, parseData, Prints
<1>4. MixedFramesAreFew' /\ Aligned'
  <2>1. mixed \in Nat /\ strays \in Nat /\ mixed <= 1 + strays
    BY DEF Types, HokuyoTypeOK, MixedFramesAreFew
  <2> DEFINE new == Added(p, cut)
             complete == part[p] = 2 /\ count = 2
  <2>2. CASE cut
    <3>1. mixed' = 0 /\ strays' = 0
      BY <2>2 DEF parseData
    <3> QED BY <3>1 DEF MixedFramesAreFew, Aligned
  <2>3. CASE ~cut /\ p # child
    <3>1. /\ strays' = strays + 1 /\ child' = child
          /\ mixed' = IF complete /\ new.mixed THEN mixed + 1 ELSE mixed
      BY <2>3 DEF parseData
    <3>2. mixed' <= 1 + strays'
      BY <2>1, <3>1
    <3>3. CASE complete
      <4>1. count' = 0
        BY <3>3 DEF parseData, NewCount, Next3
      <4> QED BY <3>2, <4>1 DEF MixedFramesAreFew, Aligned, Follows
    <3>4. CASE ~complete
      <4>1. mixed' <= strays'
        BY <2>1, <3>1, <3>4
      <4> QED BY <3>2, <4>1 DEF MixedFramesAreFew, Aligned
    <3> QED BY <3>3, <3>4
  <2>4. CASE ~cut /\ p = child
    <3>1. /\ child' = p /\ child # None /\ part[p] \in 0 .. 2 /\ count \in 0 .. 2
          /\ part'[p] = Next3(part[p]) /\ count' = NewCount(p)
          /\ strays' = strays
          /\ mixed' = IF complete /\ new.mixed THEN mixed + 1 ELSE mixed
      BY <2>4 DEF parseData, Types, HokuyoTypeOK, None, Programs
    <3>2. mixed <= strays \/ Follows
      BY <2>4, <3>1 DEF Aligned
    <3>3. CASE complete
      <4>1. count' = 0
        BY <3>1, <3>3 DEF NewCount, Next3
      <4>2. Follows => ~new.mixed
        BY <2>4, <3>3 DEF Follows, Added, Types, HokuyoTypeOK
      <4> HIDE DEF new, complete
      <4>3. mixed' <= 1 + strays'
        BY <2>1, <3>1, <3>2, <4>2
      <4> QED BY <4>1, <4>3 DEF MixedFramesAreFew, Aligned, Follows
    <3>4. CASE ~complete
      <4>1. mixed' = mixed /\ bufferData' = new
        BY <3>1, <3>4 DEF parseData
      <4>2. ASSUME Follows
            PROVE  Follows'
        <5>1. CASE count = 0 /\ part[p] # 0
          BY <3>1, <5>1 DEF NewCount, Follows
        <5>2. CASE count = 0 /\ part[p] = 0
          <6>1. count' = 1 /\ part'[p] = 1
            BY <3>1, <5>2 DEF NewCount, Next3
          <6>2. bufferData'.from = p /\ ~bufferData'.over /\ ~bufferData'.mixed
            BY <2>4, <4>1, <5>2 DEF Added
          <6> QED BY <3>1, <6>1, <6>2 DEF Follows
        <5>3. CASE count # 0
          <6>1. /\ count = part[p] /\ bufferData.from = p
                /\ ~bufferData.over /\ ~bufferData.mixed
            BY <2>4, <4>2, <5>3 DEF Follows
          <6>2. count' = part'[p]
            BY <3>1, <6>1 DEF NewCount
          <6>3. bufferData'.from = p /\ ~bufferData'.over /\ ~bufferData'.mixed
            BY <2>4, <4>1, <5>3, <6>1 DEF Added, Types, HokuyoTypeOK
          <6> QED BY <3>1, <6>2, <6>3 DEF Follows
        <5> QED BY <5>1, <5>2, <5>3
      <4>3. mixed' <= 1 + strays'
        BY <2>1, <3>1, <4>1
      <4>4. mixed <= strays => mixed' <= strays'
        BY <3>1, <4>1
      <4> QED BY <3>2, <4>2, <4>3, <4>4 DEF MixedFramesAreFew, Aligned
    <3> QED BY <3>3, <3>4
  <2> QED BY <2>2, <2>3, <2>4
<1> QED BY <1>1, <1>2, <1>3, <1>4

LEMMA StartStep == Inv /\ Start => Inv'
<1> SUFFICES ASSUME Inv, Start PROVE Inv'
  OBVIOUS
<1> USE DEF Inv
<1>1. PICK p \in Programs : /\ program' = [quitC EXCEPT ![p] = "running"]
                            /\ child' = p
  BY DEF Start
<1>2. Types'
  BY <1>1, QuitType DEF Types, HokuyoTypeOK, Start, Taken
<1>3. OneProgram'
  <2>1. SUFFICES ASSUME NEW q \in Programs, q # p
                 PROVE  program'[q] # "running"
    BY <1>1 DEF OneProgram
  <2>2. program'[q] = quitC[q]
    BY <1>1, <2>1, QuitType DEF Types
  <2>3. quitC[q] # "running"
    BY DEF quitC, OneProgram, Start, Taken, Types, HokuyoTypeOK, None, Programs
  <2> QED BY <2>2, <2>3
<1>4. NoProgramIsWaiting'
  <2>1. program'[p] = "running"
    BY <1>1, QuitType DEF Types
  <2> QED BY <2>1 DEF NoProgramIsWaiting, Prints
<1>5. MixedFramesAreFew' /\ Aligned'
  BY DEF Start, MixedFramesAreFew, Aligned
<1> QED BY <1>2, <1>3, <1>4, <1>5

(* The driver ends the program in charge and keeps none. *)
LEMMA QuitStep == Inv /\ (Stop \/ exit) => Inv'
<1> SUFFICES ASSUME Inv, Stop \/ exit PROVE Inv'
  OBVIOUS
<1> USE DEF Inv
<1>1. /\ program' = quitC /\ child' = None /\ alive' \in BOOLEAN
      /\ alive' => alive
      /\ recent' \in BOOLEAN
      /\ UNCHANGED <<frames, status, errors, lost>>
  BY DEF Stop, exit, Taken, Types, HokuyoTypeOK
<1>2. Types'
  BY <1>1, QuitType DEF Types, HokuyoTypeOK, frames
<1>3. OneProgram'
  BY <1>1 DEF OneProgram, quitC, Types, HokuyoTypeOK, None, Programs
<1>4. NoProgramIsWaiting'
  <2>1. \A q \in Programs : program[q] \in {"running", "told"} =>
                            program'[q] \in {"running", "told"}
    BY <1>1 DEF quitC, Types, HokuyoTypeOK
  <2> QED BY <1>1, <2>1 DEF NoProgramIsWaiting, Prints
<1>5. MixedFramesAreFew' /\ Aligned'
  BY <1>1 DEF MixedFramesAreFew, Aligned, Follows, frames
<1> QED BY <1>2, <1>3, <1>4, <1>5

LEMMA NextInv == Inv /\ [Next]_vars => Inv'
<1> SUFFICES ASSUME Inv, [Next]_vars PROVE Inv'
  OBVIOUS
<1> USE DEF Inv
<1>1. CASE Start
  BY <1>1, StartStep
<1>2. CASE Stop \/ exit
  BY <1>2, QuitStep
<1>3. CASE Elapse
  BY <1>3 DEF Elapse, frames, Types, HokuyoTypeOK, OneProgram,
     NoProgramIsWaiting, MixedFramesAreFew, Aligned, Follows, Prints
<1>4. CASE ErrorTimer
  BY <1>4 DEF ErrorTimer, frames, process, Types, HokuyoTypeOK, OneProgram,
     NoProgramIsWaiting, MixedFramesAreFew, Aligned, Follows, Prints
<1>5. ASSUME NEW p \in Programs, Data(p) \/ Cut(p)
      PROVE  Inv'
  <2>1. lost' = lost \/ (lost < MaxLost /\ lost' = lost + 1)
    BY <1>5 DEF Data, Cut
  <2>2. lost' \in 0 .. MaxLost /\ lost <= lost'
    BY <2>1 DEF Types, HokuyoTypeOK
  <2> QED BY <1>5, <2>2, ParseStep DEF Data, Cut
<1>6. ASSUME NEW p \in Programs, NotUnderstood(p)
      PROVE  Inv'
  <2>1. bufferData' \in Buffer /\ part' \in [Programs -> 0 .. 2]
    BY <1>6, AddedType, NextPart DEF NotUnderstood, Types, HokuyoTypeOK
  <2>2. lost' \in 0 .. MaxLost /\ errors' <= lost' /\ errors' = errors
    BY <1>6 DEF NotUnderstood, Types, HokuyoTypeOK
  <2>3. Types'
    BY <1>6, <2>1, <2>2 DEF NotUnderstood, process, Types, HokuyoTypeOK, Buffer
  <2> QED BY <1>6, <2>3 DEF NotUnderstood, process, OneProgram,
     NoProgramIsWaiting, MixedFramesAreFew, Aligned, Follows, Prints
<1>7. ASSUME NEW p \in Programs, StandardError(p) \/ Hello(p)
      PROVE  Inv'
  BY <1>7 DEF StandardError, Hello, frames, process, Types, HokuyoTypeOK,
     OneProgram, NoProgramIsWaiting, MixedFramesAreFew, Aligned, Follows, Prints
<1>8. ASSUME NEW p \in Programs, Close(p)
      PROVE  Inv'
  BY <1>8 DEF Close, frames, Types, HokuyoTypeOK, OneProgram,
     NoProgramIsWaiting, MixedFramesAreFew, Aligned, Follows, Prints
<1>9. CASE UNCHANGED vars
  BY <1>9 DEF vars, process, frames, Types, HokuyoTypeOK, OneProgram,
     NoProgramIsWaiting, MixedFramesAreFew, Aligned, Follows, Prints
<1> QED
  BY <1>1, <1>2, <1>3, <1>4, <1>5, <1>6, <1>7, <1>8, <1>9 DEF Next, Line

LEMMA HokuyoInductive == Spec => []Inv
BY InitInv, NextInv, PTL DEF Spec

(* The variables of the driver keep their types: count and the timers of   *)
(* the errors stay in range whatever the programs print.                   *)
THEOREM HokuyoTypes == Spec => []HokuyoTypeOK
BY HokuyoInductive, PTL DEF Inv, Types

(* For any number of restarts, the only program that has not been told to  *)
(* end is the one in the variable child.                                   *)
THEOREM OneProgramRuns == Spec => []OneProgram
BY HokuyoInductive, PTL DEF Inv

(* For any number of restarts and errors, a driver without a program has   *)
(* told the server that it waits.                                          *)
THEOREM ClosedIsWaiting == Spec => []NoProgramIsWaiting
BY HokuyoInductive, PTL DEF Inv

(* For any number of restarts, lost lines and lines of programs told to    *)
(* end, which are read among those of their successor: count finds its     *)
(* place again after one mixed frame, and one more for each of the latter. *)
THEOREM FramesAlign == Spec => []MixedFramesAreFew
BY HokuyoInductive, PTL DEF Inv
=============================================================================
