------------------------------- MODULE Hokuyo -------------------------------
(***************************************************************************)
(* The driver of a range finder (hokuyo/main.js): it starts and ends the C *)
(* program that reads it, puts together the frames the program prints in   *)
(* three lines, and tells the server a status.                             *)
(*                                                                         *)
(* What makes it hard is that nothing of it belongs to one program: count, *)
(* bufferData, child and the status are shared by a program that was told  *)
(* to end, and still prints, and by its successor.  A line longer than a   *)
(* read of the pipe is cut: its head is taken for the line.  Frames are    *)
(* abstracted to whether their parts come from one frame.                  *)
(***************************************************************************)
EXTENDS Naturals

CONSTANTS MaxPrograms,  \* bound: programs started
          MaxLost,      \* bound: lines lost or cut, and errors printed
          MaxStrays     \* bound: strays

ASSUME HokuyoAssumption ==
  MaxPrograms \in Nat /\ MaxLost \in Nat /\ MaxStrays \in Nat

Programs == 1 .. MaxPrograms
None == 0

VARIABLES
  alive,      \* the process of the driver
  recent,     \* an order was taken less than 500 ms ago
  child,      \* the variable child
  program,    \* of each: "none", "running", "told" to end, "closed"
  part,       \* of each: part of a frame it prints next
  count,      \* part the driver expects
  bufferData, \* program it comes from, is its frame over, is it of several
              \* frames, is a part of it cut
  status,     \* last status
  errors,     \* timers of 5 s after an error
  lost,       \* bounded by MaxLost
  framed,     \* program a frame has come from since a line was lost
  mixed,      \* frames of mixed parts since a program was started or a
              \* line lost
  strays      \* lines of programs told to end, read since then

process == <<alive, recent, child, program>>
frames == <<part, count, bufferData, framed, mixed, strays>>
vars == <<process, frames, status, errors, lost>>

Empty == [from |-> None, over |-> FALSE, mixed |-> FALSE, cut |-> FALSE]

Init ==
  /\ alive = TRUE /\ recent = TRUE /\ child = None
  /\ program = [p \in Programs |-> "none"]
  /\ part = [p \in Programs |-> 0]
  /\ count = 0 /\ bufferData = Empty
  /\ status = "waiting" /\ errors = 0 /\ lost = 0
  /\ framed = None /\ mixed = 0 /\ strays = 0

-----------------------------------------------------------------------------
(* quitC: SIGINT, to a program that may have ended by itself. *)
quitC ==
  IF child # None /\ program[child] = "running"
    THEN [program EXCEPT ![child] = "told"] ELSE program

(* Orders nearer than 500 ms to the last one taken are ignored. *)
Taken == alive /\ ~recent /\ recent' = TRUE

Elapse ==
  /\ alive /\ recent /\ recent' = FALSE
  /\ UNCHANGED <<alive, child, program, frames, status, errors, lost>>

(* Mutant of Start: the program under way is not told to end.             *)
StartOver ==
  /\ Taken
  /\ \E p \in Programs :
       /\ program[p] = "none" /\ \A q \in 1 .. p - 1 : program[q] # "none"
       /\ program' = [program EXCEPT ![p] = "running"]
       /\ child' = p
  /\ status' = "starting" /\ mixed' = 0 /\ strays' = 0
  /\ UNCHANGED <<alive, part, count, bufferData, framed, errors, lost>>

(* start.  quitC resets started, so that no start is ever refused: one     *)
(* that comes while a program runs replaces it.                            *)
Start ==
  /\ Taken
  /\ \E p \in Programs :
       /\ program[p] = "none" /\ \A q \in 1 .. p - 1 : program[q] # "none"
       /\ program' = [quitC EXCEPT ![p] = "running"]
       /\ child' = p
  /\ status' = "starting" /\ mixed' = 0 /\ strays' = 0
  /\ UNCHANGED <<alive, part, count, bufferData, framed, errors, lost>>

(* The orders stop and shutdown. *)
Stop ==
  /\ Taken
  /\ program' = quitC /\ child' = None
  /\ UNCHANGED <<alive, frames, status, errors, lost>>

(* SIGINT of the driver: exit. *)
exit ==
  /\ alive /\ alive' = FALSE
  /\ program' = quitC /\ child' = None
  /\ UNCHANGED <<recent, frames, status, errors, lost>>

-----------------------------------------------------------------------------
Prints(p) == alive /\ program[p] \in {"running", "told"}
Next3(n) == (n + 1) % 3

(* "[HI:)]", its first line. *)
Hello(p) ==
  /\ Prints(p) /\ part[p] = 0
  /\ status' = "starting"
  /\ UNCHANGED <<process, frames, errors, lost>>

(* The buffer, once program p has gone on to its next part and the driver *)
(* has passed over this one.                                               *)
PassedOver(p) ==
  [bufferData EXCEPT !.over = @ \/ (bufferData.from = p /\ part[p] = 0)]

(* The buffer, once the line of program p, cut or not, is added to it, if *)
(* it is the part that was expected.                                       *)
Added(p, cut) ==
  IF part[p] # count THEN PassedOver(p)
  ELSE IF count = 0
    THEN [from |-> p, over |-> FALSE, mixed |-> FALSE, cut |-> cut]
  ELSE [bufferData EXCEPT
          !.mixed = @ \/ bufferData.over \/ bufferData.from # p,
          !.from = p, !.over = FALSE,
          !.cut = @ \/ cut]

(* Mutant of NewCount: count is not reset when a frame is sent.           *)
NewCountKept(p) == IF part[p] = count THEN count + 1 ELSE count

(* Mutant of NewCount: the next frame is begun at its second part.        *)
NewCountFromOne(p) ==
  IF part[p] # count THEN count ELSE IF count = 2 THEN 1 ELSE count + 1

(* Mutant of NewCount: the second part does not move count on.            *)
NewCountForgets(p) ==
  IF part[p] = count /\ count # 1 THEN Next3(count) ELSE count

NewCount(p) == IF part[p] = count THEN Next3(count) ELSE count

(* parseData of a line.  The third part sends the frame to the lidar node; *)
(* JSON.parse may throw on a frame with a part that was cut, which nothing *)
(* catches.  A line of a program told to end, which is no longer child,    *)
(* is read as any other.                                                   *)
parseData(p, cut) ==
  LET new == Added(p, cut)
      complete == part[p] = 2 /\ count = 2
  IN /\ Prints(p)
     /\ part' = [part EXCEPT ![p] = Next3(@)]
     /\ count' = NewCount(p)
     /\ bufferData' = IF complete THEN Empty ELSE new
     /\ status' = "everythingIsAwesome"
     /\ framed' = IF complete THEN p ELSE framed
     /\ mixed' = IF cut THEN 0
                 ELSE IF complete /\ new.mixed THEN mixed + 1 ELSE mixed
     /\ strays' = IF cut THEN 0 ELSE IF p # child THEN strays + 1 ELSE strays
     /\ \/ UNCHANGED alive
        \/ complete /\ new.cut /\ alive' = FALSE
     /\ UNCHANGED <<recent, child, program, errors>>

Data(p) ==
  /\ p # child => strays < MaxStrays
  /\ parseData(p, FALSE) /\ UNCHANGED lost

Cut(p) == lost < MaxLost /\ lost' = lost + 1 /\ parseData(p, TRUE)

(* A line cut before the number of its part, or whose end alone is read:   *)
(* after "[DATA]" it still changes the status.                             *)
NotUnderstood(p) ==
  /\ Prints(p) /\ lost < MaxLost /\ lost' = lost + 1
  /\ part' = [part EXCEPT ![p] = Next3(@)]
  /\ bufferData' = PassedOver(p)
  /\ status' \in {status, "everythingIsAwesome"}
  /\ framed' = None /\ mixed' = 0 /\ strays' = 0
  /\ UNCHANGED <<process, count, errors>>

(* Something is printed to stderr: "error", and "waiting" 5 s later. *)
StandardError(p) ==
  /\ Prints(p) /\ lost < MaxLost /\ lost' = lost + 1
  /\ status' = "error" /\ errors' = errors + 1
  /\ UNCHANGED <<process, frames>>

ErrorTimer ==
  /\ alive /\ errors > 0 /\ errors' = errors - 1
  /\ status' = "waiting"
  /\ UNCHANGED <<process, frames, lost>>

(* Mutant of Close: the server is not told.                               *)
CloseSilently(p) ==
  /\ Prints(p)
  /\ program' = [program EXCEPT ![p] = "closed"]
  /\ UNCHANGED <<alive, recent, child, frames, status, errors, lost>>

(* A program has ended, whether told to or not.  child is left as it is. *)
Close(p) ==
  /\ Prints(p)
  /\ program' = [program EXCEPT ![p] = "closed"]
  /\ status' = "waiting"
  /\ UNCHANGED <<alive, recent, child, frames, errors, lost>>

Line(p) == Data(p) \/ Cut(p) \/ NotUnderstood(p) \/ StandardError(p) \/ Hello(p)

Next ==
  \/ Start \/ Stop \/ exit \/ Elapse \/ ErrorTimer
  \/ \E p \in Programs : Line(p) \/ Close(p)

Spec == Init /\ [][Next]_vars

(* A program prints for ever (main.c:126), as long as its range finder     *)
(* works (main.c:179, 186), which this assumes; one told to end does end;  *)
(* node runs its timers.                                                   *)
FairSpec ==
  /\ Spec /\ WF_vars(ErrorTimer)
  /\ \A p \in Programs :
       /\ WF_vars(Data(p))
       /\ WF_vars(program[p] = "told" /\ Close(p))

-----------------------------------------------------------------------------
HokuyoTypeOK ==
  /\ alive \in BOOLEAN /\ recent \in BOOLEAN
  /\ child \in {None} \cup Programs
  /\ program \in [Programs -> {"none", "running", "told", "closed"}]
  /\ part \in [Programs -> 0 .. 2] /\ count \in 0 .. 2
  /\ bufferData \in [from : {None} \cup Programs, over : BOOLEAN,
                     mixed : BOOLEAN, cut : BOOLEAN]
  /\ status \in {"waiting", "starting", "error", "everythingIsAwesome"}
  /\ errors \in 0 .. MaxLost /\ lost \in 0 .. MaxLost
  /\ framed \in {None} \cup Programs
  /\ mixed \in Nat /\ strays \in 0 .. MaxStrays

(* Two programs never read the range finder at once, unless one has been   *)
(* told to end; and the one that has not is the one a stop will reach,     *)
(* although the end of an older program is handled at any time             *)
(* (hokuyo/main.js:118, 291).                                              *)
OneProgram ==
  \A p \in Programs : program[p] = "running" /\ alive => child = p

(* After a program is started or a line is lost, the parts of two frames   *)
(* are put together (the first part of a frame and the others of a later   *)
(* one, or of another program) at most once, as count finds its place      *)
(* again (hokuyo/main.js:152-178), and at most once more for each line of  *)
(* a program told to end that is read meanwhile.                           *)
MixedFramesAreFew == mixed <= 1 + strays

(* A driver without a program has said so: what an ended program printed,  *)
(* or an error of it, is not the last status (hokuyo/main.js:283-301).     *)
NoProgramIsWaiting ==
  alive /\ errors = 0 /\ (\A p \in Programs : ~Prints(p)) => status = "waiting"

(* Lost lines, cut lines and restarts never make the driver wait for ever  *)
(* for a part: the program in charge, whose range finder works, gets a     *)
(* frame through, and another after a lost line.                           *)
FramesKeepComing ==
  \A p \in Programs :
    child = p ~> framed = p \/ child # p \/ program[p] = "closed" \/ ~alive
=============================================================================
