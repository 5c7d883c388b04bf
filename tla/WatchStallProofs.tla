------------------------- MODULE WatchStallProofs -------------------------
(***************************************************************************)
(* Proofs about run_with_watch (module WatchStall), for every value of the *)
(* constants that satisfies WatchAssumption.                               *)
(*                                                                         *)
(* ChildStoppedOnReturn is not inductive by itself: the normal path        *)
(* returns from the join, so the proof needs that the main thread only     *)
(* joins once proc.poll() has seen make exit (ExitSeenBeforeJoin), and     *)
(* that make never runs again once it has exited.                          *)
(***************************************************************************)
EXTENDS WatchStall, SequenceTheorems, TLAPS

USE WatchAssumption

\* The main thread joins the reader only after proc.poll() saw make exit.
ExitSeenBeforeJoin == pc \in {"join", "returned"} => child # "running"

IInv == TypeOK /\ ExitSeenBeforeJoin

-----------------------------------------------------------------------------
(* Type correctness.                                                       *)

\* An age stays within 0 .. Cap or None.
LEMMA AgedType ==
  ASSUME NEW a \in 0 .. Cap \cup {None}
  PROVE  Aged(a) \in 0 .. Cap \cup {None}
BY DEF Aged, Cap

\* A countdown stays within 0 .. k.
LEMMA DownType ==
  ASSUME NEW k \in Nat, NEW x \in 0 .. k
  PROVE  Down(x) \in 0 .. k
BY DEF Down

LEMMA IInvInit == Init => IInv
BY DEF Init, IInv, TypeOK, Cap, ExitSeenBeforeJoin

LEMMA IInvStep == IInv /\ [Next]_vars => IInv'
<1>. SUFFICES ASSUME IInv, [Next]_vars PROVE IInv'
  OBVIOUS
<1>. USE DEF IInv, TypeOK, ExitSeenBeforeJoin
<1>1. CASE Emit
  <2>1. UNCHANGED <<child, pipeOpen, reader, lineAge, markerAge, pc, left, rc>>
    BY <1>1 DEF Emit
  <2>2. PICK b \in BOOLEAN : pipe' = Append(pipe, b)
    BY <1>1 DEF Emit
  <2>3. emitted' = emitted + 1 /\ emitted < MaxLines
    BY <1>1 DEF Emit
  <2>4. pipe' \in Seq(BOOLEAN) /\ Len(pipe') = Len(pipe) + 1
    BY <2>2, AppendProperties
  <2>. QED  BY <2>1, <2>3, <2>4
<1>2. CASE ChildExit
  <2>1. UNCHANGED <<pipe, emitted, reader, lineAge, markerAge, pc, left, rc>>
    BY <1>2 DEF ChildExit
  <2>2. child' \in ExitCodes /\ pipeOpen' \in BOOLEAN /\ child = "running"
    BY <1>2 DEF ChildExit
  <2>. QED  BY <2>1, <2>2
<1>3. CASE WritersExit
  <2>1. UNCHANGED <<child, pipe, emitted, reader, lineAge, markerAge, pc, left, rc>>
    BY <1>3 DEF WritersExit
  <2>2. pipeOpen' = FALSE
    BY <1>3 DEF WritersExit
  <2>. QED  BY <2>1, <2>2
<1>4. CASE ReadLine
  <2>1. pipe # <<>> /\ pipe' = Tail(pipe)
    BY <1>4 DEF ReadLine
  <2>2. /\ Head(pipe) \in BOOLEAN
        /\ Tail(pipe) \in Seq(BOOLEAN)
        /\ Len(Tail(pipe)) = Len(pipe) - 1
    BY <2>1, HeadTailProperties
  <2>3. markerAge' \in {0, markerAge} /\ lineAge' = 0
    BY <1>4 DEF ReadLine
  <2>4. UNCHANGED <<child, pipeOpen, emitted, reader, pc, left, rc>>
    BY <1>4 DEF ReadLine
  <2>. QED  BY <2>1, <2>2, <2>3, <2>4 DEF Cap
<1>5. CASE ReadEOF
  <2>1. UNCHANGED <<child, pipe, pipeOpen, emitted, lineAge, markerAge, pc, left, rc>>
    BY <1>5 DEF ReadEOF
  <2>2. reader' = "done"
    BY <1>5 DEF ReadEOF
  <2>. QED  BY <2>1, <2>2
<1>6. CASE Interrupt
  <2>1. UNCHANGED <<child, pipe, pipeOpen, emitted, reader, lineAge, markerAge, rc>>
    BY <1>6 DEF Interrupt
  <2>2. pc' = "waitTerm" /\ left' = WaitTimeout
    BY <1>6 DEF Interrupt
  <2>. QED  BY <2>1, <2>2
<1>7. CASE MainPoll
  <2>1. UNCHANGED <<child, pipe, pipeOpen, emitted, reader, lineAge, markerAge, rc>>
    BY <1>7 DEF MainPoll
  <2>2. /\ pc' \in {"sleep", "join"} /\ left' \in {Poll, JoinTimeout}
        /\ pc' = "join" => child # "running"
    BY <1>7 DEF MainPoll
  <2>. QED  BY <2>1, <2>2
<1>8. CASE MainWake
  <2>1. UNCHANGED <<child, pipe, pipeOpen, emitted, reader, lineAge, markerAge, left, rc>>
    BY <1>8 DEF MainWake
  <2>2. pc' \in {"diag", "poll"}
    BY <1>8 DEF MainWake
  <2>. QED  BY <2>1, <2>2
<1>9. CASE Diagnose
  <2>1. UNCHANGED <<child, pipe, pipeOpen, emitted, reader, lineAge, left, rc>>
    BY <1>9 DEF Diagnose
  <2>2. markerAge' = 0 /\ pc' = "poll"
    BY <1>9 DEF Diagnose
  <2>. QED  BY <2>1, <2>2 DEF Cap
<1>10. CASE JoinReturns \/ JoinExpires
  <2>1. UNCHANGED <<child, pipe, pipeOpen, emitted, reader, lineAge, markerAge, left>>
    BY <1>10 DEF JoinReturns, JoinExpires
  <2>2. rc' = child /\ pc = "join" /\ pc' = "returned"
    BY <1>10 DEF JoinReturns, JoinExpires
  <2>. QED  BY <2>1, <2>2
<1>11. CASE WaitReturns \/ WaitExpires
  <2>1. UNCHANGED <<pipe, pipeOpen, emitted, reader, lineAge, markerAge, left>>
    BY <1>11 DEF WaitReturns, WaitExpires
  <2>2. child' \in {child, Killed} /\ child' # "running"
        /\ rc' = Interrupted /\ pc' = "returned"
    BY <1>11 DEF WaitReturns, WaitExpires
  <2>. QED  BY <2>1, <2>2
<1>12. CASE Tick
  <2>1. lineAge' = Aged(lineAge) /\ markerAge' = Aged(markerAge)
        /\ left' = Down(left)
        /\ UNCHANGED <<child, pipe, pipeOpen, emitted, reader, pc, rc>>
    BY <1>12 DEF Tick
  <2>2. lineAge' \in 0 .. Cap
    BY <2>1 DEF Aged, Cap
  <2>4. markerAge' \in 0 .. Cap \cup {None}
    BY <2>1, AgedType
  <2>3. left' \in 0 .. (Poll + JoinTimeout + WaitTimeout)
    BY <2>1, DownType
  <2>. QED  BY <2>1, <2>2, <2>3, <2>4
<1>13. CASE UNCHANGED vars
  BY <1>13 DEF vars
<1>. QED  BY <1>1, <1>2, <1>3, <1>4, <1>5, <1>6, <1>7, <1>8, <1>9, <1>10,
             <1>11, <1>12, <1>13
          DEF Next, Environment, Reader, Main

\* Every variable of the watcher always has its type.
THEOREM TypeCorrect == Spec => []TypeOK
<1>1. IInv => TypeOK
  BY DEF IInv
<1>. QED  BY IInvInit, IInvStep, <1>1, PTL DEF Spec

\* run_with_watch never returns while make is still running, on the normal
\* path (lines 44-54) or through the KeyboardInterrupt handler (55-61).
THEOREM ChildStoppedOnReturnHolds == Spec => []ChildStoppedOnReturn
<1>1. IInv => ChildStoppedOnReturn
  BY DEF IInv, ExitSeenBeforeJoin, ChildStoppedOnReturn
<1>. QED  BY IInvInit, IInvStep, <1>1, PTL DEF Spec

=============================================================================
