--------------------------- MODULE StreamsProofs ----------------------------
(***************************************************************************)
(* Proofs about Streams, for every set of goroutines, shape, assignment of *)
(* roles, codec fault, context and bound.                                  *)
(*                                                                         *)
(* The invariant is IInv, who holds what, with OutcomeInv, AnswerInv and   *)
(* CountInv, what the errors and the latch say.  None of the safety        *)
(* properties is inductive alone: that only one goroutine is in poseidon's *)
(* receive state follows from who holds recvBusy, that Close is not there  *)
(* with it from who holds the gate, and that nobody enters after Close     *)
(* from the latch being set before the gate is released.  Each part of the *)
(* invariant has a lemma that no action breaks it.                         *)
(***************************************************************************)
EXTENDS Streams, TLAPS

USE DEF gateVars, latchVars, sendVars, psVars, Goto, SetErr, UserCode

\* Initially every variable is in its range.
LEMMA TypeInit == Init => TypeOK
<1> SUFFICES ASSUME Init PROVE TypeOK
  OBVIOUS
<1>1. PoseidonTypeOK
  <2>1. credit \in Nat
    BY PoseidonAssumption DEF Init, PoseidonInit
  <2> QED
    BY <2>1 DEF Init, PoseidonInit, PoseidonTypeOK
<1>2. ThreadTypeOK
  BY DEF Init, ThreadTypeOK, Pcs, Modes, Errs
<1>3. GateTypeOK /\ FlagTypeOK /\ LatchTypeOK /\ FinishTypeOK
  BY DEF Init, GateTypeOK, FlagTypeOK, LatchTypeOK, FinishTypeOK, TermErrs, Errs, Codes
<1> QED
  BY <1>1, <1>2, <1>3 DEF TypeOK

\* The ranges of the fields, without what may reach finish().
RangeOK ==
  PoseidonTypeOK /\ ThreadTypeOK /\ GateTypeOK /\ FlagTypeOK /\ LatchTypeOK

\* Every step of every operation keeps every variable in its range: one
\* step of the proof per action, the program counters apart from the rest.
LEMMA RangeStep == TypeOK /\ [Next]_vars => RangeOK'
<1> SUFFICES ASSUME TypeOK, [Next]_vars PROVE RangeOK'
  OBVIOUS
<1> USE DEF TypeOK, RangeOK
<1>1. CASE UNCHANGED vars
  BY <1>1 DEF vars, PoseidonTypeOK, ThreadTypeOK, GateTypeOK, FlagTypeOK,
     LatchTypeOK
<1>2. CASE Peer
  <2>1. PoseidonTypeOK'
    <3>1. CASE ServerSend
      BY <3>1 DEF ServerSend, PoseidonTypeOK
    <3>2. CASE ServerEnd
      BY <3>2 DEF ServerEnd, PeerEnds, PoseidonTypeOK
    <3>3. CASE ServerReset
      BY <3>3 DEF ServerReset, PoseidonTypeOK
    <3>4. CASE Grant
      BY <3>4 DEF Grant, PoseidonTypeOK
    <3> QED
      BY <1>2, <3>1, <3>2, <3>3, <3>4 DEF Peer, PeerNext
  <2>2. (ThreadTypeOK /\ GateTypeOK /\ FlagTypeOK /\ LatchTypeOK)'
    BY <1>2 DEF Peer, ThreadTypeOK, GateTypeOK, FlagTypeOK, LatchTypeOK
  <2> QED
    BY <2>1, <2>2
<1>3. ASSUME NEW g \in G, NEW m \in {"call", "all"}, CallRecv(g, m)
      PROVE  RangeOK'
  <2>1. ThreadTypeOK'
    BY <1>3 DEF CallRecv, RecvFrame, ThreadTypeOK, Pcs, GuardPcs, ReadPcs,
       ClosePcs,
       SendPcs, Modes, Errs
  <2>2. (PoseidonTypeOK /\ GateTypeOK /\ LatchTypeOK)'
    BY <1>3 DEF CallRecv, RecvFrame, PoseidonTypeOK, GateTypeOK, LatchTypeOK
  <2>3. FlagTypeOK'
    BY <1>3 DEF CallRecv, RecvFrame, FlagTypeOK
  <2> QED
    BY <2>1, <2>2, <2>3
<1>4. ASSUME NEW g \in G, NEW k \in {"send", "last", "half"}, CallSend(g, k)
      PROVE  RangeOK'
  <2>1. ThreadTypeOK'
    BY <1>4 DEF CallSend, SendFrame, ThreadTypeOK, Pcs, GuardPcs, ReadPcs,
       ClosePcs,
       SendPcs, Modes, Errs
  <2>2. (PoseidonTypeOK /\ GateTypeOK /\ LatchTypeOK)'
    BY <1>4 DEF CallSend, SendFrame, PoseidonTypeOK, GateTypeOK, LatchTypeOK
  <2>3. FlagTypeOK'
    BY <1>4 DEF CallSend, SendFrame, FlagTypeOK
  <2> QED
    BY <2>1, <2>2, <2>3
<1>5. ASSUME NEW g \in G, CloseCAS(g) PROVE RangeOK'
  <2>1. ThreadTypeOK'
    BY <1>5 DEF CloseCAS, CloseFrame, ThreadTypeOK, Pcs, GuardPcs, ReadPcs,
       ClosePcs,
       SendPcs, Modes, Errs, Back
  <2>2. (PoseidonTypeOK /\ GateTypeOK /\ LatchTypeOK)'
    BY <1>5 DEF CloseCAS, CloseFrame, PoseidonTypeOK, GateTypeOK, LatchTypeOK
  <2>3. FlagTypeOK'
    BY <1>5 DEF CloseCAS, CloseFrame, FlagTypeOK
  <2> QED
    BY <2>1, <2>2, <2>3
<1>6. ASSUME NEW g \in G, BodyContinue(g) PROVE RangeOK'
  <2>1. ThreadTypeOK'
    BY <1>6 DEF BodyContinue, RecvFrame, ThreadTypeOK, Pcs, GuardPcs, ReadPcs,
       ClosePcs,
       SendPcs, Modes, Errs
  <2>2. (PoseidonTypeOK /\ GateTypeOK /\ FlagTypeOK /\ LatchTypeOK)'
    BY <1>6 DEF BodyContinue, RecvFrame, PoseidonTypeOK, GateTypeOK,
       FlagTypeOK, LatchTypeOK
  <2> QED
    BY <2>1, <2>2
<1>7. ASSUME NEW g \in G, BodyStop(g) PROVE RangeOK'
  <2>1. ThreadTypeOK'
    BY <1>7 DEF BodyStop, RecvFrame, ThreadTypeOK, Pcs, GuardPcs, ReadPcs,
       ClosePcs,
       SendPcs, Modes, Errs
  <2>2. (PoseidonTypeOK /\ GateTypeOK /\ FlagTypeOK /\ LatchTypeOK)'
    BY <1>7 DEF BodyStop, RecvFrame, PoseidonTypeOK, GateTypeOK, FlagTypeOK,
       LatchTypeOK
  <2> QED
    BY <2>1, <2>2
<1>8. ASSUME NEW g \in G, RecvLock(g) PROVE RangeOK'
  <2>1. ThreadTypeOK'
    BY <1>8 DEF RecvLock, RecvFrame, ThreadTypeOK, Pcs, GuardPcs, ReadPcs,
       ClosePcs,
       SendPcs, Modes, Errs
  <2>2. (PoseidonTypeOK /\ GateTypeOK /\ FlagTypeOK /\ LatchTypeOK)'
    BY <1>8 DEF RecvLock, RecvFrame, PoseidonTypeOK, GateTypeOK, FlagTypeOK,
       LatchTypeOK, RLock
  <2> QED
    BY <2>1, <2>2
<1>9. ASSUME NEW g \in G, SingleEnter(g) PROVE RangeOK'
  <2>1. ThreadTypeOK'
    BY <1>9 DEF SingleEnter, RecvFrame, ThreadTypeOK, Pcs, GuardPcs, ReadPcs,
       ClosePcs,
       SendPcs, Modes, Errs
  <2>2. (PoseidonTypeOK /\ GateTypeOK /\ LatchTypeOK)'
    BY <1>9 DEF SingleEnter, RecvFrame, PoseidonTypeOK, GateTypeOK, LatchTypeOK
  <2>3. FlagTypeOK'
    BY <1>9 DEF SingleEnter, RecvFrame, FlagTypeOK
  <2> QED
    BY <2>1, <2>2, <2>3
<1>10. ASSUME NEW g \in G, RecvCheck(g) PROVE RangeOK'
  <2>1. ThreadTypeOK'
    <3>1. pc' \in [G -> Pcs]
      BY <1>10 DEF RecvCheck, RecvFrame, ThreadTypeOK, Pcs, GuardPcs, ReadPcs,
         SendPcs
    <3>2. err' \in [G -> Errs]
      BY <1>10 DEF RecvCheck, RecvFrame, ThreadTypeOK, Errs, TermErrs, LatchTypeOK
    <3>3. mode' \in [G -> Modes]
      BY <1>10 DEF RecvCheck, RecvFrame, ThreadTypeOK
    <3>4. op' \in [G -> {"none", "send", "last", "half"}]
      BY <1>10 DEF RecvCheck, RecvFrame, ThreadTypeOK
    <3> QED
      BY <3>1, <3>2, <3>3, <3>4 DEF ThreadTypeOK
  <2>2. (PoseidonTypeOK /\ GateTypeOK /\ FlagTypeOK /\ LatchTypeOK)'
    BY <1>10 DEF RecvCheck, RecvFrame, PoseidonTypeOK, GateTypeOK, FlagTypeOK,
       LatchTypeOK
  <2> QED
    BY <2>1, <2>2
<1>11. ASSUME NEW g \in G, RecvMessage(g) PROVE RangeOK'
  <2>1. ThreadTypeOK'
    BY <1>11 DEF RecvMessage, RecvFrame, ThreadTypeOK, Pcs, GuardPcs, ReadPcs,
       ClosePcs,
       SendPcs, Modes, Errs, RecvFails, RecvOneErr, DrainErr
  <2>2. (PoseidonTypeOK /\ GateTypeOK /\ FlagTypeOK /\ LatchTypeOK)'
    BY <1>11 DEF RecvMessage, RecvFrame, PoseidonTypeOK, GateTypeOK,
       FlagTypeOK, LatchTypeOK, PumpMessage, RecvFails, RecvOneErr, DrainErr
  <2> QED
    BY <2>1, <2>2
<1>12. ASSUME NEW g \in G, RecvEnd(g) PROVE RangeOK'
  <2>1. ThreadTypeOK'
    BY <1>12 DEF RecvEnd, RecvFrame, ThreadTypeOK, Pcs, GuardPcs, ReadPcs,
       ClosePcs,
       SendPcs, Modes, Errs, EndErr, RecvFails, RecvOneErr, DrainErr
  <2>2. (PoseidonTypeOK /\ GateTypeOK /\ FlagTypeOK /\ LatchTypeOK)'
    BY <1>12 DEF RecvEnd, RecvFrame, PoseidonTypeOK, GateTypeOK, FlagTypeOK,
       LatchTypeOK, PumpEnd, EndErr, RecvFails, RecvOneErr, DrainErr
  <2> QED
    BY <2>1, <2>2
<1>13. ASSUME NEW g \in G, RecvCtx(g) PROVE RangeOK'
  <2>1. ThreadTypeOK'
    BY <1>13 DEF RecvCtx, RecvFrame, ThreadTypeOK, Pcs, GuardPcs, ReadPcs,
       ClosePcs,
       SendPcs, Modes, Errs, RecvFails, RecvOneErr, DrainErr
  <2>2. (PoseidonTypeOK /\ GateTypeOK /\ FlagTypeOK /\ LatchTypeOK)'
    BY <1>13 DEF RecvCtx, RecvFrame, PoseidonTypeOK, GateTypeOK, FlagTypeOK,
       LatchTypeOK, RecvFails, RecvOneErr, DrainErr
  <2> QED
    BY <2>1, <2>2
<1>14. ASSUME NEW g \in G, Decode(g) PROVE RangeOK'
  <2>1. ThreadTypeOK'
    BY <1>14 DEF Decode, RecvFrame, ThreadTypeOK, Pcs, GuardPcs, ReadPcs,
       ClosePcs,
       SendPcs, Modes, Errs, RecvOneErr, FaultErr
  <2>2. (PoseidonTypeOK /\ GateTypeOK /\ FlagTypeOK /\ LatchTypeOK)'
    BY <1>14 DEF Decode, RecvFrame, PoseidonTypeOK, GateTypeOK, FlagTypeOK,
       LatchTypeOK, RecvOneErr
  <2> QED
    BY <2>1, <2>2
<1>15. ASSUME NEW g \in G, CacheHeader(g) PROVE RangeOK'
  <2>1. ThreadTypeOK'
    BY <1>15 DEF CacheHeader, RecvFrame, ThreadTypeOK, Pcs, GuardPcs, ReadPcs,
       ClosePcs,
       SendPcs, Modes, Errs
  <2>2. (PoseidonTypeOK /\ GateTypeOK /\ LatchTypeOK)'
    BY <1>15 DEF CacheHeader, RecvFrame, PoseidonTypeOK, GateTypeOK, LatchTypeOK
  <2>3. FlagTypeOK'
    BY <1>15 DEF CacheHeader, RecvFrame, FlagTypeOK
  <2> QED
    BY <2>1, <2>2, <2>3
<1>16. ASSUME NEW g \in G, Finish(g) PROVE RangeOK'
  <2>1. ThreadTypeOK'
    BY <1>16 DEF Finish, RecvFrame, ThreadTypeOK, Pcs, GuardPcs, ReadPcs,
       ClosePcs,
       SendPcs, Modes, Errs
  <2>2. (PoseidonTypeOK /\ GateTypeOK /\ FlagTypeOK)'
    BY <1>16 DEF Finish, RecvFrame, PoseidonTypeOK, GateTypeOK, FlagTypeOK
  <2>3. LatchTypeOK'
    BY <1>16 DEF Finish, Latch, LatchTypeOK, PStatus, PTrailer, PoseidonTypeOK,
       ThreadTypeOK, FinishTypeOK, TermErrs, Errs, Codes
  <2> QED
    BY <2>1, <2>2, <2>3
<1>17. ASSUME NEW g \in G, RecvUnlock(g) PROVE RangeOK'
  <2>1. ThreadTypeOK'
    BY <1>17 DEF RecvUnlock, RecvFrame, ThreadTypeOK, Pcs, GuardPcs, ReadPcs,
       ClosePcs,
       SendPcs, Modes, Errs
  <2>2. (PoseidonTypeOK /\ GateTypeOK /\ FlagTypeOK /\ LatchTypeOK)'
    BY <1>17 DEF RecvUnlock, RecvFrame, PoseidonTypeOK, GateTypeOK, FlagTypeOK,
       LatchTypeOK, RUnlock
  <2> QED
    BY <2>1, <2>2
<1>18. ASSUME NEW g \in G, LeaveRecv(g) PROVE RangeOK'
  <2>1. ThreadTypeOK'
    BY <1>18 DEF LeaveRecv, RecvFrame, ThreadTypeOK, Pcs, GuardPcs, ReadPcs,
       ClosePcs,
       SendPcs, Modes, Errs
  <2>2. (PoseidonTypeOK /\ GateTypeOK /\ LatchTypeOK)'
    BY <1>18 DEF LeaveRecv, RecvFrame, PoseidonTypeOK, GateTypeOK, LatchTypeOK
  <2>3. FlagTypeOK'
    BY <1>18 DEF LeaveRecv, RecvFrame, FlagTypeOK
  <2> QED
    BY <2>1, <2>2, <2>3
<1>19. ASSUME NEW g \in G, SingleUnlock(g) PROVE RangeOK'
  <2>1. ThreadTypeOK'
    BY <1>19 DEF SingleUnlock, RecvFrame, ThreadTypeOK, Pcs, GuardPcs, ReadPcs,
       ClosePcs,
       SendPcs, Modes, Errs
  <2>2. (PoseidonTypeOK /\ GateTypeOK /\ FlagTypeOK /\ LatchTypeOK)'
    BY <1>19 DEF SingleUnlock, RecvFrame, PoseidonTypeOK, GateTypeOK,
       FlagTypeOK, LatchTypeOK, RUnlock
  <2> QED
    BY <2>1, <2>2
<1>20. ASSUME NEW g \in G, SendCheck(g) PROVE RangeOK'
  <2>1. ThreadTypeOK'
    <3>1. pc' \in [G -> Pcs]
      BY <1>20 DEF SendCheck, SendFrame, ThreadTypeOK, Pcs, GuardPcs, ReadPcs,
         SendPcs
    <3>2. err' \in [G -> Errs]
      BY <1>20 DEF SendCheck, FaultErr, ThreadTypeOK, Errs
    <3>3. mode' \in [G -> Modes]
      BY <1>20 DEF SendCheck, SendFrame, ThreadTypeOK
    <3>4. op' \in [G -> {"none", "send", "last", "half"}]
      BY <1>20 DEF SendCheck, SendFrame, ThreadTypeOK
    <3> QED
      BY <3>1, <3>2, <3>3, <3>4 DEF ThreadTypeOK
  <2>2. (PoseidonTypeOK /\ GateTypeOK /\ FlagTypeOK /\ LatchTypeOK)'
    BY <1>20 DEF SendCheck, SendFrame, PoseidonTypeOK, GateTypeOK, FlagTypeOK,
       LatchTypeOK
  <2> QED
    BY <2>1, <2>2
<1>21. ASSUME NEW g \in G, SendDone(g) PROVE RangeOK'
  <2>1. ThreadTypeOK'
    BY <1>21 DEF SendDone, SendFrame, ThreadTypeOK, Pcs, GuardPcs, ReadPcs,
       ClosePcs,
       SendPcs, Modes, Errs
  <2>2. (PoseidonTypeOK /\ GateTypeOK /\ FlagTypeOK /\ LatchTypeOK)'
    BY <1>21 DEF SendDone, SendFrame, PoseidonTypeOK, GateTypeOK, FlagTypeOK,
       LatchTypeOK, SendOK
  <2> QED
    BY <2>1, <2>2
<1>22. ASSUME NEW g \in G, NEW e \in {"connClosed", "transport", "ctx"}, SendError(g, e)
      PROVE  RangeOK'
  <2>1. ThreadTypeOK'
    BY <1>22 DEF SendError, SendFrame, ThreadTypeOK, Pcs, GuardPcs, ReadPcs,
       ClosePcs,
       SendPcs, Modes, Errs
  <2>2. (PoseidonTypeOK /\ GateTypeOK /\ FlagTypeOK /\ LatchTypeOK)'
    BY <1>22 DEF SendError, SendFrame, PoseidonTypeOK, GateTypeOK, FlagTypeOK,
       LatchTypeOK, SendFail
  <2> QED
    BY <2>1, <2>2
<1>23. ASSUME NEW g \in G, LeaveSend(g) PROVE RangeOK'
  <2>1. ThreadTypeOK'
    BY <1>23 DEF LeaveSend, SendFrame, ThreadTypeOK, Pcs, GuardPcs, ReadPcs,
       ClosePcs,
       SendPcs, Modes, Errs, Back
  <2>2. (PoseidonTypeOK /\ GateTypeOK /\ LatchTypeOK)'
    BY <1>23 DEF LeaveSend, SendFrame, PoseidonTypeOK, GateTypeOK, LatchTypeOK
  <2>3. FlagTypeOK'
    BY <1>23 DEF LeaveSend, SendFrame, FlagTypeOK
  <2> QED
    BY <2>1, <2>2, <2>3
<1>24. ASSUME NEW g \in G, CloseCancel(g) PROVE RangeOK'
  <2>1. ThreadTypeOK'
    BY <1>24 DEF CloseCancel, CloseFrame, ThreadTypeOK, Pcs, GuardPcs, ReadPcs,
       ClosePcs,
       SendPcs, Modes, Errs
  <2>2. (PoseidonTypeOK /\ GateTypeOK /\ FlagTypeOK /\ LatchTypeOK)'
    BY <1>24 DEF CloseCancel, CloseFrame, PoseidonTypeOK, GateTypeOK,
       FlagTypeOK, LatchTypeOK
  <2> QED
    BY <2>1, <2>2
<1>25. ASSUME NEW g \in G, CloseAnnounce(g) PROVE RangeOK'
  <2>1. ThreadTypeOK'
    BY <1>25 DEF CloseAnnounce, CloseFrame, ThreadTypeOK, Pcs, GuardPcs,
       ReadPcs, ClosePcs,
       SendPcs, Modes, Errs
  <2>2. (PoseidonTypeOK /\ GateTypeOK /\ FlagTypeOK /\ LatchTypeOK)'
    BY <1>25 DEF CloseAnnounce, CloseFrame, PoseidonTypeOK, GateTypeOK,
       FlagTypeOK, LatchTypeOK
  <2> QED
    BY <2>1, <2>2
<1>26. ASSUME NEW g \in G, CloseAwait(g) PROVE RangeOK'
  <2>1. ThreadTypeOK'
    BY <1>26 DEF CloseAwait, CloseFrame, ThreadTypeOK, Pcs, GuardPcs, ReadPcs,
       ClosePcs,
       SendPcs, Modes, Errs
  <2>2. (PoseidonTypeOK /\ GateTypeOK /\ FlagTypeOK /\ LatchTypeOK)'
    BY <1>26 DEF CloseAwait, CloseFrame, PoseidonTypeOK, GateTypeOK,
       FlagTypeOK, LatchTypeOK
  <2> QED
    BY <2>1, <2>2
<1>27. ASSUME NEW g \in G, ClosePoseidon(g) PROVE RangeOK'
  <2>1. ThreadTypeOK'
    BY <1>27 DEF ClosePoseidon, CloseFrame, ThreadTypeOK, Pcs, GuardPcs,
       ReadPcs, ClosePcs,
       SendPcs, Modes, Errs
  <2>2. (PoseidonTypeOK /\ GateTypeOK /\ FlagTypeOK /\ LatchTypeOK)'
    BY <1>27 DEF ClosePoseidon, CloseFrame, PoseidonTypeOK, GateTypeOK,
       FlagTypeOK, LatchTypeOK, StreamClose
  <2> QED
    BY <2>1, <2>2
<1>28. ASSUME NEW g \in G, CloseLatch(g) PROVE RangeOK'
  <2>1. ThreadTypeOK'
    BY <1>28 DEF CloseLatch, CloseFrame, ThreadTypeOK, Pcs, GuardPcs, ReadPcs,
       ClosePcs,
       SendPcs, Modes, Errs
  <2>2. (PoseidonTypeOK /\ GateTypeOK /\ FlagTypeOK)'
    BY <1>28 DEF CloseLatch, CloseFrame, PoseidonTypeOK, GateTypeOK, FlagTypeOK
  <2>3. LatchTypeOK'
    BY <1>28 DEF CloseLatch, Latch, LatchTypeOK, PStatus, PTrailer,
       PoseidonTypeOK, ThreadTypeOK, TermErrs, Errs, Codes
  <2> QED
    BY <2>1, <2>2, <2>3
<1>29. ASSUME NEW g \in G, CloseUnlock(g) PROVE RangeOK'
  <2>1. ThreadTypeOK'
    BY <1>29 DEF CloseUnlock, CloseFrame, ThreadTypeOK, Pcs, GuardPcs, ReadPcs,
       ClosePcs,
       SendPcs, Modes, Errs, Back
  <2>2. (PoseidonTypeOK /\ GateTypeOK /\ FlagTypeOK /\ LatchTypeOK)'
    BY <1>29 DEF CloseUnlock, CloseFrame, PoseidonTypeOK, GateTypeOK,
       FlagTypeOK, LatchTypeOK, Back
  <2> QED
    BY <2>1, <2>2
<1> QED
  BY <1>1, <1>2, <1>3, <1>4, <1>5, <1>6, <1>7, <1>8, <1>9, <1>10, <1>11, <1>12,
     <1>13, <1>14, <1>15, <1>16, <1>17, <1>18, <1>19, <1>20, <1>21, <1>22,
     <1>23, <1>24, <1>25, <1>26, <1>27, <1>28, <1>29
  DEF Next, Call, Step, RecvStep, SendStep, CloseStep, Expire, RecvCancelled,
      RecvExpired, SendBroken, SendCancelled, SendExpired

\* finish() is reached with the outcome of a receive only: a receive that was
\* refused, or a send, returns without it.
LEMMA FinishStep == TypeOK /\ [Next]_vars => FinishTypeOK'
<1> SUFFICES ASSUME TypeOK, [Next]_vars PROVE FinishTypeOK'
  OBVIOUS
<1> USE BaseStreamAssumption DEF TypeOK, ThreadTypeOK, FinishTypeOK, TermErrs, Errs
<1>1. CASE UNCHANGED vars
  BY <1>1 DEF vars
<1>2. CASE Peer
  BY <1>2 DEF Peer, PeerNext, ServerSend, ServerEnd, ServerReset, Grant
<1>3. ASSUME NEW g \in G, NEW m \in {"call", "all"}, CallRecv(g, m)
      PROVE  FinishTypeOK'
  BY <1>3 DEF CallRecv, RecvFrame
<1>4. ASSUME NEW g \in G, NEW k \in {"send", "last", "half"}, CallSend(g, k)
      PROVE  FinishTypeOK'
  BY <1>4 DEF CallSend, SendFrame
<1>5. ASSUME NEW g \in G, CloseCAS(g) PROVE FinishTypeOK'
  BY <1>5 DEF CloseCAS, CloseFrame, Back
<1>6. ASSUME NEW g \in G, BodyContinue(g) PROVE FinishTypeOK'
  BY <1>6 DEF BodyContinue, RecvFrame
<1>7. ASSUME NEW g \in G, BodyStop(g) PROVE FinishTypeOK'
  BY <1>7 DEF BodyStop, RecvFrame
<1>8. ASSUME NEW g \in G, RecvLock(g) PROVE FinishTypeOK'
  BY <1>8 DEF RecvLock, RecvFrame, RLock
<1>9. ASSUME NEW g \in G, SingleEnter(g) PROVE FinishTypeOK'
  BY <1>9 DEF SingleEnter, RecvFrame
<1>10. ASSUME NEW g \in G, RecvCheck(g) PROVE FinishTypeOK'
  BY <1>10 DEF RecvCheck, RecvFrame, LatchTypeOK
<1>11. ASSUME NEW g \in G, RecvMessage(g) PROVE FinishTypeOK'
  BY <1>11 DEF RecvMessage, RecvFrame, PumpMessage, RecvFails, RecvOneErr,
     DrainErr, IsEOF
<1>12. ASSUME NEW g \in G, RecvEnd(g) PROVE FinishTypeOK'
  BY <1>12 DEF RecvEnd, RecvFrame, PumpEnd, RecvFails, EndErr, RecvOneErr,
     DrainErr, IsEOF
<1>13. ASSUME NEW g \in G, RecvCtx(g) PROVE FinishTypeOK'
  BY <1>13 DEF RecvCtx, RecvFrame, RecvFails, RecvOneErr, DrainErr, IsEOF
<1>14. ASSUME NEW g \in G, Decode(g) PROVE FinishTypeOK'
  BY <1>14 DEF Decode, RecvFrame, RecvOneErr, IsEOF, FaultErr
<1>15. ASSUME NEW g \in G, CacheHeader(g) PROVE FinishTypeOK'
  BY <1>15 DEF CacheHeader, RecvFrame
<1>16. ASSUME NEW g \in G, Finish(g) PROVE FinishTypeOK'
  BY <1>16 DEF Finish, RecvFrame, Latch
<1>17. ASSUME NEW g \in G, RecvUnlock(g) PROVE FinishTypeOK'
  BY <1>17 DEF RecvUnlock, RecvFrame, RUnlock
<1>18. ASSUME NEW g \in G, LeaveRecv(g) PROVE FinishTypeOK'
  BY <1>18 DEF LeaveRecv, RecvFrame
<1>19. ASSUME NEW g \in G, SingleUnlock(g) PROVE FinishTypeOK'
  BY <1>19 DEF SingleUnlock, RecvFrame, RUnlock
<1>20. ASSUME NEW g \in G, SendCheck(g) PROVE FinishTypeOK'
  BY <1>20 DEF SendCheck, SendFrame
<1>21. ASSUME NEW g \in G, SendDone(g) PROVE FinishTypeOK'
  BY <1>21 DEF SendDone, SendFrame, SendOK
<1>22. ASSUME NEW g \in G, NEW e \in {"connClosed", "transport", "ctx"}, SendError(g, e)
      PROVE  FinishTypeOK'
  BY <1>22 DEF SendError, SendFrame, SendFail
<1>23. ASSUME NEW g \in G, LeaveSend(g) PROVE FinishTypeOK'
  BY <1>23 DEF LeaveSend, SendFrame, Back
<1>24. ASSUME NEW g \in G, CloseCancel(g) PROVE FinishTypeOK'
  BY <1>24 DEF CloseCancel, CloseFrame
<1>25. ASSUME NEW g \in G, CloseAnnounce(g) PROVE FinishTypeOK'
  BY <1>25 DEF CloseAnnounce, CloseFrame
<1>26. ASSUME NEW g \in G, CloseAwait(g) PROVE FinishTypeOK'
  BY <1>26 DEF CloseAwait, CloseFrame
<1>27. ASSUME NEW g \in G, ClosePoseidon(g) PROVE FinishTypeOK'
  BY <1>27 DEF ClosePoseidon, CloseFrame, StreamClose
<1>28. ASSUME NEW g \in G, CloseLatch(g) PROVE FinishTypeOK'
  BY <1>28 DEF CloseLatch, CloseFrame, Latch
<1>29. ASSUME NEW g \in G, CloseUnlock(g) PROVE FinishTypeOK'
  BY <1>29 DEF CloseUnlock, CloseFrame, Back
<1> HIDE DEF TypeOK, ThreadTypeOK, FinishTypeOK, TermErrs, Errs
<1> QED
  BY <1>1, <1>2, <1>3, <1>4, <1>5, <1>6, <1>7, <1>8, <1>9, <1>10, <1>11, <1>12,
     <1>13, <1>14, <1>15, <1>16, <1>17, <1>18, <1>19, <1>20, <1>21, <1>22,
     <1>23, <1>24, <1>25, <1>26, <1>27, <1>28, <1>29
  DEF Next, Call, Step, RecvStep, SendStep, CloseStep, Expire, RecvCancelled,
      RecvExpired, SendBroken, SendCancelled, SendExpired

\* No step takes a variable out of its range.
LEMMA TypeStep == TypeOK /\ [Next]_vars => TypeOK'
  BY RangeStep, FinishStep DEF TypeOK, RangeOK

\* recvBusy and sendBusy each have at most one holder, and are set exactly
\* while they have one (enterRecv, leaveRecv, enterSend, leaveSend).
LEMMA GuardStep == IInv /\ [Next]_vars => GuardInv'
<1> SUFFICES ASSUME IInv, [Next]_vars PROVE GuardInv'
  OBVIOUS
<1> USE BaseStreamAssumption DEF IInv, TypeOK, ThreadTypeOK, GuardInv, ShapeInv, HoldsRecv, InAll, GuardPcs, SendPcs, FlagTypeOK
<1>1. CASE UNCHANGED vars
  BY <1>1 DEF vars
<1>2. CASE Peer
  BY <1>2 DEF Peer, PeerNext, ServerSend, ServerEnd, ServerReset, Grant
<1>3. ASSUME NEW g \in G, NEW m \in {"call", "all"}, CallRecv(g, m)
      PROVE  GuardInv'
  BY <1>3 DEF CallRecv, RecvFrame
<1>4. ASSUME NEW g \in G, NEW k \in {"send", "last", "half"}, CallSend(g, k)
      PROVE  GuardInv'
  BY <1>4 DEF CallSend, SendFrame
<1>5. ASSUME NEW g \in G, CloseCAS(g) PROVE GuardInv'
  BY <1>5 DEF CloseCAS, CloseFrame, Back
<1>6. ASSUME NEW g \in G, BodyContinue(g) PROVE GuardInv'
  BY <1>6 DEF BodyContinue, RecvFrame
<1>7. ASSUME NEW g \in G, BodyStop(g) PROVE GuardInv'
  BY <1>7 DEF BodyStop, RecvFrame
<1>8. ASSUME NEW g \in G, RecvLock(g) PROVE GuardInv'
  BY <1>8 DEF RecvLock, RecvFrame, RLock
<1>9. ASSUME NEW g \in G, SingleEnter(g) PROVE GuardInv'
  BY <1>9 DEF SingleEnter, RecvFrame
<1>10. ASSUME NEW g \in G, RecvCheck(g) PROVE GuardInv'
  BY <1>10 DEF RecvCheck, RecvFrame
<1>11. ASSUME NEW g \in G, RecvMessage(g) PROVE GuardInv'
  BY <1>11 DEF RecvMessage, RecvFrame, PumpMessage, RecvFails
<1>12. ASSUME NEW g \in G, RecvEnd(g) PROVE GuardInv'
  BY <1>12 DEF RecvEnd, RecvFrame, PumpEnd, RecvFails
<1>13. ASSUME NEW g \in G, RecvCtx(g) PROVE GuardInv'
  BY <1>13 DEF RecvCtx, RecvFrame, RecvFails
<1>14. ASSUME NEW g \in G, Decode(g) PROVE GuardInv'
  BY <1>14 DEF Decode, RecvFrame
<1>15. ASSUME NEW g \in G, CacheHeader(g) PROVE GuardInv'
  BY <1>15 DEF CacheHeader, RecvFrame
<1>16. ASSUME NEW g \in G, Finish(g) PROVE GuardInv'
  BY <1>16 DEF Finish, RecvFrame, Latch
<1>17. ASSUME NEW g \in G, RecvUnlock(g) PROVE GuardInv'
  BY <1>17 DEF RecvUnlock, RecvFrame, RUnlock
<1>18. ASSUME NEW g \in G, LeaveRecv(g) PROVE GuardInv'
  BY <1>18 DEF LeaveRecv, RecvFrame
<1>19. ASSUME NEW g \in G, SingleUnlock(g) PROVE GuardInv'
  BY <1>19 DEF SingleUnlock, RecvFrame, RUnlock
<1>20. ASSUME NEW g \in G, SendCheck(g) PROVE GuardInv'
  BY <1>20 DEF SendCheck, SendFrame
<1>21. ASSUME NEW g \in G, SendDone(g) PROVE GuardInv'
  BY <1>21 DEF SendDone, SendFrame, SendOK
<1>22. ASSUME NEW g \in G, NEW e \in {"connClosed", "transport", "ctx"}, SendError(g, e)
      PROVE  GuardInv'
  BY <1>22 DEF SendError, SendFrame, SendFail
<1>23. ASSUME NEW g \in G, LeaveSend(g) PROVE GuardInv'
  BY <1>23 DEF LeaveSend, SendFrame, Back
<1>24. ASSUME NEW g \in G, CloseCancel(g) PROVE GuardInv'
  BY <1>24 DEF CloseCancel, CloseFrame
<1>25. ASSUME NEW g \in G, CloseAnnounce(g) PROVE GuardInv'
  BY <1>25 DEF CloseAnnounce, CloseFrame
<1>26. ASSUME NEW g \in G, CloseAwait(g) PROVE GuardInv'
  BY <1>26 DEF CloseAwait, CloseFrame
<1>27. ASSUME NEW g \in G, ClosePoseidon(g) PROVE GuardInv'
  BY <1>27 DEF ClosePoseidon, CloseFrame, StreamClose
<1>28. ASSUME NEW g \in G, CloseLatch(g) PROVE GuardInv'
  BY <1>28 DEF CloseLatch, CloseFrame, Latch
<1>29. ASSUME NEW g \in G, CloseUnlock(g) PROVE GuardInv'
  BY <1>29 DEF CloseUnlock, CloseFrame, Back
<1> HIDE DEF IInv, TypeOK, ThreadTypeOK, GuardInv, ShapeInv, HoldsRecv, InAll, GuardPcs, SendPcs, FlagTypeOK
<1> QED
  BY <1>1, <1>2, <1>3, <1>4, <1>5, <1>6, <1>7, <1>8, <1>9, <1>10, <1>11, <1>12,
     <1>13, <1>14, <1>15, <1>16, <1>17, <1>18, <1>19, <1>20, <1>21, <1>22,
     <1>23, <1>24, <1>25, <1>26, <1>27, <1>28, <1>29
  DEF Next, Call, Step, RecvStep, SendStep, CloseStep, Expire, RecvCancelled,
      RecvExpired, SendBroken, SendCancelled, SendExpired

\* The RWMutex agrees with the program counters, and only the winner of the
\* CAS in Close ever waits for its write side.
LEMMA GateStep == IInv /\ [Next]_vars => GateInv'
<1> SUFFICES ASSUME IInv, [Next]_vars PROVE GateInv'
  OBVIOUS
<1> USE BaseStreamAssumption DEF IInv, TypeOK, ThreadTypeOK, GateInv, ShapeInv, InAll, HoldsGate, Closing, ReadPcs, ClosePcs, GateTypeOK
<1>1. CASE UNCHANGED vars
  BY <1>1 DEF vars
<1>2. CASE Peer
  BY <1>2 DEF Peer, PeerNext, ServerSend, ServerEnd, ServerReset, Grant
<1>3. ASSUME NEW g \in G, NEW m \in {"call", "all"}, CallRecv(g, m)
      PROVE  GateInv'
  BY <1>3 DEF CallRecv, RecvFrame
<1>4. ASSUME NEW g \in G, NEW k \in {"send", "last", "half"}, CallSend(g, k)
      PROVE  GateInv'
  BY <1>4 DEF CallSend, SendFrame
<1>5. ASSUME NEW g \in G, CloseCAS(g) PROVE GateInv'
  BY <1>5 DEF CloseCAS, CloseFrame, Back
<1>6. ASSUME NEW g \in G, BodyContinue(g) PROVE GateInv'
  BY <1>6 DEF BodyContinue, RecvFrame
<1>7. ASSUME NEW g \in G, BodyStop(g) PROVE GateInv'
  BY <1>7 DEF BodyStop, RecvFrame
<1>8. ASSUME NEW g \in G, RecvLock(g) PROVE GateInv'
  BY <1>8 DEF RecvLock, RecvFrame, RLock
<1>9. ASSUME NEW g \in G, SingleEnter(g) PROVE GateInv'
  BY <1>9 DEF SingleEnter, RecvFrame
<1>10. ASSUME NEW g \in G, RecvCheck(g) PROVE GateInv'
  BY <1>10 DEF RecvCheck, RecvFrame
<1>11. ASSUME NEW g \in G, RecvMessage(g) PROVE GateInv'
  BY <1>11 DEF RecvMessage, RecvFrame, PumpMessage, RecvFails
<1>12. ASSUME NEW g \in G, RecvEnd(g) PROVE GateInv'
  BY <1>12 DEF RecvEnd, RecvFrame, PumpEnd, RecvFails
<1>13. ASSUME NEW g \in G, RecvCtx(g) PROVE GateInv'
  BY <1>13 DEF RecvCtx, RecvFrame, RecvFails
<1>14. ASSUME NEW g \in G, Decode(g) PROVE GateInv'
  BY <1>14 DEF Decode, RecvFrame
<1>15. ASSUME NEW g \in G, CacheHeader(g) PROVE GateInv'
  BY <1>15 DEF CacheHeader, RecvFrame
<1>16. ASSUME NEW g \in G, Finish(g) PROVE GateInv'
  BY <1>16 DEF Finish, RecvFrame, Latch
<1>17. ASSUME NEW g \in G, RecvUnlock(g) PROVE GateInv'
  BY <1>17 DEF RecvUnlock, RecvFrame, RUnlock
<1>18. ASSUME NEW g \in G, LeaveRecv(g) PROVE GateInv'
  BY <1>18 DEF LeaveRecv, RecvFrame
<1>19. ASSUME NEW g \in G, SingleUnlock(g) PROVE GateInv'
  BY <1>19 DEF SingleUnlock, RecvFrame, RUnlock
<1>20. ASSUME NEW g \in G, SendCheck(g) PROVE GateInv'
  BY <1>20 DEF SendCheck, SendFrame
<1>21. ASSUME NEW g \in G, SendDone(g) PROVE GateInv'
  BY <1>21 DEF SendDone, SendFrame, SendOK
<1>22. ASSUME NEW g \in G, NEW e \in {"connClosed", "transport", "ctx"}, SendError(g, e)
      PROVE  GateInv'
  BY <1>22 DEF SendError, SendFrame, SendFail
<1>23. ASSUME NEW g \in G, LeaveSend(g) PROVE GateInv'
  BY <1>23 DEF LeaveSend, SendFrame, Back
<1>24. ASSUME NEW g \in G, CloseCancel(g) PROVE GateInv'
  BY <1>24 DEF CloseCancel, CloseFrame
<1>25. ASSUME NEW g \in G, CloseAnnounce(g) PROVE GateInv'
  BY <1>25 DEF CloseAnnounce, CloseFrame
<1>26. ASSUME NEW g \in G, CloseAwait(g) PROVE GateInv'
  BY <1>26 DEF CloseAwait, CloseFrame
<1>27. ASSUME NEW g \in G, ClosePoseidon(g) PROVE GateInv'
  BY <1>27 DEF ClosePoseidon, CloseFrame, StreamClose
<1>28. ASSUME NEW g \in G, CloseLatch(g) PROVE GateInv'
  BY <1>28 DEF CloseLatch, CloseFrame, Latch
<1>29. ASSUME NEW g \in G, CloseUnlock(g) PROVE GateInv'
  BY <1>29 DEF CloseUnlock, CloseFrame, Back
<1> HIDE DEF IInv, TypeOK, ThreadTypeOK, GateInv, ShapeInv, InAll, HoldsGate, Closing, ReadPcs, ClosePcs, GateTypeOK
<1> QED
  BY <1>1, <1>2, <1>3, <1>4, <1>5, <1>6, <1>7, <1>8, <1>9, <1>10, <1>11, <1>12,
     <1>13, <1>14, <1>15, <1>16, <1>17, <1>18, <1>19, <1>20, <1>21, <1>22,
     <1>23, <1>24, <1>25, <1>26, <1>27, <1>28, <1>29
  DEF Next, Call, Step, RecvStep, SendStep, CloseStep, Expire, RecvCancelled,
      RecvExpired, SendBroken, SendCancelled, SendExpired

\* A receive that passed the terminal check sees a running stream until it
\* leaves the gate; a closed poseidon stream has ended or is about to.
LEMMA LatchStep == IInv /\ [Next]_vars => LatchInv'
<1> SUFFICES ASSUME IInv, [Next]_vars PROVE LatchInv'
  OBVIOUS
<1> USE BaseStreamAssumption DEF IInv, TypeOK, ThreadTypeOK, LatchInv, GateInv, GuardInv, HoldsRecv, HoldsGate, Closing, ReadPcs, GuardPcs, ClosePcs, RecvPcs
<1>1. CASE UNCHANGED vars
  BY <1>1 DEF vars
<1>2. CASE Peer
  BY <1>2 DEF Peer, PeerNext, ServerSend, ServerEnd, ServerReset, Grant
<1>3. ASSUME NEW g \in G, NEW m \in {"call", "all"}, CallRecv(g, m)
      PROVE  LatchInv'
  BY <1>3 DEF CallRecv, RecvFrame
<1>4. ASSUME NEW g \in G, NEW k \in {"send", "last", "half"}, CallSend(g, k)
      PROVE  LatchInv'
  BY <1>4 DEF CallSend, SendFrame
<1>5. ASSUME NEW g \in G, CloseCAS(g) PROVE LatchInv'
  BY <1>5 DEF CloseCAS, CloseFrame, Back
<1>6. ASSUME NEW g \in G, BodyContinue(g) PROVE LatchInv'
  BY <1>6 DEF BodyContinue, RecvFrame
<1>7. ASSUME NEW g \in G, BodyStop(g) PROVE LatchInv'
  BY <1>7 DEF BodyStop, RecvFrame
<1>8. ASSUME NEW g \in G, RecvLock(g) PROVE LatchInv'
  BY <1>8 DEF RecvLock, RecvFrame, RLock
<1>9. ASSUME NEW g \in G, SingleEnter(g) PROVE LatchInv'
  BY <1>9 DEF SingleEnter, RecvFrame
<1>10. ASSUME NEW g \in G, RecvCheck(g) PROVE LatchInv'
  BY <1>10 DEF RecvCheck, RecvFrame
<1>11. ASSUME NEW g \in G, RecvMessage(g) PROVE LatchInv'
  BY <1>11 DEF RecvMessage, RecvFrame, PumpMessage, RecvFails
<1>12. ASSUME NEW g \in G, RecvEnd(g) PROVE LatchInv'
  BY <1>12 DEF RecvEnd, RecvFrame, PumpEnd, RecvFails
<1>13. ASSUME NEW g \in G, RecvCtx(g) PROVE LatchInv'
  BY <1>13 DEF RecvCtx, RecvFrame, RecvFails
<1>14. ASSUME NEW g \in G, Decode(g) PROVE LatchInv'
  BY <1>14 DEF Decode, RecvFrame
<1>15. ASSUME NEW g \in G, CacheHeader(g) PROVE LatchInv'
  BY <1>15 DEF CacheHeader, RecvFrame
<1>16. ASSUME NEW g \in G, Finish(g) PROVE LatchInv'
  BY <1>16 DEF Finish, RecvFrame, Latch
<1>17. ASSUME NEW g \in G, RecvUnlock(g) PROVE LatchInv'
  BY <1>17 DEF RecvUnlock, RecvFrame, RUnlock
<1>18. ASSUME NEW g \in G, LeaveRecv(g) PROVE LatchInv'
  BY <1>18 DEF LeaveRecv, RecvFrame
<1>19. ASSUME NEW g \in G, SingleUnlock(g) PROVE LatchInv'
  BY <1>19 DEF SingleUnlock, RecvFrame, RUnlock
<1>20. ASSUME NEW g \in G, SendCheck(g) PROVE LatchInv'
  BY <1>20 DEF SendCheck, SendFrame
<1>21. ASSUME NEW g \in G, SendDone(g) PROVE LatchInv'
  BY <1>21 DEF SendDone, SendFrame, SendOK
<1>22. ASSUME NEW g \in G, NEW e \in {"connClosed", "transport", "ctx"}, SendError(g, e)
      PROVE  LatchInv'
  BY <1>22 DEF SendError, SendFrame, SendFail
<1>23. ASSUME NEW g \in G, LeaveSend(g) PROVE LatchInv'
  BY <1>23 DEF LeaveSend, SendFrame, Back
<1>24. ASSUME NEW g \in G, CloseCancel(g) PROVE LatchInv'
  BY <1>24 DEF CloseCancel, CloseFrame
<1>25. ASSUME NEW g \in G, CloseAnnounce(g) PROVE LatchInv'
  BY <1>25 DEF CloseAnnounce, CloseFrame
<1>26. ASSUME NEW g \in G, CloseAwait(g) PROVE LatchInv'
  BY <1>26 DEF CloseAwait, CloseFrame
<1>27. ASSUME NEW g \in G, ClosePoseidon(g) PROVE LatchInv'
  BY <1>27 DEF ClosePoseidon, CloseFrame, StreamClose
<1>28. ASSUME NEW g \in G, CloseLatch(g) PROVE LatchInv'
  BY <1>28 DEF CloseLatch, CloseFrame, Latch
<1>29. ASSUME NEW g \in G, CloseUnlock(g) PROVE LatchInv'
  BY <1>29 DEF CloseUnlock, CloseFrame, Back
<1> HIDE DEF IInv, TypeOK, ThreadTypeOK, LatchInv, GateInv, GuardInv, HoldsRecv, HoldsGate, Closing, ReadPcs, GuardPcs, ClosePcs, RecvPcs
<1> QED
  BY <1>1, <1>2, <1>3, <1>4, <1>5, <1>6, <1>7, <1>8, <1>9, <1>10, <1>11, <1>12,
     <1>13, <1>14, <1>15, <1>16, <1>17, <1>18, <1>19, <1>20, <1>21, <1>22,
     <1>23, <1>24, <1>25, <1>26, <1>27, <1>28, <1>29
  DEF Next, Call, Step, RecvStep, SendStep, CloseStep, Expire, RecvCancelled,
      RecvExpired, SendBroken, SendCancelled, SendExpired

\* Which program points belong to which shape and call.
LEMMA ShapeStep == IInv /\ [Next]_vars => ShapeInv'
<1> SUFFICES ASSUME IInv, [Next]_vars PROVE ShapeInv'
  OBVIOUS
<1> USE BaseStreamAssumption DEF IInv, TypeOK, ThreadTypeOK, ShapeInv, InAll, ClosePcs, Modes
<1>1. CASE UNCHANGED vars
  BY <1>1 DEF vars
<1>2. CASE Peer
  BY <1>2 DEF Peer, PeerNext, ServerSend, ServerEnd, ServerReset, Grant
<1>3. ASSUME NEW g \in G, NEW m \in {"call", "all"}, CallRecv(g, m)
      PROVE  ShapeInv'
  BY <1>3 DEF CallRecv, RecvFrame
<1>4. ASSUME NEW g \in G, NEW k \in {"send", "last", "half"}, CallSend(g, k)
      PROVE  ShapeInv'
  BY <1>4 DEF CallSend, SendFrame
<1>5. ASSUME NEW g \in G, CloseCAS(g) PROVE ShapeInv'
  BY <1>5 DEF CloseCAS, CloseFrame, Back
<1>6. ASSUME NEW g \in G, BodyContinue(g) PROVE ShapeInv'
  BY <1>6 DEF BodyContinue, RecvFrame
<1>7. ASSUME NEW g \in G, BodyStop(g) PROVE ShapeInv'
  BY <1>7 DEF BodyStop, RecvFrame
<1>8. ASSUME NEW g \in G, RecvLock(g) PROVE ShapeInv'
  BY <1>8 DEF RecvLock, RecvFrame, RLock
<1>9. ASSUME NEW g \in G, SingleEnter(g) PROVE ShapeInv'
  BY <1>9 DEF SingleEnter, RecvFrame
<1>10. ASSUME NEW g \in G, RecvCheck(g) PROVE ShapeInv'
  BY <1>10 DEF RecvCheck, RecvFrame
<1>11. ASSUME NEW g \in G, RecvMessage(g) PROVE ShapeInv'
  BY <1>11 DEF RecvMessage, RecvFrame, PumpMessage, RecvFails
<1>12. ASSUME NEW g \in G, RecvEnd(g) PROVE ShapeInv'
  BY <1>12 DEF RecvEnd, RecvFrame, PumpEnd, RecvFails
<1>13. ASSUME NEW g \in G, RecvCtx(g) PROVE ShapeInv'
  BY <1>13 DEF RecvCtx, RecvFrame, RecvFails
<1>14. ASSUME NEW g \in G, Decode(g) PROVE ShapeInv'
  BY <1>14 DEF Decode, RecvFrame
<1>15. ASSUME NEW g \in G, CacheHeader(g) PROVE ShapeInv'
  BY <1>15 DEF CacheHeader, RecvFrame
<1>16. ASSUME NEW g \in G, Finish(g) PROVE ShapeInv'
  BY <1>16 DEF Finish, RecvFrame, Latch
<1>17. ASSUME NEW g \in G, RecvUnlock(g) PROVE ShapeInv'
  BY <1>17 DEF RecvUnlock, RecvFrame, RUnlock
<1>18. ASSUME NEW g \in G, LeaveRecv(g) PROVE ShapeInv'
  BY <1>18 DEF LeaveRecv, RecvFrame
<1>19. ASSUME NEW g \in G, SingleUnlock(g) PROVE ShapeInv'
  BY <1>19 DEF SingleUnlock, RecvFrame, RUnlock
<1>20. ASSUME NEW g \in G, SendCheck(g) PROVE ShapeInv'
  BY <1>20 DEF SendCheck, SendFrame
<1>21. ASSUME NEW g \in G, SendDone(g) PROVE ShapeInv'
  BY <1>21 DEF SendDone, SendFrame, SendOK
<1>22. ASSUME NEW g \in G, NEW e \in {"connClosed", "transport", "ctx"}, SendError(g, e)
      PROVE  ShapeInv'
  BY <1>22 DEF SendError, SendFrame, SendFail
<1>23. ASSUME NEW g \in G, LeaveSend(g) PROVE ShapeInv'
  BY <1>23 DEF LeaveSend, SendFrame, Back
<1>24. ASSUME NEW g \in G, CloseCancel(g) PROVE ShapeInv'
  BY <1>24 DEF CloseCancel, CloseFrame
<1>25. ASSUME NEW g \in G, CloseAnnounce(g) PROVE ShapeInv'
  BY <1>25 DEF CloseAnnounce, CloseFrame
<1>26. ASSUME NEW g \in G, CloseAwait(g) PROVE ShapeInv'
  BY <1>26 DEF CloseAwait, CloseFrame
<1>27. ASSUME NEW g \in G, ClosePoseidon(g) PROVE ShapeInv'
  BY <1>27 DEF ClosePoseidon, CloseFrame, StreamClose
<1>28. ASSUME NEW g \in G, CloseLatch(g) PROVE ShapeInv'
  BY <1>28 DEF CloseLatch, CloseFrame, Latch
<1>29. ASSUME NEW g \in G, CloseUnlock(g) PROVE ShapeInv'
  BY <1>29 DEF CloseUnlock, CloseFrame, Back
<1> HIDE DEF IInv, TypeOK, ThreadTypeOK, ShapeInv, InAll, ClosePcs, Modes
<1> QED
  BY <1>1, <1>2, <1>3, <1>4, <1>5, <1>6, <1>7, <1>8, <1>9, <1>10, <1>11, <1>12,
     <1>13, <1>14, <1>15, <1>16, <1>17, <1>18, <1>19, <1>20, <1>21, <1>22,
     <1>23, <1>24, <1>25, <1>26, <1>27, <1>28, <1>29
  DEF Next, Call, Step, RecvStep, SendStep, CloseStep, Expire, RecvCancelled,
      RecvExpired, SendBroken, SendCancelled, SendExpired

\* The latch tells the truth: what is latched as a clean end was the peer's
\* OK, and the snapshot is the peer's verdict.
LEMMA OutcomeStep == IInv /\ OutcomeInv /\ [Next]_vars => OutcomeInv'
<1> SUFFICES ASSUME IInv, OutcomeInv, [Next]_vars PROVE OutcomeInv'
  OBVIOUS
<1> USE BaseStreamAssumption DEF IInv, TypeOK, ThreadTypeOK, OutcomeInv, LatchInv, GuardInv,
   HoldsRecv, GuardPcs, RecvPcs, TameCodec, GoodErrs, PStatus, PTrailer
<1>1. CASE UNCHANGED vars
  BY <1>1 DEF vars
<1>2. CASE Peer
  BY <1>2 DEF Peer, PeerNext, ServerSend, ServerEnd, ServerReset, Grant
<1>3. ASSUME NEW g \in G, NEW m \in {"call", "all"}, CallRecv(g, m)
      PROVE  OutcomeInv'
  BY <1>3 DEF CallRecv, RecvFrame
<1>4. ASSUME NEW g \in G, NEW k \in {"send", "last", "half"}, CallSend(g, k)
      PROVE  OutcomeInv'
  BY <1>4 DEF CallSend, SendFrame
<1>5. ASSUME NEW g \in G, CloseCAS(g) PROVE OutcomeInv'
  BY <1>5 DEF CloseCAS, CloseFrame, Back
<1>6. ASSUME NEW g \in G, BodyContinue(g) PROVE OutcomeInv'
  BY <1>6 DEF BodyContinue, RecvFrame
<1>7. ASSUME NEW g \in G, BodyStop(g) PROVE OutcomeInv'
  BY <1>7 DEF BodyStop, RecvFrame
<1>8. ASSUME NEW g \in G, RecvLock(g) PROVE OutcomeInv'
  BY <1>8 DEF RecvLock, RecvFrame, RLock
<1>9. ASSUME NEW g \in G, SingleEnter(g) PROVE OutcomeInv'
  BY <1>9 DEF SingleEnter, RecvFrame
<1>10. ASSUME NEW g \in G, RecvCheck(g) PROVE OutcomeInv'
  BY <1>10 DEF RecvCheck, RecvFrame
<1>11. ASSUME NEW g \in G, RecvMessage(g) PROVE OutcomeInv'
  BY <1>11 DEF RecvMessage, RecvFrame, PumpMessage, RecvFails, RecvOneErr,
     DrainErr, IsEOF
<1>12. ASSUME NEW g \in G, RecvEnd(g) PROVE OutcomeInv'
  BY <1>12 DEF RecvEnd, RecvFrame, PumpEnd, RecvFails, EndErr, RecvOneErr,
     DrainErr, IsEOF
<1>13. ASSUME NEW g \in G, RecvCtx(g) PROVE OutcomeInv'
  BY <1>13 DEF RecvCtx, RecvFrame, RecvFails, RecvOneErr, DrainErr, IsEOF
<1>14. ASSUME NEW g \in G, Decode(g) PROVE OutcomeInv'
  BY <1>14 DEF Decode, RecvFrame, RecvOneErr, IsEOF, FaultErr
<1>15. ASSUME NEW g \in G, CacheHeader(g) PROVE OutcomeInv'
  BY <1>15 DEF CacheHeader, RecvFrame
<1>16. ASSUME NEW g \in G, Finish(g) PROVE OutcomeInv'
  BY <1>16 DEF Finish, RecvFrame, Latch
<1>17. ASSUME NEW g \in G, RecvUnlock(g) PROVE OutcomeInv'
  BY <1>17 DEF RecvUnlock, RecvFrame, RUnlock
<1>18. ASSUME NEW g \in G, LeaveRecv(g) PROVE OutcomeInv'
  BY <1>18 DEF LeaveRecv, RecvFrame
<1>19. ASSUME NEW g \in G, SingleUnlock(g) PROVE OutcomeInv'
  BY <1>19 DEF SingleUnlock, RecvFrame, RUnlock
<1>20. ASSUME NEW g \in G, SendCheck(g) PROVE OutcomeInv'
  BY <1>20 DEF SendCheck, SendFrame
<1>21. ASSUME NEW g \in G, SendDone(g) PROVE OutcomeInv'
  BY <1>21 DEF SendDone, SendFrame, SendOK
<1>22. ASSUME NEW g \in G, NEW e \in {"connClosed", "transport", "ctx"}, SendError(g, e)
      PROVE  OutcomeInv'
  BY <1>22 DEF SendError, SendFrame, SendFail
<1>23. ASSUME NEW g \in G, LeaveSend(g) PROVE OutcomeInv'
  BY <1>23 DEF LeaveSend, SendFrame, Back
<1>24. ASSUME NEW g \in G, CloseCancel(g) PROVE OutcomeInv'
  BY <1>24 DEF CloseCancel, CloseFrame
<1>25. ASSUME NEW g \in G, CloseAnnounce(g) PROVE OutcomeInv'
  BY <1>25 DEF CloseAnnounce, CloseFrame
<1>26. ASSUME NEW g \in G, CloseAwait(g) PROVE OutcomeInv'
  BY <1>26 DEF CloseAwait, CloseFrame
<1>27. ASSUME NEW g \in G, ClosePoseidon(g) PROVE OutcomeInv'
  BY <1>27 DEF ClosePoseidon, CloseFrame, StreamClose
<1>28. ASSUME NEW g \in G, CloseLatch(g) PROVE OutcomeInv'
  BY <1>28 DEF CloseLatch, CloseFrame, Latch
<1>29. ASSUME NEW g \in G, CloseUnlock(g) PROVE OutcomeInv'
  BY <1>29 DEF CloseUnlock, CloseFrame, Back
<1> HIDE DEF IInv, TypeOK, ThreadTypeOK, OutcomeInv, LatchInv, GuardInv,
   HoldsRecv, GuardPcs, RecvPcs, TameCodec, GoodErrs, PStatus, PTrailer
<1> QED
  BY <1>1, <1>2, <1>3, <1>4, <1>5, <1>6, <1>7, <1>8, <1>9, <1>10, <1>11, <1>12,
     <1>13, <1>14, <1>15, <1>16, <1>17, <1>18, <1>19, <1>20, <1>21, <1>22,
     <1>23, <1>24, <1>25, <1>26, <1>27, <1>28, <1>29
  DEF Next, Call, Step, RecvStep, SendStep, CloseStep, Expire, RecvCancelled,
      RecvExpired, SendBroken, SendCancelled, SendExpired

\* Only a failed send carries the error of a stream the peer has reset.
LEMMA AnswerStep == IInv /\ CountInv /\ AnswerInv /\ [Next]_vars => AnswerInv'
<1> SUFFICES ASSUME IInv, CountInv, AnswerInv, [Next]_vars PROVE AnswerInv'
  OBVIOUS
<1> USE BaseStreamAssumption DEF IInv, TypeOK, ThreadTypeOK, AnswerInv, Earned
<1>1. CASE UNCHANGED vars
  BY <1>1 DEF vars
<1>2. CASE Peer
  <2>1. (\A g \in G : err[g] = "connClosed" => pc[g] = "sdone")'
    BY <1>2 DEF Peer
  <2>2. sent' \in Nat /\ sent' >= sent /\ (peer # "open" => UNCHANGED <<peer, sent>>)
    BY <1>2 DEF Peer, PeerNext, ServerSend, ServerEnd, ServerReset, Grant, PoseidonTypeOK
  <2>3. ASSUME NEW e, Earned(e) PROVE Earned(e)'
    BY <2>2, <2>3 DEF PoseidonTypeOK
  <2>4. UNCHANGED <<termErr, sendErr, err>>
    BY <1>2 DEF Peer, PeerNext, ServerSend, ServerEnd, ServerReset, Grant
  <2> HIDE DEF Earned
  <2> QED
    BY <2>1, <2>3, <2>4
<1>3. ASSUME NEW g \in G, NEW m \in {"call", "all"}, CallRecv(g, m)
      PROVE  AnswerInv'
  BY <1>3 DEF CallRecv, RecvFrame
<1>4. ASSUME NEW g \in G, NEW k \in {"send", "last", "half"}, CallSend(g, k)
      PROVE  AnswerInv'
  BY <1>4 DEF CallSend, SendFrame
<1>5. ASSUME NEW g \in G, CloseCAS(g) PROVE AnswerInv'
  BY <1>5 DEF CloseCAS, CloseFrame, Back
<1>6. ASSUME NEW g \in G, BodyContinue(g) PROVE AnswerInv'
  BY <1>6 DEF BodyContinue, RecvFrame
<1>7. ASSUME NEW g \in G, BodyStop(g) PROVE AnswerInv'
  BY <1>7 DEF BodyStop, RecvFrame
<1>8. ASSUME NEW g \in G, RecvLock(g) PROVE AnswerInv'
  BY <1>8 DEF RecvLock, RecvFrame, RLock
<1>9. ASSUME NEW g \in G, SingleEnter(g) PROVE AnswerInv'
  BY <1>9 DEF SingleEnter, RecvFrame
<1>10. ASSUME NEW g \in G, RecvCheck(g) PROVE AnswerInv'
  BY <1>10 DEF RecvCheck, RecvFrame, LatchTypeOK, TermErrs
<1>11. ASSUME NEW g \in G, RecvMessage(g) PROVE AnswerInv'
  <2>1. Shape = "client" /\ pc[g] = "drain" => sent > 1
    BY <1>11 DEF RecvMessage, PumpMessage, CountInv, PoseidonTypeOK
  <2> QED
    BY <1>11, <2>1 DEF RecvMessage, RecvFrame, PumpMessage, RecvFails,
       RecvOneErr, DrainErr, IsEOF, ShapeInv
<1>12. ASSUME NEW g \in G, RecvEnd(g) PROVE AnswerInv'
  <2>1. Shape = "client" /\ pc[g] = "recv" => sent = 0
    <3> SUFFICES ASSUME Shape = "client", pc[g] = "recv" PROVE sent = 0
      OBVIOUS
    <3>1. ~ended /\ \A h \in G : pc[h] \notin {"decode", "header", "drain", "finish"}
      BY <1>12 DEF LatchInv, RecvPcs, GuardInv, HoldsRecv, GuardPcs
    <3> QED
      BY <1>12, <3>1 DEF RecvEnd, PumpEnd, CountInv
  <2>2. peer # "open" /\ UNCHANGED <<peer, sent, sendErr, termErr>>
    BY <1>12 DEF RecvEnd, RecvFrame, PumpEnd
  <2>3. Shape = "client" => Earned(err'[g])
    BY <1>12, <2>1, <2>2 DEF RecvEnd, RecvFails, EndErr, RecvOneErr, DrainErr,
       IsEOF, PoseidonTypeOK, PeerEnds
  <2>4. err'[g] # "connClosed"
    BY <1>12 DEF RecvEnd, RecvFails, EndErr, RecvOneErr, DrainErr, IsEOF
  <2>5. \A h \in G \ {g} : err'[h] = err[h] /\ pc'[h] = pc[h]
    BY <1>12 DEF RecvEnd, RecvFails
  <2> QED
    BY <2>2, <2>3, <2>4, <2>5
<1>13. ASSUME NEW g \in G, RecvCtx(g) PROVE AnswerInv'
  BY <1>13 DEF RecvCtx, RecvFrame, RecvFails, RecvOneErr, DrainErr, IsEOF
<1>14. ASSUME NEW g \in G, Decode(g) PROVE AnswerInv'
  BY <1>14 DEF Decode, RecvFrame, RecvOneErr, IsEOF, FaultErr
<1>15. ASSUME NEW g \in G, CacheHeader(g) PROVE AnswerInv'
  BY <1>15 DEF CacheHeader, RecvFrame
<1>16. ASSUME NEW g \in G, Finish(g) PROVE AnswerInv'
  BY <1>16 DEF Finish, RecvFrame, Latch
<1>17. ASSUME NEW g \in G, RecvUnlock(g) PROVE AnswerInv'
  BY <1>17 DEF RecvUnlock, RecvFrame, RUnlock
<1>18. ASSUME NEW g \in G, LeaveRecv(g) PROVE AnswerInv'
  BY <1>18 DEF LeaveRecv, RecvFrame
<1>19. ASSUME NEW g \in G, SingleUnlock(g) PROVE AnswerInv'
  BY <1>19 DEF SingleUnlock, RecvFrame, RUnlock
<1>20. ASSUME NEW g \in G, SendCheck(g) PROVE AnswerInv'
  BY <1>20 DEF SendCheck, SendFrame, FaultErr
<1>21. ASSUME NEW g \in G, SendDone(g) PROVE AnswerInv'
  BY <1>21 DEF SendDone, SendFrame, SendOK
<1>22. ASSUME NEW g \in G, NEW e \in {"connClosed", "transport", "ctx"}, SendError(g, e)
      PROVE  AnswerInv'
  BY <1>22 DEF SendError, SendFrame, SendFail
<1>23. ASSUME NEW g \in G, LeaveSend(g) PROVE AnswerInv'
  BY <1>23 DEF LeaveSend, SendFrame, Back
<1>24. ASSUME NEW g \in G, CloseCancel(g) PROVE AnswerInv'
  BY <1>24 DEF CloseCancel, CloseFrame
<1>25. ASSUME NEW g \in G, CloseAnnounce(g) PROVE AnswerInv'
  BY <1>25 DEF CloseAnnounce, CloseFrame
<1>26. ASSUME NEW g \in G, CloseAwait(g) PROVE AnswerInv'
  BY <1>26 DEF CloseAwait, CloseFrame
<1>27. ASSUME NEW g \in G, ClosePoseidon(g) PROVE AnswerInv'
  BY <1>27 DEF ClosePoseidon, CloseFrame, StreamClose
<1>28. ASSUME NEW g \in G, CloseLatch(g) PROVE AnswerInv'
  BY <1>28 DEF CloseLatch, CloseFrame, Latch
<1>29. ASSUME NEW g \in G, CloseUnlock(g) PROVE AnswerInv'
  BY <1>29 DEF CloseUnlock, CloseFrame, Back
<1> HIDE DEF IInv, TypeOK, ThreadTypeOK, AnswerInv, Earned
<1> QED
  BY <1>1, <1>2, <1>3, <1>4, <1>5, <1>6, <1>7, <1>8, <1>9, <1>10, <1>11, <1>12,
     <1>13, <1>14, <1>15, <1>16, <1>17, <1>18, <1>19, <1>20, <1>21, <1>22,
     <1>23, <1>24, <1>25, <1>26, <1>27, <1>28, <1>29
  DEF Next, Call, Step, RecvStep, SendStep, CloseStep, Expire, RecvCancelled,
      RecvExpired, SendBroken, SendCancelled, SendExpired

\* The client shape counts: one message, then the end of the call.
LEMMA CountStep == IInv /\ OutcomeInv /\ CountInv /\ [Next]_vars => CountInv'
<1> SUFFICES ASSUME IInv, OutcomeInv, CountInv, [Next]_vars PROVE CountInv'
  OBVIOUS
<1> USE BaseStreamAssumption DEF IInv, TypeOK, ThreadTypeOK, PoseidonTypeOK, CountInv, OneAndEnd, NoPanic, LatchInv, GuardInv,
   HoldsRecv, GuardPcs, RecvPcs
<1>1. CASE UNCHANGED vars
  BY <1>1 DEF vars
<1>2. CASE Peer
  <2>1. seen => peer # "open"
    BY DEF OutcomeInv
  <2> QED
    BY <1>2, <2>1 DEF Peer, PeerNext, ServerSend, ServerEnd, ServerReset, Grant
<1>3. ASSUME NEW g \in G, NEW m \in {"call", "all"}, CallRecv(g, m)
      PROVE  CountInv'
  BY <1>3 DEF CallRecv, RecvFrame
<1>4. ASSUME NEW g \in G, NEW k \in {"send", "last", "half"}, CallSend(g, k)
      PROVE  CountInv'
  BY <1>4 DEF CallSend, SendFrame
<1>5. ASSUME NEW g \in G, CloseCAS(g) PROVE CountInv'
  BY <1>5 DEF CloseCAS, CloseFrame, Back
<1>6. ASSUME NEW g \in G, BodyContinue(g) PROVE CountInv'
  BY <1>6 DEF BodyContinue, RecvFrame
<1>7. ASSUME NEW g \in G, BodyStop(g) PROVE CountInv'
  BY <1>7 DEF BodyStop, RecvFrame
<1>8. ASSUME NEW g \in G, RecvLock(g) PROVE CountInv'
  BY <1>8 DEF RecvLock, RecvFrame, RLock
<1>9. ASSUME NEW g \in G, SingleEnter(g) PROVE CountInv'
  BY <1>9 DEF SingleEnter, RecvFrame
<1>10. ASSUME NEW g \in G, RecvCheck(g) PROVE CountInv'
  BY <1>10 DEF RecvCheck, RecvFrame
<1>11. ASSUME NEW g \in G, RecvMessage(g) PROVE CountInv'
  BY <1>11 DEF RecvMessage, RecvFrame, PumpMessage, RecvFails, RecvOneErr,
     DrainErr, IsEOF
<1>12. ASSUME NEW g \in G, RecvEnd(g) PROVE CountInv'
  BY <1>12 DEF RecvEnd, RecvFrame, PumpEnd, RecvFails, EndErr, RecvOneErr,
     DrainErr, IsEOF
<1>13. ASSUME NEW g \in G, RecvCtx(g) PROVE CountInv'
  BY <1>13 DEF RecvCtx, RecvFrame, RecvFails, RecvOneErr, DrainErr, IsEOF
<1>14. ASSUME NEW g \in G, Decode(g) PROVE CountInv'
  BY <1>14 DEF Decode, RecvFrame, RecvOneErr, IsEOF, FaultErr
<1>15. ASSUME NEW g \in G, CacheHeader(g) PROVE CountInv'
  BY <1>15 DEF CacheHeader, RecvFrame
<1>16. ASSUME NEW g \in G, Finish(g) PROVE CountInv'
  BY <1>16 DEF Finish, RecvFrame, Latch
<1>17. ASSUME NEW g \in G, RecvUnlock(g) PROVE CountInv'
  BY <1>17 DEF RecvUnlock, RecvFrame, RUnlock
<1>18. ASSUME NEW g \in G, LeaveRecv(g) PROVE CountInv'
  BY <1>18 DEF LeaveRecv, RecvFrame
<1>19. ASSUME NEW g \in G, SingleUnlock(g) PROVE CountInv'
  BY <1>19 DEF SingleUnlock, RecvFrame, RUnlock
<1>20. ASSUME NEW g \in G, SendCheck(g) PROVE CountInv'
  BY <1>20 DEF SendCheck, SendFrame, FaultErr
<1>21. ASSUME NEW g \in G, SendDone(g) PROVE CountInv'
  BY <1>21 DEF SendDone, SendFrame, SendOK
<1>22. ASSUME NEW g \in G, NEW e \in {"connClosed", "transport", "ctx"}, SendError(g, e)
      PROVE  CountInv'
  BY <1>22 DEF SendError, SendFrame, SendFail
<1>23. ASSUME NEW g \in G, LeaveSend(g) PROVE CountInv'
  BY <1>23 DEF LeaveSend, SendFrame, Back
<1>24. ASSUME NEW g \in G, CloseCancel(g) PROVE CountInv'
  BY <1>24 DEF CloseCancel, CloseFrame
<1>25. ASSUME NEW g \in G, CloseAnnounce(g) PROVE CountInv'
  BY <1>25 DEF CloseAnnounce, CloseFrame
<1>26. ASSUME NEW g \in G, CloseAwait(g) PROVE CountInv'
  BY <1>26 DEF CloseAwait, CloseFrame
<1>27. ASSUME NEW g \in G, ClosePoseidon(g) PROVE CountInv'
  BY <1>27 DEF ClosePoseidon, CloseFrame, StreamClose
<1>28. ASSUME NEW g \in G, CloseLatch(g) PROVE CountInv'
  BY <1>28 DEF CloseLatch, CloseFrame, Latch
<1>29. ASSUME NEW g \in G, CloseUnlock(g) PROVE CountInv'
  BY <1>29 DEF CloseUnlock, CloseFrame, Back
<1> HIDE DEF IInv, TypeOK, ThreadTypeOK, PoseidonTypeOK, CountInv, OneAndEnd, NoPanic, LatchInv, GuardInv,
   HoldsRecv, GuardPcs, RecvPcs
<1> QED
  BY <1>1, <1>2, <1>3, <1>4, <1>5, <1>6, <1>7, <1>8, <1>9, <1>10, <1>11, <1>12,
     <1>13, <1>14, <1>15, <1>16, <1>17, <1>18, <1>19, <1>20, <1>21, <1>22,
     <1>23, <1>24, <1>25, <1>26, <1>27, <1>28, <1>29
  DEF Next, Call, Step, RecvStep, SendStep, CloseStep, Expire, RecvCancelled,
      RecvExpired, SendBroken, SendCancelled, SendExpired

\* The inductive invariant holds of a stream its constructor returned.
LEMMA InvInit == Init => IInv /\ OutcomeInv /\ AnswerInv /\ CountInv
<1> SUFFICES ASSUME Init PROVE IInv /\ OutcomeInv /\ AnswerInv /\ CountInv
  OBVIOUS
<1>1. TypeOK
  BY TypeInit
<1>2. GuardInv
  BY DEF Init, GuardInv, HoldsRecv, InAll, GuardPcs, SendPcs
<1>3. GateInv
  BY BaseStreamAssumption
  DEF Init, GateInv, HoldsGate, Closing, ReadPcs, ClosePcs
<1>4. LatchInv
  BY DEF Init, PoseidonInit, LatchInv, RecvPcs, Closing, ClosePcs
<1>5. ShapeInv
  BY DEF Init, ShapeInv, ClosePcs
<1>6. OutcomeInv
  BY DEF Init, PoseidonInit, OutcomeInv
<1>7. AnswerInv
  BY DEF Init, PoseidonInit, AnswerInv, Earned
<1>8. CountInv
  BY DEF Init, PoseidonInit, CountInv
<1> QED
  BY <1>1, <1>2, <1>3, <1>4, <1>5, <1>6, <1>7, <1>8 DEF IInv

\* The inductive invariant: guards, gate, latch and outcome of baseStream,
\* for any number of goroutines calling any operations in any order.
THEOREM Invariance == Spec => [](IInv /\ OutcomeInv /\ AnswerInv /\ CountInv)
<1> DEFINE Inv == IInv /\ OutcomeInv /\ AnswerInv /\ CountInv
<1>1. Inv /\ [Next]_vars => Inv'
  BY TypeStep, GuardStep, GateStep, LatchStep, ShapeStep, OutcomeStep, AnswerStep, CountStep
  DEF IInv
<1> QED
  BY <1>1, InvInit, PTL DEF Spec

\* Every field of baseStream and sendSide stays in its range, whatever the
\* goroutines, the peer and the codec do; a refused receive and a failed send are
\* never latched.
THEOREM TypeCorrect == Spec => []TypeOK
<1>1. IInv => TypeOK
  BY DEF IInv
<1> QED
  BY <1>1, Invariance, PTL

\* recvBusy and the gate protect poseidon: its receive state has one user
\* at a time, and none while Close is inside it (stream.go:15-28,
\* streams.go:58-70 and 364-395).
THEOREM SingleReceiver == Spec => []NoRecvRace
<1>1. IInv => NoRecvRace
  BY BaseStreamAssumption
  DEF IInv, NoRecvRace, Receiving, GuardInv, GateInv, HoldsRecv, HoldsGate,
         GuardPcs, ReadPcs, RecvPcs, TypeOK, GateTypeOK
<1> QED
  BY <1>1, Invariance, PTL

\* A receive that has waited at the gate while Close ran finds the stream ended
\* there (streams.go:61-66), and never drives the one that Close has closed.
THEOREM NoneAfterClose == Spec => []NoRecvAfterClose
<1>1. IInv => NoRecvAfterClose
  BY BaseStreamAssumption DEF IInv, NoRecvAfterClose, LatchInv, GateInv,
     HoldsGate, RecvPcs, ReadPcs
<1> QED
  BY <1>1, Invariance, PTL

\* sendBusy protects the send scratch and poseidon's send
\* (streams.go:80-99).
THEOREM OneSender == Spec => []NoSendRace
<1>1. IInv => NoSendRace
  BY DEF IInv, NoSendRace, GuardInv, SendPcs
<1> QED
  BY <1>1, Invariance, PTL

\* No path out of any operation, panics included, leaves a guard or a lock
\* behind (the deferred calls of streams.go).
THEOREM NothingLeaks == Spec => []NothingHeldWhenIdle
<1>1. IInv => NothingHeldWhenIdle
  BY DEF IInv, NothingHeldWhenIdle, GuardInv, GateInv, ShapeInv, HoldsRecv,
         HoldsGate, InAll, GuardPcs, SendPcs, ReadPcs, TypeOK, GateTypeOK, FlagTypeOK
<1> QED
  BY <1>1, Invariance, PTL

\* Close by the goroutine that iterates never waits for a receive: All
\* closes before it releases the guard (streams.go:247-257).
THEOREM IteratorCloses == Spec => []IteratorCloseDoesNotWait
<1>1. IInv => IteratorCloseDoesNotWait
  <2> SUFFICES ASSUME IInv, NEW g \in G, InAll(g), pc[g] = "await", NEW h \in readers
               PROVE FALSE
    BY DEF IteratorCloseDoesNotWait
  <2>1. h \in G /\ pc[h] \in ReadPcs
    BY DEF IInv, TypeOK, GateTypeOK, GateInv
  <2>2. Shape # "client"
    BY DEF IInv, ShapeInv, InAll
  <2>3. HoldsRecv(g) /\ HoldsRecv(h)
    BY <2>1, <2>2 DEF IInv, ShapeInv, HoldsRecv, ReadPcs, GuardPcs
  <2> QED
    BY <2>1, <2>3 DEF IInv, GuardInv, ReadPcs
<1> QED
  BY <1>1, Invariance, PTL

\* Status() reports OK for an ended stream only if the peer said OK,
\* provided the codec never fails with io.EOF in its chain and, on the
\* client shape, never panics (stream.go:142-155). Without the proviso it
\* is false: see the runs ClientPanic and ServerCodecEOF.
THEOREM StatusIsHonest == TameCodec => (Spec => []NoFalseOK)
<1> SUFFICES ASSUME TameCodec PROVE Spec => []NoFalseOK
  OBVIOUS
<1>1. IInv /\ OutcomeInv => NoFalseOK
  <2> SUFFICES ASSUME IInv, OutcomeInv, ended, Status = "OK"
               PROVE seen /\ peer = "ok" /\ avail = 0
    BY DEF NoFalseOK
  <2>1. termErr \in GoodErrs
    BY DEF Status, StatusOf, IsEOF, GoodErrs
  <2> QED
    BY <2>1 DEF OutcomeInv
<1> QED
  BY <1>1, Invariance, PTL

\* The peer's status and trailers are saved by whoever reads the end of the
\* call (finish, stream.go:117-129).
THEOREM VerdictKept == Spec => []VerdictIsKept
<1>1. OutcomeInv => VerdictIsKept
  BY DEF OutcomeInv, VerdictIsKept
<1> QED
  BY <1>1, Invariance, PTL

\* A client-streaming call that ends without an error carried exactly one
\* response (recvSingle's drain, streams.go:357-363), provided the codec does
\* not panic: a panic latches "no error" (see the run ClientPanic).
THEOREM OneResponse == NoPanic => (Spec => []ExactlyOneResponse)
<1> SUFFICES ASSUME NoPanic PROVE Spec => []ExactlyOneResponse
  OBVIOUS
<1>1. CountInv => ExactlyOneResponse
  BY DEF CountInv, OneAndEnd, ExactlyOneResponse
<1> QED
  BY <1>1, Invariance, PTL

\* SendLastAndRecv and CloseAndRecv deliver the answer of a server that answered
\* with one message and OK, and never report the reset that may follow it
\* instead (sendTolerant and recvSingle, stream.go:300-318).
THEOREM AnswerKept == Spec => AnswerIsNotLost
<1>1. IInv /\ AnswerInv /\ [Next]_vars =>
        [\A g \in G : mode[g] = "single" /\ mode'[g] = "call" => err[g] # "connClosed"]_vars
  <2> SUFFICES ASSUME IInv, AnswerInv, Next, NEW h \in G, mode[h] = "single",
                      mode'[h] = "call", err[h] = "connClosed"
               PROVE  FALSE
    OBVIOUS
  <2>1. pc[h] = "sdone"
    BY DEF AnswerInv
  <2> USE <2>1 DEF IInv, TypeOK, ThreadTypeOK
  <2>2. ASSUME Peer PROVE FALSE
    BY <2>2 DEF Peer
  <2>3. ASSUME NEW g \in G, NEW m \in {"call", "all"}, CallRecv(g, m)
        PROVE  FALSE
    BY <2>3 DEF CallRecv, RecvFrame
  <2>4. ASSUME NEW g \in G, NEW k \in {"send", "last", "half"}, CallSend(g, k)
        PROVE  FALSE
    BY <2>4 DEF CallSend, SendFrame
  <2>5. ASSUME NEW g \in G, CloseCAS(g) PROVE FALSE
    BY <2>5 DEF CloseCAS, CloseFrame
  <2>6. ASSUME NEW g \in G, BodyContinue(g) PROVE FALSE
    BY <2>6 DEF BodyContinue, RecvFrame
  <2>7. ASSUME NEW g \in G, BodyStop(g) PROVE FALSE
    BY <2>7 DEF BodyStop, RecvFrame
  <2>8. ASSUME NEW g \in G, RecvLock(g) PROVE FALSE
    BY <2>8 DEF RecvLock, RecvFrame
  <2>9. ASSUME NEW g \in G, SingleEnter(g) PROVE FALSE
    BY <2>9 DEF SingleEnter, RecvFrame
  <2>10. ASSUME NEW g \in G, RecvCheck(g) PROVE FALSE
    BY <2>10 DEF RecvCheck, RecvFrame
  <2>11. ASSUME NEW g \in G, RecvMessage(g) PROVE FALSE
    BY <2>11 DEF RecvMessage, RecvFrame
  <2>12. ASSUME NEW g \in G, RecvEnd(g) PROVE FALSE
    BY <2>12 DEF RecvEnd, RecvFrame
  <2>13. ASSUME NEW g \in G, RecvCtx(g) PROVE FALSE
    BY <2>13 DEF RecvCtx, RecvFrame
  <2>14. ASSUME NEW g \in G, Decode(g) PROVE FALSE
    BY <2>14 DEF Decode, RecvFrame
  <2>15. ASSUME NEW g \in G, CacheHeader(g) PROVE FALSE
    BY <2>15 DEF CacheHeader, RecvFrame
  <2>16. ASSUME NEW g \in G, Finish(g) PROVE FALSE
    BY <2>16 DEF Finish, RecvFrame
  <2>17. ASSUME NEW g \in G, RecvUnlock(g) PROVE FALSE
    BY <2>17 DEF RecvUnlock, RecvFrame
  <2>18. ASSUME NEW g \in G, LeaveRecv(g) PROVE FALSE
    BY <2>18 DEF LeaveRecv, RecvFrame
  <2>19. ASSUME NEW g \in G, SingleUnlock(g) PROVE FALSE
    BY <2>19 DEF SingleUnlock, RecvFrame
  <2>20. ASSUME NEW g \in G, SendCheck(g) PROVE FALSE
    BY <2>20 DEF SendCheck, SendFrame
  <2>21. ASSUME NEW g \in G, SendDone(g) PROVE FALSE
    BY <2>21 DEF SendDone, SendFrame
  <2>22. ASSUME NEW g \in G, NEW e \in {"connClosed", "transport", "ctx"}, SendError(g, e)
        PROVE  FALSE
    BY <2>22 DEF SendError, SendFrame
  <2>23. ASSUME NEW g \in G, LeaveSend(g) PROVE FALSE
    BY <2>23 DEF LeaveSend, SendFrame, SendTolerant
  <2>24. ASSUME NEW g \in G, CloseCancel(g) PROVE FALSE
    BY <2>24 DEF CloseCancel, CloseFrame
  <2>25. ASSUME NEW g \in G, CloseAnnounce(g) PROVE FALSE
    BY <2>25 DEF CloseAnnounce, CloseFrame
  <2>26. ASSUME NEW g \in G, CloseAwait(g) PROVE FALSE
    BY <2>26 DEF CloseAwait, CloseFrame
  <2>27. ASSUME NEW g \in G, ClosePoseidon(g) PROVE FALSE
    BY <2>27 DEF ClosePoseidon, CloseFrame
  <2>28. ASSUME NEW g \in G, CloseLatch(g) PROVE FALSE
    BY <2>28 DEF CloseLatch, CloseFrame
  <2>29. ASSUME NEW g \in G, CloseUnlock(g) PROVE FALSE
    BY <2>29 DEF CloseUnlock, CloseFrame
  <2> QED
    BY <2>2, <2>3, <2>4, <2>5, <2>6, <2>7, <2>8, <2>9, <2>10, <2>11, <2>12,
       <2>13, <2>14, <2>15, <2>16, <2>17, <2>18, <2>19, <2>20, <2>21, <2>22,
       <2>23, <2>24, <2>25, <2>26, <2>27, <2>28, <2>29
    DEF Next, Call, Step, RecvStep, SendStep, CloseStep, Expire, RecvCancelled,
        RecvExpired, SendBroken, SendCancelled, SendExpired
<1>2. ASSUME IInv, AnswerInv, NEW g \in G, mode[g] = "single", peer = "ok", sent = 1,
             err[g] # "connClosed"
      PROVE  err[g] \in {"nil", "EOF"} \cup OwnErrs
  <2>1. Earned(err[g]) /\ err[g] \in Errs
    BY <1>2 DEF IInv, ShapeInv, AnswerInv, TypeOK, ThreadTypeOK
  <2> QED
    BY <1>2, <2>1 DEF Earned, Errs, OwnErrs
<1>3. IInv /\ AnswerInv /\ [Next]_vars =>
        [\A g \in G : mode[g] = "single" /\ mode'[g] = "call" => AnswerDelivered(g)]_vars
  BY <1>1, <1>2 DEF AnswerDelivered
<1> QED
  BY <1>3, Invariance, PTL DEF Spec, AnswerIsNotLost

\* Every step of Streams is a step of ReceiveContract or invisible to it.
LEMMA ContractStep == IInv /\ [Next]_vars => [Contract!Next]_(Contract!vars)
<1> SUFFICES ASSUME IInv, [Next]_vars
      PROVE  Contract!Next \/ UNCHANGED Contract!vars
  OBVIOUS
<1> DEFINE Users == {h \in G : Receiving(h)}
<1> DEFINE Outcome == IF ended THEN termErr ELSE "running"
<1> USE BaseStreamAssumption DEF IInv, TypeOK, ThreadTypeOK, Receiving, RecvPcs
\* Most steps are invisible: they move no goroutine into or out of poseidon's
\* receive state and leave the latch and the poseidon stream alone.
<1>a. ASSUME \A h \in G : Receiving(h)' <=> Receiving(h),
             UNCHANGED <<psClosed, ended, termErr>>
      PROVE  UNCHANGED Contract!vars
  BY <1>a DEF Contract!vars
\* A goroutine that holds the guard outside poseidon, or the gate for
\* writing, knows that nobody is inside.
<1>b. ASSUME NEW g \in G, HoldsRecv(g), ~Receiving(g) PROVE Users = {}
  BY <1>b DEF GuardInv, HoldsRecv, GuardPcs
<1>c. ASSUME NEW g \in G, HoldsGate(g) PROVE Users = {}
  BY <1>c DEF GateInv, ReadPcs
<1>d. ASSUME NEW g \in G, Receiving(g) PROVE Users = {g} /\ ~ended
  BY <1>d DEF GuardInv, HoldsRecv, GuardPcs, LatchInv
<1>1. CASE UNCHANGED vars
  BY <1>1, <1>a DEF vars
<1>2. CASE Peer
  BY <1>2, <1>a DEF Peer, PeerNext, ServerSend, ServerEnd, ServerReset, Grant
<1>3. ASSUME NEW g \in G, NEW m \in {"call", "all"}, CallRecv(g, m)
      PROVE  Contract!Next \/ UNCHANGED Contract!vars
  BY <1>3, <1>a, <1>d DEF CallRecv, RecvFrame
<1>4. ASSUME NEW g \in G, NEW k \in {"send", "last", "half"}, CallSend(g, k)
      PROVE  Contract!Next \/ UNCHANGED Contract!vars
  BY <1>4, <1>a, <1>d DEF CallSend, SendFrame
<1>5. ASSUME NEW g \in G, CloseCAS(g)
      PROVE  Contract!Next \/ UNCHANGED Contract!vars
  BY <1>5, <1>a, <1>d DEF CloseCAS, CloseFrame, Back
<1>6. ASSUME NEW g \in G, BodyContinue(g)
      PROVE  Contract!Next \/ UNCHANGED Contract!vars
  BY <1>6, <1>a, <1>d DEF BodyContinue, RecvFrame
<1>7. ASSUME NEW g \in G, BodyStop(g)
      PROVE  Contract!Next \/ UNCHANGED Contract!vars
  BY <1>7, <1>a, <1>d DEF BodyStop, RecvFrame
<1>8. ASSUME NEW g \in G, RecvLock(g)
      PROVE  Contract!Next \/ UNCHANGED Contract!vars
  BY <1>8, <1>a, <1>d DEF RecvLock, RecvFrame, RLock
<1>9. ASSUME NEW g \in G, SingleEnter(g)
      PROVE  Contract!Next \/ UNCHANGED Contract!vars
  BY <1>9, <1>a, <1>d DEF SingleEnter, RecvFrame
<1>10. ASSUME NEW g \in G, RecvCheck(g)
      PROVE  Contract!Next \/ UNCHANGED Contract!vars
  <2>1. CASE ended
    BY <1>10, <2>1, <1>a DEF RecvCheck, RecvFrame
  <2>2. CASE ~ended
    <3>1. Users = {} /\ ~psClosed
      BY <1>10, <2>2, <1>b DEF RecvCheck, HoldsRecv, GuardPcs, LatchInv,
         GateInv, ReadPcs, HoldsGate
    <3>2. Users' = {g}
      BY <1>10, <2>2, <3>1 DEF RecvCheck
    <3>3. Contract!Begin(g)
      BY <1>10, <2>2, <3>1, <3>2 DEF RecvCheck, Contract!Begin
    <3> QED
      BY <3>3 DEF Contract!Next
  <2> QED
    BY <2>1, <2>2
<1>11. ASSUME NEW g \in G, RecvMessage(g)
      PROVE  Contract!Next \/ UNCHANGED Contract!vars
  BY <1>11, <1>a, <1>d DEF RecvMessage, RecvFrame, PumpMessage, RecvFails
<1>12. ASSUME NEW g \in G, RecvEnd(g)
      PROVE  Contract!Next \/ UNCHANGED Contract!vars
  BY <1>12, <1>a, <1>d DEF RecvEnd, RecvFrame, PumpEnd, RecvFails
<1>13. ASSUME NEW g \in G, RecvCtx(g)
      PROVE  Contract!Next \/ UNCHANGED Contract!vars
  BY <1>13, <1>a, <1>d DEF RecvCtx, RecvFrame, RecvFails
<1>14. ASSUME NEW g \in G, Decode(g)
      PROVE  Contract!Next \/ UNCHANGED Contract!vars
  <2>1. CASE pc'[g] \in {"header", "finish"}
    BY <1>14, <2>1, <1>a, <1>d DEF Decode, RecvFrame
  <2>2. CASE pc'[g] = "runlock"
    <3>1. Users = {g} /\ Users' = {}
      BY <1>14, <2>2, <1>d DEF Decode
    <3>2. Contract!Return(g)
      BY <1>14, <3>1 DEF Decode, Contract!Return
    <3> QED
      BY <3>2 DEF Contract!Next
  <2> QED
    BY <1>14, <2>1, <2>2 DEF Decode
<1>15. ASSUME NEW g \in G, CacheHeader(g)
      PROVE  Contract!Next \/ UNCHANGED Contract!vars
  <2>1. CASE Shape = "client"
    BY <1>15, <2>1, <1>a DEF CacheHeader, RecvFrame
  <2>2. CASE Shape # "client"
    <3>1. Users = {g} /\ Users' = {}
      BY <1>15, <2>2, <1>d DEF CacheHeader
    <3>2. Contract!Return(g)
      BY <1>15, <3>1 DEF CacheHeader, Contract!Return
    <3> QED
      BY <3>2 DEF Contract!Next
  <2> QED
    BY <2>1, <2>2
<1>16. ASSUME NEW g \in G, Finish(g)
      PROVE  Contract!Next \/ UNCHANGED Contract!vars
  <2>1. CASE ended
    BY <1>16, <2>1, <1>a DEF Finish, Latch
  <2>2. CASE ~ended
    <3>1. Users = {g} /\ Users' = {}
      BY <1>16, <2>2, <1>d DEF Finish, Latch
    <3>2. ended' /\ termErr' \in Errs /\ UNCHANGED psClosed
      BY <1>16, <2>2 DEF Finish, Latch, Errs
    <3>3. Contract!Finish(g)
      BY <2>2, <3>1, <3>2 DEF Contract!Finish
    <3> QED
      BY <3>3 DEF Contract!Next
  <2> QED
    BY <2>1, <2>2
<1>17. ASSUME NEW g \in G, RecvUnlock(g)
      PROVE  Contract!Next \/ UNCHANGED Contract!vars
  BY <1>17, <1>a, <1>d DEF RecvUnlock, RecvFrame, RUnlock
<1>18. ASSUME NEW g \in G, LeaveRecv(g)
      PROVE  Contract!Next \/ UNCHANGED Contract!vars
  BY <1>18, <1>a, <1>d DEF LeaveRecv, RecvFrame
<1>19. ASSUME NEW g \in G, SingleUnlock(g)
      PROVE  Contract!Next \/ UNCHANGED Contract!vars
  BY <1>19, <1>a, <1>d DEF SingleUnlock, RecvFrame, RUnlock
<1>20. ASSUME NEW g \in G, SendCheck(g)
      PROVE  Contract!Next \/ UNCHANGED Contract!vars
  BY <1>20, <1>a, <1>d DEF SendCheck, SendFrame
<1>21. ASSUME NEW g \in G, SendDone(g)
      PROVE  Contract!Next \/ UNCHANGED Contract!vars
  BY <1>21, <1>a, <1>d DEF SendDone, SendFrame, SendOK
<1>22. ASSUME NEW g \in G, NEW e \in {"connClosed", "transport", "ctx"}, SendError(g, e)
      PROVE  Contract!Next \/ UNCHANGED Contract!vars
  BY <1>22, <1>a, <1>d DEF SendError, SendFrame, SendFail
<1>23. ASSUME NEW g \in G, LeaveSend(g)
      PROVE  Contract!Next \/ UNCHANGED Contract!vars
  BY <1>23, <1>a, <1>d DEF LeaveSend, SendFrame, Back
<1>24. ASSUME NEW g \in G, CloseCancel(g)
      PROVE  Contract!Next \/ UNCHANGED Contract!vars
  BY <1>24, <1>a, <1>d DEF CloseCancel, CloseFrame
<1>25. ASSUME NEW g \in G, CloseAnnounce(g)
      PROVE  Contract!Next \/ UNCHANGED Contract!vars
  BY <1>25, <1>a, <1>d DEF CloseAnnounce, CloseFrame
<1>26. ASSUME NEW g \in G, CloseAwait(g)
      PROVE  Contract!Next \/ UNCHANGED Contract!vars
  BY <1>26, <1>a, <1>d DEF CloseAwait, CloseFrame
<1>27. ASSUME NEW g \in G, ClosePoseidon(g)
      PROVE  Contract!Next \/ UNCHANGED Contract!vars
  <2>1. Users = {} /\ Users' = {}
    BY <1>27, <1>c DEF ClosePoseidon, HoldsGate, CloseFrame
  <2>2. ~psClosed /\ psClosed' /\ UNCHANGED <<ended, termErr>>
    BY <1>27 DEF ClosePoseidon, StreamClose, LatchInv, Closing, ClosePcs
  <2>3. Contract!Shut
    BY <2>1, <2>2 DEF Contract!Shut
  <2> QED
    BY <2>3 DEF Contract!Next
<1>28. ASSUME NEW g \in G, CloseLatch(g)
      PROVE  Contract!Next \/ UNCHANGED Contract!vars
  <2>1. CASE ended
    BY <1>28, <2>1, <1>a DEF CloseLatch, Latch
  <2>2. CASE ~ended
    <3>1. Users = {} /\ Users' = {}
      BY <1>28, <2>2, <1>c DEF CloseLatch, Latch, HoldsGate
    <3>2. psClosed /\ psClosed' /\ ended' /\ termErr' = "streamClosed"
      BY <1>28, <2>2 DEF CloseLatch, Latch, LatchInv, GateInv, Closing, ClosePcs
    <3>3. Contract!Abandon
      BY <2>2, <3>1, <3>2 DEF Contract!Abandon, Errs
    <3> QED
      BY <3>3 DEF Contract!Next
  <2> QED
    BY <2>1, <2>2
<1>29. ASSUME NEW g \in G, CloseUnlock(g)
      PROVE  Contract!Next \/ UNCHANGED Contract!vars
  BY <1>29, <1>a, <1>d DEF CloseUnlock, CloseFrame, Back
<1> HIDE DEF IInv, TypeOK, ThreadTypeOK, Receiving, RecvPcs
\* Most steps are invisible: they move no goroutine into or out of poseidon's
\* receive state and leave the latch and the poseidon stream alone.
<1> QED
  BY <1>1, <1>2, <1>3, <1>4, <1>5, <1>6, <1>7, <1>8, <1>9, <1>10, <1>11, <1>12,
     <1>13, <1>14, <1>15, <1>16, <1>17, <1>18, <1>19, <1>20, <1>21, <1>22,
     <1>23, <1>24, <1>25, <1>26, <1>27, <1>28, <1>29
  DEF Next, Call, Step, RecvStep, SendStep, CloseStep, Expire, RecvCancelled,
      RecvExpired, SendBroken, SendCancelled, SendExpired

\* The locks, guards and latch implement the contract of ReceiveContract:
\* one receiver, Close apart from it, one outcome.
THEOREM Refinement == Spec => ImplementsContract
<1>1. Init => Contract!Init
  BY DEF Init, PoseidonInit, Contract!Init, Receiving, RecvPcs
<1> QED
  BY <1>1, ContractStep, Invariance, PTL DEF Spec, ImplementsContract,
     Contract!Spec
=============================================================================
