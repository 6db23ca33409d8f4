---------------------------- MODULE CallsProofs -----------------------------
(***************************************************************************)
(* Proofs about Calls, for every set of Callers and of calls, any shapes,  *)
(* codec faults and number of slots.                                       *)
(*                                                                         *)
(* GuardFollowsCall is inductive with the types; that a scratch holds the  *)
(* request of the call that sends from it needs it.  That nothing is left  *)
(* behind needs to know, for every program point, what a call of its shape *)
(* may hold there (HoldingInv): an invariant only as long as no panic      *)
(* unwinds past an open stream (TameSetup).                                *)
(***************************************************************************)
EXTENDS Calls, TLAPS

USE DEF Goto, Wire, Guarded

\* No step takes a variable out of its range.
LEMMA TypeStep == TypeOK /\ [Next]_vars => TypeOK'
<1> SUFFICES ASSUME TypeOK, [Next]_vars PROVE TypeOK'
  OBVIOUS
<1> USE CallsAssumption DEF TypeOK, Pcs, Scratches
<1>1. CASE UNCHANGED vars
  BY <1>1 DEF vars
<1>2. ASSUME NEW c \in Calls, Enter(c) PROVE TypeOK'
  <2>1. pc' \in [Calls -> Pcs]
    BY <1>2 DEF Enter
  <2>2. guard' \in [Callers -> BOOLEAN]
    <3>1. CASE guard' = guard
      BY <3>1
    <3>2. CASE guard' = [guard EXCEPT ![Face[c]] = TRUE]
      BY <3>2, Zenon
    <3> QED
      BY <1>2, <3>1, <3>2 DEF Enter
  <2> QED
    BY <1>2, <2>1, <2>2 DEF Enter
<1>3. ASSUME NEW c \in Calls, Resolve(c) PROVE TypeOK'
  BY <1>3 DEF Resolve
<1>4. ASSUME NEW c \in Calls, Leave(c) PROVE TypeOK'
  BY <1>4 DEF Leave
<1>5. ASSUME NEW c \in Calls, Derive(c) PROVE TypeOK'
  BY <1>5 DEF Derive
<1>6. ASSUME NEW c \in Calls, NewStream(c) PROVE TypeOK'
  BY <1>6 DEF NewStream, TakeSlot
<1>7. ASSUME NEW c \in Calls, NewStreamFails(c) PROVE TypeOK'
  BY <1>7 DEF NewStreamFails
<1>8. ASSUME NEW c \in Calls, Marshal(c) PROVE TypeOK'
  BY <1>8 DEF Marshal
<1>9. ASSUME NEW c \in Calls, SendLast(c) PROVE TypeOK'
  BY <1>9 DEF SendLast
<1>10. ASSUME NEW c \in Calls, FetchHeader(c) PROVE TypeOK'
  BY <1>10 DEF FetchHeader
<1>11. ASSUME NEW c \in Calls, AbortClose(c) PROVE TypeOK'
  BY <1>11 DEF AbortClose, FreeSlot
<1>12. ASSUME NEW c \in Calls, AbortCancel(c) PROVE TypeOK'
  BY <1>12 DEF AbortCancel
<1>13. ASSUME NEW c \in Calls, Invoke(c) PROVE TypeOK'
  BY <1>13 DEF Invoke, TakeSlot
<1>14. ASSUME NEW c \in Calls, InvokeAnswered(c) PROVE TypeOK'
  BY <1>14 DEF InvokeAnswered, FreeSlot
<1>15. ASSUME NEW c \in Calls, Unmarshal(c) PROVE TypeOK'
  BY <1>15 DEF Unmarshal
<1>16. ASSUME NEW c \in Calls, SetupFails(c) PROVE TypeOK'
  BY <1>16 DEF SetupFails
<1>17. ASSUME NEW c \in Calls, InvokeFails(c) PROVE TypeOK'
  BY <1>17 DEF InvokeFails, FreeSlot
<1>18. ASSUME NEW c \in Calls, CloseStream(c) PROVE TypeOK'
  BY <1>18 DEF CloseStream, FreeSlot
<1>19. ASSUME NEW c \in Calls, ServerAnswer(c) PROVE TypeOK'
  BY <1>19 DEF ServerAnswer
<1> QED
  BY <1>1, <1>2, <1>3, <1>4, <1>5, <1>6, <1>7, <1>8, <1>9, <1>10,
     <1>11, <1>12, <1>13, <1>14, <1>15, <1>16, <1>17, <1>18, <1>19 DEF Next, Step, Fail

\* A call that enters finds no other on its Caller, and takes the guard with
\* it; the call that leaves is the one that holds it (errors.go:124-135).
LEMMA GuardStep == TypeOK /\ GuardFollowsCall /\ [Next]_vars => GuardFollowsCall'
<1> SUFFICES ASSUME TypeOK, GuardFollowsCall, [Next]_vars PROVE GuardFollowsCall'
  OBVIOUS
<1> USE CallsAssumption DEF TypeOK, GuardFollowsCall
<1>1. CASE UNCHANGED vars
  BY <1>1 DEF vars
<1>2. ASSUME NEW c \in Calls, Enter(c) PROVE GuardFollowsCall'
  BY <1>2, SMTT(30) DEF Enter
<1>3. ASSUME NEW c \in Calls, Resolve(c) PROVE GuardFollowsCall'
  BY <1>3 DEF Resolve
<1>4. ASSUME NEW c \in Calls, Leave(c) PROVE GuardFollowsCall'
  BY <1>4 DEF Leave
<1>5. ASSUME NEW c \in Calls, Derive(c) PROVE GuardFollowsCall'
  BY <1>5 DEF Derive
<1>6. ASSUME NEW c \in Calls, NewStream(c) PROVE GuardFollowsCall'
  BY <1>6 DEF NewStream, TakeSlot
<1>7. ASSUME NEW c \in Calls, NewStreamFails(c) PROVE GuardFollowsCall'
  BY <1>7 DEF NewStreamFails
<1>8. ASSUME NEW c \in Calls, Marshal(c) PROVE GuardFollowsCall'
  BY <1>8 DEF Marshal
<1>9. ASSUME NEW c \in Calls, SendLast(c) PROVE GuardFollowsCall'
  BY <1>9 DEF SendLast
<1>10. ASSUME NEW c \in Calls, FetchHeader(c) PROVE GuardFollowsCall'
  BY <1>10 DEF FetchHeader
<1>11. ASSUME NEW c \in Calls, AbortClose(c) PROVE GuardFollowsCall'
  BY <1>11 DEF AbortClose, FreeSlot
<1>12. ASSUME NEW c \in Calls, AbortCancel(c) PROVE GuardFollowsCall'
  BY <1>12 DEF AbortCancel
<1>13. ASSUME NEW c \in Calls, Invoke(c) PROVE GuardFollowsCall'
  BY <1>13 DEF Invoke, TakeSlot
<1>14. ASSUME NEW c \in Calls, InvokeAnswered(c) PROVE GuardFollowsCall'
  BY <1>14 DEF InvokeAnswered, FreeSlot
<1>15. ASSUME NEW c \in Calls, Unmarshal(c) PROVE GuardFollowsCall'
  BY <1>15 DEF Unmarshal
<1>16. ASSUME NEW c \in Calls, SetupFails(c) PROVE GuardFollowsCall'
  BY <1>16 DEF SetupFails
<1>17. ASSUME NEW c \in Calls, InvokeFails(c) PROVE GuardFollowsCall'
  BY <1>17 DEF InvokeFails, FreeSlot
<1>18. ASSUME NEW c \in Calls, CloseStream(c) PROVE GuardFollowsCall'
  BY <1>18 DEF CloseStream, FreeSlot
<1>19. ASSUME NEW c \in Calls, ServerAnswer(c) PROVE GuardFollowsCall'
  BY <1>19 DEF ServerAnswer
<1> QED
  BY <1>1, <1>2, <1>3, <1>4, <1>5, <1>6, <1>7, <1>8, <1>9, <1>10,
     <1>11, <1>12, <1>13, <1>14, <1>15, <1>16, <1>17, <1>18, <1>19 DEF Next, Step, Fail

\* Only the call that holds the guard writes into its Caller's scratch.
LEMMA RequestStep == TypeOK /\ GuardFollowsCall /\ OwnRequestOnTheWire /\ [Next]_vars => OwnRequestOnTheWire'
<1> SUFFICES ASSUME TypeOK, GuardFollowsCall, OwnRequestOnTheWire, [Next]_vars PROVE OwnRequestOnTheWire'
  OBVIOUS
<1> USE CallsAssumption DEF TypeOK, Scratches, GuardFollowsCall, OwnRequestOnTheWire
<1>1. CASE UNCHANGED vars
  BY <1>1 DEF vars
<1>2. ASSUME NEW c \in Calls, Enter(c) PROVE OwnRequestOnTheWire'
  BY <1>2 DEF Enter
<1>3. ASSUME NEW c \in Calls, Resolve(c) PROVE OwnRequestOnTheWire'
  BY <1>3 DEF Resolve
<1>4. ASSUME NEW c \in Calls, Leave(c) PROVE OwnRequestOnTheWire'
  BY <1>4 DEF Leave
<1>5. ASSUME NEW c \in Calls, Derive(c) PROVE OwnRequestOnTheWire'
  BY <1>5 DEF Derive
<1>6. ASSUME NEW c \in Calls, NewStream(c) PROVE OwnRequestOnTheWire'
  BY <1>6 DEF NewStream, TakeSlot
<1>7. ASSUME NEW c \in Calls, NewStreamFails(c) PROVE OwnRequestOnTheWire'
  BY <1>7 DEF NewStreamFails
<1>8. ASSUME NEW c \in Calls, Marshal(c) PROVE OwnRequestOnTheWire'
  BY <1>8 DEF Marshal
<1>9. ASSUME NEW c \in Calls, SendLast(c) PROVE OwnRequestOnTheWire'
  BY <1>9 DEF SendLast
<1>10. ASSUME NEW c \in Calls, FetchHeader(c) PROVE OwnRequestOnTheWire'
  BY <1>10 DEF FetchHeader
<1>11. ASSUME NEW c \in Calls, AbortClose(c) PROVE OwnRequestOnTheWire'
  BY <1>11 DEF AbortClose, FreeSlot
<1>12. ASSUME NEW c \in Calls, AbortCancel(c) PROVE OwnRequestOnTheWire'
  BY <1>12 DEF AbortCancel
<1>13. ASSUME NEW c \in Calls, Invoke(c) PROVE OwnRequestOnTheWire'
  BY <1>13 DEF Invoke, TakeSlot
<1>14. ASSUME NEW c \in Calls, InvokeAnswered(c) PROVE OwnRequestOnTheWire'
  BY <1>14 DEF InvokeAnswered, FreeSlot
<1>15. ASSUME NEW c \in Calls, Unmarshal(c) PROVE OwnRequestOnTheWire'
  BY <1>15 DEF Unmarshal
<1>16. ASSUME NEW c \in Calls, SetupFails(c) PROVE OwnRequestOnTheWire'
  BY <1>16 DEF SetupFails
<1>17. ASSUME NEW c \in Calls, InvokeFails(c) PROVE OwnRequestOnTheWire'
  BY <1>17 DEF InvokeFails, FreeSlot
<1>18. ASSUME NEW c \in Calls, CloseStream(c) PROVE OwnRequestOnTheWire'
  BY <1>18 DEF CloseStream, FreeSlot
<1>19. ASSUME NEW c \in Calls, ServerAnswer(c) PROVE OwnRequestOnTheWire'
  BY <1>19 DEF ServerAnswer
<1> QED
  BY <1>1, <1>2, <1>3, <1>4, <1>5, <1>6, <1>7, <1>8, <1>9, <1>10,
     <1>11, <1>12, <1>13, <1>14, <1>15, <1>16, <1>17, <1>18, <1>19 DEF Next, Step, Fail

\* NewServerStream returns through fetchHeader alone (streams.go:182-196).
LEMMA HeaderStep == TypeOK /\ HeaderInv /\ [Next]_vars => HeaderInv'
<1> SUFFICES ASSUME TypeOK, HeaderInv, [Next]_vars PROVE HeaderInv'
  OBVIOUS
<1> USE CallsAssumption DEF TypeOK, HeaderInv
<1>1. CASE UNCHANGED vars
  BY <1>1 DEF vars
<1>2. ASSUME NEW c \in Calls, Enter(c) PROVE HeaderInv'
  BY <1>2 DEF Enter
<1>3. ASSUME NEW c \in Calls, Resolve(c) PROVE HeaderInv'
  BY <1>3 DEF Resolve
<1>4. ASSUME NEW c \in Calls, Leave(c) PROVE HeaderInv'
  BY <1>4 DEF Leave
<1>5. ASSUME NEW c \in Calls, Derive(c) PROVE HeaderInv'
  BY <1>5 DEF Derive
<1>6. ASSUME NEW c \in Calls, NewStream(c) PROVE HeaderInv'
  BY <1>6 DEF NewStream, TakeSlot
<1>7. ASSUME NEW c \in Calls, NewStreamFails(c) PROVE HeaderInv'
  BY <1>7 DEF NewStreamFails
<1>8. ASSUME NEW c \in Calls, Marshal(c) PROVE HeaderInv'
  BY <1>8 DEF Marshal
<1>9. ASSUME NEW c \in Calls, SendLast(c) PROVE HeaderInv'
  BY <1>9 DEF SendLast
<1>10. ASSUME NEW c \in Calls, FetchHeader(c) PROVE HeaderInv'
  BY <1>10 DEF FetchHeader
<1>11. ASSUME NEW c \in Calls, AbortClose(c) PROVE HeaderInv'
  BY <1>11 DEF AbortClose, FreeSlot
<1>12. ASSUME NEW c \in Calls, AbortCancel(c) PROVE HeaderInv'
  BY <1>12 DEF AbortCancel
<1>13. ASSUME NEW c \in Calls, Invoke(c) PROVE HeaderInv'
  BY <1>13 DEF Invoke, TakeSlot
<1>14. ASSUME NEW c \in Calls, InvokeAnswered(c) PROVE HeaderInv'
  BY <1>14 DEF InvokeAnswered, FreeSlot
<1>15. ASSUME NEW c \in Calls, Unmarshal(c) PROVE HeaderInv'
  BY <1>15 DEF Unmarshal
<1>16. ASSUME NEW c \in Calls, SetupFails(c) PROVE HeaderInv'
  BY <1>16 DEF SetupFails
<1>17. ASSUME NEW c \in Calls, InvokeFails(c) PROVE HeaderInv'
  BY <1>17 DEF InvokeFails, FreeSlot
<1>18. ASSUME NEW c \in Calls, CloseStream(c) PROVE HeaderInv'
  BY <1>18 DEF CloseStream, FreeSlot
<1>19. ASSUME NEW c \in Calls, ServerAnswer(c) PROVE HeaderInv'
  BY <1>19 DEF ServerAnswer
<1> QED
  BY <1>1, <1>2, <1>3, <1>4, <1>5, <1>6, <1>7, <1>8, <1>9, <1>10,
     <1>11, <1>12, <1>13, <1>14, <1>15, <1>16, <1>17, <1>18, <1>19 DEF Next, Step, Fail

\* Every slot and every context has a call that will give it back.
LEMMA HoldingStep == TypeOK /\ TameSetup /\ HoldingInv /\ [Next]_vars => HoldingInv'
<1> SUFFICES ASSUME TypeOK, TameSetup, HoldingInv, [Next]_vars PROVE HoldingInv'
  OBVIOUS
<1> USE CallsAssumption DEF TypeOK, HoldingInv, TameSetup, Kinds
<1>1. CASE UNCHANGED vars
  BY <1>1 DEF vars
<1>2. ASSUME NEW c \in Calls, Enter(c) PROVE HoldingInv'
  BY <1>2 DEF Enter
<1>3. ASSUME NEW c \in Calls, Resolve(c) PROVE HoldingInv'
  BY <1>3 DEF Resolve
<1>4. ASSUME NEW c \in Calls, Leave(c) PROVE HoldingInv'
  BY <1>4 DEF Leave
<1>5. ASSUME NEW c \in Calls, Derive(c) PROVE HoldingInv'
  BY <1>5 DEF Derive
<1>6. ASSUME NEW c \in Calls, NewStream(c) PROVE HoldingInv'
  BY <1>6 DEF NewStream, TakeSlot
<1>7. ASSUME NEW c \in Calls, NewStreamFails(c) PROVE HoldingInv'
  BY <1>7 DEF NewStreamFails
<1>8. ASSUME NEW c \in Calls, Marshal(c) PROVE HoldingInv'
  BY <1>8 DEF Marshal
<1>9. ASSUME NEW c \in Calls, SendLast(c) PROVE HoldingInv'
  BY <1>9 DEF SendLast
<1>10. ASSUME NEW c \in Calls, FetchHeader(c) PROVE HoldingInv'
  BY <1>10 DEF FetchHeader
<1>11. ASSUME NEW c \in Calls, AbortClose(c) PROVE HoldingInv'
  BY <1>11 DEF AbortClose, FreeSlot
<1>12. ASSUME NEW c \in Calls, AbortCancel(c) PROVE HoldingInv'
  BY <1>12 DEF AbortCancel
<1>13. ASSUME NEW c \in Calls, Invoke(c) PROVE HoldingInv'
  BY <1>13 DEF Invoke, TakeSlot
<1>14. ASSUME NEW c \in Calls, InvokeAnswered(c) PROVE HoldingInv'
  BY <1>14 DEF InvokeAnswered, FreeSlot
<1>15. ASSUME NEW c \in Calls, Unmarshal(c) PROVE HoldingInv'
  BY <1>15 DEF Unmarshal
<1>16. ASSUME NEW c \in Calls, SetupFails(c) PROVE HoldingInv'
  BY <1>16 DEF SetupFails
<1>17. ASSUME NEW c \in Calls, InvokeFails(c) PROVE HoldingInv'
  BY <1>17 DEF InvokeFails, FreeSlot
<1>18. ASSUME NEW c \in Calls, CloseStream(c) PROVE HoldingInv'
  BY <1>18 DEF CloseStream, FreeSlot
<1>19. ASSUME NEW c \in Calls, ServerAnswer(c) PROVE HoldingInv'
  BY <1>19 DEF ServerAnswer
<1> QED
  BY <1>1, <1>2, <1>3, <1>4, <1>5, <1>6, <1>7, <1>8, <1>9, <1>10,
     <1>11, <1>12, <1>13, <1>14, <1>15, <1>16, <1>17, <1>18, <1>19 DEF Next, Step, Fail

\* Nothing has started.
LEMMA InvInit == Init => IInv
<1> SUFFICES ASSUME Init PROVE IInv
  OBVIOUS
<1> USE DEF Init
<1>1. TypeOK
  BY CallsAssumption DEF TypeOK, Pcs, Scratches
<1>2. GuardFollowsCall
  BY CallsAssumption DEF GuardFollowsCall
<1>3. OwnRequestOnTheWire /\ HeaderInv /\ HoldingInv
  BY DEF OwnRequestOnTheWire, HeaderInv, HoldingInv
<1> QED
  BY <1>1, <1>2, <1>3 DEF IInv

\* The invariant of call setup: who holds a guard, a scratch, a slot and a
\* context at every step of every shape's constructor and of Unary.
THEOREM CallsInvariance == Spec => []IInv
<1>1. IInv /\ [Next]_vars => IInv'
  BY TypeStep, GuardStep, RequestStep, HeaderStep, HoldingStep DEF IInv, TameSetup
<1> QED
  BY InvInit, <1>1, PTL DEF Spec

\* Guards, scratches, slots and contexts keep their types.
THEOREM CallsTypeCorrect == Spec => []TypeOK
<1>1. IInv => TypeOK
  BY DEF IInv
<1> QED
  BY <1>1, CallsInvariance, PTL

\* A Guard (errors.go:117-135) is held exactly while one of its Caller's
\* methods runs, and no two run at once.
THEOREM GuardIsExact == Spec => []GuardFollowsCall
<1>1. IInv => GuardFollowsCall
  BY DEF IInv
<1> QED
  BY <1>1, CallsInvariance, PTL

\* What Unary and NewServerStream send from a Caller's scratch (unary.go:61-71,
\* streams.go:174-184) is the request of the call that sends it.
THEOREM OwnRequest == Spec => []OwnRequestOnTheWire
<1>1. IInv => OwnRequestOnTheWire
  BY DEF IInv
<1> QED
  BY <1>1, CallsInvariance, PTL

\* A server stream that was handed out has its header cached
\* (stream.go:176-188).
THEOREM HeaderIsCached == Spec => []EagerHeader
<1>1. IInv => EagerHeader
  BY DEF IInv, HeaderInv, EagerHeader
<1> QED
  BY <1>1, CallsInvariance, PTL

\* "On failure it leaves nothing behind" (stream.go:258-262), with a codec that
\* does not panic while a server stream is set up.
THEOREM NoLeak == TameSetup => (Spec => []NothingLeftBehind)
<1> SUFFICES ASSUME TameSetup PROVE Spec => []NothingLeftBehind
  OBVIOUS
<1>1. IInv => NothingLeftBehind
  BY DEF IInv, HoldingInv, NothingLeftBehind
<1> QED
  BY <1>1, CallsInvariance, PTL
=============================================================================
