------------------------------ MODULE Streams -------------------------------
(***************************************************************************)
(* pgrpc/streams.go: the operations of ServerStream, ClientStream and      *)
(* BidiStream over baseStream, called in any order by the goroutines in G. *)
(* A deferred call is a step of the path every exit takes, a panicking     *)
(* codec's included.                                                       *)
(***************************************************************************)
EXTENDS BaseStream

-----------------------------------------------------------------------------
(* Receiving: Recv and All of the server and bidi shapes take the guard    *)
(* and then the gate; recvSingle of the client shape takes the gate and    *)
(* then the guard.  Between them the steps are the same.                   *)

RecvFrame == UNCHANGED <<closed, cancelled, sendVars>>

\* Mutant of CallRecv: no guard.
CallRecvUnguarded(g, m) ==
  /\ UserCode(g)
  /\ Shape \in {"server", "bidi"}
  /\ recvBusy' = TRUE
  /\ mode' = [mode EXCEPT ![g] = m]
  /\ Goto(g, "rlock")
  /\ RecvFrame /\ UNCHANGED <<psVars, err, gateVars, latchVars, hdrDone>>

\* Recv, or an iteration of All (m = "all"): enterRecv.  The CAS fails while
\* another receive is in flight: ErrRecvInFlight, and nothing has happened.
CallRecv(g, m) ==
  /\ UserCode(g)
  /\ Shape \in {"server", "bidi"}
  /\ IF recvBusy THEN UNCHANGED <<pc, mode, recvBusy>>
     ELSE /\ recvBusy' = TRUE
          /\ mode' = [mode EXCEPT ![g] = m]
          /\ Goto(g, "rlock")
  /\ RecvFrame /\ UNCHANGED <<psVars, err, gateVars, latchVars, hdrDone>>

\* gate.RLock().
RecvLock(g) ==
  /\ pc[g] \in {"rlock", "srlock"}
  /\ RLock(g)
  /\ Goto(g, IF pc[g] = "rlock" THEN "check" ELSE "senter")
  /\ RecvFrame /\ UNCHANGED <<psVars, mode, err, recvBusy, latchVars, hdrDone>>

\* Mutants of SingleEnter: finish is deferred before the guard is asked for, so
\* that a refused receive ends the stream; no guard.
SingleEnterLatches(g) ==
  /\ pc[g] = "senter"
  /\ IF recvBusy
     THEN /\ SetErr(g, "recvInFlight") /\ Latch("recvInFlight")
          /\ Goto(g, "srunlock") /\ UNCHANGED recvBusy
     ELSE Goto(g, "check") /\ recvBusy' = TRUE /\ UNCHANGED <<err, latchVars>>
  /\ RecvFrame /\ UNCHANGED <<psVars, mode, gateVars, hdrDone>>
SingleEnterUnguarded(g) ==
  /\ pc[g] = "senter"
  /\ Goto(g, "check") /\ recvBusy' = TRUE
  /\ RecvFrame /\ UNCHANGED <<psVars, mode, err, gateVars, latchVars, hdrDone>>

\* recvSingle: enterRecv under the gate.
SingleEnter(g) ==
  /\ pc[g] = "senter"
  /\ IF recvBusy
     THEN SetErr(g, "recvInFlight") /\ Goto(g, "srunlock") /\ UNCHANGED recvBusy
     ELSE Goto(g, "check") /\ recvBusy' = TRUE /\ UNCHANGED err
  /\ RecvFrame /\ UNCHANGED <<psVars, mode, gateVars, latchVars, hdrDone>>

\* Mutant of RecvCheck: terminal() is not asked.
RecvUnchecked(g) ==
  /\ pc[g] = "check"
  /\ Goto(g, "recv")
  /\ RecvFrame
  /\ UNCHANGED <<psVars, mode, err, gateVars, recvBusy, latchVars, hdrDone>>

\* terminal(): an ended stream answers from the latch, and poseidon is not
\* touched.  recvSingle's deferred finish runs all the same.
RecvCheck(g) ==
  /\ pc[g] = "check"
  /\ IF ended
     THEN /\ SetErr(g, IF termErr = "nil" THEN "EOF" ELSE termErr)
          /\ Goto(g, IF Shape = "client" THEN "finish" ELSE "runlock")
     ELSE Goto(g, "recv") /\ UNCHANGED err
  /\ RecvFrame
  /\ UNCHANGED <<psVars, mode, gateVars, recvBusy, latchVars, hdrDone>>

\* The error a failed recvOne becomes: recvSingle takes io.EOF for a call that
\* completed without a message.
RecvOneErr(e) == IF Shape = "client" /\ IsEOF(e) THEN "noMessage" ELSE e

\* recvSingle's drain: io.EOF is what it hopes for, a message is one too many.
DrainErr(e) == IF e = "EOF" THEN "nil" ELSE e

RecvFails(g, e) ==
  /\ SetErr(g, IF pc[g] = "recv" THEN RecvOneErr(e) ELSE DrainErr(e))
  /\ Goto(g, "finish")

RecvMessage(g) ==
  /\ pc[g] \in {"recv", "drain"}
  /\ PumpMessage
  /\ IF pc[g] = "recv" THEN Goto(g, "decode") /\ UNCHANGED err
     ELSE RecvFails(g, "tooMany")
  /\ RecvFrame /\ UNCHANGED <<mode, gateVars, recvBusy, latchVars, hdrDone>>

RecvEnd(g) ==
  /\ pc[g] \in {"recv", "drain"}
  /\ PumpEnd
  /\ RecvFails(g, EndErr)
  /\ RecvFrame /\ UNCHANGED <<mode, gateVars, recvBusy, latchVars, hdrDone>>

RecvCtx(g) ==
  /\ pc[g] \in {"recv", "drain"}
  /\ RecvFails(g, "ctx")
  /\ RecvFrame
  /\ UNCHANGED <<psVars, mode, gateVars, recvBusy, latchVars, hdrDone>>

\* The receive's context is done: Close has cancelled the one it derives
\* from, or it expired by itself.
RecvCancelled(g) == cancelled /\ g \notin PrivRecv /\ RecvCtx(g)
RecvExpired(g) == RecvCtx(g)

\* Mutant of Decode: nothing is deferred, a panic leaves everything held.
DecodeNoDefer(g) ==
  /\ pc[g] = "decode"
  /\ \/ Goto(g, "header") /\ UNCHANGED <<err, mode>>
     \/ /\ "panic" \in CodecFaults
        /\ Goto(g, "idle") /\ mode' = [mode EXCEPT ![g] = "call"]
        /\ UNCHANGED err
  /\ RecvFrame
  /\ UNCHANGED <<psVars, gateVars, recvBusy, latchVars, hdrDone>>

\* codec.Unmarshal.  A panic runs the deferred calls only: recvSingle's
\* finish is one of them, recvGatedInto's is not.
Decode(g) ==
  /\ pc[g] = "decode"
  /\ \/ Goto(g, "header") /\ UNCHANGED err
     \/ \E f \in CodecFaults :
          /\ SetErr(g, RecvOneErr(FaultErr(f)))
          /\ Goto(g, IF f = "panic" /\ Shape # "client" THEN "runlock" ELSE "finish")
  /\ RecvFrame
  /\ UNCHANGED <<psVars, mode, gateVars, recvBusy, latchVars, hdrDone>>

\* Mutant of CacheHeader: recvSingle does not drain.
CacheHeaderNoDrain(g) ==
  /\ pc[g] = "header"
  /\ hdrDone' \in {hdrDone, TRUE}
  /\ Goto(g, IF Shape = "client" THEN "finish" ELSE "runlock")
  /\ RecvFrame /\ UNCHANGED <<psVars, mode, err, gateVars, recvBusy, latchVars>>

\* cacheHeader: poseidon has seen the block by now, so it does not block.  The
\* block is kept unless Header fails, whose error is dropped.
CacheHeader(g) ==
  /\ pc[g] = "header"
  /\ hdrDone' \in {hdrDone, TRUE}
  /\ Goto(g, IF Shape = "client" THEN "drain" ELSE "runlock")
  /\ RecvFrame /\ UNCHANGED <<psVars, mode, err, gateVars, recvBusy, latchVars>>

\* finish(err).  recvSingle's named result is still nil when a panic unwinds.
Finish(g) ==
  /\ pc[g] = "finish"
  /\ Latch(IF err[g] = "panic" THEN "nil" ELSE err[g])
  /\ Goto(g, IF Shape = "client" THEN "sleave" ELSE "runlock")
  /\ RecvFrame /\ UNCHANGED <<psVars, mode, err, gateVars, recvBusy, hdrDone>>

-----------------------------------------------------------------------------
(* Leaving a receive.                                                      *)

\* recvGatedInto's deferred RUnlock, and what its caller does with the result:
\* All stops on io.EOF, yields an error as its last value, yields a message.
RecvUnlock(g) ==
  /\ pc[g] = "runlock"
  /\ RUnlock(g)
  /\ SetErr(g, "nil")
  /\ IF mode[g] = "call" THEN Goto(g, "leave") /\ UNCHANGED mode
     ELSE IF IsEOF(err[g]) \/ err[g] = "panic"
     THEN /\ mode' = [mode EXCEPT ![g] = "exit"]
          /\ Goto(g, IF Shape = "server" THEN "cas" ELSE "leave")
     ELSE /\ mode' = [mode EXCEPT ![g] = IF err[g] = "nil" THEN "all" ELSE "last"]
          /\ Goto(g, "body")
  /\ RecvFrame /\ UNCHANGED <<psVars, recvBusy, latchVars, hdrDone>>

\* The loop body of All asks for the next message ...
BodyContinue(g) ==
  /\ pc[g] = "body" /\ mode[g] = "all"
  /\ Goto(g, "rlock")
  /\ RecvFrame
  /\ UNCHANGED <<psVars, mode, err, gateVars, recvBusy, latchVars, hdrDone>>

\* Mutant of BodyStop: the guard is released before the stream is closed.
BodyStopLeavesFirst(g) ==
  /\ pc[g] = "body"
  /\ mode' = [mode EXCEPT ![g] = "exit"]
  /\ Goto(g, IF Shape = "server" THEN "cas" ELSE "leave")
  /\ recvBusy' = FALSE
  /\ RecvFrame /\ UNCHANGED <<psVars, err, gateVars, latchVars, hdrDone>>

\* ... or breaks, returns or panics: All's deferred function runs, which on
\* the server shape closes the stream BEFORE it releases the guard.
BodyStop(g) ==
  /\ pc[g] = "body"
  /\ mode' = [mode EXCEPT ![g] = "exit"]
  /\ Goto(g, IF Shape = "server" THEN "cas" ELSE "leave")
  /\ RecvFrame
  /\ UNCHANGED <<psVars, err, gateVars, recvBusy, latchVars, hdrDone>>

\* leaveRecv, the last step of Recv and All and the last but one of recvSingle.
LeaveRecv(g) ==
  /\ pc[g] \in {"leave", "sleave"}
  /\ recvBusy' = FALSE
  /\ IF pc[g] = "leave"
     THEN Goto(g, "idle") /\ mode' = [mode EXCEPT ![g] = "call"]
     ELSE Goto(g, "srunlock") /\ UNCHANGED mode
  /\ RecvFrame /\ UNCHANGED <<psVars, err, gateVars, latchVars, hdrDone>>

SingleUnlock(g) ==
  /\ pc[g] = "srunlock"
  /\ RUnlock(g)
  /\ Goto(g, "idle")
  /\ SetErr(g, "nil")
  /\ mode' = [mode EXCEPT ![g] = "call"]
  /\ RecvFrame /\ UNCHANGED <<psVars, recvBusy, latchVars, hdrDone>>

-----------------------------------------------------------------------------
(* Sending, which never touches the gate.                                  *)

SendFrame == UNCHANGED <<closed, cancelled, gateVars, recvBusy, latchVars, hdrDone>>

\* Mutant of CallSend: no guard.
CallSendUnguarded(g, k) ==
  /\ UserCode(g)
  /\ Shape \in {"client", "bidi"}
  /\ sendBusy' = TRUE
  /\ op' = [op EXCEPT ![g] = k]
  /\ mode' = IF Shape = "client" /\ k # "send"
             THEN [mode EXCEPT ![g] = "single"] ELSE mode
  /\ Goto(g, "scheck")
  /\ SendFrame /\ UNCHANGED <<psVars, err, sendClosed>>

\* enterSend, which fails while another send is in flight.  On the client
\* shape SendLast and CloseSend exist only as the first half of
\* SendLastAndRecv and CloseAndRecv.
CallSend(g, k) ==
  /\ UserCode(g)
  /\ Shape \in {"client", "bidi"}
  /\ IF sendBusy THEN UNCHANGED <<pc, mode, sendBusy, op>>
     ELSE /\ sendBusy' = TRUE
          /\ op' = [op EXCEPT ![g] = k]
          /\ mode' = IF Shape = "client" /\ k # "send"
                     THEN [mode EXCEPT ![g] = "single"] ELSE mode
          /\ Goto(g, "scheck")
  /\ SendFrame /\ UNCHANGED <<psVars, err, sendClosed>>

\* The early returns of doSend and doCloseSend, then codec.MarshalAppend
\* (there is nothing to marshal for a half-close).
SendCheck(g) ==
  /\ pc[g] = "scheck"
  /\ \/ closed /\ SetErr(g, "streamClosed") /\ Goto(g, "sdone")
     \/ /\ ~closed /\ sendClosed
        /\ SetErr(g, IF op[g] = "half" THEN "nil" ELSE "sendClosed")
        /\ Goto(g, "sdone")
     \/ ~closed /\ ~sendClosed /\ Goto(g, "send") /\ UNCHANGED err
     \/ /\ ~closed /\ ~sendClosed /\ op[g] # "half"
        /\ \E f \in CodecFaults : SetErr(g, FaultErr(f))
        /\ Goto(g, "sdone")
  /\ SendFrame /\ UNCHANGED <<psVars, mode, sendVars>>

SendDone(g) ==
  /\ pc[g] = "send"
  /\ SendOK(IF op[g] = "half" THEN 0 ELSE 1)
  /\ sendClosed' = (sendClosed \/ op[g] # "send")
  /\ Goto(g, "sdone")
  /\ SendFrame /\ UNCHANGED <<mode, err, sendBusy, op>>

\* The send fails; a failure does not set sendClosed.
SendError(g, e) ==
  /\ pc[g] = "send"
  /\ SendFail(e)
  /\ SetErr(g, e)
  /\ Goto(g, "sdone")
  /\ SendFrame /\ UNCHANGED <<mode, sendVars>>

SendBroken(g) == \E e \in {"connClosed", "transport", "ctx"} :
                   (e = "ctx" => sendErr # "nil") /\ SendError(g, e)
SendCancelled(g) == cancelled /\ g \notin PrivSend /\ SendError(g, "ctx")
SendExpired(g) == SendError(g, "ctx")

\* Mutant of SendTolerant: every send failure ends the call.
SendIntolerant(e) == e

\* The send failures after which a complete answer may still be waiting on
\* the receive side.
SendTolerant(e) == IF e = "connClosed" THEN "nil" ELSE e

\* leaveSend; SendLastAndRecv and CloseAndRecv go on to recvSingle unless the
\* send failed for good.
LeaveSend(g) ==
  /\ pc[g] = "sdone"
  /\ sendBusy' = FALSE
  /\ op' = [op EXCEPT ![g] = "none"]
  /\ SetErr(g, "nil")
  /\ IF mode[g] = "single"
     THEN IF SendTolerant(err[g]) = "nil"
          THEN Goto(g, "srlock") /\ UNCHANGED mode
          ELSE Goto(g, "idle") /\ mode' = [mode EXCEPT ![g] = "call"]
     ELSE Goto(g, Back(g)) /\ UNCHANGED mode
  /\ SendFrame /\ UNCHANGED <<psVars, sendClosed>>

-----------------------------------------------------------------------------
\* What user code may start or end.
Call(g) == \/ "recv" \in Roles[g] /\ \E m \in {"call", "all"} : CallRecv(g, m)
           \/ "send" \in Roles[g] /\ \E k \in {"send", "last", "half"} :
                                       CallSend(g, k)
           \/ "close" \in Roles[g] /\ UserCode(g) /\ CloseCAS(g)
           \/ BodyContinue(g) \/ BodyStop(g)

\* What a goroutine inside an operation does next.
RecvStep(g) == \/ RecvLock(g) \/ SingleEnter(g) \/ RecvCheck(g)
               \/ RecvMessage(g) \/ RecvEnd(g) \/ RecvCancelled(g)
               \/ Decode(g) \/ CacheHeader(g) \/ Finish(g)
               \/ RecvUnlock(g) \/ LeaveRecv(g) \/ SingleUnlock(g)

SendStep(g) == \/ SendCheck(g) \/ SendDone(g) \/ SendBroken(g)
               \/ SendCancelled(g) \/ LeaveSend(g)

CloseStep(g) == \/ pc[g] = "cas" /\ CloseCAS(g)
                \/ CloseCancel(g) \/ CloseAnnounce(g) \/ CloseAwait(g)
                \/ ClosePoseidon(g) \/ CloseLatch(g) \/ CloseUnlock(g)

Step(g) == RecvStep(g) \/ SendStep(g) \/ CloseStep(g)

\* A deadline of the operation's own context.
Expire(g) == RecvExpired(g) \/ SendExpired(g)

Peer == PeerNext /\ UNCHANGED <<pc, mode, err, closed, cancelled, gateVars,
                                recvBusy, sendVars, latchVars, hdrDone>>

Next == Peer \/ \E g \in G : Call(g) \/ Step(g) \/ Expire(g)

Spec == Init /\ [][Next]_vars

\* Goroutines that are inside an operation keep running; nothing is assumed
\* of user code, of the peer, or of a deadline ever passing.
FairSpec == Spec /\ \A g \in G : WF_vars(Step(g))

-----------------------------------------------------------------------------
(* Properties.                                                             *)

\* g drives poseidon's receive state or the stream's receive scratch.
Receiving(g) == pc[g] \in RecvPcs \/ (pc[g] = "finish" /\ ~ended)

\* recvBusy and the gate together (stream.go:15-28): at most one goroutine
\* drives poseidon's unguarded receive state, and none does while Close is in
\* poseidon's Close or snapshots its status.
NoRecvRace ==
  \A g, h \in G : Receiving(g) =>
    /\ Receiving(h) => g = h
    /\ pc[h] \notin {"pclose", "latch"}

\* The terminal check under the gate (streams.go:61, 373): a receive that was
\* waiting for the gate while Close ran does not reach the closed stream.
NoRecvAfterClose == psClosed => \A g \in G : pc[g] \notin RecvPcs

\* sendBusy (streams.go:92-99): marshalling into the shared send buffer and
\* poseidon's send are never entered twice.
NoSendRace ==
  \A g, h \in G : {pc[g], pc[h]} \subseteq {"scheck", "send"} => g = h

\* No exit from an operation, an error or a codec's panic included, leaves a
\* guard or a lock behind (stream.go:111-112).
NothingHeldWhenIdle ==
  (\A g \in G : pc[g] = "idle") =>
    ~recvBusy /\ ~sendBusy /\ readers = {} /\ pending = NoG /\ writer = NoG

\* Close from the receiving goroutine, in the loop body of All or in its
\* deferred function, never waits for a reader (stream.go:230-232 and the
\* order of Close and leaveRecv at streams.go:255-256).
IteratorCloseDoesNotWait ==
  \A g \in G : InAll(g) /\ pc[g] = "await" => readers = {}

\* Status "CANNOT report a false OK" (stream.go:131): an ended stream says OK
\* only if the peer declared OK and every response before that was received.
NoFalseOK == ended /\ Status = "OK" => seen /\ peer = "ok" /\ avail = 0

\* recvSingle's drain (streams.go:357-363): a client-streaming call that ends
\* without an error carried exactly one response.
ExactlyOneResponse ==
  Shape = "client" /\ ended /\ termErr = "nil" => sent = 1 /\ avail = 0

\* The end of the call is read from poseidon once; whoever reads it saves the
\* peer's status and trailers (stream.go:117-129) even if Close is waiting.
VerdictIsKept ==
  seen => \/ \E g \in G : pc[g] = "finish"
          \/ ended /\ termStatus = PStatus /\ trailer = PTrailer

\* Why a call may fail for its caller although the server answered it: its own
\* context, codec or Close, or an operation called out of turn.  A codec error
\* with io.EOF in its chain passes for a missing message.
OwnErrs ==
  {"ctx", "codec", "streamClosed", "sendClosed", "recvInFlight", "panic"}
    \cup (IF "eof" \in CodecFaults THEN {"codecEOF", "noMessage"} ELSE {})

\* SendLastAndRecv or CloseAndRecv of g, in its last step, gives g the answer
\* (or says that an earlier call took it), unless g has itself to blame.
AnswerDelivered(g) ==
  /\ err[g] # "connClosed"
  /\ peer = "ok" /\ sent = 1 => err[g] \in {"nil", "EOF"} \cup OwnErrs

\* sendTolerant and recvSingle (stream.go:300-318, streams.go:331-397): the
\* reset that may follow a complete answer is never reported instead of it, and
\* a call the server answered with one message and OK delivers that answer,
\* whatever became of the request side and whoever else uses the stream.
AnswerIsNotLost ==
  [][\A g \in G : mode[g] = "single" /\ mode'[g] = "call"
                    => AnswerDelivered(g)]_vars

\* A receive driven with a private context is not woken by Close's cancel
\* (stream.go:236-240): only its own deadline ends it.
DeadlinesPass == \A g \in PrivRecv : WF_vars(RecvExpired(g))

\* Close returns (stream.go:221-240): it waits only for receives, which its
\* own cancel wakes when they use a context derived from Context(), and which
\* their deadlines end when they do not.
CloseReturns ==
  DeadlinesPass => (closed ~> [](\A g \in G : pc[g] \notin ClosePcs \ {"cas"}))

\* Close reaches a Send that is parked on flow-control credit, whatever that
\* Send's context is (stream.go:42-49), once it is past the receives.
CloseWakesSenders ==
  DeadlinesPass => (closed ~> [](\A g \in G : pc[g] # "send"))

\* Once Close is called the call ends, the poseidon stream is released, and
\* receives are over for good, under the same condition.
CloseReleases ==
  DeadlinesPass =>
    (closed ~> [](psClosed /\ ended /\ \A g \in G : ~Receiving(g)))

Contract == INSTANCE ReceiveContract WITH
              Users <- G, Outcomes <- Errs,
              users <- {g \in G : Receiving(g)},
              shut <- psClosed,
              outcome <- IF ended THEN termErr ELSE "running"

\* The wrapper keeps the contract: every step of the locks, guards and latch
\* is a step of ReceiveContract or invisible to it.
ImplementsContract == Contract!Spec

-----------------------------------------------------------------------------
(* The inductive invariant behind the safety properties: who holds which   *)
(* guard and which side of the gate, and what the latch says meanwhile.    *)

HoldsRecv(g) == InAll(g) \/ pc[g] \in GuardPcs
HoldsGate(g) == pc[g] \in {"pclose", "latch", "unlock"}
Closing(g) == pc[g] \in ClosePcs \ {"cas"}

\* recvBusy is set exactly while one goroutine is between enterRecv and
\* leaveRecv; sendBusy likewise.
GuardInv ==
  /\ \A g, h \in G : HoldsRecv(g) /\ HoldsRecv(h) => g = h
  /\ recvBusy <=> \E g \in G : HoldsRecv(g)
  /\ \A g, h \in G : pc[g] \in SendPcs /\ pc[h] \in SendPcs => g = h
  /\ sendBusy <=> \E g \in G : pc[g] \in SendPcs

\* The RWMutex and the program counters agree; only the goroutine that won
\* Close's CAS ever asks for the write lock.
GateInv ==
  /\ \A g \in G : g \in readers <=> pc[g] \in ReadPcs
  /\ \A g \in G : pending = g <=> pc[g] = "await" \/ HoldsGate(g)
  /\ \A g \in G : writer = g <=> HoldsGate(g)
  /\ writer # NoG => readers = {}
  /\ \A g, h \in G : Closing(g) /\ Closing(h) => g = h
  /\ \A g \in G : Closing(g) => closed

\* A receive that passed the terminal check finds the stream running and open
\* until it leaves the gate; a closed stream has ended, or is about to.
LatchInv ==
  /\ \A g \in G : pc[g] \in RecvPcs => ~ended
  /\ psClosed => closed /\ (ended \/ \E g \in G : pc[g] = "latch")
  /\ \A g \in G : Closing(g) => (psClosed <=> pc[g] \in {"latch", "unlock"})

\* Which operations exist on which shape, and where a call can be.
ShapeInv ==
  \A g \in G :
    /\ Shape = "client" =>
         /\ mode[g] \in {"call", "single"}
         /\ pc[g] \notin {"rlock", "runlock", "leave", "body", "cas"}
    /\ Shape # "client" =>
         pc[g] \notin {"srlock", "senter", "drain", "sleave", "srunlock"}
    /\ pc[g] = "idle" => mode[g] = "call"
    /\ pc[g] = "body" => mode[g] \in {"all", "last"}
    /\ mode[g] = "single" => Shape = "client" /\ pc[g] \notin ClosePcs

IInv == TypeOK /\ GuardInv /\ GateInv /\ LatchInv /\ ShapeInv

\* What the latch may say, with a codec that neither fails with io.EOF nor,
\* on the client shape, panics (TameCodec): "no error" or io.EOF is latched
\* only by the receive that met the peer's OK, and the peer's status and
\* trailers are latched by whoever read the end of the call.
TameCodec == "eof" \notin CodecFaults /\ (Shape = "client" => "panic" \notin CodecFaults)

GoodErrs == {"nil", "EOF", "codecEOF", "panic"}

OutcomeInv ==
  /\ seen => avail = 0 /\ peer # "open"
  /\ seen /\ ~ended => \E g \in G : pc[g] = "finish"
  /\ ended => termStatus = PStatus /\ trailer = PTrailer
  /\ TameCodec =>
       /\ \A g \in G : pc[g] = "finish" /\ ~ended /\ err[g] \in GoodErrs
                          => seen /\ peer = "ok"
       /\ ended /\ termErr \in GoodErrs => seen /\ peer = "ok"

\* An error that blames the peer is earned: the peer ended the call that way, or
\* sent nothing or too much.
Earned(e) ==
  /\ e = "peer" => peer = "failed"
  /\ e = "transport" => peer = "broken"
  /\ e = "tooMany" => sent > 1
  /\ e = "noMessage" => "eof" \in CodecFaults \/ (peer # "open" /\ sent = 0)
  /\ e = "codecEOF" => "eof" \in CodecFaults

\* The error that sendTolerant forgives is nowhere but in a send that is about to
\* return; on the client shape every error kept anywhere is earned.
AnswerInv ==
  /\ \A g \in G : err[g] = "connClosed" => pc[g] = "sdone"
  /\ Shape = "client" => /\ Earned(termErr) /\ Earned(sendErr)
                         /\ \A g \in G : Earned(err[g])

\* On the client shape the codec never panics.
NoPanic == Shape = "client" => "panic" \notin CodecFaults

OneAndEnd == sent = 1 /\ avail = 0 /\ seen

\* What the client shape has received so far: nothing until recvSingle is past
\* recvOne, then one message; it ends without an error only after one message
\* and the end of the call.
CountInv ==
  Shape = "client" =>
    /\ (~ended /\ \A g \in G : pc[g] \notin {"decode", "header", "drain", "finish"}) =>
         sent = avail
    /\ \A g \in G : pc[g] \in {"decode", "header", "drain"} => sent = avail + 1
    /\ \A g \in G : (pc[g] = "finish" /\ ~ended /\ err[g] = "nil") => OneAndEnd
    /\ NoPanic => termErr # "panic" /\ \A g \in G : err[g] # "panic"
    /\ (ended /\ termErr = "nil" /\ NoPanic) => OneAndEnd
=============================================================================
