------------------------------- MODULE Calls --------------------------------
(***************************************************************************)
(* Starting RPCs on one connection: pgrpc.Unary and the constructors of    *)
(* the three stream shapes (unary.go, stream.go, streams.go, resolve.go),  *)
(* called through the client face or through a generated Caller, whose     *)
(* Guard and request scratch its calls share (errors.go, emit.go).         *)
(*                                                                         *)
(* A stream occupies one of the connection's slots (the peer's             *)
(* MAX_CONCURRENT_STREAMS) until it is closed, and its derived context     *)
(* stays registered in its parent until it is cancelled.  A call that has  *)
(* returned may be made again.                                             *)
(***************************************************************************)
EXTENDS Naturals, FiniteSets

CONSTANTS Callers,     \* generated Callers
          Calls,       \* the calls a program makes
          NoCall,      \* not a call
          Face,        \* the Caller a call goes through; itself for a call made
                       \* through the client face, which has its own scratch
          Kind,        \* the shape of each call
          CodecFaults, \* what the user's codec may do wrong in each call
          MaxStreams   \* slots of the connection

Kinds == {"unary", "server", "client", "bidi"}

ASSUME CallsAssumption ==
  /\ NoCall \notin Calls /\ Callers \cap Calls = {}
  /\ Face \in [Calls -> Callers \cup Calls]
  /\ \A c \in Calls : Face[c] \in Callers \cup {c}
  /\ Kind \in [Calls -> Kinds]
  /\ CodecFaults \in [Calls -> SUBSET {"error", "panic"}]
  /\ MaxStreams \in Nat \ {0}

VARIABLES
  pc,        \* where each call is
  guard,     \* Guard.inUse of each Caller
  buf,       \* whose request the scratch of each Caller (or call) holds
  slots,     \* calls that occupy a stream slot
  ctxs,      \* calls whose derived context is registered
  requests,  \* calls whose complete request has reached the server
  answered,  \* calls whose response headers have arrived
  hdrDone    \* calls whose stream has its header cached

vars == <<pc, guard, buf, slots, ctxs, requests, answered, hdrDone>>

\* "start": not made yet, or over; "opened", "return" and "unwind": leaving
\* with a stream, with a result or an error, and by a panic of the codec;
\* "open": the caller has the stream.
Pcs == {"start", "resolve", "derive", "dial", "marshal", "send", "header",
        "invoke", "wait", "unmarshal", "abort", "cancel", "opened", "return",
        "unwind", "open"}

Scratches == Callers \cup Calls

TypeOK ==
  /\ pc \in [Calls -> Pcs]
  /\ guard \in [Callers -> BOOLEAN]
  /\ buf \in [Scratches -> Calls \cup {NoCall}]
  /\ slots \subseteq Calls /\ ctxs \subseteq Calls
  /\ requests \subseteq Calls /\ answered \subseteq Calls
  /\ hdrDone \subseteq Calls

Init ==
  /\ pc = [c \in Calls |-> "start"]
  /\ guard = [f \in Callers |-> FALSE]
  /\ buf = [f \in Scratches |-> NoCall]
  /\ slots = {} /\ ctxs = {} /\ requests = {} /\ answered = {} /\ hdrDone = {}

Goto(c, l) == pc' = [pc EXCEPT ![c] = l]
Guarded(c) == Face[c] \in Callers
Wire == <<slots, requests, answered>>

-----------------------------------------------------------------------------
(* Entering and leaving.                                                   *)

\* Mutant of Enter: the guard is set, never looked at.
EnterUnguarded(c) ==
  /\ pc[c] = "start"
  /\ Goto(c, "resolve")
  /\ guard' = IF Guarded(c) THEN [guard EXCEPT ![Face[c]] = TRUE] ELSE guard
  /\ UNCHANGED <<buf, ctxs, hdrDone, Wire>>

\* A Caller's method claims the guard: ErrCallerInUse if it is taken.
Enter(c) ==
  /\ pc[c] = "start"
  /\ IF Guarded(c) /\ guard[Face[c]] THEN UNCHANGED <<pc, guard>>
     ELSE /\ Goto(c, "resolve")
          /\ guard' = IF Guarded(c) THEN [guard EXCEPT ![Face[c]] = TRUE] ELSE guard
  /\ UNCHANGED <<buf, ctxs, hdrDone, Wire>>

\* resolve, cfg.Err: a failed option ends the call before anything is touched.
Resolve(c) ==
  /\ pc[c] = "resolve"
  /\ \/ Goto(c, "return")
     \/ Goto(c, IF Kind[c] = "unary" THEN "marshal" ELSE "derive")
  /\ UNCHANGED <<guard, buf, ctxs, hdrDone, Wire>>

\* Mutant of Leave: called where a result is returned, not deferred.
LeaveNotDeferred(c) ==
  /\ pc[c] \in {"opened", "return", "unwind"}
  /\ guard' = IF Guarded(c) /\ pc[c] # "unwind"
              THEN [guard EXCEPT ![Face[c]] = FALSE] ELSE guard
  /\ Goto(c, IF pc[c] = "opened" THEN "open" ELSE "start")
  /\ UNCHANGED <<buf, ctxs, hdrDone, Wire>>

\* The deferred guard.Leave runs on every way out.
Leave(c) ==
  /\ pc[c] \in {"opened", "return", "unwind"}
  /\ guard' = IF Guarded(c) THEN [guard EXCEPT ![Face[c]] = FALSE] ELSE guard
  /\ Goto(c, IF pc[c] = "opened" THEN "open" ELSE "start")
  /\ UNCHANGED <<buf, ctxs, hdrDone, Wire>>

-----------------------------------------------------------------------------
(* The connection (poseidon): a stream takes a slot, closing it frees it.  *)

TakeSlot(c) ==
  /\ Cardinality(slots) < MaxStreams
  /\ slots' = slots \cup {c}
  /\ UNCHANGED <<requests, answered>>

FreeSlot(c) ==
  /\ slots' = slots \ {c}
  /\ requests' = requests \ {c}
  /\ answered' = answered \ {c}

\* A server answers a complete request, and may refuse a single-request call
\* before it has read it; on the other two shapes it waits for a message.
ServerAnswer(c) ==
  /\ c \in slots /\ c \notin answered
  /\ c \in requests \/ Kind[c] \in {"unary", "server"}
  /\ answered' = answered \cup {c}
  /\ UNCHANGED <<pc, guard, buf, slots, ctxs, requests, hdrDone>>

-----------------------------------------------------------------------------
(* The stream constructors.                                                *)

\* Mutant of Derive: one context per face instead of one per call.
DeriveForFace(c) ==
  /\ pc[c] = "derive"
  /\ ctxs' = ctxs \cup {Face[c]}
  /\ Goto(c, "dial")
  /\ UNCHANGED <<guard, buf, hdrDone, Wire>>

\* initStream: context.WithCancel ...
Derive(c) ==
  /\ pc[c] = "derive"
  /\ ctxs' = ctxs \cup {c}
  /\ Goto(c, "dial")
  /\ UNCHANGED <<guard, buf, hdrDone, Wire>>

\* Mutant of NewStream: every shape fetches its header eagerly.
NewStreamAllEager(c) ==
  /\ pc[c] = "dial"
  /\ TakeSlot(c)
  /\ Goto(c, IF Kind[c] = "server" THEN "marshal" ELSE "header")
  /\ UNCHANGED <<guard, buf, ctxs, hdrDone>>

\* ... then NewStream; the client and bidi constructors are done with that.
NewStream(c) ==
  /\ pc[c] = "dial"
  /\ TakeSlot(c)
  /\ Goto(c, IF Kind[c] = "server" THEN "marshal" ELSE "opened")
  /\ UNCHANGED <<guard, buf, ctxs, hdrDone>>

\* Mutant of NewStreamFails: the derived context is not cancelled.
NewStreamFailsLeaks(c) ==
  /\ pc[c] = "dial"
  /\ Goto(c, "return")
  /\ UNCHANGED <<guard, buf, ctxs, hdrDone, Wire>>

NewStreamFails(c) ==
  /\ pc[c] = "dial"
  /\ ctxs' = ctxs \ {c}
  /\ Goto(c, "return")
  /\ UNCHANGED <<guard, buf, hdrDone, Wire>>

\* MarshalAppend into the scratch: for Unary before the transport is touched,
\* for NewServerStream on the open stream.
Marshal(c) ==
  /\ pc[c] = "marshal"
  /\ \/ /\ buf' = [buf EXCEPT ![Face[c]] = c]
        /\ Goto(c, IF Kind[c] = "unary" THEN "invoke" ELSE "send")
     \/ /\ "error" \in CodecFaults[c]
        /\ buf' = [buf EXCEPT ![Face[c]] = NoCall]
        /\ Goto(c, IF Kind[c] = "unary" THEN "return" ELSE "abort")
     \/ /\ "panic" \in CodecFaults[c]
        /\ Goto(c, "unwind") /\ UNCHANGED buf
  /\ UNCHANGED <<guard, ctxs, hdrDone, Wire>>

\* Mutant of SendLast: the stream is returned without its header.
SendLastNoHeader(c) ==
  /\ pc[c] = "send"
  /\ requests' = requests \cup {c}
  /\ Goto(c, "opened")
  /\ UNCHANGED <<guard, buf, slots, ctxs, answered, hdrDone>>

\* sendTolerant(SendLast): a reset after the answer is not a failure.
SendLast(c) ==
  /\ pc[c] = "send"
  /\ \/ requests' = requests \cup {c}
     \/ c \in answered /\ UNCHANGED requests
  /\ Goto(c, "header")
  /\ UNCHANGED <<guard, buf, slots, ctxs, answered, hdrDone>>

\* fetchHeader waits for the server.
FetchHeader(c) ==
  /\ pc[c] = "header" /\ c \in answered
  /\ hdrDone' = hdrDone \cup {c}
  /\ Goto(c, "opened")
  /\ UNCHANGED <<guard, buf, ctxs, Wire>>

\* The context is done or the transport fails while NewServerStream waits.
SetupFails(c) ==
  /\ pc[c] \in {"send", "header"}
  /\ Goto(c, "abort")
  /\ UNCHANGED <<guard, buf, ctxs, hdrDone, Wire>>

\* Mutant of AbortClose: the stream is not closed.
AbortNoClose(c) ==
  /\ pc[c] = "abort"
  /\ Goto(c, "cancel")
  /\ UNCHANGED <<guard, buf, ctxs, hdrDone, Wire>>

\* abort: close the stream, then cancel its context.
AbortClose(c) ==
  /\ pc[c] = "abort"
  /\ FreeSlot(c)
  /\ Goto(c, "cancel")
  /\ UNCHANGED <<guard, buf, ctxs, hdrDone>>

AbortCancel(c) ==
  /\ pc[c] = "cancel"
  /\ ctxs' = ctxs \ {c}
  /\ Goto(c, "return")
  /\ UNCHANGED <<guard, buf, hdrDone, Wire>>

\* The user closes the stream it was given; module Streams has the details.
CloseStream(c) ==
  /\ pc[c] = "open"
  /\ FreeSlot(c)
  /\ ctxs' = ctxs \ {c} /\ hdrDone' = hdrDone \ {c}
  /\ Goto(c, "start")
  /\ UNCHANGED <<guard, buf>>

-----------------------------------------------------------------------------
(* Unary: InvokeInto opens, uses and closes a stream of its own.           *)

Invoke(c) ==
  /\ pc[c] = "invoke"
  /\ \/ TakeSlot(c) /\ Goto(c, "wait")
     \/ Goto(c, "return") /\ UNCHANGED Wire
  /\ UNCHANGED <<guard, buf, ctxs, hdrDone>>

InvokeAnswered(c) ==
  /\ pc[c] = "wait" /\ c \in answered
  /\ FreeSlot(c)
  /\ Goto(c, "unmarshal")
  /\ UNCHANGED <<guard, buf, ctxs, hdrDone>>

InvokeFails(c) ==
  /\ pc[c] = "wait"
  /\ FreeSlot(c)
  /\ Goto(c, "return")
  /\ UNCHANGED <<guard, buf, ctxs, hdrDone>>

\* Unmarshal returns, or panics through the deferred Leave.
Unmarshal(c) ==
  /\ pc[c] = "unmarshal"
  /\ \/ Goto(c, "return")
     \/ "panic" \in CodecFaults[c] /\ Goto(c, "unwind")
  /\ UNCHANGED <<guard, buf, ctxs, hdrDone, Wire>>

-----------------------------------------------------------------------------
\* What a call does by itself once it has been made.
Step(c) == \/ Resolve(c) \/ Leave(c) \/ Derive(c) \/ NewStream(c)
           \/ NewStreamFails(c) \/ Marshal(c) \/ SendLast(c) \/ FetchHeader(c)
           \/ AbortClose(c) \/ AbortCancel(c)
           \/ Invoke(c) \/ InvokeAnswered(c) \/ Unmarshal(c)

\* The end of its context, or a failure of the connection.
Fail(c) == SetupFails(c) \/ InvokeFails(c)

Next == \E c \in Calls :
          Enter(c) \/ Step(c) \/ Fail(c) \/ CloseStream(c) \/ ServerAnswer(c)

Spec == Init /\ [][Next]_vars

\* Calls run; the server may stay silent and contexts may have no deadline.
FairSpec == Spec /\ \A c \in Calls : WF_vars(Step(c))

-----------------------------------------------------------------------------
(* Properties.                                                             *)

\* "On failure it leaves nothing behind" (stream.go:258-262): a call that is
\* over and gave its caller no stream occupies no slot of the connection and
\* no place in the parent context.
NothingLeftBehind ==
  \A c \in Calls : pc[c] \in {"start", "return"} => c \notin slots \cup ctxs

\* The Guard (errors.go:117-135): what goes to the wire from a Caller's
\* scratch is the request of the call that sends it, whoever else uses the
\* Caller meanwhile; and Unary has encoded it before it touches the transport
\* (unary.go:58-60).
OwnRequestOnTheWire ==
  \A c \in Calls : pc[c] \in {"send", "invoke"} => buf[Face[c]] = c

\* A Guard is held exactly while one of the Caller's methods runs, so no way
\* out of a method, a panic included, leaves the Caller unusable.
GuardFollowsCall ==
  \A f \in Callers :
    /\ guard[f] <=> \E c \in Calls : Face[c] = f /\ pc[c] \notin {"start", "open"}
    /\ \A c, d \in Calls : /\ Face[c] = f /\ pc[c] \notin {"start", "open"}
                           /\ Face[d] = f /\ pc[d] \notin {"start", "open"}
                           => c = d

\* Header is a pure cache read on a server stream (stream.go:176-188): its
\* constructor never returns one whose header is not cached.
EagerHeader ==
  \A c \in Calls : Kind[c] = "server" /\ pc[c] = "open" => c \in hdrDone

\* The client and bidi constructors never wait for the server, which sends
\* nothing before it has received something (stream.go:190-197).
ConstructorReturns ==
  \A c \in Calls : Kind[c] \in {"client", "bidi"} =>
    (pc[c] = "resolve" ~> pc[c] \in {"open", "start"})

\* Failing calls do not wedge the connection (stream.go:258-262): if contexts
\* end and the streams that were handed out are closed, a full connection has
\* a free slot again.
NotWedged ==
  (\A c \in Calls : WF_vars(Fail(c)) /\ WF_vars(CloseStream(c))) =>
    (Cardinality(slots) = MaxStreams ~> Cardinality(slots) < MaxStreams)

-----------------------------------------------------------------------------
(* The invariant behind the safety properties, for the proofs.             *)

\* The codec does not panic on a request for which a stream is open already.
TameSetup == \A c \in Calls : Kind[c] = "server" => "panic" \notin CodecFaults[c]

\* Which program points a call of each shape passes, and where it may hold a
\* slot or a context: a stream's are its own from NewStream and WithCancel
\* until abort or Close, Unary's slot is InvokeInto's.
HoldingInv ==
  \A c \in Calls :
    /\ pc[c] \in {"invoke", "wait", "unmarshal"} => Kind[c] = "unary"
    /\ pc[c] \in {"send", "header", "abort"} => Kind[c] = "server"
    /\ pc[c] = "marshal" => Kind[c] \in {"unary", "server"}
    /\ pc[c] = "unwind" => Kind[c] = "unary"
    /\ c \in slots => \/ pc[c] \in {"send", "header", "abort", "opened", "open", "wait"}
                      \/ pc[c] = "marshal" /\ Kind[c] = "server"
    /\ c \in ctxs => \/ pc[c] \in {"dial", "send", "header", "abort", "cancel",
                                   "opened", "open"}
                     \/ pc[c] = "marshal" /\ Kind[c] = "server"

\* EagerHeader, from the constructor's return on.
HeaderInv ==
  \A c \in Calls : Kind[c] = "server" /\ pc[c] \in {"opened", "open"} => c \in hdrDone

IInv == /\ TypeOK /\ GuardFollowsCall /\ OwnRequestOnTheWire
        /\ HeaderInv /\ (TameSetup => HoldingInv)
=============================================================================
