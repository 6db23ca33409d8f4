----------------------------- MODULE BaseStream -----------------------------
(***************************************************************************)
(* pgrpc/stream.go: what every streaming shape shares.  The three          *)
(* synchronisation primitives of baseStream (the RWMutex `gate', the       *)
(* atomics `closed' and `recvBusy', the mutex `mu') and the terminal       *)
(* latch, used by a set G of goroutines.  A section under mu is short and  *)
(* never blocks, so it is one step; everything else that another goroutine *)
(* can see happens in a step of its own.                                   *)
(***************************************************************************)
EXTENDS Poseidon

CONSTANTS G,            \* goroutines that share the stream
          NoG,          \* not a goroutine
          Shape,        \* "server", "client" or "bidi" streaming
          CodecFaults,  \* what the user's codec may do wrong
          Roles,        \* the operations each goroutine may call
          PrivRecv,     \* goroutines whose receives use a context not derived
                        \* from Context(), and so not woken by cancel()
          PrivSend      \* the same for sends

ASSUME BaseStreamAssumption ==
  /\ NoG \notin G
  /\ Shape \in {"server", "client", "bidi"}
  /\ CodecFaults \subseteq {"error", "eof", "panic"}
  /\ Roles \in [G -> SUBSET {"recv", "send", "close"}]
  /\ PrivRecv \subseteq G /\ PrivSend \subseteq G

VARIABLES
  pc,         \* where each goroutine is
  mode,       \* which call of the API it is in (see Modes)
  op,         \* the send operation it is in
  err,        \* the error its current operation is about to return
  closed,     \* closed atomic.Bool
  cancelled,  \* cancel() has been called on callCtx
  readers,    \* gate: holders of RLock
  pending,    \* gate: the goroutine whose Lock is announced
  writer,     \* gate: the holder of Lock
  recvBusy,   \* recvBusy atomic.Bool
  sendBusy,   \* sendSide.sendBusy
  sendClosed, \* sendSide.sendClosed
  ended, termErr, termStatus, trailer,  \* the terminal latch, under mu
  hdrDone     \* the header cache, under mu

gateVars == <<readers, pending, writer>>
latchVars == <<ended, termErr, termStatus, trailer>>
sendVars == <<sendBusy, sendClosed, op>>
vars == <<psVars, pc, mode, err, closed, cancelled, gateVars, recvBusy,
          sendVars, latchVars, hdrDone>>

\* Error values, by what the code tells apart: "codec" and "codecEOF" are a
\* CodecError without and with io.EOF in its chain, "panic" is an unwinding
\* panic of the codec rather than an error.
Errs == {"nil", "EOF", "peer", "transport", "ctx", "codec", "codecEOF",
         "streamClosed", "connClosed", "sendClosed", "recvInFlight",
         "noMessage", "tooMany", "panic"}

\* What can end a stream: not the refusal of an operation, not a send's
\* failure, and not a panic, which is no error value.
TermErrs == Errs \ {"sendClosed", "recvInFlight", "connClosed", "panic"}

Codes == {"OK", "Peer", "Canceled", "Unavailable", "Internal", "Unknown"}

\* "call": a plain operation; "single": SendLastAndRecv or CloseAndRecv;
\* "all": an iteration of All, "last": its final yield, "exit": its deferred
\* function.
Modes == {"call", "single", "all", "last", "exit"}

InAll(g) == mode[g] \in {"all", "last", "exit"}

ClosePcs == {"cas", "cancel", "announce", "await", "pclose", "latch", "unlock"}
SendPcs == {"scheck", "send", "sdone"}
\* Between enterRecv and leaveRecv; with the gate held for reading; inside
\* poseidon's receive state or the stream's receive scratch.
GuardPcs == {"rlock", "check", "recv", "decode", "header", "drain", "finish",
             "runlock", "leave", "sleave"}
ReadPcs == {"check", "recv", "decode", "header", "drain", "finish", "runlock",
            "senter", "sleave", "srunlock"}
RecvPcs == {"recv", "decode", "header", "drain"}
Pcs == {"idle", "body", "srlock"} \cup GuardPcs \cup ReadPcs \cup ClosePcs
         \cup SendPcs

ThreadTypeOK ==
  /\ pc \in [G -> Pcs]
  /\ mode \in [G -> Modes]
  /\ op \in [G -> {"none", "send", "last", "half"}]
  /\ err \in [G -> Errs]

GateTypeOK ==
  readers \subseteq G /\ pending \in G \cup {NoG} /\ writer \in G \cup {NoG}

FlagTypeOK ==
  /\ closed \in BOOLEAN /\ cancelled \in BOOLEAN /\ hdrDone \in BOOLEAN
  /\ recvBusy \in BOOLEAN /\ sendBusy \in BOOLEAN /\ sendClosed \in BOOLEAN

LatchTypeOK ==
  /\ ended \in BOOLEAN /\ trailer \in BOOLEAN
  /\ termErr \in TermErrs /\ termStatus \in Codes

\* What reaches finish() is the outcome of a receive, or a panic under way.
FinishTypeOK == \A g \in G : pc[g] = "finish" => err[g] \in TermErrs \cup {"panic"}

\* The type invariant: every field of baseStream and sendSide, and every
\* goroutine, is in its range; that a refused receive or a failed send is never
\* latched as the outcome of the stream (the order of enterRecv and the deferred
\* finish, streams.go:367-371) is part of it.
TypeOK ==
  /\ PoseidonTypeOK /\ ThreadTypeOK /\ GateTypeOK /\ FlagTypeOK
  /\ LatchTypeOK /\ FinishTypeOK

\* A stream its constructor has returned: no receive yet, the header fetched
\* eagerly on the server-streaming shape only.
Init ==
  /\ PoseidonInit
  /\ pc = [g \in G |-> "idle"] /\ mode = [g \in G |-> "call"]
  /\ op = [g \in G |-> "none"] /\ err = [g \in G |-> "nil"]
  /\ closed = FALSE /\ cancelled = FALSE
  /\ readers = {} /\ pending = NoG /\ writer = NoG
  /\ recvBusy = FALSE /\ sendBusy = FALSE /\ sendClosed = FALSE
  /\ ended = FALSE /\ termErr = "nil" /\ termStatus = "OK" /\ trailer = FALSE
  /\ hdrDone = (Shape = "server")

Goto(g, l) == pc' = [pc EXCEPT ![g] = l]
SetErr(g, e) == err' = [err EXCEPT ![g] = e]

\* Where g continues when the operation it called returns: in the loop body
\* of All, in All's deferred function, or outside the stream altogether.
Back(g) == CASE mode[g] \in {"all", "last"} -> "body"
             [] mode[g] = "exit"            -> "leave"
             [] OTHER                       -> "idle"

\* User code runs: at top level, or in the loop body of All.
UserCode(g) == pc[g] \in {"idle", "body"}

-----------------------------------------------------------------------------
(* The latch and what the observers read from it.                          *)

IsEOF(e) == e \in {"EOF", "codecEOF"}   \* errors.Is(e, io.EOF)

\* NewCodecError over what the codec did: failed, failed with io.EOF as its
\* cause, or panicked.
FaultErr(f) == CASE f = "error" -> "codec"
                 [] f = "eof"   -> "codecEOF"
                 [] OTHER       -> "panic"

\* StatusOf: a *Status in the chain wins, then the sentinels.
StatusOf(e) == CASE e = "nil"                                  -> "OK"
                 [] e = "peer"                                 -> "Peer"
                 [] e \in {"codec", "codecEOF", "noMessage",
                           "tooMany", "EOF"}                   -> "Internal"
                 [] e \in {"ctx", "streamClosed", "sendClosed"} -> "Canceled"
                 [] e \in {"transport", "connClosed"}          -> "Unavailable"
                 [] OTHER                                      -> "Unknown"

\* Mutant of Status: only what the peer declared counts.
StatusOfPeer == IF ~ended THEN "OK" ELSE termStatus

Status == IF ~ended THEN "OK"
          ELSE IF termStatus # "OK" THEN termStatus
          ELSE IF termErr = "nil" \/ IsEOF(termErr) THEN "OK"
          ELSE StatusOf(termErr)

\* Mutants of Latch: without the snapshot of the peer's verdict; with the last
\* writer winning.
LatchErrOnly(e) ==
  IF ended THEN UNCHANGED latchVars
  ELSE /\ ended' = TRUE /\ termErr' = e
       /\ UNCHANGED <<termStatus, trailer>>
LatchLast(e) ==
  ended' = TRUE /\ termErr' = e /\ termStatus' = PStatus /\ trailer' = PTrailer

\* First writer wins; the peer's verdict is snapshotted with the error.
Latch(e) ==
  IF ended THEN UNCHANGED latchVars
  ELSE /\ ended' = TRUE /\ termErr' = e
       /\ termStatus' = PStatus /\ trailer' = PTrailer

-----------------------------------------------------------------------------
(* The gate, a sync.RWMutex: an announced Lock keeps new readers out.      *)

RLock(g) ==
  /\ pending = NoG /\ writer = NoG
  /\ readers' = readers \cup {g}
  /\ UNCHANGED <<pending, writer>>

RUnlock(g) ==
  /\ readers' = readers \ {g}
  /\ UNCHANGED <<pending, writer>>

-----------------------------------------------------------------------------
(* Close, step by step.                                                    *)

CloseFrame == UNCHANGED <<mode, err, recvBusy, sendVars, hdrDone>>

\* The CAS: a second Close returns nil at once, whatever the first is doing.
CloseCAS(g) ==
  /\ UserCode(g) \/ pc[g] = "cas"
  /\ IF closed THEN Goto(g, Back(g)) /\ UNCHANGED closed
     ELSE Goto(g, "cancel") /\ closed' = TRUE
  /\ CloseFrame /\ UNCHANGED <<psVars, cancelled, gateVars, latchVars>>

\* Mutant of CloseCancel: callCtx is left alone.
CloseNoCancel(g) ==
  /\ pc[g] = "cancel"
  /\ Goto(g, "announce")
  /\ CloseFrame /\ UNCHANGED <<psVars, closed, cancelled, gateVars, latchVars>>

CloseCancel(g) ==
  /\ pc[g] = "cancel"
  /\ cancelled' = TRUE
  /\ Goto(g, "announce")
  /\ CloseFrame /\ UNCHANGED <<psVars, closed, gateVars, latchVars>>

\* gate.Lock() first announces the writer, then waits for the readers.
CloseAnnounce(g) ==
  /\ pc[g] = "announce"
  /\ pending = NoG
  /\ pending' = g
  /\ Goto(g, "await")
  /\ CloseFrame
  /\ UNCHANGED <<psVars, closed, cancelled, readers, writer, latchVars>>

\* Mutants of CloseAwait: Close waits for no receive; Close waits for senders,
\* as it would if Send took the gate.
CloseNoAwait(g) ==
  /\ pc[g] = "await"
  /\ writer' = g
  /\ Goto(g, "pclose")
  /\ CloseFrame
  /\ UNCHANGED <<psVars, closed, cancelled, readers, pending, latchVars>>
CloseAwaitsSenders(g) ==
  /\ pc[g] = "await"
  /\ readers = {} /\ \A h \in G : pc[h] # "send"
  /\ writer' = g
  /\ Goto(g, "pclose")
  /\ CloseFrame
  /\ UNCHANGED <<psVars, closed, cancelled, readers, pending, latchVars>>

CloseAwait(g) ==
  /\ pc[g] = "await"
  /\ readers = {}
  /\ writer' = g
  /\ Goto(g, "pclose")
  /\ CloseFrame
  /\ UNCHANGED <<psVars, closed, cancelled, readers, pending, latchVars>>

\* Mutant of ClosePoseidon: the poseidon stream is not closed.
CloseSkipsPoseidon(g) ==
  /\ pc[g] = "pclose"
  /\ Goto(g, "latch")
  /\ CloseFrame /\ UNCHANGED <<psVars, closed, cancelled, gateVars, latchVars>>

ClosePoseidon(g) ==
  /\ pc[g] = "pclose"
  /\ StreamClose
  /\ Goto(g, "latch")
  /\ CloseFrame /\ UNCHANGED <<closed, cancelled, gateVars, latchVars>>

CloseLatch(g) ==
  /\ pc[g] = "latch"
  /\ Latch("streamClosed")
  /\ Goto(g, "unlock")
  /\ CloseFrame /\ UNCHANGED <<psVars, closed, cancelled, gateVars>>

CloseUnlock(g) ==
  /\ pc[g] = "unlock"
  /\ writer' = NoG /\ pending' = NoG
  /\ Goto(g, Back(g))
  /\ CloseFrame
  /\ UNCHANGED <<psVars, closed, cancelled, readers, latchVars>>
=============================================================================
