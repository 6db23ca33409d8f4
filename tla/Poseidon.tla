------------------------------ MODULE Poseidon ------------------------------
(***************************************************************************)
(* The stream of the transport library (poseidon's grpc.Stream) together   *)
(* with the peer behind it, as far as pgrpc relies on them.  The library   *)
(* is not part of the repository: what is written here is what             *)
(* pgrpc/stream.go, pgrpc/streams.go and pgrpc/raw.go state about it and   *)
(* how they use it.                                                        *)
(*                                                                         *)
(*  - responses wait in an event buffer, in order, before the end of the   *)
(*    call; a message's bytes do not matter, so the buffer is a counter;   *)
(*  - Status() and Trailer() are set by the receive pump when it consumes  *)
(*    the end of the call, and only from what the peer DECLARED: after a   *)
(*    transport failure the status keeps its zero value, whose code is OK; *)
(*  - a Send needs flow-control credit, and a peer whose responses are not *)
(*    being read grants none;                                              *)
(*  - a server may answer completely and then reset the stream (RFC 9113   *)
(*    8.1): the request side then fails with conn.ErrStreamClosed while    *)
(*    the answer is still in the event buffer;                             *)
(*  - Close wakes a Send that is parked on credit;                         *)
(*  - the first failed send is latched: later sends return it.             *)
(***************************************************************************)
EXTENDS Naturals

CONSTANTS MaxMsgs,    \* bound: responses the server sends in one call
          MaxCredit   \* bound: request messages the peer's window admits

ASSUME PoseidonAssumption == MaxMsgs \in Nat /\ MaxCredit \in Nat

VARIABLES
  avail,     \* responses in the event buffer
  sent,      \* responses the server has sent so far
  peer,      \* how the peer ended the call, "open" while it has not
  reset,     \* the peer reset the stream after answering
  credit,    \* request messages the window still admits
  seen,      \* the receive pump has consumed the end of the call
  psClosed,  \* Close has been called on the poseidon stream
  sendErr    \* the latched send failure, "nil" if none

psVars == <<avail, sent, peer, reset, credit, seen, psClosed, sendErr>>

\* "ok" and "failed": trailers with a grpc-status, OK or not; "broken": the
\* connection is lost, nothing is declared.
PeerEnds == {"ok", "failed", "broken"}

PoseidonTypeOK ==
  /\ avail \in Nat
  /\ sent \in Nat
  /\ peer \in PeerEnds \cup {"open"}
  /\ reset \in BOOLEAN
  /\ credit \in Nat
  /\ seen \in BOOLEAN
  /\ psClosed \in BOOLEAN
  /\ sendErr \in {"nil", "ctx", "transport", "connClosed"}

PoseidonInit ==
  /\ avail = 0 /\ sent = 0 /\ peer = "open" /\ reset = FALSE
  /\ credit \in 0..MaxCredit
  /\ seen = FALSE /\ psClosed = FALSE /\ sendErr = "nil"

-----------------------------------------------------------------------------
(* The peer and the network.                                               *)

ServerSend ==
  /\ peer = "open" /\ ~psClosed /\ sent < MaxMsgs
  /\ sent' = sent + 1 /\ avail' = avail + 1
  /\ UNCHANGED <<peer, reset, credit, seen, psClosed, sendErr>>

ServerEnd ==
  /\ peer = "open" /\ ~psClosed
  /\ peer' \in PeerEnds
  /\ UNCHANGED <<avail, sent, reset, credit, seen, psClosed, sendErr>>

ServerReset ==
  /\ peer \in {"ok", "failed"} /\ ~reset /\ ~psClosed
  /\ reset' = TRUE
  /\ UNCHANGED <<avail, sent, peer, credit, seen, psClosed, sendErr>>

\* The server reads requests only while its own responses are being drained.
Grant ==
  /\ peer = "open" /\ ~psClosed /\ avail = 0 /\ credit < MaxCredit
  /\ credit' = credit + 1
  /\ UNCHANGED <<avail, sent, peer, reset, seen, psClosed, sendErr>>

PeerNext == ServerSend \/ ServerEnd \/ ServerReset \/ Grant

-----------------------------------------------------------------------------
(* What the stream answers to its user.                                    *)

\* Recv and RecvInto: a buffered response comes first ...
PumpMessage ==
  /\ avail > 0
  /\ avail' = avail - 1
  /\ UNCHANGED <<sent, peer, reset, credit, seen, psClosed, sendErr>>

\* ... then the end of the call.
PumpEnd ==
  /\ avail = 0 /\ peer # "open"
  /\ seen' = TRUE
  /\ UNCHANGED <<avail, sent, peer, reset, credit, psClosed, sendErr>>

\* The error with which the pump reports that end.
EndErr == CASE peer = "ok"     -> "EOF"
            [] peer = "failed" -> "peer"
            [] OTHER           -> "transport"

\* Status() and Trailer() of the poseidon stream.
PStatus == IF seen /\ peer = "failed" THEN "Peer" ELSE "OK"

PTrailer == seen /\ peer \in {"ok", "failed"}

\* Send, SendLast (cost 1) and CloseSend (cost 0) succeed ...
SendOK(cost) ==
  /\ sendErr = "nil" /\ ~psClosed /\ ~reset /\ peer # "broken"
  /\ credit >= cost
  /\ credit' = credit - cost
  /\ UNCHANGED <<avail, sent, peer, reset, seen, psClosed, sendErr>>

\* ... or fail with e: the latched failure if there is one, else a new one.
SendFail(e) ==
  /\ IF sendErr # "nil" THEN e = sendErr
     ELSE \/ e = "connClosed" /\ (psClosed \/ reset)
          \/ e = "transport" /\ peer = "broken"
          \/ e = "ctx"
  /\ sendErr' = e
  /\ UNCHANGED <<avail, sent, peer, reset, credit, seen, psClosed>>

StreamClose ==
  /\ psClosed' = TRUE
  /\ UNCHANGED <<avail, sent, peer, reset, credit, seen, sendErr>>
=============================================================================
