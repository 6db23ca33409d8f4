------------------------------ MODULE LoadGen -------------------------------
(***************************************************************************)
(* A load generator over pgrpc (examples/loadgen/main.go): virtual users,  *)
(* each with its own Caller, request and reply, call Unary in a loop until *)
(* the run's context ends; then the outcomes are merged and reported.  The *)
(* request scratch, which a Caller keeps from call to call, and the codec  *)
(* (module Codec) are explicit, and so are the errors that come back       *)
(* (module ErrorChains).                                                   *)
(***************************************************************************)
EXTENDS Codec, ErrorChains, Functions

CONSTANTS Users,
          Methods,     \* the methods that the message type of each user has
          Messages,    \* the requests a program sends
          Mutable,     \* users whose request another goroutine changes meanwhile
          Replies,     \* the responses a server sends
          PeerCodes,   \* the codes with which it may refuse instead
          Transport,   \* the sentinels with which the transport may fail
          MaxCalls     \* bound: calls of each user

None == "none"

\* What comes back from a server: a response, encoded, or bytes that are none.
Answers == {Encode(m) : m \in Replies} \cup {Garbage}

ASSUME LoadGenAssumption ==
  /\ IsFiniteSet(Users) /\ IsFiniteSet(PeerCodes)
  /\ Mutable \subseteq Users
  /\ "OK" \notin PeerCodes
  /\ \A a \in Answers : a # None
  /\ MaxCalls \in Nat
  /\ \A m \in Messages \cup Replies : /\ m = [scalar |-> m.scalar, items |-> m.items]
                                     /\ m.items \in Seq(Range(m.items))

VARIABLES
  pc,        \* where each user is
  in, out,   \* each user's request and reply
  scratch,   \* the array of each Caller's request buffer
  size,      \* what SizeVT has answered
  wire,      \* the request as handed to the transport
  reply,     \* what the server has answered to the current call
  verdict,   \* the code with which it has refused the current call
  err,       \* the error of the current call
  codes,     \* each user's bucket
  calls,     \* calls that each user has made
  ctx,       \* "live", or the error of the run's context
  crashed,   \* a goroutine has panicked, which ends the program
  tally      \* the merged bucket; <<>> before the report

vars == <<pc, in, out, scratch, size, wire, reply, verdict, err, codes, calls,
          ctx, crashed, tally>>

Outcomes == Codes \cup PeerCodes
NoCodes == [k \in Outcomes |-> 0]

Total(f) == FoldFunction(+, 0, f)

\* merge: the users' buckets, added up.
Merged == [k \in Outcomes |-> Total([u \in Users |-> codes[u][k]])]

Init ==
  /\ pc = [u \in Users |-> "loop"]
  /\ in \in [Users -> Messages]
  /\ out = [u \in Users |-> ZeroMessage]
  /\ scratch = [u \in Users |-> <<>>] /\ size = [u \in Users |-> 0]
  /\ wire = [u \in Users |-> <<>>]
  /\ reply = [u \in Users |-> None] /\ verdict = [u \in Users |-> None]
  /\ err = [u \in Users |-> <<>>]
  /\ codes = [u \in Users |-> NoCodes] /\ calls = [u \in Users |-> 0]
  /\ ctx = "live" /\ crashed = FALSE /\ tally = <<>>

Goto(u, l) == pc' = [pc EXCEPT ![u] = l]
Run == <<ctx, crashed, tally>>

-----------------------------------------------------------------------------
(* The loop of a virtual user: one call of Unary.                          *)

Begin(u) ==
  /\ pc[u] = "loop" /\ ctx = "live" /\ calls[u] < MaxCalls
  /\ Goto(u, "marshal")
  /\ calls' = [calls EXCEPT ![u] = @ + 1]
  /\ UNCHANGED <<in, out, scratch, size, wire, reply, verdict, err, codes, Run>>

Stop(u) ==
  /\ pc[u] = "loop" /\ ctx # "live"
  /\ Goto(u, "done")
  /\ UNCHANGED <<in, out, scratch, size, wire, reply, verdict, err, codes, calls, Run>>

\* MarshalAppend: the size first, with room for it; protocodec in one step.
Marshal(u) ==
  /\ pc[u] = "marshal"
  /\ \/ /\ MarshalPath(Methods[u]) = "vt"
        /\ size' = [size EXCEPT ![u] = Len(Encode(in[u]))]
        /\ scratch' = [scratch EXCEPT ![u] = Grow(@, Len(Encode(in[u])))]
        /\ Goto(u, "fill")
        /\ UNCHANGED <<wire, err>>
     \/ /\ MarshalPath(Methods[u]) = "proto"
        /\ scratch' = [scratch EXCEPT ![u] =
             FillFromEnd(Grow(@, Len(Encode(in[u]))), Len(Encode(in[u])), Encode(in[u]))]
        /\ wire' = [wire EXCEPT ![u] = Encode(in[u])]
        /\ Goto(u, "invoke")
        /\ UNCHANGED <<size, err>>
     \/ /\ MarshalPath(Methods[u]) # "vt"   \* refused: as a type, or as a message
        /\ err' = [err EXCEPT ![u] = CodecError(Opaque)]
        /\ Goto(u, "record")
        /\ UNCHANGED <<scratch, size, wire>>
  /\ UNCHANGED <<in, out, reply, verdict, codes, calls, Run>>

\* Then the fill, from the message as it is by now ...
Fill(u) ==
  /\ pc[u] = "fill"
  /\ LET filled == FillFromEnd(scratch[u], size[u], Encode(in[u]))
         outcome == FillOutcome(size[u], Encode(in[u])) IN
     /\ scratch' = [scratch EXCEPT ![u] = filled]
     /\ \/ /\ outcome = "ok"
           /\ wire' = [wire EXCEPT ![u] = SubSeq(filled, 1, size[u])]
           /\ Goto(u, "invoke")
           /\ UNCHANGED <<err, crashed>>
        \/ /\ outcome = "error"
           /\ err' = [err EXCEPT ![u] = CodecError(Opaque)]
           /\ Goto(u, "record")
           /\ UNCHANGED <<wire, crashed>>
        \/ outcome = "panic" /\ crashed' = TRUE /\ UNCHANGED <<pc, wire, err>>
  /\ UNCHANGED <<in, out, size, reply, verdict, codes, calls, ctx, tally>>

\* ... or the fill stops with an error of its own, its last fields written.
FillFails(u) ==
  /\ pc[u] = "fill"
  /\ LET w == Encode(in[u]) IN
     \E k \in 1..Len(w) + 1 :
       scratch' = [scratch EXCEPT ![u] = FillFromEnd(@, size[u], SubSeq(w, k, Len(w)))]
  /\ err' = [err EXCEPT ![u] = CodecError(Opaque)]
  /\ Goto(u, "record")
  /\ UNCHANGED <<in, out, size, wire, reply, verdict, codes, calls, Run>>

\* InvokeInto: the server answers ...
Answered(u, a) ==
  /\ pc[u] = "invoke"
  /\ reply' = [reply EXCEPT ![u] = a]
  /\ Goto(u, "unmarshal")
  /\ UNCHANGED <<in, out, scratch, size, wire, verdict, err, codes, calls, Run>>

\* ... or refuses, with a status that poseidon, or a pool in front of it that
\* has tried before, returns alone, wrapped, or joined with another failure ...
Refused(u, code) ==
  /\ pc[u] = "invoke"
  /\ verdict' = [verdict EXCEPT ![u] = code]
  /\ \E e \in {StatusErr(code), Wrap(StatusErr(code))}
              \cup {Join(StatusErr(code), Sentinel(s)) : s \in Transport}
              \cup {Join(Sentinel(s), StatusErr(code)) : s \in Transport} :
       err' = [err EXCEPT ![u] = e]
  /\ Goto(u, "record")
  /\ UNCHANGED <<in, out, scratch, size, wire, reply, codes, calls, Run>>

\* ... or the call fails without it.
InvokeError(u, name) ==
  /\ pc[u] = "invoke"
  /\ err' = [err EXCEPT ![u] = Wrap(Sentinel(name))]
  /\ Goto(u, "record")
  /\ UNCHANGED <<in, out, scratch, size, wire, reply, verdict, codes, calls, Run>>

\* Mutant of Cancelled: the call does not look at its context.
CancelledIgnored(u) == FALSE

Cancelled(u) == ctx # "live" /\ InvokeError(u, ctx)

Unmarshal(u) ==
  /\ pc[u] = "unmarshal"
  /\ out' = [out EXCEPT ![u] = Unmarshalled(Methods[u], @, reply[u])]
  /\ err' = [err EXCEPT ![u] = IF UnmarshalOK(Methods[u], reply[u]) THEN <<>>
                               ELSE CodecError(Opaque)]
  /\ Goto(u, "record")
  /\ UNCHANGED <<in, scratch, size, wire, reply, verdict, codes, calls, Run>>

\* record; what was local to the call is gone.
Record(u) ==
  /\ pc[u] = "record"
  /\ codes' = [codes EXCEPT ![u][StatusOf(err[u])] = @ + 1]
  /\ Goto(u, "loop")
  /\ size' = [size EXCEPT ![u] = 0] /\ wire' = [wire EXCEPT ![u] = <<>>]
  /\ reply' = [reply EXCEPT ![u] = None] /\ verdict' = [verdict EXCEPT ![u] = None]
  /\ err' = [err EXCEPT ![u] = <<>>]
  /\ UNCHANGED <<in, out, scratch, calls, Run>>

-----------------------------------------------------------------------------
(* Around the users.                                                       *)

\* Another goroutine changes the request of u.
Mutate(u, m) ==
  /\ u \in Mutable /\ pc[u] = "fill"
  /\ in' = [in EXCEPT ![u] = m]
  /\ UNCHANGED <<pc, out, scratch, size, wire, reply, verdict, err, codes, calls, Run>>

\* The run's deadline passes, or it is interrupted.
CtxEnds ==
  /\ ctx = "live"
  /\ ctx' \in {"context.DeadlineExceeded", "context.Canceled"}
  /\ UNCHANGED <<pc, in, out, scratch, size, wire, reply, verdict, err, codes, calls,
                 crashed, tally>>

\* Mutant of ReportDone: the report does not wait for the users.
ReportEarly ==
  /\ tally = <<>> /\ ctx # "live"
  /\ tally' = Merged
  /\ UNCHANGED <<pc, in, out, scratch, size, wire, reply, verdict, err, codes, calls,
                 ctx, crashed>>

\* wg.Wait, merge, report.
ReportDone ==
  /\ tally = <<>> /\ \A u \in Users : pc[u] = "done"
  /\ tally' = Merged
  /\ UNCHANGED <<pc, in, out, scratch, size, wire, reply, verdict, err, codes, calls,
                 ctx, crashed>>

\* What a user does by itself; a call whose context has ended returns.
Step(u) == \/ Begin(u) \/ Stop(u) \/ Marshal(u) \/ Fill(u) \/ FillFails(u) \/ Cancelled(u)
           \/ Unmarshal(u) \/ Record(u)

Peer(u) == \/ \E a \in Answers : Answered(u, a)
           \/ \E c \in PeerCodes : Refused(u, c)
           \/ \E s \in Transport : InvokeError(u, s)

Next == /\ ~crashed
        /\ \/ \E u \in Users : \/ Step(u) \/ Peer(u)
                               \/ \E m \in Messages : Mutate(u, m)
           \/ CtxEnds \/ ReportDone

Spec == Init /\ [][Next]_vars

\* Users keep running and the deadline passes; the server need not answer.
FairSpec == /\ Spec
            /\ \A u \in Users : WF_vars(~crashed /\ Step(u))
            /\ WF_vars(~crashed /\ CtxEnds) /\ WF_vars(~crashed /\ ReportDone)

-----------------------------------------------------------------------------
(* Properties.                                                             *)

\* A call is filed under OK only if the server has answered it, and then the
\* reply, which every call of the user decodes into, is that answer and
\* nothing of an earlier one (vtcodec/codec.go:39-43, main.go:151-153).
OKIsThisAnswer ==
  \A u \in Users : pc[u] = "record" /\ StatusOf(err[u]) = "OK" =>
    reply[u] # None /\ Encode(out[u]) = reply[u]

\* What is sent is the encoding of the request as the fill read it, with no
\* byte of what the scratch held before (vtcodec/codec.go:130-137).
WireIsTheRequest ==
  [][\A u \in Users : pc[u] # "invoke" /\ pc'[u] = "invoke" =>
       wire'[u] = Encode(in[u])]_vars

\* "A real status outranks everything: it is the server's own diagnosis"
\* (status.go:48-49), however it was wrapped and whatever it was joined with.
ServersDiagnosisWins ==
  \A u \in Users : pc[u] = "record" /\ verdict[u] # None =>
    StatusOf(err[u]) = verdict[u]

\* The report counts every call of every user once.
EveryCallIsCounted == tally # <<>> => Total(tally) = Total(calls)

\* "Ctrl-C stops the run and still prints the report" (main.go:68-69), and so
\* does the deadline, with a silent server too; unless a request was mutated
\* under the codec, which then panics.
RunEnds == <>(tally # <<>> \/ (crashed /\ Mutable # {}))

-----------------------------------------------------------------------------
(* The invariant behind OKIsThisAnswer, WireIsTheRequest and               *)
(* ServersDiagnosisWins.                                                   *)

\* What a cell of a scratch may hold.
Data == {m.scalar : m \in Messages \cup Replies}
          \cup UNION {Range(m.items) : m \in Messages \cup Replies}
Cells == [field : {"scalar", "item"}, value : Data] \cup {[field |-> "blank"]}

TypeInv ==
  /\ DOMAIN pc = Users /\ DOMAIN out = Users /\ DOMAIN wire = Users
  /\ DOMAIN reply = Users /\ DOMAIN verdict = Users /\ DOMAIN err = Users
  /\ in \in [Users -> Messages]
  /\ scratch \in [Users -> Seq(Cells)] /\ size \in [Users -> Nat]

CallInv(u) ==
  /\ pc[u] = "fill" => size[u] <= Len(scratch[u])
  /\ pc[u] = "unmarshal" => reply[u] \in Answers
  /\ verdict[u] # None => pc[u] = "record" /\ StatusOf(err[u]) = verdict[u]
  /\ pc[u] = "record" /\ StatusOf(err[u]) = "OK" =>
       reply[u] # None /\ Encode(out[u]) = reply[u]

IInv == TypeInv /\ \A u \in Users : CallInv(u)

(* The invariant behind EveryCallIsCounted: a user's bucket holds every    *)
(* call but the one it is in, and nobody is in a call any more at the      *)
(* report.                                                                 *)

InCall(u) == IF pc[u] \in {"loop", "done"} THEN 0 ELSE 1

CountInv ==
  /\ calls \in [Users -> Nat] /\ codes \in [Users -> [Outcomes -> Nat]]
  /\ \A u \in Users : /\ calls[u] = Total(codes[u]) + InCall(u)
                      /\ pc[u] = "record" => StatusOf(err[u]) \in Outcomes
  /\ tally # <<>> => tally = Merged /\ \A u \in Users : pc[u] = "done"
=============================================================================
