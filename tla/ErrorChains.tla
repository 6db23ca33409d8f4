---------------------------- MODULE ErrorChains -----------------------------
(***************************************************************************)
(* pgrpc/status.go and errors.go: errors and their classification.  An     *)
(* error is the sequence of the errors in its tree in the order in which   *)
(* errors.Is and errors.As visit them (an error before what it wraps, its  *)
(* branches from left to right); nil is the empty sequence.  Each error of *)
(* the tree is a *Status with a code, a sentinel, or neither.              *)
(***************************************************************************)
EXTENDS Naturals, Sequences, FiniteSetsExt

StatusErr(code) == <<[kind |-> "status", is |-> code]>>
Sentinel(name) == <<[kind |-> "sentinel", is |-> name]>>
Opaque == <<[kind |-> "other", is |-> "other"]>>

Wrap(e) == Opaque \o e            \* fmt.Errorf with %w
Join(e, f) == Opaque \o e \o f    \* errors.Join

\* A CodecError unwraps to its own Internal status, then to the codec's cause.
CodecError(cause) == Opaque \o StatusErr("Internal") \o cause

Is(e, name) == \E i \in DOMAIN e : e[i].kind = "sentinel" /\ e[i].is = name

\* errors.As(err, &st): the places of the statuses, of which the first is found.
Statuses(e) == {i \in DOMAIN e : e[i].kind = "status"}

\* The cases of StatusOf's switch, in order.
Cases == <<
  [names |-> {"context.DeadlineExceeded"}, code |-> "DeadlineExceeded"],
  [names |-> {"context.Canceled"}, code |-> "Canceled"],
  [names |-> {"grpc.ErrMessageTooLarge"}, code |-> "ResourceExhausted"],
  [names |-> {"grpc.ErrCompressed"}, code |-> "Internal"],
  [names |-> {"conn.ErrConnClosed", "conn.ErrConnDraining", "conn.ErrGoAway",
              "conn.ErrTooManyStreams"}, code |-> "Unavailable"],
  [names |-> {"grpc.ErrStreamClosed", "grpc.ErrSendClosed"}, code |-> "Canceled"],
  [names |-> {"conn.ErrStreamClosed"}, code |-> "Unavailable"],
  [names |-> {"io.EOF"}, code |-> "Internal"] >>

SentinelCode(e) ==
  LET hits == {i \in DOMAIN Cases : \E n \in Cases[i].names : Is(e, n)}
  IN IF hits = {} THEN "Unknown" ELSE Cases[Min(hits)].code

StatusCode(e) == e[Min(Statuses(e))].is

\* Mutant of StatusOf: the sentinels are asked first.
StatusOfSentinels(e) ==
  IF e = <<>> THEN "OK"
  ELSE IF SentinelCode(e) # "Unknown" \/ Statuses(e) = {} THEN SentinelCode(e)
  ELSE StatusCode(e)

StatusOf(e) ==
  IF e = <<>> THEN "OK"
  ELSE IF Statuses(e) # {} THEN StatusCode(e)
  ELSE SentinelCode(e)

Codes == {"OK"} \cup {Cases[i].code : i \in DOMAIN Cases} \cup {"Unknown"}
=============================================================================
