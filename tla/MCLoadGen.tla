----------------------------- MODULE MCLoadGen ------------------------------
(* An instance of LoadGen for TLC, and StatusOf against the table in its   *)
(* documentation.                                                          *)
EXTENDS LoadGen

CONSTANTS u1, u2

\* A vtprotobuf message, and one that protobuf-go alone handles.
TheMethods == [u \in {u1, u2} |-> IF u = u1 THEN {"strict", "unmarshalVT", "reset", "proto"}
                                  ELSE {"proto"}]

Msg(scalar, items) == [scalar |-> scalar, items |-> items]
TheMessages == {Msg("x", <<>>), Msg(Absent, <<"y">>), Msg("x", <<"y">>)}
TheReplies == {Msg("ok", <<>>), Msg(Absent, <<"z">>)}

\* The table in the comment of StatusOf (status.go:27-37).
Documented ==
  [n \in UNION {Cases[i].names : i \in DOMAIN Cases} |->
     CASE n = "context.DeadlineExceeded" -> "DeadlineExceeded"
       [] n \in {"context.Canceled", "grpc.ErrStreamClosed", "grpc.ErrSendClosed"} -> "Canceled"
       [] n = "grpc.ErrMessageTooLarge" -> "ResourceExhausted"
       [] n \in {"grpc.ErrCompressed", "io.EOF"} -> "Internal"
       [] OTHER -> "Unavailable"]

ASSUME StatusTable ==
  \A n \in DOMAIN Documented :
    /\ StatusOf(Sentinel(n)) = Documented[n]
    /\ StatusOf(Wrap(Wrap(Sentinel(n)))) = Documented[n]
=============================================================================
