------------------------------- MODULE MCCalls ------------------------------
(* Instances of Calls for TLC: four calls through one Caller and one       *)
(* through the client face, on a connection with two stream slots.         *)
EXTENDS Calls

CONSTANTS x, c1, c2, c3, c4, c5

TheCalls == {c1, c2, c3, c4, c5}
TheFaces == [c \in TheCalls |-> IF c = c5 THEN c5 ELSE x]
TheKinds == [c \in TheCalls |-> CASE c = c1 -> "unary"
                                  [] c = c2 -> "server"
                                  [] c = c3 -> "bidi"
                                  [] c = c4 -> "client"
                                  [] OTHER  -> "server"]
\* The codec of a unary call may panic; with Everywhere, that of a server
\* stream's request too.
OnlyUnary == [c \in TheCalls |->
                {"error"} \cup IF TheKinds[c] = "unary" THEN {"panic"} ELSE {}]
Everywhere == [c \in TheCalls |-> {"error", "panic"}]
=============================================================================
