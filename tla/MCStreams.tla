------------------------------ MODULE MCStreams -----------------------------
(* Instances of Streams for TLC.                                           *)
EXTENDS Streams, TLC

CONSTANTS g1, g2, g3

TwoGoroutines == {g1, g2}
ThreeGoroutines == {g1, g2, g3}

\* Every goroutine calls everything, or each half of the stream has an owner.
AnyRole == [g \in ThreeGoroutines |-> {"recv", "send", "close"}]
AnyRoleTwo == [g \in TwoGoroutines |-> {"recv", "send", "close"}]
\* g1 receives and g3 sends with contexts of their own; g3 receives with the
\* stream's, and g2 sends and closes.
TwoPrivate == [g \in ThreeGoroutines |->
                 CASE g = g1 -> {"recv"}
                   [] g = g2 -> {"send", "close"}
                   [] OTHER  -> {"recv", "send"}]
SymTwo == Permutations(TwoGoroutines)
SymThree == Permutations(ThreeGoroutines)
=============================================================================
