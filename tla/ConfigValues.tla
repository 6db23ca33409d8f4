---------------------------- MODULE ConfigValues ----------------------------
(***************************************************************************)
(* What a CallConfig promises its users: it is a VALUE.  Each operation    *)
(* changes the configuration it is called on, as stated here, and no       *)
(* other; an assignment copies.                                            *)
(***************************************************************************)
EXTENDS Sequences

CONSTANTS Configs,
          Parts,     \* "md": the metadata, "pass": the poseidon options
          Inputs,    \* the sequences operations are given
          Codecs, NoCodec, Failures, NoErr

VARIABLE vals  \* per configuration: the sequence of each part, codec, error

Zero == [parts |-> [k \in Parts |-> <<>>], codec |-> NoCodec, err |-> NoErr]

Init == vals = [c \in Configs |-> Zero]

\* An operation on c leaves every other configuration alone ...
OnlyChanges(c) == \A d \in Configs \ {c} : vals'[d] = vals[d]

\* ... and makes c the value v.
Becomes(c, v) == vals'[c] = v /\ OnlyChanges(c)

Replace(c, s) == Becomes(c, [vals[c] EXCEPT !.parts["md"] = s])
Extend(c, k, s) == Becomes(c, [vals[c] EXCEPT !.parts[k] = @ \o s])
SetCodec(c, cd) == Becomes(c, [vals[c] EXCEPT !.codec = cd])
\* The first failure is kept.
Fail(c, e) == Becomes(c, [vals[c] EXCEPT !.err = IF @ = NoErr THEN e ELSE @])
Assign(c, d) == Becomes(c, vals[d])
Reset(c) == Becomes(c, Zero)

Next == \E c \in Configs :
          /\ OnlyChanges(c)
          /\ \/ Reset(c)
             \/ \E d \in Configs : Assign(c, d)
             \/ \E s \in Inputs : Replace(c, s) \/ \E k \in Parts : Extend(c, k, s)
             \/ \E cd \in Codecs : SetCodec(c, cd)
             \/ \E e \in Failures : Fail(c, e)

Spec == Init /\ [][Next]_vals
=============================================================================
