---------------------------- MODULE MCCallConfig ----------------------------
(* Instances of CallConfig for TLC.                                        *)
EXTENDS CallConfig, TLC

CONSTANTS x1, x2, x3,           \* configs
          ext, r1, r2, r3, r4,  \* arrays
          f1, f2                \* fields

\* A caller's slice of one entry with room for another.
OneBorrowed == ext :> <<f1, Blank>>
OneVisible == ext :> 1

\* A client whose calls all carry that slice and one more header.
TwoDefaults == <<[does |-> "metadata", arg |-> ext], [does |-> "field", arg |-> f2]>>

Lengths == [k \in Parts |-> IF k = "md" THEN 2 ELSE 1]
\* The first run has spare capacity only where Reset leaves it, in an array that
\* was longer; the other one also in fresh arrays.
NoRooms == [k \in Parts |-> 0]
Rooms == [k \in Parts |-> IF k = "md" THEN 1 ELSE 0]

\* One array for each config, which is as many as can be in use besides the
\* one that an append abandons.
ThreeArrays == [k \in Parts |-> {r1, r2, r3}]
TwoArrays == [k \in Parts |-> IF k = "md" THEN {r1, r2} ELSE {r3, r4}]

\* Array identities do not matter, nor do those of the configs.
SymThree == Permutations({r1, r2, r3}) \cup Permutations({x1, x2, x3})
SymTwo == Permutations({r1, r2}) \cup Permutations({r3, r4}) \cup Permutations({x1, x2})
=============================================================================
