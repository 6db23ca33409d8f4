----------------------------- MODULE MCMetadata -----------------------------
(* Instances of Metadata for TLC.                                          *)
EXTENDS Metadata, TLC

CONSTANTS upper, lower, bin, bad,  \* keys: two spellings of one name, one
                                   \* binary, one that poseidon refuses
          tenant, sign,            \* names
          t1, v0, v1, v2, b1, b2,  \* a text value, binary values, bytes
          gen1, gen2, gen3

TheLower == upper :> tenant @@ lower :> tenant @@ bin :> sign
TheEncoding == v0 :> <<>> @@ v1 :> <<b1>> @@ v2 :> <<b2, b1>>
SymGens == Permutations({gen1, gen2, gen3})
=============================================================================
