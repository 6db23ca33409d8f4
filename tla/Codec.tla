------------------------------- MODULE Codec --------------------------------
(***************************************************************************)
(* pgrpc/vtcodec and pgrpc/protocodec.  A message has a scalar field, which *)
(* may be absent, and a repeated one; its encoding is the sequence of the   *)
(* fields that are present.  What a codec does depends on the methods the   *)
(* message's type has:                                                      *)
(*   "vt", "strict"     SizeVT with MarshalToSizedBufferVT or its strict    *)
(*                      form                                                *)
(*   "unmarshalVT"      UnmarshalVT, which MERGES into the message          *)
(*   "resetVT", "reset" ResetVT, Reset                                      *)
(*   "proto"            proto.Message, which protocodec needs               *)
(***************************************************************************)
EXTENDS Naturals, Sequences

Absent == "absent"
ZeroMessage == [scalar |-> Absent, items |-> <<>>]

Garbage == <<[field |-> "garbage"]>>   \* bytes that are no message

Encode(m) ==
  (IF m.scalar = Absent THEN <<>> ELSE <<[field |-> "scalar", value |-> m.scalar]>>)
    \o [i \in DOMAIN m.items |-> [field |-> "item", value |-> m.items[i]]]

\* UnmarshalVT: absent scalars are left alone, repeated fields appended to.  What
\* it reads has been encoded: a scalar comes first.
MergeInto(m, wire) ==
  LET present == wire # <<>> /\ wire[1].field = "scalar"
      items == IF present THEN Tail(wire) ELSE wire
  IN [scalar |-> IF present THEN wire[1].value ELSE m.scalar,
      items |-> m.items \o [i \in DOMAIN items |-> items[i].value]]

\* Which way MarshalAppend goes: the vtprotobuf one, protocodec's, or an error.
MarshalPath(methods) == IF methods \cap {"vt", "strict"} # {} THEN "vt"
                        ELSE IF "proto" \in methods THEN "proto" ELSE "error"

\* slices.Grow: an array of at least n cells.
Grow(array, n) ==
  IF Len(array) >= n THEN array ELSE [i \in 1..n |-> [field |-> "blank"]]

\* MarshalToSizedBufferVT on a buffer that is the first n cells of array: it
\* fills the buffer from its END.
FillFromEnd(array, n, wire) ==
  [i \in DOMAIN array |->
     IF i <= n /\ i > n - Len(wire) THEN wire[i - (n - Len(wire))] ELSE array[i]]

\* Mutant of FillOutcome: what was written is taken to be at the front.
FillOutcomeShort(n, wire) == IF Len(wire) > n THEN "panic" ELSE "ok"

\* It writes before the start of the buffer if the message has grown since
\* SizeVT, and MarshalAppend refuses a short write.
FillOutcome(n, wire) ==
  IF Len(wire) > n THEN "panic" ELSE IF Len(wire) < n THEN "error" ELSE "ok"

\* Which way Unmarshal goes: vtprotobuf's, protocodec's, or an error; a message
\* that would be merged into and cannot be reset is refused.
UnmarshalPath(methods) ==
  IF "unmarshalVT" \in methods
  THEN IF methods \cap {"resetVT", "reset"} # {} THEN "vt" ELSE "error"
  ELSE IF "proto" \in methods THEN "proto" ELSE "error"

\* Mutant of ResetMessage: vtprotobuf's messages are merged into as they are.
ResetMessageProto(methods, m) ==
  IF UnmarshalPath(methods) = "proto" THEN ZeroMessage ELSE m

\* The message the parse begins with: ResetVT or Reset has run, or
\* proto.Unmarshal with Merge off resets it.
ResetMessage(methods, m) ==
  IF UnmarshalPath(methods) = "error" THEN m ELSE ZeroMessage

UnmarshalOK(methods, wire) == UnmarshalPath(methods) # "error" /\ wire # Garbage

\* What Unmarshal leaves in m; of bytes that are no message, nothing.
Unmarshalled(methods, m, wire) ==
  IF UnmarshalOK(methods, wire) THEN MergeInto(ResetMessage(methods, m), wire)
  ELSE ResetMessage(methods, m)
=============================================================================
