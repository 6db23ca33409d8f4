----------------------------- MODULE CallConfig -----------------------------
(***************************************************************************)
(* pgrpc/callopts.go: the per-call configuration and who may write into    *)
(* its slices.  A CallConfig holds two slices (request metadata, poseidon  *)
(* options); each has an owner pointer, and an append goes into the        *)
(* backing array only if the owner is the config itself.  Configs are      *)
(* copied by value, which copies slice headers and owner pointers but not  *)
(* arrays: the heap of arrays is explicit here, with their capacities.     *)
(* A call's configuration starts as a zero one to which the client's       *)
(* default options are applied (client.go, clientopts.go, resolve.go).     *)
(***************************************************************************)
EXTENDS Naturals, Sequences, Functions

CONSTANTS Configs,   \* CallConfig variables, by address
          NoOwner,   \* the nil owner
          Pool,      \* backing arrays that a slice of each part may get
          Nil,       \* the nil slice's array
          Parts,     \* slices of a config: "md", "pass"
          Fields,    \* metadata entries
          Opt,       \* a poseidon option
          Blank,     \* a cleared entry
          Borrowed,  \* caller-owned metadata slices: array -> its cells
          Visible,   \* ... and the length of the caller's slice header
          Codecs, NoCodec, Failures, NoErr,
          MaxLen,    \* bound: entries per slice, for each part
          Slack,     \* bound: spare capacity of a fresh array, for each part
          Defaults,  \* the client's default call options, see Apply
          AssignBack \* whether a config may get its own array back by assignment

ASSUME CallConfigAssumption ==
  /\ NoOwner \notin Configs /\ Blank \notin Fields
  /\ Parts \subseteq {"md", "pass"}
  /\ MaxLen \in [Parts -> Nat] /\ Slack \in [Parts -> Nat]
  /\ AssignBack \in BOOLEAN
  /\ \A k \in Parts : Nil \notin Pool[k] /\ DOMAIN Borrowed \cap Pool[k] = {}
  /\ \A k, l \in Parts : k # l => Pool[k] \cap Pool[l] = {}
  /\ Nil \notin DOMAIN Borrowed /\ DOMAIN Visible = DOMAIN Borrowed
  /\ \A a \in DOMAIN Borrowed : /\ Borrowed[a] \in Seq(Range(Borrowed[a]))
                                /\ Visible[a] \in 0..Len(Borrowed[a])

Arrays == (UNION {Pool[k] : k \in Parts}) \cup DOMAIN Borrowed \cup {Nil}

\* Poseidon options, in lists of which the nil ones have been dropped.
OptionLists == {<<>>, <<Opt>>}

\* A CallOption: what it does and the argument it was built with.
Options == [does : {"metadata"}, arg : DOMAIN Borrowed]
             \cup [does : {"field"}, arg : Fields]
             \cup [does : {"badHeader"}, arg : Failures]
             \cup [does : {"codec"}, arg : Codecs]
             \cup [does : {"poseidon"}, arg : OptionLists]

ASSUME DefaultsAssumption == Defaults \in Seq(Options)

VARIABLES heap,   \* the cells of each array, as many as its capacity
          slice,  \* per config and part: array and length
          owner,  \* per config and part: the owner pointer
          codec, err,
          todo    \* per config: default options still to be applied

vars == <<heap, slice, owner, codec, err, todo>>

NilSlice == [arr |-> Nil, len |-> 0]

Contents(c, k) == SubSeq(heap[slice[c][k].arr], 1, slice[c][k].len)

\* Mutant of Owned: a latch ("somebody has adopted") instead of a pointer.
OwnedLatch(c, k) == owner[c][k] # NoOwner
Owned(c, k) == owner[c][k] = c

\* What a cell of an array may hold.
Cells == Fields \cup {Opt, Blank} \cup UNION {Range(Borrowed[b]) : b \in DOMAIN Borrowed}

MemoryOK ==
  /\ heap \in [Arrays -> Seq(Cells)]
  /\ slice \in [Configs -> [Parts -> [arr : Arrays, len : Nat]]]
  /\ \A c \in Configs, k \in Parts : slice[c][k].len <= Len(heap[slice[c][k].arr])
  /\ owner \in [Configs -> [Parts -> Configs \cup {NoOwner}]]

TypeOK ==
  /\ MemoryOK
  /\ codec \in [Configs -> Codecs \cup {NoCodec}]
  /\ err \in [Configs -> Failures \cup {NoErr}]
  /\ todo \in [Configs -> 0..Len(Defaults)]

\* Zero CallConfigs, which are ready to use.
Init ==
  /\ heap = [a \in Arrays |->
               IF a \in DOMAIN Borrowed THEN Borrowed[a] ELSE <<>>]
  /\ slice = [c \in Configs |-> [k \in Parts |-> NilSlice]]
  /\ owner = [c \in Configs |-> [k \in Parts |-> NoOwner]]
  /\ codec = [c \in Configs |-> NoCodec]
  /\ err = [c \in Configs |-> NoErr]
  /\ todo = [c \in Configs |-> 0]

-----------------------------------------------------------------------------
(* The Go runtime: arrays nobody refers to are reclaimed.                  *)

Used(sl) == {sl[c][k].arr : c \in Configs, k \in Parts}
              \cup DOMAIN Borrowed \cup {Nil}

Collect(h, sl) ==
  LET used == Used(sl)
  IN [a \in Arrays |-> IF a \in used THEN h[a] ELSE <<>>]

\* Config c's part k becomes the slice s over heap h.
Install(c, k, s, h) ==
  /\ slice' = [slice EXCEPT ![c][k] = s]
  /\ heap' = Collect(h, slice')

-----------------------------------------------------------------------------
(* Modifying a config.                                                     *)

\* Mutant of AppendTo: appending does not grow the array.
AppendToNoGrow(c, k, s) ==
  LET all == Contents(c, k) \o s
      arr == IF slice[c][k].arr # Nil THEN slice[c][k].arr
             ELSE CHOOSE a \in Pool[k] : a \notin Used(slice)
  IN
  /\ Len(all) <= MaxLen[k]
  /\ owner' = [owner EXCEPT ![c][k] = c]
  /\ Install(c, k, [arr |-> arr, len |-> Len(all)],
             [heap EXCEPT ![arr] = SubSeq(all, 1, Len(@))])

\* adopt, then append(slice, s...): in place if the array is the config's own
\* and has room, else in a fresh array that holds both.
AppendTo(c, k, s) ==
  LET arr == slice[c][k].arr
      n == slice[c][k].len
      all == Contents(c, k) \o s
  IN
  /\ Len(all) <= MaxLen[k]
  /\ owner' = [owner EXCEPT ![c][k] = c]
  /\ IF Owned(c, k) /\ Len(all) <= Len(heap[arr])
     THEN Install(c, k, [arr |-> arr, len |-> Len(all)],
                  [heap EXCEPT ![arr] = all \o SubSeq(@, Len(all) + 1, Len(@))])
     ELSE IF all = <<>> THEN Install(c, k, NilSlice, heap)
     ELSE \E a \in Pool[k] \ Used([slice EXCEPT ![c][k] = NilSlice]), room \in 0..Slack[k] :
            Install(c, k, [arr |-> a, len |-> Len(all)],
                    [heap EXCEPT ![a] = all \o [i \in 1..room |-> Blank]])

FailWith(c, e) == err' = [err EXCEPT ![c] = IF @ = NoErr THEN e ELSE @]

AppendField(c, f) ==
  /\ "md" \in Parts
  /\ AppendTo(c, "md", <<f>>)
  /\ UNCHANGED <<codec, err>>

\* A header poseidon's checks refuse: the metadata has been adopted, keeps
\* what it had, and the failure is latched.
AppendHeaderFails(c, e) ==
  /\ "md" \in Parts
  /\ AppendTo(c, "md", <<>>)
  /\ FailWith(c, e)
  /\ UNCHANGED codec

Fail(c, e) == FailWith(c, e) /\ UNCHANGED <<heap, slice, owner, codec>>

\* SetMetadata installs the caller's slice by reference, as borrowed.
SetMetadata(c, b) ==
  /\ "md" \in Parts
  /\ Install(c, "md", [arr |-> b, len |-> Visible[b]], heap)
  /\ owner' = [owner EXCEPT ![c]["md"] = NoOwner]
  /\ UNCHANGED <<codec, err>>

\* Mutant of WithMetadata: installed by reference, yet marked as owned.
WithMetadataOwned(c, b) ==
  /\ "md" \in Parts
  /\ IF slice[c]["md"].len = 0 /\ ~Owned(c, "md")
     THEN /\ Install(c, "md", [arr |-> b, len |-> Visible[b]], heap)
          /\ owner' = [owner EXCEPT ![c]["md"] = c]
     ELSE AppendTo(c, "md", SubSeq(heap[b], 1, Visible[b]))
  /\ UNCHANGED <<codec, err>>

\* WithMetadata borrows if there is nothing to keep, else appends a copy.
WithMetadata(c, b) ==
  /\ "md" \in Parts
  /\ IF slice[c]["md"].len = 0 /\ ~Owned(c, "md")
     THEN /\ Install(c, "md", [arr |-> b, len |-> Visible[b]], heap)
          /\ owner' = [owner EXCEPT ![c]["md"] = NoOwner]
     ELSE AppendTo(c, "md", SubSeq(heap[b], 1, Visible[b]))
  /\ UNCHANGED <<codec, err>>

\* The options that are not nil are appended; all may be.
AppendPoseidonOptions(c, s) ==
  /\ "pass" \in Parts
  /\ AppendTo(c, "pass", s)
  /\ UNCHANGED <<codec, err>>

SetCodec(c, cd) ==
  /\ codec' = [codec EXCEPT ![c] = cd]
  /\ UNCHANGED <<heap, slice, owner, err>>

\* The parts whose array another config still reads: the documented exception,
\* Reset of an original whose copies have not been modified, is left out.
Shared(c) == {k \in Parts : /\ Owned(c, k) /\ slice[c][k].len > 0
                            /\ \E d \in Configs \ {c} :
                                 /\ slice[d][k].arr = slice[c][k].arr
                                 /\ slice[d][k].len > 0}

\* Mutant of Cleared: Reset truncates without clearing.
NotCleared(c, h) == h

\* What Reset leaves of part k: its own array cleared and kept, a borrowed one
\* dropped.
Cleared(c, h) ==
  [a \in DOMAIN h |->
     IF \E k \in Parts : Owned(c, k) /\ slice[c][k].arr = a
     THEN [i \in DOMAIN h[a] |->
             IF \E k \in Parts : slice[c][k].arr = a /\ i <= slice[c][k].len
             THEN Blank ELSE h[a][i]]
     ELSE h[a]]

Reset(c) ==
  /\ Shared(c) = {}
  /\ slice' = [slice EXCEPT ![c] = [k \in Parts |->
                 IF Owned(c, k) THEN [@[k] EXCEPT !.len = 0] ELSE NilSlice]]
  /\ heap' = Collect(Cleared(c, heap), slice')
  /\ owner' = [owner EXCEPT ![c] = [k \in Parts |-> c]]
  /\ codec' = [codec EXCEPT ![c] = NoCodec]
  /\ err' = [err EXCEPT ![c] = NoErr]

\* The assignment *c = *d: a struct copy.
Assign(c, d) ==
  /\ c # d
  /\ AssignBack \/ \A k \in Parts : owner[d][k] # c
  /\ slice' = [slice EXCEPT ![c] = slice[d]]
  /\ owner' = [owner EXCEPT ![c] = owner[d]]
  /\ codec' = [codec EXCEPT ![c] = codec[d]]
  /\ err' = [err EXCEPT ![c] = err[d]]
  /\ heap' = Collect(heap, slice')

-----------------------------------------------------------------------------
(* Options, the client's defaults among them.                              *)

Apply(c, o) ==
  CASE o.does = "metadata"  -> WithMetadata(c, o.arg)
    [] o.does = "field"     -> AppendField(c, o.arg)
    [] o.does = "badHeader" -> AppendHeaderFails(c, o.arg)
    [] o.does = "codec"     -> SetCodec(c, o.arg)
    [] o.does = "poseidon"  -> AppendPoseidonOptions(c, o.arg)

\* A new config variable, of a call through the client face or of
\* NewCallConfig.  Its address is one no owner pointer refers to.
Declare(c) ==
  /\ \A d \in Configs \ {c}, k \in Parts : owner[d][k] # c
  /\ slice' = [slice EXCEPT ![c] = [k \in Parts |-> NilSlice]]
  /\ owner' = [owner EXCEPT ![c] = [k \in Parts |-> NoOwner]]
  /\ codec' = [codec EXCEPT ![c] = NoCodec]
  /\ err' = [err EXCEPT ![c] = NoErr]
  /\ heap' = Collect(heap, slice')
  /\ todo' = [todo EXCEPT ![c] = Len(Defaults)]

ApplyDefault(c) ==
  /\ todo[c] > 0
  /\ Apply(c, Defaults[Len(Defaults) - todo[c] + 1])
  /\ todo' = [todo EXCEPT ![c] = @ - 1]

\* What a program does with a config that has its defaults; *c = *d is also
\* how NewCallConfig returns.
Use(c) ==
  /\ todo[c] = 0
  /\ \/ \E o \in Options : Apply(c, o)
     \/ \E e \in Failures : Fail(c, e)
     \/ \E b \in DOMAIN Borrowed : SetMetadata(c, b)
     \/ Reset(c)
     \/ \E d \in Configs : todo[d] = 0 /\ Assign(c, d)
  /\ UNCHANGED todo

Next == \E c \in Configs : Declare(c) \/ ApplyDefault(c) \/ Use(c)

Spec == Init /\ [][Next]_vars

-----------------------------------------------------------------------------
(* Properties.                                                             *)

\* A config "can never write into memory the caller still owns"
\* (callopts.go:108-110): neither an append nor Reset changes a borrowed
\* array, its spare capacity included.
BorrowedIsUntouched == \A b \in DOMAIN Borrowed : heap[b] = Borrowed[b]

\* Reset clears rather than truncates (callopts.go:208-216): in the array a
\* config owns and will append to, nothing is left past its length.
NothingPastTheEnd ==
  \A c \in Configs : \A k \in Parts :
    LET a == slice[c][k].arr IN
    Owned(c, k) => \A i \in DOMAIN heap[a] : i > slice[c][k].len => heap[a][i] = Blank

\* What the configs hold, their memory abstracted away.
Vals == [c \in Configs |-> [parts |-> [k \in Parts |-> Contents(c, k)],
                           codec |-> codec[c], err |-> err[c]]]

\* What the caller's slice header over array b shows.
Seen(b) == SubSeq(Borrowed[b], 1, Visible[b])

\* What operations are given to append or install.
Given == OptionLists \cup {<<f>> : f \in Fields} \cup {Seen(b) : b \in DOMAIN Borrowed}

Values == INSTANCE ConfigValues WITH Inputs <- Given, vals <- Vals

\* Each operation called on c does to the values what it is for: SetMetadata
\* replaces, everything that appends extends what was there ("APPEND, not
\* replace", callopts.go:240), a failure is kept beside it.
DoesItsOwn(c) ==
  /\ \A f \in Fields : AppendField(c, f) => Values!Extend(c, "md", <<f>>)
  /\ \A e \in Failures : AppendHeaderFails(c, e) \/ Fail(c, e) => Values!Fail(c, e)
  /\ \A b \in DOMAIN Borrowed :
       /\ SetMetadata(c, b) => Values!Replace(c, Seen(b))
       /\ WithMetadata(c, b) => Values!Extend(c, "md", Seen(b))
  /\ \A s \in OptionLists : AppendPoseidonOptions(c, s) => Values!Extend(c, "pass", s)
  /\ \A cd \in Codecs : SetCodec(c, cd) => Values!SetCodec(c, cd)
  /\ Reset(c) \/ Declare(c) => Values!Reset(c)
  /\ \A d \in Configs : Assign(c, d) => Values!Assign(c, d)

\* "It is safe to copy BY VALUE: ... two copies never write into one array"
\* (callopts.go:45-46): whatever is copied and modified in whatever order, each
\* config reads back exactly what was done to it, and by the operation that was
\* called.
ConfigsAreValues == Values!Spec /\ [][\A c \in Configs : DoesItsOwn(c)]_vars

-----------------------------------------------------------------------------
(* The invariant behind the safety properties and the refinement.          *)

\* Where an array may occur: it has one type of entry, and a caller's slice is
\* never taken for the config's own.
PlaceInv ==
  /\ heap[Nil] = <<>>
  /\ \A c \in Configs, k \in Parts :
       /\ slice[c][k].arr \in Pool[k] \cup {Nil} \cup DOMAIN Borrowed
       /\ slice[c][k].arr \in DOMAIN Borrowed => k = "md" /\ owner[c][k] = NoOwner

\* An array has one owner at most, and nobody reads further than its owner.
OwnerInv ==
  \A c, d \in Configs, k \in Parts :
    /\ c # d /\ Owned(c, k)
    /\ slice[d][k].arr = slice[c][k].arr /\ slice[c][k].arr # Nil
    => ~Owned(d, k) /\ slice[d][k].len <= slice[c][k].len

MemoryInv ==
  /\ MemoryOK /\ PlaceInv /\ BorrowedIsUntouched
  /\ AssignBack \/ (OwnerInv /\ NothingPastTheEnd)

IInv == TypeOK /\ MemoryInv
=============================================================================
