------------------------------ MODULE Metadata ------------------------------
(***************************************************************************)
(* pgrpc/metadata.go: the request-metadata builder, which reuses its       *)
(* memory from one RPC to the next.  A text value is the caller's; a       *)
(* binary value is encoded into an arena the builder owns, and an entry    *)
(* records only WHERE (its span) until Fields binds it.  The arena moves   *)
(* when it grows: arena is the heap of its generations.                    *)
(***************************************************************************)
EXTENDS Integers, Sequences

CONSTANTS Keys,      \* the keys calls are given, in any case
          Lower,     \* the lowercased name of each key poseidon accepts
          BinNames,  \* names that end in -bin
          Texts,     \* text values
          Encode,    \* the base64 bytes of each binary value
          Bytes,     \* what those bytes are
          Gens,      \* generations of the arena
          NoValue,   \* the nil value of an unbound binary entry
          Blank,     \* a cleared entry, a cleared byte
          MaxLen,    \* bound: entries
          MaxBin,    \* bound: bytes in the arena
          Slack      \* bound: spare capacity after growth

ASSUME MetadataAssumption ==
  /\ DOMAIN Lower \subseteq Keys
  /\ \A v \in DOMAIN Encode : Encode[v] \in Seq(Bytes)
  /\ Blank \notin Bytes /\ NoValue \notin Texts
  /\ MaxLen \in Nat /\ MaxBin \in Nat /\ Slack \in Nat
  /\ \A t \in Texts, g \in Gens, off, n \in 0..MaxBin : t # [gen |-> g, off |-> off, n |-> n]

VARIABLES cells,  \* the array of fields, as long as its capacity
          spans,  \* the parallel spans; their number is the builder's length
          names,  \* keys whose names are interned
          arena,  \* the bytes of each generation, as long as its capacity
          gen,    \* the current generation
          used    \* bytes of it in use

vars == <<cells, spans, names, arena, gen, used>>

Names == {Lower[k] : k \in DOMAIN Lower}

\* Mutant of TextSpan: the zero span, which is that of an empty binary value.
TextSpanZero == [off |-> 0, n |-> 0]

TextSpan == [off |-> 0, n |-> -1]
IsBinary(i) == spans[i].n >= 0
Bound(g, off, n) == [gen |-> g, off |-> off, n |-> n]
Size == Len(spans)

IsBound(v) == v \notin Texts \cup {NoValue}

\* The generations that bound values keep alive.
Pinned(cs) == {cs[i].value.gen : i \in {j \in DOMAIN cs :
                                         cs[j] # Blank /\ IsBound(cs[j].value)}}

TypeOK ==
  /\ Size <= Len(cells)
  /\ \A i \in 1..Size :
       /\ cells[i].name \in Names /\ cells[i].idx \in {"incremental", "never"}
       /\ IsBinary(i) <=> cells[i].value \notin Texts
       /\ IsBinary(i) => spans[i].off + spans[i].n <= used
  /\ names \subseteq DOMAIN Lower
  /\ gen \in Gens /\ used \in 0..Len(arena[gen])
  /\ \A g \in Gens : arena[g] \in Seq(Bytes \cup {Blank})

\* The zero Metadata.
Init ==
  /\ cells = <<>> /\ spans = <<>> /\ names = {}
  /\ arena = [g \in Gens |-> <<>>] /\ gen \in Gens /\ used = 0

-----------------------------------------------------------------------------
(* Entries.                                                                *)

\* append(s, x) where s has n elements: in place, or in a larger array.
Grown(cs, n, x) ==
  IF n < Len(cs) THEN {[cs EXCEPT ![n + 1] = x]}
  ELSE {Append(cs, x) \o [i \in 1..room |-> Blank] : room \in 0..Slack}

\* Mutant of Compact: Set stops looking at the first match.
CompactFirst(f, sp) ==
  LET i == CHOOSE j \in 1..Size :
             /\ cells[j].name = f.name
             /\ \A k \in 1..(j - 1) : cells[k].name # f.name
  IN [cs |-> [cells EXCEPT ![i] = f], sp |-> [spans EXCEPT ![i] = sp], w |-> Size]

\* The loop of put: f takes the place of the first entry of its name, the
\* others of that name are dropped, the rest moves up.
Store(s, c, p, placed) ==
  [cs |-> [s.cs EXCEPT ![s.w + 1] = c], sp |-> [s.sp EXCEPT ![s.w + 1] = p],
   w |-> s.w + 1, placed |-> placed]

Round(f, sp, s, i) ==
  IF s.cs[i].name # f.name THEN Store(s, s.cs[i], s.sp[i], s.placed)
  ELSE IF s.placed THEN s ELSE Store(s, f, sp, TRUE)

Start == [cs |-> cells, sp |-> spans, w |-> 0, placed |-> FALSE]

Compact(f, sp) ==
  LET loop[i \in 0..Size] == IF i = 0 THEN Start ELSE Round(f, sp, loop[i - 1], i)
  IN loop[Size]

ClearTail(cs, w) == [i \in DOMAIN cs |-> IF i \in (w + 1)..Size THEN Blank ELSE cs[i]]

Put(f, sp, replace) ==
  IF replace /\ \E i \in 1..Size : cells[i].name = f.name
  THEN LET s == Compact(f, sp) IN
       cells' = ClearTail(s.cs, s.w) /\ spans' = SubSeq(s.sp, 1, s.w)
  ELSE /\ Size < MaxLen
       /\ cells' \in Grown(cells, Size, f)
       /\ spans' = Append(spans, sp)

-----------------------------------------------------------------------------
(* The operations.                                                         *)

\* SetText and SetSensitive (replace), AddText.  A key that poseidon refuses or
\* that ends in -bin is an error, and nothing has changed.
Text(key, v, idx, replace) ==
  /\ key \in DOMAIN Lower /\ Lower[key] \notin BinNames
  /\ names' = names \cup {key}
  /\ Put([name |-> Lower[key], value |-> v, idx |-> idx], TextSpan, replace)
  /\ UNCHANGED <<arena, gen, used>>

\* AppendEncode: the bytes b go after the used ones, in a new generation if the
\* current one has no room.  A generation nothing refers to is reclaimed.
Encoded(b) ==
  LET all == SubSeq(arena[gen], 1, used) \o b
      keep == Pinned(cells)
  IN
  /\ Len(all) <= MaxBin
  /\ used' = Len(all)
  /\ IF Len(all) <= Len(arena[gen])
     THEN /\ arena' = [arena EXCEPT ![gen] = all \o SubSeq(@, Len(all) + 1, Len(@))]
          /\ UNCHANGED gen
     ELSE \E g \in Gens \ (keep \cup {gen}), room \in 0..Slack :
            /\ gen' = g
            /\ arena' = [h \in Gens |->
                           IF h = g THEN all \o [i \in 1..room |-> Blank]
                           ELSE IF h \in keep THEN arena[h] ELSE <<>>]

\* Mutant of Binary: the value is bound when it is set.
BinaryBinds(key, v, replace) ==
  /\ key \in DOMAIN Lower
  /\ names' = names \cup {key}
  /\ IF Lower[key] \in BinNames
     THEN /\ Encoded(Encode[v])
          /\ Put([name |-> Lower[key], value |-> Bound(gen', used, used' - used),
                  idx |-> "incremental"],
                 [off |-> used, n |-> used' - used], replace)
     ELSE UNCHANGED <<cells, spans, arena, gen, used>>

\* SetBin (replace) and AddBin.  The key is interned before its suffix is
\* checked.
Binary(key, v, replace) ==
  /\ key \in DOMAIN Lower
  /\ names' = names \cup {key}
  /\ IF Lower[key] \in BinNames
     THEN /\ Encoded(Encode[v])
          /\ Put([name |-> Lower[key], value |-> NoValue, idx |-> "incremental"],
                 [off |-> used, n |-> used' - used], replace)
     ELSE UNCHANGED <<cells, spans, arena, gen, used>>

Refused(key) == key \notin DOMAIN Lower /\ UNCHANGED vars

\* Fields binds every binary value to the current arena.
Fields ==
  /\ cells' = [i \in DOMAIN cells |->
                 IF i \in 1..Size /\ IsBinary(i)
                 THEN [cells[i] EXCEPT !.value = Bound(gen, spans[i].off, spans[i].n)]
                 ELSE cells[i]]
  /\ arena' = [g \in Gens |-> IF g = gen THEN arena[g] ELSE <<>>]
  /\ UNCHANGED <<spans, names, gen, used>>

\* Mutant of Reset: the arena is truncated, not cleared.
ResetKeepsBytes ==
  /\ cells' = ClearTail(cells, 0) /\ spans' = <<>>
  /\ arena' = [g \in Gens |-> IF g = gen THEN arena[g] ELSE <<>>]
  /\ used' = 0
  /\ UNCHANGED <<names, gen>>

Reset ==
  /\ cells' = ClearTail(cells, 0) /\ spans' = <<>>
  /\ arena' = [g \in Gens |->
                 IF g = gen THEN [i \in DOMAIN arena[g] |->
                                    IF i <= used THEN Blank ELSE arena[g][i]]
                 ELSE <<>>]
  /\ used' = 0
  /\ UNCHANGED <<names, gen>>

Next ==
  \/ \E k \in Keys :
       \/ Refused(k)
       \/ \E v \in Texts, idx \in {"incremental", "never"}, replace \in BOOLEAN :
            (idx = "never" => replace) /\ Text(k, v, idx, replace)
       \/ \E v \in DOMAIN Encode, replace \in BOOLEAN : Binary(k, v, replace)
  \/ Fields \/ Reset

Spec == Init /\ [][Next]_vars

-----------------------------------------------------------------------------
(* Properties.                                                             *)

\* Replaced and reset entries "routinely mean credentials" (metadata.go:157-160
\* and 276-287): past its lengths the builder keeps neither entries nor bytes.
NothingPastTheEnd ==
  /\ \A i \in DOMAIN cells : i > Size => cells[i] = Blank
  /\ \A i \in DOMAIN arena[gen] : i > used => arena[gen][i] = Blank

\* Binding in Fields rather than at set time (metadata.go:244-250): however the
\* arena grew, the entries keep at most one generation of it alive.
OneGeneration ==
  \A g, h \in Pinned(cells) : g = h

\* An entry as poseidon will read it, once Fields has bound it to the arena a.
Read(c, p, a) ==
  [name |-> c.name, idx |-> c.idx,
   value |-> IF p.n >= 0 THEN SubSeq(a, p.off + 1, p.off + p.n) ELSE c.value]

Given == [name : Names, value : Texts \cup {Encode[v] : v \in DOMAIN Encode},
          idx : {"incremental", "never"}]

Listed == [i \in 1..Size |-> Read(cells[i], spans[i], arena[gen])]

Entries == INSTANCE MetadataEntries WITH Entry <- Given, entries <- Listed

\* Each operation does to the list what it is for: a Set replaces if there is
\* something to replace, an Add never does, Fields changes nothing.
ListsItsOwn ==
  /\ \A k \in DOMAIN Lower, replace \in BOOLEAN :
       /\ \A v \in Texts, idx \in {"incremental", "never"} :
            Text(k, v, idx, replace) =>
              Entries!Put([name |-> Lower[k], value |-> v, idx |-> idx], replace)
       /\ \A v \in DOMAIN Encode :
            Lower[k] \in BinNames /\ Binary(k, v, replace) =>
              Entries!Put([name |-> Lower[k], value |-> Encode[v], idx |-> "incremental"],
                          replace)
  /\ Fields => Listed' = Listed
  /\ Reset => Entries!Clear

\* Set replaces EVERY entry of the key (metadata.go:123-136), and the spans lead
\* to the right bytes whatever was moved, replaced or grown since: the builder
\* is a list of entries, which each operation changes as it should.
BuildsTheEntries == Entries!Spec /\ [][ListsItsOwn]_vars

-----------------------------------------------------------------------------
(* The invariant behind the safety properties.                             *)

Span == {TextSpan} \cup [off : 0..MaxBin, n : 0..MaxBin]
BoundValues == [gen : Gens, off : 0..MaxBin, n : 0..MaxBin]
Field == [name : Names, value : Texts \cup {NoValue} \cup BoundValues,
          idx : {"incremental", "never"}]

\* What an entry is, and its span: a text has none, and the bytes of a binary
\* value are among the u bytes in use.
Fits(c, p, u) ==
  /\ c \in Field /\ p \in Span
  /\ p.n >= 0 <=> c.value \notin Texts
  /\ p.n >= 0 => p.off + p.n <= u

EntriesInv ==
  /\ cells \in Seq(Field \cup {Blank}) /\ spans \in Seq(Span) /\ Size <= Len(cells)
  /\ \A i \in 1..Size : Fits(cells[i], spans[i], used)

ArenaInv ==
  /\ arena \in [Gens -> Seq(Bytes \cup {Blank})]
  /\ gen \in Gens /\ used \in 0..MaxBin /\ used <= Len(arena[gen])

IInv == /\ EntriesInv /\ ArenaInv /\ names \subseteq DOMAIN Lower
        /\ NothingPastTheEnd /\ OneGeneration
=============================================================================
