--------------------------- MODULE MetadataProofs ---------------------------
(***************************************************************************)
(* The request-metadata builder, for every set of keys and values and      *)
(* every size of its array and its arena: past its lengths it keeps        *)
(* nothing, its spans stay inside the arena, and its entries keep at most  *)
(* one generation of the arena alive.                                      *)
(***************************************************************************)
EXTENDS Metadata, SequenceTheorems, FiniteSetTheorems, LeastElement, TLAPS

-----------------------------------------------------------------------------
(* Sequences.                                                              *)

\* The first n elements of a sequence.
LEMMA Prefix ==
  ASSUME NEW S, NEW s \in Seq(S), NEW n \in Nat, n <= Len(s)
  PROVE  /\ SubSeq(s, 1, n) \in Seq(S)
         /\ Len(SubSeq(s, 1, n)) = n
         /\ \A i \in 1..n : SubSeq(s, 1, n)[i] = s[i]
<1>1. \A i \in 1..n : s[i] \in S
  BY ElementOfSeq
<1> QED
  BY <1>1, SubSeqProperties

\* What follows the first n elements of a sequence.
LEMMA Suffix ==
  ASSUME NEW S, NEW s \in Seq(S), NEW n \in Nat, n <= Len(s)
  PROVE  /\ SubSeq(s, n + 1, Len(s)) \in Seq(S)
         /\ Len(SubSeq(s, n + 1, Len(s))) = Len(s) - n
         /\ \A i \in 1..(Len(s) - n) : SubSeq(s, n + 1, Len(s))[i] = s[n + i]
<1> DEFINE l == Len(s)
<1>1. l \in Nat
  BY LenProperties
<1>2. \A i \in (n + 1)..l : s[i] \in S
  BY ElementOfSeq
<1> HIDE DEF l
<1>3. /\ SubSeq(s, n + 1, l) \in Seq(S)
      /\ Len(SubSeq(s, n + 1, l)) = IF n + 1 <= l THEN l - (n + 1) + 1 ELSE 0
      /\ \A i \in 1..(l - (n + 1) + 1) : SubSeq(s, n + 1, l)[i] = s[n + 1 + i - 1]
  BY <1>1, <1>2, SubSeqProperties
<1>4. l - (n + 1) + 1 = l - n /\ n <= l /\ \A i \in Int : n + 1 + i - 1 = n + i
  BY <1>1 DEF l
<1>5. (IF n + 1 <= l THEN l - (n + 1) + 1 ELSE 0) = l - n
  BY <1>1, <1>4
<1>6. ASSUME NEW i \in 1..(l - n) PROVE SubSeq(s, n + 1, l)[i] = s[n + i]
  <2>1. i \in 1..(l - (n + 1) + 1) /\ n + 1 + i - 1 = n + i
    BY <1>1, <1>4
  <2> QED
    BY <1>3, <2>1
<1> QED
  BY <1>3, <1>5, <1>6 DEF l

\* Two sequences, one after the other.
LEMMA Joined ==
  ASSUME NEW S, NEW a \in Seq(S), NEW b \in Seq(S)
  PROVE  /\ a \o b \in Seq(S) /\ Len(a \o b) = Len(a) + Len(b)
         /\ \A i \in 1..Len(a) : (a \o b)[i] = a[i]
         /\ \A i \in 1..(Len(a) + Len(b)) : i > Len(a) => (a \o b)[i] = b[i - Len(a)]
<1>1. Len(a) \in Nat /\ Len(b) \in Nat
  BY LenProperties
<1>2. /\ a \o b \in Seq(S)
      /\ Len(a \o b) = Len(a) + Len(b)
      /\ \A i \in 1..(Len(a) + Len(b)) :
           (a \o b)[i] = IF i <= Len(a) THEN a[i] ELSE b[i - Len(a)]
  BY ConcatProperties
<1>3. ASSUME NEW i \in 1..Len(a) PROVE (a \o b)[i] = a[i]
  <2>1. i \in 1..(Len(a) + Len(b)) /\ i <= Len(a)
    BY <1>1
  <2> QED
    BY <1>2, <2>1
<1>4. ASSUME NEW i \in 1..(Len(a) + Len(b)), i > Len(a) PROVE (a \o b)[i] = b[i - Len(a)]
  <2>1. ~(i <= Len(a))
    BY <1>1, <1>4
  <2> QED
    BY <1>2, <2>1
<1> QED
  BY <1>2, <1>3, <1>4

-----------------------------------------------------------------------------
(* The loop of put.                                                        *)

\* The loop is a function: its rounds can be run, for every number of entries.
LEMMA LoopRuns ==
  ASSUME NEW f, NEW sp, Size \in Nat
  PROVE  \E g : g = [i \in 0..Size |-> IF i = 0 THEN Start ELSE Round(f, sp, g[i - 1], i)]
<1> DEFINE Runs(n, g) == g = [i \in 0..n |-> IF i = 0 THEN Start ELSE Round(f, sp, g[i - 1], i)]
           T == {n \in Nat : ~\E g : Runs(n, g)}
<1> SUFFICES ASSUME T # {} PROVE FALSE
  OBVIOUS
<1>1. PICK m \in T : \A n \in T : m <= n
  <2>1. T \subseteq Nat
    OBVIOUS
  <2> HIDE DEF T
  <2> QED
    BY <2>1, Least
<1>2. m # 0
  <2>1. Runs(0, [i \in 0..0 |-> Start])
    OBVIOUS
  <2> QED
    BY <2>1
<1>3. PICK g : Runs(m - 1, g)
  <2>1. m - 1 \in Nat /\ ~(m <= m - 1)
    BY <1>1, <1>2
  <2> QED
    BY <1>1, <2>1
<1> DEFINE h == [i \in 0..m |-> IF i = m THEN Round(f, sp, g[m - 1], m) ELSE g[i]]
<1>4. ASSUME NEW i \in 0..m
      PROVE  h[i] = IF i = 0 THEN Start ELSE Round(f, sp, h[i - 1], i)
  <2>0. m \in Nat /\ i \in Nat
    BY <1>1
  <2>1. CASE i = m
    <3>1. m - 1 \in 0..m /\ m - 1 # m /\ m \in 0..m
      BY <1>1, <1>2
    <3>2. h[m - 1] = g[m - 1] /\ h[m] = Round(f, sp, g[m - 1], m)
      BY <3>1
    <3> QED
      BY <1>2, <2>1, <3>2
  <2>2. CASE i # m
    <3>1. i \in 0..(m - 1) /\ (i # 0 => i - 1 \in 0..m /\ i - 1 # m)
      BY <2>0, <2>2
    <3>2. g[i] = IF i = 0 THEN Start ELSE Round(f, sp, g[i - 1], i)
      BY <1>3, <3>1
    <3>3. h[i] = g[i] /\ (i # 0 => h[i - 1] = g[i - 1])
      BY <2>2, <3>1
    <3> QED
      BY <3>2, <3>3
  <2> QED
    BY <2>1, <2>2
<1>5. Runs(m, h)
  <2>1. h = [i \in 0..m |-> h[i]]
    OBVIOUS
  <2> HIDE DEF h
  <2>2. [i \in 0..m |-> h[i]] = [i \in 0..m |-> IF i = 0 THEN Start ELSE Round(f, sp, h[i - 1], i)]
    BY <1>4
  <2> QED
    BY <2>1, <2>2
<1> HIDE DEF h, Runs
<1> QED
  BY <1>1, <1>5

\* The loop from its start, round by round.
LEMMA Loop ==
  ASSUME NEW f, NEW sp, Size \in Nat
  PROVE  \E g : /\ Compact(f, sp) = g[Size] /\ g[0] = Start
                /\ \A i \in 1..Size : g[i] = Round(f, sp, g[i - 1], i)
<1> DEFINE Runs(g) == g = [i \in 0..Size |-> IF i = 0 THEN Start ELSE Round(f, sp, g[i - 1], i)]
           loop == CHOOSE g : Runs(g)
<1>1. \E g : Runs(g)
  BY LoopRuns
<1>2. Compact(f, sp) = loop[Size]
  BY DEF Compact
<1> HIDE DEF Runs
<1>3. Runs(loop)
  BY <1>1
<1> HIDE DEF loop
<1>4. loop = [i \in 0..Size |-> IF i = 0 THEN Start ELSE Round(f, sp, loop[i - 1], i)]
  BY <1>3 DEF Runs
<1>5. /\ loop[0] = Start
      /\ \A i \in 1..Size : loop[i] = Round(f, sp, loop[i - 1], i)
  BY <1>4
<1> QED
  BY <1>2, <1>5

-----------------------------------------------------------------------------
(* put.                                                                    *)

\* What the entries are made of after f with span sp has been put among them.
Pairs(f, sp) == {<<f, sp>>} \cup {<<cells[j], spans[j]>> : j \in 1..Size}

\* The loop of put after i rounds: w entries written, none that is not the new
\* one or an old one, and the rest as it was.
Compacted(f, sp, s, i) ==
  /\ s.w \in 0..i
  /\ s.cs \in Seq(Field \cup {Blank}) /\ Len(s.cs) = Len(cells)
  /\ s.sp \in Seq(Span) /\ Len(s.sp) = Size
  /\ \A j \in 1..Len(cells) : j > s.w => s.cs[j] = cells[j]
  /\ \A j \in 1..Size : j > s.w => s.sp[j] = spans[j]
  /\ \A j \in 1..s.w : <<s.cs[j], s.sp[j]>> \in Pairs(f, sp)

\* Storing an entry in the next place keeps the loop's invariant.
LEMMA StoreKeeps ==
  ASSUME EntriesInv, NEW f \in Field, NEW sp \in Span, NEW s, NEW i \in 1..Size,
         Compacted(f, sp, s, i - 1), NEW c \in Field, NEW p \in Span,
         <<c, p>> \in Pairs(f, sp), NEW b
  PROVE  Compacted(f, sp, Store(s, c, p, b), i)
<1> DEFINE t == Store(s, c, p, b)
           C == Field \cup {Blank}
<1>1. /\ s.w \in Nat /\ s.w <= i - 1 /\ s.w + 1 \in 1..i /\ i \in Nat
      /\ Len(cells) \in Nat /\ Size \in Nat /\ Size <= Len(cells)
  <2>1. s.w \in 0..(i - 1)
    BY DEF Compacted
  <2>2. Len(cells) \in Nat /\ Size \in Nat /\ Size <= Len(cells)
    BY LenProperties DEF EntriesInv, Size
  <2> QED
    BY <2>1, <2>2
<1>2. /\ s.cs \in Seq(C) /\ Len(s.cs) = Len(cells) /\ s.sp \in Seq(Span) /\ Len(s.sp) = Size
  BY DEF Compacted
<1>3. /\ t.cs = [s.cs EXCEPT ![s.w + 1] = c] /\ t.sp = [s.sp EXCEPT ![s.w + 1] = p]
      /\ t.w = s.w + 1
  BY DEF Store
<1> HIDE DEF t
<1>4. s.w + 1 \in 1..Len(s.cs) /\ s.w + 1 \in 1..Len(s.sp) /\ c \in C
  BY <1>1, <1>2
<1> HIDE DEF C
<1>5. /\ t.cs \in Seq(C) /\ Len(t.cs) = Len(cells)
      /\ \A j \in 1..Len(cells) : t.cs[j] = IF j = s.w + 1 THEN c ELSE s.cs[j]
  BY <1>2, <1>3, <1>4, ExceptSeq
<1>6. /\ t.sp \in Seq(Span) /\ Len(t.sp) = Size
      /\ \A j \in 1..Size : t.sp[j] = IF j = s.w + 1 THEN p ELSE s.sp[j]
  BY <1>2, <1>3, <1>4, ExceptSeq
<1>7. ASSUME NEW j \in 1..Len(cells), j > t.w PROVE t.cs[j] = cells[j]
  <2>1. j # s.w + 1 /\ j > s.w
    BY <1>1, <1>3, <1>7
  <2> QED
    BY <1>5, <2>1 DEF Compacted
<1>8. ASSUME NEW j \in 1..Size, j > t.w PROVE t.sp[j] = spans[j]
  <2>1. j # s.w + 1 /\ j > s.w
    BY <1>1, <1>3, <1>8
  <2> QED
    BY <1>6, <2>1 DEF Compacted
<1>9. ASSUME NEW j \in 1..t.w PROVE <<t.cs[j], t.sp[j]>> \in Pairs(f, sp)
  <2>1. j \in 1..Len(cells) /\ j \in 1..Size
    BY <1>1, <1>3
  <2>2. CASE j = s.w + 1
    BY <1>5, <1>6, <2>1, <2>2
  <2>3. CASE j # s.w + 1
    <3>1. j \in 1..s.w
      BY <1>1, <1>3, <2>3
    <3> QED
      BY <1>5, <1>6, <2>1, <2>3, <3>1 DEF Compacted
  <2> QED
    BY <2>2, <2>3
<1>10. t.w \in 0..i
  BY <1>1, <1>3
<1> QED
  BY <1>5, <1>6, <1>7, <1>8, <1>9, <1>10 DEF Compacted, t, C

\* The entries that setting f keeps a place for, and their order.
Places(f) == {i \in 1..Size : cells[i].name = f.name =>
                                \A j \in 1..(i - 1) : cells[j].name # f.name}
Rank(S, i) == Cardinality({k \in S : k <= i})

\* The loop of put after i rounds, entry by entry: each kept one is in its place,
\* and placed says whether the first of f's name has been met.
Ranked(f, sp, s, i) ==
  /\ s.w = Rank(Places(f), i)
  /\ s.placed \in BOOLEAN /\ (s.placed <=> \E j \in 1..i : cells[j].name = f.name)
  /\ \A k \in Places(f) : k <= i =>
       /\ s.cs[Rank(Places(f), k)] = (IF cells[k].name = f.name THEN f ELSE cells[k])
       /\ s.sp[Rank(Places(f), k)] = (IF cells[k].name = f.name THEN sp ELSE spans[k])

\* Ranks count: one more at every element, none elsewhere, never less.
LEMMA RankCounts ==
  ASSUME NEW S \in SUBSET Nat, NEW m \in Nat
  PROVE  /\ Rank(S, m) \in Nat
         /\ m # 0 => Rank(S, m) = IF m \in S THEN Rank(S, m - 1) + 1 ELSE Rank(S, m - 1)
         /\ \A k \in Nat : k <= m => Rank(S, k) <= Rank(S, m)
<1> DEFINE Upto(i) == {k \in S : k <= i}
<1>1. ASSUME NEW i \in Nat PROVE IsFiniteSet(Upto(i)) /\ Cardinality(Upto(i)) \in Nat
  <2>1. Upto(i) \in SUBSET Nat /\ \A k \in Upto(i) : k <= i
    OBVIOUS
  <2> HIDE DEF Upto
  <2>2. IsFiniteSet(Upto(i))
    BY <2>1, FS_BoundedSetOfNaturals
  <2> QED
    BY <2>2, FS_CardinalityType
<1>2. ASSUME m # 0
      PROVE  Rank(S, m) = IF m \in S THEN Rank(S, m - 1) + 1 ELSE Rank(S, m - 1)
  <2>0. \A k \in S : k <= m <=> (k <= m - 1 \/ k = m)
    OBVIOUS
  <2>1. m - 1 \in Nat /\ m \notin Upto(m - 1)
    BY <1>2
  <2>2. CASE m \in S
    <3>1. Upto(m) = Upto(m - 1) \cup {m}
      BY <2>0, <2>2
    <3>2. IsFiniteSet(Upto(m - 1))
      BY <1>1, <2>1
    <3> HIDE DEF Upto
    <3>3. Cardinality(Upto(m)) = Cardinality(Upto(m - 1)) + 1
      BY <2>1, <3>1, <3>2, FS_AddElement
    <3> QED
      BY <2>2, <3>3 DEF Rank, Upto
  <2>3. CASE m \notin S
    <3>1. Upto(m) = Upto(m - 1)
      BY <2>0, <2>3
    <3> QED
      BY <2>3, <3>1 DEF Rank
  <2> QED
    BY <2>2, <2>3
<1>3. ASSUME NEW k \in Nat, k <= m PROVE Rank(S, k) <= Rank(S, m)
  <2>0. \A j \in S : j <= k => j <= m
    BY <1>3
  <2>1. Upto(k) \in SUBSET Upto(m)
    BY <2>0
  <2>2. IsFiniteSet(Upto(m))
    BY <1>1
  <2> HIDE DEF Upto
  <2>3. Cardinality(Upto(k)) <= Cardinality(Upto(m))
    BY <2>1, <2>2, FS_Subset
  <2> QED
    BY <2>3 DEF Rank, Upto
<1>4. Rank(S, m) \in Nat
  BY <1>1 DEF Rank
<1> QED
  BY <1>2, <1>3, <1>4

\* Storing a kept entry puts it in its place.
LEMMA StoreRanks ==
  ASSUME EntriesInv, NEW f \in Field, NEW sp \in Span, NEW s, NEW i \in 1..Size,
         Compacted(f, sp, s, i - 1), Ranked(f, sp, s, i - 1), i \in Places(f),
         NEW c \in Field, NEW p \in Span,
         c = (IF cells[i].name = f.name THEN f ELSE cells[i]),
         p = (IF cells[i].name = f.name THEN sp ELSE spans[i]),
         NEW b \in BOOLEAN, b <=> \E j \in 1..i : cells[j].name = f.name
  PROVE  Ranked(f, sp, Store(s, c, p, b), i)
<1> DEFINE t == Store(s, c, p, b)
           C == Field \cup {Blank}
           S == Places(f)
           w == s.w
<1>1. /\ w \in Nat /\ w + 1 \in 1..i /\ i \in Nat /\ i # 0 /\ i - 1 \in Nat
      /\ Len(cells) \in Nat /\ Size \in Nat /\ Size <= Len(cells)
  <2>1. s.w \in 0..(i - 1)
    BY DEF Compacted
  <2>2. Len(cells) \in Nat /\ Size \in Nat /\ Size <= Len(cells)
    BY LenProperties DEF EntriesInv, Size
  <2> QED
    BY <2>1, <2>2
<1>2. s.cs \in Seq(C) /\ Len(s.cs) = Len(cells) /\ s.sp \in Seq(Span) /\ Len(s.sp) = Size
  BY DEF Compacted
<1>3. /\ t.cs = [s.cs EXCEPT ![w + 1] = c] /\ t.sp = [s.sp EXCEPT ![w + 1] = p]
      /\ t.w = w + 1 /\ t.placed = b
  BY DEF Store
<1> HIDE DEF t
<1>4. w + 1 \in 1..Len(s.cs) /\ w + 1 \in 1..Len(s.sp) /\ c \in C
  BY <1>1, <1>2
<1> HIDE DEF C, w
<1>5. \A j \in 1..Len(cells) : t.cs[j] = IF j = w + 1 THEN c ELSE s.cs[j]
  BY <1>2, <1>3, <1>4, ExceptSeq
<1>6. \A j \in 1..Size : t.sp[j] = IF j = w + 1 THEN p ELSE s.sp[j]
  BY <1>2, <1>3, <1>4, ExceptSeq
<1>7. S \in SUBSET Nat
  BY <1>1 DEF Places
<1>8. w = Rank(S, i - 1)
  BY DEF Ranked, w
<1>9. i \in S
  OBVIOUS
<1> HIDE DEF S
<1>10. Rank(S, i) = w + 1
  BY <1>1, <1>7, <1>8, <1>9, RankCounts
<1>11. ASSUME NEW k \in S, k <= i
       PROVE  /\ t.cs[Rank(S, k)] = (IF cells[k].name = f.name THEN f ELSE cells[k])
              /\ t.sp[Rank(S, k)] = (IF cells[k].name = f.name THEN sp ELSE spans[k])
  <2>1. w + 1 \in 1..Len(cells) /\ w + 1 \in 1..Size
    BY <1>1
  <2>2. CASE k = i
    <3>1. t.cs[w + 1] = c /\ t.sp[w + 1] = p
      BY <1>5, <1>6, <2>1
    <3> QED
      BY <1>10, <2>2, <3>1
  <2>3. CASE k # i
    <3>1. k \in Nat /\ k <= i - 1 /\ k # 0
      BY <1>1, <1>7, <1>11, <2>3 DEF S, Places
    <3>2. Rank(S, k) <= w /\ Rank(S, k) \in Nat
      BY <1>1, <1>7, <1>8, <3>1, RankCounts
    <3>3. Rank(S, k) >= 1
      <4>1. k - 1 \in Nat
        BY <3>1
      <4>2. Rank(S, k - 1) \in Nat
        BY <1>7, <4>1, RankCounts
      <4>3. Rank(S, k) = Rank(S, k - 1) + 1
        BY <1>7, <1>11, <3>1, RankCounts
      <4> QED
        BY <4>2, <4>3
    <3>4. Rank(S, k) \in 1..Len(cells) /\ Rank(S, k) \in 1..Size /\ Rank(S, k) # w + 1
      BY <1>1, <2>1, <3>2, <3>3
    <3>5. t.cs[Rank(S, k)] = s.cs[Rank(S, k)] /\ t.sp[Rank(S, k)] = s.sp[Rank(S, k)]
      BY <1>5, <1>6, <3>4
    <3>6. /\ s.cs[Rank(S, k)] = (IF cells[k].name = f.name THEN f ELSE cells[k])
          /\ s.sp[Rank(S, k)] = (IF cells[k].name = f.name THEN sp ELSE spans[k])
      BY <3>1 DEF Ranked, S
    <3> QED
      BY <3>5, <3>6
  <2> QED
    BY <2>2, <2>3
<1> QED
  BY <1>3, <1>10, <1>11 DEF Ranked, S, t

\* A round that finds another entry of f's name drops it.
LEMMA DropRanks ==
  ASSUME NEW f, NEW sp, NEW s, NEW i \in 1..Size, Size \in Nat, Ranked(f, sp, s, i - 1),
         cells[i].name = f.name, s.placed
  PROVE  Ranked(f, sp, s, i)
<1> DEFINE S == Places(f)
<1>1. PICK j \in 1..(i - 1) : cells[j].name = f.name
  BY DEF Ranked
<1>2. i \notin S
  BY <1>1 DEF Places
<1>3. S \in SUBSET Nat /\ i \in Nat /\ i # 0
  BY DEF Places
<1> HIDE DEF S
<1>4. Rank(S, i) = Rank(S, i - 1)
  BY <1>2, <1>3, RankCounts
<1>5. ASSUME NEW k \in S, k <= i PROVE k <= i - 1
  <2>1. k \in Nat /\ k # i
    BY <1>2, <1>3
  <2> QED
    BY <1>3, <1>5, <2>1
<1>6. \E l \in 1..i : cells[l].name = f.name
  OBVIOUS
<1> QED
  BY <1>4, <1>5, <1>6 DEF Ranked, S

\* After the loop, what has been written is made of the old entries and f, each
\* kept one in its place.
LEMMA CompactIs ==
  ASSUME EntriesInv, NEW f \in Field, NEW sp \in Span
  PROVE  /\ Compacted(f, sp, Compact(f, sp), Size)
         /\ Ranked(f, sp, Compact(f, sp), Size)
<1>0. Size \in Nat /\ Len(cells) \in Nat /\ Size <= Len(cells)
  BY LenProperties DEF EntriesInv, Size
<1>1. PICK g : /\ Compact(f, sp) = g[Size] /\ g[0] = Start
               /\ \A i \in 1..Size : g[i] = Round(f, sp, g[i - 1], i)
  BY <1>0, Loop, SMTT(30)
<1> DEFINE Good(x, i) == Compacted(f, sp, x, i) /\ Ranked(f, sp, x, i)
           T == {i \in 0..Size : ~Good(g[i], i)}
<1> SUFFICES ASSUME T # {} PROVE FALSE
  BY <1>0, <1>1
<1>2. PICK m \in T : \A i \in T : m <= i
  <2>1. T \subseteq Nat
    BY <1>0
  <2> HIDE DEF T
  <2> QED
    BY <2>1, Least
<1>3. Good(Start, 0)
  <2>1. Start.cs = cells /\ Start.sp = spans /\ Start.w = 0 /\ Start.placed = FALSE
    BY DEF Start
  <2>2. cells \in Seq(Field \cup {Blank}) /\ spans \in Seq(Span) /\ Len(spans) = Size
    BY DEF EntriesInv, Size
  <2>3. Rank(Places(f), 0) = 0 /\ ~\E k \in Places(f) : k <= 0
    <3>1. {k \in Places(f) : k <= 0} = {} /\ ~\E k \in Places(f) : k <= 0
      BY <1>0 DEF Places
    <3> QED
      BY <3>1, FS_EmptySet DEF Rank
  <2> HIDE DEF Start
  <2>4. Compacted(f, sp, Start, 0)
    BY <2>1, <2>2 DEF Compacted
  <2>5. Start.placed \in BOOLEAN /\ (Start.placed <=> \E j \in 1..0 : cells[j].name = f.name)
    <3>1. ~\E j \in 1..0 : cells[j].name = f.name
      OBVIOUS
    <3>2. Start.placed \in BOOLEAN /\ ~Start.placed
      BY <2>1, Zenon
    <3> QED
      BY <3>1, <3>2
  <2>6. Ranked(f, sp, Start, 0)
    BY <2>1, <2>3, <2>5 DEF Ranked
  <2> QED
    BY <2>4, <2>6
<1>4. m # 0 /\ m \in 1..Size /\ m - 1 \in 0..Size /\ ~(m <= m - 1)
  BY <1>0, <1>1, <1>2, <1>3
<1>5. Good(g[m - 1], m - 1)
  BY <1>2, <1>4
<1> DEFINE s == g[m - 1]
<1>6. /\ s.cs[m] = cells[m] /\ s.sp[m] = spans[m]
  <2>1. s.w \in 0..(m - 1) /\ m > s.w
    BY <1>4, <1>5 DEF Compacted
  <2>2. m \in 1..Len(cells)
    BY <1>0, <1>4
  <2> QED
    BY <1>4, <1>5, <2>1, <2>2 DEF Compacted
<1>7. /\ cells[m] \in Field /\ spans[m] \in Span /\ <<cells[m], spans[m]>> \in Pairs(f, sp)
      /\ <<f, sp>> \in Pairs(f, sp)
  BY <1>4 DEF EntriesInv, Fits, Pairs
<1> HIDE DEF s
<1>8. g[m] = Round(f, sp, s, m)
  BY <1>1, <1>4 DEF s
<1>9. Compacted(f, sp, s, m - 1) /\ Ranked(f, sp, s, m - 1)
  BY <1>5 DEF s
<1>10. CASE s.cs[m].name # f.name
  <2> DEFINE t == Store(s, cells[m], spans[m], s.placed)
  <2>1. g[m] = t
    BY <1>6, <1>8, <1>10 DEF Round
  <2>2. cells[m].name # f.name /\ m \in Places(f)
    BY <1>4, <1>6, <1>10 DEF Places
  <2>3. s.placed \in BOOLEAN /\ (s.placed <=> \E j \in 1..m : cells[j].name = f.name)
    <3>1. s.placed \in BOOLEAN /\ (s.placed <=> \E j \in 1..(m - 1) : cells[j].name = f.name)
      BY <1>9 DEF Ranked
    <3>2. (\E j \in 1..m : cells[j].name = f.name) <=> \E j \in 1..(m - 1) : cells[j].name = f.name
      <4>1. 1..m = (1..(m - 1)) \cup {m}
        BY <1>0, <1>4
      <4> QED
        BY <2>2, <4>1
    <3> QED
      BY <3>1, <3>2
  <2>4. Compacted(f, sp, t, m)
    BY <1>4, <1>7, <1>9, StoreKeeps
  <2>5. Ranked(f, sp, t, m)
    BY <1>4, <1>7, <1>9, <2>2, <2>3, StoreRanks
  <2> QED
    BY <1>2, <2>1, <2>4, <2>5
<1>11. CASE s.cs[m].name = f.name /\ s.placed
  <2>1. g[m] = s
    BY <1>8, <1>11 DEF Round
  <2>2. s.w \in 0..m
    BY <1>4, <1>9 DEF Compacted
  <2>3. Compacted(f, sp, s, m)
    BY <1>9, <2>2 DEF Compacted
  <2>4. Ranked(f, sp, s, m)
    BY <1>0, <1>4, <1>6, <1>9, <1>11, DropRanks
  <2> QED
    BY <1>2, <2>1, <2>3, <2>4
<1>12. CASE s.cs[m].name = f.name /\ ~s.placed
  <2> DEFINE t == Store(s, f, sp, TRUE)
  <2>1. g[m] = t
    BY <1>8, <1>12 DEF Round
  <2>2. cells[m].name = f.name /\ m \in Places(f)
    BY <1>4, <1>6, <1>9, <1>12 DEF Places, Ranked
  <2>3. TRUE <=> \E j \in 1..m : cells[j].name = f.name
    BY <1>4, <2>2
  <2>4. Compacted(f, sp, t, m)
    BY <1>4, <1>7, <1>9, StoreKeeps
  <2>5. Ranked(f, sp, t, m)
    BY <1>4, <1>9, <2>2, <2>3, StoreRanks
  <2> QED
    BY <1>2, <2>1, <2>4, <2>5
<1> QED
  BY <1>10, <1>11, <1>12

\* put, as its callers see it.
PutAs(f, sp) ==
  /\ cells' \in Seq(Field \cup {Blank}) /\ spans' \in Seq(Span)
  /\ Len(spans') <= Len(cells')
  /\ \A i \in 1..Len(spans') : <<cells'[i], spans'[i]>> \in Pairs(f, sp)
  /\ \A i \in 1..Len(cells') : i > Len(spans') => cells'[i] = Blank

\* Replacing leaves nothing past the end either: the freed places are cleared.
LEMMA ReplaceIs ==
  ASSUME EntriesInv, \A i \in 1..Len(cells) : i > Size => cells[i] = Blank,
         NEW f \in Field, NEW sp \in Span,
         cells' = ClearTail(Compact(f, sp).cs, Compact(f, sp).w),
         spans' = SubSeq(Compact(f, sp).sp, 1, Compact(f, sp).w)
  PROVE  /\ PutAs(f, sp) /\ Len(spans') = Compact(f, sp).w
         /\ \A i \in 1..Compact(f, sp).w : /\ cells'[i] = Compact(f, sp).cs[i]
                                          /\ spans'[i] = Compact(f, sp).sp[i]
<1> DEFINE s == Compact(f, sp)
           C == Field \cup {Blank}
<1>1. Compacted(f, sp, s, Size)
  BY CompactIs
<1>2. Size \in Nat /\ Len(cells) \in Nat /\ Size <= Len(cells)
  BY LenProperties DEF EntriesInv, Size
<1> HIDE DEF s
<1>3. /\ s.w \in Nat /\ s.w <= Size
      /\ s.cs \in Seq(C) /\ Len(s.cs) = Len(cells) /\ s.sp \in Seq(Span) /\ Len(s.sp) = Size
  BY <1>1, <1>2 DEF Compacted
<1>4. DOMAIN s.cs = 1..Len(cells)
  BY <1>3, LenProperties
<1>5. cells' = [i \in 1..Len(cells) |-> IF i \in (s.w + 1)..Size THEN Blank ELSE s.cs[i]]
  BY <1>4 DEF ClearTail, s
<1>6. \A i \in 1..Len(cells) : s.cs[i] \in C
  BY <1>3, ElementOfSeq
<1>7. cells' \in [1..Len(cells) -> C]
  BY <1>5, <1>6
<1>8. cells' \in Seq(C) /\ Len(cells') = Len(cells)
  BY <1>2, <1>7
<1>9. /\ spans' \in Seq(Span) /\ Len(spans') = s.w
      /\ \A i \in 1..s.w : spans'[i] = s.sp[i]
  <2>1. spans' = SubSeq(s.sp, 1, s.w)
    BY DEF s
  <2> DEFINE q == s.sp
             w == s.w
  <2>2. w \in Nat /\ q \in Seq(Span) /\ w <= Len(q)
    BY <1>3
  <2> HIDE DEF q, w
  <2>3. /\ SubSeq(q, 1, w) \in Seq(Span) /\ Len(SubSeq(q, 1, w)) = w
        /\ \A i \in 1..w : SubSeq(q, 1, w)[i] = q[i]
    BY <2>2, Prefix
  <2> QED
    BY <2>1, <2>3 DEF q, w
<1>10. ASSUME NEW i \in 1..s.w PROVE cells'[i] = s.cs[i]
  <2>1. i \in 1..Len(cells) /\ i \notin (s.w + 1)..Size
    BY <1>2, <1>3
  <2> QED
    BY <1>5, <2>1
<1>11. ASSUME NEW i \in 1..Len(cells), i > s.w PROVE cells'[i] = Blank
  <2>1. CASE i <= Size
    <3>1. i \in (s.w + 1)..Size
      BY <1>2, <1>3, <1>11, <2>1
    <3> QED
      BY <1>5, <3>1
  <2>2. CASE ~(i <= Size)
    <3>1. i \notin (s.w + 1)..Size /\ i > Size
      BY <1>2, <1>3, <2>2
    <3>2. s.cs[i] = cells[i]
      BY <1>1, <1>11 DEF Compacted
    <3> QED
      BY <1>5, <3>1, <3>2
  <2> QED
    BY <2>1, <2>2
<1>12. \A i \in 1..s.w : <<cells'[i], spans'[i]>> \in Pairs(f, sp)
  BY <1>1, <1>9, <1>10 DEF Compacted
<1>13. s.w <= Len(cells)
  BY <1>2, <1>3
<1>14. PutAs(f, sp)
  BY <1>8, <1>9, <1>11, <1>12, <1>13 DEF PutAs
<1> QED
  BY <1>9, <1>10, <1>14 DEF s

\* Appending: in place, or in a larger array with the old entries.
LEMMA AddIs ==
  ASSUME EntriesInv, \A i \in 1..Len(cells) : i > Size => cells[i] = Blank,
         NEW f \in Field, NEW sp \in Span,
         cells' \in Grown(cells, Size, f), spans' = Append(spans, sp)
  PROVE  /\ PutAs(f, sp) /\ Len(spans') = Size + 1
         /\ \A i \in 1..Size : cells'[i] = cells[i] /\ spans'[i] = spans[i]
         /\ cells'[Size + 1] = f /\ spans'[Size + 1] = sp
<1> DEFINE C == Field \cup {Blank}
<1>1. /\ Size \in Nat /\ Len(cells) \in Nat /\ Size <= Len(cells) /\ Len(spans) = Size
      /\ cells \in Seq(C) /\ spans \in Seq(Span) /\ f \in C /\ Blank \in C
  BY LenProperties DEF EntriesInv, Size
<1> HIDE DEF C
<1>2. /\ spans' \in Seq(Span) /\ Len(spans') = Size + 1
      /\ \A i \in 1..Size : spans'[i] = spans[i]
      /\ spans'[Size + 1] = sp
  BY <1>1, AppendProperties
<1>3. /\ cells' \in Seq(C) /\ Size + 1 <= Len(cells') /\ cells'[Size + 1] = f
      /\ \A i \in 1..Size : cells'[i] = cells[i]
      /\ \A i \in 1..Len(cells') : i > Size + 1 => cells'[i] = Blank
  <2>1. CASE Size < Len(cells)
    <3>1. cells' = [cells EXCEPT ![Size + 1] = f] /\ Size + 1 \in 1..Len(cells)
      BY <1>1, <2>1 DEF Grown
    <3>2. /\ cells' \in Seq(C) /\ Len(cells') = Len(cells)
          /\ \A j \in 1..Len(cells) : cells'[j] = IF j = Size + 1 THEN f ELSE cells[j]
      BY <1>1, <3>1, ExceptSeq
    <3>3. ASSUME NEW i \in 1..Size PROVE cells'[i] = cells[i]
      <4>1. i \in 1..Len(cells) /\ i # Size + 1
        BY <1>1
      <4> QED
        BY <3>2, <4>1
    <3>4. ASSUME NEW i \in 1..Len(cells'), i > Size + 1 PROVE cells'[i] = Blank
      <4>1. i \in 1..Len(cells) /\ i # Size + 1 /\ i > Size
        BY <1>1, <3>2, <3>4
      <4> QED
        BY <3>2, <4>1
    <3> QED
      BY <1>1, <3>1, <3>2, <3>3, <3>4
  <2>2. CASE ~(Size < Len(cells))
    <3>1. PICK room \in 0..Slack : cells' = Append(cells, f) \o [i \in 1..room |-> Blank]
      BY <2>2 DEF Grown
    <3> DEFINE a == Append(cells, f)
               b == [i \in 1..room |-> Blank]
    <3>2. /\ a \in Seq(C) /\ Len(a) = Size + 1 /\ a[Size + 1] = f
          /\ \A i \in 1..Size : a[i] = cells[i]
      BY <1>1, <2>2, AppendProperties
    <3>3. b \in Seq(C) /\ Len(b) = room /\ room \in Nat /\ \A i \in 1..room : b[i] = Blank
      BY <1>1, MetadataAssumption
    <3>4. cells' = a \o b
      BY <3>1
    <3> HIDE DEF a, b
    <3>5. /\ cells' \in Seq(C) /\ Len(cells') = Size + 1 + room
          /\ \A i \in 1..(Size + 1) : cells'[i] = a[i]
          /\ \A i \in 1..(Size + 1 + room) : i > Size + 1 => cells'[i] = b[i - (Size + 1)]
      <4>1. Len(a) = Size + 1 /\ Len(b) = room /\ a \in Seq(C) /\ b \in Seq(C)
        BY <3>2, <3>3
      <4>2. /\ a \o b \in Seq(C) /\ Len(a \o b) = Len(a) + Len(b)
            /\ \A i \in 1..Len(a) : (a \o b)[i] = a[i]
            /\ \A i \in 1..(Len(a) + Len(b)) : i > Len(a) => (a \o b)[i] = b[i - Len(a)]
        BY <4>1, Joined
      <4> QED
        BY <3>4, <4>1, <4>2
    <3>6. ASSUME NEW i \in 1..Len(cells'), i > Size + 1 PROVE cells'[i] = Blank
      <4>1. i \in 1..(Size + 1 + room) /\ i - (Size + 1) \in 1..room
        BY <1>1, <3>3, <3>5, <3>6
      <4> QED
        BY <3>3, <3>5, <3>6, <4>1
    <3> QED
      BY <1>1, <3>2, <3>3, <3>5, <3>6
  <2> QED
    BY <2>1, <2>2
<1>4. ASSUME NEW i \in 1..(Size + 1) PROVE <<cells'[i], spans'[i]>> \in Pairs(f, sp)
  <2>1. CASE i = Size + 1
    BY <1>2, <1>3, <2>1 DEF Pairs
  <2>2. CASE i # Size + 1
    <3>1. i \in 1..Size
      BY <1>1, <2>2
    <3> QED
      BY <1>2, <1>3, <3>1 DEF Pairs
  <2> QED
    BY <2>1, <2>2
<1>5. PutAs(f, sp)
  BY <1>2, <1>3, <1>4 DEF PutAs, C
<1> QED
  BY <1>2, <1>3, <1>5

\* Both ways.
LEMMA PutIs ==
  ASSUME EntriesInv, \A i \in 1..Len(cells) : i > Size => cells[i] = Blank,
         NEW f \in Field, NEW sp \in Span, NEW replace, Put(f, sp, replace)
  PROVE  PutAs(f, sp)
BY ReplaceIs, AddIs DEF Put

\* Every entry that put leaves behind is an entry: the new one by its own right,
\* the others because the arena has not shrunk.
LEMMA PutKeepsEntries ==
  ASSUME EntriesInv, NEW f, NEW sp, PutAs(f, sp), used \in Nat, used' \in Nat,
         used <= used', Fits(f, sp, used')
  PROVE  EntriesInv'
<1>1. ASSUME NEW i \in 1..Len(spans') PROVE Fits(cells'[i], spans'[i], used')
  <2>1. <<cells'[i], spans'[i]>> \in Pairs(f, sp)
    BY DEF PutAs
  <2>2. CASE <<cells'[i], spans'[i]>> = <<f, sp>>
    BY <2>2
  <2>3. CASE \E j \in 1..Size : <<cells'[i], spans'[i]>> = <<cells[j], spans[j]>>
    <3>1. PICK j \in 1..Size : cells'[i] = cells[j] /\ spans'[i] = spans[j]
      BY <2>3
    <3>2. Fits(cells[j], spans[j], used)
      BY DEF EntriesInv
    <3> DEFINE c == cells[j]
               q == spans[j]
    <3> HIDE DEF c, q
    <3>3. Fits(c, q, used) => Fits(c, q, used')
      <4>1. SUFFICES ASSUME q \in Span, q.n >= 0, q.off + q.n <= used
                     PROVE  q.off + q.n <= used'
        BY DEF Fits
      <4>2. q.off \in Int /\ q.n \in Int
        BY <4>1, MetadataAssumption DEF Span, TextSpan
      <4> QED
        BY <4>1, <4>2
    <3> QED
      BY <3>1, <3>2, <3>3 DEF c, q
  <2> QED
    BY <2>1, <2>2, <2>3 DEF Pairs
<1> QED
  BY <1>1 DEF EntriesInv, PutAs, Size

\* put binds nothing: no generation is kept alive that was not.
LEMMA PutPinsNothing ==
  ASSUME EntriesInv, NEW f, NEW sp, PutAs(f, sp), ~IsBound(f.value)
  PROVE  Pinned(cells') \subseteq Pinned(cells)
<1> SUFFICES ASSUME NEW g \in Pinned(cells') PROVE g \in Pinned(cells)
  OBVIOUS
<1>1. PICK i \in DOMAIN cells' : /\ cells'[i] # Blank /\ IsBound(cells'[i].value)
                                  /\ g = cells'[i].value.gen
  BY DEF Pinned
<1>2. Len(cells') \in Nat /\ Len(spans') \in Nat /\ DOMAIN cells' = 1..Len(cells')
  BY LenProperties DEF PutAs
<1>3. i \in 1..Len(spans')
  <2>1. ~(i > Len(spans'))
    BY <1>1, <1>2 DEF PutAs
  <2> QED
    BY <1>1, <1>2, <2>1
<1>4. <<cells'[i], spans'[i]>> \in Pairs(f, sp)
  BY <1>3 DEF PutAs
<1>5. <<cells'[i], spans'[i]>> # <<f, sp>>
  BY <1>1
<1>6. PICK j \in 1..Size : cells'[i] = cells[j]
  BY <1>4, <1>5 DEF Pairs
<1>7. j \in DOMAIN cells
  BY LenProperties DEF EntriesInv, Size
<1> QED
  BY <1>1, <1>6, <1>7 DEF Pinned

-----------------------------------------------------------------------------
(* The arena.                                                              *)

\* AppendEncode puts the new bytes after the used ones, keeps those, and leaves
\* nothing past the end, in place or in a new generation.
LEMMA EncodedIs ==
  ASSUME ArenaInv, \A i \in 1..Len(arena[gen]) : i > used => arena[gen][i] = Blank,
         NEW b \in Seq(Bytes), Encoded(b)
  PROVE  /\ ArenaInv' /\ used' = used + Len(b)
         /\ \A i \in 1..Len(arena'[gen']) : i > used' => arena'[gen'][i] = Blank
         /\ \A i \in 1..used : arena'[gen'][i] = arena[gen][i]
         /\ \A i \in 1..Len(b) : arena'[gen'][used + i] = b[i]
<1> DEFINE B == Bytes \cup {Blank}
           old == arena[gen]
           pre == SubSeq(old, 1, used)
           all == pre \o b
           new == arena'[gen']
<1>1. /\ old \in Seq(B) /\ Len(old) \in Nat /\ used \in Nat /\ used <= Len(old)
      /\ gen \in Gens /\ MaxBin \in Nat /\ Slack \in Nat
  <2>1. old \in Seq(B) /\ used \in 0..MaxBin /\ used <= Len(old) /\ gen \in Gens
    BY DEF ArenaInv
  <2> QED
    BY <2>1, LenProperties, MetadataAssumption
<1>2. b \in Seq(B) /\ Len(b) \in Nat
  OBVIOUS
<1>3. /\ Len(all) <= MaxBin /\ used' = Len(all)
      /\ \/ /\ Len(all) <= Len(old)
            /\ arena' = [arena EXCEPT ![gen] = all \o SubSeq(old, Len(all) + 1, Len(old))]
            /\ gen' = gen
         \/ \E g \in Gens, room \in 0..Slack :
              /\ gen' = g
              /\ arena' = [h \in Gens |->
                             IF h = g THEN all \o [i \in 1..room |-> Blank]
                             ELSE IF h \in Pinned(cells) THEN arena[h] ELSE <<>>]
  BY DEF Encoded
<1>4. Blank \in B /\ arena \in [Gens -> Seq(B)]
  BY DEF ArenaInv
<1> HIDE DEF B, old
<1>5. pre \in Seq(B) /\ Len(pre) = used /\ \A i \in 1..used : pre[i] = old[i]
  BY <1>1, Prefix
<1> HIDE DEF pre
<1>6. /\ all \in Seq(B) /\ Len(all) = used + Len(b)
      /\ \A i \in 1..used : all[i] = old[i]
      /\ \A i \in 1..Len(b) : all[used + i] = b[i]
  <2>1. /\ all \in Seq(B) /\ Len(all) = Len(pre) + Len(b)
        /\ \A i \in 1..Len(pre) : all[i] = pre[i]
        /\ \A i \in 1..(Len(pre) + Len(b)) : i > Len(pre) => all[i] = b[i - Len(pre)]
    BY <1>2, <1>5, Joined
  <2>2. ASSUME NEW i \in 1..Len(b) PROVE all[used + i] = b[i]
    <3>1. used + i \in 1..(used + Len(b)) /\ used + i > used /\ used + i - used = i
      BY <1>1, <1>2
    <3> QED
      BY <1>5, <2>1, <3>1
  <2> QED
    BY <1>5, <2>1, <2>2
<1> HIDE DEF all
<1> DEFINE Goal(t) == /\ t \in Seq(B) /\ new = all \o t
                      /\ \A i \in 1..Len(t) : t[i] = Blank
                      /\ gen' \in Gens /\ arena' \in [Gens -> Seq(B)]
<1>7. PICK t : Goal(t)
  <2>1. CASE /\ Len(all) <= Len(old) /\ gen' = gen
             /\ arena' = [arena EXCEPT ![gen] = all \o SubSeq(old, Len(all) + 1, Len(old))]
    <3> DEFINE t == SubSeq(old, Len(all) + 1, Len(old))
    <3>1. Len(all) \in Nat
      BY <1>1, <1>2, <1>6
    <3>2. /\ t \in Seq(B) /\ Len(t) = Len(old) - Len(all)
          /\ \A i \in 1..(Len(old) - Len(all)) : t[i] = old[Len(all) + i]
      BY <1>1, <2>1, <3>1, Suffix
    <3>3. ASSUME NEW i \in 1..Len(t) PROVE t[i] = Blank
      <4>1. Len(all) + i \in 1..Len(old) /\ Len(all) + i > used
        BY <1>1, <1>2, <1>6, <3>2
      <4>2. old[Len(all) + i] = Blank
        BY <4>1 DEF old
      <4> QED
        BY <3>2, <4>2
    <3>4. arena' = [arena EXCEPT ![gen] = all \o t]
      BY <2>1
    <3> HIDE DEF t
    <3>5. all \o t \in Seq(B)
      BY <1>6, <3>2, Joined
    <3>6. new = all \o t /\ arena' \in [Gens -> Seq(B)] /\ gen' \in Gens
      BY <1>1, <1>4, <2>1, <3>4, <3>5
    <3> QED
      BY <3>2, <3>3, <3>6
  <2>2. CASE \E g \in Gens, room \in 0..Slack :
              /\ gen' = g
              /\ arena' = [h \in Gens |->
                             IF h = g THEN all \o [i \in 1..room |-> Blank]
                             ELSE IF h \in Pinned(cells) THEN arena[h] ELSE <<>>]
    <3>1. PICK g \in Gens, room \in 0..Slack :
              /\ gen' = g
              /\ arena' = [h \in Gens |->
                             IF h = g THEN all \o [i \in 1..room |-> Blank]
                             ELSE IF h \in Pinned(cells) THEN arena[h] ELSE <<>>]
      BY <2>2
    <3> DEFINE t == [i \in 1..room |-> Blank]
    <3>2. t \in Seq(B) /\ \A i \in 1..Len(t) : t[i] = Blank
      BY <1>1, <1>4
    <3>3. arena' = [h \in Gens |-> IF h = g THEN all \o t
                                   ELSE IF h \in Pinned(cells) THEN arena[h] ELSE <<>>]
      BY <3>1
    <3> HIDE DEF t
    <3>4. all \o t \in Seq(B) /\ <<>> \in Seq(B)
      BY <1>6, <3>2, Joined
    <3>5. new = all \o t /\ gen' \in Gens
      BY <3>1, <3>3
    <3>6. arena' \in [Gens -> Seq(B)]
      BY <1>4, <3>3, <3>4
    <3> QED
      BY <3>2, <3>5, <3>6
  <2> QED
    BY <1>3, <2>1, <2>2
<1>8. /\ new \in Seq(B) /\ Len(new) = used' + Len(t) /\ Len(t) \in Nat
      /\ \A i \in 1..used' : new[i] = all[i]
      /\ \A i \in 1..(used' + Len(t)) : i > used' => new[i] = t[i - used']
  <2>1. /\ all \o t \in Seq(B) /\ Len(all \o t) = Len(all) + Len(t) /\ Len(t) \in Nat
        /\ \A i \in 1..Len(all) : (all \o t)[i] = all[i]
        /\ \A i \in 1..(Len(all) + Len(t)) : i > Len(all) => (all \o t)[i] = t[i - Len(all)]
    BY <1>6, <1>7, Joined, LenProperties
  <2> QED
    BY <1>3, <1>7, <2>1
<1> HIDE DEF new
<1>9. used' = used + Len(b) /\ used' \in Nat /\ used' <= MaxBin /\ used' <= Len(new)
  BY <1>1, <1>2, <1>3, <1>6, <1>8
<1>10. ASSUME NEW i \in 1..Len(new), i > used' PROVE new[i] = Blank
  <2>1. i \in 1..(used' + Len(t)) /\ i - used' \in 1..Len(t)
    BY <1>8, <1>9, <1>10
  <2> QED
    BY <1>7, <1>8, <1>10, <2>1
<1>11. ASSUME NEW i \in 1..used PROVE new[i] = old[i]
  <2>1. i \in 1..used'
    BY <1>1, <1>2, <1>9
  <2> QED
    BY <1>6, <1>8, <2>1
<1>12. ASSUME NEW i \in 1..Len(b) PROVE new[used + i] = b[i]
  <2>1. used + i \in 1..used'
    BY <1>1, <1>2, <1>9
  <2> QED
    BY <1>6, <1>8, <2>1
<1>13. ArenaInv'
  <2>1. used' \in 0..MaxBin
    BY <1>1, <1>9
  <2> QED
    BY <1>7, <1>9, <2>1 DEF ArenaInv, new, B
<1> QED
  BY <1>9, <1>10, <1>11, <1>12, <1>13 DEF new, old

-----------------------------------------------------------------------------
(* The operations.                                                         *)

\* The entry a text operation puts.
LEMMA TextEntry ==
  ASSUME ArenaInv, NEW key \in DOMAIN Lower, NEW v \in Texts,
         NEW idx \in {"incremental", "never"}
  PROVE  LET f == [name |-> Lower[key], value |-> v, idx |-> idx]
         IN /\ f \in Field /\ TextSpan \in Span
            /\ Fits(f, TextSpan, used) /\ ~IsBound(f.value)
<1> DEFINE f == [name |-> Lower[key], value |-> v, idx |-> idx]
<1>1. f \in Field /\ TextSpan \in Span
  BY DEF Field, Span, Names
<1>2. f.value = v /\ TextSpan.n = -1
  BY DEF TextSpan
<1>3. ~(-1 >= 0)
  OBVIOUS
<1> HIDE DEF f
<1>4. Fits(f, TextSpan, used) /\ ~IsBound(f.value)
  BY <1>1, <1>2, <1>3 DEF Fits, IsBound
<1> QED
  BY <1>1, <1>4 DEF f

\* The entry a binary operation puts, once its bytes are in the arena.
LEMMA BinaryEntry ==
  ASSUME used \in 0..MaxBin, used' \in 0..MaxBin, used <= used', NEW key \in DOMAIN Lower
  PROVE  LET f == [name |-> Lower[key], value |-> NoValue, idx |-> "incremental"]
             sp == [off |-> used, n |-> used' - used]
         IN /\ f \in Field /\ sp \in Span
            /\ Fits(f, sp, used') /\ ~IsBound(f.value)
<1> DEFINE f == [name |-> Lower[key], value |-> NoValue, idx |-> "incremental"]
           sp == [off |-> used, n |-> used' - used]
<1>1. used' - used \in 0..MaxBin /\ used' - used >= 0 /\ used + (used' - used) <= used'
  <2>1. MaxBin \in Nat
    BY MetadataAssumption
  <2>2. used \in Nat /\ used' \in Nat /\ used' <= MaxBin
    BY <2>1
  <2>3. used <= used'
    OBVIOUS
  <2> DEFINE u == used
             v == used'
  <2>4. u \in Nat /\ v \in Nat /\ v <= MaxBin /\ u <= v
    BY <2>2, <2>3
  <2> HIDE DEF u, v
  <2>5. v - u \in 0..MaxBin /\ v - u >= 0 /\ u + (v - u) <= v
    BY <2>1, <2>4
  <2> QED
    BY <2>5 DEF u, v
<1>2. f \in Field /\ sp \in Span
  BY <1>1 DEF Field, Span, Names
<1>3. f.value = NoValue /\ sp.off = used /\ sp.n = used' - used
  OBVIOUS
<1> HIDE DEF f, sp
<1>4. Fits(f, sp, used') /\ ~IsBound(f.value)
  BY <1>1, <1>2, <1>3, MetadataAssumption DEF Fits, IsBound
<1> QED
  BY <1>2, <1>4 DEF f, sp

\* After put, the entries and what they keep alive are in order.
LEMMA PutKeeps ==
  ASSUME EntriesInv, OneGeneration, \A i \in 1..Len(cells) : i > Size => cells[i] = Blank,
         NEW f \in Field, NEW sp \in Span, NEW replace, Put(f, sp, replace),
         used \in Nat, used' \in Nat, used <= used', Fits(f, sp, used'), ~IsBound(f.value)
  PROVE  /\ EntriesInv' /\ OneGeneration'
         /\ \A i \in 1..Len(cells') : i > Size' => cells'[i] = Blank
<1>1. PutAs(f, sp)
  BY PutIs
<1>2. EntriesInv'
  BY <1>1, PutKeepsEntries
<1>3. OneGeneration'
  BY <1>1, PutPinsNothing DEF OneGeneration
<1> QED
  BY <1>1, <1>2, <1>3 DEF PutAs, Size

\* The domains NothingPastTheEnd speaks of.
LEMMA Domains ==
  ASSUME EntriesInv, ArenaInv
  PROVE  DOMAIN cells = 1..Len(cells) /\ DOMAIN arena[gen] = 1..Len(arena[gen])
<1>1. cells \in Seq(Field \cup {Blank}) /\ arena[gen] \in Seq(Bytes \cup {Blank})
  BY DEF EntriesInv, ArenaInv
<1> QED
  BY <1>1, LenProperties

\* SetText, SetSensitive and AddText.
LEMMA TextKeeps ==
  ASSUME IInv, NEW key, NEW v \in Texts, NEW idx \in {"incremental", "never"}, NEW replace,
         Text(key, v, idx, replace)
  PROVE  IInv'
<1> DEFINE f == [name |-> Lower[key], value |-> v, idx |-> idx]
<1>0. /\ EntriesInv /\ ArenaInv /\ NothingPastTheEnd /\ OneGeneration
      /\ names \subseteq DOMAIN Lower
  BY DEF IInv
<1>1. /\ key \in DOMAIN Lower /\ names' = names \cup {key} /\ Put(f, TextSpan, replace)
      /\ arena' = arena /\ gen' = gen /\ used' = used
  BY DEF Text
<1>2. used \in Nat /\ used' \in Nat /\ used <= used'
  BY <1>0, <1>1, MetadataAssumption DEF ArenaInv
<1>3. f \in Field /\ TextSpan \in Span /\ Fits(f, TextSpan, used') /\ ~IsBound(f.value)
  BY <1>0, <1>1, TextEntry
<1> HIDE DEF f
<1>4. \A i \in 1..Len(cells) : i > Size => cells[i] = Blank
  BY <1>0, Domains DEF NothingPastTheEnd
<1>5. /\ EntriesInv' /\ OneGeneration'
      /\ \A i \in 1..Len(cells') : i > Size' => cells'[i] = Blank
  BY <1>0, <1>1, <1>2, <1>3, <1>4, PutKeeps
<1>6. ArenaInv'
  BY <1>0, <1>1 DEF ArenaInv
<1>7. DOMAIN cells' = 1..Len(cells')
  BY <1>5, LenProperties DEF EntriesInv
<1>8. NothingPastTheEnd'
  BY <1>0, <1>1, <1>5, <1>7 DEF NothingPastTheEnd
<1>9. (names \subseteq DOMAIN Lower)'
  BY <1>0, <1>1
<1> QED
  BY <1>5, <1>6, <1>8, <1>9 DEF IInv

\* SetBin and AddBin, whether the key takes binary values or is refused late.
LEMMA BinaryKeeps ==
  ASSUME IInv, NEW key, NEW v \in DOMAIN Encode, NEW replace, Binary(key, v, replace)
  PROVE  IInv'
<1> DEFINE f == [name |-> Lower[key], value |-> NoValue, idx |-> "incremental"]
           sp == [off |-> used, n |-> used' - used]
<1>0. /\ EntriesInv /\ ArenaInv /\ NothingPastTheEnd /\ OneGeneration
      /\ names \subseteq DOMAIN Lower
  BY DEF IInv
<1>1. key \in DOMAIN Lower /\ (names \subseteq DOMAIN Lower)'
  BY <1>0 DEF Binary
<1>2. CASE Lower[key] \notin BinNames
  <2>1. UNCHANGED <<cells, spans, arena, gen, used>>
    BY <1>2 DEF Binary
  <2> QED
    BY <1>0, <1>1, <2>1 DEF IInv, EntriesInv, ArenaInv, NothingPastTheEnd, OneGeneration, Size
<1>3. CASE Lower[key] \in BinNames
  <2>1. Encoded(Encode[v]) /\ Put(f, sp, replace)
    BY <1>3 DEF Binary
  <2>2. Encode[v] \in Seq(Bytes)
    BY MetadataAssumption
  <2>3. /\ \A i \in 1..Len(cells) : i > Size => cells[i] = Blank
        /\ \A i \in 1..Len(arena[gen]) : i > used => arena[gen][i] = Blank
    BY <1>0, Domains DEF NothingPastTheEnd
  <2>4. /\ ArenaInv' /\ used' = used + Len(Encode[v])
        /\ \A i \in 1..Len(arena'[gen']) : i > used' => arena'[gen'][i] = Blank
    BY <1>0, <2>1, <2>2, <2>3, EncodedIs
  <2>5. used \in 0..MaxBin /\ used' \in 0..MaxBin /\ Len(Encode[v]) \in Nat
    BY <1>0, <2>2, <2>4 DEF ArenaInv
  <2>6. used \in Nat /\ used' \in Nat /\ used <= used'
    BY <2>4, <2>5, MetadataAssumption
  <2>7. f \in Field /\ sp \in Span /\ Fits(f, sp, used') /\ ~IsBound(f.value)
    BY <1>1, <2>5, <2>6, BinaryEntry
  <2> HIDE DEF f, sp
  <2>8. /\ EntriesInv' /\ OneGeneration'
        /\ \A i \in 1..Len(cells') : i > Size' => cells'[i] = Blank
    BY <1>0, <2>1, <2>3, <2>6, <2>7, PutKeeps
  <2>9. DOMAIN cells' = 1..Len(cells') /\ DOMAIN arena'[gen'] = 1..Len(arena'[gen'])
    <3>1. cells' \in Seq(Field \cup {Blank}) /\ arena'[gen'] \in Seq(Bytes \cup {Blank})
      BY <2>4, <2>8 DEF EntriesInv, ArenaInv
    <3> QED
      BY <3>1, LenProperties
  <2>10. NothingPastTheEnd'
    BY <2>4, <2>8, <2>9 DEF NothingPastTheEnd
  <2> QED
    BY <1>1, <2>4, <2>8, <2>10 DEF IInv
<1> QED
  BY <1>2, <1>3

\* Binding an entry keeps it an entry: a binding is no text.
LEMMA BindKeeps ==
  ASSUME ArenaInv, NEW c, NEW p, Fits(c, p, used), p.n >= 0
  PROVE  LET d == [c EXCEPT !.value = Bound(gen, p.off, p.n)]
         IN /\ Fits(d, p, used) /\ d.value.gen = gen
            /\ d.name = c.name /\ d.idx = c.idx
<1> DEFINE d == [c EXCEPT !.value = Bound(gen, p.off, p.n)]
<1>1. c \in Field /\ p \in Span /\ p.off + p.n <= used /\ gen \in Gens
  BY DEF Fits, ArenaInv
<1>2. p.off \in 0..MaxBin /\ p.n \in 0..MaxBin
  <2>1. p # TextSpan
    BY DEF TextSpan
  <2> QED
    BY <1>1, <2>1 DEF Span
<1>3. Bound(gen, p.off, p.n) \in BoundValues /\ Bound(gen, p.off, p.n).gen = gen
  BY <1>1, <1>2 DEF BoundValues, Bound
<1>4. Bound(gen, p.off, p.n) \notin Texts
  BY <1>1, <1>2, MetadataAssumption DEF Bound
<1> DEFINE v == Bound(gen, p.off, p.n)
<1> HIDE DEF v
<1>5. /\ d \in Field /\ d.value = v /\ d.name = c.name /\ d.idx = c.idx
  BY <1>1, <1>3 DEF Field, v
<1> HIDE DEF d
<1>6. Fits(d, p, used)
  BY <1>1, <1>4, <1>5 DEF Fits, v
<1> QED
  BY <1>3, <1>5, <1>6 DEF d, v

\* Fields leaves every value that is bound in the current generation.
LEMMA FieldsKeeps ==
  ASSUME IInv, Fields
  PROVE  IInv'
<1> DEFINE C == Field \cup {Blank}
           Binds(i) == i \in 1..Size /\ IsBinary(i)
           d(i) == [cells[i] EXCEPT !.value = Bound(gen, spans[i].off, spans[i].n)]
<1>0. /\ EntriesInv /\ ArenaInv /\ NothingPastTheEnd /\ OneGeneration
      /\ names \subseteq DOMAIN Lower
  BY DEF IInv
<1>1. /\ cells' = [i \in 1..Len(cells) |-> IF Binds(i) THEN d(i) ELSE cells[i]]
      /\ arena' = [g \in Gens |-> IF g = gen THEN arena[g] ELSE <<>>]
      /\ spans' = spans /\ names' = names /\ gen' = gen /\ used' = used
  BY <1>0, Domains DEF Fields
<1>2. /\ cells \in Seq(C) /\ Size \in Nat /\ Len(cells) \in Nat /\ Size <= Len(cells)
      /\ Size' = Size
  BY <1>0, <1>1, LenProperties DEF EntriesInv, Size
<1>3. ASSUME NEW i \in 1..Size PROVE Fits(cells[i], spans[i], used)
  BY <1>0 DEF EntriesInv
<1>4. ASSUME NEW i, Binds(i) PROVE Fits(d(i), spans[i], used) /\ d(i).value.gen = gen
  BY <1>0, <1>3, <1>4, BindKeeps DEF IsBinary
<1>5. ASSUME NEW i \in 1..Len(cells) PROVE (IF Binds(i) THEN d(i) ELSE cells[i]) \in C
  <2>1. cells[i] \in C
    BY <1>2, ElementOfSeq
  <2>2. Binds(i) => d(i) \in C
    BY <1>4 DEF Fits
  <2> QED
    BY <2>1, <2>2
<1> HIDE DEF d, C
<1>6. cells' \in Seq(C) /\ Len(cells') = Len(cells)
  <2>1. cells' \in [1..Len(cells) -> C]
    BY <1>1, <1>5
  <2> QED
    BY <1>2, <2>1
<1>7. ASSUME NEW i \in 1..Size PROVE Fits(cells'[i], spans[i], used)
  <2>1. i \in 1..Len(cells)
    BY <1>2
  <2>2. cells'[i] = IF Binds(i) THEN d(i) ELSE cells[i]
    BY <1>1, <2>1
  <2> HIDE DEF Binds
  <2> QED
    BY <1>3, <1>4, <2>2
<1>8. EntriesInv'
  BY <1>0, <1>1, <1>2, <1>6, <1>7 DEF EntriesInv, C, Size
<1>9. /\ arena'[gen] = arena[gen] /\ ArenaInv'
  <2>1. gen \in Gens /\ arena \in [Gens -> Seq(Bytes \cup {Blank})]
    BY <1>0 DEF ArenaInv
  <2>2. <<>> \in Seq(Bytes \cup {Blank})
    OBVIOUS
  <2>3. arena' \in [Gens -> Seq(Bytes \cup {Blank})] /\ arena'[gen] = arena[gen]
    BY <1>1, <2>1, <2>2
  <2> QED
    BY <1>0, <1>1, <2>3 DEF ArenaInv
<1>10. ASSUME NEW i \in DOMAIN cells', i > Size PROVE cells'[i] = Blank
  <2>1. i \in 1..Len(cells) /\ ~Binds(i) /\ i \in DOMAIN cells
    <3>1. i \in 1..Len(cells) /\ DOMAIN cells = 1..Len(cells)
      BY <1>0, <1>1, Domains
    <3> QED
      BY <1>2, <1>10, <3>1
  <2>2. cells'[i] = cells[i]
    BY <1>1, <2>1
  <2> QED
    BY <1>0, <1>10, <2>1, <2>2 DEF NothingPastTheEnd
<1>11. NothingPastTheEnd'
  BY <1>0, <1>1, <1>2, <1>9, <1>10 DEF NothingPastTheEnd
<1>12. ASSUME NEW g \in Pinned(cells') PROVE g = gen
  <2>1. PICK i \in DOMAIN cells' : /\ cells'[i] # Blank /\ IsBound(cells'[i].value)
                                    /\ g = cells'[i].value.gen
    BY DEF Pinned
  <2>2. i \in 1..Len(cells)
    BY <1>1
  <2>3. i \in 1..Size
    <3>1. ~(i > Size)
      BY <1>10, <2>1
    <3> QED
      BY <1>2, <2>2, <3>1
  <2>4. cells'[i] = IF Binds(i) THEN d(i) ELSE cells[i]
    BY <1>1, <2>2
  <2>5. CASE Binds(i)
    BY <1>4, <2>1, <2>4, <2>5
  <2>6. CASE ~Binds(i)
    <3>1. cells[i].value \in Texts
      BY <1>3, <2>3, <2>6 DEF Fits, IsBinary
    <3> QED
      BY <2>1, <2>4, <2>6, <3>1 DEF IsBound
  <2> QED
    BY <2>5, <2>6
<1>13. OneGeneration'
  BY <1>12 DEF OneGeneration
<1> QED
  BY <1>0, <1>1, <1>8, <1>9, <1>11, <1>13 DEF IInv

\* Reset empties the builder and keeps its memory, cleared.
LEMMA ResetKeeps ==
  ASSUME IInv, Reset
  PROVE  IInv'
<1> DEFINE C == Field \cup {Blank}
           B == Bytes \cup {Blank}
           a == arena[gen]
<1>0. /\ EntriesInv /\ ArenaInv /\ NothingPastTheEnd /\ OneGeneration
      /\ names \subseteq DOMAIN Lower
  BY DEF IInv
<1>1. /\ Size \in Nat /\ Len(cells) \in Nat /\ a \in Seq(B) /\ Len(a) \in Nat
      /\ gen \in Gens /\ DOMAIN cells = 1..Len(cells) /\ DOMAIN a = 1..Len(a)
  BY <1>0, LenProperties DEF EntriesInv, ArenaInv, Size
<1>2. cells' = [i \in 1..Len(cells) |-> Blank]
  <2>1. cells' = [i \in 1..Len(cells) |-> IF i \in 1..Size THEN Blank ELSE cells[i]]
    BY <1>1 DEF Reset, ClearTail
  <2>2. ASSUME NEW i \in 1..Len(cells)
        PROVE  (IF i \in 1..Size THEN Blank ELSE cells[i]) = Blank
    BY <1>0, <1>1 DEF NothingPastTheEnd
  <2> QED
    BY <2>1, <2>2
<1>3. cells' \in Seq(C) /\ Len(cells') = Len(cells) /\ Pinned(cells') = {}
  <2>1. cells' \in Seq(C) /\ Len(cells') = Len(cells)
    BY <1>1, <1>2
  <2>2. Pinned(cells') = {}
    BY <1>2 DEF Pinned
  <2> QED
    BY <2>1, <2>2
<1>4. /\ spans' = <<>> /\ used' = 0 /\ gen' = gen /\ names' = names
      /\ arena' = [g \in Gens |-> IF g = gen THEN [i \in DOMAIN arena[g] |->
                                                      IF i <= used THEN Blank ELSE arena[g][i]]
                                   ELSE <<>>]
  BY DEF Reset
<1>5. arena'[gen] = [i \in 1..Len(a) |-> Blank]
  <2>1. arena'[gen] = [i \in 1..Len(a) |-> IF i <= used THEN Blank ELSE a[i]]
    BY <1>1, <1>4
  <2>2. ASSUME NEW i \in 1..Len(a) PROVE (IF i <= used THEN Blank ELSE a[i]) = Blank
    <3>1. used \in Nat
      BY <1>0, MetadataAssumption DEF ArenaInv
    <3> QED
      BY <1>0, <1>1, <3>1 DEF NothingPastTheEnd
  <2> QED
    BY <2>1, <2>2
<1>6. arena'[gen] \in Seq(B) /\ Len(arena'[gen]) \in Nat
  BY <1>1, <1>5
<1>7. arena' \in [Gens -> Seq(B)]
  <2>1. ASSUME NEW g \in Gens PROVE arena'[g] \in Seq(B)
    <3>1. CASE g = gen
      BY <1>6, <3>1
    <3>2. CASE g # gen
      BY <1>4, <3>2
    <3> QED
      BY <3>1, <3>2
  <2> HIDE DEF B
  <2> QED
    BY <1>4, <2>1
<1>8. ArenaInv'
  BY <1>1, <1>4, <1>6, <1>7, MetadataAssumption DEF ArenaInv
<1>9. Len(spans') = 0 /\ spans' \in Seq(Span)
  BY <1>4
<1>10. EntriesInv'
  BY <1>1, <1>3, <1>9 DEF EntriesInv, Size
<1>11. NothingPastTheEnd'
  BY <1>2, <1>4, <1>5 DEF NothingPastTheEnd
<1>12. OneGeneration'
  BY <1>3 DEF OneGeneration
<1> QED
  BY <1>0, <1>4, <1>8, <1>10, <1>11, <1>12 DEF IInv

-----------------------------------------------------------------------------
(* The theorems.                                                           *)

\* The zero Metadata satisfies the invariant.
LEMMA InvInit ==
  ASSUME Init
  PROVE  IInv
<1>1. /\ cells = <<>> /\ spans = <<>> /\ names = {} /\ used = 0 /\ gen \in Gens
      /\ arena = [g \in Gens |-> <<>>]
  BY DEF Init
<1>2. EntriesInv
  BY <1>1 DEF EntriesInv, Size
<1>3. ArenaInv
  BY <1>1, MetadataAssumption DEF ArenaInv
<1>4. NothingPastTheEnd /\ OneGeneration
  BY <1>1 DEF NothingPastTheEnd, OneGeneration, Pinned
<1> QED
  BY <1>1, <1>2, <1>3, <1>4 DEF IInv

\* Every operation keeps it.
LEMMA InvStep ==
  ASSUME IInv, [Next]_vars
  PROVE  IInv'
<1>1. ASSUME UNCHANGED vars PROVE IInv'
  BY <1>1 DEF vars, IInv, EntriesInv, ArenaInv, NothingPastTheEnd, OneGeneration, Size
<1>2. ASSUME NEW k \in Keys, Refused(k) PROVE IInv'
  BY <1>1, <1>2 DEF Refused
<1> QED
  BY <1>1, <1>2, TextKeeps, BinaryKeeps, FieldsKeeps, ResetKeeps DEF Next

\* The builder's invariant: entries, spans and arena fit together.
THEOREM MetadataInvariance == Spec => []IInv
<1>1. Init => IInv
  BY InvInit
<1>2. IInv /\ [Next]_vars => IInv'
  BY InvStep
<1> QED
  BY <1>1, <1>2, PTL DEF Spec

\* Every entry has a name and an index mode, a binary one a span inside the
\* bytes in use, whatever was put, replaced or grown (metadata.go:100-190).
THEOREM MetadataTypeCorrect == Spec => []TypeOK
<1>1. IInv => TypeOK
  <2> SUFFICES ASSUME IInv PROVE TypeOK
    OBVIOUS
  <2>1. EntriesInv /\ ArenaInv /\ names \subseteq DOMAIN Lower
    BY DEF IInv
  <2>2. ASSUME NEW i \in 1..Size
        PROVE  /\ cells[i].name \in Names /\ cells[i].idx \in {"incremental", "never"}
               /\ IsBinary(i) <=> cells[i].value \notin Texts
               /\ IsBinary(i) => spans[i].off + spans[i].n <= used
    <3>1. Fits(cells[i], spans[i], used)
      BY <2>1 DEF EntriesInv
    <3> QED
      BY <3>1 DEF Fits, Field, IsBinary
  <2>3. /\ gen \in Gens /\ used \in 0..Len(arena[gen])
        /\ \A g \in Gens : arena[g] \in Seq(Bytes \cup {Blank})
    <3>1. /\ gen \in Gens /\ used \in 0..MaxBin /\ used <= Len(arena[gen])
          /\ \A g \in Gens : arena[g] \in Seq(Bytes \cup {Blank})
      BY <2>1 DEF ArenaInv
    <3>2. Len(arena[gen]) \in Nat
      BY <3>1, LenProperties
    <3> QED
      BY <3>1, <3>2, MetadataAssumption
  <2> QED
    BY <2>1, <2>2, <2>3 DEF TypeOK, EntriesInv
<1> QED
  BY <1>1, MetadataInvariance, PTL

\* Past its lengths the builder keeps neither entries nor bytes, through every
\* replacement, growth and Reset (metadata.go:157-160 and 276-287).
THEOREM NoCredentialsLeft == Spec => []NothingPastTheEnd
<1>1. IInv => NothingPastTheEnd
  BY DEF IInv
<1> QED
  BY <1>1, MetadataInvariance, PTL

\* However the arena grew, the entries keep at most one generation of it alive
\* (metadata.go:244-250).
THEOREM OneArenaAlive == Spec => []OneGeneration
<1>1. IInv => OneGeneration
  BY DEF IInv
<1> QED
  BY <1>1, MetadataInvariance, PTL

-----------------------------------------------------------------------------
(* The builder implements the list of entries.                             *)

\* An entry reads the same from every arena that has the same bytes in use.
LEMMA SameRead ==
  ASSUME NEW S, NEW a \in Seq(S), NEW z \in Seq(S), NEW u \in Nat, u <= Len(a), u <= Len(z),
         \A i \in 1..u : a[i] = z[i], NEW c, NEW p, Fits(c, p, u)
  PROVE  Read(c, p, a) = Read(c, p, z)
<1>1. CASE p.n >= 0
  <2> DEFINE off == p.off
             n == p.n
  <2>1. off \in Nat /\ n \in Nat /\ off + n <= u
    <3>1. p # TextSpan
      BY <1>1 DEF TextSpan
    <3> QED
      BY <1>1, <3>1, MetadataAssumption DEF Fits, Span
  <2> HIDE DEF off, n
  <2> DEFINE lo == off + 1
             hi == off + n
  <2>2. ASSUME NEW i \in lo..hi PROVE a[i] \in S /\ z[i] \in S /\ a[i] = z[i]
    <3>1. i \in 1..u /\ i \in 1..Len(a) /\ i \in 1..Len(z)
      BY <2>1, LenProperties
    <3> QED
      BY <3>1, ElementOfSeq
  <2>3. /\ lo \in Int /\ hi \in Int /\ hi - lo + 1 = n
        /\ (IF lo <= hi THEN hi - lo + 1 ELSE 0) = n
        /\ \A i \in 1..n : lo + i - 1 \in lo..hi
    BY <2>1
  <2> HIDE DEF lo, hi
  <2>4. /\ SubSeq(a, lo, hi) \in Seq(S)
        /\ Len(SubSeq(a, lo, hi)) = IF lo <= hi THEN hi - lo + 1 ELSE 0
        /\ \A i \in 1..(hi - lo + 1) : SubSeq(a, lo, hi)[i] = a[lo + i - 1]
    BY <2>2, <2>3, SubSeqProperties
  <2>5. /\ SubSeq(z, lo, hi) \in Seq(S)
        /\ Len(SubSeq(z, lo, hi)) = IF lo <= hi THEN hi - lo + 1 ELSE 0
        /\ \A i \in 1..(hi - lo + 1) : SubSeq(z, lo, hi)[i] = z[lo + i - 1]
    BY <2>2, <2>3, SubSeqProperties
  <2>6. ASSUME NEW i \in 1..n PROVE SubSeq(a, lo, hi)[i] = SubSeq(z, lo, hi)[i]
    BY <2>2, <2>3, <2>4, <2>5
  <2>7. SubSeq(a, lo, hi) = SubSeq(z, lo, hi)
    BY <2>3, <2>4, <2>5, <2>6, SeqEqual
  <2> QED
    BY <2>7 DEF Read, off, n, lo, hi
<1>2. CASE ~(p.n >= 0)
  BY <1>2 DEF Read
<1> QED
  BY <1>1, <1>2

\* Adding, in the list: the new entry after the others.
LEMMA AddLists ==
  ASSUME EntriesInv, \A i \in 1..Len(cells) : i > Size => cells[i] = Blank,
         NEW f \in Field, NEW sp \in Span,
         cells' \in Grown(cells, Size, f), spans' = Append(spans, sp),
         \A i \in 1..Size : Read(cells[i], spans[i], arena'[gen']) = Listed[i]
  PROVE  Listed' = Append(Listed, Read(f, sp, arena'[gen']))
<1> DEFINE e == Read(f, sp, arena'[gen'])
           S == {Listed[i] : i \in 1..Size} \cup {e}
<1>1. /\ Size' = Size + 1 /\ Size \in Nat
      /\ \A i \in 1..Size : cells'[i] = cells[i] /\ spans'[i] = spans[i]
      /\ cells'[Size + 1] = f /\ spans'[Size + 1] = sp
  BY AddIs, LenProperties DEF Size, EntriesInv
<1>2. Listed' = [i \in 1..(Size + 1) |-> Read(cells'[i], spans'[i], arena'[gen'])]
  BY <1>1 DEF Listed
<1>3. Listed \in [1..Size -> S]
  BY DEF Listed
<1>0. e \in S
  OBVIOUS
<1> HIDE DEF e, S
<1>4. Listed \in Seq(S) /\ Len(Listed) = Size /\ e \in S
  BY <1>0, <1>1, <1>3
<1>5. /\ Append(Listed, e) \in Seq(S) /\ Len(Append(Listed, e)) = Size + 1
      /\ \A i \in 1..Size : Append(Listed, e)[i] = Listed[i]
      /\ Append(Listed, e)[Size + 1] = e
  BY <1>4, AppendProperties
<1>6. ASSUME NEW i \in 1..(Size + 1) PROVE Listed'[i] = Append(Listed, e)[i]
  <2>1. Listed'[i] = Read(cells'[i], spans'[i], arena'[gen'])
    BY <1>2
  <2>2. CASE i = Size + 1
    BY <1>1, <1>5, <2>1, <2>2 DEF e
  <2>3. CASE i # Size + 1
    <3>1. i \in 1..Size
      BY <1>1, <2>3
    <3> QED
      BY <1>1, <1>5, <2>1, <3>1
  <2> QED
    BY <2>2, <2>3
<1>7. \A i \in 1..(Size + 1) : Append(Listed, e)[i] \in S
  BY <1>5, ElementOfSeq
<1>8. Listed' \in [1..(Size + 1) -> S]
  BY <1>2, <1>6, <1>7
<1>9. Listed' \in Seq(S) /\ Len(Listed') = Size + 1
  BY <1>1, <1>8
<1> QED
  BY <1>5, <1>6, <1>9, SeqEqual DEF e

\* Setting, in the list: the kept entries in their order, the new one where the
\* first of its name stood.
LEMMA ReplaceLists ==
  ASSUME EntriesInv, \A i \in 1..Len(cells) : i > Size => cells[i] = Blank,
         NEW f \in Field, NEW sp \in Span,
         cells' = ClearTail(Compact(f, sp).cs, Compact(f, sp).w),
         spans' = SubSeq(Compact(f, sp).sp, 1, Compact(f, sp).w),
         \E i \in 1..Size : cells[i].name = f.name,
         \A i \in 1..Size : Read(cells[i], spans[i], arena'[gen']) = Listed[i]
  PROVE  Entries!Replaces(Listed, Read(f, sp, arena'[gen']), Listed')
<1> DEFINE e == Read(f, sp, arena'[gen'])
           s == Compact(f, sp)
           K == Places(f)
<1>1. /\ Size' = s.w
      /\ \A i \in 1..s.w : cells'[i] = s.cs[i] /\ spans'[i] = s.sp[i]
  BY ReplaceIs DEF Size
<1>2. Compacted(f, sp, s, Size) /\ Ranked(f, sp, s, Size)
  BY CompactIs
<1>3. Size \in Nat
  BY LenProperties DEF EntriesInv, Size
<1> HIDE DEF s
<1>4. s.w \in Nat
  BY <1>2, <1>3 DEF Compacted
<1>5. Listed' = [i \in 1..s.w |-> Read(cells'[i], spans'[i], arena'[gen'])]
  BY <1>1 DEF Listed
<1>6. Len(Listed') = s.w
  BY <1>4, <1>5
<1>7. e.name = f.name /\ DOMAIN Listed = 1..Size /\ \A i \in 1..Size : Listed[i].name = cells[i].name
  BY DEF Read, Listed
<1>8. Entries!Kept(Listed, e) = K
  <2>1. ASSUME NEW i \in 1..Size, NEW j \in 1..(i - 1) PROVE Listed[j].name = cells[j].name
    <3>1. j \in 1..Size
      BY <1>3
    <3> QED
      BY <1>7, <3>1
  <2> HIDE DEF e
  <2> QED
    BY <1>7, <2>1 DEF Entries!Kept, Places
<1>9. K \in SUBSET Nat /\ K \subseteq 1..Size
  BY <1>3 DEF Places
<1>10. s.w = Cardinality(K)
  <2>1. {k \in K : k <= Size} = K
    BY <1>3, <1>9
  <2>2. s.w = Rank(K, Size)
    BY <1>2 DEF Ranked
  <2> QED
    BY <2>1, <2>2 DEF Rank
<1> HIDE DEF e
<1>11. ASSUME NEW i \in K
       PROVE  Listed'[Rank(K, i)] = IF Listed[i].name = e.name THEN e ELSE Listed[i]
  <2>1. i \in 1..Size /\ i \in Nat /\ i # 0 /\ i <= Size /\ i - 1 \in Nat
    BY <1>3, <1>9
  <2>2. Rank(K, i) \in Nat /\ Rank(K, i) <= Rank(K, Size) /\ Rank(K, i - 1) \in Nat
    BY <1>3, <1>9, <2>1, RankCounts
  <2>3. Rank(K, i) = Rank(K, i - 1) + 1
    BY <1>9, <2>1, RankCounts
  <2>4. s.w = Rank(K, Size)
    BY <1>2 DEF Ranked
  <2>5. Rank(K, i) \in 1..s.w
    BY <1>4, <2>2, <2>3, <2>4
  <2>6. /\ s.cs[Rank(K, i)] = (IF cells[i].name = f.name THEN f ELSE cells[i])
        /\ s.sp[Rank(K, i)] = (IF cells[i].name = f.name THEN sp ELSE spans[i])
    BY <1>2, <2>1 DEF Ranked
  <2> DEFINE r == Rank(K, i)
  <2> HIDE DEF r
  <2>7. Listed'[r] = Read(s.cs[r], s.sp[r], arena'[gen'])
    BY <1>1, <1>5, <2>5 DEF r
  <2>8. CASE cells[i].name = f.name
    <3>1. Listed'[r] = e
      BY <2>6, <2>7, <2>8 DEF r, e
    <3> QED
      BY <1>7, <2>1, <2>8, <3>1 DEF r
  <2>9. CASE cells[i].name # f.name
    <3>1. Listed'[r] = Listed[i]
      BY <2>1, <2>6, <2>7, <2>9 DEF r
    <3> QED
      BY <1>7, <2>1, <2>9, <3>1 DEF r
  <2> QED
    BY <2>8, <2>9
<1>12. \E i \in DOMAIN Listed : Listed[i].name = e.name
  BY <1>7
<1> HIDE DEF K
<1>13. \A S : Entries!Cardinality(S) = Cardinality(S)
  BY DEF Entries!Cardinality, Cardinality
<1>14. \A i \in K : Entries!Rank(K, i) = Rank(K, i)
  BY <1>13 DEF Entries!Rank, Rank
<1> QED
  BY <1>6, <1>8, <1>10, <1>11, <1>12, <1>13, <1>14 DEF Entries!Replaces, e

\* put, in the list.
LEMMA PutLists ==
  ASSUME EntriesInv, \A i \in 1..Len(cells) : i > Size => cells[i] = Blank,
         NEW f \in Field, NEW sp \in Span, NEW replace \in BOOLEAN, Put(f, sp, replace),
         \A i \in 1..Size : Read(cells[i], spans[i], arena'[gen']) = Listed[i]
  PROVE  Entries!Put(Read(f, sp, arena'[gen']), replace)
<1> DEFINE e == Read(f, sp, arena'[gen'])
           Found == \E i \in 1..Size : cells[i].name = f.name
<1>1. e.name = f.name /\ DOMAIN Listed = 1..Size /\ \A i \in 1..Size : Listed[i].name = cells[i].name
  BY DEF Read, Listed
<1>2. Entries!Has(e.name) <=> Found
  BY <1>1 DEF Entries!Has
<1>3. CASE replace /\ Found
  <2>1. Entries!Replaces(Listed, e, Listed')
    BY <1>3, ReplaceLists DEF Put
  <2> QED
    BY <1>2, <1>3, <2>1 DEF Entries!Put
<1>4. CASE ~(replace /\ Found)
  <2>1. Listed' = Append(Listed, e)
    BY <1>4, AddLists DEF Put
  <2> QED
    BY <1>2, <1>4, <2>1 DEF Entries!Put
<1> QED
  BY <1>3, <1>4

\* SetText, SetSensitive and AddText, in the list.
LEMMA TextLists ==
  ASSUME IInv, NEW key, NEW v \in Texts, NEW idx \in {"incremental", "never"},
         NEW replace \in BOOLEAN, Text(key, v, idx, replace)
  PROVE  /\ Entries!Put([name |-> Lower[key], value |-> v, idx |-> idx], replace)
         /\ [name |-> Lower[key], value |-> v, idx |-> idx] \in Given
<1> DEFINE f == [name |-> Lower[key], value |-> v, idx |-> idx]
<1>1. /\ key \in DOMAIN Lower /\ Put(f, TextSpan, replace) /\ arena' = arena /\ gen' = gen
  BY DEF Text
<1>2. EntriesInv /\ ArenaInv /\ \A i \in 1..Len(cells) : i > Size => cells[i] = Blank
  BY Domains DEF IInv, NothingPastTheEnd
<1>3. f \in Field /\ TextSpan \in Span
  BY <1>1, <1>2, TextEntry
<1>4. Read(f, TextSpan, arena'[gen']) = f /\ f \in Given
  <2>1. TextSpan.n = -1 /\ ~(-1 >= 0)
    BY DEF TextSpan
  <2>2. Read(f, TextSpan, arena'[gen']) = [name |-> Lower[key], idx |-> idx, value |-> v]
    BY <2>1 DEF Read
  <2> QED
    BY <1>1, <2>2 DEF Given, Names
<1> HIDE DEF f
<1>5. \A i \in 1..Size : Read(cells[i], spans[i], arena'[gen']) = Listed[i]
  BY <1>1 DEF Listed
<1>6. Entries!Put(f, replace)
  BY <1>1, <1>2, <1>3, <1>4, <1>5, PutLists
<1> QED
  BY <1>4, <1>6 DEF f

\* The bytes just encoded are read back.
LEMMA ReadBack ==
  ASSUME NEW S, NEW a \in Seq(S), NEW b \in Seq(S), NEW u \in Nat, u + Len(b) <= Len(a),
         \A i \in 1..Len(b) : a[u + i] = b[i]
  PROVE  SubSeq(a, u + 1, u + Len(b)) = b
<1> DEFINE lo == u + 1
           l == Len(b)
           hi == u + l
<1>1. l \in Nat /\ Len(a) \in Nat
  BY LenProperties
<1>2. ASSUME NEW i \in lo..hi PROVE a[i] \in S
  <2>1. i \in 1..Len(a)
    BY <1>1
  <2> QED
    BY <2>1, ElementOfSeq
<1>3. \A i \in 1..l : a[u + i] = b[i]
  OBVIOUS
<1> HIDE DEF l
<1>4. /\ lo \in Int /\ hi \in Int /\ hi - lo + 1 = l
      /\ (IF lo <= hi THEN hi - lo + 1 ELSE 0) = l
      /\ \A i \in 1..l : lo + i - 1 = u + i
  BY <1>1
<1> HIDE DEF lo, hi
<1>5. /\ SubSeq(a, lo, hi) \in Seq(S)
      /\ Len(SubSeq(a, lo, hi)) = IF lo <= hi THEN hi - lo + 1 ELSE 0
      /\ \A i \in 1..(hi - lo + 1) : SubSeq(a, lo, hi)[i] = a[lo + i - 1]
  BY <1>2, <1>4, SubSeqProperties
<1>6. ASSUME NEW i \in 1..l PROVE SubSeq(a, lo, hi)[i] = b[i]
  BY <1>3, <1>4, <1>5
<1>7. Len(SubSeq(a, lo, hi)) = Len(b) /\ \A i \in 1..Len(SubSeq(a, lo, hi)) : SubSeq(a, lo, hi)[i] = b[i]
  BY <1>4, <1>5, <1>6 DEF l
<1>8. SubSeq(a, lo, hi) = b
  BY <1>5, <1>7, SeqEqual
<1> QED
  BY <1>8 DEF lo, hi, l

\* SetBin and AddBin, in the list: whatever the arena did, every older entry
\* still reads as it did and the new one as the value it was given.
LEMMA BinaryLists ==
  ASSUME IInv, NEW key, NEW v \in DOMAIN Encode, NEW replace \in BOOLEAN, Binary(key, v, replace)
  PROVE  LET e == [name |-> Lower[key], value |-> Encode[v], idx |-> "incremental"]
         IN IF Lower[key] \in BinNames THEN Entries!Put(e, replace) /\ e \in Given
            ELSE Listed' = Listed
<1>1. CASE Lower[key] \notin BinNames
  <2>1. UNCHANGED <<cells, spans, arena, gen, used>>
    BY <1>1 DEF Binary
  <2> QED
    BY <1>1, <2>1 DEF Listed, Size
<1>2. CASE Lower[key] \in BinNames
  <2> DEFINE f == [name |-> Lower[key], value |-> NoValue, idx |-> "incremental"]
             sp == [off |-> used, n |-> used' - used]
             b == Encode[v]
             a == arena'[gen']
             B == Bytes \cup {Blank}
  <2>1. Encoded(b) /\ Put(f, sp, replace) /\ key \in DOMAIN Lower
    BY <1>2 DEF Binary
  <2>2. b \in Seq(Bytes) /\ b \in Seq(B)
    BY MetadataAssumption
  <2>3. /\ EntriesInv /\ ArenaInv
        /\ \A i \in 1..Len(cells) : i > Size => cells[i] = Blank
        /\ \A i \in 1..Len(arena[gen]) : i > used => arena[gen][i] = Blank
    BY Domains DEF IInv, NothingPastTheEnd
  <2>4. /\ ArenaInv' /\ used' = used + Len(b)
        /\ \A i \in 1..used : a[i] = arena[gen][i]
        /\ \A i \in 1..Len(b) : a[used + i] = b[i]
    BY <2>1, <2>2, <2>3, EncodedIs
  <2>5. /\ used \in 0..MaxBin /\ used' \in 0..MaxBin /\ Len(b) \in Nat
        /\ a \in Seq(B) /\ arena[gen] \in Seq(B)
        /\ used <= Len(arena[gen]) /\ used' <= Len(a)
    BY <2>2, <2>3, <2>4 DEF ArenaInv
  <2>6. used \in Nat /\ used' \in Nat /\ used <= used' /\ Len(a) \in Nat
    BY <2>4, <2>5, LenProperties, MetadataAssumption
  <2>7. f \in Field /\ sp \in Span
    BY <2>1, <2>5, <2>6, BinaryEntry
  <2>8. ASSUME NEW i \in 1..Size PROVE Read(cells[i], spans[i], a) = Listed[i]
    <3>1. Fits(cells[i], spans[i], used)
      BY <2>3 DEF EntriesInv
    <3>2. used <= Len(a)
      BY <2>5, <2>6
    <3> DEFINE z == arena[gen]
               c == cells[i]
               q == spans[i]
    <3>3. /\ a \in Seq(B) /\ z \in Seq(B) /\ used <= Len(z) /\ \A j \in 1..used : a[j] = z[j]
          /\ Fits(c, q, used)
      BY <2>4, <2>5, <3>1
    <3> HIDE DEF a, z, c, q, B
    <3>4. Read(c, q, a) = Read(c, q, z)
      BY <2>6, <3>2, <3>3, SameRead
    <3> QED
      BY <3>4 DEF Listed, c, q, z
  <2> DEFINE e == [name |-> Lower[key], value |-> b, idx |-> "incremental"]
  <2>9. Read(f, sp, a) = e /\ e \in Given
    <3>1. SubSeq(a, used + 1, used + Len(b)) = b
      <4> HIDE DEF a, b, B
      <4>1. used + Len(b) <= Len(a)
        BY <2>4, <2>5
      <4> QED
        BY <2>2, <2>4, <2>5, <2>6, <4>1, ReadBack
    <3>2. used' - used = Len(b) /\ Len(b) >= 0
      BY <2>4, <2>5, <2>6
    <3>3. Read(f, sp, a) = [name |-> Lower[key], idx |-> "incremental", value |-> b]
      <4>1. f.name = Lower[key] /\ f.idx = "incremental" /\ sp.off = used /\ sp.n = Len(b)
        BY <3>2
      <4> HIDE DEF f, sp, a, b
      <4> QED
        BY <3>1, <3>2, <4>1 DEF Read
    <3> QED
      BY <2>1, <3>3 DEF Given, Names
  <2> HIDE DEF f, sp, e
  <2>10. Entries!Put(e, replace)
    BY <2>1, <2>3, <2>7, <2>8, <2>9, PutLists
  <2> QED
    BY <1>2, <2>9, <2>10 DEF e
<1> QED
  BY <1>1, <1>2

\* Fields changes no entry.
LEMMA FieldsLists ==
  ASSUME IInv, Fields
  PROVE  Listed' = Listed
<1>1. /\ spans' = spans /\ gen' = gen /\ gen \in Gens /\ arena'[gen] = arena[gen] /\ Size' = Size
  BY DEF Fields, IInv, ArenaInv, Size
<1>2. ASSUME NEW i \in 1..Size
      PROVE  Read(cells'[i], spans[i], arena[gen]) = Read(cells[i], spans[i], arena[gen])
  <2>1. i \in DOMAIN cells
    BY LenProperties DEF IInv, EntriesInv, Size
  <2>2. Fits(cells[i], spans[i], used) /\ ArenaInv
    BY DEF IInv, EntriesInv
  <2>3. CASE spans[i].n >= 0
    <3> DEFINE d == [cells[i] EXCEPT !.value = Bound(gen, spans[i].off, spans[i].n)]
    <3>1. cells'[i] = d
      BY <2>1, <2>3 DEF Fields, IsBinary
    <3>2. d.name = cells[i].name /\ d.idx = cells[i].idx
      BY <2>2, <2>3, BindKeeps
    <3> HIDE DEF d
    <3> QED
      BY <2>3, <3>1, <3>2 DEF Read
  <2>4. CASE ~(spans[i].n >= 0)
    <3>1. cells'[i] = cells[i]
      BY <2>1, <2>4 DEF Fields, IsBinary
    <3> QED
      BY <3>1
  <2> QED
    BY <2>3, <2>4
<1>3. Listed' = [i \in 1..Size |-> Read(cells'[i], spans[i], arena[gen])]
  BY <1>1 DEF Listed
<1> QED
  BY <1>2, <1>3 DEF Listed

\* The builder is a list of entries: Set replaces EVERY entry of its key
\* (metadata.go:123-136), and the spans lead to the right bytes whatever was
\* moved, replaced or grown since.
THEOREM MetadataRefinement == Spec => BuildsTheEntries
<1>1. Init => Entries!Init
  <2> SUFFICES ASSUME Init PROVE Listed = <<>>
    BY DEF Entries!Init
  <2>1. Size = 0
    BY DEF Init, Size
  <2> QED
    BY <2>1 DEF Listed
<1>2. ASSUME Reset PROVE Entries!Clear
  <2>1. Size' = 0
    BY <1>2 DEF Reset, Size
  <2> QED
    BY <2>1 DEF Listed, Entries!Clear
<1>3. IInv /\ [Next]_vars => [Entries!Next]_Listed
  <2> SUFFICES ASSUME IInv, [Next]_vars PROVE Entries!Next \/ Listed' = Listed
    OBVIOUS
  <2>1. ASSUME UNCHANGED vars PROVE Listed' = Listed
    BY <2>1 DEF vars, Listed, Size
  <2>2. ASSUME NEW k \in Keys, Refused(k) PROVE Listed' = Listed
    BY <2>1, <2>2 DEF Refused
  <2>3. ASSUME Reset PROVE Entries!Next
    BY <1>2, <2>3 DEF Entries!Next
  <2>4. ASSUME NEW e \in Given, NEW replace \in BOOLEAN, Entries!Put(e, replace)
        PROVE  Entries!Next
    BY <2>4 DEF Entries!Next
  <2>5. ASSUME NEW k, NEW v \in Texts, NEW idx \in {"incremental", "never"},
               NEW replace \in BOOLEAN, Text(k, v, idx, replace)
        PROVE  Entries!Next
    BY <2>4, <2>5, TextLists
  <2>6. ASSUME NEW k, NEW v \in DOMAIN Encode, NEW replace \in BOOLEAN, Binary(k, v, replace)
        PROVE  Entries!Next \/ Listed' = Listed
    BY <2>4, <2>6, BinaryLists
  <2> QED
    BY <2>1, <2>2, <2>3, <2>5, <2>6, FieldsLists DEF Next
<1>4. IInv /\ [Next]_vars => [ListsItsOwn]_vars
  <2> SUFFICES ASSUME IInv PROVE ListsItsOwn
    OBVIOUS
  <2>1. ASSUME NEW k \in DOMAIN Lower, NEW replace \in BOOLEAN, NEW v \in DOMAIN Encode,
               Lower[k] \in BinNames, Binary(k, v, replace)
        PROVE  Entries!Put([name |-> Lower[k], value |-> Encode[v], idx |-> "incremental"],
                           replace)
    BY <2>1, BinaryLists
  <2> QED
    BY <1>2, <2>1, TextLists, FieldsLists DEF ListsItsOwn
<1> QED
  BY <1>1, <1>3, <1>4, MetadataInvariance, PTL
  DEF Spec, BuildsTheEntries, Entries!Spec
=============================================================================
