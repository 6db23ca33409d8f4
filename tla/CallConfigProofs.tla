-------------------------- MODULE CallConfigProofs --------------------------
(***************************************************************************)
(* Proofs about CallConfig: who writes into which backing array, and that  *)
(* configs are values.  First the sequences an append builds, then what    *)
(* each memory operation does to the arrays and to what every config       *)
(* reads, then the operations as steps of ConfigValues, then the theorems. *)
(***************************************************************************)
EXTENDS CallConfig, SequenceTheorems, TLAPS

\* A caller's array and the part of it the caller's slice shows are sequences
\* of cells.
LEMMA CellsOfBorrowed ==
  \A b \in DOMAIN Borrowed : /\ Borrowed[b] \in Seq(Cells)
                             /\ SubSeq(Borrowed[b], 1, Visible[b]) \in Seq(Cells)
                             /\ Len(SubSeq(Borrowed[b], 1, Visible[b])) = Visible[b]
<1> SUFFICES ASSUME NEW b \in DOMAIN Borrowed
             PROVE  /\ Borrowed[b] \in Seq(Cells)
                    /\ SubSeq(Borrowed[b], 1, Visible[b]) \in Seq(Cells)
                    /\ Len(SubSeq(Borrowed[b], 1, Visible[b])) = Visible[b]
  OBVIOUS
<1>1. Borrowed[b] \in Seq(Range(Borrowed[b])) /\ Visible[b] \in 0..Len(Borrowed[b])
  BY CallConfigAssumption
<1>2. Range(Borrowed[b]) \subseteq Cells
  BY DEF Cells
<1>3. Borrowed[b] \in Seq(Cells)
  BY <1>1, <1>2, SeqMonotonic
<1>4. \A i \in 1..Visible[b] : Borrowed[b][i] \in Cells
  BY <1>1, <1>3, ElementOfSeq
<1> QED
  BY <1>1, <1>3, <1>4, SubSeqProperties

\* Every array a slice may get is one.
LEMMA ArraysAre ==
  /\ Nil \in Arrays /\ DOMAIN Borrowed \subseteq Arrays
  /\ \A k \in Parts : Pool[k] \subseteq Arrays
<1>1. \A k \in Parts : Pool[k] \subseteq UNION {Pool[l] : l \in Parts}
  OBVIOUS
<1> QED
  BY <1>1 DEF Arrays

\* Collection keeps the arrays in use.
LEMMA Collected ==
  ASSUME NEW h \in [Arrays -> Seq(Cells)], NEW sl
  PROVE  /\ Collect(h, sl) \in [Arrays -> Seq(Cells)]
         /\ \A a \in Arrays : a \in Used(sl) => Collect(h, sl)[a] = h[a]
BY DEF Collect

\* What Contents reads.
LEMMA Read ==
  ASSUME NEW s \in Seq(Cells), NEW n \in Nat, n <= Len(s)
  PROVE  /\ SubSeq(s, 1, n) \in Seq(Cells)
         /\ Len(SubSeq(s, 1, n)) = n
         /\ \A i \in 1..n : SubSeq(s, 1, n)[i] = s[i]
<1>1. \A i \in 1..n : s[i] \in Cells
  BY ElementOfSeq
<1> QED
  BY <1>1, SubSeqProperties

\* Two arrays that agree up to n show the same slice of length n.
LEMMA SameRead ==
  ASSUME NEW s \in Seq(Cells), NEW t \in Seq(Cells), NEW n \in Nat,
         n <= Len(s), n <= Len(t), \A i \in 1..n : s[i] = t[i]
  PROVE  SubSeq(s, 1, n) = SubSeq(t, 1, n)
<1>1. /\ SubSeq(s, 1, n) \in Seq(Cells) /\ SubSeq(t, 1, n) \in Seq(Cells)
      /\ Len(SubSeq(s, 1, n)) = n /\ Len(SubSeq(t, 1, n)) = n
      /\ \A i \in 1..n : SubSeq(s, 1, n)[i] = SubSeq(t, 1, n)[i]
  BY Read
<1> QED
  BY <1>1, SeqEqual

\* all \o rest as an array of which all is the visible part.
LEMMA Prefixed ==
  ASSUME NEW s \in Seq(Cells), NEW t \in Seq(Cells)
  PROVE  /\ s \o t \in Seq(Cells) /\ Len(s \o t) = Len(s) + Len(t)
         /\ SubSeq(s \o t, 1, Len(s)) = s
         /\ \A i \in DOMAIN (s \o t) :
              (s \o t)[i] = IF i <= Len(s) THEN s[i] ELSE t[i - Len(s)]
<1>1. /\ s \o t \in Seq(Cells) /\ Len(s \o t) = Len(s) + Len(t)
      /\ \A i \in 1..(Len(s) + Len(t)) :
              (s \o t)[i] = IF i <= Len(s) THEN s[i] ELSE t[i - Len(s)]
  BY ConcatProperties
<1>2. Len(s) \in Nat /\ Len(t) \in Nat /\ DOMAIN (s \o t) = 1..(Len(s) + Len(t))
  BY <1>1, LenProperties
<1>3. /\ SubSeq(s \o t, 1, Len(s)) \in Seq(Cells)
      /\ Len(SubSeq(s \o t, 1, Len(s))) = Len(s)
      /\ \A i \in 1..Len(s) : SubSeq(s \o t, 1, Len(s))[i] = (s \o t)[i]
  BY <1>1, <1>2, Read
<1>4. \A i \in 1..Len(s) : SubSeq(s \o t, 1, Len(s))[i] = s[i]
  BY <1>1, <1>2, <1>3
<1>5. SubSeq(s \o t, 1, Len(s)) = s
  BY <1>3, <1>4, SeqEqual
<1> QED
  BY <1>1, <1>2, <1>5

\* The tail of an array.
LEMMA Rest ==
  ASSUME NEW s \in Seq(Cells), NEW n \in Nat, n <= Len(s)
  PROVE  /\ SubSeq(s, n + 1, Len(s)) \in Seq(Cells)
         /\ Len(SubSeq(s, n + 1, Len(s))) = Len(s) - n
         /\ \A i \in 1..(Len(s) - n) : SubSeq(s, n + 1, Len(s))[i] = s[n + i]
<1>1. Len(s) \in Nat
  BY LenProperties
<1>2. \A i \in (n + 1)..Len(s) : s[i] \in Cells
  BY <1>1, ElementOfSeq
<1>3. /\ SubSeq(s, n + 1, Len(s)) \in Seq(Cells)
      /\ Len(SubSeq(s, n + 1, Len(s))) =
           IF n + 1 <= Len(s) THEN Len(s) - (n + 1) + 1 ELSE 0
      /\ \A i \in 1..(Len(s) - (n + 1) + 1) :
           SubSeq(s, n + 1, Len(s))[i] = s[(n + 1) + i - 1]
  BY <1>1, <1>2, SubSeqProperties
<1> QED
  BY <1>1, <1>3

\* The spare room of a fresh array.
LEMMA Blanks ==
  ASSUME NEW room \in Nat
  PROVE  /\ [i \in 1..room |-> Blank] \in Seq(Cells)
         /\ Len([i \in 1..room |-> Blank]) = room
         /\ \A i \in 1..room : [j \in 1..room |-> Blank][i] = Blank
<1>1. Blank \in Cells
  BY DEF Cells
<1> QED
  BY <1>1

\* append in place: the array keeps its length and the cells past the end.
LEMMA InPlace ==
  ASSUME NEW s \in Seq(Cells), NEW a \in Seq(Cells), Len(s) <= Len(a)
  PROVE  LET r == s \o SubSeq(a, Len(s) + 1, Len(a)) IN
         /\ r \in Seq(Cells) /\ Len(r) = Len(a) /\ SubSeq(r, 1, Len(s)) = s
         /\ \A i \in 1..Len(a) : r[i] = IF i <= Len(s) THEN s[i] ELSE a[i]
<1> DEFINE t == SubSeq(a, Len(s) + 1, Len(a))
           r == s \o t
<1> SUFFICES /\ r \in Seq(Cells) /\ Len(r) = Len(a) /\ SubSeq(r, 1, Len(s)) = s
             /\ \A i \in 1..Len(a) : r[i] = IF i <= Len(s) THEN s[i] ELSE a[i]
  OBVIOUS
<1>1. Len(s) \in Nat /\ Len(a) \in Nat
  BY LenProperties
<1>2. /\ t \in Seq(Cells) /\ Len(t) = Len(a) - Len(s)
      /\ \A i \in 1..(Len(a) - Len(s)) : t[i] = a[Len(s) + i]
  BY <1>1, Rest
<1> HIDE DEF t
<1>3. /\ r \in Seq(Cells) /\ Len(r) = Len(s) + Len(t) /\ SubSeq(r, 1, Len(s)) = s
      /\ \A i \in DOMAIN r : r[i] = IF i <= Len(s) THEN s[i] ELSE t[i - Len(s)]
  BY <1>2, Prefixed
<1> HIDE DEF r
<1>4. Len(r) = Len(a)
  BY <1>1, <1>2, <1>3
<1>5. DOMAIN r = 1..Len(a)
  BY <1>3, <1>4, LenProperties
<1>6. ASSUME NEW i \in 1..Len(a) PROVE r[i] = IF i <= Len(s) THEN s[i] ELSE a[i]
  <2>1. CASE i <= Len(s)
    BY <1>3, <1>5, <2>1
  <2>2. CASE ~(i <= Len(s))
    <3>1. r[i] = t[i - Len(s)]
      BY <1>3, <1>5, <2>2
    <3>2. i - Len(s) \in 1..(Len(a) - Len(s)) /\ Len(s) + (i - Len(s)) = i
      BY <1>1, <2>2
    <3>3. t[i - Len(s)] = a[Len(s) + (i - Len(s))]
      BY <1>2, <3>2
    <3> QED
      BY <2>2, <3>1, <3>2, <3>3
  <2> QED
    BY <2>1, <2>2
<1> QED
  BY <1>3, <1>4, <1>6

\* append into a fresh array: blanks past the end.
LEMMA InFresh ==
  ASSUME NEW s \in Seq(Cells), NEW room \in Nat
  PROVE  LET r == s \o [i \in 1..room |-> Blank] IN
         /\ r \in Seq(Cells) /\ Len(s) <= Len(r) /\ SubSeq(r, 1, Len(s)) = s
         /\ \A i \in 1..Len(r) : i > Len(s) => r[i] = Blank
<1> DEFINE t == [i \in 1..room |-> Blank]
           r == s \o t
<1> SUFFICES /\ r \in Seq(Cells) /\ Len(s) <= Len(r) /\ SubSeq(r, 1, Len(s)) = s
             /\ \A i \in 1..Len(r) : i > Len(s) => r[i] = Blank
  OBVIOUS
<1>1. Len(s) \in Nat
  BY LenProperties
<1>2. t \in Seq(Cells) /\ Len(t) = room /\ \A i \in 1..room : t[i] = Blank
  BY Blanks
<1> HIDE DEF t
<1>3. /\ r \in Seq(Cells) /\ Len(r) = Len(s) + room /\ SubSeq(r, 1, Len(s)) = s
      /\ \A i \in DOMAIN r : r[i] = IF i <= Len(s) THEN s[i] ELSE t[i - Len(s)]
  BY <1>2, Prefixed
<1> HIDE DEF r
<1>4. DOMAIN r = 1..Len(r)
  BY <1>3, LenProperties
<1>5. ASSUME NEW i \in 1..Len(r), i > Len(s) PROVE r[i] = Blank
  <2>1. r[i] = t[i - Len(s)]
    BY <1>1, <1>3, <1>4, <1>5
  <2>2. i - Len(s) \in 1..room
    BY <1>1, <1>3, <1>5
  <2> QED
    BY <1>2, <2>1, <2>2
<1> QED
  BY <1>1, <1>3, <1>5

\* What AppendTo does, as its users see it: the config's slice is n afterwards.
AppendedAs(c, k, s, n) ==
  /\ slice' = [slice EXCEPT ![c][k] = n]
  /\ owner' = [owner EXCEPT ![c][k] = c]
  /\ heap' \in [Arrays -> Seq(Cells)]
  /\ n.len = slice[c][k].len + Len(s) /\ n.len <= Len(heap'[n.arr])
  /\ SubSeq(heap'[n.arr], 1, n.len) = Contents(c, k) \o s
  /\ heap'[Nil] = <<>>
  /\ \A a \in Arrays : a \in Used(slice') /\ a # n.arr => heap'[a] = heap[a]
  /\ \/ /\ Owned(c, k) /\ n.arr = slice[c][k].arr
        /\ Len(heap'[n.arr]) = Len(heap[n.arr])
        /\ \A i \in 1..Len(heap[n.arr]) :
             i <= slice[c][k].len \/ i > n.len => heap'[n.arr][i] = heap[n.arr][i]
     \/ /\ \A i \in 1..Len(heap'[n.arr]) : i > n.len => heap'[n.arr][i] = Blank
        /\ n.arr = Nil \/ \A d \in Configs, l \in Parts :
                            <<d, l>> # <<c, k>> => slice[d][l].arr # n.arr

\* adopt and append, in place, into a fresh array or of nothing to nothing.
LEMMA Appended ==
  ASSUME MemoryOK, PlaceInv, NEW c \in Configs, NEW k \in Parts, NEW s \in Seq(Cells),
         AppendTo(c, k, s)
  PROVE  \E n \in [arr : Pool[k] \cup {Nil}, len : Nat] : AppendedAs(c, k, s, n)
<1> DEFINE arr == slice[c][k].arr
           old == Contents(c, k)
           all == old \o s
<1>1. /\ arr \in Arrays /\ slice[c][k].len \in Nat /\ heap[arr] \in Seq(Cells)
      /\ slice[c][k].len <= Len(heap[arr]) /\ heap \in [Arrays -> Seq(Cells)]
      /\ Nil \in Arrays /\ heap[Nil] = <<>>
  <2>1. Nil \in Arrays
    BY ArraysAre
  <2>2. slice[c][k] \in [arr : Arrays, len : Nat] /\ heap \in [Arrays -> Seq(Cells)]
    BY DEF MemoryOK
  <2> QED
    BY <2>1, <2>2 DEF MemoryOK, PlaceInv
<1>2. /\ old \in Seq(Cells) /\ Len(old) = slice[c][k].len
      /\ \A i \in 1..slice[c][k].len : old[i] = heap[arr][i]
  BY <1>1, Read DEF Contents
<1> HIDE DEF old
<1>3. /\ all \in Seq(Cells) /\ Len(all) = Len(old) + Len(s) /\ Len(all) \in Nat
      /\ Len(s) \in Nat /\ \A i \in 1..Len(old) : all[i] = old[i]
  <2>1. Len(s) \in Nat /\ Len(old) \in Nat
    BY <1>1, <1>2, LenProperties
  <2>2. /\ all \in Seq(Cells) /\ Len(all) = Len(old) + Len(s)
        /\ \A i \in 1..(Len(old) + Len(s)) :
             all[i] = IF i <= Len(old) THEN old[i] ELSE s[i - Len(old)]
    BY <1>2, ConcatProperties
  <2> QED
    BY <2>1, <2>2
<1> HIDE DEF all
<1>4. owner' = [owner EXCEPT ![c][k] = c]
  BY DEF AppendTo
<1>5. CASE Owned(c, k) /\ Len(all) <= Len(heap[arr])
  <2> DEFINE n == [arr |-> arr, len |-> Len(all)]
             r == all \o SubSeq(heap[arr], Len(all) + 1, Len(heap[arr]))
             h == [heap EXCEPT ![arr] = r]
  <2>1. Install(c, k, n, h)
    BY <1>5 DEF AppendTo, all, old
  <2>2. /\ r \in Seq(Cells) /\ Len(r) = Len(heap[arr]) /\ SubSeq(r, 1, Len(all)) = all
        /\ \A i \in 1..Len(heap[arr]) : r[i] = IF i <= Len(all) THEN all[i] ELSE heap[arr][i]
    BY <1>1, <1>3, <1>5, InPlace
  <2> HIDE DEF r
  <2>3. \A i \in 1..Len(heap[arr]) :
           i <= slice[c][k].len \/ i > Len(all) => r[i] = heap[arr][i]
    <3>1. Len(heap[arr]) \in Nat
      BY <1>1, LenProperties
    <3>2. ASSUME NEW i \in 1..Len(heap[arr]), i <= slice[c][k].len
          PROVE  r[i] = heap[arr][i]
      <4>1. i \in 1..slice[c][k].len /\ i \in 1..Len(old) /\ i <= Len(all)
        BY <1>1, <1>2, <1>3, <3>1, <3>2, SMTT(30)
      <4>2. r[i] = all[i]
        BY <2>2, <4>1
      <4>3. all[i] = old[i] /\ old[i] = heap[arr][i]
        BY <1>2, <1>3, <4>1
      <4> QED
        BY <4>2, <4>3
    <3>3. ASSUME NEW i \in 1..Len(heap[arr]), i > Len(all)
          PROVE  r[i] = heap[arr][i]
      <4>1. ~(i <= Len(all))
        BY <1>3, <3>1, <3>3
      <4> QED
        BY <2>2, <4>1
    <3> QED
      BY <3>2, <3>3
  <2>4. /\ h \in [Arrays -> Seq(Cells)] /\ h[arr] = r
        /\ \A a \in Arrays : a # arr => h[a] = heap[a]
    BY <1>1, <2>2
  <2>5. slice' = [slice EXCEPT ![c][k] = n] /\ heap' = Collect(h, slice')
    BY <2>1 DEF Install
  <2>6. /\ heap' \in [Arrays -> Seq(Cells)]
        /\ \A a \in Arrays : a \in Used(slice') => heap'[a] = h[a]
    BY <2>4, <2>5, Collected
  <2>7. slice'[c][k] = n
    BY <2>5 DEF MemoryOK
  <2>8. arr \in Used(slice') /\ Nil \in Used(slice')
    BY <2>7 DEF Used
  <2>9. heap'[arr] = r
    BY <1>1, <2>4, <2>6, <2>8
  <2>10. n \in [arr : Pool[k] \cup {Nil}, len : Nat]
    BY <1>3, <1>5, CallConfigAssumption DEF PlaceInv, Owned
  <2>11. heap'[Nil] = <<>>
    <3>1. CASE arr # Nil
      BY <1>1, <2>4, <2>6, <2>8, <3>1
    <3>2. CASE arr = Nil
      <4>1. Len(r) = 0 /\ r \in Seq(Cells)
        BY <1>1, <2>2, <3>2
      <4> QED
        BY <2>9, <3>2, <4>1, EmptySeq
    <3> QED
      BY <3>1, <3>2
  <2>12. /\ n.arr = arr /\ n.len = Len(all) /\ n.len = slice[c][k].len + Len(s)
         /\ n.len <= Len(heap'[arr]) /\ Len(heap'[arr]) = Len(heap[arr])
         /\ SubSeq(heap'[arr], 1, n.len) = old \o s
    BY <1>2, <1>3, <1>5, <2>2, <2>9 DEF all
  <2>13. \A a \in Arrays : a \in Used(slice') /\ a # arr => heap'[a] = heap[a]
    BY <2>4, <2>6
  <2> HIDE DEF h, n
  <2>14. AppendedAs(c, k, s, n)
    BY <1>4, <1>5, <2>3, <2>5, <2>6, <2>9, <2>11, <2>12, <2>13 DEF AppendedAs, old
  <2> QED
    BY <2>10, <2>14
<1>6. CASE ~(Owned(c, k) /\ Len(all) <= Len(heap[arr])) /\ all = <<>>
  <2>1. Install(c, k, NilSlice, heap)
    BY <1>6 DEF AppendTo, all, old
  <2>2. slice' = [slice EXCEPT ![c][k] = NilSlice] /\ heap' = Collect(heap, slice')
    BY <2>1 DEF Install
  <2>3. /\ heap' \in [Arrays -> Seq(Cells)]
        /\ \A a \in Arrays : a \in Used(slice') => heap'[a] = heap[a]
    BY <1>1, <2>2, Collected
  <2>4. Nil \in Used(slice')
    BY DEF Used
  <2>5. heap'[Nil] = <<>> /\ Len(heap'[Nil]) = 0 /\ Len(all) = 0
    BY <1>1, <1>6, <2>3, <2>4
  <2>6. SubSeq(heap'[Nil], 1, 0) = all
    BY <1>6, SubSeqEmpty
  <2>7. NilSlice.arr = Nil /\ NilSlice.len = 0
        /\ NilSlice \in [arr : Pool[k] \cup {Nil}, len : Nat]
    BY DEF NilSlice
  <2>8. /\ 0 = slice[c][k].len + Len(s) /\ 0 <= Len(heap'[Nil])
        /\ SubSeq(heap'[Nil], 1, 0) = old \o s
        /\ \A i \in 1..Len(heap'[Nil]) : i > 0 => heap'[Nil][i] = Blank
    <3>1. 0 = slice[c][k].len + Len(s)
      BY <1>2, <1>3, <2>5
    <3>2. SubSeq(heap'[Nil], 1, 0) = old \o s
      BY <2>6 DEF all
    <3>3. 1..Len(heap'[Nil]) = {} /\ 0 <= Len(heap'[Nil])
      BY <2>5
    <3> QED
      BY <3>1, <3>2, <3>3
  <2>9. AppendedAs(c, k, s, NilSlice)
    BY <1>4, <2>2, <2>3, <2>5, <2>7, <2>8 DEF AppendedAs, old
  <2> QED
    BY <2>7, <2>9
<1>7. CASE ~(Owned(c, k) /\ Len(all) <= Len(heap[arr])) /\ all # <<>>
  <2>1. PICK a \in Pool[k] \ Used([slice EXCEPT ![c][k] = NilSlice]), room \in 0..Slack[k] :
          Install(c, k, [arr |-> a, len |-> Len(all)],
                  [heap EXCEPT ![a] = all \o [i \in 1..room |-> Blank]])
    BY <1>7 DEF AppendTo, all, old
  <2> DEFINE n == [arr |-> a, len |-> Len(all)]
             r == all \o [i \in 1..room |-> Blank]
             h == [heap EXCEPT ![a] = r]
  <2>2. a \in Arrays /\ a # Nil /\ room \in Nat
    BY <2>1, ArraysAre, CallConfigAssumption
  <2>3. slice' = [slice EXCEPT ![c][k] = n] /\ heap' = Collect(h, slice')
    BY <2>1 DEF Install
  <2>4. /\ r \in Seq(Cells) /\ Len(all) <= Len(r) /\ SubSeq(r, 1, Len(all)) = all
        /\ \A i \in 1..Len(r) : i > Len(all) => r[i] = Blank
    BY <1>3, <2>2, InFresh
  <2> HIDE DEF r
  <2>6. /\ h \in [Arrays -> Seq(Cells)] /\ h[a] = r
        /\ \A b \in Arrays : b # a => h[b] = heap[b]
    BY <1>1, <2>2, <2>4
  <2>8. /\ heap' \in [Arrays -> Seq(Cells)]
        /\ \A b \in Arrays : b \in Used(slice') => heap'[b] = h[b]
    BY <2>3, <2>6, Collected
  <2>9. slice'[c][k] = n
    BY <2>3 DEF MemoryOK
  <2>10. a \in Used(slice') /\ Nil \in Used(slice')
    BY <2>9 DEF Used
  <2>11. heap'[a] = r /\ heap'[Nil] = <<>>
    BY <1>1, <2>2, <2>6, <2>8, <2>10
  <2>12. \A d \in Configs, l \in Parts : <<d, l>> # <<c, k>> => slice[d][l].arr # a
    <3> SUFFICES ASSUME NEW d \in Configs, NEW l \in Parts, <<d, l>> # <<c, k>>
                 PROVE  slice[d][l].arr # a
      OBVIOUS
    <3>1. [slice EXCEPT ![c][k] = NilSlice][d][l] = slice[d][l]
      BY DEF MemoryOK
    <3> QED
      BY <2>1, <3>1 DEF Used
  <2>13. n \in [arr : Pool[k] \cup {Nil}, len : Nat]
    BY <1>3
  <2>14. /\ n.arr = a /\ n.len = Len(all) /\ n.len = slice[c][k].len + Len(s)
         /\ n.len <= Len(heap'[a]) /\ SubSeq(heap'[a], 1, n.len) = old \o s
         /\ \A i \in 1..Len(heap'[a]) : i > n.len => heap'[a][i] = Blank
    BY <1>2, <1>3, <2>4, <2>11 DEF all
  <2>15. \A b \in Arrays : b \in Used(slice') /\ b # a => heap'[b] = heap[b]
    BY <2>6, <2>8
  <2> HIDE DEF h, n
  <2>16. AppendedAs(c, k, s, n)
    BY <1>4, <2>3, <2>8, <2>11, <2>12, <2>14, <2>15 DEF AppendedAs, old
  <2> QED
    BY <2>13, <2>16
<1> QED
  BY <1>5, <1>6, <1>7

-----------------------------------------------------------------------------
(* The memory operations keep the invariant and write where they may.      *)

\* After c's part k has become n, everything else is where it was.
LEMMA OneSlice ==
  ASSUME MemoryOK, NEW c \in Configs, NEW k \in Parts, NEW n \in [arr : Arrays, len : Nat],
         slice' = [slice EXCEPT ![c][k] = n]
  PROVE  /\ slice'[c][k] = n
         /\ \A d \in Configs, l \in Parts : <<d, l>> # <<c, k>> => slice'[d][l] = slice[d][l]
         /\ slice' \in [Configs -> [Parts -> [arr : Arrays, len : Nat]]]
BY DEF MemoryOK

\* The same for owner pointers.
LEMMA OneOwner ==
  ASSUME MemoryOK, NEW c \in Configs, NEW k \in Parts, NEW o \in Configs \cup {NoOwner},
         owner' = [owner EXCEPT ![c][k] = o]
  PROVE  /\ owner'[c][k] = o
         /\ \A d \in Configs, l \in Parts : <<d, l>> # <<c, k>> => owner'[d][l] = owner[d][l]
         /\ owner' \in [Configs -> [Parts -> Configs \cup {NoOwner}]]
BY DEF MemoryOK

\* Every array that a slice or a caller refers to survives collection.
LEMMA InUse ==
  /\ \A d \in Configs, l \in Parts : slice[d][l].arr \in Used(slice)
  /\ \A d \in Configs, l \in Parts : slice'[d][l].arr \in Used(slice')
  /\ \A b \in DOMAIN Borrowed : b \in Used(slice')
BY DEF Used

\* An append keeps the invariant, and no other slice sees it: an owner writes
\* past everything that others read, anybody else writes into a new array.
LEMMA AppendKeeps ==
  ASSUME MemoryInv, NEW c \in Configs, NEW k \in Parts, NEW s \in Seq(Cells),
         AppendTo(c, k, s)
  PROVE  /\ MemoryInv'
         /\ Contents(c, k)' = Contents(c, k) \o s
         /\ ~AssignBack => \A d \in Configs, l \in Parts :
              <<d, l>> # <<c, k>> => Contents(d, l)' = Contents(d, l)
<1> USE DEF MemoryInv
<1>1. PICK n \in [arr : Pool[k] \cup {Nil}, len : Nat] : AppendedAs(c, k, s, n)
  BY Appended
<1>2. /\ n \in [arr : Arrays, len : Nat] /\ n.arr \in Arrays
      /\ n.arr \notin DOMAIN Borrowed
  BY <1>1, ArraysAre, CallConfigAssumption
<1>3. /\ slice'[c][k] = n /\ owner'[c][k] = c
      /\ \A d \in Configs, l \in Parts :
           <<d, l>> # <<c, k>> => slice'[d][l] = slice[d][l] /\ owner'[d][l] = owner[d][l]
      /\ slice' \in [Configs -> [Parts -> [arr : Arrays, len : Nat]]]
      /\ owner' \in [Configs -> [Parts -> Configs \cup {NoOwner}]]
  <2>1. slice' = [slice EXCEPT ![c][k] = n] /\ owner' = [owner EXCEPT ![c][k] = c]
    BY <1>1 DEF AppendedAs
  <2>2. c \in Configs \cup {NoOwner}
    OBVIOUS
  <2>3. /\ slice'[c][k] = n
        /\ \A d \in Configs, l \in Parts : <<d, l>> # <<c, k>> => slice'[d][l] = slice[d][l]
        /\ slice' \in [Configs -> [Parts -> [arr : Arrays, len : Nat]]]
    BY <1>2, <2>1, OneSlice
  <2>4. /\ owner'[c][k] = c
        /\ \A d \in Configs, l \in Parts : <<d, l>> # <<c, k>> => owner'[d][l] = owner[d][l]
        /\ owner' \in [Configs -> [Parts -> Configs \cup {NoOwner}]]
    BY <2>1, <2>2, OneOwner
  <2> QED
    BY <2>3, <2>4
<1>4. \A a \in Arrays : a \in Used(slice') /\ a # n.arr => heap'[a] = heap[a]
  BY <1>1 DEF AppendedAs
<1>5. ASSUME NEW d \in Configs, NEW l \in Parts, <<d, l>> # <<c, k>>
      PROVE  /\ slice[d][l].arr \in Arrays /\ slice[d][l].len \in Nat
             /\ heap[slice[d][l].arr] \in Seq(Cells)
             /\ slice[d][l].len <= Len(heap[slice[d][l].arr])
             /\ slice[d][l].arr \in Used(slice')
  BY <1>3, <1>5, InUse, SMTT(30) DEF MemoryOK
\* A cell that another slice reads is changed only by an append in place.
<1>6. ASSUME NEW d \in Configs, NEW l \in Parts, <<d, l>> # <<c, k>>,
             slice[d][l].arr = n.arr
      PROVE  \/ n.arr = Nil
             \/ /\ l = k /\ d # c /\ Owned(c, k) /\ n.arr = slice[c][k].arr
                /\ Len(heap'[n.arr]) = Len(heap[n.arr])
                /\ \A i \in 1..Len(heap[n.arr]) :
                     i <= slice[c][k].len \/ i > n.len => heap'[n.arr][i] = heap[n.arr][i]
  <2>1. n.arr # Nil => l = k
    BY <1>1, <1>2, <1>6, CallConfigAssumption DEF PlaceInv
  <2> QED
    BY <1>1, <1>6, <2>1 DEF AppendedAs
<1>7. MemoryOK'
  <2>1. ASSUME NEW d \in Configs, NEW l \in Parts
        PROVE  slice'[d][l].len <= Len(heap'[slice'[d][l].arr])
    <3>1. CASE <<d, l>> = <<c, k>>
      BY <1>1, <1>3, <3>1 DEF AppendedAs
    <3>2. CASE <<d, l>> # <<c, k>> /\ slice[d][l].arr # n.arr
      <4>1. slice'[d][l] = slice[d][l] /\ heap'[slice[d][l].arr] = heap[slice[d][l].arr]
        BY <1>3, <1>4, <1>5, <3>2
      <4> QED
        BY <1>5, <3>2, <4>1
    <3>3. CASE <<d, l>> # <<c, k>> /\ slice[d][l].arr = n.arr
      <4>1. CASE n.arr = Nil
        BY <1>1, <1>3, <1>5, <3>3, <4>1 DEF AppendedAs, PlaceInv
      <4>2. CASE n.arr # Nil
        BY <1>3, <1>5, <1>6, <3>3, <4>2, SMTT(30)
      <4> QED
        BY <4>1, <4>2
    <3> QED
      BY <3>1, <3>2, <3>3
  <2> QED
    BY <1>1, <1>3, <2>1 DEF MemoryOK, AppendedAs
<1>8. PlaceInv'
  BY <1>1, <1>2, <1>3 DEF PlaceInv, AppendedAs
<1>9. BorrowedIsUntouched'
  BY <1>2, <1>4, ArraysAre, InUse DEF BorrowedIsUntouched
<1>10. ASSUME ~AssignBack PROVE OwnerInv'
  <2> SUFFICES ASSUME NEW d \in Configs, NEW e \in Configs, NEW l \in Parts, d # e,
                      owner'[d][l] = d, slice'[e][l].arr = slice'[d][l].arr,
                      slice'[d][l].arr # Nil
               PROVE  owner'[e][l] # e /\ slice'[e][l].len <= slice'[d][l].len
    BY DEF OwnerInv, Owned
  <2>1. OwnerInv
    BY <1>10
  <2>2. CASE <<d, l>> = <<c, k>>
    <3>1. /\ slice[e][l].arr = n.arr /\ n.arr # Nil /\ slice'[e][l] = slice[e][l]
          /\ owner'[e][l] = owner[e][l] /\ slice'[d][l] = n /\ e # c /\ l = k
      BY <1>3, <2>2
    <3>2. Owned(c, k) /\ n.arr = slice[c][k].arr
      BY <1>6, <3>1
    <3>3. ~Owned(e, k) /\ slice[e][k].len <= slice[c][k].len
      BY <2>1, <3>1, <3>2 DEF OwnerInv
    <3>4. n.len = slice[c][k].len + Len(s) /\ Len(s) \in Nat
      BY <1>1, LenProperties DEF AppendedAs
    <3>5. slice[e][k].len \in Nat /\ slice[c][k].len \in Nat
      BY DEF MemoryOK
    <3> QED
      BY <3>1, <3>3, <3>4, <3>5 DEF Owned
  <2>3. CASE <<e, l>> = <<c, k>>
    <3>1. /\ slice[d][l].arr = n.arr /\ n.arr # Nil /\ slice'[d][l] = slice[d][l]
          /\ owner[d][l] = d /\ d # c /\ l = k
      BY <1>3, <2>3
    <3>2. Owned(c, k) /\ n.arr = slice[c][k].arr
      BY <1>6, <3>1
    <3> QED
      BY <2>1, <3>1, <3>2 DEF OwnerInv, Owned
  <2>4. CASE <<d, l>> # <<c, k>> /\ <<e, l>> # <<c, k>>
    <3>1. /\ slice'[d][l] = slice[d][l] /\ slice'[e][l] = slice[e][l]
          /\ owner'[d][l] = owner[d][l] /\ owner'[e][l] = owner[e][l]
      BY <1>3, <2>4
    <3> QED
      BY <2>1, <3>1 DEF OwnerInv, Owned
  <2> QED
    BY <2>2, <2>3, <2>4
<1>11. ASSUME ~AssignBack PROVE NothingPastTheEnd'
  <2> SUFFICES ASSUME NEW d \in Configs, NEW l \in Parts, owner'[d][l] = d,
                      NEW i \in DOMAIN heap'[slice'[d][l].arr], i > slice'[d][l].len
               PROVE  heap'[slice'[d][l].arr][i] = Blank
    BY DEF NothingPastTheEnd, Owned
  <2>1. OwnerInv /\ NothingPastTheEnd
    BY <1>11
  <2>2. CASE <<d, l>> = <<c, k>>
    <3>1. slice'[d][l] = n
      BY <1>3, <2>2
    <3>2. DOMAIN heap'[n.arr] = 1..Len(heap'[n.arr]) /\ heap'[n.arr] \in Seq(Cells)
      BY <1>1, <1>2, LenProperties DEF AppendedAs
    <3>3. CASE \A j \in 1..Len(heap'[n.arr]) : j > n.len => heap'[n.arr][j] = Blank
      BY <3>1, <3>2, <3>3
    <3>4. CASE /\ Owned(c, k) /\ n.arr = slice[c][k].arr
               /\ Len(heap'[n.arr]) = Len(heap[n.arr])
               /\ \A j \in 1..Len(heap[n.arr]) :
                    j <= slice[c][k].len \/ j > n.len => heap'[n.arr][j] = heap[n.arr][j]
      <4>1. heap'[n.arr][i] = heap[n.arr][i]
        BY <3>1, <3>2, <3>4
      <4>2. heap[n.arr] \in Seq(Cells) /\ Len(heap'[n.arr]) \in Nat
        BY <1>2, <3>2, LenProperties DEF MemoryOK
      <4>3. i \in DOMAIN heap[n.arr]
        BY <3>1, <3>2, <3>4, <4>2, LenProperties
      <4>4. i > slice[c][k].len
        <5>1. n.len = slice[c][k].len + Len(s) /\ Len(s) \in Nat
          BY <1>1, LenProperties DEF AppendedAs
        <5>2. slice[c][k].len \in Nat /\ i \in Nat
          BY <3>1, <3>2, <4>2 DEF MemoryOK
        <5> QED
          BY <3>1, <5>1, <5>2
      <4>5. heap[slice[c][k].arr][i] = Blank
        BY <2>1, <3>4, <4>3, <4>4 DEF NothingPastTheEnd
      <4> QED
        BY <3>1, <3>4, <4>1, <4>5
    <3> QED
      BY <1>1, <3>3, <3>4 DEF AppendedAs
  <2>3. CASE <<d, l>> # <<c, k>>
    <3>1. slice'[d][l] = slice[d][l] /\ Owned(d, l) /\ slice[d][l].arr \in Arrays
      BY <1>3, <1>5, <2>3 DEF Owned
    <3>2. CASE slice[d][l].arr # n.arr
      <4>1. heap'[slice[d][l].arr] = heap[slice[d][l].arr]
        BY <1>4, <1>5, <2>3, <3>2
      <4> QED
        BY <2>1, <3>1, <4>1 DEF NothingPastTheEnd
    <3>3. CASE slice[d][l].arr = n.arr
      <4>1. n.arr = Nil
        BY <1>6, <2>1, <2>3, <3>1, <3>3 DEF OwnerInv
      <4>2. heap'[slice'[d][l].arr] = <<>>
        BY <1>1, <3>1, <3>3, <4>1 DEF AppendedAs
      <4> QED
        BY <4>2
    <3> QED
      BY <3>2, <3>3
  <2> QED
    BY <2>2, <2>3
<1>12. Contents(c, k)' = Contents(c, k) \o s
  BY <1>1, <1>3 DEF Contents, AppendedAs
<1>13. ASSUME ~AssignBack, NEW d \in Configs, NEW l \in Parts, <<d, l>> # <<c, k>>
       PROVE  Contents(d, l)' = Contents(d, l)
  <2>1. slice'[d][l] = slice[d][l] /\ OwnerInv
    BY <1>3, <1>13
  <2>2. CASE slice[d][l].arr # n.arr
    <3>1. heap'[slice[d][l].arr] = heap[slice[d][l].arr]
      BY <1>4, <1>5, <1>13, <2>2
    <3> QED
      BY <2>1, <3>1 DEF Contents
  <2>3. CASE slice[d][l].arr = n.arr /\ n.arr = Nil
    BY <1>1, <2>1, <2>3 DEF Contents, AppendedAs, PlaceInv
  <2>4. CASE slice[d][l].arr = n.arr /\ n.arr # Nil
    <3> DEFINE m == slice[d][l].len
    <3>1. /\ l = k /\ d # c /\ Owned(c, k) /\ n.arr = slice[c][k].arr
          /\ Len(heap'[n.arr]) = Len(heap[n.arr])
          /\ \A i \in 1..Len(heap[n.arr]) :
               i <= slice[c][k].len \/ i > n.len => heap'[n.arr][i] = heap[n.arr][i]
      BY <1>6, <1>13, <2>4
    <3>2. m <= slice[c][k].len /\ slice[c][k].len \in Nat
      BY <2>1, <2>4, <3>1 DEF OwnerInv, MemoryOK
    <3>3. /\ m \in Nat /\ heap[n.arr] \in Seq(Cells) /\ m <= Len(heap[n.arr])
          /\ heap'[n.arr] \in Seq(Cells)
      BY <1>1, <1>2, <1>5, <1>13, <2>4 DEF AppendedAs
    <3>4. Len(heap[n.arr]) \in Nat
      BY <3>3, LenProperties
    <3>5. \A i \in 1..m : heap'[n.arr][i] = heap[n.arr][i]
      <4> SUFFICES ASSUME NEW i \in 1..m PROVE heap'[n.arr][i] = heap[n.arr][i]
        OBVIOUS
      <4>1. i \in 1..Len(heap[n.arr]) /\ i <= slice[c][k].len
        BY <3>2, <3>3, <3>4
      <4> QED
        BY <3>1, <4>1
    <3>6. SubSeq(heap'[n.arr], 1, m) = SubSeq(heap[n.arr], 1, m)
      BY <3>1, <3>3, <3>5, SameRead
    <3> QED
      BY <2>1, <2>4, <3>6 DEF Contents
  <2> QED
    BY <2>2, <2>3, <2>4
<1> QED
  BY <1>7, <1>8, <1>9, <1>10, <1>11, <1>12, <1>13

\* A caller's slice installed by reference: no cell changes.
LEMMA BorrowKeeps ==
  ASSUME MemoryInv, "md" \in Parts, NEW c \in Configs, NEW b \in DOMAIN Borrowed,
         Install(c, "md", [arr |-> b, len |-> Visible[b]], heap),
         owner' = [owner EXCEPT ![c]["md"] = NoOwner]
  PROVE  /\ MemoryInv'
         /\ Contents(c, "md")' = SubSeq(Borrowed[b], 1, Visible[b])
         /\ \A d \in Configs, l \in Parts :
              <<d, l>> # <<c, "md">> => Contents(d, l)' = Contents(d, l)
<1> USE DEF MemoryInv
<1> DEFINE n == [arr |-> b, len |-> Visible[b]]
<1>1. /\ slice' = [slice EXCEPT ![c]["md"] = n] /\ heap' = Collect(heap, slice')
      /\ heap \in [Arrays -> Seq(Cells)]
  BY DEF Install, MemoryOK
<1>2. /\ n \in [arr : Arrays, len : Nat] /\ n.arr = b /\ n.len = Visible[b]
      /\ b \in Arrays /\ Visible[b] \in Nat /\ Visible[b] <= Len(Borrowed[b]) /\ b # Nil
  <2>1. b \in Arrays
    BY ArraysAre
  <2>2. Visible[b] \in 0..Len(Borrowed[b]) /\ b # Nil /\ Len(Borrowed[b]) \in Nat
    BY CallConfigAssumption, LenProperties
  <2> QED
    BY <2>1, <2>2
<1> HIDE DEF n
<1>3. /\ heap' \in [Arrays -> Seq(Cells)]
      /\ \A a \in Arrays : a \in Used(slice') => heap'[a] = heap[a]
  BY <1>1, Collected
<1>4. /\ slice'[c]["md"] = n
      /\ \A d \in Configs, l \in Parts : <<d, l>> # <<c, "md">> => slice'[d][l] = slice[d][l]
      /\ slice' \in [Configs -> [Parts -> [arr : Arrays, len : Nat]]]
  BY <1>1, <1>2, OneSlice
<1>5. /\ owner'[c]["md"] = NoOwner
      /\ \A d \in Configs, l \in Parts : <<d, l>> # <<c, "md">> => owner'[d][l] = owner[d][l]
      /\ owner' \in [Configs -> [Parts -> Configs \cup {NoOwner}]]
  <2>1. NoOwner \in Configs \cup {NoOwner}
    OBVIOUS
  <2> QED
    BY <2>1, OneOwner
<1>6. \A d \in Configs, l \in Parts :
        slice'[d][l].arr \in Arrays /\ heap'[slice'[d][l].arr] = heap[slice'[d][l].arr]
  BY <1>3, <1>4, InUse
<1>7. heap'[Nil] = <<>> /\ \A a \in DOMAIN Borrowed : heap'[a] = Borrowed[a]
  <2>1. Nil \in Used(slice')
    BY DEF Used
  <2> QED
    BY <1>3, <2>1, ArraysAre, InUse DEF PlaceInv, BorrowedIsUntouched
<1>8. MemoryOK'
  <2>1. ASSUME NEW d \in Configs, NEW l \in Parts
        PROVE  slice'[d][l].len <= Len(heap'[slice'[d][l].arr])
    <3>1. CASE <<d, l>> = <<c, "md">>
      BY <1>2, <1>4, <1>7, <3>1
    <3>2. CASE <<d, l>> # <<c, "md">>
      BY <1>4, <1>6, <3>2, SMTT(30) DEF MemoryOK
    <3> QED
      BY <3>1, <3>2
  <2> QED
    BY <1>3, <1>4, <1>5, <2>1 DEF MemoryOK
<1>9. PlaceInv'
  <2>1. ASSUME NEW d \in Configs, NEW l \in Parts
        PROVE  /\ slice'[d][l].arr \in Pool[l] \cup {Nil} \cup DOMAIN Borrowed
               /\ slice'[d][l].arr \in DOMAIN Borrowed => l = "md" /\ owner'[d][l] = NoOwner
    <3>1. CASE <<d, l>> = <<c, "md">>
      BY <1>2, <1>4, <1>5, <3>1
    <3>2. CASE <<d, l>> # <<c, "md">>
      <4>1. slice'[d][l] = slice[d][l] /\ owner'[d][l] = owner[d][l]
        BY <1>4, <1>5, <3>2
      <4> QED
        BY <4>1 DEF PlaceInv
    <3> QED
      BY <3>1, <3>2
  <2> QED
    BY <1>7, <2>1 DEF PlaceInv
<1>10. BorrowedIsUntouched'
  BY <1>7 DEF BorrowedIsUntouched
<1>11. ASSUME ~AssignBack PROVE OwnerInv'
  <2> SUFFICES ASSUME NEW d \in Configs, NEW e \in Configs, NEW l \in Parts, d # e,
                      owner'[d][l] = d, slice'[e][l].arr = slice'[d][l].arr,
                      slice'[d][l].arr # Nil
               PROVE  owner'[e][l] # e /\ slice'[e][l].len <= slice'[d][l].len
    BY DEF OwnerInv, Owned
  <2>1. OwnerInv
    BY <1>11
  <2>2. <<d, l>> # <<c, "md">>
    BY <1>5, CallConfigAssumption
  <2>3. slice'[d][l] = slice[d][l] /\ owner[d][l] = d
    BY <1>4, <1>5, <2>2
  <2>4. <<e, l>> # <<c, "md">>
    <3>1. slice[d][l].arr # b
      BY <2>3, CallConfigAssumption DEF PlaceInv
    <3> QED
      BY <1>2, <1>4, <2>3, <3>1
  <2>5. slice'[e][l] = slice[e][l] /\ owner'[e][l] = owner[e][l]
    BY <1>4, <1>5, <2>4
  <2> QED
    BY <2>1, <2>3, <2>5 DEF OwnerInv, Owned
<1>12. ASSUME ~AssignBack PROVE NothingPastTheEnd'
  <2> SUFFICES ASSUME NEW d \in Configs, NEW l \in Parts, owner'[d][l] = d,
                      NEW i \in DOMAIN heap'[slice'[d][l].arr], i > slice'[d][l].len
               PROVE  heap'[slice'[d][l].arr][i] = Blank
    BY DEF NothingPastTheEnd, Owned
  <2>1. NothingPastTheEnd
    BY <1>12
  <2>2. <<d, l>> # <<c, "md">>
    BY <1>5, CallConfigAssumption
  <2>3. slice'[d][l] = slice[d][l] /\ owner[d][l] = d
    BY <1>4, <1>5, <2>2
  <2>4. heap'[slice[d][l].arr] = heap[slice[d][l].arr]
    BY <1>6, <2>3
  <2> QED
    BY <2>1, <2>3, <2>4 DEF NothingPastTheEnd, Owned
<1>13. Contents(c, "md")' = SubSeq(Borrowed[b], 1, Visible[b])
  BY <1>2, <1>4, <1>7 DEF Contents
<1>14. ASSUME NEW d \in Configs, NEW l \in Parts, <<d, l>> # <<c, "md">>
       PROVE  Contents(d, l)' = Contents(d, l)
  <2>1. slice'[d][l] = slice[d][l] /\ heap'[slice[d][l].arr] = heap[slice[d][l].arr]
    BY <1>4, <1>6, <1>14
  <2> QED
    BY <2>1 DEF Contents
<1> QED
  BY <1>8, <1>9, <1>10, <1>11, <1>12, <1>13, <1>14

\* *c = *d: no cell changes, and unless d holds what c owns, c owns nothing of it.
LEMMA AssignKeeps ==
  ASSUME MemoryInv, NEW c \in Configs, NEW d \in Configs, Assign(c, d)
  PROVE  /\ MemoryInv'
         /\ \A k \in Parts : Contents(c, k)' = Contents(d, k)
         /\ \A e \in Configs \ {c}, k \in Parts : Contents(e, k)' = Contents(e, k)
<1> USE DEF MemoryInv
<1>1. /\ c # d /\ slice' = [slice EXCEPT ![c] = slice[d]]
      /\ owner' = [owner EXCEPT ![c] = owner[d]] /\ heap' = Collect(heap, slice')
      /\ heap \in [Arrays -> Seq(Cells)]
      /\ ~AssignBack => \A k \in Parts : owner[d][k] # c
  BY DEF Assign, MemoryOK
<1>2. /\ heap' \in [Arrays -> Seq(Cells)]
      /\ \A a \in Arrays : a \in Used(slice') => heap'[a] = heap[a]
  BY <1>1, Collected
<1>3. /\ slice'[c] = slice[d] /\ \A e \in Configs \ {c} : slice'[e] = slice[e]
      /\ owner'[c] = owner[d] /\ \A e \in Configs \ {c} : owner'[e] = owner[e]
      /\ slice' \in [Configs -> [Parts -> [arr : Arrays, len : Nat]]]
      /\ owner' \in [Configs -> [Parts -> Configs \cup {NoOwner}]]
  BY <1>1 DEF MemoryOK
<1>4. \A e \in Configs, l \in Parts :
        slice'[e][l].arr \in Arrays /\ heap'[slice'[e][l].arr] = heap[slice'[e][l].arr]
  BY <1>2, <1>3, InUse
<1>5. heap'[Nil] = <<>> /\ \A a \in DOMAIN Borrowed : heap'[a] = Borrowed[a]
  <2>1. Nil \in Used(slice')
    BY DEF Used
  <2> QED
    BY <1>2, <2>1, ArraysAre, InUse DEF PlaceInv, BorrowedIsUntouched
<1>6. MemoryOK'
  <2>1. ASSUME NEW e \in Configs, NEW l \in Parts
        PROVE  slice'[e][l].len <= Len(heap'[slice'[e][l].arr])
    <3>1. slice'[e][l] = slice[e][l] \/ slice'[e][l] = slice[d][l]
      BY <1>3
    <3>2. /\ slice[e][l].len <= Len(heap[slice[e][l].arr])
          /\ slice[d][l].len <= Len(heap[slice[d][l].arr])
      BY DEF MemoryOK
    <3>3. heap'[slice'[e][l].arr] = heap[slice'[e][l].arr]
      BY <1>4
    <3> QED
      BY <3>1, <3>2, <3>3
  <2> QED
    BY <1>2, <1>3, <2>1 DEF MemoryOK
<1>7. PlaceInv'
  <2>1. ASSUME NEW e \in Configs, NEW l \in Parts
        PROVE  /\ slice'[e][l].arr \in Pool[l] \cup {Nil} \cup DOMAIN Borrowed
               /\ slice'[e][l].arr \in DOMAIN Borrowed => l = "md" /\ owner'[e][l] = NoOwner
    <3>1. \/ slice'[e][l] = slice[e][l] /\ owner'[e][l] = owner[e][l]
          \/ slice'[e][l] = slice[d][l] /\ owner'[e][l] = owner[d][l]
      BY <1>3
    <3> QED
      BY <3>1 DEF PlaceInv
  <2> QED
    BY <1>5, <2>1 DEF PlaceInv
<1>8. BorrowedIsUntouched'
  BY <1>5 DEF BorrowedIsUntouched
<1>9. ASSUME ~AssignBack PROVE OwnerInv'
  <2> SUFFICES ASSUME NEW a \in Configs, NEW e \in Configs, NEW l \in Parts, a # e,
                      owner'[a][l] = a, slice'[e][l].arr = slice'[a][l].arr,
                      slice'[a][l].arr # Nil
               PROVE  owner'[e][l] # e /\ slice'[e][l].len <= slice'[a][l].len
    BY DEF OwnerInv, Owned
  <2>1. OwnerInv /\ owner[d][l] # c
    BY <1>1, <1>9
  <2>2. a # c /\ slice'[a][l] = slice[a][l] /\ owner[a][l] = a
    BY <1>3, <2>1
  <2>3. CASE e # c
    <3>1. slice'[e][l] = slice[e][l] /\ owner'[e][l] = owner[e][l]
      BY <1>3, <2>3
    <3> QED
      BY <2>1, <2>2, <3>1 DEF OwnerInv, Owned
  <2>4. CASE e = c /\ a # d
    <3>1. slice'[e][l] = slice[d][l] /\ owner'[e][l] = owner[d][l]
      BY <1>3, <2>4
    <3> QED
      BY <2>1, <2>2, <2>4, <3>1 DEF OwnerInv, Owned
  <2>5. CASE e = c /\ a = d
    BY <1>3, <2>1, <2>2, <2>5 DEF MemoryOK
  <2> QED
    BY <2>3, <2>4, <2>5
<1>10. ASSUME ~AssignBack PROVE NothingPastTheEnd'
  <2> SUFFICES ASSUME NEW e \in Configs, NEW l \in Parts, owner'[e][l] = e,
                      NEW i \in DOMAIN heap'[slice'[e][l].arr], i > slice'[e][l].len
               PROVE  heap'[slice'[e][l].arr][i] = Blank
    BY DEF NothingPastTheEnd, Owned
  <2>1. NothingPastTheEnd /\ owner[d][l] # c
    BY <1>1, <1>10
  <2>2. e # c /\ slice'[e][l] = slice[e][l] /\ owner[e][l] = e
    BY <1>3, <2>1
  <2>3. heap'[slice[e][l].arr] = heap[slice[e][l].arr]
    BY <1>4, <2>2
  <2> QED
    BY <2>1, <2>2, <2>3 DEF NothingPastTheEnd, Owned
<1>11. ASSUME NEW k \in Parts PROVE Contents(c, k)' = Contents(d, k)
  BY <1>3, <1>4 DEF Contents
<1>12. ASSUME NEW e \in Configs \ {c}, NEW k \in Parts
       PROVE  Contents(e, k)' = Contents(e, k)
  BY <1>3, <1>4 DEF Contents
<1> QED
  BY <1>6, <1>7, <1>8, <1>9, <1>10, <1>11, <1>12

\* Reset's clear: an array of the config's own keeps its size and has its used
\* part blanked, every other array is as it was.
LEMMA ClearedIs ==
  ASSUME MemoryOK, PlaceInv, NEW c \in Configs
  PROVE  /\ Cleared(c, heap) \in [Arrays -> Seq(Cells)]
         /\ \A a \in Arrays : Len(Cleared(c, heap)[a]) = Len(heap[a])
         /\ \A a \in Arrays :
              (\A k \in Parts : Owned(c, k) => slice[c][k].arr # a)
              => Cleared(c, heap)[a] = heap[a]
         /\ \A k \in Parts : Owned(c, k) =>
              \A i \in 1..Len(heap[slice[c][k].arr]) :
                Cleared(c, heap)[slice[c][k].arr][i] =
                  IF i <= slice[c][k].len THEN Blank ELSE heap[slice[c][k].arr][i]
         /\ Cleared(c, heap)[Nil] = <<>>
<1> DEFINE h == Cleared(c, heap)
           cut(a) == [i \in DOMAIN heap[a] |->
                        IF \E k \in Parts : slice[c][k].arr = a /\ i <= slice[c][k].len
                        THEN Blank ELSE heap[a][i]]
           own(a) == \E k \in Parts : Owned(c, k) /\ slice[c][k].arr = a
<1>1. /\ heap \in [Arrays -> Seq(Cells)] /\ DOMAIN heap = Arrays
      /\ Nil \in Arrays /\ heap[Nil] = <<>>
  BY ArraysAre DEF MemoryOK, PlaceInv
<1>2. ASSUME NEW a \in Arrays PROVE h[a] = IF own(a) THEN cut(a) ELSE heap[a]
  BY <1>1 DEF Cleared
<1>3. h = [a \in Arrays |-> h[a]]
  BY <1>1 DEF Cleared
<1> HIDE DEF h
<1>4. ASSUME NEW a \in Arrays
      PROVE  /\ cut(a) \in Seq(Cells) /\ Len(cut(a)) = Len(heap[a])
             /\ \A i \in 1..Len(heap[a]) :
                  cut(a)[i] = IF \E k \in Parts : slice[c][k].arr = a /\ i <= slice[c][k].len
                              THEN Blank ELSE heap[a][i]
  <2>1. /\ heap[a] \in Seq(Cells) /\ Len(heap[a]) \in Nat /\ DOMAIN heap[a] = 1..Len(heap[a])
        /\ \A i \in 1..Len(heap[a]) : heap[a][i] \in Cells
    BY <1>1, LenProperties, ElementOfSeq
  <2>2. Blank \in Cells
    BY DEF Cells
  <2>3. cut(a) \in [1..Len(heap[a]) -> Cells]
    BY <2>1, <2>2
  <2>4. cut(a) \in Seq(Cells) /\ Len(cut(a)) = Len(heap[a])
    BY <2>1, <2>3
  <2> QED
    BY <2>1, <2>4
<1> HIDE DEF cut
<1>5. ASSUME NEW a \in Arrays
      PROVE  h[a] \in Seq(Cells) /\ Len(h[a]) = Len(heap[a])
  BY <1>1, <1>2, <1>4
<1>6. h \in [Arrays -> Seq(Cells)]
  BY <1>3, <1>5
<1>7. ASSUME NEW a \in Arrays, \A k \in Parts : Owned(c, k) => slice[c][k].arr # a
      PROVE  h[a] = heap[a]
  BY <1>2, <1>7
<1>8. ASSUME NEW k \in Parts, Owned(c, k), NEW i \in 1..Len(heap[slice[c][k].arr])
      PROVE  h[slice[c][k].arr][i] =
               IF i <= slice[c][k].len THEN Blank ELSE heap[slice[c][k].arr][i]
  <2> DEFINE a == slice[c][k].arr
  <2>1. a \in Arrays /\ own(a)
    BY <1>8 DEF MemoryOK
  <2>2. a # Nil
    BY <1>1, <1>8
  <2>3. a \in Pool[k]
    BY <1>8, <2>2, CallConfigAssumption DEF PlaceInv, Owned
  <2>4. \A l \in Parts : slice[c][l].arr = a => l = k
    BY <2>2, <2>3, CallConfigAssumption DEF PlaceInv
  <2>5. h[a][i] = IF \E l \in Parts : slice[c][l].arr = a /\ i <= slice[c][l].len
                  THEN Blank ELSE heap[a][i]
    BY <1>2, <1>4, <1>8, <2>1
  <2> QED
    BY <2>4, <2>5
<1>9. h[Nil] = <<>>
  BY <1>1, <1>5, EmptySeq
<1> QED
  BY <1>5, <1>6, <1>7, <1>8, <1>9 DEF h

\* Reset keeps the invariant, empties the config and is seen by no other one.
LEMMA ResetKeeps ==
  ASSUME MemoryInv, NEW c \in Configs, Reset(c)
  PROVE  /\ MemoryInv'
         /\ \A k \in Parts : Contents(c, k)' = <<>>
         /\ \A d \in Configs \ {c}, k \in Parts : Contents(d, k)' = Contents(d, k)
<1> USE DEF MemoryInv
<1> DEFINE h == Cleared(c, heap)
<1>1. /\ slice' = [slice EXCEPT ![c] = [k \in Parts |->
                    IF Owned(c, k) THEN [@[k] EXCEPT !.len = 0] ELSE NilSlice]]
      /\ heap' = Collect(h, slice') /\ owner' = [owner EXCEPT ![c] = [k \in Parts |-> c]]
      /\ Shared(c) = {}
  BY DEF Reset
<1>2. /\ h \in [Arrays -> Seq(Cells)]
      /\ \A a \in Arrays : Len(h[a]) = Len(heap[a])
      /\ \A a \in Arrays : (\A k \in Parts : Owned(c, k) => slice[c][k].arr # a) => h[a] = heap[a]
      /\ \A k \in Parts : Owned(c, k) =>
           \A i \in 1..Len(heap[slice[c][k].arr]) :
             h[slice[c][k].arr][i] =
               IF i <= slice[c][k].len THEN Blank ELSE heap[slice[c][k].arr][i]
      /\ h[Nil] = <<>>
  BY ClearedIs
<1> HIDE DEF h
<1>3. /\ heap' \in [Arrays -> Seq(Cells)]
      /\ \A a \in Arrays : a \in Used(slice') => heap'[a] = h[a]
  BY <1>1, <1>2, Collected
<1>4. Nil \in Arrays /\ NilSlice \in [arr : Arrays, len : Nat]
  BY ArraysAre DEF NilSlice
<1>5. ASSUME NEW k \in Parts
      PROVE  /\ slice'[c][k] \in [arr : Arrays, len : Nat] /\ slice'[c][k].len = 0
             /\ owner'[c][k] = c
             /\ \/ slice'[c][k].arr = Nil
                \/ Owned(c, k) /\ slice'[c][k].arr = slice[c][k].arr
  <2>1. slice'[c][k] = IF Owned(c, k) THEN [slice[c][k] EXCEPT !.len = 0] ELSE NilSlice
    BY <1>1 DEF MemoryOK
  <2>2. slice[c][k] \in [arr : Arrays, len : Nat]
    BY DEF MemoryOK
  <2>3. owner'[c][k] = c
    BY <1>1 DEF MemoryOK
  <2>4. CASE Owned(c, k)
    BY <2>1, <2>2, <2>3, <2>4
  <2>5. CASE ~Owned(c, k)
    BY <1>4, <2>1, <2>3, <2>5 DEF NilSlice
  <2> QED
    BY <2>4, <2>5
<1>6. \A d \in Configs \ {c} : slice'[d] = slice[d] /\ owner'[d] = owner[d]
  BY <1>1 DEF MemoryOK
<1>7. /\ slice' \in [Configs -> [Parts -> [arr : Arrays, len : Nat]]]
      /\ owner' \in [Configs -> [Parts -> Configs \cup {NoOwner}]]
  <2>1. /\ slice'[c] = [k \in Parts |-> slice'[c][k]] /\ owner'[c] = [k \in Parts |-> owner'[c][k]]
        /\ DOMAIN slice' = Configs /\ DOMAIN owner' = Configs
        /\ slice' = [d \in Configs |-> slice'[d]] /\ owner' = [d \in Configs |-> owner'[d]]
    BY <1>1 DEF MemoryOK
  <2>2. /\ slice'[c] \in [Parts -> [arr : Arrays, len : Nat]]
        /\ owner'[c] \in [Parts -> Configs \cup {NoOwner}]
    BY <1>5, <2>1
  <2>3. \A d \in Configs : /\ slice'[d] \in [Parts -> [arr : Arrays, len : Nat]]
                           /\ owner'[d] \in [Parts -> Configs \cup {NoOwner}]
    BY <1>6, <2>2 DEF MemoryOK
  <2> QED
    BY <2>1, <2>3
<1>8. \A d \in Configs, l \in Parts :
        slice'[d][l].arr \in Arrays /\ heap'[slice'[d][l].arr] = h[slice'[d][l].arr]
  BY <1>3, <1>7, InUse
<1>9. heap'[Nil] = <<>>
  <2>1. Nil \in Used(slice')
    BY DEF Used
  <2> QED
    BY <1>2, <1>3, <1>4, <2>1
<1>10. BorrowedIsUntouched'
  <2>1. ASSUME NEW b \in DOMAIN Borrowed PROVE heap'[b] = Borrowed[b]
    <3>1. \A k \in Parts : Owned(c, k) => slice[c][k].arr # b
      BY CallConfigAssumption DEF PlaceInv, Owned
    <3>2. b \in Arrays /\ b \in Used(slice')
      BY ArraysAre, InUse
    <3> QED
      BY <1>2, <1>3, <3>1, <3>2 DEF BorrowedIsUntouched
  <2> QED
    BY <2>1 DEF BorrowedIsUntouched
<1>11. MemoryOK'
  <2>1. ASSUME NEW d \in Configs, NEW l \in Parts
        PROVE  slice'[d][l].len <= Len(heap'[slice'[d][l].arr])
    <3>1. /\ heap'[slice'[d][l].arr] \in Seq(Cells) /\ slice'[d][l].arr \in Arrays
          /\ Len(heap'[slice'[d][l].arr]) = Len(heap[slice'[d][l].arr])
      BY <1>2, <1>3, <1>8
    <3>2. Len(heap'[slice'[d][l].arr]) \in Nat
      BY <3>1, LenProperties
    <3>3. CASE d = c
      BY <1>5, <3>2, <3>3
    <3>4. CASE d # c
      <4>1. slice'[d][l] = slice[d][l]
        BY <1>6, <3>4
      <4> QED
        BY <3>1, <4>1 DEF MemoryOK
    <3> QED
      BY <3>3, <3>4
  <2> QED
    BY <1>3, <1>7, <2>1 DEF MemoryOK
<1>12. PlaceInv'
  <2>1. ASSUME NEW d \in Configs, NEW l \in Parts
        PROVE  /\ slice'[d][l].arr \in Pool[l] \cup {Nil} \cup DOMAIN Borrowed
               /\ slice'[d][l].arr \in DOMAIN Borrowed => l = "md" /\ owner'[d][l] = NoOwner
    <3>1. CASE d = c
      <4>1. slice'[c][l].arr = Nil \/ (Owned(c, l) /\ slice'[c][l].arr = slice[c][l].arr)
        BY <1>5
      <4> QED
        BY <3>1, <4>1, CallConfigAssumption DEF PlaceInv, Owned
    <3>2. CASE d # c
      <4>1. slice'[d][l] = slice[d][l] /\ owner'[d][l] = owner[d][l]
        BY <1>6, <3>2
      <4> QED
        BY <4>1 DEF PlaceInv
    <3> QED
      BY <3>1, <3>2
  <2> QED
    BY <1>9, <2>1 DEF PlaceInv
\* Where the parts of another config that are not empty lie, nothing is cleared.
<1>13. ASSUME NEW d \in Configs \ {c}, NEW l \in Parts
       PROVE  slice[d][l].len = 0 \/ h[slice[d][l].arr] = heap[slice[d][l].arr]
  <2> DEFINE a == slice[d][l].arr
  <2>1. a \in Arrays /\ slice[d][l].len \in Nat /\ heap[a] \in Seq(Cells)
    BY DEF MemoryOK
  <2>2. CASE \A k \in Parts : Owned(c, k) => slice[c][k].arr # a
    BY <1>2, <2>1, <2>2
  <2>3. CASE a = Nil
    BY <1>2, <2>3 DEF PlaceInv
  <2>4. ASSUME NEW k \in Parts, Owned(c, k), slice[c][k].arr = a, a # Nil
        PROVE  slice[d][l].len = 0 \/ h[a] = heap[a]
    <3>1. l = k
      BY <2>4, CallConfigAssumption DEF PlaceInv, Owned
    <3>2. CASE slice[c][k].len > 0
      <4>1. ~(slice[d][k].len > 0)
        BY <1>1, <2>4, <3>1, <3>2 DEF Shared
      <4> QED
        BY <2>1, <3>1, <4>1
    <3>3. CASE ~(slice[c][k].len > 0)
      <4>1. slice[c][k].len \in Nat
        BY DEF MemoryOK
      <4>2. \A i \in 1..Len(heap[a]) : h[a][i] = heap[a][i]
        BY <1>2, <2>4, <3>3, <4>1
      <4>3. h[a] \in Seq(Cells) /\ Len(h[a]) = Len(heap[a])
        BY <1>2, <2>1
      <4> QED
        BY <2>1, <4>2, <4>3, SeqEqual
    <3> QED
      BY <3>2, <3>3
  <2> QED
    BY <2>2, <2>3, <2>4
<1>14. ASSUME ~AssignBack PROVE OwnerInv'
  <2> SUFFICES ASSUME NEW a \in Configs, NEW e \in Configs, NEW l \in Parts, a # e,
                      owner'[a][l] = a, slice'[e][l].arr = slice'[a][l].arr,
                      slice'[a][l].arr # Nil
               PROVE  owner'[e][l] # e /\ slice'[e][l].len <= slice'[a][l].len
    BY DEF OwnerInv, Owned
  <2>1. OwnerInv
    BY <1>14
  <2>2. CASE a = c
    <3>1. /\ Owned(c, l) /\ slice'[c][l].arr = slice[c][l].arr /\ slice'[c][l].len = 0
          /\ slice'[e][l] = slice[e][l] /\ owner'[e][l] = owner[e][l]
      BY <1>5, <1>6, <2>2
    <3>2. ~Owned(e, l) /\ slice[e][l].len <= slice[c][l].len
      BY <2>1, <2>2, <3>1 DEF OwnerInv
    <3>3. slice[e][l].len \in Nat /\ slice[c][l].len \in Nat
      BY DEF MemoryOK
    <3>4. slice[c][l].len > 0 => ~(slice[e][l].len > 0)
      BY <1>1, <2>2, <3>1 DEF Shared
    <3> QED
      BY <2>2, <3>1, <3>2, <3>3, <3>4 DEF Owned
  <2>3. CASE e = c
    <3>1. /\ Owned(c, l) /\ slice'[c][l].arr = slice[c][l].arr
          /\ slice'[a][l] = slice[a][l] /\ owner[a][l] = a
      BY <1>5, <1>6, <2>3
    <3> QED
      BY <2>1, <2>3, <3>1 DEF OwnerInv, Owned
  <2>4. CASE a # c /\ e # c
    <3>1. /\ slice'[a][l] = slice[a][l] /\ slice'[e][l] = slice[e][l]
          /\ owner'[a][l] = owner[a][l] /\ owner'[e][l] = owner[e][l]
      BY <1>6, <2>4
    <3> QED
      BY <2>1, <3>1 DEF OwnerInv, Owned
  <2> QED
    BY <2>2, <2>3, <2>4
<1>15. ASSUME ~AssignBack PROVE NothingPastTheEnd'
  <2> SUFFICES ASSUME NEW d \in Configs, NEW l \in Parts, owner'[d][l] = d,
                      NEW i \in DOMAIN heap'[slice'[d][l].arr], i > slice'[d][l].len
               PROVE  heap'[slice'[d][l].arr][i] = Blank
    BY DEF NothingPastTheEnd, Owned
  <2>1. OwnerInv /\ NothingPastTheEnd
    BY <1>15
  <2>2. slice'[d][l].arr # Nil
    BY <1>9
  <2>3. CASE d = c
    <3> DEFINE a == slice[c][l].arr
    <3>1. Owned(c, l) /\ slice'[c][l].arr = a /\ a \in Arrays
      BY <1>5, <2>2, <2>3 DEF MemoryOK
    <3>2. heap'[a] = h[a] /\ h[a] \in Seq(Cells) /\ heap[a] \in Seq(Cells)
      BY <1>2, <1>8, <3>1 DEF MemoryOK
    <3>3. i \in 1..Len(heap[a]) /\ i \in DOMAIN heap[a] /\ i \in Nat
      <4>1. Len(heap[a]) \in Nat /\ DOMAIN heap[a] = 1..Len(heap[a])
        BY <3>2, LenProperties
      <4>2. DOMAIN h[a] = 1..Len(h[a]) /\ Len(h[a]) = Len(heap[a])
        BY <1>2, <3>1, <3>2, LenProperties
      <4>3. i \in DOMAIN h[a]
        BY <2>3, <3>1, <3>2
      <4> QED
        BY <4>1, <4>2, <4>3
    <3>4. h[a][i] = IF i <= slice[c][l].len THEN Blank ELSE heap[a][i]
      BY <1>2, <3>1, <3>3
    <3>5. ~(i <= slice[c][l].len) => heap[a][i] = Blank
      <4>1. slice[c][l].len \in Nat
        BY DEF MemoryOK
      <4>2. ~(i <= slice[c][l].len) => i > slice[c][l].len
        BY <3>3, <4>1
      <4> QED
        BY <2>1, <3>1, <3>3, <4>2 DEF NothingPastTheEnd
    <3> QED
      BY <2>3, <3>1, <3>2, <3>4, <3>5
  <2>4. CASE d # c
    <3> DEFINE a == slice[d][l].arr
    <3>1. slice'[d][l] = slice[d][l] /\ owner[d][l] = d /\ a \in Arrays /\ a # Nil
      BY <1>6, <2>2, <2>4 DEF MemoryOK
    <3>2. \A k \in Parts : Owned(c, k) => slice[c][k].arr # a
      <4> SUFFICES ASSUME NEW k \in Parts, Owned(c, k), slice[c][k].arr = a PROVE FALSE
        OBVIOUS
      <4>1. l = k
        BY <3>1, CallConfigAssumption DEF PlaceInv, Owned
      <4> QED
        BY <2>1, <2>4, <3>1, <4>1 DEF OwnerInv, Owned
    <3>3. heap'[a] = heap[a]
      BY <1>2, <1>8, <3>1, <3>2
    <3> QED
      BY <2>1, <3>1, <3>3 DEF NothingPastTheEnd, Owned
  <2> QED
    BY <2>3, <2>4
<1>16. ASSUME NEW k \in Parts PROVE Contents(c, k)' = <<>>
  BY <1>5, SubSeqEmpty DEF Contents
<1>17. ASSUME NEW d \in Configs \ {c}, NEW l \in Parts
       PROVE  Contents(d, l)' = Contents(d, l)
  <2>1. slice'[d][l] = slice[d][l] /\ heap'[slice[d][l].arr] = h[slice[d][l].arr]
    BY <1>6, <1>8
  <2>2. CASE h[slice[d][l].arr] = heap[slice[d][l].arr]
    BY <2>1, <2>2 DEF Contents
  <2>3. CASE slice[d][l].len = 0
    <3>1. Contents(d, l) = <<>> /\ Contents(d, l)' = <<>>
      BY <2>1, <2>3, SubSeqEmpty DEF Contents
    <3> QED
      BY <3>1
  <2> QED
    BY <1>13, <2>2, <2>3
<1> QED
  BY <1>10, <1>11, <1>12, <1>14, <1>15, <1>16, <1>17

\* A new variable starts empty and unowned.
LEMMA DeclareKeeps ==
  ASSUME MemoryInv, NEW c \in Configs, Declare(c)
  PROVE  /\ MemoryInv'
         /\ \A k \in Parts : Contents(c, k)' = <<>>
         /\ \A d \in Configs \ {c}, k \in Parts : Contents(d, k)' = Contents(d, k)
<1> USE DEF MemoryInv
<1>1. /\ slice' = [slice EXCEPT ![c] = [k \in Parts |-> NilSlice]]
      /\ owner' = [owner EXCEPT ![c] = [k \in Parts |-> NoOwner]]
      /\ heap' = Collect(heap, slice') /\ heap \in [Arrays -> Seq(Cells)]
  BY DEF Declare, MemoryOK
<1>2. /\ heap' \in [Arrays -> Seq(Cells)]
      /\ \A a \in Arrays : a \in Used(slice') => heap'[a] = heap[a]
  BY <1>1, Collected
<1>3. Nil \in Arrays /\ NilSlice \in [arr : Arrays, len : Nat]
      /\ NilSlice.arr = Nil /\ NilSlice.len = 0
  BY ArraysAre DEF NilSlice
<1>4. /\ \A k \in Parts : slice'[c][k] = NilSlice /\ owner'[c][k] = NoOwner
      /\ \A e \in Configs \ {c} : slice'[e] = slice[e] /\ owner'[e] = owner[e]
      /\ slice' \in [Configs -> [Parts -> [arr : Arrays, len : Nat]]]
      /\ owner' \in [Configs -> [Parts -> Configs \cup {NoOwner}]]
  BY <1>1, <1>3 DEF MemoryOK
<1>5. \A e \in Configs, l \in Parts :
        slice'[e][l].arr \in Arrays /\ heap'[slice'[e][l].arr] = heap[slice'[e][l].arr]
  BY <1>2, <1>4, InUse
<1>6. heap'[Nil] = <<>> /\ \A a \in DOMAIN Borrowed : heap'[a] = Borrowed[a]
  <2>1. Nil \in Used(slice')
    BY DEF Used
  <2> QED
    BY <1>2, <2>1, ArraysAre, InUse DEF PlaceInv, BorrowedIsUntouched
<1>7. MemoryOK'
  <2>1. ASSUME NEW e \in Configs, NEW l \in Parts
        PROVE  slice'[e][l].len <= Len(heap'[slice'[e][l].arr])
    <3>1. CASE e = c
      BY <1>3, <1>4, <1>6, <3>1
    <3>2. CASE e # c
      <4>1. slice'[e][l] = slice[e][l] /\ heap'[slice[e][l].arr] = heap[slice[e][l].arr]
        BY <1>4, <1>5, <3>2
      <4> QED
        BY <4>1 DEF MemoryOK
    <3> QED
      BY <3>1, <3>2
  <2> QED
    BY <1>2, <1>4, <2>1 DEF MemoryOK
<1>8. PlaceInv'
  <2>1. ASSUME NEW e \in Configs, NEW l \in Parts
        PROVE  /\ slice'[e][l].arr \in Pool[l] \cup {Nil} \cup DOMAIN Borrowed
               /\ slice'[e][l].arr \in DOMAIN Borrowed => l = "md" /\ owner'[e][l] = NoOwner
    <3>1. CASE e = c
      BY <1>3, <1>4, <3>1, CallConfigAssumption
    <3>2. CASE e # c
      <4>1. slice'[e][l] = slice[e][l] /\ owner'[e][l] = owner[e][l]
        BY <1>4, <3>2
      <4> QED
        BY <4>1 DEF PlaceInv
    <3> QED
      BY <3>1, <3>2
  <2> QED
    BY <1>6, <2>1 DEF PlaceInv
<1>9. BorrowedIsUntouched'
  BY <1>6 DEF BorrowedIsUntouched
<1>10. ASSUME ~AssignBack PROVE OwnerInv'
  <2> SUFFICES ASSUME NEW a \in Configs, NEW e \in Configs, NEW l \in Parts, a # e,
                      owner'[a][l] = a, slice'[e][l].arr = slice'[a][l].arr,
                      slice'[a][l].arr # Nil
               PROVE  owner'[e][l] # e /\ slice'[e][l].len <= slice'[a][l].len
    BY DEF OwnerInv, Owned
  <2>1. OwnerInv /\ a # c /\ e # c
    BY <1>3, <1>4, <1>10
  <2>2. /\ slice'[a][l] = slice[a][l] /\ slice'[e][l] = slice[e][l]
        /\ owner'[a][l] = owner[a][l] /\ owner'[e][l] = owner[e][l]
    BY <1>4, <2>1
  <2> QED
    BY <2>1, <2>2 DEF OwnerInv, Owned
<1>11. ASSUME ~AssignBack PROVE NothingPastTheEnd'
  <2> SUFFICES ASSUME NEW e \in Configs, NEW l \in Parts, owner'[e][l] = e,
                      NEW i \in DOMAIN heap'[slice'[e][l].arr], i > slice'[e][l].len
               PROVE  heap'[slice'[e][l].arr][i] = Blank
    BY DEF NothingPastTheEnd, Owned
  <2>1. NothingPastTheEnd
    BY <1>11
  <2>2. e # c
    BY <1>3, <1>4, <1>6
  <2>3. /\ slice'[e][l] = slice[e][l] /\ owner[e][l] = e
        /\ heap'[slice[e][l].arr] = heap[slice[e][l].arr]
    BY <1>4, <1>5, <2>2
  <2> QED
    BY <2>1, <2>3 DEF NothingPastTheEnd, Owned
<1>12. ASSUME NEW k \in Parts PROVE Contents(c, k)' = <<>>
  BY <1>3, <1>4, SubSeqEmpty DEF Contents
<1>13. ASSUME NEW e \in Configs \ {c}, NEW k \in Parts
       PROVE  Contents(e, k)' = Contents(e, k)
  <2>1. slice'[e][k] = slice[e][k] /\ heap'[slice[e][k].arr] = heap[slice[e][k].arr]
    BY <1>4, <1>5
  <2> QED
    BY <2>1 DEF Contents
<1> QED
  BY <1>7, <1>8, <1>9, <1>10, <1>11, <1>12, <1>13

-----------------------------------------------------------------------------
(* The operations, one by one: the invariant, and the step they are of     *)
(* ConfigValues.                                                           *)

\* What operations are given are sequences of cells.
LEMMA GivenAreCells == \A s \in Given : s \in Seq(Cells)
<1>1. Opt \in Cells /\ \A f \in Fields : f \in Cells
  BY DEF Cells
<1>2. <<>> \in Seq(Cells) /\ <<Opt>> \in Seq(Cells) /\ \A f \in Fields : <<f>> \in Seq(Cells)
  BY <1>1
<1>3. \A b \in DOMAIN Borrowed : SubSeq(Borrowed[b], 1, Visible[b]) \in Seq(Cells)
  BY CellsOfBorrowed
<1> QED
  BY <1>2, <1>3 DEF Given, Seen, OptionLists

\* An operation that leaves a config's parts, codec and error alone leaves the
\* value it stands for alone.
LEMMA Unseen ==
  ASSUME NEW d \in Configs, \A k \in Parts : Contents(d, k)' = Contents(d, k),
         codec'[d] = codec[d], err'[d] = err[d]
  PROVE  Vals'[d] = Vals[d]
<1>1. [k \in Parts |-> Contents(d, k)'] = [k \in Parts |-> Contents(d, k)]
  OBVIOUS
<1>2. /\ Vals[d] = [parts |-> [k \in Parts |-> Contents(d, k)],
                    codec |-> codec[d], err |-> err[d]]
      /\ Vals'[d] = [parts |-> [k \in Parts |-> Contents(d, k)'],
                     codec |-> codec'[d], err |-> err'[d]]
  BY DEF Vals
<1> QED
  BY <1>1, <1>2

\* Appending to one part, with the codec and the error as they were.
LEMMA AppendIsExtend ==
  ASSUME IInv, NEW c \in Configs, NEW k \in Parts, NEW s \in Given,
         AppendTo(c, k, s), UNCHANGED <<codec, err>>
  PROVE  MemoryInv' /\ (~AssignBack => Values!Extend(c, k, s))
<1>1. s \in Seq(Cells)
  BY GivenAreCells
<1>2. /\ MemoryInv' /\ Contents(c, k)' = Contents(c, k) \o s
      /\ ~AssignBack => \A d \in Configs, l \in Parts :
           <<d, l>> # <<c, k>> => Contents(d, l)' = Contents(d, l)
  BY <1>1, AppendKeeps DEF IInv
<1>3. ASSUME ~AssignBack PROVE Values!Extend(c, k, s)
  <2>1. \A d \in Configs, l \in Parts : <<d, l>> # <<c, k>> => Contents(d, l)' = Contents(d, l)
    BY <1>2, <1>3
  <2>2. ASSUME NEW d \in Configs \ {c} PROVE Vals'[d] = Vals[d]
    <3>1. \A l \in Parts : Contents(d, l)' = Contents(d, l)
      BY <2>1
    <3> QED
      BY <3>1, Unseen
  <2> DEFINE t == Contents(c, k) \o s
  <2>3. [l \in Parts |-> Contents(c, l)'] =
          [[l \in Parts |-> Contents(c, l)] EXCEPT ![k] = t]
    BY <1>2, <2>1
  <2>4. /\ Vals[c] = [parts |-> [l \in Parts |-> Contents(c, l)],
                      codec |-> codec[c], err |-> err[c]]
        /\ Vals'[c] = [parts |-> [l \in Parts |-> Contents(c, l)'],
                       codec |-> codec[c], err |-> err[c]]
    BY DEF Vals
  <2>5. Vals'[c] = [Vals[c] EXCEPT !.parts[k] = @ \o s]
    <3>1. Vals[c].parts[k] \o s = t
      BY <2>4
    <3> HIDE DEF t
    <3>2. Vals'[c] = [Vals[c] EXCEPT !.parts[k] = t]
      BY <2>3, <2>4
    <3> QED
      BY <3>1, <3>2
  <2> QED
    BY <2>2, <2>5 DEF Values!OnlyChanges, Values!Extend, Values!Becomes
<1> QED
  BY <1>2, <1>3

\* Installing a caller's slice is replacing the metadata by what it holds.
LEMMA BorrowIsReplace ==
  ASSUME IInv, "md" \in Parts, NEW c \in Configs, NEW b \in DOMAIN Borrowed,
         Install(c, "md", [arr |-> b, len |-> Visible[b]], heap),
         owner' = [owner EXCEPT ![c]["md"] = NoOwner], UNCHANGED <<codec, err>>
  PROVE  MemoryInv' /\ Values!Replace(c, Seen(b))
<1> DEFINE s == Seen(b)
<1>1. /\ MemoryInv' /\ Contents(c, "md")' = s
      /\ \A d \in Configs, l \in Parts :
           <<d, l>> # <<c, "md">> => Contents(d, l)' = Contents(d, l)
  BY BorrowKeeps DEF IInv, Seen
<1>3. ASSUME NEW d \in Configs \ {c} PROVE Vals'[d] = Vals[d]
  <2>1. \A l \in Parts : Contents(d, l)' = Contents(d, l)
    BY <1>1
  <2> QED
    BY <2>1, Unseen
<1>4. [l \in Parts |-> Contents(c, l)'] =
        [[l \in Parts |-> Contents(c, l)] EXCEPT !["md"] = s]
  BY <1>1
<1>5. /\ Vals[c] = [parts |-> [l \in Parts |-> Contents(c, l)],
                    codec |-> codec[c], err |-> err[c]]
      /\ Vals'[c] = [parts |-> [l \in Parts |-> Contents(c, l)'],
                     codec |-> codec[c], err |-> err[c]]
  BY DEF Vals
<1>6. Vals'[c] = [Vals[c] EXCEPT !.parts["md"] = s]
  BY <1>4, <1>5
<1> QED
  BY <1>1, <1>3, <1>6 DEF Values!OnlyChanges, Values!Replace, Values!Becomes

\* WithMetadata borrows or appends: when it borrows there was nothing to keep.
LEMMA WithMetadataStep ==
  ASSUME IInv, NEW c \in Configs, NEW b \in DOMAIN Borrowed, WithMetadata(c, b)
  PROVE  MemoryInv' /\ (~AssignBack => Values!Extend(c, "md", Seen(b)))
<1>1. "md" \in Parts /\ UNCHANGED <<codec, err>>
  BY DEF WithMetadata
<1>2. Seen(b) \in Given /\ Seen(b) \in Seq(Cells)
  BY GivenAreCells DEF Given
<1>3. CASE slice[c]["md"].len = 0 /\ ~Owned(c, "md")
  <2>1. /\ Install(c, "md", [arr |-> b, len |-> Visible[b]], heap)
        /\ owner' = [owner EXCEPT ![c]["md"] = NoOwner]
    BY <1>3 DEF WithMetadata
  <2>2. MemoryInv' /\ Values!Replace(c, Seen(b))
    BY <1>1, <2>1, BorrowIsReplace
  <2>3. Contents(c, "md") = <<>>
    BY <1>3, SubSeqEmpty DEF Contents
  <2>4. Vals[c].parts["md"] \o Seen(b) = Seen(b)
    <3>1. Vals[c].parts["md"] = <<>>
      BY <1>1, <2>3 DEF Vals
    <3> QED
      BY <1>2, <3>1, ConcatEmptySeq
  <2> QED
    BY <2>2, <2>4 DEF Values!Replace, Values!Extend
<1>4. CASE ~(slice[c]["md"].len = 0 /\ ~Owned(c, "md"))
  <2>1. SubSeq(heap[b], 1, Visible[b]) = Seen(b)
    BY DEF IInv, MemoryInv, BorrowedIsUntouched, Seen
  <2>2. AppendTo(c, "md", Seen(b))
    BY <1>4, <2>1 DEF WithMetadata
  <2> QED
    BY <1>1, <1>2, <2>2, AppendIsExtend
<1> QED
  BY <1>3, <1>4

\* The first failure is kept.
LEMMA FailWithStep ==
  ASSUME IInv, NEW c \in Configs, NEW e \in Failures, FailWith(c, e), codec' = codec,
         \A d \in Configs, l \in Parts : Contents(d, l)' = Contents(d, l)
  PROVE  Values!Fail(c, e)
<1> DEFINE first == IF err[c] = NoErr THEN e ELSE err[c]
<1>1. /\ err'[c] = first
      /\ \A d \in Configs \ {c} : err'[d] = err[d]
  BY DEF FailWith, IInv, TypeOK
<1>2. ASSUME NEW d \in Configs \ {c} PROVE Vals'[d] = Vals[d]
  BY <1>1, Unseen
<1>3. [l \in Parts |-> Contents(c, l)'] = [l \in Parts |-> Contents(c, l)]
  OBVIOUS
<1>4. /\ Vals[c] = [parts |-> [l \in Parts |-> Contents(c, l)],
                    codec |-> codec[c], err |-> err[c]]
      /\ Vals'[c] = [parts |-> [l \in Parts |-> Contents(c, l)'],
                     codec |-> codec[c], err |-> first]
  BY <1>1 DEF Vals
<1>5. Vals'[c] = [Vals[c] EXCEPT !.err = IF @ = NoErr THEN e ELSE @]
  <2>1. (IF Vals[c].err = NoErr THEN e ELSE Vals[c].err) = first
    BY <1>4
  <2> HIDE DEF first
  <2>2. Vals'[c] = [Vals[c] EXCEPT !.err = first]
    BY <1>3, <1>4
  <2> QED
    BY <2>1, <2>2
<1> QED
  BY <1>2, <1>5 DEF Values!OnlyChanges, Values!Fail, Values!Becomes

\* A refused header leaves the metadata as it was.
LEMMA AppendHeaderFailsStep ==
  ASSUME IInv, NEW c \in Configs, NEW e \in Failures, AppendHeaderFails(c, e)
  PROVE  MemoryInv' /\ (~AssignBack => Values!Fail(c, e))
<1>1. "md" \in Parts /\ AppendTo(c, "md", <<>>) /\ FailWith(c, e) /\ codec' = codec
  BY DEF AppendHeaderFails
<1>2. /\ MemoryInv' /\ Contents(c, "md")' = Contents(c, "md") \o <<>>
      /\ ~AssignBack => \A d \in Configs, l \in Parts :
           <<d, l>> # <<c, "md">> => Contents(d, l)' = Contents(d, l)
  BY <1>1, AppendKeeps, EmptySeq DEF IInv
<1>3. Contents(c, "md")' = Contents(c, "md")
  <2>1. /\ heap[slice[c]["md"].arr] \in Seq(Cells) /\ slice[c]["md"].len \in Nat
        /\ slice[c]["md"].len <= Len(heap[slice[c]["md"].arr])
    BY <1>1 DEF IInv, MemoryInv, MemoryOK
  <2>2. Contents(c, "md") \in Seq(Cells)
    BY <2>1, Read DEF Contents
  <2> QED
    BY <1>2, <2>2, ConcatEmptySeq
<1>4. ASSUME ~AssignBack PROVE Values!Fail(c, e)
  <2>1. \A d \in Configs, l \in Parts : Contents(d, l)' = Contents(d, l)
    BY <1>2, <1>3, <1>4
  <2> QED
    BY <1>1, <2>1, FailWithStep
<1> QED
  BY <1>2, <1>4

\* An operation that leaves memory alone.
LEMMA SameMemory ==
  ASSUME MemoryInv, UNCHANGED <<heap, slice, owner>>
  PROVE  MemoryInv' /\ \A d \in Configs, l \in Parts : Contents(d, l)' = Contents(d, l)
<1>1. MemoryOK' /\ PlaceInv' /\ BorrowedIsUntouched'
  BY DEF MemoryInv, MemoryOK, PlaceInv, BorrowedIsUntouched
<1>2. ASSUME ~AssignBack PROVE OwnerInv' /\ NothingPastTheEnd'
  BY <1>2 DEF MemoryInv, OwnerInv, NothingPastTheEnd, Owned
<1>3. \A d \in Configs, l \in Parts : Contents(d, l)' = Contents(d, l)
  BY DEF Contents
<1> QED
  BY <1>1, <1>2, <1>3 DEF MemoryInv

\* Choosing a codec.
LEMMA SetCodecStep ==
  ASSUME IInv, NEW c \in Configs, NEW cd \in Codecs, SetCodec(c, cd)
  PROVE  MemoryInv' /\ Values!SetCodec(c, cd)
<1>1. /\ codec' = [codec EXCEPT ![c] = cd] /\ UNCHANGED <<heap, slice, owner>> /\ err' = err
      /\ codec \in [Configs -> Codecs \cup {NoCodec}]
  BY DEF SetCodec, IInv, TypeOK
<1>2. MemoryInv' /\ \A d \in Configs, l \in Parts : Contents(d, l)' = Contents(d, l)
  BY <1>1, SameMemory DEF IInv
<1>3. ASSUME NEW d \in Configs \ {c} PROVE Vals'[d] = Vals[d]
  <2>1. codec'[d] = codec[d] /\ err'[d] = err[d] /\ \A l \in Parts : Contents(d, l)' = Contents(d, l)
    BY <1>1, <1>2
  <2> QED
    BY <2>1, Unseen
<1>4. [l \in Parts |-> Contents(c, l)'] = [l \in Parts |-> Contents(c, l)]
  BY <1>2
<1>5. /\ Vals[c] = [parts |-> [l \in Parts |-> Contents(c, l)],
                    codec |-> codec[c], err |-> err[c]]
      /\ Vals'[c] = [parts |-> [l \in Parts |-> Contents(c, l)'],
                     codec |-> cd, err |-> err[c]]
  BY <1>1 DEF Vals
<1>6. Vals'[c] = [Vals[c] EXCEPT !.codec = cd]
  BY <1>4, <1>5
<1> QED
  BY <1>2, <1>3, <1>6 DEF Values!OnlyChanges, Values!SetCodec, Values!Becomes

\* The operations of ConfigValues are its steps.
LEMMA ValueSteps ==
  ASSUME NEW c \in Configs
  PROVE  /\ Values!Reset(c) => Values!Next
         /\ \A d \in Configs : Values!Assign(c, d) => Values!Next
         /\ \A s \in Given : Values!Replace(c, s) => Values!Next
         /\ \A s \in Given, k \in Parts : Values!Extend(c, k, s) => Values!Next
         /\ \A cd \in Codecs : Values!SetCodec(c, cd) => Values!Next
         /\ \A e \in Failures : Values!Fail(c, e) => Values!Next
<1>1. ASSUME NEW v, Values!Becomes(c, v) PROVE Values!OnlyChanges(c)
  BY <1>1 DEF Values!Becomes
<1>2. Values!Reset(c) => Values!Next
  BY <1>1 DEF Values!Next, Values!Reset
<1>3. ASSUME NEW d \in Configs, Values!Assign(c, d) PROVE Values!Next
  BY <1>1, <1>3 DEF Values!Next, Values!Assign
<1>4. ASSUME NEW s \in Given, Values!Replace(c, s) PROVE Values!Next
  BY <1>1, <1>4 DEF Values!Next, Values!Replace
<1>5. ASSUME NEW s \in Given, NEW k \in Parts, Values!Extend(c, k, s) PROVE Values!Next
  BY <1>1, <1>5 DEF Values!Next, Values!Extend
<1>6. ASSUME NEW cd \in Codecs, Values!SetCodec(c, cd) PROVE Values!Next
  BY <1>1, <1>6 DEF Values!Next, Values!SetCodec
<1>7. ASSUME NEW e \in Failures, Values!Fail(c, e) PROVE Values!Next
  BY <1>1, <1>7 DEF Values!Next, Values!Fail
<1> QED
  BY <1>2, <1>3, <1>4, <1>5, <1>6, <1>7

\* Applying an option, whatever it was built with.
LEMMA ApplyStep ==
  ASSUME IInv, NEW c \in Configs, NEW o \in Options, Apply(c, o)
  PROVE  /\ MemoryInv'
         /\ codec' \in [Configs -> Codecs \cup {NoCodec}]
         /\ err' \in [Configs -> Failures \cup {NoErr}]
         /\ ~AssignBack => Values!Next
<1>1. /\ codec \in [Configs -> Codecs \cup {NoCodec}]
      /\ err \in [Configs -> Failures \cup {NoErr}]
  BY DEF IInv, TypeOK
<1>2. CASE o.does = "metadata"
  <2>1. o.arg \in DOMAIN Borrowed /\ WithMetadata(c, o.arg)
    BY <1>2 DEF Options, Apply
  <2>2. codec' = codec /\ err' = err
    BY <2>1 DEF WithMetadata
  <2>3. "md" \in Parts /\ Seen(o.arg) \in Given
    BY <2>1 DEF WithMetadata, Given
  <2> QED
    BY <1>1, <2>1, <2>2, <2>3, WithMetadataStep, ValueSteps
<1>3. CASE o.does = "field"
  <2>1. o.arg \in Fields /\ AppendField(c, o.arg)
    BY <1>3 DEF Options, Apply
  <2>2. /\ "md" \in Parts /\ AppendTo(c, "md", <<o.arg>>) /\ UNCHANGED <<codec, err>>
        /\ <<o.arg>> \in Given
    BY <2>1 DEF AppendField, Given
  <2> QED
    BY <1>1, <2>2, AppendIsExtend, ValueSteps
<1>4. CASE o.does = "badHeader"
  <2>1. o.arg \in Failures /\ AppendHeaderFails(c, o.arg)
    BY <1>4 DEF Options, Apply
  <2>2. codec' = codec /\ err' \in [Configs -> Failures \cup {NoErr}]
    BY <1>1, <2>1 DEF AppendHeaderFails, FailWith
  <2> QED
    BY <1>1, <2>1, <2>2, AppendHeaderFailsStep, ValueSteps
<1>5. CASE o.does = "codec"
  <2>1. o.arg \in Codecs /\ SetCodec(c, o.arg)
    BY <1>5 DEF Options, Apply
  <2>2. err' = err /\ codec' \in [Configs -> Codecs \cup {NoCodec}]
    BY <1>1, <2>1 DEF SetCodec
  <2> QED
    BY <1>1, <2>1, <2>2, SetCodecStep, ValueSteps
<1>6. CASE o.does = "poseidon"
  <2>1. o.arg \in OptionLists /\ AppendPoseidonOptions(c, o.arg)
    BY <1>6 DEF Options, Apply
  <2>2. /\ "pass" \in Parts /\ AppendTo(c, "pass", o.arg) /\ UNCHANGED <<codec, err>>
        /\ o.arg \in Given
    BY <2>1 DEF AppendPoseidonOptions, Given
  <2> QED
    BY <1>1, <2>2, AppendIsExtend, ValueSteps
<1> QED
  BY <1>2, <1>3, <1>4, <1>5, <1>6 DEF Options

\* Emptying a config: Reset and Declare.
LEMMA EmptyIsReset ==
  ASSUME IInv, NEW c \in Configs, \A k \in Parts : Contents(c, k)' = <<>>,
         \A d \in Configs \ {c}, k \in Parts : Contents(d, k)' = Contents(d, k),
         codec' = [codec EXCEPT ![c] = NoCodec], err' = [err EXCEPT ![c] = NoErr]
  PROVE  Values!Reset(c)
<1>1. /\ codec'[c] = NoCodec /\ err'[c] = NoErr
      /\ \A d \in Configs \ {c} : codec'[d] = codec[d] /\ err'[d] = err[d]
  BY DEF IInv, TypeOK
<1>2. ASSUME NEW d \in Configs \ {c} PROVE Vals'[d] = Vals[d]
  <2>1. codec'[d] = codec[d] /\ err'[d] = err[d] /\ \A l \in Parts : Contents(d, l)' = Contents(d, l)
    BY <1>1
  <2> QED
    BY <2>1, Unseen
<1>3. [k \in Parts |-> Contents(c, k)'] = [k \in Parts |-> <<>>]
  OBVIOUS
<1>4. Vals'[c] = [parts |-> [k \in Parts |-> Contents(c, k)'], codec |-> NoCodec, err |-> NoErr]
  BY <1>1 DEF Vals
<1> QED
  BY <1>2, <1>3, <1>4 DEF Values!OnlyChanges, Values!Reset, Values!Becomes, Values!Zero

\* An assignment copies the value.
LEMMA AssignIsAssign ==
  ASSUME IInv, NEW c \in Configs, NEW d \in Configs, Assign(c, d)
  PROVE  MemoryInv' /\ Values!Assign(c, d)
<1>1. /\ MemoryInv' /\ \A k \in Parts : Contents(c, k)' = Contents(d, k)
      /\ \A e \in Configs \ {c}, k \in Parts : Contents(e, k)' = Contents(e, k)
  BY AssignKeeps DEF IInv
<1>2. /\ codec'[c] = codec[d] /\ err'[c] = err[d]
      /\ \A e \in Configs \ {c} : codec'[e] = codec[e] /\ err'[e] = err[e]
  BY DEF Assign, IInv, TypeOK
<1>3. ASSUME NEW e \in Configs \ {c} PROVE Vals'[e] = Vals[e]
  <2>1. codec'[e] = codec[e] /\ err'[e] = err[e] /\ \A l \in Parts : Contents(e, l)' = Contents(e, l)
    BY <1>1, <1>2
  <2> QED
    BY <2>1, Unseen
<1>4. [k \in Parts |-> Contents(c, k)'] = [k \in Parts |-> Contents(d, k)]
  BY <1>1
<1>5. /\ Vals[d] = [parts |-> [k \in Parts |-> Contents(d, k)], codec |-> codec[d], err |-> err[d]]
      /\ Vals'[c] = [parts |-> [k \in Parts |-> Contents(c, k)'], codec |-> codec[d], err |-> err[d]]
  BY <1>2 DEF Vals
<1> QED
  BY <1>1, <1>3, <1>4, <1>5 DEF Values!OnlyChanges, Values!Assign, Values!Becomes

-----------------------------------------------------------------------------
(* The theorems.                                                           *)

\* Zero configs satisfy the invariant.
LEMMA InvInit == Init => IInv
<1> SUFFICES ASSUME Init PROVE IInv
  OBVIOUS
<1>1. Nil \in Arrays /\ NilSlice \in [arr : Arrays, len : Nat]
      /\ NilSlice.arr = Nil /\ NilSlice.len = 0
  BY ArraysAre DEF NilSlice
<1>2. /\ heap \in [Arrays -> Seq(Cells)] /\ heap[Nil] = <<>>
      /\ \A b \in DOMAIN Borrowed : heap[b] = Borrowed[b]
  <2>1. \A a \in DOMAIN Borrowed : Borrowed[a] \in Seq(Cells)
    BY CellsOfBorrowed
  <2>2. Nil \notin DOMAIN Borrowed /\ <<>> \in Seq(Cells)
    BY CallConfigAssumption
  <2> QED
    BY <1>1, <2>1, <2>2, ArraysAre DEF Init
<1>3. \A c \in Configs, k \in Parts : slice[c][k] = NilSlice /\ owner[c][k] = NoOwner
  BY DEF Init
<1>4. MemoryOK
  <2>1. /\ slice \in [Configs -> [Parts -> [arr : Arrays, len : Nat]]]
        /\ owner \in [Configs -> [Parts -> Configs \cup {NoOwner}]]
    BY <1>1 DEF Init
  <2>2. \A c \in Configs, k \in Parts : slice[c][k].len <= Len(heap[slice[c][k].arr])
    <3>1. 0 <= Len(heap[Nil])
      BY <1>2
    <3> QED
      BY <1>1, <1>3, <3>1
  <2> QED
    BY <1>2, <2>1, <2>2 DEF MemoryOK
<1>5. PlaceInv
  BY <1>1, <1>2, <1>3, CallConfigAssumption DEF PlaceInv
<1>6. OwnerInv /\ NothingPastTheEnd
  BY <1>3, CallConfigAssumption DEF OwnerInv, NothingPastTheEnd, Owned
<1>7. TypeOK
  <2>1. Len(Defaults) \in Nat
    BY DefaultsAssumption, LenProperties
  <2> QED
    BY <1>4, <2>1 DEF Init, TypeOK
<1> QED
  BY <1>2, <1>4, <1>5, <1>6, <1>7 DEF IInv, MemoryInv, BorrowedIsUntouched

\* A step keeps the invariant and, unless a config gets its own array back, is a
\* step of ConfigValues or invisible there.
LEMMA InvStep ==
  ASSUME IInv, [Next]_vars
  PROVE  IInv' /\ (~AssignBack => [Values!Next]_Vals)
<1>0. /\ todo \in [Configs -> 0..Len(Defaults)] /\ Len(Defaults) \in Nat
      /\ codec \in [Configs -> Codecs \cup {NoCodec}]
      /\ err \in [Configs -> Failures \cup {NoErr}]
  BY DefaultsAssumption, LenProperties DEF IInv, TypeOK
<1> DEFINE Good == /\ MemoryInv'
                   /\ codec' \in [Configs -> Codecs \cup {NoCodec}]
                   /\ err' \in [Configs -> Failures \cup {NoErr}]
                   /\ ~AssignBack => Values!Next \/ Vals' = Vals
<1>1. SUFFICES Good /\ todo' \in [Configs -> 0..Len(Defaults)]
  BY <1>1 DEF IInv, TypeOK, MemoryInv
<1>2. CASE UNCHANGED vars
  <2>1. /\ UNCHANGED <<heap, slice, owner>> /\ codec' = codec /\ err' = err /\ todo' = todo
    BY <1>2 DEF vars
  <2>2. MemoryInv' /\ \A d \in Configs, l \in Parts : Contents(d, l)' = Contents(d, l)
    BY <2>1, SameMemory DEF IInv
  <2>3. \A d \in Configs : Vals'[d] = Vals[d]
    BY <2>1, <2>2, Unseen
  <2>4. Vals' = Vals
    BY <2>3 DEF Vals
  <2> QED
    BY <1>0, <2>1, <2>2, <2>4
<1>3. ASSUME NEW c \in Configs, Declare(c)
      PROVE  Good /\ todo' \in [Configs -> 0..Len(Defaults)]
  <2>1. /\ codec' = [codec EXCEPT ![c] = NoCodec] /\ err' = [err EXCEPT ![c] = NoErr]
        /\ todo' = [todo EXCEPT ![c] = Len(Defaults)]
    BY <1>3 DEF Declare
  <2>2. /\ MemoryInv' /\ \A k \in Parts : Contents(c, k)' = <<>>
        /\ \A d \in Configs \ {c}, k \in Parts : Contents(d, k)' = Contents(d, k)
    BY <1>3, DeclareKeeps DEF IInv
  <2>3. Values!Next
    BY <2>1, <2>2, EmptyIsReset, ValueSteps
  <2> QED
    BY <1>0, <2>1, <2>2, <2>3
<1>4. ASSUME NEW c \in Configs, ApplyDefault(c)
      PROVE  Good /\ todo' \in [Configs -> 0..Len(Defaults)]
  <2> DEFINE i == Len(Defaults) - todo[c] + 1
  <2>1. todo[c] > 0 /\ Apply(c, Defaults[i]) /\ todo' = [todo EXCEPT ![c] = @ - 1]
    BY <1>4 DEF ApplyDefault
  <2>2. todo[c] \in 1..Len(Defaults) /\ i \in 1..Len(Defaults)
    BY <1>0, <2>1
  <2>3. Defaults[i] \in Options
    BY <2>2, DefaultsAssumption, ElementOfSeq
  <2>4. Good
    BY <2>1, <2>3, ApplyStep
  <2>5. todo[c] - 1 \in 0..Len(Defaults)
    BY <1>0, <2>2
  <2> QED
    BY <1>0, <2>1, <2>4, <2>5
<1>5. ASSUME NEW c \in Configs, Use(c)
      PROVE  Good /\ todo' \in [Configs -> 0..Len(Defaults)]
  <2>1. todo' = todo
    BY <1>5 DEF Use
  <2>2. ASSUME NEW o \in Options, Apply(c, o) PROVE Good
    BY <2>2, ApplyStep
  <2>3. ASSUME NEW e \in Failures, Fail(c, e) PROVE Good
    <3>1. FailWith(c, e) /\ UNCHANGED <<heap, slice, owner>> /\ codec' = codec
      BY <2>3 DEF Fail
    <3>2. MemoryInv' /\ \A d \in Configs, l \in Parts : Contents(d, l)' = Contents(d, l)
      BY <3>1, SameMemory DEF IInv
    <3>3. err' \in [Configs -> Failures \cup {NoErr}]
      BY <1>0, <3>1 DEF FailWith
    <3> QED
      BY <1>0, <3>1, <3>2, <3>3, FailWithStep, ValueSteps
  <2>4. ASSUME NEW b \in DOMAIN Borrowed, SetMetadata(c, b) PROVE Good
    <3>1. /\ "md" \in Parts /\ Install(c, "md", [arr |-> b, len |-> Visible[b]], heap)
          /\ owner' = [owner EXCEPT ![c]["md"] = NoOwner] /\ UNCHANGED <<codec, err>>
      BY <2>4 DEF SetMetadata
    <3>2. Seen(b) \in Given
      BY DEF Given
    <3> QED
      BY <1>0, <3>1, <3>2, BorrowIsReplace, ValueSteps
  <2>5. CASE Reset(c)
    <3>1. codec' = [codec EXCEPT ![c] = NoCodec] /\ err' = [err EXCEPT ![c] = NoErr]
      BY <2>5 DEF Reset
    <3>2. /\ MemoryInv' /\ \A k \in Parts : Contents(c, k)' = <<>>
          /\ \A d \in Configs \ {c}, k \in Parts : Contents(d, k)' = Contents(d, k)
      BY <2>5, ResetKeeps DEF IInv
    <3>3. Values!Next
      BY <3>1, <3>2, EmptyIsReset, ValueSteps
    <3>4. /\ codec' \in [Configs -> Codecs \cup {NoCodec}]
          /\ err' \in [Configs -> Failures \cup {NoErr}]
      BY <1>0, <3>1
    <3> QED
      BY <1>0, <2>1, <3>2, <3>3, <3>4
  <2>6. ASSUME NEW d \in Configs, Assign(c, d) PROVE Good
    <3>1. codec' = [codec EXCEPT ![c] = codec[d]] /\ err' = [err EXCEPT ![c] = err[d]]
      BY <2>6 DEF Assign
    <3>2. MemoryInv' /\ Values!Next
      BY <2>6, AssignIsAssign, ValueSteps
    <3> QED
      BY <1>0, <3>1, <3>2
  <2> HIDE DEF Good
  <2> QED
    BY <1>0, <1>5, <2>1, <2>2, <2>3, <2>4, <2>5, <2>6 DEF Use
<1> QED
  BY <1>2, <1>3, <1>4, <1>5 DEF Next

\* Every operation does to the values what it is for.
LEMMA EachDoesItsOwn ==
  ASSUME IInv, ~AssignBack, NEW c \in Configs
  PROVE  DoesItsOwn(c)
<1>1. ASSUME NEW f \in Fields, AppendField(c, f) PROVE Values!Extend(c, "md", <<f>>)
  <2>1. "md" \in Parts /\ <<f>> \in Given
    BY <1>1 DEF AppendField, Given
  <2> QED
    BY <1>1, <2>1, AppendIsExtend DEF AppendField
<1>2. ASSUME NEW e \in Failures, AppendHeaderFails(c, e) PROVE Values!Fail(c, e)
  BY <1>2, AppendHeaderFailsStep
<1>3. ASSUME NEW e \in Failures, Fail(c, e) PROVE Values!Fail(c, e)
  <2>1. FailWith(c, e) /\ UNCHANGED <<heap, slice, owner>> /\ codec' = codec
    BY <1>3 DEF Fail
  <2>2. \A d \in Configs, l \in Parts : Contents(d, l)' = Contents(d, l)
    BY <2>1, SameMemory DEF IInv
  <2> QED
    BY <2>1, <2>2, FailWithStep
<1>4. ASSUME NEW b \in DOMAIN Borrowed, SetMetadata(c, b) PROVE Values!Replace(c, Seen(b))
  BY <1>4, BorrowIsReplace DEF SetMetadata
<1>5. ASSUME NEW b \in DOMAIN Borrowed, WithMetadata(c, b)
      PROVE  Values!Extend(c, "md", Seen(b))
  BY <1>5, WithMetadataStep
<1>6. ASSUME NEW s \in OptionLists, AppendPoseidonOptions(c, s)
      PROVE  Values!Extend(c, "pass", s)
  <2>1. "pass" \in Parts /\ s \in Given
    BY <1>6 DEF AppendPoseidonOptions, Given
  <2> QED
    BY <1>6, <2>1, AppendIsExtend DEF AppendPoseidonOptions
<1>7. ASSUME NEW cd \in Codecs, SetCodec(c, cd) PROVE Values!SetCodec(c, cd)
  BY <1>7, SetCodecStep
<1>8. ASSUME Reset(c) PROVE Values!Reset(c)
  <2>1. codec' = [codec EXCEPT ![c] = NoCodec] /\ err' = [err EXCEPT ![c] = NoErr]
    BY <1>8 DEF Reset
  <2>2. /\ \A k \in Parts : Contents(c, k)' = <<>>
        /\ \A d \in Configs \ {c}, k \in Parts : Contents(d, k)' = Contents(d, k)
    BY <1>8, ResetKeeps DEF IInv
  <2> QED
    BY <2>1, <2>2, EmptyIsReset
<1>9. ASSUME Declare(c) PROVE Values!Reset(c)
  <2>1. codec' = [codec EXCEPT ![c] = NoCodec] /\ err' = [err EXCEPT ![c] = NoErr]
    BY <1>9 DEF Declare
  <2>2. /\ \A k \in Parts : Contents(c, k)' = <<>>
        /\ \A d \in Configs \ {c}, k \in Parts : Contents(d, k)' = Contents(d, k)
    BY <1>9, DeclareKeeps DEF IInv
  <2> QED
    BY <2>1, <2>2, EmptyIsReset
<1>10. ASSUME NEW d \in Configs, Assign(c, d) PROVE Values!Assign(c, d)
  BY <1>10, AssignIsAssign
<1> QED
  BY <1>1, <1>2, <1>3, <1>4, <1>5, <1>6, <1>7, <1>8, <1>9, <1>10 DEF DoesItsOwn

\* The invariant of the reachable configs and their arrays.
THEOREM ConfigInvariance == Spec => []IInv
<1>1. IInv /\ [Next]_vars => IInv'
  BY InvStep
<1> QED
  BY <1>1, InvInit, PTL DEF Spec

\* Slices stay inside their arrays, whatever is appended, borrowed and copied.
THEOREM ConfigTypeCorrect == Spec => []TypeOK
<1>1. IInv => TypeOK
  BY DEF IInv
<1> QED
  BY <1>1, ConfigInvariance, PTL

\* No config ever writes into a caller's array, even one that gets its own array
\* back by assignment.
THEOREM BorrowedIsKept == Spec => []BorrowedIsUntouched
<1>1. IInv => BorrowedIsUntouched
  BY DEF IInv, MemoryInv
<1> QED
  BY <1>1, ConfigInvariance, PTL

\* Nothing is left past the length of an array that its owner will append to.
THEOREM ResetLeavesNothing == ~AssignBack => (Spec => []NothingPastTheEnd)
<1> SUFFICES ASSUME ~AssignBack PROVE Spec => []NothingPastTheEnd
  OBVIOUS
<1>1. IInv => NothingPastTheEnd
  BY DEF IInv, MemoryInv
<1> QED
  BY <1>1, ConfigInvariance, PTL

\* Configs behave as values: the ownership rule implements copying, and every
\* operation does to them what it is for.
THEOREM ConfigRefinement == ~AssignBack => (Spec => ConfigsAreValues)
<1> SUFFICES ASSUME ~AssignBack PROVE Spec => ConfigsAreValues
  OBVIOUS
<1>1. Init => Values!Init
  <2> SUFFICES ASSUME Init PROVE Vals = [c \in Configs |-> Values!Zero]
    BY DEF Values!Init
  <2>1. ASSUME NEW c \in Configs PROVE Vals[c] = Values!Zero
    <3>1. \A k \in Parts : Contents(c, k) = <<>>
      BY SubSeqEmpty DEF Init, Contents, NilSlice
    <3> QED
      BY <3>1 DEF Init, Vals, Values!Zero
  <2> QED
    BY <2>1 DEF Vals
<1>2. IInv /\ [Next]_vars => [Values!Next]_Vals
  BY InvStep
<1>3. IInv /\ [Next]_vars => [\A c \in Configs : DoesItsOwn(c)]_vars
  BY EachDoesItsOwn
<1> QED
  BY <1>1, <1>2, <1>3, ConfigInvariance, PTL DEF Spec, ConfigsAreValues, Values!Spec
=============================================================================
