-------------------------- MODULE GeneratorProofs ---------------------------
(***************************************************************************)
(* The generator, for every request, every table of lower cases and every  *)
(* sequence of options: a run that succeeds wrote packages that build, one *)
(* that names collisions names all of them and nothing else.               *)
(***************************************************************************)
EXTENDS Generator, SequenceTheorems, LeastElement, TLAPS

-----------------------------------------------------------------------------
(* Lists, what they hold, and what they hold twice.                        *)

Dup(s) == {s[i] : i \in {j \in DOMAIN s : \E k \in DOMAIN s : k # j /\ s[k] = s[j]}}

\* A list is a function on the numbers up to its length.
LEMMA ListIs ==
  ASSUME NEW s, IsSeq(s)
  PROVE  /\ Len(s) \in Nat /\ DOMAIN s = 1..Len(s)
         /\ s \in Seq(Range(s)) /\ s = [i \in 1..Len(s) |-> s[i]]
<1>1. s \in Seq(Range(s))
  BY DEF IsSeq
<1> QED
  BY <1>1, LenProperties

\* And every such function is a list.
LEMMA IsList ==
  ASSUME NEW n \in Nat, NEW f, f = [i \in 1..n |-> f[i]]
  PROVE  IsSeq(f) /\ Len(f) = n
<1>1. f \in [1..n -> Range(f)]
  BY DEF Range
<1>2. f \in Seq(Range(f))
  BY <1>1, SeqDef
<1> QED
  BY <1>1, <1>2, LenProperties DEF IsSeq

\* A list is one over any set that holds its elements.
LEMMA ListOver ==
  ASSUME NEW s, IsSeq(s), NEW S, Range(s) \subseteq S
  PROVE  s \in Seq(S)
  BY SeqMonotonic DEF IsSeq

\* The empty list, and the lists of one and two elements.
LEMMA Short ==
  ASSUME NEW a, NEW b
  PROVE  /\ IsSeq(<<>>) /\ Range(<<>>) = {} /\ Dup(<<>>) = {} /\ Len(<<>>) = 0
         /\ IsSeq(<<a>>) /\ Range(<<a>>) = {a} /\ Dup(<<a>>) = {} /\ Len(<<a>>) = 1
         /\ IsSeq(<<a, b>>) /\ Range(<<a, b>>) = {a, b}
<1>1. IsSeq(<<>>) /\ Range(<<>>) = {} /\ Dup(<<>>) = {} /\ Len(<<>>) = 0
  BY DEF IsSeq, Range, Dup
<1>2. Range(<<a>>) = {a} /\ Dup(<<a>>) = {} /\ Len(<<a>>) = 1
  BY DEF Range, Dup
<1>3. IsSeq(<<a>>)
  BY <1>2 DEF IsSeq
<1>4. DOMAIN <<a, b>> = 1..2 /\ <<a, b>>[1] = a /\ <<a, b>>[2] = b /\ 1..2 = {1, 2}
  OBVIOUS
<1>5. Range(<<a, b>>) = {a, b}
  BY <1>4 DEF Range
<1>6. IsSeq(<<a, b>>)
  BY <1>5 DEF IsSeq
<1> QED
  BY <1>1, <1>2, <1>3, <1>5, <1>6

\* Two lists, one after the other.
LEMMA Joined ==
  ASSUME NEW a, NEW b, IsSeq(a), IsSeq(b)
  PROVE  /\ IsSeq(a \o b) /\ Len(a \o b) = Len(a) + Len(b)
         /\ \A i \in 1..Len(a) : (a \o b)[i] = a[i]
         /\ \A i \in 1..Len(b) : (a \o b)[Len(a) + i] = b[i]
         /\ \A i \in 1..(Len(a) + Len(b)) :
              i \in 1..Len(a) \/ (i - Len(a) \in 1..Len(b) /\ (a \o b)[i] = b[i - Len(a)])
<1> DEFINE S == Range(a) \cup Range(b)
<1>1. a \in Seq(S) /\ b \in Seq(S)
  BY ListOver
<1>2. Len(a) \in Nat /\ Len(b) \in Nat
  BY ListIs
<1> HIDE DEF S
<1>3. /\ a \o b \in Seq(S)
      /\ Len(a \o b) = Len(a) + Len(b)
      /\ \A i \in 1..(Len(a) + Len(b)) :
           (a \o b)[i] = IF i <= Len(a) THEN a[i] ELSE b[i - Len(a)]
  BY <1>1, ConcatProperties
<1>4. a \o b = [i \in 1..Len(a \o b) |-> (a \o b)[i]] /\ Len(a \o b) \in Nat
  BY <1>3, LenProperties
<1>5. IsSeq(a \o b)
  BY <1>4, IsList
<1>6. ASSUME NEW i \in 1..Len(a) PROVE (a \o b)[i] = a[i]
  <2>1. i \in 1..(Len(a) + Len(b)) /\ i <= Len(a)
    BY <1>2
  <2> QED
    BY <1>3, <2>1
<1>7. ASSUME NEW i \in 1..Len(b) PROVE (a \o b)[Len(a) + i] = b[i]
  <2>1. /\ Len(a) + i \in 1..(Len(a) + Len(b)) /\ ~(Len(a) + i <= Len(a))
        /\ Len(a) + i - Len(a) = i
    BY <1>2
  <2> QED
    BY <1>3, <2>1
<1>8. ASSUME NEW i \in 1..(Len(a) + Len(b)), i \notin 1..Len(a)
      PROVE  i - Len(a) \in 1..Len(b) /\ (a \o b)[i] = b[i - Len(a)]
  <2>1. ~(i <= Len(a)) /\ i - Len(a) \in 1..Len(b)
    BY <1>2, <1>8
  <2> QED
    BY <1>3, <2>1
<1> QED
  BY <1>3, <1>5, <1>6, <1>7, <1>8

\* What the join of two lists holds.
LEMMA JoinedRange ==
  ASSUME NEW a, NEW b, IsSeq(a), IsSeq(b)
  PROVE  Range(a \o b) = Range(a) \cup Range(b)
<1> DEFINE c == a \o b
<1>1. /\ Len(a) \in Nat /\ Len(b) \in Nat /\ DOMAIN a = 1..Len(a) /\ DOMAIN b = 1..Len(b)
      /\ DOMAIN c = 1..(Len(a) + Len(b))
      /\ \A i \in 1..Len(a) : c[i] = a[i]
      /\ \A i \in 1..Len(b) : c[Len(a) + i] = b[i]
      /\ \A i \in 1..(Len(a) + Len(b)) :
              i \in 1..Len(a) \/ (i - Len(a) \in 1..Len(b) /\ c[i] = b[i - Len(a)])
  BY Joined, ListIs
<1> HIDE DEF c
<1>2. ASSUME NEW x \in Range(c) PROVE x \in Range(a) \cup Range(b)
  <2>1. PICK i \in 1..(Len(a) + Len(b)) : x = c[i]
    BY <1>1 DEF Range
  <2>2. CASE i \in 1..Len(a)
    BY <1>1, <2>1, <2>2 DEF Range
  <2>3. CASE i \notin 1..Len(a)
    <3>1. i - Len(a) \in 1..Len(b) /\ x = b[i - Len(a)]
      BY <1>1, <2>1, <2>3
    <3> QED
      BY <1>1, <3>1 DEF Range
  <2> QED
    BY <2>2, <2>3
<1>3. ASSUME NEW x \in Range(a) PROVE x \in Range(c)
  <2>1. PICK i \in 1..Len(a) : x = a[i]
    BY <1>1 DEF Range
  <2>2. i \in 1..(Len(a) + Len(b))
    BY <1>1
  <2> QED
    BY <1>1, <2>1, <2>2 DEF Range
<1>4. ASSUME NEW x \in Range(b) PROVE x \in Range(c)
  <2>1. PICK i \in 1..Len(b) : x = b[i]
    BY <1>1 DEF Range
  <2>2. Len(a) + i \in 1..(Len(a) + Len(b))
    BY <1>1
  <2> QED
    BY <1>1, <2>1, <2>2 DEF Range
<1>5. Range(c) = Range(a) \cup Range(b)
  BY <1>2, <1>3, <1>4
<1> QED
  BY <1>5 DEF c

\* And what it holds twice.
LEMMA JoinedDup ==
  ASSUME NEW a, NEW b, IsSeq(a), IsSeq(b)
  PROVE  Dup(a \o b) = Dup(a) \cup Dup(b) \cup (Range(a) \cap Range(b))
<1> DEFINE c == a \o b
<1>1. /\ Len(a) \in Nat /\ Len(b) \in Nat /\ DOMAIN a = 1..Len(a) /\ DOMAIN b = 1..Len(b)
      /\ DOMAIN c = 1..(Len(a) + Len(b))
      /\ \A i \in 1..Len(a) : c[i] = a[i]
      /\ \A i \in 1..Len(b) : c[Len(a) + i] = b[i]
      /\ \A i \in 1..(Len(a) + Len(b)) :
              i \in 1..Len(a) \/ (i - Len(a) \in 1..Len(b) /\ c[i] = b[i - Len(a)])
  BY Joined, ListIs
<1> HIDE DEF c
<1>2. ASSUME NEW x \in Dup(c) PROVE x \in Dup(a) \cup Dup(b) \cup (Range(a) \cap Range(b))
  <2>1. PICK i \in 1..(Len(a) + Len(b)), j \in 1..(Len(a) + Len(b)) :
          i # j /\ c[i] = x /\ c[j] = x
    BY <1>1 DEF Dup
  <2>2. CASE i \in 1..Len(a) /\ j \in 1..Len(a)
    <3>1. i \in DOMAIN a /\ j \in DOMAIN a /\ i # j /\ a[i] = x /\ a[j] = x
      BY <1>1, <2>1, <2>2
    <3> QED
      BY ONLY <3>1 DEF Dup
  <2>3. CASE i \in 1..Len(a) /\ j \notin 1..Len(a)
    <3>1. i \in DOMAIN a /\ a[i] = x /\ j - Len(a) \in DOMAIN b /\ b[j - Len(a)] = x
      BY <1>1, <2>1, <2>3
    <3> QED
      BY <3>1 DEF Range
  <2>4. CASE i \notin 1..Len(a) /\ j \in 1..Len(a)
    <3>1. j \in DOMAIN a /\ a[j] = x /\ i - Len(a) \in DOMAIN b /\ b[i - Len(a)] = x
      BY <1>1, <2>1, <2>4
    <3> QED
      BY <3>1 DEF Range
  <2>5. CASE i \notin 1..Len(a) /\ j \notin 1..Len(a)
    <3>1. /\ i - Len(a) \in 1..Len(b) /\ b[i - Len(a)] = x
          /\ j - Len(a) \in 1..Len(b) /\ b[j - Len(a)] = x
      BY <1>1, <2>1, <2>5
    <3>2. i - Len(a) # j - Len(a)
      BY <1>1, <2>1
    <3> QED
      BY <1>1, <3>1, <3>2 DEF Dup
  <2> QED
    BY <2>2, <2>3, <2>4, <2>5
<1>3. \A i \in 1..Len(a) : i \in DOMAIN c
  BY <1>1
<1>4. \A i \in 1..Len(b) : Len(a) + i \in DOMAIN c /\ Len(a) + i \notin 1..Len(a)
  BY <1>1
<1>5. ASSUME NEW x \in Dup(a) PROVE x \in Dup(c)
  BY <1>1, <1>3 DEF Dup
<1>6. ASSUME NEW x \in Dup(b) PROVE x \in Dup(c)
  <2>1. PICK i \in 1..Len(b), j \in 1..Len(b) : i # j /\ b[i] = x /\ b[j] = x
    BY <1>1 DEF Dup
  <2>2. Len(a) + i # Len(a) + j
    BY <1>1, <2>1
  <2> DEFINE p == Len(a) + i
             q == Len(a) + j
  <2>3. p \in DOMAIN c /\ q \in DOMAIN c /\ p # q /\ c[p] = x /\ c[q] = x
    BY <1>1, <1>4, <2>1, <2>2
  <2> HIDE DEF p, q
  <2> QED
    BY <2>3 DEF Dup
<1>7. ASSUME NEW x \in Range(a) \cap Range(b) PROVE x \in Dup(c)
  <2>1. PICK i \in 1..Len(a), j \in 1..Len(b) : a[i] = x /\ b[j] = x
    BY <1>1 DEF Range
  <2>2. i \in DOMAIN c /\ Len(a) + j \in DOMAIN c /\ i # Len(a) + j
    BY <1>3, <1>4
  <2> QED
    BY <1>1, <2>1, <2>2 DEF Dup
<1>8. Dup(c) = Dup(a) \cup Dup(b) \cup (Range(a) \cap Range(b))
  BY <1>2, <1>5, <1>6, <1>7
<1> QED
  BY <1>8 DEF c

-----------------------------------------------------------------------------
(* The loops of the model.                                                 *)

\* The loop over a service's methods can be run.
LEMMA AliasLoopRuns ==
  ASSUME NEW s, NEW l \in Nat
  PROVE  \E g : g = [i \in 0..l |->
                       IF i = 0 THEN <<>> ELSE AddAlias(s, s.methods[i], g[i - 1])]
<1> DEFINE Runs(n, g) == g = [i \in 0..n |->
                                IF i = 0 THEN <<>> ELSE AddAlias(s, s.methods[i], g[i - 1])]
           T == {n \in Nat : ~\E g : Runs(n, g)}
<1> SUFFICES ASSUME T # {} PROVE FALSE
  OBVIOUS
<1>1. PICK m \in T : \A n \in T : m <= n
  <2>1. T \subseteq Nat
    OBVIOUS
  <2> HIDE DEF T
  <2> QED
    BY <2>1, Least
<1>2. m # 0
  <2>1. Runs(0, [i \in 0..0 |-> <<>>])
    OBVIOUS
  <2> QED
    BY <2>1
<1>3. PICK g : Runs(m - 1, g)
  <2>1. m - 1 \in Nat /\ ~(m <= m - 1)
    BY <1>1, <1>2
  <2> QED
    BY <1>1, <2>1
<1> DEFINE h == [i \in 0..m |-> IF i = m THEN AddAlias(s, s.methods[m], g[m - 1]) ELSE g[i]]
<1>4. ASSUME NEW i \in 0..m
      PROVE  h[i] = IF i = 0 THEN <<>> ELSE AddAlias(s, s.methods[i], h[i - 1])
  <2>0. m \in Nat /\ i \in Nat
    BY <1>1
  <2>1. CASE i = m
    <3>1. m - 1 \in 0..m /\ m - 1 # m /\ m \in 0..m
      BY <1>1, <1>2
    <3>2. h[m - 1] = g[m - 1] /\ h[m] = AddAlias(s, s.methods[m], g[m - 1])
      BY <3>1
    <3> QED
      BY <1>2, <2>1, <3>2
  <2>2. CASE i # m
    <3>1. i \in 0..(m - 1) /\ (i # 0 => i - 1 \in 0..m /\ i - 1 # m)
      BY <2>0, <2>2
    <3>2. g[i] = IF i = 0 THEN <<>> ELSE AddAlias(s, s.methods[i], g[i - 1])
      BY <1>3, <3>1
    <3>3. h[i] = g[i] /\ (i # 0 => h[i - 1] = g[i - 1])
      BY <2>2, <3>1
    <3> QED
      BY <3>2, <3>3
  <2> QED
    BY <2>1, <2>2
<1>5. Runs(m, h)
  <2>1. h = [i \in 0..m |-> h[i]]
    OBVIOUS
  <2> HIDE DEF h
  <2>2. [i \in 0..m |-> h[i]]
          = [i \in 0..m |-> IF i = 0 THEN <<>> ELSE AddAlias(s, s.methods[i], h[i - 1])]
    BY <1>4
  <2> QED
    BY <2>1, <2>2
<1> HIDE DEF h, Runs
<1> QED
  BY <1>1, <1>5

\* The stream aliases of a service are a list.
LEMMA AliasesAreAList ==
  ASSUME NEW s, IsSeq(s.methods)
  PROVE  IsSeq(StreamAliases(s))
<1> DEFINE l == Len(s.methods)
           Runs(g) == g = [i \in 0..l |->
                             IF i = 0 THEN <<>> ELSE AddAlias(s, s.methods[i], g[i - 1])]
           loop == CHOOSE g : Runs(g)
<1>0. l \in Nat
  BY ListIs
<1>1. \E g : Runs(g)
  BY <1>0, AliasLoopRuns
<1>2. StreamAliases(s) = loop[l]
  BY DEF StreamAliases
<1> HIDE DEF Runs
<1>3. Runs(loop)
  BY <1>1
<1> HIDE DEF loop, l
<1>4. loop = [i \in 0..l |-> IF i = 0 THEN <<>> ELSE AddAlias(s, s.methods[i], loop[i - 1])]
  BY <1>3 DEF Runs
<1>5. /\ loop[0] = <<>>
      /\ \A i \in 1..l : loop[i] = AddAlias(s, s.methods[i], loop[i - 1])
  BY <1>0, <1>4
<1> DEFINE T == {i \in 0..l : ~IsSeq(loop[i])}
<1> SUFFICES ASSUME T # {} PROVE FALSE
  BY <1>0, <1>2
<1>6. PICK m \in T : \A i \in T : m <= i
  <2>1. T \subseteq Nat
    BY <1>0
  <2> HIDE DEF T
  <2> QED
    BY <2>1, Least
<1>7. m # 0
  BY <1>5, <1>6, Short
<1>8. m \in 1..l /\ m - 1 \in 0..l /\ ~(m <= m - 1)
  BY <1>0, <1>6, <1>7
<1>9. IsSeq(loop[m - 1])
  BY <1>6, <1>8
<1> DEFINE before == loop[m - 1]
           alias == StreamAlias(s, s.methods[m])
<1>10. IsSeq(Append(before, alias))
  <2> HIDE DEF before, alias
  <2>1. before \o <<alias>> = Append(before, alias)
    <3>1. before \in Seq(Range(before) \cup {alias})
      BY <1>9, ListOver DEF before
    <3> QED
      BY <3>1
  <2>2. IsSeq(before)
    BY <1>9 DEF before
  <2>3. IsSeq(before \o <<alias>>)
    BY <2>2, Joined, Short
  <2> QED
    BY <2>1, <2>3
<1>11. loop[m] = AddAlias(s, s.methods[m], loop[m - 1])
  BY <1>5, <1>8
<1>12. IsSeq(loop[m])
  BY <1>9, <1>10, <1>11 DEF AddAlias
<1> QED
  BY <1>6, <1>12

\* The claims of the first l names, one after the other.
ClaimRuns(st, names, l, g) ==
  g = [i \in 0..l |-> IF i = 0 THEN st ELSE Claim(g[i - 1], names[i])]

\* They can be run.
LEMMA ClaimLoopRuns ==
  ASSUME NEW st, NEW names, NEW l \in Nat
  PROVE  \E g : ClaimRuns(st, names, l, g)
<1> USE DEF ClaimRuns
<1> DEFINE Runs(n, g) == ClaimRuns(st, names, n, g)
           T == {n \in Nat : ~\E g : Runs(n, g)}
<1> SUFFICES ASSUME T # {} PROVE FALSE
  OBVIOUS
<1>1. PICK m \in T : \A n \in T : m <= n
  <2>1. T \subseteq Nat
    OBVIOUS
  <2> HIDE DEF T
  <2> QED
    BY <2>1, Least
<1>2. m # 0
  <2>1. Runs(0, [i \in 0..0 |-> st])
    OBVIOUS
  <2> QED
    BY <2>1
<1>3. PICK g : Runs(m - 1, g)
  <2>1. m - 1 \in Nat /\ ~(m <= m - 1)
    BY <1>1, <1>2
  <2> QED
    BY <1>1, <2>1
<1> DEFINE h == [i \in 0..m |-> IF i = m THEN Claim(g[m - 1], names[m]) ELSE g[i]]
<1>4. ASSUME NEW i \in 0..m
      PROVE  h[i] = IF i = 0 THEN st ELSE Claim(h[i - 1], names[i])
  <2>0. m \in Nat /\ i \in Nat
    BY <1>1
  <2>1. CASE i = m
    <3>1. m - 1 \in 0..m /\ m - 1 # m /\ m \in 0..m
      BY <1>1, <1>2
    <3>2. h[m - 1] = g[m - 1] /\ h[m] = Claim(g[m - 1], names[m])
      BY <3>1
    <3> QED
      BY <1>2, <2>1, <3>2
  <2>2. CASE i # m
    <3>1. i \in 0..(m - 1) /\ (i # 0 => i - 1 \in 0..m /\ i - 1 # m)
      BY <2>0, <2>2
    <3>2. g[i] = IF i = 0 THEN st ELSE Claim(g[i - 1], names[i])
      BY <1>3, <3>1
    <3>3. h[i] = g[i] /\ (i # 0 => h[i - 1] = g[i - 1])
      BY <2>2, <3>1
    <3> QED
      BY <3>2, <3>3
  <2> QED
    BY <2>1, <2>2
<1>5. Runs(m, h)
  <2>1. h = [i \in 0..m |-> h[i]]
    OBVIOUS
  <2> HIDE DEF h
  <2>2. [i \in 0..m |-> h[i]] = [i \in 0..m |-> IF i = 0 THEN st ELSE Claim(h[i - 1], names[i])]
    BY <1>4
  <2> QED
    BY <2>1, <2>2
<1> HIDE DEF h, Runs
<1> QED
  BY <1>1, <1>5

\* The nameset after a list of claims owns the old and the new names; its new
\* conflicts are the names that were owned before and those claimed twice.
Claimed(st, names) ==
  [owned |-> st.owned \cup Range(names),
   conflicts |-> st.conflicts \cup Dup(names) \cup (st.owned \cap Range(names))]

\* The same after i claims.
ClaimedAt(st, names, i) ==
  [owned |-> st.owned \cup {names[j] : j \in 1..i},
   conflicts |-> st.conflicts \cup
     {names[j] : j \in {k \in 1..i : \/ names[k] \in st.owned
                                     \/ \E h \in 1..(k - 1) : names[h] = names[k]}}]

\* One claim more.
LEMMA ClaimStep ==
  ASSUME NEW st, NEW names, NEW m \in Nat, m > 0
  PROVE  Claim(ClaimedAt(st, names, m - 1), names[m]) = ClaimedAt(st, names, m)
<1> DEFINE o(i) == st.owned \cup {names[j] : j \in 1..i}
           K(i) == {k \in 1..i : \/ names[k] \in st.owned
                                 \/ \E h \in 1..(k - 1) : names[h] = names[k]}
           c(i) == st.conflicts \cup {names[j] : j \in K(i)}
<1>1. 1..m = 1..(m - 1) \cup {m} /\ m \in 1..m
  OBVIOUS
<1>2. o(m) = o(m - 1) \cup {names[m]}
  BY <1>1
<1>3. CASE names[m] \in o(m - 1)
  <2>1. K(m) = K(m - 1) \cup {m}
    BY <1>1, <1>3
  <2> HIDE DEF K
  <2>2. c(m) = c(m - 1) \cup {names[m]}
    BY <2>1
  <2>3. o(m) = o(m - 1)
    BY <1>2, <1>3
  <2> HIDE DEF c, o
  <2>4. Claim([owned |-> o(m - 1), conflicts |-> c(m - 1)], names[m])
          = [owned |-> o(m), conflicts |-> c(m)]
    BY <1>3, <2>2, <2>3 DEF Claim
  <2> QED
    BY <2>4 DEF ClaimedAt, o, c, K
<1>4. CASE names[m] \notin o(m - 1)
  <2>1. K(m) = K(m - 1)
    BY <1>1, <1>4
  <2> HIDE DEF K
  <2>2. c(m) = c(m - 1)
    BY <2>1
  <2> HIDE DEF c, o
  <2>4. Claim([owned |-> o(m - 1), conflicts |-> c(m - 1)], names[m])
          = [owned |-> o(m), conflicts |-> c(m)]
    BY <1>2, <1>4, <2>2 DEF Claim
  <2> QED
    BY <2>4 DEF ClaimedAt, o, c, K
<1> QED
  BY <1>3, <1>4

\* The claims from the first one, claim by claim.
LEMMA ClaimLoop ==
  ASSUME NEW st, NEW names, NEW l \in Nat, Len(names) = l
  PROVE  \E g : /\ ClaimAll(st, names) = g[l] /\ g[0] = st
                /\ \A i \in 1..l : g[i] = Claim(g[i - 1], names[i])
<1> DEFINE Runs(g) == ClaimRuns(st, names, l, g)
           loop == CHOOSE g : Runs(g)
<1>1. \E g : Runs(g)
  BY ClaimLoopRuns
<1>2. ClaimAll(st, names) = loop[l]
  BY DEF ClaimAll, ClaimRuns
<1> HIDE DEF Runs
<1>3. Runs(loop)
  BY <1>1
<1> HIDE DEF loop
<1>4. loop = [i \in 0..l |-> IF i = 0 THEN st ELSE Claim(loop[i - 1], names[i])]
  BY <1>3 DEF Runs, ClaimRuns
<1>5. /\ loop[0] = st
      /\ \A i \in 1..l : loop[i] = Claim(loop[i - 1], names[i])
  BY <1>4
<1> QED
  BY <1>2, <1>5

\* All of the claims: what claim promises for a whole service.
LEMMA ClaimAllIs ==
  ASSUME NEW st, st = [owned |-> st.owned, conflicts |-> st.conflicts],
         NEW names, IsSeq(names)
  PROVE  ClaimAll(st, names) = Claimed(st, names)
<1> DEFINE l == Len(names)
<1>0. l \in Nat /\ DOMAIN names = 1..l
  BY ListIs
<1>1. PICK loop : /\ ClaimAll(st, names) = loop[l] /\ loop[0] = st
                  /\ \A i \in 1..l : loop[i] = Claim(loop[i - 1], names[i])
  <2> HIDE DEF l
  <2>1. l \in Nat /\ Len(names) = l
    BY <1>0 DEF l
  <2> QED
    BY <2>1, ClaimLoop
<1>2. ClaimAll(st, names) = loop[l]
  BY <1>1
<1>5. loop[0] = st /\ \A i \in 1..l : loop[i] = Claim(loop[i - 1], names[i])
  BY <1>1
<1> HIDE DEF l
<1>6. loop[l] = ClaimedAt(st, names, l)
  <2> DEFINE T == {i \in 0..l : loop[i] # ClaimedAt(st, names, i)}
  <2> SUFFICES ASSUME T # {} PROVE FALSE
    BY <1>0
  <2>1. PICK m \in T : \A i \in T : m <= i
    <3>1. T \subseteq Nat
      BY <1>0
    <3> HIDE DEF T
    <3> QED
      BY <3>1, Least
  <2>2. ClaimedAt(st, names, 0) = st
    <3>1. 1..0 = {}
      OBVIOUS
    <3>2. /\ {names[j] : j \in 1..0} = {}
          /\ {k \in 1..0 : \/ names[k] \in st.owned
                           \/ \E h \in 1..(k - 1) : names[h] = names[k]} = {}
      BY <3>1
    <3> QED
      BY <3>2 DEF ClaimedAt
  <2>3. m # 0
    BY <1>5, <2>1, <2>2
  <2>4. m \in Nat /\ m > 0 /\ m \in 1..l /\ m - 1 \in 0..l /\ ~(m <= m - 1)
    BY <1>0, <2>1, <2>3
  <2>5. loop[m - 1] = ClaimedAt(st, names, m - 1)
    BY <2>1, <2>4
  <2>6. loop[m] = ClaimedAt(st, names, m)
    BY <1>5, <2>4, <2>5, ClaimStep
  <2> QED
    BY <2>1, <2>6
<1> DEFINE K == {k \in 1..l : \/ names[k] \in st.owned
                              \/ \E h \in 1..(k - 1) : names[h] = names[k]}
<1>7. {names[j] : j \in K} = Dup(names) \cup (st.owned \cap Range(names))
  <2>1. ASSUME NEW x \in {names[j] : j \in K}
        PROVE  x \in Dup(names) \cup (st.owned \cap Range(names))
    <3>1. PICK j \in K : x = names[j]
      OBVIOUS
    <3>2. CASE names[j] \in st.owned
      BY <1>0, <3>1, <3>2 DEF Range
    <3>3. CASE \E h \in 1..(j - 1) : names[h] = names[j]
      <4>1. PICK h \in 1..(j - 1) : names[h] = names[j]
        BY <3>3
      <4>2. h \in 1..l /\ h # j /\ j \in 1..l
        BY <1>0
      <4> QED
        BY <1>0, <3>1, <4>1, <4>2 DEF Dup
    <3> QED
      BY <3>1, <3>2, <3>3
  <2>2. ASSUME NEW x \in Dup(names) PROVE x \in {names[j] : j \in K}
    <3>1. PICK i \in 1..l, j \in 1..l : i # j /\ names[i] = x /\ names[j] = x
      BY <1>0 DEF Dup
    <3>2. i \in 1..(j - 1) \/ j \in 1..(i - 1)
      BY <1>0, <3>1
    <3> QED
      BY <3>1, <3>2
  <2>3. ASSUME NEW x \in st.owned \cap Range(names) PROVE x \in {names[j] : j \in K}
    BY <1>0 DEF Range
  <2> QED
    BY <2>1, <2>2, <2>3
<1>8. {names[j] : j \in 1..l} = Range(names)
  BY <1>0 DEF Range
<1> QED
  BY <1>2, <1>6, <1>7, <1>8 DEF ClaimedAt, Claimed

-----------------------------------------------------------------------------
(* What a service declares.                                                *)

\* Methods of one type: a list if their names are one, without two that are
\* the same if no two names are.
LEMMA OnIs ==
  ASSUME NEW type, NEW names, IsSeq(names)
  PROVE  /\ IsSeq(On(type, names))
         /\ \A m \in Range(On(type, names)) : m[1] = type
         /\ Dup(names) = {} => Dup(On(type, names)) = {}
<1> DEFINE on == On(type, names)
<1>1. Len(names) \in Nat /\ DOMAIN names = 1..Len(names)
  BY ListIs
<1>2. /\ on = [i \in 1..Len(names) |-> on[i]]
      /\ DOMAIN on = DOMAIN names
      /\ \A i \in DOMAIN names : on[i] = <<type, names[i]>>
      /\ \A i \in DOMAIN names : on[i][1] = type /\ on[i][2] = names[i]
  BY <1>1 DEF On
<1> HIDE DEF on
<1>3. IsSeq(on)
  BY <1>1, <1>2, IsList
<1>4. \A m \in Range(on) : m[1] = type
  BY <1>2 DEF Range
<1>5. ASSUME NEW x \in Dup(on) PROVE Dup(names) # {}
  <2>1. PICK i \in DOMAIN on, j \in DOMAIN on : i # j /\ on[i] = on[j]
    BY DEF Dup
  <2>2. names[i] = names[j]
    BY <1>2, <2>1
  <2> QED
    BY <1>2, <2>1, <2>2 DEF Dup
<1> QED
  BY <1>3, <1>4, <1>5 DEF on

\* The Go names of a service's methods: checkService lets no two be the same.
LEMMA MethodNamesIs ==
  ASSUME NEW s, IsSeq(s.methods)
  PROVE  /\ IsSeq(MethodNames(s))
         /\ ~BadService(s) => Dup(MethodNames(s)) = {}
<1> DEFINE names == MethodNames(s)
<1>1. Len(s.methods) \in Nat /\ DOMAIN s.methods = 1..Len(s.methods)
  BY ListIs
<1>2. names = [i \in 1..Len(s.methods) |-> names[i]]
  BY <1>1 DEF MethodNames
<1>3. ASSUME ~BadService(s) PROVE IsInjective(names)
  BY <1>3 DEF BadService
<1> HIDE DEF names
<1>4. IsSeq(names)
  BY <1>1, <1>2, IsList
<1>5. IsInjective(names) => Dup(names) = {}
  BY DEF IsInjective, Dup
<1> QED
  BY <1>3, <1>4, <1>5 DEF names

\* The Caller's methods: Config, and those of the service.
LEMMA CallerMethodsIs ==
  ASSUME NEW s, IsSeq(s.methods), ~BadService(s), cfg.callers
  PROVE  /\ IsSeq(<<<<"Config">>>> \o MethodNames(s))
         /\ Dup(<<<<"Config">>>> \o MethodNames(s)) = {}
<1>1. IsSeq(MethodNames(s)) /\ Dup(MethodNames(s)) = {}
  BY MethodNamesIs
<1>2. <<"Config">> \notin Range(MethodNames(s))
  BY DEF BadService, Reserved
<1> DEFINE c == <<"Config">>
<1> HIDE DEF c
<1>3. IsSeq(<<c>>) /\ Range(<<c>>) = {c} /\ Dup(<<c>>) = {}
  BY Short
<1>4. Dup(<<c>> \o MethodNames(s)) = {} \cup {} \cup ({c} \cap Range(MethodNames(s)))
  BY <1>1, <1>3, JoinedDup
<1>5. IsSeq(<<c>> \o MethodNames(s))
  BY <1>1, <1>3, Joined
<1>6. Dup(<<c>> \o MethodNames(s)) = {}
  BY <1>2, <1>4 DEF c
<1> QED
  BY <1>5, <1>6 DEF c

\* The constructors of a type are a list.
LEMMA ConstructorsIs ==
  ASSUME NEW type
  PROVE  IsSeq(Constructors(type))
<1> DEFINE ctor == <<"New">> \o type
           on == ctor \o <<"On">>
<1>1. Constructors(type) = <<ctor, on>> \/ Constructors(type) = <<ctor>>
  BY DEF Constructors
<1> HIDE DEF ctor, on
<1>2. IsSeq(<<ctor>>) /\ IsSeq(<<ctor, on>>)
  BY Short
<1> QED
  BY <1>1, <1>2

\* The constants of a service's methods are a list, with every one of them.
LEMMA MethodConstsIs ==
  ASSUME NEW s, IsSeq(s.methods)
  PROVE  IsSeq(MethodConsts(s)) /\ MethodRefs(s) \subseteq Range(MethodConsts(s))
<1> DEFINE c == [i \in DOMAIN s.methods |-> FullMethodName(s, s.methods[i])]
<1>1. Len(s.methods) \in Nat /\ DOMAIN s.methods = 1..Len(s.methods)
  BY ListIs
<1>2. c = [i \in 1..Len(s.methods) |-> c[i]]
  BY <1>1
<1>3. {FullMethodName(s, m) : m \in Range(s.methods)} \subseteq Range(c)
  BY DEF Range
<1>4. CASE cfg.method_consts
  <2>1. MethodConsts(s) = c /\ MethodRefs(s) = {FullMethodName(s, m) : m \in Range(s.methods)}
    BY <1>4 DEF MethodConsts, MethodRefs
  <2> HIDE DEF c
  <2>2. IsSeq(c)
    BY <1>1, <1>2, IsList
  <2> QED
    BY <1>3, <2>1, <2>2
<1>5. CASE ~cfg.method_consts
  <2>1. MethodConsts(s) = <<>> /\ MethodRefs(s) = {}
    BY <1>5 DEF MethodConsts, MethodRefs
  <2> QED
    BY <2>1, Short
<1> QED
  BY <1>4, <1>5

\* The type names among a service's declarations.
TypeNames(s) == (IF cfg.interfaces THEN {Iface(s)} ELSE {}) \cup {ImplName(s)}
                  \cup (IF cfg.callers THEN {CallerName(s)} ELSE {})

\* The declarations of a service are a list; the types of its methods are among
\* them, each at a place of its own, and so is what its bodies mention.
LEMMA DeclaredIs ==
  ASSUME NEW s, IsSeq(s.methods)
  PROVE  /\ IsSeq(Declared(s))
         /\ Mentioned(s) \subseteq Range(Declared(s))
         /\ TypeNames(s) \subseteq Range(Declared(s))
         /\ cfg.interfaces /\ Iface(s) = ImplName(s) => ImplName(s) \in Dup(Declared(s))
         /\ cfg.interfaces /\ cfg.callers /\ Iface(s) = CallerName(s)
              => CallerName(s) \in Dup(Declared(s))
         /\ cfg.callers /\ ImplName(s) = CallerName(s) => CallerName(s) \in Dup(Declared(s))
<1> DEFINE a == MethodConsts(s)
           b == StreamAliases(s)
           c == IF cfg.interfaces THEN <<Iface(s)>> ELSE <<>>
           d == <<ImplName(s)>>
           e == Constructors(Iface(s))
           g == <<CallerName(s)>> \o Constructors(CallerName(s))
           f == IF cfg.callers THEN g ELSE <<>>
<1>1. Declared(s) = a \o b \o c \o d \o e \o f
  BY DEF Declared
<1>2. IsSeq(a) /\ MethodRefs(s) \subseteq Range(a)
  BY MethodConstsIs
<1>3. IsSeq(b)
  BY AliasesAreAList
<1>4. IsSeq(c) /\ (cfg.interfaces => Range(c) = {Iface(s)})
  BY Short
<1>5. IsSeq(d) /\ Range(d) = {ImplName(s)}
  BY Short
<1>6. IsSeq(e)
  BY ConstructorsIs
<1>7. IsSeq(g) /\ CallerName(s) \in Range(g)
  <2>1. IsSeq(Constructors(CallerName(s)))
    BY ConstructorsIs
  <2>2. IsSeq(<<CallerName(s)>>) /\ Range(<<CallerName(s)>>) = {CallerName(s)}
    BY Short
  <2> QED
    BY <2>1, <2>2, Joined, JoinedRange
<1>8. IsSeq(f) /\ (cfg.callers => CallerName(s) \in Range(f))
  <2> HIDE DEF g
  <2> QED
    BY <1>7, Short
<1>9. Mentioned(s) \subseteq MethodRefs(s) \cup (IF cfg.interfaces THEN {Iface(s)} ELSE {})
  BY DEF Mentioned
<1> HIDE DEF a, b, c, d, e, f, g
<1> DEFINE j1 == a \o b
           j2 == j1 \o c
           j3 == j2 \o d
           j4 == j3 \o e
           j5 == j4 \o f
<1>10. IsSeq(j1) /\ Range(j1) = Range(a) \cup Range(b)
  BY <1>2, <1>3, Joined, JoinedRange
<1> HIDE DEF j1
<1>11. IsSeq(j2) /\ Range(j2) = Range(j1) \cup Range(c)
  BY <1>4, <1>10, Joined, JoinedRange
<1> HIDE DEF j2
<1>12. /\ IsSeq(j3) /\ Range(j3) = Range(j2) \cup Range(d)
       /\ Dup(j3) = Dup(j2) \cup Dup(d) \cup (Range(j2) \cap Range(d))
  BY <1>5, <1>11, Joined, JoinedRange, JoinedDup
<1> HIDE DEF j3
<1>13. /\ IsSeq(j4) /\ Range(j4) = Range(j3) \cup Range(e)
       /\ Dup(j4) = Dup(j3) \cup Dup(e) \cup (Range(j3) \cap Range(e))
  BY <1>6, <1>12, Joined, JoinedRange, JoinedDup
<1> HIDE DEF j4
<1>14. /\ IsSeq(j5) /\ Range(j5) = Range(j4) \cup Range(f)
       /\ Dup(j5) = Dup(j4) \cup Dup(f) \cup (Range(j4) \cap Range(f))
  BY <1>8, <1>13, Joined, JoinedRange, JoinedDup
<1> HIDE DEF j5
<1>15. Declared(s) = j5
  BY <1>1 DEF j1, j2, j3, j4, j5
<1>16. Mentioned(s) \subseteq Range(j5)
  BY <1>2, <1>4, <1>9, <1>10, <1>11, <1>12, <1>13, <1>14
<1>17. TypeNames(s) \subseteq Range(j5)
  BY <1>4, <1>5, <1>8, <1>11, <1>12, <1>13, <1>14 DEF TypeNames
<1>18. cfg.interfaces /\ Iface(s) = ImplName(s) => ImplName(s) \in Dup(j5)
  BY <1>4, <1>5, <1>11, <1>12, <1>13, <1>14
<1>19. cfg.interfaces /\ cfg.callers /\ Iface(s) = CallerName(s) => CallerName(s) \in Dup(j5)
  BY <1>4, <1>8, <1>11, <1>12, <1>13, <1>14
<1>20. cfg.callers /\ ImplName(s) = CallerName(s) => CallerName(s) \in Dup(j5)
  BY <1>5, <1>8, <1>12, <1>13, <1>14
<1> QED
  BY <1>14, <1>15, <1>16, <1>17, <1>18, <1>19, <1>20

\* The methods of a service that passed checkService are a list, on types it
\* declares; a method that is there twice is one of a type declared twice.
LEMMA MethodsIs ==
  ASSUME NEW s, IsSeq(s.methods), ~BadService(s)
  PROVE  /\ IsSeq(Methods(s))
         /\ \A m \in Range(Methods(s)) : m[1] \in Range(Declared(s))
         /\ \A m \in Dup(Methods(s)) : m[1] \in Dup(Declared(s))
<1> DEFINE names == MethodNames(s)
           caller == <<<<"Config">>>> \o names
           a == IF cfg.interfaces THEN On(Iface(s), names) ELSE <<>>
           b == On(ImplName(s), names)
           c == IF cfg.callers THEN On(CallerName(s), caller) ELSE <<>>
<1>1. Methods(s) = a \o b \o c
  BY DEF Methods
<1>2. IsSeq(names) /\ Dup(names) = {}
  BY MethodNamesIs
<1>3. cfg.callers => IsSeq(caller) /\ Dup(caller) = {}
  BY CallerMethodsIs
<1> HIDE DEF names, caller
<1>4. /\ IsSeq(a) /\ Dup(a) = {}
      /\ \A m \in Range(a) : cfg.interfaces /\ m[1] = Iface(s)
  <2>1. CASE cfg.interfaces
    BY <1>2, <2>1, OnIs
  <2>2. CASE ~cfg.interfaces
    BY <2>2, Short
  <2> QED
    BY <2>1, <2>2
<1>5. /\ IsSeq(b) /\ Dup(b) = {}
      /\ \A m \in Range(b) : m[1] = ImplName(s)
  BY <1>2, OnIs
<1>6. /\ IsSeq(c) /\ Dup(c) = {}
      /\ \A m \in Range(c) : cfg.callers /\ m[1] = CallerName(s)
  <2>1. CASE cfg.callers
    BY <1>3, <2>1, OnIs
  <2>2. CASE ~cfg.callers
    BY <2>2, Short
  <2> QED
    BY <2>1, <2>2
<1> HIDE DEF a, b, c
<1> DEFINE d == a \o b
           e == d \o c
<1>7. /\ IsSeq(d) /\ Range(d) = Range(a) \cup Range(b)
      /\ Dup(d) = Dup(a) \cup Dup(b) \cup (Range(a) \cap Range(b))
  BY <1>4, <1>5, Joined, JoinedRange, JoinedDup
<1> HIDE DEF d
<1>8. /\ IsSeq(e) /\ Range(e) = Range(d) \cup Range(c)
      /\ Dup(e) = Dup(d) \cup Dup(c) \cup (Range(d) \cap Range(c))
  BY <1>6, <1>7, Joined, JoinedRange, JoinedDup
<1> HIDE DEF e
<1>9. Methods(s) = e
  BY <1>1 DEF d, e
<1>10. ASSUME NEW m \in Range(e) PROVE m[1] \in Range(Declared(s))
  <2>1. m[1] \in TypeNames(s)
    BY <1>4, <1>5, <1>6, <1>7, <1>8 DEF TypeNames
  <2> QED
    BY <2>1, DeclaredIs
<1>11. ASSUME NEW m \in Dup(e) PROVE m[1] \in Dup(Declared(s))
  <2>1. \/ m \in Range(a) /\ m \in Range(b)
        \/ m \in Range(a) /\ m \in Range(c)
        \/ m \in Range(b) /\ m \in Range(c)
    BY <1>4, <1>5, <1>6, <1>7, <1>8
  <2>2. CASE m \in Range(a) /\ m \in Range(b)
    <3>1. cfg.interfaces /\ Iface(s) = ImplName(s) /\ m[1] = ImplName(s)
      BY <1>4, <1>5, <2>2
    <3> QED
      BY <3>1, DeclaredIs
  <2>3. CASE m \in Range(a) /\ m \in Range(c)
    <3>1. cfg.interfaces /\ cfg.callers /\ Iface(s) = CallerName(s) /\ m[1] = CallerName(s)
      BY <1>4, <1>6, <2>3
    <3> QED
      BY <3>1, DeclaredIs
  <2>4. CASE m \in Range(b) /\ m \in Range(c)
    <3>1. cfg.callers /\ ImplName(s) = CallerName(s) /\ m[1] = CallerName(s)
      BY <1>5, <1>6, <2>4
    <3> QED
      BY <3>1, DeclaredIs
  <2> QED
    BY <2>1, <2>2, <2>3, <2>4
<1> QED
  BY <1>8, <1>9, <1>10, <1>11

-----------------------------------------------------------------------------
(* What the files of one output directory hold, and hold twice.            *)

Held(L, I) == UNION {Range(L[i]) : i \in I}

Twofold(L, I) ==
  {x \in Held(L, I) : \/ \E i \in I : x \in Dup(L[i])
                      \/ \E i, j \in I : i # j /\ x \in Range(L[i]) /\ x \in Range(L[j])}

FilesOf(o, dir) == {i \in DOMAIN o : o[i].dir = dir}
ListsOf(o, field) == [i \in DOMAIN o |-> o[i][field]]

\* Lists that are the same hold the same.
LEMMA HeldSame ==
  ASSUME NEW L, NEW M, NEW I, \A i \in I : M[i] = L[i]
  PROVE  Held(M, I) = Held(L, I) /\ Twofold(M, I) = Twofold(L, I)
  BY DEF Held, Twofold

\* One more list, still empty.
OneMore(L, M, I, n) == M[n] = <<>> /\ \A i \in I : M[i] = L[i]

\* It adds nothing.
LEMMA HeldOneMore ==
  ASSUME NEW L, NEW M, NEW I, NEW n, OneMore(L, M, I, n)
  PROVE  Held(M, I \cup {n}) = Held(L, I) /\ Twofold(M, I \cup {n}) = Twofold(L, I)
<1> USE DEF OneMore
<1>1. Range(M[n]) = {} /\ Dup(M[n]) = {}
  BY Short
<1>2. Held(M, I \cup {n}) = Held(L, I)
  BY <1>1 DEF Held
<1>3. ASSUME NEW x
      PROVE  /\ (\E i \in I \cup {n} : x \in Dup(M[i])) <=> (\E i \in I : x \in Dup(L[i]))
             /\ (\E i, j \in I \cup {n} : i # j /\ x \in Range(M[i]) /\ x \in Range(M[j]))
                  <=> (\E i, j \in I : i # j /\ x \in Range(L[i]) /\ x \in Range(L[j]))
  BY <1>1
<1> QED
  BY <1>2, <1>3 DEF Twofold

\* The list at n grows by D.
Grows(L, M, I, n, D) ==
  /\ n \in I /\ IsSeq(D) /\ IsSeq(L[n]) /\ M[n] = L[n] \o D
  /\ \A i \in I \ {n} : M[i] = L[i]

\* A list that grows adds its new elements; new among those held twice are
\* those twice among them and those held before.
LEMMA HeldGrows ==
  ASSUME NEW L, NEW M, NEW I, NEW n, NEW D, Grows(L, M, I, n, D)
  PROVE  /\ Held(M, I) = Held(L, I) \cup Range(D)
         /\ Twofold(M, I) = Twofold(L, I) \cup Dup(D) \cup (Held(L, I) \cap Range(D))
<1> USE DEF Grows
<1>1. /\ Range(M[n]) = Range(L[n]) \cup Range(D)
      /\ Dup(M[n]) = Dup(L[n]) \cup Dup(D) \cup (Range(L[n]) \cap Range(D))
  BY JoinedRange, JoinedDup
<1>2. Held(M, I) = Held(L, I) \cup Range(D)
  BY <1>1 DEF Held
<1>3. Dup(D) \subseteq Range(D)
  BY DEF Dup, Range
<1>4. ASSUME NEW x \in Twofold(M, I)
      PROVE  x \in Twofold(L, I) \cup Dup(D) \cup (Held(L, I) \cap Range(D))
  <2>1. CASE \E i \in I : x \in Dup(M[i])
    <3>1. PICK i \in I : x \in Dup(M[i])
      BY <2>1
    <3>2. CASE i = n
      <4>1. x \in Dup(L[n]) => x \in Range(L[n])
        BY DEF Dup, Range
      <4> QED
        BY <1>1, <3>1, <3>2, <4>1 DEF Twofold, Held
    <3>3. CASE i # n
      <4>1. x \in Dup(L[i]) /\ x \in Range(L[i])
        BY <3>1, <3>3 DEF Dup, Range
      <4> QED
        BY <4>1 DEF Twofold, Held
    <3> QED
      BY <3>2, <3>3
  <2>2. CASE \E i, j \in I : i # j /\ x \in Range(M[i]) /\ x \in Range(M[j])
    <3>1. PICK i \in I, j \in I : i # j /\ x \in Range(M[i]) /\ x \in Range(M[j])
      BY <2>2
    <3>2. ASSUME NEW k \in I, x \in Range(M[k])
          PROVE  x \in Range(L[k]) \/ (k = n /\ x \in Range(D))
      BY <1>1, <3>2
    <3> QED
      BY <3>1, <3>2 DEF Twofold, Held
  <2> QED
    BY <2>1, <2>2 DEF Twofold
<1>5. ASSUME NEW x \in Twofold(L, I) PROVE x \in Twofold(M, I)
  <2>1. \A i \in I : Range(L[i]) \subseteq Range(M[i]) /\ Dup(L[i]) \subseteq Dup(M[i])
    BY <1>1
  <2> QED
    BY <1>2, <2>1 DEF Twofold
<1>6. ASSUME NEW x \in Dup(D) PROVE x \in Twofold(M, I)
  BY <1>1, <1>2, <1>3 DEF Twofold
<1>7. ASSUME NEW x \in Held(L, I) \cap Range(D) PROVE x \in Twofold(M, I)
  <2>1. PICK i \in I : x \in Range(L[i])
    BY DEF Held
  <2>2. x \in Held(M, I) /\ x \in Range(M[n])
    BY <1>1, <1>2
  <2>3. CASE i = n
    BY <1>1, <2>1, <2>2, <2>3 DEF Twofold
  <2>4. CASE i # n
    BY <2>1, <2>2, <2>4 DEF Twofold
  <2> QED
    BY <2>3, <2>4
<1> QED
  BY <1>2, <1>4, <1>5, <1>6, <1>7

\* The places of the module's Twice are places in these lists.
TwiceOf(o, field, dir) ==
  LET places == UNION {{<<i, j>> : j \in DOMAIN o[i][field]} :
                         i \in {n \in DOMAIN o : o[n].dir = dir}}
  IN {o[p[1]][field][p[2]] :
        p \in {q \in places :
                 \E r \in places \ {q} : o[r[1]][field][r[2]] = o[q[1]][field][q[2]]}}

\* A name is twice among the files of a directory at two places of one list, or
\* in two lists.
LEMMA TwiceIs ==
  ASSUME NEW o, NEW field, NEW dir
  PROVE  TwiceOf(o, field, dir) = Twofold(ListsOf(o, field), FilesOf(o, dir))
<1> DEFINE L == ListsOf(o, field)
           I == FilesOf(o, dir)
           P == UNION {{<<i, j>> : j \in DOMAIN L[i]} : i \in I}
<1>1. /\ I \subseteq DOMAIN o
      /\ \A i \in DOMAIN o : L[i] = o[i][field]
  BY DEF FilesOf, ListsOf
<1>2. UNION {{<<i, j>> : j \in DOMAIN o[i][field]} : i \in {n \in DOMAIN o : o[n].dir = dir}} = P
  BY <1>1 DEF FilesOf
<1>3. \A p \in P : p[1] \in I /\ p[2] \in DOMAIN L[p[1]] /\ p = <<p[1], p[2]>>
  OBVIOUS
<1>4. \A i \in I : \A j \in DOMAIN L[i] : <<i, j>> \in P
  OBVIOUS
<1> HIDE DEF P, L, I
<1>5. TwiceOf(o, field, dir)
        = {o[p[1]][field][p[2]] :
             p \in {q \in P : \E r \in P \ {q} : o[r[1]][field][r[2]] = o[q[1]][field][q[2]]}}
  BY <1>2 DEF TwiceOf
<1>6. ASSUME NEW x \in TwiceOf(o, field, dir) PROVE x \in Twofold(L, I)
  <2>1. PICK q \in P, r \in P : /\ q # r /\ x = o[q[1]][field][q[2]]
                                /\ x = o[r[1]][field][r[2]]
    BY <1>5
  <2>2. /\ q[1] \in I /\ q[2] \in DOMAIN L[q[1]] /\ x = L[q[1]][q[2]]
        /\ r[1] \in I /\ r[2] \in DOMAIN L[r[1]] /\ x = L[r[1]][r[2]]
        /\ (q[1] # r[1] \/ q[2] # r[2])
    BY <1>1, <1>3, <2>1
  <2>3. x \in Range(L[q[1]]) /\ x \in Range(L[r[1]])
    BY <2>2 DEF Range
  <2>4. CASE q[1] # r[1]
    BY <2>2, <2>3, <2>4 DEF Twofold, Held
  <2>5. CASE q[1] = r[1]
    <3>1. x \in Dup(L[q[1]])
      BY <2>2, <2>5 DEF Dup
    <3> QED
      BY <2>2, <2>3, <3>1 DEF Twofold, Held
  <2> QED
    BY <2>4, <2>5
<1>7. ASSUME NEW i \in I, NEW j \in I, NEW g \in DOMAIN L[i], NEW h \in DOMAIN L[j],
             i # j \/ g # h, L[i][g] = L[j][h]
      PROVE  L[i][g] \in TwiceOf(o, field, dir)
  <2> DEFINE q == <<i, g>>
             r == <<j, h>>
  <2>1. q \in P /\ r \in P /\ q # r /\ q[1] = i /\ q[2] = g /\ r[1] = j /\ r[2] = h
    BY <1>4, <1>7
  <2> HIDE DEF q, r
  <2>2. o[q[1]][field][q[2]] = L[i][g] /\ o[r[1]][field][r[2]] = L[i][g]
    BY <1>1, <1>7, <2>1
  <2> QED
    BY <1>5, <2>1, <2>2
<1>8. ASSUME NEW x \in Twofold(L, I) PROVE x \in TwiceOf(o, field, dir)
  <2>1. CASE \E i \in I : x \in Dup(L[i])
    BY <1>7, <2>1 DEF Dup
  <2>2. CASE \E i, j \in I : i # j /\ x \in Range(L[i]) /\ x \in Range(L[j])
    BY <1>7, <2>2 DEF Range
  <2> QED
    BY <2>1, <2>2 DEF Twofold
<1>9. TwiceOf(o, field, dir) = Twofold(L, I)
  BY <1>6, <1>8
<1> QED
  BY <1>9 DEF L, I

-----------------------------------------------------------------------------
(* The files before and after a step.                                      *)

Names(o, dir) == Held(ListsOf(o, "declared"), FilesOf(o, dir))
NamedTwice(o, dir) == Twofold(ListsOf(o, "declared"), FilesOf(o, dir))
MethodsOf(o, dir) == Held(ListsOf(o, "methods"), FilesOf(o, dir))
MethodsTwice(o, dir) == Twofold(ListsOf(o, "methods"), FilesOf(o, dir))

\* The module's names for what the files hold, before and after a step.
LEMMA Views ==
  ASSUME NEW dir
  PROVE  /\ NamesIn(dir) = Names(out, dir) /\ NamesIn(dir)' = Names(out', dir)
         /\ Twice("declared", dir) = NamedTwice(out, dir)
         /\ Twice("declared", dir)' = NamedTwice(out', dir)
         /\ Twice("methods", dir) = MethodsTwice(out, dir)
         /\ Twice("methods", dir)' = MethodsTwice(out', dir)
<1>1. ASSUME NEW o
      PROVE  UNION {Range(o[i].declared) : i \in {n \in DOMAIN o : o[n].dir = dir}}
               = Names(o, dir)
  BY DEF Names, Held, ListsOf, FilesOf
<1>2. NamesIn(dir) = Names(out, dir) /\ NamesIn(dir)' = Names(out', dir)
  BY <1>1 DEF NamesIn, FilesIn
<1>3. ASSUME NEW field
      PROVE  /\ Twice(field, dir) = TwiceOf(out, field, dir)
             /\ Twice(field, dir)' = TwiceOf(out', field, dir)
  BY DEF Twice, TwiceOf, Places
<1> QED
  BY <1>2, <1>3, TwiceIs DEF NamedTwice, MethodsTwice

\* What the files of a directory hold is what one of them holds.
LEMMA HeldIn ==
  ASSUME NEW o, NEW dir, NEW x
  PROVE  /\ x \in Names(o, dir)
              <=> \E i \in DOMAIN o : o[i].dir = dir /\ x \in Range(o[i].declared)
         /\ x \in MethodsOf(o, dir)
              <=> \E i \in DOMAIN o : o[i].dir = dir /\ x \in Range(o[i].methods)
  BY DEF Names, MethodsOf, Held, ListsOf, FilesOf

\* A new file, still empty.
Opened(o, p, n) ==
  /\ DOMAIN p = DOMAIN o \cup {n} /\ n \notin DOMAIN o /\ \A i \in DOMAIN o : p[i] = o[i]
  /\ p[n].declared = <<>> /\ p[n].methods = <<>>

\* It declares nothing.
LEMMA OpenOut ==
  ASSUME NEW o, NEW p, NEW n, Opened(o, p, n), NEW dir
  PROVE  /\ Names(p, dir) = Names(o, dir) /\ NamedTwice(p, dir) = NamedTwice(o, dir)
         /\ MethodsOf(p, dir) = MethodsOf(o, dir)
         /\ MethodsTwice(p, dir) = MethodsTwice(o, dir)
<1> USE DEF Opened
<1>1. ASSUME NEW field \in {"declared", "methods"}
      PROVE  /\ Held(ListsOf(p, field), FilesOf(p, dir)) = Held(ListsOf(o, field), FilesOf(o, dir))
             /\ Twofold(ListsOf(p, field), FilesOf(p, dir))
                  = Twofold(ListsOf(o, field), FilesOf(o, dir))
  <2> DEFINE L == ListsOf(o, field)
             M == ListsOf(p, field)
             I == FilesOf(o, dir)
  <2>1. (\A i \in I : M[i] = L[i]) /\ M[n] = <<>>
    BY DEF ListsOf, FilesOf
  <2>2. FilesOf(p, dir) = I \/ FilesOf(p, dir) = I \cup {n}
    BY DEF FilesOf
  <2> HIDE DEF L, M, I, Opened
  <2>3. /\ Held(M, I) = Held(L, I) /\ Twofold(M, I) = Twofold(L, I)
    BY <2>1, HeldSame
  <2>4. /\ Held(M, I \cup {n}) = Held(L, I) /\ Twofold(M, I \cup {n}) = Twofold(L, I)
    <3>1. OneMore(L, M, I, n)
      BY <2>1 DEF OneMore
    <3> QED
      BY <3>1, HeldOneMore
  <2>5. /\ Held(M, FilesOf(p, dir)) = Held(L, I)
        /\ Twofold(M, FilesOf(p, dir)) = Twofold(L, I)
    BY <2>2, <2>3, <2>4
  <2> QED
    BY <2>5 DEF L, M, I
<1> QED
  BY <1>1 DEF Names, NamedTwice, MethodsOf, MethodsTwice

\* A service added to file n: names D and methods E.
Emitted(o, p, n, D, E) ==
  /\ n \in DOMAIN o /\ DOMAIN p = DOMAIN o /\ \A i \in DOMAIN o \ {n} : p[i] = o[i]
  /\ IsSeq(D) /\ IsSeq(E) /\ IsSeq(o[n].declared) /\ IsSeq(o[n].methods)
  /\ p[n].dir = o[n].dir /\ p[n].declared = o[n].declared \o D
  /\ p[n].methods = o[n].methods \o E

\* What its directory declares then, and declares twice.
LEMMA EmitOut ==
  ASSUME NEW o, NEW p, NEW n, NEW D, NEW E, Emitted(o, p, n, D, E), NEW dir
  PROVE  /\ dir # o[n].dir =>
              /\ Names(p, dir) = Names(o, dir) /\ NamedTwice(p, dir) = NamedTwice(o, dir)
              /\ MethodsTwice(p, dir) = MethodsTwice(o, dir)
         /\ dir = o[n].dir =>
              /\ Names(p, dir) = Names(o, dir) \cup Range(D)
              /\ NamedTwice(p, dir)
                   = NamedTwice(o, dir) \cup Dup(D) \cup (Names(o, dir) \cap Range(D))
              /\ MethodsTwice(p, dir)
                   = MethodsTwice(o, dir) \cup Dup(E) \cup (MethodsOf(o, dir) \cap Range(E))
<1> USE DEF Emitted
<1>1. FilesOf(p, dir) = FilesOf(o, dir)
  BY DEF FilesOf
<1> DEFINE L1 == ListsOf(o, "declared")
           M1 == ListsOf(p, "declared")
           L2 == ListsOf(o, "methods")
           M2 == ListsOf(p, "methods")
           I == FilesOf(o, dir)
<1>2. /\ \A i \in DOMAIN o \ {n} : M1[i] = L1[i] /\ M2[i] = L2[i]
      /\ L1[n] = o[n].declared /\ M1[n] = L1[n] \o D
      /\ L2[n] = o[n].methods /\ M2[n] = L2[n] \o E
  BY DEF ListsOf
<1>3. I \subseteq DOMAIN o /\ (n \in I <=> dir = o[n].dir)
  BY DEF FilesOf
<1> HIDE DEF L1, M1, L2, M2, I
<1>4. CASE dir # o[n].dir
  <2>1. \A i \in I : M1[i] = L1[i] /\ M2[i] = L2[i]
    BY <1>2, <1>3, <1>4
  <2>2. /\ Held(M1, I) = Held(L1, I) /\ Twofold(M1, I) = Twofold(L1, I)
        /\ Twofold(M2, I) = Twofold(L2, I)
    BY <2>1, HeldSame
  <2> QED
    BY <1>1, <1>4, <2>2 DEF Names, NamedTwice, MethodsTwice, L1, M1, L2, M2, I
<1>5. CASE dir = o[n].dir
  <2>1. n \in I /\ \A i \in I \ {n} : M1[i] = L1[i] /\ M2[i] = L2[i]
    BY <1>2, <1>3, <1>5
  <2>2. Grows(L1, M1, I, n, D) /\ Grows(L2, M2, I, n, E)
    BY <1>2, <2>1 DEF Grows
  <2>3. /\ Held(M1, I) = Held(L1, I) \cup Range(D)
        /\ Twofold(M1, I) = Twofold(L1, I) \cup Dup(D) \cup (Held(L1, I) \cap Range(D))
    BY <2>2, HeldGrows
  <2>4. Twofold(M2, I) = Twofold(L2, I) \cup Dup(E) \cup (Held(L2, I) \cap Range(E))
    BY <2>2, HeldGrows
  <2> QED
    BY <1>1, <1>5, <2>3, <2>4 DEF Names, NamedTwice, MethodsOf, MethodsTwice, L1, M1, L2, M2, I
<1> QED
  BY <1>4, <1>5

-----------------------------------------------------------------------------
(* Every step keeps the invariant.                                         *)

\* The parts of the invariant that are about the files and the namesets.
FilesInv == ShapeInv /\ DirsInv /\ SetsInv /\ MethodsInv /\ TextInv

\* A step that leaves the files, the namesets, the request and the options.
LEMMA SameFiles ==
  ASSUME FilesInv, UNCHANGED <<out, sets, order, request, cfg>>
  PROVE  FilesInv'
<1>1. ShapeInv' /\ DirsInv' /\ TextInv'
  BY DEF FilesInv, ShapeInv, DirsInv, TextInv, OutDirs
<1>2. ASSUME NEW k
      PROVE  /\ NamesIn(k)' = NamesIn(k) /\ Twice("declared", k)' = Twice("declared", k)
             /\ Twice("methods", k)' = Twice("methods", k) /\ Unnamed(k)' = Unnamed(k)
  <2>1. Unnamed(k)' = Unnamed(k)
    BY DEF Unnamed, OutDir, CanUnexport
  <2> QED
    BY <2>1, Views
<1>3. SetsInv'
  BY <1>2 DEF FilesInv, SetsInv
<1>4. MethodsInv'
  BY <1>2 DEF FilesInv, MethodsInv, OutDirs
<1> QED
  BY <1>1, <1>3, <1>4 DEF FilesInv

\* An option comes before the first file.
LEMMA OptionKeeps ==
  ASSUME IInv, NEW name, NEW value, SetOption(name, value)
  PROVE  IInv'
<1>1. /\ at = 0 /\ out = <<>> /\ next = 0 /\ result = "running"
      /\ UNCHANGED <<request, at, next, sets, order, out, report>>
      /\ result' \in {"bad option", "running"}
  BY DEF IInv, PlaceInv, SetOption
<1>2. /\ DOMAIN out = {} /\ DOMAIN out' = {}
      /\ OutDirs = {} /\ OutDirs' = {} /\ DOMAIN sets = {} /\ DOMAIN sets' = {}
  <2>0. DOMAIN <<>> = {}
    OBVIOUS
  <2>1. DOMAIN out = {} /\ DOMAIN out' = {}
    BY <1>1, <2>0
  <2>2. OutDirs = {} /\ OutDirs' = {}
    BY <2>1 DEF OutDirs
  <2> QED
    BY <1>1, <2>1, <2>2 DEF IInv, DirsInv
<1>3. ShapeInv'
  BY <1>1 DEF IInv, ShapeInv
<1>4. PlaceInv'
  BY <1>1 DEF IInv, PlaceInv
<1>5. DirsInv'
  BY <1>1, <1>2 DEF IInv, DirsInv
<1>6. SetsInv'
  BY <1>2 DEF SetsInv
<1>7. MethodsInv' /\ TextInv'
  BY <1>1, <1>2 DEF MethodsInv, TextInv
<1>8. EndInv'
  BY <1>1 DEF IInv, EndInv
<1> QED
  BY <1>3, <1>4, <1>5, <1>6, <1>7, <1>8 DEF IInv

\* Validate.
LEMMA ValidateKeeps ==
  ASSUME IInv, Validate
  PROVE  IInv'
<1>1. /\ at = 0 /\ next = 0 /\ result = "running"
      /\ UNCHANGED <<cfg, given, request, next, sets, order, out, report>>
      /\ \/ at' = 1 /\ result' = result
         \/ at' = at /\ result' = "bad config"
  BY DEF IInv, PlaceInv, Validate
<1>2. FilesInv'
  BY <1>1, SameFiles DEF IInv, FilesInv
<1>3. PlaceInv'
  <2>1. at' \in {0, 1} /\ next' = 0 /\ request' = request /\ (at' = 0 => out' = <<>>)
    BY <1>1 DEF IInv, PlaceInv
  <2> QED
    BY <2>1 DEF IInv, PlaceInv
<1>4. EndInv'
  BY <1>1 DEF IInv, EndInv
<1> QED
  BY <1>2, <1>3, <1>4 DEF IInv, FilesInv

\* A file that is passed over.
LEMMA SkipKeeps ==
  ASSUME IInv, SkipFile
  PROVE  IInv'
<1>1. /\ next = 0 /\ result = "running" /\ at' = at + 1
      /\ UNCHANGED <<cfg, given, request, next, sets, order, out, result, report>>
  BY DEF SkipFile, Running
<1>2. FilesInv'
  BY <1>1, SameFiles DEF IInv, FilesInv
<1>3. PlaceInv'
  BY <1>1 DEF IInv, PlaceInv
<1>4. EndInv'
  BY <1>1 DEF IInv, EndInv
<1> QED
  BY <1>2, <1>3, <1>4 DEF IInv, FilesInv

\* The report at the end.
LEMMA ReportKeeps ==
  ASSUME IInv, Report
  PROVE  IInv'
<1>1. /\ result = "running"
      /\ UNCHANGED <<cfg, given, request, at, next, sets, order, out>>
      /\ report' = Reported
      /\ result' = IF Reported = {} THEN "ok" ELSE "collisions"
  BY DEF Report
<1>2. FilesInv'
  BY <1>1, SameFiles DEF IInv, FilesInv
<1>3. PlaceInv'
  BY <1>1 DEF IInv, PlaceInv, File, SetKey, OutDir
<1>4. Reported' = Reported
  BY <1>1 DEF Reported
<1>5. EndInv'
  BY <1>1, <1>4 DEF EndInv
<1> QED
  BY <1>2, <1>3, <1>5 DEF IInv, FilesInv

\* Where Run goes from an open file: to its next service or past it.
LEMMA PlaceKept ==
  ASSUME IInv, Running, next > 0, Advance, UNCHANGED <<cfg, request>>,
         DOMAIN out' = DOMAIN out, Len(out') = Len(out), out' # <<>>,
         out'[Len(out)].dir = out[Len(out)].dir
  PROVE  PlaceInv'
<1> USE DEF IInv, PlaceInv
<1>1. CASE next < Len(File.services)
  <2>1. next' = next + 1 /\ at' = at /\ File' = File /\ SetKey(File)' = SetKey(File)
    BY <1>1 DEF Advance, File, SetKey, OutDir
  <2>2. IsSeq(File.services)
    BY GeneratorAssumption DEF File, Range
  <2>3. next + 1 \in DOMAIN File.services
    BY <1>1, <2>2, ListIs
  <2> QED
    BY <2>1, <2>3
<1>2. CASE ~(next < Len(File.services))
  <2>1. next' = 0 /\ at' = at + 1
    BY <1>2 DEF Advance
  <2> QED
    BY <2>1
<1> QED
  BY <1>1, <1>2

\* A file is opened: it declares nothing yet, and its directory has a nameset.
LEMMA OpenKeeps ==
  ASSUME IInv, OpenFile
  PROVE  IInv'
<1> DEFINE k == SetKey(File)
           n == Len(out) + 1
           new == [dir |-> k, declared |-> <<>>, methods |-> <<>>,
                   mentioned |-> {}, comments |-> {}]
<1>1. /\ result = "running" /\ at \in DOMAIN request /\ next = 0
      /\ File.generate /\ File.services # <<>>
      /\ out' = Append(out, new) /\ next' = 1
      /\ UNCHANGED <<cfg, given, request, at, result, report>>
  BY DEF OpenFile, Running, SetKey
<1>2. /\ k \in DOMAIN sets => UNCHANGED <<sets, order>>
      /\ k \notin DOMAIN sets =>
           /\ sets' = [d \in DOMAIN sets \cup {k} |->
                         IF d \in DOMAIN sets THEN sets[d] ELSE [owned |-> {}, conflicts |-> {}]]
           /\ order' = Append(order, k)
  BY DEF OpenFile
<1>3. IsSeq(out) /\ Len(out) \in Nat /\ DOMAIN out = 1..Len(out) /\ n \notin DOMAIN out
  BY ListIs DEF IInv, ShapeInv
<1>4. ASSUME NEW q, IsSeq(q), NEW x
      PROVE  /\ IsSeq(Append(q, x)) /\ Len(Append(q, x)) = Len(q) + 1
             /\ DOMAIN Append(q, x) = DOMAIN q \cup {Len(q) + 1}
             /\ Range(Append(q, x)) = Range(q) \cup {x}
             /\ \A i \in DOMAIN q : Append(q, x)[i] = q[i]
             /\ Append(q, x)[Len(q) + 1] = x
  <2>1. Append(q, x) = q \o <<x>>
    <3>1. q \in Seq(Range(q) \cup {x})
      BY <1>4, ListOver
    <3> QED
      BY <3>1
  <2>2. IsSeq(<<x>>) /\ Len(<<x>>) = 1 /\ Range(<<x>>) = {x} /\ <<x>>[1] = x
    BY Short
  <2>3. /\ IsSeq(q \o <<x>>) /\ Len(q \o <<x>>) = Len(q) + 1
        /\ \A i \in 1..Len(q) : (q \o <<x>>)[i] = q[i]
        /\ \A i \in 1..Len(<<x>>) : (q \o <<x>>)[Len(q) + i] = <<x>>[i]
    BY <1>4, <2>2, Joined
  <2>4. Range(q \o <<x>>) = Range(q) \cup {x}
    BY <1>4, <2>2, JoinedRange
  <2>5. Len(q) \in Nat /\ DOMAIN q = 1..Len(q) /\ DOMAIN (q \o <<x>>) = 1..(Len(q) + 1)
    BY <1>4, <2>3, ListIs
  <2>6. 1..(Len(q) + 1) = 1..Len(q) \cup {Len(q) + 1} /\ 1 \in 1..Len(<<x>>)
    BY <2>2, <2>5
  <2>7. (q \o <<x>>)[Len(q) + 1] = x
    BY <2>2, <2>3, <2>6
  <2> QED
    BY <2>1, <2>3, <2>4, <2>5, <2>6, <2>7
<1>5. /\ IsSeq(out') /\ DOMAIN out' = DOMAIN out \cup {n} /\ Len(out') = n
      /\ \A i \in DOMAIN out : out'[i] = out[i]
      /\ out'[n] = new
  BY <1>1, <1>3, <1>4
<1>6. /\ new.dir = k /\ new.declared = <<>> /\ new.methods = <<>>
      /\ new.mentioned = {} /\ new.comments = {}
  OBVIOUS
<1>7. Opened(out, out', n)
  BY <1>3, <1>5, <1>6 DEF Opened
<1>8. OutDirs' = OutDirs \cup {k}
  BY <1>5, <1>6 DEF OutDirs
<1> HIDE DEF k, n
<1>9. DOMAIN sets' = DOMAIN sets \cup {k} /\ Range(order') = Range(order) \cup {k} /\ IsSeq(order')
  <2>1. CASE k \in DOMAIN sets
    BY <1>2, <2>1 DEF IInv, DirsInv, ShapeInv
  <2>2. CASE k \notin DOMAIN sets
    <3>1. DOMAIN sets' = DOMAIN sets \cup {k}
      BY <1>2, <2>2
    <3>2. IsSeq(order) /\ order' = Append(order, k)
      BY <1>2, <2>2 DEF IInv, ShapeInv
    <3>3. Range(order') = Range(order) \cup {k} /\ IsSeq(order')
      BY <1>4, <3>2
    <3> QED
      BY <3>1, <3>3
  <2> QED
    BY <2>1, <2>2
<1>10. /\ \A d \in DOMAIN sets : sets'[d] = sets[d]
       /\ k \notin DOMAIN sets => sets'[k].owned = {} /\ sets'[k].conflicts = {}
                                  /\ sets'[k] = [owned |-> {}, conflicts |-> {}]
  <2>1. CASE k \in DOMAIN sets
    BY <1>2, <2>1
  <2>2. CASE k \notin DOMAIN sets
    <3> DEFINE none == [owned |-> {}, conflicts |-> {}]
    <3>1. none.owned = {} /\ none.conflicts = {}
      OBVIOUS
    <3>2. sets' = [d \in DOMAIN sets \cup {k} |-> IF d \in DOMAIN sets THEN sets[d] ELSE none]
      BY <1>2, <2>2
    <3> HIDE DEF none
    <3>3. (\A d \in DOMAIN sets : sets'[d] = sets[d]) /\ sets'[k] = none
      BY <2>2, <3>2
    <3> QED
      BY <3>1, <3>3 DEF none
  <2> QED
    BY <2>1, <2>2
<1>11. ShapeInv'
  <2>2. IsSeq(new.declared) /\ IsSeq(new.methods)
    BY <1>6, Short
  <2> HIDE DEF new
  <2>3. ASSUME NEW i \in DOMAIN out'
        PROVE  IsSeq(out'[i].declared) /\ IsSeq(out'[i].methods)
    <3>1. CASE i = n
      BY <1>5, <2>2, <3>1
    <3>2. CASE i \in DOMAIN out
      BY <1>5, <3>2 DEF IInv, ShapeInv
    <3> QED
      BY <1>5, <3>1, <3>2
  <2>4. ASSUME NEW d \in DOMAIN sets'
        PROVE  sets'[d] = [owned |-> sets'[d].owned, conflicts |-> sets'[d].conflicts]
    <3>1. CASE d \in DOMAIN sets
      BY <1>10, <3>1 DEF IInv, ShapeInv
    <3>2. CASE d \notin DOMAIN sets
      BY <1>9, <1>10, <3>2
    <3> QED
      BY <3>1, <3>2
  <2> QED
    BY <1>5, <1>9, <2>3, <2>4 DEF ShapeInv
<1>12. PlaceInv'
  <2>1. File' = File /\ SetKey(File)' = k
    BY <1>1 DEF File, SetKey, OutDir, k
  <2>2. IsSeq(File.services) /\ request \in Requests /\ at \in Nat
    <3>1. request \in Requests /\ at \in Nat
      BY DEF IInv, PlaceInv
    <3> QED
      BY <1>1, <3>1, GeneratorAssumption DEF File, Range
  <2>3. 1 \in DOMAIN File.services
    <3>1. /\ File.services \in Seq(Range(File.services)) /\ Len(File.services) \in Nat
          /\ DOMAIN File.services = 1..Len(File.services)
      BY <2>2, ListIs
    <3>2. Len(File.services) # 0
      BY <1>1, <3>1, EmptySeq
    <3> QED
      BY <3>1, <3>2
  <2>4. out' # <<>> /\ out'[Len(out')].dir = k
    <3>1. n \in DOMAIN out' /\ DOMAIN <<>> = {}
      BY <1>5
    <3> QED
      BY <1>5, <1>6, <3>1
  <2>5. at # 0
    <3>1. IsSeq(request)
      BY <2>2, GeneratorAssumption
    <3> QED
      BY <1>1, <2>2, <3>1, ListIs
  <2> QED
    BY <1>1, <2>1, <2>2, <2>3, <2>4, <2>5 DEF PlaceInv
<1>13. DirsInv'
  BY <1>8, <1>9 DEF IInv, DirsInv
<1>14. ASSUME NEW d
       PROVE  /\ NamesIn(d)' = NamesIn(d) /\ Twice("declared", d)' = Twice("declared", d)
              /\ Twice("methods", d)' = Twice("methods", d) /\ Unnamed(d)' = Unnamed(d)
  <2>1. Unnamed(d)' = Unnamed(d)
    BY <1>1 DEF Unnamed, OutDir, CanUnexport
  <2> QED
    BY <1>7, <2>1, OpenOut, Views
<1>15. k \notin DOMAIN sets => NamesIn(k) = {} /\ Twice("declared", k) = {} /\ Twice("methods", k) = {}
  <2> SUFFICES ASSUME k \notin OutDirs PROVE FilesOf(out, k) = {}
    BY Views DEF IInv, DirsInv, Names, NamedTwice, MethodsTwice, Held, Twofold
  <2> QED
    BY DEF OutDirs, FilesOf
<1>16. SetsInv'
  <2> SUFFICES ASSUME NEW d \in DOMAIN sets'
               PROVE  /\ sets'[d].owned = NamesIn(d)
                      /\ Twice("declared", d) \subseteq sets'[d].conflicts
                      /\ sets'[d].conflicts \subseteq Twice("declared", d) \cup Unnamed(d)
    BY <1>14 DEF SetsInv
  <2>1. CASE d \in DOMAIN sets
    BY <1>10, <2>1 DEF IInv, SetsInv
  <2>2. CASE d \notin DOMAIN sets
    BY <1>9, <1>10, <1>15, <2>2
  <2> QED
    BY <2>1, <2>2
<1>17. MethodsInv'
  <2>1. ASSUME NEW i \in DOMAIN out', NEW m \in Range(out'[i].methods)
        PROVE  m[1] \in Range(out'[i].declared)
    <3>1. CASE i = n
      BY <1>5, <1>6, <2>1, <3>1, Short
    <3>2. CASE i \in DOMAIN out
      BY <1>5, <2>1, <3>2 DEF IInv, MethodsInv
    <3> QED
      BY <1>5, <3>1, <3>2
  <2>2. ASSUME NEW d \in OutDirs', NEW m \in Twice("methods", d)
        PROVE  m[1] \in Twice("declared", d)
    <3>1. CASE d \in OutDirs
      BY <2>2, <3>1 DEF IInv, MethodsInv
    <3>2. CASE d \notin OutDirs
      BY <1>8, <1>15, <2>2, <3>2 DEF IInv, DirsInv
    <3> QED
      BY <3>1, <3>2
  <2> QED
    BY <1>14, <2>1, <2>2 DEF MethodsInv
<1>18. TextInv'
  <2> HIDE DEF new
  <2>1. ASSUME NEW i \in DOMAIN out'
        PROVE  out'[i].mentioned \subseteq Range(out'[i].declared) /\ "word" \notin out'[i].comments
    <3>1. CASE i = n
      BY <1>5, <1>6, <3>1
    <3>2. CASE i \in DOMAIN out
      BY <1>5, <3>2 DEF IInv, TextInv
    <3> QED
      BY <1>5, <3>1, <3>2
  <2> QED
    BY <2>1 DEF TextInv
<1>19. EndInv'
  BY <1>1 DEF IInv, EndInv
<1> QED
  BY <1>11, <1>12, <1>13, <1>16, <1>17, <1>18, <1>19 DEF IInv

\* What a step of Service does with the last file and its nameset.
LEMMA OpenPlace ==
  ASSUME IInv, Running, next > 0
  PROVE  /\ Len(out) \in DOMAIN out /\ out[Len(out)].dir = SetKey(File)
         /\ SetKey(File) \in DOMAIN sets /\ SetKey(File) = OutDir(File)
         /\ File \in Range(request) /\ File.generate
         /\ File.services[next] \in Range(File.services)
         /\ IsSeq(File.services[next].methods)
<1>1. /\ request \in Requests /\ at \in DOMAIN request /\ File.generate
      /\ next \in DOMAIN File.services /\ out # <<>> /\ out[Len(out)].dir = SetKey(File)
  BY DEF IInv, PlaceInv
<1>2. File \in Range(request) /\ File.services[next] \in Range(File.services)
  BY <1>1 DEF File, Range
<1>3. IsSeq(File.services[next].methods)
  BY <1>1, <1>2, GeneratorAssumption
<1>4. Len(out) \in DOMAIN out
  <2>1. out \in Seq(Range(out)) /\ Len(out) \in Nat /\ DOMAIN out = 1..Len(out)
    BY ListIs DEF IInv, ShapeInv
  <2>2. Len(out) # 0
    BY <1>1, <2>1, EmptySeq
  <2> QED
    BY <2>1, <2>2
<1>5. SetKey(File) \in DOMAIN sets
  BY <1>1, <1>4 DEF IInv, DirsInv, OutDirs
<1> QED
  BY <1>1, <1>2, <1>3, <1>4, <1>5 DEF SetKey

\* A service is refused by checkService.
LEMMA BadKeeps ==
  ASSUME IInv, Running, result' = "bad service",
         UNCHANGED <<at, next, sets, out, cfg, given, request, order, report>>
  PROVE  IInv'
<1>1. FilesInv'
  BY SameFiles DEF IInv, FilesInv
<1>2. PlaceInv'
  BY DEF IInv, PlaceInv, File, SetKey, OutDir
<1>3. EndInv'
  BY DEF IInv, EndInv, Running
<1> QED
  BY <1>1, <1>2, <1>3 DEF IInv, FilesInv

\* A service cannot be named: a conflict of its directory, and no declaration.
LEMMA UnnamedKeeps ==
  ASSUME IInv, Running, next > 0, NEW s, s = File.services[next], ~CanUnexport(s),
         sets' = [sets EXCEPT ![SetKey(File)].conflicts = @ \cup {s.name}],
         Advance, UNCHANGED <<out, result, cfg, given, request, order, report>>
  PROVE  IInv'
<1> DEFINE k == SetKey(File)
<1>1. /\ Len(out) \in DOMAIN out /\ k \in DOMAIN sets /\ k = OutDir(File)
      /\ File \in Range(request) /\ File.generate /\ s \in Range(File.services)
  BY OpenPlace
<1>2. s.name \in Unnamed(k)
  BY <1>1 DEF Unnamed
<1> HIDE DEF k
<1>3. sets[k] = [owned |-> sets[k].owned, conflicts |-> sets[k].conflicts]
  BY <1>1 DEF IInv, ShapeInv
<1>4. /\ DOMAIN sets' = DOMAIN sets /\ \A d \in DOMAIN sets \ {k} : sets'[d] = sets[d]
      /\ sets'[k] = [sets[k] EXCEPT !.conflicts = @ \cup {s.name}]
  BY <1>1 DEF k
<1>5. /\ sets'[k] = [owned |-> sets[k].owned, conflicts |-> sets[k].conflicts \cup {s.name}]
      /\ sets'[k].owned = sets[k].owned
      /\ sets'[k].conflicts = sets[k].conflicts \cup {s.name}
  BY <1>3, <1>4
<1>6. ShapeInv'
  <2>1. ASSUME NEW d \in DOMAIN sets'
        PROVE  sets'[d] = [owned |-> sets'[d].owned, conflicts |-> sets'[d].conflicts]
    <3>1. CASE d = k
      BY <1>5, <3>1
    <3>2. CASE d # k
      BY <1>4, <3>2 DEF IInv, ShapeInv
    <3> QED
      BY <3>1, <3>2
  <2> QED
    BY <2>1 DEF IInv, ShapeInv
<1>7. PlaceInv'
  <2>1. out' # <<>>
    BY DEF IInv, PlaceInv
  <2> QED
    BY <2>1, PlaceKept
<1>8. DirsInv' /\ TextInv'
  BY <1>4 DEF IInv, DirsInv, TextInv, OutDirs
<1>9. ASSUME NEW d
      PROVE  /\ NamesIn(d)' = NamesIn(d) /\ Twice("declared", d)' = Twice("declared", d)
             /\ Twice("methods", d)' = Twice("methods", d) /\ Unnamed(d)' = Unnamed(d)
  <2>1. Unnamed(d)' = Unnamed(d)
    BY DEF Unnamed, OutDir, CanUnexport
  <2> QED
    BY <2>1, Views
<1>10. SetsInv'
  <2> SUFFICES ASSUME NEW d \in DOMAIN sets
               PROVE  /\ sets'[d].owned = NamesIn(d)
                      /\ Twice("declared", d) \subseteq sets'[d].conflicts
                      /\ sets'[d].conflicts \subseteq Twice("declared", d) \cup Unnamed(d)
    BY <1>4, <1>9 DEF SetsInv
  <2>1. CASE d = k
    BY <1>2, <1>5, <2>1 DEF IInv, SetsInv
  <2>2. CASE d # k
    BY <1>4, <2>2 DEF IInv, SetsInv
  <2> QED
    BY <2>1, <2>2
<1>11. MethodsInv'
  BY <1>9 DEF IInv, MethodsInv, OutDirs
<1>12. EndInv'
  BY DEF IInv, EndInv, Running
<1> QED
  BY <1>6, <1>7, <1>8, <1>10, <1>11, <1>12 DEF IInv

\* A service is emitted: its names are claimed in the nameset of its directory
\* and declared in the last file.
LEMMA EmitKeeps ==
  ASSUME IInv, Running, next > 0, NEW s, s = File.services[next], ~BadService(s),
         Emit(s), Advance, UNCHANGED <<result, cfg, given, request, order, report>>
  PROVE  IInv'
<1> DEFINE k == SetKey(File)
           n == Len(out)
           D == Declared(s)
           E == Methods(s)
<1>1. n \in DOMAIN out /\ out[n].dir = k /\ k \in DOMAIN sets /\ IsSeq(s.methods)
  BY OpenPlace
<1>2. /\ IsSeq(D) /\ Mentioned(s) \subseteq Range(D)
      /\ IsSeq(E) /\ \A m \in Range(E) : m[1] \in Range(D)
      /\ \A m \in Dup(E) : m[1] \in Dup(D)
  BY <1>1, DeclaredIs, MethodsIs
<1>3. "word" \notin Comments(s)
  BY DEF Comments, Defuse
<1>4. /\ IsSeq(out) /\ Len(out) \in Nat /\ DOMAIN out = 1..Len(out)
      /\ IsSeq(out[n].declared) /\ IsSeq(out[n].methods)
  BY <1>1, ListIs DEF IInv, ShapeInv
<1>5. sets' = [sets EXCEPT ![k] = ClaimAll(sets[k], D)]
  BY DEF Emit
<1> DEFINE new == [dir |-> out[n].dir, declared |-> out[n].declared \o D,
                    methods |-> out[n].methods \o E,
                    mentioned |-> out[n].mentioned \cup Mentioned(s),
                    comments |-> out[n].comments \cup Comments(s)]
<1>6. out' = [out EXCEPT ![n] = new]
  BY DEF Emit
<1> HIDE DEF k, n, D, E, new
<1>7. /\ DOMAIN out' = DOMAIN out /\ \A i \in DOMAIN out \ {n} : out'[i] = out[i]
      /\ out'[n] = new
  BY <1>1, <1>6
<1>8. /\ out'[n].dir = out[n].dir /\ out'[n].declared = out[n].declared \o D
      /\ out'[n].methods = out[n].methods \o E
      /\ out'[n].mentioned = out[n].mentioned \cup Mentioned(s)
      /\ out'[n].comments = out[n].comments \cup Comments(s)
  BY <1>7 DEF new
<1>9. Emitted(out, out', n, D, E)
  BY <1>1, <1>2, <1>4, <1>7, <1>8 DEF Emitted
<1>10. IsSeq(out') /\ Len(out') = Len(out)
  <2>1. out' = [i \in 1..Len(out) |-> out'[i]]
    BY <1>4, <1>6
  <2> QED
    BY <1>4, <2>1, IsList
<1>11. /\ IsSeq(out'[n].declared) /\ IsSeq(out'[n].methods)
       /\ Range(out'[n].declared) = Range(out[n].declared) \cup Range(D)
       /\ Range(out'[n].methods) = Range(out[n].methods) \cup Range(E)
  BY <1>2, <1>4, <1>8, Joined, JoinedRange
<1>12. sets[k] = [owned |-> sets[k].owned, conflicts |-> sets[k].conflicts]
  BY <1>1 DEF IInv, ShapeInv
<1>13. ClaimAll(sets[k], D) = Claimed(sets[k], D)
  BY <1>2, <1>12, ClaimAllIs
<1>14. /\ DOMAIN sets' = DOMAIN sets /\ \A d \in DOMAIN sets \ {k} : sets'[d] = sets[d]
       /\ sets'[k] = Claimed(sets[k], D)
  BY <1>1, <1>5, <1>13
<1>15. /\ sets'[k].owned = sets[k].owned \cup Range(D)
       /\ sets'[k].conflicts
            = sets[k].conflicts \cup Dup(D) \cup (sets[k].owned \cap Range(D))
       /\ sets'[k] = [owned |-> sets'[k].owned, conflicts |-> sets'[k].conflicts]
  BY <1>14 DEF Claimed
<1>16. ShapeInv'
  <2>1. ASSUME NEW i \in DOMAIN out'
        PROVE  IsSeq(out'[i].declared) /\ IsSeq(out'[i].methods)
    <3>1. CASE i = n
      BY <1>11, <3>1
    <3>2. CASE i # n
      BY <1>7, <3>2 DEF IInv, ShapeInv
    <3> QED
      BY <3>1, <3>2
  <2>2. ASSUME NEW d \in DOMAIN sets'
        PROVE  sets'[d] = [owned |-> sets'[d].owned, conflicts |-> sets'[d].conflicts]
    <3>1. CASE d = k
      BY <1>15, <3>1
    <3>2. CASE d # k
      BY <1>14, <3>2 DEF IInv, ShapeInv
    <3> QED
      BY <3>1, <3>2
  <2>3. IsSeq(order')
    BY DEF IInv, ShapeInv
  <2> QED
    BY <1>10, <2>1, <2>2, <2>3 DEF ShapeInv
<1>17. PlaceInv'
  <2>1. out' # <<>>
    <3>1. DOMAIN <<>> = {}
      OBVIOUS
    <3> QED
      BY <1>1, <1>7, <3>1
  <2> QED
    BY <1>7, <1>8, <1>10, <2>1, PlaceKept DEF n
<1>18. OutDirs' = OutDirs
  <2>1. \A i \in DOMAIN out : out'[i].dir = out[i].dir
    BY <1>7, <1>8
  <2> QED
    BY <1>7, <2>1 DEF OutDirs
<1>19. DirsInv'
  BY <1>14, <1>18 DEF IInv, DirsInv
<1>20. ASSUME NEW d
       PROVE  /\ d # k => /\ NamesIn(d)' = NamesIn(d)
                          /\ Twice("declared", d)' = Twice("declared", d)
                          /\ Twice("methods", d)' = Twice("methods", d)
              /\ d = k =>
                   /\ NamesIn(d)' = NamesIn(d) \cup Range(D)
                   /\ Twice("declared", d)'
                        = Twice("declared", d) \cup Dup(D) \cup (NamesIn(d) \cap Range(D))
                   /\ Twice("methods", d)'
                        = Twice("methods", d) \cup Dup(E) \cup (MethodsOf(out, d) \cap Range(E))
              /\ Unnamed(d)' = Unnamed(d)
  <2>1. Unnamed(d)' = Unnamed(d)
    BY DEF Unnamed, OutDir, CanUnexport
  <2>2. out[n].dir = k
    BY <1>1
  <2> QED
    BY <1>9, <2>1, <2>2, EmitOut, Views
<1>21. SetsInv'
  <2> SUFFICES ASSUME NEW d \in DOMAIN sets
               PROVE  /\ sets'[d].owned = NamesIn(d)'
                      /\ Twice("declared", d)' \subseteq sets'[d].conflicts
                      /\ sets'[d].conflicts \subseteq Twice("declared", d)' \cup Unnamed(d)'
    BY <1>14 DEF SetsInv
  <2>1. /\ sets[d].owned = NamesIn(d)
        /\ Twice("declared", d) \subseteq sets[d].conflicts
        /\ sets[d].conflicts \subseteq Twice("declared", d) \cup Unnamed(d)
    BY DEF IInv, SetsInv
  <2>2. CASE d = k
    <3>1. /\ NamesIn(d)' = NamesIn(d) \cup Range(D) /\ Unnamed(d)' = Unnamed(d)
          /\ Twice("declared", d)'
               = Twice("declared", d) \cup Dup(D) \cup (NamesIn(d) \cap Range(D))
      BY <1>20, <2>2
    <3>2. /\ sets'[d].owned = sets[d].owned \cup Range(D)
          /\ sets'[d].conflicts
               = sets[d].conflicts \cup Dup(D) \cup (sets[d].owned \cap Range(D))
      BY <1>15, <2>2
    <3> QED
      BY <2>1, <3>1, <3>2
  <2>3. CASE d # k
    BY <1>14, <1>20, <2>1, <2>3
  <2> QED
    BY <2>2, <2>3
<1>22. MethodsInv'
  <2>1. ASSUME NEW i \in DOMAIN out', NEW m \in Range(out'[i].methods)
        PROVE  m[1] \in Range(out'[i].declared)
    <3>1. \A x \in Range(out[i].methods) : x[1] \in Range(out[i].declared)
      BY <1>7 DEF IInv, MethodsInv
    <3>2. CASE i = n
      BY <1>2, <1>11, <2>1, <3>1, <3>2
    <3>3. CASE i # n
      BY <1>7, <2>1, <3>1, <3>3
    <3> QED
      BY <3>2, <3>3
  <2>2. ASSUME NEW d \in OutDirs, NEW m \in Twice("methods", d)'
        PROVE  m[1] \in Twice("declared", d)'
    <3>1. \A x \in Twice("methods", d) : x[1] \in Twice("declared", d)
      BY DEF IInv, MethodsInv
    <3>2. CASE d # k
      BY <1>20, <2>2, <3>1, <3>2
    <3>3. CASE d = k
      <4>1. CASE m \in Twice("methods", d)
        BY <1>20, <3>1, <3>3, <4>1
      <4>2. CASE m \in Dup(E)
        BY <1>2, <1>20, <3>3, <4>2
      <4>3. CASE m \in MethodsOf(out, d) /\ m \in Range(E)
        <5>1. PICK i \in DOMAIN out : out[i].dir = d /\ m \in Range(out[i].methods)
          BY <4>3, HeldIn
        <5>2. m[1] \in Range(out[i].declared)
          BY <5>1 DEF IInv, MethodsInv
        <5>3. m[1] \in NamesIn(d)
          BY <5>1, <5>2, HeldIn, Views
        <5>4. m[1] \in Range(D)
          BY <1>2, <4>3
        <5> QED
          BY <1>20, <3>3, <5>3, <5>4
      <4> QED
        BY <1>20, <2>2, <3>3, <4>1, <4>2, <4>3
    <3> QED
      BY <3>2, <3>3
  <2> QED
    BY <1>18, <2>1, <2>2 DEF MethodsInv
<1>23. TextInv'
  <2>1. ASSUME NEW i \in DOMAIN out'
        PROVE  out'[i].mentioned \subseteq Range(out'[i].declared) /\ "word" \notin out'[i].comments
    <3>1. out[i].mentioned \subseteq Range(out[i].declared) /\ "word" \notin out[i].comments
      BY <1>7 DEF IInv, TextInv
    <3>2. CASE i = n
      BY <1>2, <1>3, <1>8, <1>11, <3>1, <3>2
    <3>3. CASE i # n
      BY <1>7, <3>1, <3>3
    <3> QED
      BY <3>2, <3>3
  <2> QED
    BY <2>1 DEF TextInv
<1>24. EndInv'
  BY DEF IInv, EndInv, Running
<1> QED
  BY <1>16, <1>17, <1>19, <1>21, <1>22, <1>23, <1>24 DEF IInv

\* The invariant holds before the first option.
LEMMA InvInit == Init => IInv
<1> SUFFICES ASSUME Init PROVE IInv
  OBVIOUS
<1> USE DEF Init
<1>1. DOMAIN <<>> = {} /\ Range(<<>>) = {} /\ IsSeq(<<>>)
  <2>1. DOMAIN <<>> = {}
    OBVIOUS
  <2> QED
    BY <2>1, Short
<1>2. DOMAIN out = {} /\ DOMAIN sets = {} /\ Range(order) = {} /\ IsSeq(out) /\ IsSeq(order)
  BY <1>1
<1>3. OutDirs = {}
  BY <1>2 DEF OutDirs
<1>4. ShapeInv /\ DirsInv /\ SetsInv /\ TextInv /\ MethodsInv
  BY <1>2, <1>3 DEF ShapeInv, DirsInv, SetsInv, TextInv, MethodsInv
<1>5. PlaceInv
  BY DEF PlaceInv
<1>6. EndInv
  BY DEF EndInv
<1> QED
  BY <1>4, <1>5, <1>6 DEF IInv

\* Every step keeps it.
LEMMA InvStep == IInv /\ [Next]_vars => IInv'
<1> SUFFICES ASSUME IInv, [Next]_vars PROVE IInv'
  OBVIOUS
<1>1. CASE \E s \in Settings : SetOption(s[1], s[2])
  BY <1>1, OptionKeeps
<1>2. CASE Validate
  BY <1>2, ValidateKeeps
<1>3. CASE SkipFile
  BY <1>3, SkipKeeps
<1>4. CASE OpenFile
  BY <1>4, OpenKeeps
<1>5. CASE Service
  <2> DEFINE s == File.services[next]
  <2>1. Running /\ next > 0 /\ UNCHANGED <<cfg, given, request, order, report>>
    BY <1>5 DEF Service
  <2>2. \/ result' = "bad service" /\ UNCHANGED <<at, next, sets, out>>
        \/ ~BadService(s) /\ Emit(s) /\ Advance /\ UNCHANGED result
        \/ /\ ~CanUnexport(s)
           /\ sets' = [sets EXCEPT ![SetKey(File)].conflicts = @ \cup {s.name}]
           /\ Advance /\ UNCHANGED <<out, result>>
    BY <1>5 DEF Service
  <2>3. CASE result' = "bad service" /\ UNCHANGED <<at, next, sets, out>>
    BY <2>1, <2>3, BadKeeps
  <2>4. CASE ~BadService(s) /\ Emit(s) /\ Advance /\ UNCHANGED result
    BY <2>1, <2>4, EmitKeeps
  <2>5. CASE /\ ~CanUnexport(s)
             /\ sets' = [sets EXCEPT ![SetKey(File)].conflicts = @ \cup {s.name}]
             /\ Advance /\ UNCHANGED <<out, result>>
    BY <2>1, <2>5, UnnamedKeeps
  <2> QED
    BY <2>2, <2>3, <2>4, <2>5
<1>6. CASE Report
  BY <1>6, ReportKeeps
<1>7. CASE UNCHANGED vars
  <2>1. FilesInv'
    BY <1>7, SameFiles DEF IInv, FilesInv, vars
  <2>2. PlaceInv'
    BY <1>7 DEF IInv, PlaceInv, File, SetKey, OutDir, vars
  <2>3. EndInv'
    BY <1>7 DEF IInv, EndInv, Reported, vars
  <2> QED
    BY <2>1, <2>2, <2>3 DEF IInv, FilesInv
<1> QED
  BY <1>1, <1>2, <1>3, <1>4, <1>5, <1>6, <1>7 DEF Next

-----------------------------------------------------------------------------
(* The theorems.                                                           *)

\* The nameset of an output directory is what its files declare, however many
\* files and services come to it (generateFile, gen.go:99-104; claim,
\* names.go:38-46).
THEOREM GeneratorInvariance == Spec => []IInv
<1>1. Init => IInv
  BY InvInit
<1>2. IInv /\ [Next]_vars => IInv'
  BY InvStep
<1> QED
  BY <1>1, <1>2, PTL DEF Spec

\* What is reported is what the namesets of the output directories hold.
LEMMA ReportedIs ==
  ASSUME IInv
  PROVE  /\ \A e \in Reported : e[1] \in OutDirs /\ e[2] \in sets[e[1]].conflicts
         /\ \A k \in OutDirs : \A x \in sets[k].conflicts : <<k, x>> \in Reported
  BY DEF IInv, DirsInv, Reported

\* A run that succeeds wrote packages that build: in no output directory is a
\* name or a method declared twice or a name missing (Run, gen.go:64-78).
THEOREM AcceptedRunsBuild == Spec => []AcceptedBuilds
<1>1. ASSUME IInv PROVE AcceptedBuilds
  <2> SUFFICES ASSUME result = "ok", NEW dir \in OutDirs PROVE Builds(dir)
    BY DEF AcceptedBuilds
  <2>1. sets[dir].conflicts = {} /\ Twice("declared", dir) \subseteq sets[dir].conflicts
    BY <1>1, ReportedIs DEF IInv, EndInv, SetsInv, DirsInv
  <2>2. Twice("declared", dir) = {} /\ Twice("methods", dir) = {}
    BY <1>1, <2>1 DEF IInv, MethodsInv
  <2>3. ASSUME NEW i \in DOMAIN out, out[i].dir = dir
        PROVE  /\ out[i].mentioned \subseteq
                    {out[p[1]].declared[p[2]] : p \in Places("declared", dir)}
               /\ "word" \notin out[i].comments
    <3>1. out[i].mentioned \subseteq Range(out[i].declared) /\ "word" \notin out[i].comments
      BY <1>1 DEF IInv, TextInv
    <3>2. ASSUME NEW x \in Range(out[i].declared)
          PROVE  x \in {out[p[1]].declared[p[2]] : p \in Places("declared", dir)}
      <4>1. PICK j \in DOMAIN out[i].declared : x = out[i].declared[j]
        BY DEF Range
      <4>2. <<i, j>> \in Places("declared", dir)
        BY <2>3 DEF Places
      <4> DEFINE p == <<i, j>>
      <4>3. p[1] = i /\ p[2] = j
        OBVIOUS
      <4> HIDE DEF p
      <4> QED
        BY <4>1, <4>2, <4>3 DEF p
    <3> QED
      BY <3>1, <3>2
  <2> QED
    BY <2>2, <2>3 DEF Builds
<1> QED
  BY <1>1, GeneratorInvariance, PTL

\* No false alarm: what a run reports is declared twice in the directory it is
\* reported for, or cannot be named (gen.go:28-34).
THEOREM RefusedRunsAreBroken == Spec => []RefusedIsBroken
<1>1. ASSUME IInv PROVE RefusedIsBroken
  <2> SUFFICES ASSUME NEW e \in report
               PROVE  /\ e[1] \in OutDirs
                      /\ e[2] \in Twice("declared", e[1]) \cup Unnamed(e[1])
    BY DEF RefusedIsBroken
  <2>1. e \in Reported
    BY <1>1 DEF IInv, EndInv
  <2>2. e[1] \in OutDirs /\ e[2] \in sets[e[1]].conflicts
    BY <1>1, <2>1, ReportedIs
  <2> QED
    BY <1>1, <2>2 DEF IInv, DirsInv, SetsInv
<1> QED
  BY <1>1, GeneratorInvariance, PTL

\* One run names every collision of every package (gen.go:64-78).
THEOREM AllCollisionsNamed == Spec => []EveryCollisionNamed
<1>1. ASSUME IInv PROVE EveryCollisionNamed
  <2> SUFFICES ASSUME result = "collisions", NEW dir \in OutDirs,
                      NEW x \in Twice("declared", dir)
               PROVE  <<dir, x>> \in report
    BY DEF EveryCollisionNamed
  <2>1. x \in sets[dir].conflicts
    BY <1>1 DEF IInv, DirsInv, SetsInv
  <2> QED
    BY <1>1, <2>1, ReportedIs DEF IInv, EndInv
<1> QED
  BY <1>1, GeneratorInvariance, PTL
=============================================================================
