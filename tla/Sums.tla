-------------------------------- MODULE Sums --------------------------------
(***************************************************************************)
(* The sum of a function over a finite set, as FoldFunction computes it:   *)
(* an element is picked and added to the sum over the others.  It does not *)
(* matter which, sums add up, and the order of two sums does not matter.   *)
(***************************************************************************)
EXTENDS Naturals, Functions, FiniteSetTheorems, LeastElement, TLAPS

Pick(T) == CHOOSE x \in T : TRUE

\* g holds the sums of f over the sets of D.
Runs(f, D, g) == g = [T \in D |-> IF T = {} THEN 0 ELSE f[Pick(T)] + g[T \ {Pick(T)}]]

SumOver(f, S) == (CHOOSE g : Runs(f, SUBSET S, g))[S]

\* What FoldFunction computes.
LEMMA FoldIsSum ==
  ASSUME NEW f
  PROVE  FoldFunction(+, 0, f) = SumOver(f, DOMAIN f)
  BY DEF FoldFunction, FoldFunctionOnSet, MapThenFoldSet, SumOver, Runs, Pick

\* Among sets of elements of a finite set, one has no smaller one below it.
LEMMA Smallest ==
  ASSUME NEW S, IsFiniteSet(S), NEW B \in SUBSET SUBSET S, B # {}
  PROVE  \E T \in B : \A U \in SUBSET T : U # T => U \notin B
<1> DEFINE N == {Cardinality(T) : T \in B}
<1>1. \A T \in SUBSET S : IsFiniteSet(T) /\ Cardinality(T) \in Nat
  BY FS_Subset, FS_CardinalityType
<1>2. N \subseteq Nat /\ N # {}
  BY <1>1
<1>3. PICK n \in N : \A m \in N : n <= m
  <2> HIDE DEF N
  <2> QED
    BY <1>2, Least
<1>4. PICK T \in B : Cardinality(T) = n
  OBVIOUS
<1>5. ASSUME NEW U \in SUBSET T, U # T, U \in B PROVE FALSE
  <2>1. IsFiniteSet(T)
    BY <1>1
  <2>2. Cardinality(U) <= Cardinality(T) /\ Cardinality(U) # Cardinality(T)
    BY <1>5, <2>1, FS_Subset
  <2>3. Cardinality(U) \in N /\ Cardinality(U) \in Nat /\ Cardinality(T) \in Nat
    BY <1>1, <1>5
  <2>4. Cardinality(T) <= Cardinality(U)
    BY <1>3, <1>4, <2>3
  <2> QED
    BY <2>2, <2>3, <2>4
<1> QED
  BY <1>5

\* The sum adds the picked element to the sum over the others.
Adds(f, U) == SumOver(f, U) = IF U = {} THEN 0 ELSE f[Pick(U)] + SumOver(f, U \ {Pick(U)})

\* So does every sum over fewer elements.
Below(f, T) == \A U \in SUBSET T : U # T => Adds(f, U)

\* Sums that are held somewhere are the sums.
LEMMA HeldSums ==
  ASSUME NEW f, NEW T, IsFiniteSet(T), Below(f, T),
         NEW g, Runs(f, SUBSET T, g)
  PROVE  \A U \in SUBSET T : U # T => g[U] = SumOver(f, U)
<1> DEFINE B == {U \in SUBSET T : U # T /\ g[U] # SumOver(f, U)}
<1> SUFFICES ASSUME B # {} PROVE FALSE
  OBVIOUS
<1>1. PICK U \in B : \A V \in SUBSET U : V # U => V \notin B
  <2>1. B \in SUBSET SUBSET T
    OBVIOUS
  <2> HIDE DEF B
  <2> QED
    BY <2>1, Smallest
<1>2. g[U] = IF U = {} THEN 0 ELSE f[Pick(U)] + g[U \ {Pick(U)}]
  BY DEF Runs
<1>3. Adds(f, U)
  BY <1>1 DEF Below
<1>4. U # {}
  BY <1>1, <1>2, <1>3 DEF Adds
<1> DEFINE V == U \ {Pick(U)}
<1>5. V \in SUBSET U /\ V # U /\ V \in SUBSET T /\ V # T
  BY <1>1, <1>4 DEF Pick
<1>6. g[V] = SumOver(f, V)
  BY <1>1, <1>5
<1>7. g[U] = f[Pick(U)] + g[V]
  BY <1>2, <1>4
<1>8. SumOver(f, U) = f[Pick(U)] + SumOver(f, V)
  BY <1>3, <1>4 DEF Adds
<1> HIDE DEF V
<1>9. g[U] # SumOver(f, U)
  BY <1>1
<1> QED
  BY <1>6, <1>7, <1>8, <1>9

\* The sum over every subset of a finite set can be computed.
LEMMA SumAdds ==
  ASSUME NEW f, NEW S, IsFiniteSet(S)
  PROVE  Adds(f, S)
<1> DEFINE B == {T \in SUBSET S : ~Adds(f, T)}
<1> SUFFICES ASSUME B # {} PROVE FALSE
  OBVIOUS
<1>1. PICK T \in B : \A U \in SUBSET T : U # T => U \notin B
  <2>1. B \in SUBSET SUBSET S
    OBVIOUS
  <2> HIDE DEF B
  <2> QED
    BY <2>1, Smallest
<1>2. IsFiniteSet(T) /\ Below(f, T)
  BY <1>1, FS_Subset DEF Below
<1> DEFINE x == Pick(T)
           h == [U \in SUBSET T |->
                   IF U = T THEN (IF T = {} THEN 0 ELSE f[x] + SumOver(f, T \ {x}))
                   ELSE SumOver(f, U)]
<1>3. T # {} => x \in T /\ T \ {x} # T /\ T \ {x} \in SUBSET T
  BY DEF Pick
<1>4. ASSUME NEW U \in SUBSET T
      PROVE  h[U] = IF U = {} THEN 0 ELSE f[Pick(U)] + h[U \ {Pick(U)}]
  <2>1. CASE U = T
    BY <1>3, <2>1
  <2>2. CASE U # T
    <3>1. U # {} => U \ {Pick(U)} \in SUBSET T /\ U \ {Pick(U)} # T
      BY DEF Pick
    <3>2. h[U] = SumOver(f, U) /\ (U # {} => h[U \ {Pick(U)}] = SumOver(f, U \ {Pick(U)}))
      BY <2>2, <3>1
    <3> HIDE DEF h
    <3> QED
      BY <1>2, <2>2, <3>2 DEF Adds, Below
  <2> QED
    BY <2>1, <2>2
<1>5. Runs(f, SUBSET T, h)
  <2>1. h = [U \in SUBSET T |-> h[U]]
    OBVIOUS
  <2> HIDE DEF h
  <2>2. [U \in SUBSET T |-> h[U]]
          = [U \in SUBSET T |-> IF U = {} THEN 0 ELSE f[Pick(U)] + h[U \ {Pick(U)}]]
    BY <1>4
  <2> QED
    BY <2>1, <2>2 DEF Runs
<1> HIDE DEF h
<1> DEFINE g == CHOOSE y : Runs(f, SUBSET T, y)
<1>6. Runs(f, SUBSET T, g)
  BY <1>5
<1>7. SumOver(f, T) = g[T]
  BY DEF SumOver
<1> HIDE DEF g
<1>8. g[T] = IF T = {} THEN 0 ELSE f[x] + g[T \ {x}]
  BY <1>6 DEF Runs
<1>9. T # {} => g[T \ {x}] = SumOver(f, T \ {x})
  <2>1. \A U \in SUBSET T : U # T => g[U] = SumOver(f, U)
    BY <1>2, <1>6, HeldSums
  <2> QED
    BY <1>3, <2>1
<1>10. Adds(f, T)
  BY <1>7, <1>8, <1>9 DEF Adds
<1> QED
  BY <1>1, <1>10

\* The empty sum.
LEMMA SumEmpty ==
  ASSUME NEW f
  PROVE  SumOver(f, {}) = 0
  BY SumAdds, FS_EmptySet DEF Adds

\* The sum of natural numbers, with the picked element apart.
LEMMA SumStep ==
  ASSUME NEW f, NEW T, IsFiniteSet(T), T # {}
  PROVE  /\ Pick(T) \in T /\ T \ {Pick(T)} \in SUBSET T /\ T \ {Pick(T)} # T
         /\ SumOver(f, T) = f[Pick(T)] + SumOver(f, T \ {Pick(T)})
<1>1. Pick(T) \in T
  BY DEF Pick
<1> QED
  BY <1>1, SumAdds DEF Adds

\* It is a natural number.
LEMMA SumNat ==
  ASSUME NEW f, NEW S, IsFiniteSet(S), \A x \in S : f[x] \in Nat
  PROVE  SumOver(f, S) \in Nat
<1> DEFINE B == {T \in SUBSET S : SumOver(f, T) \notin Nat}
<1> SUFFICES ASSUME B # {} PROVE FALSE
  OBVIOUS
<1>1. PICK T \in B : \A U \in SUBSET T : U # T => U \notin B
  <2>1. B \in SUBSET SUBSET S
    OBVIOUS
  <2> HIDE DEF B
  <2> QED
    BY <2>1, Smallest
<1>2. T # {}
  <2>1. SumOver(f, {}) \in Nat
    <3>1. SumOver(f, {}) = 0
      BY SumEmpty
    <3> QED
      BY <3>1
  <2> QED
    BY <1>1, <2>1
<1>3. IsFiniteSet(T)
  BY <1>1, FS_Subset
<1> DEFINE x == Pick(T)
           V == T \ {x}
<1>4. x \in T /\ V \in SUBSET T /\ V # T /\ SumOver(f, T) = f[x] + SumOver(f, V)
  BY <1>2, <1>3, SumStep
<1> HIDE DEF x
<1>5. SumOver(f, V) \in Nat
  BY <1>1, <1>4
<1>6. f[x] \in Nat
  BY <1>1, <1>4
<1>7. SumOver(f, T) \in Nat
  BY <1>4, <1>5, <1>6
<1> QED
  BY <1>1, <1>7

\* Every element may be taken first.
LEMMA SumTake ==
  ASSUME NEW f, NEW S, IsFiniteSet(S), \A x \in S : f[x] \in Nat, NEW a \in S
  PROVE  SumOver(f, S) = f[a] + SumOver(f, S \ {a})
<1> DEFINE Free(T) == \A b \in T : SumOver(f, T) = f[b] + SumOver(f, T \ {b})
           B == {T \in SUBSET S : ~Free(T)}
<1> SUFFICES ASSUME B # {} PROVE FALSE
  OBVIOUS
<1>1. PICK T \in B : \A U \in SUBSET T : U # T => U \notin B
  <2>1. B \in SUBSET SUBSET S
    OBVIOUS
  <2> HIDE DEF B
  <2> QED
    BY <2>1, Smallest
<1>2. PICK b \in T : SumOver(f, T) # f[b] + SumOver(f, T \ {b})
  BY <1>1
<1>3. IsFiniteSet(T) /\ T # {} /\ T \subseteq S
  BY <1>1, <1>2, FS_Subset
<1> DEFINE x == Pick(T)
<1>4. x \in T /\ SumOver(f, T) = f[x] + SumOver(f, T \ {x})
  BY <1>3, SumStep
<1> HIDE DEF x
<1>5. x # b
  BY <1>2, <1>4
<1>6. \A y \in T : T \ {y} \in SUBSET S /\ T \ {y} \in SUBSET T /\ T \ {y} # T
  BY <1>3
<1>7. \A y \in T : Free(T \ {y})
  BY <1>1, <1>6
<1>8. SumOver(f, T \ {x}) = f[b] + SumOver(f, (T \ {x}) \ {b})
  <2>1. b \in T \ {x}
    BY <1>5
  <2> QED
    BY <1>4, <1>7, <2>1
<1>9. SumOver(f, T \ {b}) = f[x] + SumOver(f, (T \ {b}) \ {x})
  <2>1. x \in T \ {b}
    BY <1>4, <1>5
  <2> QED
    BY <1>7, <2>1
<1> DEFINE r == SumOver(f, (T \ {x}) \ {b})
<1>10. (T \ {x}) \ {b} = (T \ {b}) \ {x}
  OBVIOUS
<1>11. f[x] \in Nat /\ f[b] \in Nat /\ r \in Nat
  <2>1. f[x] \in Nat /\ f[b] \in Nat
    BY <1>3, <1>4
  <2> DEFINE W == (T \ {x}) \ {b}
  <2>2. W \in SUBSET S
    BY <1>3
  <2>3. IsFiniteSet(W) /\ \A y \in W : f[y] \in Nat
    BY <2>2, FS_Subset
  <2> HIDE DEF W
  <2>4. SumOver(f, W) \in Nat
    BY <2>3, SumNat
  <2> QED
    BY <2>1, <2>4 DEF W
<1>12. SumOver(f, T) = f[x] + (f[b] + r) /\ SumOver(f, T \ {b}) = f[x] + r
  BY <1>4, <1>8, <1>9, <1>10
<1> HIDE DEF r
<1>13. SumOver(f, T) = f[b] + SumOver(f, T \ {b})
  BY <1>11, <1>12
<1> QED
  BY <1>2, <1>13

\* The sum of sums is the sum of the sums; in particular equal functions have
\* equal sums (g zero).
LEMMA SumPlus ==
  ASSUME NEW f, NEW g, NEW h, NEW S, IsFiniteSet(S),
         \A x \in S : f[x] \in Nat /\ g[x] \in Nat /\ h[x] = f[x] + g[x]
  PROVE  SumOver(h, S) = SumOver(f, S) + SumOver(g, S)
<1> DEFINE B == {T \in SUBSET S : SumOver(h, T) # SumOver(f, T) + SumOver(g, T)}
<1> SUFFICES ASSUME B # {} PROVE FALSE
  OBVIOUS
<1>1. PICK T \in B : \A U \in SUBSET T : U # T => U \notin B
  <2>1. B \in SUBSET SUBSET S
    OBVIOUS
  <2> HIDE DEF B
  <2> QED
    BY <2>1, Smallest
<1>2. T # {}
  <2>1. SumOver(f, {}) = 0 /\ SumOver(g, {}) = 0 /\ SumOver(h, {}) = 0
    BY SumEmpty
  <2>2. SumOver(h, {}) = SumOver(f, {}) + SumOver(g, {})
    BY <2>1
  <2> QED
    BY <1>1, <2>2
<1>3. IsFiniteSet(T) /\ T \subseteq S
  BY <1>1, FS_Subset
<1> DEFINE x == Pick(T)
           V == T \ {x}
<1>4. /\ x \in T /\ V \in SUBSET T /\ V # T
      /\ SumOver(f, T) = f[x] + SumOver(f, V)
      /\ SumOver(g, T) = g[x] + SumOver(g, V)
      /\ SumOver(h, T) = h[x] + SumOver(h, V)
  BY <1>2, <1>3, SumStep
<1> HIDE DEF x
<1>5. V \in SUBSET S /\ IsFiniteSet(V)
  BY <1>3, FS_Subset
<1>6. SumOver(f, V) \in Nat /\ SumOver(g, V) \in Nat
  <2>1. \A y \in V : f[y] \in Nat /\ g[y] \in Nat
    BY <1>5
  <2> HIDE DEF V
  <2> QED
    BY <1>5, <2>1, SumNat
<1>7. SumOver(h, V) = SumOver(f, V) + SumOver(g, V)
  BY <1>1, <1>4, <1>5
<1>8. f[x] \in Nat /\ g[x] \in Nat /\ h[x] = f[x] + g[x]
  BY <1>3, <1>4
<1> HIDE DEF V
<1>9. SumOver(h, T) = SumOver(f, T) + SumOver(g, T)
  BY <1>4, <1>6, <1>7, <1>8
<1> QED
  BY <1>1, <1>9

\* A sum of nothing but zeros.
LEMMA SumZero ==
  ASSUME NEW f, NEW S, IsFiniteSet(S), \A x \in S : f[x] = 0
  PROVE  SumOver(f, S) = 0
<1>1. SumOver(f, S) \in Nat
  BY SumNat
<1>2. SumOver(f, S) = SumOver(f, S) + SumOver(f, S)
  <2>1. \A x \in S : f[x] \in Nat /\ f[x] \in Nat /\ f[x] = f[x] + f[x]
    OBVIOUS
  <2> QED
    BY <2>1, SumPlus
<1>3. \A n \in Nat : n = n + n => n = 0
  OBVIOUS
<1> QED
  BY <1>1, <1>2, <1>3

\* Equal summands, equal sums.
LEMMA SumSame ==
  ASSUME NEW f, NEW h, NEW S, IsFiniteSet(S), \A x \in S : f[x] \in Nat /\ h[x] = f[x]
  PROVE  SumOver(h, S) = SumOver(f, S)
<1> DEFINE z == [x \in S |-> 0]
<1>1. SumOver(z, S) = 0
  BY SumZero
<1>2. \A x \in S : f[x] \in Nat /\ z[x] \in Nat /\ h[x] = f[x] + z[x]
  OBVIOUS
<1> HIDE DEF z
<1>3. SumOver(h, S) = SumOver(f, S) + SumOver(z, S)
  BY <1>2, SumPlus
<1>4. SumOver(f, S) \in Nat
  BY SumNat
<1> QED
  BY <1>1, <1>3, <1>4

\* h is f with one more at a.
OneMore(f, h, S, a) == h[a] = f[a] + 1 /\ \A x \in S \ {a} : h[x] = f[x]

\* One summand more by one, the sum more by one.
LEMMA SumOneMore ==
  ASSUME NEW f, NEW h, NEW S, IsFiniteSet(S), NEW a \in S, \A x \in S : f[x] \in Nat,
         OneMore(f, h, S, a)
  PROVE  SumOver(h, S) = SumOver(f, S) + 1
<1> USE DEF OneMore
<1> DEFINE V == S \ {a}
<1>1. V \in SUBSET S /\ IsFiniteSet(V) /\ \A x \in V : f[x] \in Nat /\ h[x] = f[x]
  BY FS_Subset
<1>2. \A x \in S : h[x] \in Nat
  OBVIOUS
<1>3. SumOver(f, S) = f[a] + SumOver(f, V) /\ SumOver(h, S) = h[a] + SumOver(h, V)
  BY <1>2, SumTake
<1> HIDE DEF V
<1>4. SumOver(h, V) = SumOver(f, V) /\ SumOver(f, V) \in Nat
  BY <1>1, SumSame, SumNat
<1>5. f[a] \in Nat
  OBVIOUS
<1> QED
  BY <1>3, <1>4, <1>5

\* The rows of a table and its columns have one total.
LEMMA SumSwap ==
  ASSUME NEW R, NEW C, IsFiniteSet(R), IsFiniteSet(C), NEW t,
         \A r \in R : \A c \in C : t[r][c] \in Nat
  PROVE  SumOver([c \in C |-> SumOver([r \in R |-> t[r][c]], R)], C)
           = SumOver([r \in R |-> SumOver(t[r], C)], R)
<1> DEFINE col(c) == [r \in R |-> t[r][c]]
           cols(W) == [c \in C |-> SumOver(col(c), W)]
           rows == [r \in R |-> SumOver(t[r], C)]
           B == {W \in SUBSET R : SumOver(cols(W), C) # SumOver(rows, W)}
<1> SUFFICES ASSUME B # {} PROVE FALSE
  <2>1. B = {} => SumOver(cols(R), C) = SumOver(rows, R)
    OBVIOUS
  <2> QED
    BY <2>1
<1>1. PICK W \in B : \A U \in SUBSET W : U # W => U \notin B
  <2>1. B \in SUBSET SUBSET R
    OBVIOUS
  <2> HIDE DEF B
  <2> QED
    BY <2>1, Smallest
<1>2. IsFiniteSet(W) /\ W \in SUBSET R
  BY <1>1, FS_Subset
<1>3. W # {}
  <2>1. \A c \in C : SumOver(col(c), {}) = 0
    BY SumEmpty
  <2>2. \A c \in C : cols({})[c] = 0
    BY <2>1
  <2>3. SumOver(cols({}), C) = 0
    BY <2>2, SumZero
  <2>4. SumOver(rows, {}) = 0
    BY SumEmpty
  <2> QED
    BY <1>1, <2>3, <2>4
<1> DEFINE x == Pick(W)
           V == W \ {x}
<1>4. x \in W /\ x \in R /\ V \in SUBSET W /\ V # W /\ V \in SUBSET R /\ IsFiniteSet(V)
  <2>1. x \in W /\ V \in SUBSET W /\ V # W
    BY <1>2, <1>3, SumStep
  <2> HIDE DEF x
  <2> QED
    BY <1>2, <2>1, FS_Subset
<1>5. SumOver(rows, W) = SumOver(t[x], C) + SumOver(rows, V)
  <2>1. SumOver(rows, W) = rows[x] + SumOver(rows, V)
    BY <1>2, <1>3, SumStep
  <2> HIDE DEF x
  <2>2. rows[x] = SumOver(t[x], C)
    BY <1>4
  <2> HIDE DEF V, rows
  <2> QED
    BY <2>1, <2>2
<1>6. ASSUME NEW c \in C
      PROVE  /\ t[x][c] \in Nat /\ cols(V)[c] \in Nat
             /\ cols(W)[c] = t[x][c] + cols(V)[c]
  <2>1. SumOver(col(c), W) = col(c)[x] + SumOver(col(c), V)
    BY <1>2, <1>3, SumStep
  <2> HIDE DEF x
  <2>2. col(c)[x] = t[x][c] /\ t[x][c] \in Nat
    BY <1>4
  <2>3. \A r \in V : col(c)[r] \in Nat
    BY <1>4
  <2> HIDE DEF V, col
  <2>4. SumOver(col(c), V) \in Nat
    BY <1>4, <2>3, SumNat
  <2>5. cols(V)[c] = SumOver(col(c), V) /\ cols(W)[c] = SumOver(col(c), W)
    OBVIOUS
  <2> HIDE DEF cols
  <2> QED
    BY <2>1, <2>2, <2>4, <2>5
<1> HIDE DEF x, V, cols, rows
<1>7. SumOver(cols(W), C) = SumOver(t[x], C) + SumOver(cols(V), C)
  BY <1>6, SumPlus
<1>8. SumOver(cols(V), C) = SumOver(rows, V)
  BY <1>1, <1>4
<1>9. SumOver(cols(W), C) = SumOver(rows, W)
  BY <1>5, <1>7, <1>8
<1> QED
  BY <1>1, <1>9
=============================================================================
