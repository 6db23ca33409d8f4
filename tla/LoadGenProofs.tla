---------------------------- MODULE LoadGenProofs ---------------------------
(***************************************************************************)
(* Proofs about LoadGen: what is sent is the request, what is filed under  *)
(* OK is the server's answer, and the server's own diagnosis wins.  First  *)
(* the codec's and StatusOf's operators, then the users' steps.            *)
(***************************************************************************)
EXTENDS LoadGen, SequenceTheorems, Sums, TLAPS

-----------------------------------------------------------------------------
(* Encoding and parsing.                                                   *)

\* The repeated field, encoded.
Items(m) == [i \in DOMAIN m.items |-> [field |-> "item", value |-> m.items[i]]]

\* One cell for each item, and every cell is one that a scratch may hold.
LEMMA ItemsAre ==
  ASSUME NEW m \in Messages \cup Replies
  PROVE  /\ m.items \in Seq(Data) /\ Items(m) \in Seq(Cells)
         /\ Len(Items(m)) = Len(m.items)
         /\ \A i \in 1..Len(m.items) :
              Items(m)[i].field = "item" /\ Items(m)[i].value = m.items[i]
<1>1. m.items \in Seq(Range(m.items)) /\ Range(m.items) \subseteq Data
  BY LoadGenAssumption DEF Data
<1>2. m.items \in Seq(Data)
  BY <1>1, SeqMonotonic
<1>3. Len(m.items) \in Nat /\ DOMAIN m.items = 1..Len(m.items)
      /\ \A i \in 1..Len(m.items) : m.items[i] \in Data
  BY <1>2, LenProperties, ElementOfSeq
<1>4. Items(m) \in [1..Len(m.items) -> Cells]
  BY <1>3 DEF Items, Cells
<1>5. Items(m) \in Seq(Cells) /\ Len(Items(m)) = Len(m.items)
  BY <1>3, <1>4
<1> QED
  BY <1>2, <1>3, <1>5 DEF Items

\* The encoding: the items, after the scalar if there is one.
LEMMA EncodeIs ==
  ASSUME NEW m \in Messages \cup Replies
  PROVE  /\ Encode(m) \in Seq(Cells) /\ Len(Encode(m)) \in Nat
         /\ m.scalar = Absent => Encode(m) = Items(m)
         /\ m.scalar # Absent =>
              Encode(m) = <<[field |-> "scalar", value |-> m.scalar]>> \o Items(m)
<1> DEFINE x == [field |-> "scalar", value |-> m.scalar]
<1>1. Encode(m) = (IF m.scalar = Absent THEN <<>> ELSE <<x>>) \o Items(m)
  BY DEF Encode, Items
<1>2. Items(m) \in Seq(Cells)
  BY ItemsAre
<1>3. x \in Cells
  BY DEF Cells, Data
<1>4. <<x>> \in Seq(Cells)
  BY <1>3
<1>5. m.scalar = Absent => Encode(m) = Items(m)
  BY <1>1, <1>2, ConcatEmptySeq
<1>6. m.scalar # Absent => Encode(m) = <<x>> \o Items(m)
  BY <1>1
<1> HIDE DEF x
<1>7. <<x>> \o Items(m) \in Seq(Cells)
  BY <1>2, <1>4, ConcatProperties
<1>8. Encode(m) \in Seq(Cells)
  BY <1>2, <1>5, <1>6, <1>7
<1> QED
  BY <1>5, <1>6, <1>8, LenProperties DEF x

\* Parsing an encoding into a reset message gives the message back: no field is
\* lost, none is left from before.
LEMMA ParsedIsSent ==
  ASSUME NEW m \in Replies
  PROVE  Encode(MergeInto(ZeroMessage, Encode(m))) = Encode(m)
<1> DEFINE w == Encode(m)
           x == [field |-> "scalar", value |-> m.scalar]
           E == Items(m)
           present == w # <<>> /\ w[1].field = "scalar"
           items == IF present THEN Tail(w) ELSE w
<1>0. /\ m.items \in Seq(Data) /\ E \in Seq(Cells) /\ Len(E) = Len(m.items)
      /\ \A i \in 1..Len(m.items) : E[i].field = "item" /\ E[i].value = m.items[i]
  BY ItemsAre
<1>1. Len(m.items) \in Nat /\ DOMAIN m.items = 1..Len(m.items) /\ DOMAIN E = 1..Len(m.items)
  BY <1>0, LenProperties
<1>2. /\ w \in Seq(Cells)
      /\ m.scalar = Absent => w = E
      /\ m.scalar # Absent => w = <<x>> \o E
  BY EncodeIs
<1> HIDE DEF E, w
<1>3. items = E /\ present = (m.scalar # Absent) /\ (present => w[1].value = m.scalar)
  <2>1. CASE m.scalar = Absent
    <3>1. w = E
      BY <1>2, <2>1
    <3>2. E # <<>> => E[1].field = "item"
      <4>1. E # <<>> => 1 \in 1..Len(m.items)
        BY <1>0, <1>1, EmptySeq
      <4> QED
        BY <1>0, <4>1
    <3> QED
      BY <2>1, <3>1, <3>2
  <2>2. CASE m.scalar # Absent
    <3>1. w = <<x>> \o E
      BY <1>2, <2>2
    <3>2. x \in Cells
      BY DEF Cells, Data
    <3> HIDE DEF x
    <3>3. w[1] = x /\ w # <<>> /\ Tail(w) = E
      BY <1>0, <3>1, <3>2
    <3> QED
      BY <2>2, <3>3 DEF x
  <2> QED
    BY <2>1, <2>2
<1>4. [i \in DOMAIN E |-> E[i].value] = m.items
  <2>1. \A i \in 1..Len(m.items) : E[i].value = m.items[i]
    BY <1>0
  <2>2. m.items = [i \in 1..Len(m.items) |-> m.items[i]]
    BY <1>0, <1>1
  <2> QED
    BY <1>1, <2>1, <2>2
<1>5. <<>> \o m.items = m.items
  BY <1>0, ConcatEmptySeq
<1>6. MergeInto(ZeroMessage, w) =
        [scalar |-> IF present THEN w[1].value ELSE Absent,
         items |-> <<>> \o [i \in DOMAIN items |-> items[i].value]]
  BY DEF MergeInto, ZeroMessage
<1>7. MergeInto(ZeroMessage, w) = [scalar |-> m.scalar, items |-> m.items]
  BY <1>3, <1>4, <1>5, <1>6
<1>8. m = [scalar |-> m.scalar, items |-> m.items]
  BY LoadGenAssumption
<1> QED
  BY <1>7, <1>8 DEF w

\* slices.Grow makes room.
LEMMA GrowIs ==
  ASSUME NEW a \in Seq(Cells), NEW n \in Nat
  PROVE  Grow(a, n) \in Seq(Cells) /\ n <= Len(Grow(a, n))
<1>1. Len(a) \in Nat /\ [field |-> "blank"] \in Cells
  BY LenProperties DEF Cells
<1>2. CASE Len(a) >= n
  BY <1>1, <1>2 DEF Grow
<1>3. CASE ~(Len(a) >= n)
  <2>1. Grow(a, n) = [i \in 1..n |-> [field |-> "blank"]]
    BY <1>3 DEF Grow
  <2>2. Grow(a, n) \in Seq(Cells) /\ Len(Grow(a, n)) = n
    BY <1>1, <2>1
  <2> QED
    BY <2>2
<1> QED
  BY <1>2, <1>3

\* Filling from the end keeps the array's size, and fills all of a buffer that
\* is as long as the encoding.
LEMMA FillIs ==
  ASSUME NEW a \in Seq(Cells), NEW n \in Nat, n <= Len(a), NEW w \in Seq(Cells)
  PROVE  /\ FillFromEnd(a, n, w) \in Seq(Cells) /\ Len(FillFromEnd(a, n, w)) = Len(a)
         /\ Len(w) = n => SubSeq(FillFromEnd(a, n, w), 1, n) = w
<1> DEFINE f == FillFromEnd(a, n, w)
<1>1. /\ Len(a) \in Nat /\ Len(w) \in Nat /\ DOMAIN a = 1..Len(a)
      /\ \A i \in 1..Len(a) : a[i] \in Cells
      /\ \A i \in 1..Len(w) : w[i] \in Cells
  BY LenProperties, ElementOfSeq
<1>2. f = [i \in 1..Len(a) |->
             IF i <= n /\ i > n - Len(w) THEN w[i - (n - Len(w))] ELSE a[i]]
  BY <1>1 DEF FillFromEnd
<1> HIDE DEF f
<1>3. ASSUME NEW i \in 1..Len(a) PROVE f[i] \in Cells
  <2>1. CASE i <= n /\ i > n - Len(w)
    <3>1. i - (n - Len(w)) \in 1..Len(w)
      BY <1>1, <2>1
    <3> QED
      BY <1>1, <1>2, <2>1, <3>1
  <2>2. CASE ~(i <= n /\ i > n - Len(w))
    BY <1>1, <1>2, <2>2
  <2> QED
    BY <2>1, <2>2
<1>4. f \in [1..Len(a) -> Cells]
  BY <1>2, <1>3
<1>5. f \in Seq(Cells) /\ Len(f) = Len(a)
  BY <1>1, <1>4
<1>6. ASSUME Len(w) = n PROVE SubSeq(f, 1, n) = w
  <2>1. \A i \in 1..n : f[i] = w[i]
    <3> SUFFICES ASSUME NEW i \in 1..n PROVE f[i] = w[i]
      OBVIOUS
    <3>1. i \in 1..Len(a) /\ i <= n /\ i > n - Len(w) /\ i - (n - Len(w)) = i
      BY <1>1, <1>6
    <3> QED
      BY <1>2, <3>1
  <2>2. \A i \in 1..n : f[i] \in Cells
    BY <1>1, <1>3
  <2>3. /\ SubSeq(f, 1, n) \in Seq(Cells) /\ Len(SubSeq(f, 1, n)) = n
        /\ \A i \in 1..n : SubSeq(f, 1, n)[i] = f[i]
    BY <1>5, <2>2, SubSeqProperties
  <2> QED
    BY <1>6, <2>1, <2>3, SeqEqual
<1> QED
  BY <1>5, <1>6 DEF f

-----------------------------------------------------------------------------
(* The classification of errors.                                           *)

\* An error whose one status is in place i is classified by it.
LEMMA OneStatus ==
  ASSUME NEW e, NEW i \in Nat, e # <<>>, Statuses(e) = {i}
  PROVE  StatusOf(e) = e[i].is
<1>1. Min({i}) = i
  BY DEF Min
<1> QED
  BY <1>1 DEF StatusOf, StatusCode

\* The error trees of this program, spelt out.
LEMMA Trees ==
  ASSUME NEW e, NEW f
  PROVE  /\ Opaque \o <<e>> = <<[kind |-> "other", is |-> "other"], e>>
         /\ Opaque \o <<e>> \o <<f>> = <<[kind |-> "other", is |-> "other"], e, f>>
<1> DEFINE o == [kind |-> "other", is |-> "other"]
<1>1. Opaque = <<o>>
  BY DEF Opaque
<1> HIDE DEF o
<1> DEFINE S == {o, e, f}
<1>a. /\ <<o>> \in Seq(S) /\ <<e>> \in Seq(S) /\ <<f>> \in Seq(S)
      /\ <<o, e>> \in Seq(S) /\ <<o, e, f>> \in Seq(S)
  OBVIOUS
<1> HIDE DEF S
<1>2. <<o>> \o <<e>> = <<o, e>>
  <2>1. /\ <<o>> \o <<e>> \in Seq(S) /\ Len(<<o>> \o <<e>>) = 2
        /\ \A i \in 1..2 : (<<o>> \o <<e>>)[i] = IF i <= 1 THEN <<o>>[i] ELSE <<e>>[i - 1]
    BY <1>a, ConcatProperties
  <2>2. Len(<<o, e>>) = 2 /\ \A i \in 1..2 : (<<o>> \o <<e>>)[i] = <<o, e>>[i]
    BY <2>1
  <2> QED
    BY <1>a, <2>1, <2>2, SeqEqual
<1>3. <<o, e>> \o <<f>> = <<o, e, f>>
  <2>1. /\ <<o, e>> \o <<f>> \in Seq(S) /\ Len(<<o, e>> \o <<f>>) = 3
        /\ \A i \in 1..3 : (<<o, e>> \o <<f>>)[i] = IF i <= 2 THEN <<o, e>>[i] ELSE <<f>>[i - 2]
    BY <1>a, ConcatProperties
  <2>2. Len(<<o, e, f>>) = 3 /\ \A i \in 1..3 : (<<o, e>> \o <<f>>)[i] = <<o, e, f>>[i]
    BY <2>1
  <2> QED
    BY <1>a, <2>1, <2>2, SeqEqual
<1> QED
  BY <1>1, <1>2, <1>3 DEF o

\* A refusal is classified by the server's code, alone, wrapped or joined.
LEMMA RefusalCode ==
  ASSUME NEW code, NEW s
  PROVE  /\ StatusOf(StatusErr(code)) = code
         /\ StatusOf(Wrap(StatusErr(code))) = code
         /\ StatusOf(Join(StatusErr(code), Sentinel(s))) = code
         /\ StatusOf(Join(Sentinel(s), StatusErr(code))) = code
<1> DEFINE o == [kind |-> "other", is |-> "other"]
           x == [kind |-> "status", is |-> code]
           y == [kind |-> "sentinel", is |-> s]
<1>0. o.kind = "other" /\ x.kind = "status" /\ x.is = code /\ y.kind = "sentinel"
  OBVIOUS
<1>1. /\ StatusErr(code) = <<x>>
      /\ Wrap(StatusErr(code)) = <<o, x>>
      /\ Join(StatusErr(code), Sentinel(s)) = <<o, x, y>>
      /\ Join(Sentinel(s), StatusErr(code)) = <<o, y, x>>
  BY Trees DEF StatusErr, Sentinel, Wrap, Join
<1> HIDE DEF o, x, y
<1>2. /\ Statuses(<<x>>) = {1} /\ Statuses(<<o, x>>) = {2}
      /\ Statuses(<<o, x, y>>) = {2} /\ Statuses(<<o, y, x>>) = {3}
  BY <1>0 DEF Statuses
<1>3. /\ <<x>> # <<>> /\ <<o, x>> # <<>> /\ <<o, x, y>> # <<>> /\ <<o, y, x>> # <<>>
  OBVIOUS
<1>4. StatusOf(<<x>>) = code /\ StatusOf(<<o, x>>) = code
  <2>1. StatusOf(<<x>>) = <<x>>[1].is
    BY <1>2, <1>3, OneStatus
  <2>2. StatusOf(<<o, x>>) = <<o, x>>[2].is
    BY <1>2, <1>3, OneStatus
  <2> QED
    BY <1>0, <2>1, <2>2
<1>5. StatusOf(<<o, x, y>>) = code /\ StatusOf(<<o, y, x>>) = code
  <2>1. StatusOf(<<o, x, y>>) = <<o, x, y>>[2].is
    BY <1>2, <1>3, OneStatus
  <2>2. StatusOf(<<o, y, x>>) = <<o, y, x>>[3].is
    BY <1>2, <1>3, OneStatus
  <2> QED
    BY <1>0, <2>1, <2>2
<1> QED
  BY <1>1, <1>4, <1>5

\* A codec error is Internal, a transport failure has a code and never OK.
LEMMA FailureCode ==
  ASSUME NEW s
  PROVE  /\ StatusOf(CodecError(Opaque)) = "Internal"
         /\ StatusOf(Wrap(Sentinel(s))) \in Codes \ {"OK"}
<1> DEFINE o == [kind |-> "other", is |-> "other"]
           x == [kind |-> "status", is |-> "Internal"]
           y == [kind |-> "sentinel", is |-> s]
<1>0. o.kind = "other" /\ x.kind = "status" /\ x.is = "Internal" /\ y.kind = "sentinel"
  OBVIOUS
<1>1. CodecError(Opaque) = <<o, x, o>> /\ Wrap(Sentinel(s)) = <<o, y>>
  BY Trees DEF StatusErr, Sentinel, Wrap, CodecError, Opaque
<1> HIDE DEF o, x, y
<1>2. /\ Statuses(<<o, x, o>>) = {2} /\ Statuses(<<o, y>>) = {}
      /\ <<o, x, o>> # <<>> /\ <<o, y>> # <<>>
  BY <1>0 DEF Statuses
<1>3. StatusOf(<<o, x, o>>) = "Internal"
  <2>1. StatusOf(<<o, x, o>>) = <<o, x, o>>[2].is
    BY <1>2, OneStatus
  <2> QED
    BY <1>0, <2>1
<1>4. StatusOf(<<o, y>>) = SentinelCode(<<o, y>>)
  BY <1>2 DEF StatusOf
<1>5. SentinelCode(<<o, y>>) \in Codes \ {"OK"}
  <2> DEFINE hits == {i \in DOMAIN Cases : \E n \in Cases[i].names : Is(<<o, y>>, n)}
  <2>1. SentinelCode(<<o, y>>) = IF hits = {} THEN "Unknown" ELSE Cases[Min(hits)].code
    BY DEF SentinelCode
  <2>2. hits \subseteq 1..8
    BY DEF Cases
  <2> HIDE DEF hits
  <2>3. hits # {} => \E i \in hits : \A j \in hits : i <= j
    <3>1. hits \subseteq Nat
      BY <2>2
    <3> QED
      BY <3>1, Least
  <2>4. hits # {} => Min(hits) \in hits
    BY <2>3 DEF Min
  <2>5. \A i \in 1..8 : i \in DOMAIN Cases /\ Cases[i].code # "OK"
    BY DEF Cases
  <2> QED
    BY <2>1, <2>2, <2>4, <2>5 DEF Codes
<1> QED
  BY <1>1, <1>3, <1>4, <1>5

-----------------------------------------------------------------------------
(* The steps.                                                              *)

\* A user of whose call nothing changes.
LEMMA Untouched ==
  ASSUME NEW v \in Users, CallInv(v), pc'[v] = pc[v], size'[v] = size[v],
         scratch'[v] = scratch[v], reply'[v] = reply[v], verdict'[v] = verdict[v],
         err'[v] = err[v], out'[v] = out[v]
  PROVE  CallInv(v)'
BY DEF CallInv

\* What a step of u's call owes the invariant.
LEMMA CallKeeps ==
  ASSUME IInv, NEW u \in Users,
         in' = in, scratch' \in [Users -> Seq(Cells)], size' \in [Users -> Nat],
         NEW l, Goto(u, l),
         DOMAIN out' = Users, DOMAIN wire' = Users, DOMAIN reply' = Users,
         DOMAIN verdict' = Users, DOMAIN err' = Users,
         \A v \in Users \ {u} : /\ size'[v] = size[v] /\ out'[v] = out[v]
                                /\ reply'[v] = reply[v] /\ verdict'[v] = verdict[v]
                                /\ err'[v] = err[v] /\ scratch'[v] = scratch[v],
         l = "fill" => size'[u] <= Len(scratch'[u]),
         l = "unmarshal" => reply'[u] \in Answers,
         verdict'[u] # None => l = "record" /\ StatusOf(err'[u]) = verdict'[u],
         l = "record" /\ StatusOf(err'[u]) = "OK" =>
           reply'[u] # None /\ Encode(out'[u]) = reply'[u]
  PROVE  IInv'
<1> USE DEF IInv
<1>1. TypeInv'
  BY DEF TypeInv, Goto
<1>2. ASSUME NEW v \in Users \ {u} PROVE CallInv(v)'
  <2>1. pc'[v] = pc[v]
    BY DEF TypeInv, Goto
  <2> QED
    BY <2>1, Untouched
<1>3. CallInv(u)'
  <2>1. pc'[u] = l
    BY DEF TypeInv, Goto
  <2> QED
    BY <2>1 DEF CallInv
<1> QED
  BY <1>1, <1>2, <1>3

\* MarshalAppend leaves room for what it has measured.
LEMMA MarshalKeeps == ASSUME IInv, NEW u \in Users, Marshal(u) PROVE IInv'
<1> DEFINE n == Len(Encode(in[u]))
<1>1. /\ in[u] \in Messages /\ scratch[u] \in Seq(Cells) /\ n \in Nat
      /\ Encode(in[u]) \in Seq(Cells) /\ pc[u] = "marshal" /\ CallInv(u)
  <2>1. in[u] \in Messages /\ scratch[u] \in Seq(Cells)
    BY DEF IInv, TypeInv
  <2> QED
    BY <2>1, EncodeIs DEF Marshal, IInv
<1>2. Grow(scratch[u], n) \in Seq(Cells) /\ n <= Len(Grow(scratch[u], n))
  BY <1>1, GrowIs
<1>3. /\ in' = in /\ out' = out /\ reply' = reply /\ verdict' = verdict
      /\ DOMAIN out = Users /\ DOMAIN reply = Users /\ DOMAIN verdict = Users
      /\ verdict[u] = None
  BY <1>1 DEF Marshal, IInv, TypeInv, CallInv
<1>4. CASE /\ size' = [size EXCEPT ![u] = n]
           /\ scratch' = [scratch EXCEPT ![u] = Grow(@, n)]
           /\ Goto(u, "fill") /\ UNCHANGED <<wire, err>>
  <2> DEFINE a == Grow(scratch[u], n)
  <2>1. scratch' = [scratch EXCEPT ![u] = a]
    BY <1>4
  <2>2. a \in Seq(Cells) /\ n <= Len(a)
    BY <1>2
  <2> HIDE DEF a, n
  <2>3. /\ size' \in [Users -> Nat] /\ scratch' \in [Users -> Seq(Cells)]
        /\ DOMAIN wire' = Users /\ DOMAIN err' = Users
        /\ scratch'[u] = a /\ size'[u] = n
        /\ \A v \in Users \ {u} : /\ size'[v] = size[v] /\ scratch'[v] = scratch[v]
                                  /\ err'[v] = err[v]
    BY <1>1, <1>4, <2>1, <2>2 DEF IInv, TypeInv
  <2> QED
    BY <1>3, <1>4, <2>2, <2>3, CallKeeps
<1>5. CASE /\ scratch' = [scratch EXCEPT ![u] = FillFromEnd(Grow(@, n), n, Encode(in[u]))]
           /\ wire' = [wire EXCEPT ![u] = Encode(in[u])]
           /\ Goto(u, "invoke") /\ UNCHANGED <<size, err>>
  <2> DEFINE a == FillFromEnd(Grow(scratch[u], n), n, Encode(in[u]))
  <2>1. scratch' = [scratch EXCEPT ![u] = a]
    BY <1>5
  <2>2. a \in Seq(Cells)
    BY <1>1, <1>2, FillIs
  <2> HIDE DEF a
  <2>3. /\ size' \in [Users -> Nat] /\ scratch' \in [Users -> Seq(Cells)]
        /\ DOMAIN wire' = Users /\ DOMAIN err' = Users
        /\ \A v \in Users \ {u} : /\ size'[v] = size[v] /\ scratch'[v] = scratch[v]
                                  /\ err'[v] = err[v]
    BY <1>5, <2>1, <2>2 DEF IInv, TypeInv
  <2> QED
    BY <1>3, <1>5, <2>3, CallKeeps
<1>6. CASE /\ err' = [err EXCEPT ![u] = CodecError(Opaque)]
           /\ Goto(u, "record") /\ UNCHANGED <<scratch, size, wire>>
  <2>1. /\ size' \in [Users -> Nat] /\ scratch' \in [Users -> Seq(Cells)]
        /\ DOMAIN wire' = Users /\ DOMAIN err' = Users
        /\ \A v \in Users \ {u} : /\ size'[v] = size[v] /\ scratch'[v] = scratch[v]
                                  /\ err'[v] = err[v]
        /\ err'[u] = CodecError(Opaque)
    BY <1>6 DEF IInv, TypeInv
  <2>2. StatusOf(err'[u]) # "OK"
    BY <2>1, FailureCode
  <2> QED
    BY <1>3, <1>6, <2>1, <2>2, CallKeeps
<1> QED
  BY <1>4, <1>5, <1>6 DEF Marshal

\* MarshalToSizedBufferVT stays inside the buffer, or panics.
LEMMA FillKeeps == ASSUME IInv, NEW u \in Users, Fill(u) PROVE IInv'
<1> USE DEF IInv
<1> DEFINE a == FillFromEnd(scratch[u], size[u], Encode(in[u]))
<1>1. /\ in[u] \in Messages /\ scratch[u] \in Seq(Cells) /\ size[u] \in Nat
      /\ pc[u] = "fill" /\ CallInv(u) /\ size[u] <= Len(scratch[u])
      /\ scratch' = [scratch EXCEPT ![u] = a]
      /\ in' = in /\ out' = out /\ size' = size /\ reply' = reply /\ verdict' = verdict
  BY DEF TypeInv, Fill, CallInv
<1>2. a \in Seq(Cells) /\ Len(a) = Len(scratch[u])
  BY <1>1, EncodeIs, FillIs
<1>3. \/ pc' = pc /\ wire' = wire /\ err' = err
      \/ Goto(u, "invoke") /\ err' = err /\ DOMAIN wire' = Users
      \/ Goto(u, "record") /\ wire' = wire /\ err' = [err EXCEPT ![u] = CodecError(Opaque)]
  BY DEF Fill, TypeInv
<1> HIDE DEF a
<1>5. TypeInv'
  BY <1>1, <1>2, <1>3 DEF TypeInv, Goto
<1>6. ASSUME NEW v \in Users \ {u} PROVE CallInv(v)'
  <2>1. /\ pc'[v] = pc[v] /\ size'[v] = size[v] /\ scratch'[v] = scratch[v]
        /\ reply'[v] = reply[v] /\ verdict'[v] = verdict[v] /\ err'[v] = err[v]
        /\ out'[v] = out[v]
    BY <1>1, <1>3 DEF TypeInv, Goto
  <2> QED
    BY <2>1, Untouched
<1>7. CallInv(u)'
  <2>1. verdict'[u] = None /\ scratch'[u] = a /\ size'[u] <= Len(a)
    BY <1>1, <1>2 DEF CallInv, TypeInv
  <2>2. \/ pc'[u] = "fill" \/ pc'[u] = "invoke"
        \/ pc'[u] = "record" /\ err'[u] = CodecError(Opaque)
    BY <1>1, <1>3 DEF TypeInv, Goto
  <2>3. StatusOf(CodecError(Opaque)) # "OK"
    BY FailureCode
  <2> QED
    BY <2>1, <2>2, <2>3 DEF CallInv
<1> QED
  BY <1>5, <1>6, <1>7

\* A fill that gives up has written inside the buffer.
LEMMA FillFailsKeeps == ASSUME IInv, NEW u \in Users, FillFails(u) PROVE IInv'
<1> USE DEF IInv
<1> DEFINE w == Encode(in[u])
<1>1. PICK k \in 1..Len(w) + 1 :
        scratch' = [scratch EXCEPT ![u] = FillFromEnd(@, size[u], SubSeq(w, k, Len(w)))]
  BY DEF FillFails
<1> DEFINE a == FillFromEnd(scratch[u], size[u], SubSeq(w, k, Len(w)))
<1>2. /\ in[u] \in Messages /\ scratch[u] \in Seq(Cells) /\ size[u] \in Nat
      /\ pc[u] = "fill" /\ CallInv(u) /\ size[u] <= Len(scratch[u])
      /\ in' = in /\ out' = out /\ size' = size /\ reply' = reply /\ verdict' = verdict
      /\ wire' = wire /\ err' = [err EXCEPT ![u] = CodecError(Opaque)]
      /\ Goto(u, "record")
  BY DEF TypeInv, FillFails, CallInv
<1>3. scratch' = [scratch EXCEPT ![u] = a]
  BY <1>1, <1>2 DEF TypeInv
<1>4. w \in Seq(Cells) /\ Len(w) \in Nat
  BY <1>2, EncodeIs
<1> HIDE DEF w
<1>5. SubSeq(w, k, Len(w)) \in Seq(Cells)
  BY <1>1, <1>4, SubSeqProperties
<1>6. a \in Seq(Cells) /\ Len(a) = Len(scratch[u])
  BY <1>2, <1>5, FillIs
<1> HIDE DEF a
<1>7. TypeInv'
  BY <1>2, <1>3, <1>6 DEF TypeInv, Goto
<1>8. ASSUME NEW v \in Users \ {u} PROVE CallInv(v)'
  <2>1. /\ pc'[v] = pc[v] /\ size'[v] = size[v] /\ scratch'[v] = scratch[v]
        /\ reply'[v] = reply[v] /\ verdict'[v] = verdict[v] /\ err'[v] = err[v]
        /\ out'[v] = out[v]
    BY <1>2, <1>3 DEF TypeInv, Goto
  <2> QED
    BY <2>1, Untouched
<1>9. CallInv(u)'
  <2>1. /\ verdict'[u] = None /\ pc'[u] = "record" /\ err'[u] = CodecError(Opaque)
    BY <1>2 DEF CallInv, TypeInv, Goto
  <2>2. StatusOf(CodecError(Opaque)) # "OK"
    BY FailureCode
  <2> QED
    BY <2>1, <2>2 DEF CallInv
<1> QED
  BY <1>7, <1>8, <1>9

\* A refusal carries the server's code, whatever it is wrapped in or joined with.
LEMMA RefusedKeeps == ASSUME IInv, NEW u \in Users, NEW c \in PeerCodes, Refused(u, c) PROVE IInv'
<1>1. PICK e \in {StatusErr(c), Wrap(StatusErr(c))}
                   \cup {Join(StatusErr(c), Sentinel(s)) : s \in Transport}
                   \cup {Join(Sentinel(s), StatusErr(c)) : s \in Transport} :
        err' = [err EXCEPT ![u] = e]
  BY DEF Refused
<1>2. StatusOf(e) = c /\ c # "OK"
  <2>1. StatusOf(e) = c
    BY <1>1, RefusalCode
  <2>2. c # "OK"
    BY LoadGenAssumption
  <2> QED
    BY <2>1, <2>2
<1>3. /\ in' = in /\ scratch' = scratch /\ Goto(u, "record") /\ size' = size /\ out' = out
      /\ wire' = wire /\ reply' = reply /\ verdict' = [verdict EXCEPT ![u] = c]
  BY DEF Refused
<1>4. /\ size' \in [Users -> Nat] /\ scratch' \in [Users -> Seq(Cells)]
      /\ DOMAIN out' = Users /\ DOMAIN wire' = Users /\ DOMAIN reply' = Users
      /\ DOMAIN verdict' = Users /\ DOMAIN err' = Users
      /\ \A v \in Users \ {u} : /\ size'[v] = size[v] /\ out'[v] = out[v]
                                /\ reply'[v] = reply[v] /\ verdict'[v] = verdict[v]
                                /\ err'[v] = err[v] /\ scratch'[v] = scratch[v]
      /\ verdict'[u] = c /\ err'[u] = e
  BY <1>1, <1>3 DEF IInv, TypeInv
<1> QED
  BY <1>2, <1>3, <1>4, CallKeeps

\* A failure without a status is never taken for success.
LEMMA InvokeErrorKeeps == ASSUME IInv, NEW u \in Users, NEW s, InvokeError(u, s) PROVE IInv'
<1>1. /\ in' = in /\ scratch' = scratch /\ Goto(u, "record") /\ size' = size /\ out' = out
      /\ wire' = wire /\ reply' = reply /\ verdict' = verdict /\ pc[u] = "invoke"
      /\ err' = [err EXCEPT ![u] = Wrap(Sentinel(s))]
  BY DEF InvokeError
<1>2. /\ size' \in [Users -> Nat] /\ scratch' \in [Users -> Seq(Cells)]
      /\ DOMAIN out' = Users /\ DOMAIN wire' = Users /\ DOMAIN reply' = Users
      /\ DOMAIN verdict' = Users /\ DOMAIN err' = Users
      /\ \A v \in Users \ {u} : /\ size'[v] = size[v] /\ out'[v] = out[v]
                                /\ reply'[v] = reply[v] /\ verdict'[v] = verdict[v]
                                /\ err'[v] = err[v] /\ scratch'[v] = scratch[v]
      /\ verdict'[u] = None /\ err'[u] = Wrap(Sentinel(s))
  BY <1>1 DEF IInv, TypeInv, CallInv
<1>3. StatusOf(err'[u]) # "OK"
  BY <1>2, FailureCode
<1> QED
  BY <1>1, <1>2, <1>3, CallKeeps

\* A response that parses is the message that the user then reads.
LEMMA UnmarshalKeeps == ASSUME IInv, NEW u \in Users, Unmarshal(u) PROVE IInv'
<1> DEFINE e == IF UnmarshalOK(Methods[u], reply[u]) THEN <<>> ELSE CodecError(Opaque)
           m == Unmarshalled(Methods[u], out[u], reply[u])
<1>1. /\ in' = in /\ scratch' = scratch /\ Goto(u, "record") /\ size' = size
      /\ wire' = wire /\ reply' = reply /\ verdict' = verdict /\ pc[u] = "unmarshal"
      /\ out' = [out EXCEPT ![u] = m] /\ err' = [err EXCEPT ![u] = e]
  BY DEF Unmarshal
<1>2. reply[u] \in Answers /\ verdict[u] = None
  BY <1>1 DEF IInv, CallInv
<1>3. ASSUME StatusOf(e) = "OK" PROVE reply[u] # None /\ Encode(m) = reply[u]
  <2>1. UnmarshalOK(Methods[u], reply[u])
    BY <1>3, FailureCode
  <2>2. m = MergeInto(ZeroMessage, reply[u]) /\ reply[u] # Garbage
    BY <2>1 DEF UnmarshalOK, Unmarshalled, ResetMessage
  <2>3. PICK r \in Replies : reply[u] = Encode(r)
    BY <1>2, <2>2 DEF Answers
  <2>4. reply[u] # None
    BY <1>2, LoadGenAssumption
  <2> QED
    BY <2>2, <2>3, <2>4, ParsedIsSent
<1> HIDE DEF e, m
<1>4. /\ size' \in [Users -> Nat] /\ scratch' \in [Users -> Seq(Cells)]
      /\ DOMAIN out' = Users /\ DOMAIN wire' = Users /\ DOMAIN reply' = Users
      /\ DOMAIN verdict' = Users /\ DOMAIN err' = Users
      /\ \A v \in Users \ {u} : /\ size'[v] = size[v] /\ out'[v] = out[v]
                                /\ reply'[v] = reply[v] /\ verdict'[v] = verdict[v]
                                /\ err'[v] = err[v] /\ scratch'[v] = scratch[v]
      /\ verdict'[u] = None /\ err'[u] = e /\ out'[u] = m /\ reply'[u] = reply[u]
  BY <1>1, <1>2 DEF IInv, TypeInv
<1> QED
  BY <1>1, <1>3, <1>4, CallKeeps

\* The rest of the loop.
LEMMA LoopKeeps ==
  ASSUME IInv, NEW u \in Users,
         \/ Begin(u) \/ Stop(u) \/ Record(u)
         \/ \E a \in Answers : Answered(u, a)
  PROVE  IInv'
<1> DEFINE l == pc'[u]
<1>1. /\ in' = in /\ scratch' = scratch /\ out' = out /\ Goto(u, l)
      /\ l \in {"marshal", "done", "loop", "unmarshal"}
  BY DEF Begin, Stop, Record, Answered, Goto, IInv, TypeInv
<1>2. /\ size' \in [Users -> Nat] /\ scratch' \in [Users -> Seq(Cells)]
      /\ DOMAIN out' = Users /\ DOMAIN wire' = Users
      /\ \A v \in Users \ {u} : /\ size'[v] = size[v] /\ out'[v] = out[v]
                                /\ scratch'[v] = scratch[v]
  <2>1. CASE Record(u)
    <3>1. /\ size' = [size EXCEPT ![u] = 0] /\ wire' = [wire EXCEPT ![u] = <<>>]
          /\ size \in [Users -> Nat] /\ 0 \in Nat
      BY <2>1 DEF Record, IInv, TypeInv
    <3>2. size' \in [Users -> Nat] /\ \A v \in Users \ {u} : size'[v] = size[v]
      BY <3>1
    <3> QED
      BY <1>1, <3>1, <3>2 DEF IInv, TypeInv
  <2>2. CASE Begin(u) \/ Stop(u) \/ \E a \in Answers : Answered(u, a)
    BY <1>1, <2>2 DEF Begin, Stop, Answered, IInv, TypeInv
  <2> QED
    BY <2>1, <2>2
<1>3. /\ DOMAIN reply' = Users /\ DOMAIN verdict' = Users /\ DOMAIN err' = Users
      /\ \A v \in Users \ {u} : /\ reply'[v] = reply[v] /\ verdict'[v] = verdict[v]
                                /\ err'[v] = err[v]
  BY DEF Begin, Stop, Record, Answered, IInv, TypeInv
<1>4. verdict'[u] = None
  BY DEF Begin, Stop, Record, Answered, IInv, TypeInv, CallInv
<1>5. l = "unmarshal" => reply'[u] \in Answers
  BY DEF Begin, Stop, Record, Answered, Goto, IInv, TypeInv
<1> HIDE DEF l
<1> QED
  BY <1>1, <1>2, <1>3, <1>4, <1>5, CallKeeps

\* What happens around a call touches nothing of it but the request.
LEMMA AroundKeeps ==
  ASSUME IInv,
         \/ \E u \in Users, m \in Messages : Mutate(u, m)
         \/ CtxEnds \/ ReportDone \/ UNCHANGED vars
  PROVE  IInv'
<1>1. /\ pc' = pc /\ out' = out /\ scratch' = scratch /\ size' = size /\ wire' = wire
      /\ reply' = reply /\ verdict' = verdict /\ err' = err
  BY DEF Mutate, CtxEnds, ReportDone, vars
<1>2. in' \in [Users -> Messages]
  BY DEF Mutate, CtxEnds, ReportDone, vars, IInv, TypeInv
<1> QED
  BY <1>1, <1>2 DEF IInv, TypeInv, CallInv

\* The invariant is inductive.
LEMMA InvStep == IInv /\ [Next]_vars => IInv'
<1> SUFFICES ASSUME IInv, [Next]_vars PROVE IInv'
  OBVIOUS
<1>1. ASSUME NEW u \in Users, Cancelled(u) PROVE IInv'
  BY <1>1, InvokeErrorKeeps DEF Cancelled
<1>2. ASSUME NEW u \in Users, Step(u) PROVE IInv'
  BY <1>1, <1>2, LoopKeeps, MarshalKeeps, FillKeeps, FillFailsKeeps, UnmarshalKeeps DEF Step
<1>3. ASSUME NEW u \in Users, Peer(u) PROVE IInv'
  BY <1>3, LoopKeeps, RefusedKeeps, InvokeErrorKeeps DEF Peer
<1> QED
  BY <1>2, <1>3, AroundKeeps DEF Next

\* The start of a run.
LEMMA InvInit == Init => IInv
<1> SUFFICES ASSUME Init PROVE IInv
  OBVIOUS
<1>1. <<>> \in Seq(Cells) /\ 0 \in Nat
  OBVIOUS
<1>2. TypeInv
  BY <1>1 DEF Init, TypeInv
<1> QED
  BY <1>2 DEF Init, IInv, CallInv

-----------------------------------------------------------------------------
(* Counting the calls.                                                     *)

\* What Total computes.
LEMMA TotalIs == ASSUME NEW f PROVE Total(f) = SumOver(f, DOMAIN f)
BY FoldIsSum DEF Total

\* A call under one more code adds one to the bucket's total.
LEMMA TotalOneMore ==
  ASSUME NEW S, IsFiniteSet(S), NEW f \in [S -> Nat], NEW a \in S, NEW h \in [S -> Nat],
         h = [f EXCEPT ![a] = @ + 1]
  PROVE  Total(h) = Total(f) + 1
<1>1. OneMore(f, h, S, a) /\ \A x \in S : f[x] \in Nat
  BY DEF OneMore
<1>2. Total(f) = SumOver(f, S) /\ Total(h) = SumOver(h, S)
  BY TotalIs
<1>3. SumOver(h, S) = SumOver(f, S) + 1
  BY <1>1, SumOneMore
<1> QED
  BY <1>2, <1>3

\* There are finitely many codes, and those of the failures are among them.
LEMMA OutcomesAre == IsFiniteSet(Outcomes) /\ "OK" \in Outcomes /\ "Internal" \in Outcomes
<1> DEFINE f == [i \in 1..8 |-> Cases[i].code]
           C == {f[i] : i \in 1..8}
<1>1. DOMAIN Cases = 1..8 /\ Cases[4].code = "Internal"
  BY DEF Cases
<1>2. Codes = {"OK"} \cup C \cup {"Unknown"} /\ "OK" \in Codes /\ "Internal" \in Codes
  BY <1>1 DEF Codes
<1>3. IsFiniteSet(C)
  <2>1. f \in Surjection(1..8, C)
    BY DEF Surjection
  <2>2. IsFiniteSet(1..8)
    <3>1. 1 \in Int /\ 8 \in Int
      OBVIOUS
    <3> QED
      BY ONLY <3>1, FS_Interval
  <2> HIDE DEF f, C
  <2> QED
    BY <2>1, <2>2, FS_Surjection
<1> HIDE DEF C
<1>4. IsFiniteSet(C \cup {"OK"})
  BY <1>3, FS_AddElement
<1>5. IsFiniteSet((C \cup {"OK"}) \cup {"Unknown"})
  BY <1>4, FS_AddElement
<1>6. Codes = (C \cup {"OK"}) \cup {"Unknown"}
  BY <1>2
<1>7. IsFiniteSet(Codes) /\ IsFiniteSet(PeerCodes)
  BY <1>5, <1>6, LoadGenAssumption
<1>8. IsFiniteSet(Codes \cup PeerCodes)
  BY <1>7, FS_Union
<1> QED
  BY <1>2, <1>8 DEF Outcomes

\* The call of u goes on and has not returned yet, or has with a code.
GoesOn(u, l) ==
  /\ Goto(u, l) /\ l \notin {"loop", "done"} /\ pc[u] \notin {"loop", "done"}
  /\ codes' = codes /\ calls' = calls /\ tally' = tally
  /\ \A v \in Users \ {u} : err'[v] = err[v]
  /\ l = "record" => StatusOf(err'[u]) \in Outcomes

LEMMA GoingOnCounts ==
  ASSUME TypeInv, CountInv, NEW u \in Users, NEW l, GoesOn(u, l)
  PROVE  CountInv'
<1>1. pc'[u] = l /\ \A v \in Users \ {u} : pc'[v] = pc[v]
  BY DEF TypeInv, GoesOn, Goto
<1>2. \A v \in Users : InCall(v)' = InCall(v)
  BY <1>1 DEF InCall, GoesOn
<1>3. tally' = <<>>
  BY DEF CountInv, GoesOn
<1>4. \A v \in Users : pc'[v] = "record" => StatusOf(err'[v]) \in Outcomes
  BY <1>1 DEF CountInv, GoesOn
<1>5. \A v \in Users : calls'[v] = Total(codes'[v]) + InCall(v)'
  BY <1>2 DEF CountInv, GoesOn
<1> QED
  BY <1>3, <1>4, <1>5 DEF CountInv, GoesOn

\* The steps inside a call count nothing.
LEMMA CallCounts ==
  ASSUME TypeInv, CountInv, NEW u \in Users,
         \/ Marshal(u) \/ Unmarshal(u)
         \/ \E a \in Answers : Answered(u, a)
         \/ \E s : InvokeError(u, s)
  PROVE  CountInv'
<1>1. CASE \E a \in Answers : Answered(u, a)
  <2>1. GoesOn(u, "unmarshal")
    BY <1>1 DEF Answered, GoesOn, Run
  <2> QED
    BY <2>1, GoingOnCounts
<1>2. CASE Unmarshal(u)
  <2> DEFINE e == IF UnmarshalOK(Methods[u], reply[u]) THEN <<>> ELSE CodecError(Opaque)
  <2>1. StatusOf(e) \in Outcomes
    <3>1. StatusOf(<<>>) = "OK"
      BY DEF StatusOf
    <3>2. StatusOf(CodecError(Opaque)) = "Internal"
      BY FailureCode
    <3> QED
      BY <3>1, <3>2, OutcomesAre
  <2>2. err' = [err EXCEPT ![u] = e]
    BY <1>2 DEF Unmarshal
  <2> HIDE DEF e
  <2>3. err'[u] = e /\ \A v \in Users \ {u} : err'[v] = err[v]
    BY <2>2 DEF TypeInv
  <2>4. GoesOn(u, "record")
    BY <1>2, <2>1, <2>3 DEF Unmarshal, GoesOn, Run
  <2> QED
    BY <2>4, GoingOnCounts
<1>3. CASE Marshal(u)
  <2>1. \/ err' = err /\ Goto(u, "fill")
        \/ err' = err /\ Goto(u, "invoke")
        \/ err' = [err EXCEPT ![u] = CodecError(Opaque)] /\ Goto(u, "record")
    BY <1>3 DEF Marshal
  <2>2. /\ pc[u] \notin {"loop", "done"}
        /\ codes' = codes /\ calls' = calls /\ tally' = tally
    BY <1>3 DEF Marshal, Run
  <2>3. StatusOf(CodecError(Opaque)) \in Outcomes
    BY FailureCode, OutcomesAre
  <2>4. GoesOn(u, "fill") \/ GoesOn(u, "invoke") \/ GoesOn(u, "record")
    BY <2>1, <2>2, <2>3 DEF GoesOn, TypeInv
  <2> QED
    BY <2>4, GoingOnCounts
<1>4. CASE \E s : InvokeError(u, s)
  <2>1. PICK s : InvokeError(u, s)
    BY <1>4
  <2>2. StatusOf(Wrap(Sentinel(s))) \in Outcomes
    BY FailureCode DEF Outcomes
  <2>3. err'[u] = Wrap(Sentinel(s)) /\ \A v \in Users \ {u} : err'[v] = err[v]
    BY <2>1 DEF InvokeError, TypeInv
  <2>4. GoesOn(u, "record")
    BY <2>1, <2>2, <2>3 DEF InvokeError, GoesOn, Run
  <2> QED
    BY <2>4, GoingOnCounts
<1> QED
  BY <1>1, <1>2, <1>3, <1>4

\* A refusal is counted under the server's code.
LEMMA RefusalCounts ==
  ASSUME TypeInv, CountInv, NEW u \in Users, NEW c \in PeerCodes, Refused(u, c)
  PROVE  CountInv'
<1>1. PICK e \in {StatusErr(c), Wrap(StatusErr(c))}
                   \cup {Join(StatusErr(c), Sentinel(s)) : s \in Transport}
                   \cup {Join(Sentinel(s), StatusErr(c)) : s \in Transport} :
        err' = [err EXCEPT ![u] = e]
  BY DEF Refused
<1>2. StatusOf(e) = c
  BY <1>1, RefusalCode
<1>3. err'[u] = e /\ \A v \in Users \ {u} : err'[v] = err[v]
  BY <1>1 DEF TypeInv
<1>4. GoesOn(u, "record")
  BY <1>2, <1>3 DEF Refused, GoesOn, Run, Outcomes
<1> QED
  BY <1>4, GoingOnCounts

\* The pieces of the users' counts that a step leaves alone.
LEMMA CountsAlone ==
  ASSUME CountInv, pc' = pc, err' = err, codes' = codes, calls' = calls, tally' = tally
  PROVE  CountInv'
BY DEF CountInv, InCall, Merged

LEMMA FillCounts == ASSUME TypeInv, CountInv, NEW u \in Users, Fill(u) PROVE CountInv'
<1>1. \/ pc' = pc /\ err' = err
      \/ err' = err /\ Goto(u, "invoke")
      \/ err' = [err EXCEPT ![u] = CodecError(Opaque)] /\ Goto(u, "record")
  BY DEF Fill
<1>2. /\ pc[u] \notin {"loop", "done"}
      /\ codes' = codes /\ calls' = calls /\ tally' = tally
  BY DEF Fill
<1>3. StatusOf(CodecError(Opaque)) \in Outcomes
  BY FailureCode, OutcomesAre
<1>4. (pc' = pc /\ err' = err) \/ GoesOn(u, "invoke") \/ GoesOn(u, "record")
  BY <1>1, <1>2, <1>3 DEF GoesOn, TypeInv
<1> QED
  BY <1>2, <1>4, GoingOnCounts, CountsAlone

LEMMA FillFailsCounts ==
  ASSUME TypeInv, CountInv, NEW u \in Users, FillFails(u) PROVE CountInv'
<1>1. /\ pc[u] \notin {"loop", "done"}
      /\ err' = [err EXCEPT ![u] = CodecError(Opaque)] /\ Goto(u, "record")
      /\ codes' = codes /\ calls' = calls /\ tally' = tally
  BY DEF FillFails, Run
<1>2. StatusOf(CodecError(Opaque)) \in Outcomes
  BY FailureCode, OutcomesAre
<1>3. GoesOn(u, "record")
  BY <1>1, <1>2 DEF GoesOn, TypeInv
<1> QED
  BY <1>1, <1>3, GoingOnCounts

\* A call begins, and is one that is not in the bucket yet.
LEMMA BeginCounts == ASSUME TypeInv, CountInv, NEW u \in Users, Begin(u) PROVE CountInv'
<1>1. /\ pc[u] = "loop" /\ pc'[u] = "marshal" /\ \A v \in Users \ {u} : pc'[v] = pc[v]
  BY DEF Begin, Goto, TypeInv
<1>2. calls \in [Users -> Nat] /\ calls' = [calls EXCEPT ![u] = @ + 1]
  BY DEF Begin, CountInv
<1>3. /\ calls' \in [Users -> Nat] /\ calls'[u] = calls[u] + 1
      /\ \A v \in Users \ {u} : calls'[v] = calls[v]
  BY <1>2
<1>4. codes' = codes /\ err' = err /\ tally' = tally
  BY DEF Begin, Run
<1>5. tally' = <<>>
  BY <1>1, <1>4 DEF CountInv
<1>6. Total(codes[u]) \in Nat
  <2>1. codes[u] \in [Outcomes -> Nat]
    BY DEF CountInv
  <2> QED
    BY <2>1, TotalIs, OutcomesAre, SumNat
<1>7. calls'[u] = Total(codes'[u]) + InCall(u)'
  <2>1. InCall(u) = 0 /\ InCall(u)' = 1
    BY <1>1 DEF InCall
  <2>2. calls[u] = Total(codes[u]) + InCall(u)
    BY DEF CountInv
  <2> QED
    BY <1>3, <1>4, <1>6, <2>1, <2>2
<1>8. ASSUME NEW v \in Users \ {u} PROVE calls'[v] = Total(codes'[v]) + InCall(v)'
  BY <1>1, <1>3, <1>4 DEF CountInv, InCall
<1>9. \A v \in Users : pc'[v] = "record" => StatusOf(err'[v]) \in Outcomes
  BY <1>1, <1>4 DEF CountInv
<1> QED
  BY <1>3, <1>4, <1>5, <1>7, <1>8, <1>9 DEF CountInv

\* A user stops between two calls.
LEMMA StopCounts == ASSUME TypeInv, CountInv, NEW u \in Users, Stop(u) PROVE CountInv'
<1>1. /\ pc[u] = "loop" /\ pc'[u] = "done" /\ \A v \in Users \ {u} : pc'[v] = pc[v]
  BY DEF Stop, Goto, TypeInv
<1>2. codes' = codes /\ err' = err /\ tally' = tally /\ calls' = calls
  BY DEF Stop, Run
<1>3. tally' = <<>>
  BY <1>1, <1>2 DEF CountInv
<1>4. \A v \in Users : InCall(v)' = InCall(v)
  BY <1>1 DEF InCall
<1>5. \A v \in Users : calls'[v] = Total(codes'[v]) + InCall(v)'
  BY <1>2, <1>4 DEF CountInv
<1>6. \A v \in Users : pc'[v] = "record" => StatusOf(err'[v]) \in Outcomes
  BY <1>1, <1>2 DEF CountInv
<1> QED
  BY <1>2, <1>3, <1>5, <1>6 DEF CountInv

\* record moves the call into the bucket.
LEMMA RecordCounts == ASSUME TypeInv, CountInv, NEW u \in Users, Record(u) PROVE CountInv'
<1> DEFINE k == StatusOf(err[u])
           b == [codes[u] EXCEPT ![k] = @ + 1]
<1>1. /\ pc[u] = "record" /\ pc'[u] = "loop" /\ \A v \in Users \ {u} : pc'[v] = pc[v]
  BY DEF Record, Goto, TypeInv
<1>2. k \in Outcomes /\ codes[u] \in [Outcomes -> Nat]
  BY <1>1 DEF CountInv
<1>3. codes' = [codes EXCEPT ![u] = b]
  BY DEF Record
<1> HIDE DEF k
<1>4. b \in [Outcomes -> Nat]
  BY <1>2
<1>5. Total(b) = Total(codes[u]) + 1
  BY <1>2, <1>4, OutcomesAre, TotalOneMore
<1> HIDE DEF b
<1>6. /\ codes' \in [Users -> [Outcomes -> Nat]] /\ codes'[u] = b
      /\ \A v \in Users \ {u} : codes'[v] = codes[v]
  BY <1>3, <1>4 DEF CountInv
<1>7. calls' = calls /\ tally' = tally /\ \A v \in Users \ {u} : err'[v] = err[v]
  BY DEF Record, Run, TypeInv
<1>8. tally' = <<>>
  BY <1>1, <1>7 DEF CountInv
<1>9. Total(codes[u]) \in Nat
  BY <1>2, TotalIs, OutcomesAre, SumNat
<1>10. calls'[u] = Total(codes'[u]) + InCall(u)'
  <2>1. InCall(u) = 1 /\ InCall(u)' = 0
    BY <1>1 DEF InCall
  <2>2. calls[u] = Total(codes[u]) + InCall(u)
    BY DEF CountInv
  <2> QED
    BY <1>5, <1>6, <1>7, <1>9, <2>1, <2>2
<1>11. ASSUME NEW v \in Users \ {u} PROVE calls'[v] = Total(codes'[v]) + InCall(v)'
  BY <1>1, <1>6, <1>7 DEF CountInv, InCall
<1>12. \A v \in Users : pc'[v] = "record" => StatusOf(err'[v]) \in Outcomes
  BY <1>1, <1>7 DEF CountInv
<1> QED
  BY <1>6, <1>7, <1>8, <1>10, <1>11, <1>12 DEF CountInv

\* The report merges when everyone is done; nothing else around the users counts.
LEMMA AroundCounts ==
  ASSUME CountInv,
         \/ \E u \in Users, m \in Messages : Mutate(u, m)
         \/ CtxEnds \/ ReportDone \/ UNCHANGED vars
  PROVE  CountInv'
<1>1. pc' = pc /\ err' = err /\ codes' = codes /\ calls' = calls
  BY DEF Mutate, CtxEnds, ReportDone, vars, Run
<1>2. CASE ReportDone
  <2>1. tally' = Merged /\ \A u \in Users : pc'[u] = "done"
    BY <1>1, <1>2 DEF ReportDone
  <2>2. Merged' = Merged
    BY <1>1 DEF Merged
  <2>3. \A u \in Users : InCall(u)' = InCall(u)
    BY <1>1 DEF InCall
  <2> QED
    BY <1>1, <2>1, <2>2, <2>3 DEF CountInv
<1>3. CASE ~ReportDone
  <2>1. tally' = tally
    BY <1>3 DEF Mutate, CtxEnds, vars, Run
  <2> QED
    BY <1>1, <2>1, CountsAlone
<1> QED
  BY <1>2, <1>3

\* Every step keeps the count.
LEMMA CountStep == IInv /\ CountInv /\ [Next]_vars => CountInv'
<1> SUFFICES ASSUME TypeInv, CountInv, [Next]_vars PROVE CountInv'
  BY DEF IInv
<1>1. ASSUME NEW u \in Users, Step(u) PROVE CountInv'
  BY <1>1, BeginCounts, StopCounts, CallCounts, FillCounts, FillFailsCounts, RecordCounts
     DEF Step, Cancelled
<1>2. ASSUME NEW u \in Users, Peer(u) PROVE CountInv'
  BY <1>2, CallCounts, RefusalCounts DEF Peer
<1> QED
  BY <1>1, <1>2, AroundCounts DEF Next

\* Nothing is counted at the start.
LEMMA CountInit == Init => CountInv
<1> SUFFICES ASSUME Init PROVE CountInv
  OBVIOUS
<1>1. /\ calls = [u \in Users |-> 0] /\ codes = [u \in Users |-> NoCodes]
      /\ tally = <<>> /\ \A u \in Users : pc[u] = "loop"
  BY DEF Init
<1>2. NoCodes \in [Outcomes -> Nat]
  BY DEF NoCodes
<1>3. Total(NoCodes) = 0
  <2>1. Total(NoCodes) = SumOver(NoCodes, Outcomes)
    BY TotalIs DEF NoCodes
  <2>2. \A x \in Outcomes : NoCodes[x] = 0
    BY DEF NoCodes
  <2> QED
    BY <2>1, <2>2, OutcomesAre, SumZero
<1>4. calls \in [Users -> Nat] /\ codes \in [Users -> [Outcomes -> Nat]]
  BY <1>1, <1>2
<1>5. \A u \in Users : calls[u] = Total(codes[u]) + InCall(u)
  BY <1>1, <1>3 DEF InCall
<1> QED
  BY <1>1, <1>4, <1>5 DEF CountInv

\* Adding up the merged bucket adds up the users'.
LEMMA MergedTotal ==
  ASSUME CountInv, tally # <<>>
  PROVE  Total(tally) = Total(calls)
<1> DEFINE row == [u \in Users |-> SumOver(codes[u], Outcomes)]
           col == [k \in Outcomes |-> SumOver([u \in Users |-> codes[u][k]], Users)]
<1>1. IsFiniteSet(Users) /\ IsFiniteSet(Outcomes)
  BY OutcomesAre, LoadGenAssumption
<1>2. /\ \A u \in Users : codes[u] \in [Outcomes -> Nat] /\ calls[u] \in Nat
      /\ DOMAIN calls = Users /\ tally = Merged
  BY DEF CountInv
<1>3. \A u \in Users : \A k \in Outcomes : codes[u][k] \in Nat
  BY <1>2
<1>4. ASSUME NEW k \in Outcomes
      PROVE  Total([u \in Users |-> codes[u][k]]) = SumOver([u \in Users |-> codes[u][k]], Users)
  BY TotalIs
<1>5. Merged = col
  BY <1>4 DEF Merged
<1>6. SumOver(col, Outcomes) = SumOver(row, Users)
  BY <1>1, <1>3, SumSwap
<1>7. ASSUME NEW u \in Users PROVE row[u] = calls[u]
  <2>1. calls[u] = Total(codes[u]) + InCall(u) /\ InCall(u) = 0
    BY DEF CountInv, InCall
  <2>2. Total(codes[u]) = SumOver(codes[u], Outcomes)
    BY <1>2, TotalIs
  <2>3. SumOver(codes[u], Outcomes) \in Nat
    BY <1>1, <1>3, SumNat
  <2> QED
    BY <2>1, <2>2, <2>3
<1>8. DOMAIN col = Outcomes
  OBVIOUS
<1> HIDE DEF row, col
<1>9. SumOver(row, Users) = SumOver(calls, Users)
  BY <1>1, <1>2, <1>7, SumSame
<1>10. Total(tally) = SumOver(col, Outcomes) /\ Total(calls) = SumOver(calls, Users)
  BY <1>2, <1>5, <1>8, TotalIs
<1> QED
  BY <1>6, <1>9, <1>10

-----------------------------------------------------------------------------
(* The theorems.                                                           *)

\* The invariant of the users' calls.
THEOREM CallsInvariance == Spec => []IInv
BY InvInit, InvStep, PTL DEF Spec

\* What is filed under OK is the answer of the server to this call.
THEOREM AnswerIsRead == Spec => []OKIsThisAnswer
<1>1. IInv => OKIsThisAnswer
  BY DEF IInv, CallInv, OKIsThisAnswer
<1> QED
  BY <1>1, CallsInvariance, PTL

\* The server's own diagnosis wins.
THEOREM DiagnosisWins == Spec => []ServersDiagnosisWins
<1>1. IInv => ServersDiagnosisWins
  BY DEF IInv, CallInv, ServersDiagnosisWins
<1> QED
  BY <1>1, CallsInvariance, PTL

\* Only a marshalled request is sent, and it is the request as the fill read it.
THEOREM RequestIsSent == Spec => WireIsTheRequest
<1> DEFINE A == \A u \in Users : pc[u] # "invoke" /\ pc'[u] = "invoke" =>
                  wire'[u] = Encode(in[u])
<1>1. ASSUME IInv, [Next]_vars PROVE A
  <2> SUFFICES ASSUME NEW u \in Users, pc[u] # "invoke", pc'[u] = "invoke"
               PROVE  wire'[u] = Encode(in[u])
    OBVIOUS
  <2>1. PICK v \in Users : Step(v) \/ Peer(v)
    BY <1>1 DEF Next, vars, Mutate, CtxEnds, ReportDone
  <2>2. DOMAIN pc = Users /\ DOMAIN wire = Users /\ in[u] \in Messages
    BY <1>1 DEF IInv, TypeInv
  <2>3. u = v /\ (Marshal(u) \/ Fill(u))
    BY <2>1, <2>2 DEF Step, Peer, Begin, Stop, Marshal, Fill, FillFails, Cancelled, InvokeError,
                      Unmarshal, Record, Answered, Refused, Goto
  <2>4. CASE Marshal(u)
    BY <2>2, <2>4 DEF Marshal, Goto
  <2>5. CASE Fill(u)
    <3> DEFINE w == Encode(in[u])
               a == FillFromEnd(scratch[u], size[u], w)
    <3>1. /\ pc[u] = "fill" /\ FillOutcome(size[u], w) = "ok"
          /\ wire' = [wire EXCEPT ![u] = SubSeq(a, 1, size[u])]
      BY <2>2, <2>5 DEF Fill, Goto
    <3>2. w \in Seq(Cells) /\ Len(w) \in Nat
      BY <2>2, EncodeIs
    <3>3. scratch[u] \in Seq(Cells) /\ size[u] \in Nat /\ size[u] <= Len(scratch[u])
      BY <1>1, <3>1 DEF IInv, TypeInv, CallInv
    <3> HIDE DEF w
    <3>4. Len(w) = size[u]
      BY <3>1, <3>2, <3>3 DEF FillOutcome
    <3>5. SubSeq(a, 1, size[u]) = w
      <4>1. Len(w) = size[u] => SubSeq(a, 1, size[u]) = w
        BY <3>2, <3>3, FillIs
      <4> QED
        BY <3>4, <4>1
    <3> QED
      BY <2>2, <3>1, <3>5 DEF w
  <2> QED
    BY <2>3, <2>4, <2>5
<1>2. IInv /\ [Next]_vars => [A]_vars
  BY <1>1
<1> QED
  BY <1>2, CallsInvariance, PTL DEF Spec, WireIsTheRequest

\* The report counts every call of every user, each under one code.
THEOREM CallsAreCounted == Spec => []EveryCallIsCounted
<1>1. Spec => []CountInv
  BY CountInit, CountStep, CallsInvariance, PTL DEF Spec
<1>2. CountInv => EveryCallIsCounted
  BY MergedTotal DEF EveryCallIsCounted
<1> QED
  BY <1>1, <1>2, PTL
=============================================================================
