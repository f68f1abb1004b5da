---------------------------- MODULE Tunnel_proofs ----------------------------
(***************************************************************************)
(* Proofs about Tunnel, for any number of connections, any slot limit,     *)
(* queue capacity and windows, Stop of both ends included.  What is proved *)
(* of each end against any other end (Inlet_proofs, Outlet_proofs) holds   *)
(* of the ends of a tunnel.                                                *)
(***************************************************************************)
EXTENDS Tunnel, FiniteSetTheorems, FunctionTheorems, TLAPS

-----------------------------------------------------------------------------
\* A route as a sequence: what Append, Head and Tail do to its positions
LEMMA AppendFacts ==
    ASSUME NEW S, NEW q \in Seq(S), NEW m \in S
    PROVE  /\ Append(q, m) \in Seq(S)
           /\ Len(q) \in Nat /\ Len(Append(q, m)) = Len(q) + 1
           /\ Append(q, m)[Len(q) + 1] = m
           /\ \A k \in 1 .. Len(q) : Append(q, m)[k] = q[k]
OBVIOUS

LEMMA TailFacts ==
    ASSUME NEW S, NEW q \in Seq(S), q # <<>>
    PROVE  /\ Head(q) \in S /\ Tail(q) \in Seq(S)
           /\ Len(q) \in Nat /\ Len(q) >= 1 /\ Len(Tail(q)) = Len(q) - 1
           /\ Head(q) = q[1]
           /\ \A k \in 1 .. Len(q) - 1 : Tail(q)[k] = q[k + 1]
OBVIOUS

\* The payloads of session c in a queue, by their numbers, and whether they are in order
Is(m, type, c) == m.type = type /\ m.id = c

Nums(q, type, c) == {q[k].n : k \in {j \in 1 .. Len(q) : Is(q[j], type, c)}}

Sorted(q, type, c) ==
    \A j, k \in 1 .. Len(q) :
      j < k /\ Is(q[j], type, c) /\ Is(q[k], type, c) => q[j].n < q[k].n

LEMMA EmptyLine ==
    ASSUME NEW type, NEW c
    PROVE  Nums(<<>>, type, c) = {} /\ Sorted(<<>>, type, c)
<1>1. Len(<<>>) = 0
  OBVIOUS
<1> QED BY <1>1 DEF Nums, Sorted

LEMMA NumsAppend ==
    ASSUME NEW S, NEW q \in Seq(S), NEW m \in S, NEW type, NEW c
    PROVE  /\ Is(m, type, c) => Nums(Append(q, m), type, c) = Nums(q, type, c) \cup {m.n}
           /\ ~Is(m, type, c) => Nums(Append(q, m), type, c) = Nums(q, type, c)
<1> DEFINE r == Append(q, m)
<1>1. /\ Len(q) \in Nat /\ Len(r) = Len(q) + 1
      /\ r[Len(q) + 1] = m /\ \A k \in 1 .. Len(q) : r[k] = q[k]
  BY AppendFacts
<1>2. \A k \in 1 .. Len(r) : k \in 1 .. Len(q) \/ k = Len(q) + 1
  BY <1>1
<1>3. \A k \in 1 .. Len(q) : k \in 1 .. Len(r)
  BY <1>1
<1>4. Len(q) + 1 \in 1 .. Len(r)
  BY <1>1
<1>5. ASSUME NEW x \in Nums(r, type, c)
      PROVE  x \in Nums(q, type, c) \/ (Is(m, type, c) /\ x = m.n)
  <2>1. PICK k \in 1 .. Len(r) : Is(r[k], type, c) /\ x = r[k].n
    BY <1>5 DEF Nums
  <2>2. CASE k \in 1 .. Len(q)
    BY <1>1, <2>1, <2>2 DEF Nums
  <2>3. CASE k = Len(q) + 1
    BY <1>1, <2>1, <2>3
  <2> QED BY <1>2, <2>2, <2>3
<1>6. ASSUME NEW x \in Nums(q, type, c)
      PROVE  x \in Nums(r, type, c)
  <2>1. PICK k \in 1 .. Len(q) : Is(q[k], type, c) /\ x = q[k].n
    BY <1>6 DEF Nums
  <2>2. k \in 1 .. Len(r) /\ r[k] = q[k]
    BY <1>1, <1>3
  <2> QED BY <2>1, <2>2 DEF Nums
<1>7. Is(m, type, c) => m.n \in Nums(r, type, c)
  BY <1>1, <1>4 DEF Nums
<1> HIDE DEF r
<1>8. Is(m, type, c) => Nums(r, type, c) = Nums(q, type, c) \cup {m.n}
  BY <1>5, <1>6, <1>7
<1>9. ~Is(m, type, c) => Nums(r, type, c) = Nums(q, type, c)
  BY <1>5, <1>6
<1> QED BY <1>8, <1>9 DEF r

LEMMA NumsTail ==
    ASSUME NEW S, NEW q \in Seq(S), q # <<>>, NEW type, NEW c
    PROVE  /\ Is(Head(q), type, c) => Nums(q, type, c) = Nums(Tail(q), type, c) \cup {Head(q).n}
           /\ ~Is(Head(q), type, c) => Nums(q, type, c) = Nums(Tail(q), type, c)
<1> DEFINE r == Tail(q)
<1>1. /\ Len(q) \in Nat /\ Len(q) >= 1 /\ Len(r) = Len(q) - 1
      /\ Head(q) = q[1] /\ \A k \in 1 .. Len(r) : r[k] = q[k + 1]
  BY TailFacts
<1>2. \A k \in 1 .. Len(q) : k = 1 \/ (k - 1 \in 1 .. Len(r) /\ r[k - 1] = q[k])
  BY <1>1
<1>3. \A k \in 1 .. Len(r) : k + 1 \in 1 .. Len(q)
  BY <1>1
<1>5. ASSUME NEW x \in Nums(q, type, c)
      PROVE  x \in Nums(r, type, c) \/ (Is(Head(q), type, c) /\ x = Head(q).n)
  <2>1. PICK k \in 1 .. Len(q) : Is(q[k], type, c) /\ x = q[k].n
    BY <1>5 DEF Nums
  <2>2. CASE k = 1
    BY <1>1, <2>1, <2>2
  <2>3. CASE k - 1 \in 1 .. Len(r) /\ r[k - 1] = q[k]
    BY <2>1, <2>3 DEF Nums
  <2> QED BY <1>2, <2>2, <2>3
<1>6. ASSUME NEW x \in Nums(r, type, c)
      PROVE  x \in Nums(q, type, c)
  <2>1. PICK k \in 1 .. Len(r) : Is(r[k], type, c) /\ x = r[k].n
    BY <1>6 DEF Nums
  <2>2. k + 1 \in 1 .. Len(q) /\ q[k + 1] = r[k]
    BY <1>1, <1>3
  <2> QED BY <2>1, <2>2 DEF Nums
<1>7. Is(Head(q), type, c) => Head(q).n \in Nums(q, type, c)
  <2>1. 1 \in 1 .. Len(q)
    BY <1>1
  <2> QED BY <1>1, <2>1 DEF Nums
<1> HIDE DEF r
<1>8. Is(Head(q), type, c) => Nums(q, type, c) = Nums(r, type, c) \cup {Head(q).n}
  BY <1>5, <1>6, <1>7
<1>9. ~Is(Head(q), type, c) => Nums(q, type, c) = Nums(r, type, c)
  BY <1>5, <1>6
<1> QED BY <1>8, <1>9 DEF r

LEMMA SortedAppend ==
    ASSUME NEW S, NEW q \in Seq(S), NEW m \in S, NEW type, NEW c, Sorted(q, type, c),
           Is(m, type, c) => \A x \in Nums(q, type, c) : x < m.n
    PROVE  Sorted(Append(q, m), type, c)
<1> DEFINE r == Append(q, m)
<1>1. /\ Len(q) \in Nat /\ Len(r) = Len(q) + 1
      /\ r[Len(q) + 1] = m /\ \A k \in 1 .. Len(q) : r[k] = q[k]
  BY AppendFacts
<1> HIDE DEF r
<1> SUFFICES ASSUME NEW j \in 1 .. Len(r), NEW k \in 1 .. Len(r),
                    j < k, Is(r[j], type, c), Is(r[k], type, c)
             PROVE  r[j].n < r[k].n
  BY DEF Sorted, r
<1>2. j \in 1 .. Len(q) /\ (k \in 1 .. Len(q) \/ k = Len(q) + 1)
  BY <1>1
<1>3. CASE k \in 1 .. Len(q)
  BY <1>1, <1>2, <1>3 DEF Sorted
<1>4. CASE k = Len(q) + 1
  <2>1. r[j].n \in Nums(q, type, c)
    BY <1>1, <1>2 DEF Nums
  <2> QED BY <1>1, <1>4, <2>1
<1> QED BY <1>2, <1>3, <1>4

LEMMA SortedTail ==
    ASSUME NEW S, NEW q \in Seq(S), q # <<>>, NEW type, NEW c, Sorted(q, type, c)
    PROVE  /\ Sorted(Tail(q), type, c)
           /\ Is(Head(q), type, c) => \A x \in Nums(Tail(q), type, c) : Head(q).n < x
<1> DEFINE r == Tail(q)
<1>1. /\ Len(q) \in Nat /\ Len(q) >= 1 /\ Len(r) = Len(q) - 1
      /\ Head(q) = q[1] /\ \A k \in 1 .. Len(r) : r[k] = q[k + 1]
  BY TailFacts
<1>2. \A k \in 1 .. Len(r) : k + 1 \in 1 .. Len(q) /\ 1 < k + 1
  BY <1>1
<1>3. \A j, k \in 1 .. Len(r) : j < k => j + 1 < k + 1
  BY <1>1
<1>0. 1 \in 1 .. Len(q)
  BY <1>1
<1> HIDE DEF r
<1>4. Sorted(r, type, c)
  <2> SUFFICES ASSUME NEW j \in 1 .. Len(r), NEW k \in 1 .. Len(r),
                      j < k, Is(r[j], type, c), Is(r[k], type, c)
               PROVE  r[j].n < r[k].n
    BY DEF Sorted
  <2> QED BY <1>1, <1>2, <1>3 DEF Sorted
<1>5. ASSUME Is(Head(q), type, c), NEW x \in Nums(r, type, c)
      PROVE  Head(q).n < x
  <2>1. PICK k \in 1 .. Len(r) : Is(r[k], type, c) /\ x = r[k].n
    BY <1>5 DEF Nums
  <2>2. Is(q[1], type, c) /\ Is(q[k + 1], type, c) /\ x = q[k + 1].n
    BY <1>1, <1>5, <2>1
  <2> QED BY <1>0, <1>1, <1>2, <2>2 DEF Sorted
<1> QED BY <1>4, <1>5 DEF r

-----------------------------------------------------------------------------
\* Counting the messages of one kind in a queue
Places(q, type, c) == {k \in 1 .. Len(q) : Is(q[k], type, c)}

One(m, type, c) == IF Is(m, type, c) THEN 1 ELSE 0

LEMMA CountPlaces ==
    ASSUME NEW S, NEW q \in Seq(S), NEW type, NEW c
    PROVE  /\ Count(q, type, c) = Cardinality(Places(q, type, c))
           /\ IsFiniteSet(Places(q, type, c))
           /\ Count(q, type, c) \in Nat
<1>1. Len(q) \in Nat
  OBVIOUS
<1>2. IsFiniteSet(1 .. Len(q))
  BY <1>1, FS_Interval
<1>3. IsFiniteSet(Places(q, type, c))
  BY <1>2, FS_Subset DEF Places
<1>4. Count(q, type, c) = Cardinality(Places(q, type, c))
  BY DEF Count, Places, Is
<1> QED BY <1>3, <1>4, FS_CardinalityType

LEMMA CountEmpty ==
    ASSUME NEW type, NEW c
    PROVE  Count(<<>>, type, c) = 0
<1>1. Places(<<>>, type, c) = {}
  BY DEF Places
<1>2. Count(<<>>, type, c) = Cardinality(Places(<<>>, type, c))
  BY DEF Count, Places, Is
<1> QED BY <1>1, <1>2, FS_EmptySet

LEMMA CountAppend ==
    ASSUME NEW S, NEW q \in Seq(S), NEW m \in S, NEW type, NEW c
    PROVE  Count(Append(q, m), type, c) = Count(q, type, c) + One(m, type, c)
<1> DEFINE r == Append(q, m)
<1>1. /\ r \in Seq(S) /\ Len(q) \in Nat /\ Len(r) = Len(q) + 1
      /\ r[Len(q) + 1] = m /\ \A k \in 1 .. Len(q) : r[k] = q[k]
  BY AppendFacts
<1> HIDE DEF r
<1>2. \A k \in 1 .. Len(r) : k \in 1 .. Len(q) \/ k = Len(q) + 1
  BY <1>1
<1>3. \A k \in 1 .. Len(q) : k \in 1 .. Len(r)
  BY <1>1
<1>4. Len(q) + 1 \in 1 .. Len(r) /\ Len(q) + 1 \notin 1 .. Len(q)
  BY <1>1
<1>5. Is(m, type, c) => Places(r, type, c) = Places(q, type, c) \cup {Len(q) + 1}
  BY <1>1, <1>2, <1>3, <1>4 DEF Places
<1>6. ~Is(m, type, c) => Places(r, type, c) = Places(q, type, c)
  BY <1>1, <1>2, <1>3, <1>4 DEF Places
<1>7. Len(q) + 1 \notin Places(q, type, c)
  BY <1>4 DEF Places
<1>8. Is(m, type, c) =>
        Cardinality(Places(r, type, c)) = Cardinality(Places(q, type, c)) + 1
  BY <1>5, <1>7, CountPlaces, FS_AddElement
<1>9. /\ Count(q, type, c) = Cardinality(Places(q, type, c)) /\ Count(q, type, c) \in Nat
      /\ Count(r, type, c) = Cardinality(Places(r, type, c))
  BY <1>1, CountPlaces
<1> QED BY <1>6, <1>8, <1>9 DEF One, r

LEMMA CountTail ==
    ASSUME NEW S, NEW q \in Seq(S), q # <<>>, NEW type, NEW c
    PROVE  Count(q, type, c) = Count(Tail(q), type, c) + One(Head(q), type, c)
<1> DEFINE r == Tail(q)
           Q == Places(q, type, c) \ {1}
           R == Places(r, type, c)
<1>1. /\ r \in Seq(S) /\ Len(q) \in Nat /\ Len(q) >= 1 /\ Len(r) = Len(q) - 1
      /\ Head(q) = q[1] /\ \A k \in 1 .. Len(r) : r[k] = q[k + 1]
  BY TailFacts
<1> HIDE DEF r
<1>2. \A k \in R : k \in Nat /\ k + 1 \in Q
  BY <1>1 DEF Places
<1>3. \A k \in Q : k - 1 \in R /\ (k - 1) + 1 = k
  BY <1>1 DEF Places
<1> DEFINE shift == [k \in R |-> k + 1]
<1>4. ExistsBijection(R, Q)
  <2>1. shift \in Bijection(R, Q)
    <3>1. shift \in [R -> Q]
      BY <1>2
    <3>2. \A j, k \in R : shift[j] = shift[k] => j = k
      BY <1>2
    <3>3. \A k \in Q : \E j \in R : shift[j] = k
      BY <1>3
    <3> QED BY <3>1, <3>2, <3>3, Fun_IsBij
  <2> QED BY <2>1 DEF ExistsBijection
<1>5. Cardinality(R) = Cardinality(Q)
  BY <1>1, <1>4, CountPlaces, FS_Bijection
<1>6. /\ Count(q, type, c) = Cardinality(Places(q, type, c)) /\ Count(q, type, c) \in Nat
      /\ Count(r, type, c) = Cardinality(R) /\ Count(r, type, c) \in Nat
      /\ IsFiniteSet(Places(q, type, c))
  BY <1>1, CountPlaces
<1>7. Cardinality(Q) =
        IF 1 \in Places(q, type, c) THEN Cardinality(Places(q, type, c)) - 1
        ELSE Cardinality(Places(q, type, c))
  BY <1>6, FS_RemoveElement
<1>8. 1 \in Places(q, type, c) <=> Is(Head(q), type, c)
  BY <1>1 DEF Places
<1> HIDE DEF Q, R
<1> QED BY <1>5, <1>6, <1>7, <1>8 DEF One, r

-----------------------------------------------------------------------------
\* Two queues in a row hold the payloads after base up to top, each once and in
\* order: those that went on to q before those that are still in r.
Chain(base, q, r, type, c, top) ==
    /\ Sorted(q, type, c) /\ Sorted(r, type, c)
    /\ \E mid \in base .. top :
         Nums(q, type, c) = (base + 1) .. mid /\ Nums(r, type, c) = (mid + 1) .. top

\* The least of an interval, and one more at its end
LEMMA IntervalTake ==
    ASSUME NEW a \in Nat, NEW b \in Nat, NEW m, NEW rest,
           (a + 1) .. b = rest \cup {m}, \A x \in rest : m < x
    PROVE  m = a + 1 /\ a + 1 <= b /\ rest = (a + 2) .. b
<1>1. m \in Nat /\ a + 1 <= m /\ m <= b
  OBVIOUS
<1>2. a + 1 \in (a + 1) .. b
  BY <1>1
<1>3. a + 1 \in rest => m < a + 1
  OBVIOUS
<1>4. m = a + 1
  BY <1>1, <1>2, <1>3
<1>5. \A x \in rest : x \in (a + 1) .. b /\ a + 1 < x
  BY <1>4
<1>6. \A x \in (a + 2) .. b : x \in (a + 1) .. b /\ x # a + 1
  OBVIOUS
<1>7. \A x \in (a + 2) .. b : x \in rest
  BY <1>4, <1>6
<1>8. \A x \in rest : x \in (a + 2) .. b
  BY <1>5
<1> QED BY <1>1, <1>4, <1>7, <1>8

LEMMA IntervalGrow ==
    /\ \A a, b \in Nat : a <= b => ((a + 1) .. b) \cup {b + 1} = (a + 1) .. (b + 1)
    /\ \A a \in Nat : (a + 1) .. a = {}
OBVIOUS

\* The first message of the front queue is the next payload, or none at all.
LEMMA ChainTake ==
    ASSUME NEW S, NEW q \in Seq(S), NEW r, NEW type, NEW c, NEW base \in Nat, NEW top \in Nat,
           q # <<>>, Chain(base, q, r, type, c, top)
    PROVE  /\ Is(Head(q), type, c) =>
                Head(q).n = base + 1 /\ base + 1 <= top /\ Chain(base + 1, Tail(q), r, type, c, top)
           /\ ~Is(Head(q), type, c) => Chain(base, Tail(q), r, type, c, top)
<1>1. PICK mid \in base .. top :
        Nums(q, type, c) = (base + 1) .. mid /\ Nums(r, type, c) = (mid + 1) .. top
  BY DEF Chain
<1>2. Sorted(q, type, c) /\ Sorted(r, type, c)
  BY DEF Chain
<1>3. /\ Sorted(Tail(q), type, c)
      /\ Is(Head(q), type, c) => \A x \in Nums(Tail(q), type, c) : Head(q).n < x
  BY <1>2, SortedTail
<1>4. ASSUME Is(Head(q), type, c)
      PROVE  Head(q).n = base + 1 /\ base + 1 <= top /\ Chain(base + 1, Tail(q), r, type, c, top)
  <2>1. (base + 1) .. mid = Nums(Tail(q), type, c) \cup {Head(q).n}
    BY <1>1, <1>4, NumsTail
  <2>2. mid \in Nat /\ mid <= top
    BY <1>1
  <2>3. Head(q).n = base + 1 /\ base + 1 <= mid /\ Nums(Tail(q), type, c) = (base + 2) .. mid
    BY <1>3, <1>4, <2>1, <2>2, IntervalTake
  <2>4. mid \in base + 1 .. top /\ (base + 1) + 1 = base + 2 /\ base + 1 <= top
    BY <2>2, <2>3
  <2> QED BY <1>1, <1>2, <1>3, <2>3, <2>4 DEF Chain
<1>5. ASSUME ~Is(Head(q), type, c)
      PROVE  Chain(base, Tail(q), r, type, c, top)
  BY <1>1, <1>2, <1>3, <1>5, NumsTail DEF Chain
<1> QED BY <1>4, <1>5

\* A message goes from the back queue to the front queue, or is something else.
LEMMA ChainMove ==
    ASSUME NEW S, NEW q \in Seq(S), NEW T, NEW r \in Seq(T), NEW type, NEW c,
           NEW base \in Nat, NEW top \in Nat, r # <<>>, Chain(base, q, r, type, c, top)
    PROVE  /\ Head(r) \in S => Chain(base, Append(q, Head(r)), Tail(r), type, c, top)
           /\ ~Is(Head(r), type, c) => Chain(base, q, Tail(r), type, c, top)
<1>1. PICK mid \in base .. top :
        Nums(q, type, c) = (base + 1) .. mid /\ Nums(r, type, c) = (mid + 1) .. top
  BY DEF Chain
<1>2. Sorted(q, type, c) /\ Sorted(r, type, c)
  BY DEF Chain
<1>3. /\ Sorted(Tail(r), type, c)
      /\ Is(Head(r), type, c) => \A x \in Nums(Tail(r), type, c) : Head(r).n < x
  BY <1>2, SortedTail
<1>4. ASSUME ~Is(Head(r), type, c)
      PROVE  Chain(base, q, Tail(r), type, c, top)
  BY <1>1, <1>2, <1>3, <1>4, NumsTail DEF Chain
<1>5. ASSUME Head(r) \in S, ~Is(Head(r), type, c)
      PROVE  Chain(base, Append(q, Head(r)), Tail(r), type, c, top)
  <2>1. Nums(Append(q, Head(r)), type, c) = Nums(q, type, c)
    BY <1>5, NumsAppend
  <2>2. Sorted(Append(q, Head(r)), type, c)
    BY <1>2, <1>5, SortedAppend
  <2>3. Nums(Tail(r), type, c) = Nums(r, type, c)
    BY <1>5, NumsTail
  <2> QED BY <1>1, <1>3, <2>1, <2>2, <2>3 DEF Chain
<1>6. ASSUME Head(r) \in S, Is(Head(r), type, c)
      PROVE  Chain(base, Append(q, Head(r)), Tail(r), type, c, top)
  <2>1. (mid + 1) .. top = Nums(Tail(r), type, c) \cup {Head(r).n}
    BY <1>1, <1>6, NumsTail
  <2>2. mid \in Nat /\ base <= mid /\ mid <= top
    BY <1>1
  <2>3. Head(r).n = mid + 1 /\ mid + 1 <= top /\ Nums(Tail(r), type, c) = (mid + 2) .. top
    BY <1>3, <1>6, <2>1, <2>2, IntervalTake
  <2>4. Nums(Append(q, Head(r)), type, c) = (base + 1) .. (mid + 1)
    <3>1. Nums(Append(q, Head(r)), type, c) = ((base + 1) .. mid) \cup {mid + 1}
      BY <1>1, <1>6, <2>3, NumsAppend
    <3> QED BY <2>2, <3>1, IntervalGrow
  <2>5. \A x \in Nums(q, type, c) : x < Head(r).n
    BY <1>1, <2>2, <2>3
  <2>6. Sorted(Append(q, Head(r)), type, c)
    BY <1>2, <1>6, <2>5, SortedAppend
  <2>7. mid + 1 \in base .. top /\ (mid + 1) + 1 = mid + 2
    BY <2>2, <2>3
  <2> QED BY <1>3, <2>3, <2>4, <2>6, <2>7 DEF Chain
<1> QED BY <1>4, <1>5, <1>6

\* The next payload, or something else, enters the back queue.
LEMMA ChainExtend ==
    ASSUME NEW S, NEW r \in Seq(S), NEW m \in S, NEW q, NEW type, NEW c,
           NEW base \in Nat, NEW top \in Nat, Chain(base, q, r, type, c, top)
    PROVE  /\ Is(m, type, c) /\ m.n = top + 1 => Chain(base, q, Append(r, m), type, c, top + 1)
           /\ ~Is(m, type, c) => Chain(base, q, Append(r, m), type, c, top)
<1>1. PICK mid \in base .. top :
        Nums(q, type, c) = (base + 1) .. mid /\ Nums(r, type, c) = (mid + 1) .. top
  BY DEF Chain
<1>2. Sorted(q, type, c) /\ Sorted(r, type, c)
  BY DEF Chain
<1>3. ASSUME ~Is(m, type, c)
      PROVE  Chain(base, q, Append(r, m), type, c, top)
  BY <1>1, <1>2, <1>3, NumsAppend, SortedAppend DEF Chain
<1>4. ASSUME Is(m, type, c), m.n = top + 1
      PROVE  Chain(base, q, Append(r, m), type, c, top + 1)
  <2>1. mid \in Nat /\ base <= mid /\ mid <= top
    BY <1>1
  <2>2. Nums(Append(r, m), type, c) = ((mid + 1) .. top) \cup {top + 1}
    BY <1>1, <1>4, NumsAppend
  <2>3. Nums(Append(r, m), type, c) = (mid + 1) .. (top + 1)
    BY <2>1, <2>2, IntervalGrow
  <2>4. \A x \in Nums(r, type, c) : x < m.n
    BY <1>1, <1>4, <2>1
  <2>5. Sorted(Append(r, m), type, c)
    BY <1>2, <1>4, <2>4, SortedAppend
  <2>6. mid \in base .. top + 1
    BY <2>1
  <2> QED BY <1>1, <1>2, <2>3, <2>5, <2>6 DEF Chain
<1> QED BY <1>3, <1>4

\* Nothing has been sent, and what is in front when the back queue no longer counts
LEMMA ChainEnds ==
    ASSUME NEW type, NEW c, NEW base \in Nat
    PROVE  /\ \A r : (\A k \in 1 .. Len(r) : ~Is(r[k], type, c)) => Chain(base, <<>>, r, type, c, base)
           /\ \A q, r : \A top \in Nat : Chain(base, q, r, type, c, top) =>
                \E t \in base .. top : Chain(base, q, <<>>, type, c, t)
<1>1. ASSUME NEW r, \A k \in 1 .. Len(r) : ~Is(r[k], type, c)
      PROVE  Chain(base, <<>>, r, type, c, base)
  <2>1. Nums(r, type, c) = {} /\ Sorted(r, type, c)
    BY <1>1 DEF Nums, Sorted
  <2>2. base \in base .. base
    OBVIOUS
  <2> QED BY <2>1, <2>2, EmptyLine, IntervalGrow DEF Chain
<1>2. ASSUME NEW q, NEW r, NEW top \in Nat, Chain(base, q, r, type, c, top)
      PROVE  \E t \in base .. top : Chain(base, q, <<>>, type, c, t)
  <2>1. PICK mid \in base .. top : Nums(q, type, c) = (base + 1) .. mid
    BY <1>2 DEF Chain
  <2>2. Sorted(q, type, c)
    BY <1>2 DEF Chain
  <2>3. mid \in Nat /\ mid \in base .. mid
    BY <2>1
  <2>4. Chain(base, q, <<>>, type, c, mid)
    BY <2>1, <2>2, <2>3, EmptyLine, IntervalGrow DEF Chain
  <2> QED BY <2>1, <2>4
<1> QED BY <1>1, <1>2

-----------------------------------------------------------------------------
\* The two ends with what is proved of them
InP == INSTANCE Inlet_proofs WITH
         stopPc <- iStop, cur <- iCur, flow <- iFlow, inputQ <- iQ, conn <- iConn,
         up <- iUp, down <- iDown

OutP == INSTANCE Outlet_proofs WITH
         Attempts <- Ids, stopPc <- oStop, cur <- oCur, flow <- oFlow, inputQ <- oQ, conn <- oConn,
         up <- oUp, down <- oDown

LEMMA SameInlet == (In!Init => InP!Init) /\ (In!Next => InP!Next)
BY DEF In!Init, InP!Init, In!Next, InP!Next, In!stopVars, InP!stopVars, In!sessVars, InP!sessVars,
       In!goVars, InP!goVars, In!dataVars, InP!dataVars, In!Closed, InP!Closed, In!StopChClosed,
       InP!StopChClosed, In!Stopped, InP!Stopped, In!ListenerClosed, InP!ListenerClosed, In!Connect,
       InP!Connect, In!SendData, InP!SendData, In!RecvResult, InP!RecvResult, In!Disconnect,
       InP!Disconnect, In!Output, InP!Output, In!ReleaseSlot, InP!ReleaseSlot, In!Remove, InP!Remove,
       In!MainCloses, InP!MainCloses, In!LoopCloses, InP!LoopCloses, In!Accept, InP!Accept, In!AcceptEnds,
       InP!AcceptEnds, In!Reserve, InP!Reserve, In!Spawn, InP!Spawn, In!Insert, InP!Insert, In!StartLoop,
       InP!StartLoop, In!OnStart, InP!OnStart, In!AwaitReady, InP!AwaitReady, In!AwaitFails,
       InP!AwaitFails, In!ReadPayload, InP!ReadPayload, In!ReadFails, InP!ReadFails, In!LockPeerData,
       InP!LockPeerData, In!SendPeerData, InP!SendPeerData, In!PeerDataFails, InP!PeerDataFails, In!Pop,
       InP!Pop, In!OnConnected, InP!OnConnected, In!OnRefusedOrDisconnect, InP!OnRefusedOrDisconnect,
       In!OnRecvData, InP!OnRecvData, In!Acknowledge, InP!Acknowledge, In!WriteDone, InP!WriteDone,
       In!WriteFails, InP!WriteFails, In!InputIdle, InP!InputIdle, In!Full, InP!Full, In!Overflow,
       InP!Overflow, In!Input, InP!Input, In!Turn, InP!Turn, In!ShutClose, InP!ShutClose, In!ShutBye,
       InP!ShutBye, In!ShutConn, InP!ShutConn, In!ShutSlot, InP!ShutSlot, In!StopBegin, InP!StopBegin,
       In!StopMark, InP!StopMark, In!StopListener, InP!StopListener, In!GoroutinesGone, InP!GoroutinesGone,
       In!StopReturn, InP!StopReturn, In!ClientCloses, InP!ClientCloses, In!Shutdown, InP!Shutdown,
       In!MainStep, InP!MainStep, In!LoopStep, InP!LoopStep

LEMMA SameOutlet == (Out!Init => OutP!Init) /\ (Out!Next => OutP!Next)
BY DEF Out!Init, OutP!Init, Out!Next, OutP!Next, Out!NotClosing, OutP!NotClosing, Out!mapVars,
       OutP!mapVars, Out!goVars, OutP!goVars, Out!workVars, OutP!workVars, Out!endVars, OutP!endVars,
       Out!dataVars, OutP!dataVars, Out!countVars, OutP!countVars, Out!Stopped, OutP!Stopped,
       Out!Connected, OutP!Connected, Out!RecvData, OutP!RecvData, Out!SendDataResult, OutP!SendDataResult,
       Out!Disconnect, OutP!Disconnect, Out!Output, OutP!Output, Out!End, OutP!End, Out!Detach,
       OutP!Detach, Out!DetachAndClose, OutP!DetachAndClose, Out!CloseConn, OutP!CloseConn, Out!SayBye,
       OutP!SayBye, Out!InputIdle, OutP!InputIdle, Out!Takes, OutP!Takes, Out!InConnect, OutP!InConnect,
       Out!Full, OutP!Full, Out!Overflow, OutP!Overflow, Out!PushOrTerminate, OutP!PushOrTerminate,
       Out!InSendData, OutP!InSendData, Out!CancelAttempt, OutP!CancelAttempt, Out!InDisconnect,
       OutP!InDisconnect, Out!InRecvResult, OutP!InRecvResult, Out!Dial, OutP!Dial, Out!DialFails,
       OutP!DialFails, Out!Refuse, OutP!Refuse, Out!MayInstall, OutP!MayInstall, Out!Install, OutP!Install,
       Out!Announce, OutP!Announce, Out!Finish, OutP!Finish, Out!Dequeue, OutP!Dequeue, Out!Pop, OutP!Pop,
       Out!TakeSendData, OutP!TakeSendData, Out!WriteDone, OutP!WriteDone, Out!WorkerEnds, OutP!WorkerEnds,
       Out!WriteFails, OutP!WriteFails, Out!TakeDisconnect, OutP!TakeDisconnect, Out!ReaderGoes,
       OutP!ReaderGoes, Out!Read, OutP!Read, Out!ReadFails, OutP!ReadFails, Out!AcquireCredit,
       OutP!AcquireCredit, Out!Emit, OutP!Emit, Out!ReaderRemoves, OutP!ReaderRemoves, Out!ReaderSaysBye,
       OutP!ReaderSaysBye, Out!ReaderCloses, OutP!ReaderCloses, Out!StopMark, OutP!StopMark, Out!StopEnds,
       OutP!StopEnds, Out!StopReturn, OutP!StopReturn, Out!TargetCloses, OutP!TargetCloses, Out!Input,
       OutP!Input, Out!GoStep, OutP!GoStep, Out!WorkerStep, OutP!WorkerStep, Out!ReaderStep,
       OutP!ReaderStep, Out!CloseStep, OutP!CloseStep

LEMMA SameMessages == InP!Sends = OutP!FromInlet /\ OutP!Sends = InP!InMessages
BY DEF InP!Sends, OutP!FromInlet, OutP!Sends, InP!InMessages

\* The constants meet what each end assumes of them.
LEMMA EndsAssumed ==
    /\ InP!IsFiniteSet(Ids)
    /\ MaxSlots \in Nat /\ QueueCap \in Nat \ {0}
    /\ Window \in Nat \ {0} /\ MaxUp \in Nat /\ MaxDown \in Nat
    /\ None \notin Ids
BY TunnelAssumption DEF InP!IsFiniteSet, IsFiniteSet

InletMoves == InP!Next /\ OutP!AnyInlet /\ UNCHANGED outletVars
OutletMoves == OutP!Next /\ InP!AnyOutlet /\ UNCHANGED inletVars

\* A step of one end is, for the other, one of an end of which nothing is known.
LEMMA EitherMoves ==
    ASSUME InP!InletInv, OutP!OutletInv, Next
    PROVE  InletMoves \/ OutletMoves
<1>1. CASE In!Next /\ UNCHANGED outletVars
  <2>1. InP!Next
    BY <1>1, SameInlet
  <2>2. i2o' = i2o \/ \E m \in InP!Sends : i2o' = Append(i2o, m)
    BY <2>1, EndsAssumed, InP!OneSent DEF InP!InletInv, InP!SlotInv
  <2>3. o2i' = o2i \/ (o2i # <<>> /\ o2i' = Tail(o2i))
    BY <2>1, EndsAssumed, InP!OneTaken
  <2>4. OutP!AnyInlet
    BY <1>1, <2>2, <2>3, SameMessages
       DEF OutP!AnyInlet, outletVars, OutP!mapVars, OutP!goVars, OutP!workVars, OutP!endVars, OutP!dataVars,
           OutP!countVars
  <2> QED BY <1>1, <2>1, <2>4 DEF InletMoves
<1>2. CASE Out!Next /\ UNCHANGED inletVars
  <2>1. OutP!Next
    BY <1>2, SameOutlet
  <2>2. o2i' = o2i \/ \E m \in OutP!Sends : o2i' = Append(o2i, m)
    BY <2>1, EndsAssumed, OutP!OneSent DEF OutP!OutletInv
  <2>3. i2o' = i2o \/ (i2o # <<>> /\ i2o' = Tail(i2o))
    BY <2>1, EndsAssumed, OutP!OneTaken
  <2>4. InP!AnyOutlet
    BY <1>2, <2>2, <2>3, SameMessages
       DEF InP!AnyOutlet, inletVars, InP!stopVars, InP!sessVars, InP!goVars, InP!dataVars
  <2> QED BY <1>2, <2>1, <2>4 DEF OutletMoves
<1> QED BY <1>1, <1>2 DEF Next

-----------------------------------------------------------------------------
\* An id has one attempt: it is connected once, when its session is past onStart.
Once ==
    /\ \A c \in Ids : main[c] \in InP!Early => ~HasAttempt(c)
    /\ \A k \in 1 .. Len(i2o) : i2o[k].type = "I2OConnect" => ~HasAttempt(i2o[k].id)
    /\ \A a, b \in Ids : idOf[a] # None /\ idOf[a] = idOf[b] => a = b

Ends == InP!InletInv /\ OutP!OutletInv /\ Once

\* An attempt has the id it was started for, and none before.
LEMMA IdsBegun ==
    ASSUME OutP!OutletInv, NEW a \in Ids
    PROVE  /\ idOf[a] \in Ids \cup {None}
           /\ go[a] # "none" <=> idOf[a] \in Ids
           /\ go[a] # "none" <=> idOf[a] # None
BY TunnelAssumption
   DEF OutP!OutletInv, OutP!ManagedInv, OutP!Typed, OutP!Located, OutP!InHand, OutP!Begun

LEMMA OnePerId == OutP!OutletInv /\ Once => OutP!OneAttemptPerId
BY IdsBegun DEF Once, OutP!OneAttemptPerId

LEMMA EndsInit == Init => Ends
<1> SUFFICES ASSUME Init PROVE Ends
  OBVIOUS
<1>1. InP!InletInv /\ OutP!OutletInv
  BY EndsAssumed, SameInlet, SameOutlet, InP!InletInvInit, OutP!OutletInvInit DEF Init
<1>2. i2o = <<>> /\ idOf = [a \in Ids |-> None]
  BY DEF Init, Out!Init
<1>3. Len(i2o) = 0 /\ \A c \in Ids : ~HasAttempt(c)
  BY <1>2, TunnelAssumption DEF HasAttempt
<1> QED BY <1>1, <1>2, <1>3 DEF Ends, Once

\* A step of the inlet does not touch the attempts; its connects are for ids that have none.
LEMMA InletKeepsOnce ==
    ASSUME Ends, InletMoves
    PROVE  Once'
<1>1. idOf' = idOf /\ InP!Next
  BY DEF InletMoves, outletVars
<1>2. \A c \in Ids : main'[c] \in InP!Early => main[c] \in InP!Early
  BY <1>1, EndsAssumed, InP!SessionAdvances DEF Ends, InP!InletInv, InP!Advances
<1>3. i2o \in Seq(InP!Sends) /\ \A c \in Ids : HasAttempt(c)' <=> HasAttempt(c)
  BY <1>1 DEF Ends, InP!InletInv, InP!Sent, HasAttempt
<1>4. ASSUME NEW k \in 1 .. Len(i2o'), i2o'[k].type = "I2OConnect", i2o'[k].id \in Ids
      PROVE  ~HasAttempt(i2o'[k].id)
  <2>1. CASE i2o' = i2o
    BY <1>4, <2>1 DEF Ends, Once
  <2>2. ASSUME NEW m \in InP!Sends, i2o' = Append(i2o, m)
        PROVE  ~HasAttempt(i2o'[k].id)
    <3>1. CASE k \in 1 .. Len(i2o)
      <4>1. i2o'[k] = i2o[k]
        BY <1>3, <2>2, <3>1, AppendFacts
      <4> QED BY <1>4, <3>1, <4>1 DEF Ends, Once
    <3>2. CASE k = Len(i2o) + 1
      <4>1. i2o'[k] = m
        BY <1>3, <2>2, <3>2, AppendFacts
      <4>2. main[m.id] \in InP!Early
        BY <1>1, <1>4, <2>2, <4>1, EndsAssumed, InP!WhoSpeaks DEF Ends, InP!InletInv
      <4> QED BY <1>4, <4>1, <4>2 DEF Ends, Once
    <3> QED BY <1>3, <2>2, <3>1, <3>2, AppendFacts
  <2>3. i2o' = i2o \/ \E m \in InP!Sends : i2o' = Append(i2o, m)
    BY <1>1, EndsAssumed, InP!OneSent DEF Ends, InP!InletInv, InP!SlotInv
  <2> QED BY <2>1, <2>2, <2>3
<1>5. i2o' \in Seq(InP!Sends)
  BY <1>1, EndsAssumed, InP!SentStep DEF Ends, InP!InletInv, InP!SlotInv, InP!Sent
<1>6. \A k \in 1 .. Len(i2o') : i2o'[k].id \in Ids
  BY <1>5 DEF InP!Sends
<1> QED BY <1>1, <1>2, <1>3, <1>4, <1>6 DEF Ends, Once

\* An attempt begins with the one connect of an id that has none yet.
LEMMA OutletKeepsOnce ==
    ASSUME Ends, OutletMoves
    PROVE  Once'
<1>1. main' = main /\ OutP!Next
  BY DEF OutletMoves, inletVars
<1>2. i2o \in Seq(InP!Sends) /\ InP!Asked
  BY DEF Ends, InP!InletInv, InP!Sent, InP!Reasons
<1>3. \A k \in 1 .. Len(i2o) : i2o[k].id \in Ids
  BY <1>2 DEF InP!Sends
<1>4. \A a \in Ids : /\ idOf[a] # None => idOf'[a] = idOf[a]
                     /\ idOf[a] = None => OutP!Begins(a) \/ idOf'[a] = None
  <2>1. OutP!ManagedInv /\ OutP!Begun /\ OutP!Typed
    BY DEF Ends, OutP!OutletInv, OutP!ManagedInv
  <2>2. ASSUME NEW a \in Ids, idOf[a] # None PROVE idOf'[a] = idOf[a]
    BY <1>1, <2>1, <2>2, EndsAssumed, IdsBegun, OutP!AttemptPersists DEF Ends
  <2>3. ASSUME NEW a \in Ids, idOf[a] = None PROVE OutP!Begins(a) \/ idOf'[a] = None
    BY <1>1, <2>1, <2>3, EndsAssumed, IdsBegun, OutP!AttemptBegins DEF Ends
  <2> QED BY <2>2, <2>3
<1>5. i2o' = i2o \/ (i2o # <<>> /\ i2o' = Tail(i2o))
  BY <1>1, EndsAssumed, OutP!OneTaken
<1>6. ASSUME \A a \in Ids : idOf'[a] = idOf[a] PROVE Once'
  <2>1. \A c \in Ids : HasAttempt(c)' <=> HasAttempt(c)
    BY <1>6 DEF HasAttempt
  <2>2. \A k \in 1 .. Len(i2o') : \E j \in 1 .. Len(i2o) : i2o'[k] = i2o[j]
    BY <1>2, <1>5, TailFacts
  <2>3. \A k \in 1 .. Len(i2o') : i2o'[k].type = "I2OConnect" => \A b \in Ids : idOf'[b] # i2o'[k].id
    BY <1>6, <2>2 DEF Ends, Once, HasAttempt
  <2>4. \A c \in Ids : main'[c] \in InP!Early => ~HasAttempt(c)'
    BY <1>1, <2>1 DEF Ends, Once
  <2>5. \A a, b \in Ids : idOf'[a] # None /\ idOf'[a] = idOf'[b] => a = b
    BY <1>6 DEF Ends, Once
  <2> QED BY <2>3, <2>4, <2>5 DEF Once, HasAttempt
<1>7. ASSUME NEW a \in Ids, idOf[a] = None, OutP!Begins(a) PROVE Once'
  <2>1. PICK d \in Ids : d = Head(i2o).id /\ idOf' = [idOf EXCEPT ![a] = d] /\ i2o # <<>> /\ i2o' = Tail(i2o)
                           /\ Head(i2o).type = "I2OConnect"
    <3>1. i2o # <<>> /\ Head(i2o).id \in Ids
      BY <1>2, <1>3, <1>7, TailFacts DEF OutP!Begins
    <3> QED BY <1>7, <3>1 DEF OutP!Begins
  <2>2. idOf \in [Ids -> Ids \cup {None}]
    BY DEF Ends, OutP!OutletInv, OutP!ManagedInv, OutP!Typed, OutP!Located
  <2>3. Head(i2o) = i2o[1] /\ 1 \in 1 .. Len(i2o) /\ Len(i2o) \in Nat
          /\ \A k \in 1 .. Len(i2o') : i2o'[k] = i2o[k + 1] /\ k + 1 \in 1 .. Len(i2o) /\ k + 1 # 1
    BY <1>2, <2>1, TailFacts
  <2>4. ~HasAttempt(d) /\ main[d] \notin InP!Early
    BY <1>2, <2>1, <2>3 DEF Ends, Once, InP!Asked
  <2>5. \A c \in Ids : HasAttempt(c)' => HasAttempt(c) \/ c = d
    BY <2>1, <2>2 DEF HasAttempt
  <2>6. \A c \in Ids : main'[c] \in InP!Early => ~HasAttempt(c)'
    BY <1>1, <2>4, <2>5 DEF Ends, Once
  <2>7. ASSUME NEW k \in 1 .. Len(i2o'), i2o'[k].type = "I2OConnect" 
        PROVE  \A b \in Ids : idOf'[b] # i2o'[k].id
    <3>1. i2o'[k].id \in Ids /\ ~HasAttempt(i2o'[k].id)
      BY <1>3, <2>3, <2>7 DEF Ends, Once
    <3>2. i2o'[k].id # d
      BY <1>2, <2>1, <2>3, <2>7 DEF InP!Asked
    <3> QED BY <2>1, <2>2, <3>1, <3>2 DEF HasAttempt
  <2>8. \A b, e \in Ids : idOf'[b] # None /\ idOf'[b] = idOf'[e] => b = e
    BY <2>1, <2>2, <2>4 DEF HasAttempt, Ends, Once
  <2> QED BY <2>6, <2>7, <2>8 DEF Once, HasAttempt
<1> QED BY <1>4, <1>6, <1>7

LEMMA EndsStep == Ends /\ [Next]_vars => Ends'
<1>1. ASSUME Ends, InletMoves PROVE Ends'
  <2>1. InP!InletInv'
    BY <1>1, EndsAssumed, InP!InletInvStep DEF Ends, InletMoves
  <2>2. OutP!OutletInv'
    BY <1>1, EndsAssumed, OnePerId, OutP!OutletInvStep DEF Ends, InletMoves
  <2> QED BY <1>1, <2>1, <2>2, InletKeepsOnce DEF Ends
<1>2. ASSUME Ends, OutletMoves PROVE Ends'
  <2>1. InP!InletInv'
    BY <1>2, EndsAssumed, InP!InletInvStep DEF Ends, OutletMoves
  <2>2. OutP!OutletInv'
    BY <1>2, EndsAssumed, OnePerId, OutP!OutletInvStep DEF Ends, OutletMoves
  <2> QED BY <1>2, <2>1, <2>2, OutletKeepsOnce DEF Ends
<1>3. ASSUME Ends, UNCHANGED vars PROVE Ends'
  <2>1. InP!InletInv'
    <3>1. UNCHANGED InP!vars
      BY <1>3 DEF vars, inletVars, InP!vars, InP!stopVars, InP!sessVars, InP!goVars, InP!dataVars
    <3> QED BY <1>3, <3>1, EndsAssumed, InP!InletInvStep DEF Ends
  <2>2. OutP!OutletInv'
    <3>1. UNCHANGED OutP!vars
      BY <1>3 DEF vars, outletVars, OutP!vars, OutP!mapVars, OutP!goVars, OutP!workVars, OutP!endVars,
                  OutP!dataVars, OutP!countVars
    <3> QED BY <1>3, <3>1, EndsAssumed, OnePerId, OutP!OutletInvStep DEF Ends
  <2>3. Once'
    BY <1>3 DEF vars, inletVars, outletVars, Ends, Once, HasAttempt
  <2> QED BY <2>1, <2>2, <2>3 DEF Ends
<1> QED BY <1>1, <1>2, <1>3, EitherMoves DEF Ends

-----------------------------------------------------------------------------
LEMMA EndsHold == Spec => []Ends
BY EndsInit, EndsStep, PTL DEF Spec

\* What is proved of an outlet whose ids are used once holds in a tunnel, where the
\* inlet sees to that: no target connection is left without somebody who closes it,
\* however either end stops, and Stop leaves no attempt behind (outlet.go:56-88, 264-265).
THEOREM TargetsManaged == Spec => [](Out!Managed /\ Out!StopComplete)
<1>1. Ends => Out!Managed
  BY OutP!InvImpliesManaged, EndsAssumed
     DEF Ends, OutP!OutletInv, OutP!Managed, OutP!Closer, Out!Managed, Out!Closer
<1>2. Ends => Out!StopComplete
  BY OutP!InvImpliesStopComplete, EndsAssumed
     DEF Ends, OutP!OutletInv, OutP!StopComplete, Out!StopComplete
<1> QED BY <1>1, <1>2, EndsHold, PTL

\* In a tunnel each end is what it is taken for on its own: an inlet with an outlet of
\* which nothing is known, and an outlet with such an inlet.  What is proved of every
\* Inlet!Spec and Outlet!Spec therefore holds here as well.
THEOREM EndsAreComponents == Spec => In!Spec /\ Out!Spec
<1>1. Init => In!Init /\ Out!Init
  BY DEF Init
<1>2. Ends /\ [Next]_vars => [In!Next \/ In!AnyOutlet]_(In!vars)
  <2>1. ASSUME Ends, Out!Next, UNCHANGED inletVars PROVE In!AnyOutlet
    <3>1. OutP!Next /\ OutP!ManagedInv /\ OutP!Begun /\ OutP!Placed
      BY <2>1, SameOutlet DEF Ends, OutP!OutletInv
    <3>2. o2i' = o2i \/ \E m \in OutP!Sends : o2i' = Append(o2i, m)
      BY <3>1, EndsAssumed, OutP!OneSent
    <3>3. i2o' = i2o \/ (i2o # <<>> /\ i2o' = Tail(i2o))
      BY <3>1, EndsAssumed, OutP!OneTaken
    <3>4. OutP!Sends = In!InMessages
      BY DEF OutP!Sends, In!InMessages
    <3> QED BY <2>1, <3>2, <3>3, <3>4
            DEF In!AnyOutlet, inletVars, In!stopVars, In!sessVars, In!goVars, In!dataVars
  <2>2. UNCHANGED vars => UNCHANGED In!vars
    BY DEF vars, inletVars, In!vars, In!stopVars, In!sessVars, In!goVars, In!dataVars
  <2> QED BY <2>1, <2>2 DEF Next
<1>3. Ends /\ [Next]_vars => [Out!Next \/ Out!AnyInlet]_(Out!vars)
  <2>1. ASSUME Ends, In!Next, UNCHANGED outletVars PROVE Out!AnyInlet
    <3>1. InP!Next /\ InP!Typed
      BY <2>1, SameInlet DEF Ends, InP!InletInv, InP!SlotInv
    <3>2. i2o' = i2o \/ \E m \in InP!Sends : i2o' = Append(i2o, m)
      BY <3>1, EndsAssumed, InP!OneSent
    <3>3. o2i' = o2i \/ (o2i # <<>> /\ o2i' = Tail(o2i))
      BY <3>1, EndsAssumed, InP!OneTaken
    <3>4. InP!Sends = Out!FromInlet
      BY DEF InP!Sends, Out!FromInlet
    <3> QED BY <2>1, <3>2, <3>3, <3>4
            DEF Out!AnyInlet, outletVars, Out!mapVars, Out!goVars, Out!workVars, Out!endVars, Out!dataVars,
                Out!countVars
  <2>2. UNCHANGED vars => UNCHANGED Out!vars
    BY DEF vars, outletVars, Out!vars, Out!mapVars, Out!goVars, Out!workVars, Out!endVars, Out!dataVars,
           Out!countVars
  <2> QED BY <2>1, <2>2 DEF Next
<1> QED BY <1>1, <1>2, <1>3, EndsHold, PTL DEF Spec, In!Spec, Out!Spec

-----------------------------------------------------------------------------
\* What a local client has been told is evidence of a reader at the other end: a session
\* is ready, has a payload or has been handed one only after Announce (outlet.go:228-262).
Announced(c) == \E a \in Ids : idOf[a] = c /\ reader[a] # "none"

Evidence ==
    \A c \in Ids :
      \/ ready[c] \/ iDown[c] # <<>>
      \/ iCur[c] # None /\ OutP!Spoken(iCur[c])
      \/ \E k \in 1 .. Len(iQ[c]) : OutP!Spoken(iQ[c][k])
      => Announced(c)

LEMMA EvidenceInit == Init => Evidence
<1>1. Len(<<>>) = 0
  OBVIOUS
<1> QED BY <1>1 DEF Init, In!Init, Evidence

\* A reader that has begun stays one that has begun.
LEMMA AnnouncedStays ==
    ASSUME Ends, Next, NEW c \in Ids, Announced(c)
    PROVE  Announced(c)'
<1>1. CASE OutletMoves
  <2>1. OutP!ManagedInv /\ OutP!Begun /\ OutP!Next
    BY <1>1 DEF Ends, OutP!OutletInv, OutletMoves
  <2>2. ASSUME NEW a \in Ids, idOf[a] = c, reader[a] # "none" PROVE idOf'[a] = c /\ reader'[a] # "none"
    <3>1. go[a] # "none"
      BY <2>2, IdsBegun DEF Ends
    <3> QED BY <2>1, <2>2, <3>1, EndsAssumed, OutP!AttemptPersists
  <2> QED BY <2>2 DEF Announced
<1>2. CASE InletMoves
  BY <1>2 DEF InletMoves, outletVars, Announced
<1> QED BY <1>1, <1>2, EitherMoves DEF Ends

LEMMA EvidenceStep == Ends /\ Evidence /\ Next => Evidence'
<1> SUFFICES ASSUME Ends, Evidence, Next, NEW c \in Ids,
                    \/ ready'[c] \/ iDown'[c] # <<>>
                    \/ iCur'[c] # None /\ OutP!Spoken(iCur'[c])
                    \/ \E k \in 1 .. Len(iQ'[c]) : OutP!Spoken(iQ'[c][k])
             PROVE  Announced(c)'
  BY DEF Evidence
<1>1. CASE OutletMoves
  <2>1. UNCHANGED <<ready, iDown, iCur, iQ>>
    BY <1>1 DEF OutletMoves, inletVars
  <2> QED BY <2>1, AnnouncedStays DEF Evidence
<1>2. CASE InletMoves
  <2>0. InP!SlotInv /\ InP!StopInv /\ InP!Next /\ InP!Data /\ InP!InHand /\ OutP!Told
    BY <1>2, InP!TypedParts, EndsAssumed DEF InletMoves, Ends, InP!InletInv, InP!SlotInv, OutP!OutletInv
  <2>1. iQ[c] \in Seq(InP!InMessages) /\ iCur[c] \in InP!InMessages \cup {None} /\ o2i \in Seq(InP!InMessages)
    BY <2>0 DEF InP!Data, InP!InHand
  <2> DEFINE known == \/ ready[c] \/ iDown[c] # <<>>
                      \/ iCur[c] # None /\ OutP!Spoken(iCur[c])
                      \/ \E k \in 1 .. Len(iQ[c]) : OutP!Spoken(iQ[c][k])
  <2>2. known => Announced(c)'
    BY AnnouncedStays DEF Evidence
  <2>3. CASE InP!Rests(c) \/ InP!Empties(c) \/ InP!TakesPayload(c) \/ InP!SendsPayload(c) \/ InP!GetsCredit(c)
             \/ InP!GivesUp(c)
    <3>1. /\ UNCHANGED <<ready[c], iDown[c]>> /\ iCur'[c] \in {iCur[c], None} /\ iQ'[c] \in {iQ[c], <<>>}
      BY <2>3 DEF InP!Rests, InP!Empties, InP!TakesPayload, InP!SendsPayload, InP!GetsCredit, InP!GivesUp
    <3>2. Len(<<>>) = 0
      OBVIOUS
    <3>3. known
      BY <3>1, <3>2
    <3> QED BY <2>2, <3>3
  <2>4. CASE InP!PopsMessage(c)
    <3>1. /\ UNCHANGED <<ready[c], iDown[c]>> /\ iCur'[c] = iQ[c][1]
          /\ 1 \in 1 .. Len(iQ[c])
          /\ \A k \in 1 .. Len(iQ'[c]) : k + 1 \in 1 .. Len(iQ[c]) /\ iQ'[c][k] = iQ[c][k + 1]
      BY <2>1, <2>4, TailFacts DEF InP!PopsMessage
    <3>2. known
      BY <3>1
    <3> QED BY <2>2, <3>2
  <2>5. CASE InP!BecomesReady(c) \/ InP!WritesPayload(c)
    <3>1. iCur[c] \in InP!InMessages /\ OutP!Spoken(iCur[c])
      BY <2>5 DEF InP!BecomesReady, InP!WritesPayload, OutP!Spoken
    <3>2. known
      BY <3>1, TunnelAssumption DEF InP!InMessages, In!InMessages
    <3> QED BY <2>2, <3>2
  <2>6. CASE InP!GetsMessage(c)
    <3>1. /\ UNCHANGED <<ready[c], iDown[c], iCur[c]>> /\ o2i # <<>> /\ Head(o2i).id = c
          /\ iQ'[c] = Append(iQ[c], Head(o2i))
      BY <2>6 DEF InP!GetsMessage
    <3>2. Head(o2i) \in InP!InMessages /\ 1 \in 1 .. Len(o2i) /\ Head(o2i) = o2i[1]
      BY <2>1, <3>1, TailFacts
    <3>3. ASSUME NEW k \in 1 .. Len(iQ'[c]), OutP!Spoken(iQ'[c][k])
          PROVE  Announced(c)'
      <4>1. CASE k \in 1 .. Len(iQ[c])
        <5>1. iQ'[c][k] = iQ[c][k]
          BY <2>1, <3>1, <3>2, <4>1, AppendFacts
        <5> QED BY <2>2, <3>3, <4>1, <5>1
      <4>2. CASE k = Len(iQ[c]) + 1
        <5>1. iQ'[c][k] = Head(o2i)
          BY <2>1, <3>1, <3>2, <4>2, AppendFacts
        <5>2. Announced(c)
          BY <2>0, <3>1, <3>2, <3>3, <5>1 DEF OutP!Told, OutP!Backed, Announced
        <5> QED BY <5>2, AnnouncedStays
      <4> QED BY <2>1, <3>1, <3>2, <3>3, <4>1, <4>2, AppendFacts
    <3> QED BY <2>2, <3>1, <3>3
  <2>7. InP!Effect(c)
    BY <2>0, EndsAssumed, InP!SessionStep
  <2> QED BY <2>3, <2>4, <2>5, <2>6, <2>7 DEF InP!Effect
<1> QED BY <1>1, <1>2, EitherMoves DEF Ends

-----------------------------------------------------------------------------
\* The types of both ends, as the pipes need them
LEMMA Shapes ==
    ASSUME Ends, NEW a \in Ids, NEW c \in Ids
    PROVE  /\ iUp[c] \in Nat /\ iDown[c] \in Seq(Nat) /\ oUp[a] \in Seq(Nat) /\ oDown[a] \in Nat
           /\ iQ[c] \in Seq(InP!InMessages) /\ oQ[a] \in Seq(OutP!InMessages)
           /\ i2o \in Seq(InP!Sends) /\ o2i \in Seq(InP!InMessages)
           /\ Len(iDown[c]) \in Nat /\ Len(oUp[a]) \in Nat
           /\ iFlow[c] \in Nat /\ oFlow[a] \in Nat
<1>1. InP!Data /\ InP!InHand /\ InP!Sent
  BY EndsAssumed, InP!TypedParts DEF Ends, InP!InletInv, InP!SlotInv
<1>2. OutP!Carried
  BY DEF Ends, OutP!OutletInv, OutP!ManagedInv, OutP!Typed
<1>3. iUp[c] \in Nat /\ iDown[c] \in Seq(Nat) /\ iFlow[c] \in Nat
  BY <1>1, TunnelAssumption DEF InP!Data
<1>4. oUp[a] \in Seq(Nat) /\ oDown[a] \in Nat /\ oFlow[a] \in Nat
  BY <1>2, TunnelAssumption DEF OutP!Carried
<1>5. iQ[c] \in Seq(InP!InMessages) /\ oQ[a] \in Seq(OutP!InMessages) /\ o2i \in Seq(InP!InMessages)
  BY <1>1, <1>2 DEF InP!Data, InP!InHand, OutP!Carried
<1> QED BY <1>1, <1>3, <1>4, <1>5 DEF InP!Sent

LEMMA HeldOne ==
    /\ \A m, type : Held(m, type) \in {0, 1}
    /\ \A type : Held(None, type) = 0
    /\ \A m, type : m # None => Held(m, type) = IF m.type = type THEN 1 ELSE 0
BY DEF Held

\* The back queue changes by something that is not a payload of the session.
LEMMA ChainOther ==
    ASSUME NEW S, NEW q \in Seq(S), NEW T, NEW r \in Seq(T), NEW r2, NEW type, NEW c,
           NEW base \in Nat, NEW top \in Nat, Chain(base, q, r, type, c, top),
           \/ r2 = r
           \/ \E m \in T : ~Is(m, type, c) /\ r2 = Append(r, m)
           \/ r # <<>> /\ ~Is(Head(r), type, c) /\ r2 = Tail(r)
    PROVE  Chain(base, q, r2, type, c, top)
<1>1. ASSUME NEW m \in T, ~Is(m, type, c), r2 = Append(r, m) PROVE Chain(base, q, r2, type, c, top)
  BY <1>1, ChainExtend
<1>2. CASE r # <<>> /\ ~Is(Head(r), type, c) /\ r2 = Tail(r)
  BY <1>2, ChainMove
<1> QED BY <1>1, <1>2

LEMMA ChainBase ==
    ASSUME NEW q, NEW r, NEW type, NEW c, NEW base \in Nat, NEW top \in Nat,
           Chain(base, q, r, type, c, top)
    PROVE  base <= top
BY DEF Chain

-----------------------------------------------------------------------------
\* Uplink.  What the outlet's worker has in hand is the payload after those it has
\* written, and what follows in its queue and on the route are the next ones, up to the
\* last the inlet has sent, for as long as the session is in the outlet's map.
UpBase(a) == Len(oUp[a]) + Held(oCur[a], "I2OSendData")

UpHeld(a, c) ==
    (worker[a] = "write" \/ sessions[c] = a) /\ Held(oCur[a], "I2OSendData") = 1 =>
      oCur[a].n = Len(oUp[a]) + 1 /\ oCur[a].n <= iUp[c]

UpSent(c) == IF main[c] \in InP!Holding THEN iUp[c] - 1 ELSE iUp[c]

UpQueued(a, c) ==
    sessions[c] = a =>
      \E t \in 0 .. iUp[c] :
        /\ Chain(UpBase(a), oQ[a], i2o, "I2OSendData", c, t)
        /\ main[c] \notin InP!Over => t = UpSent(c)

UpLine == \A a, c \in Ids : idOf[a] = c => UpHeld(a, c) /\ UpQueued(a, c)

LEMMA UpLineInlet ==
    ASSUME Ends, InletMoves, NEW a \in Ids, NEW c \in Ids, UpHeld(a, c), UpQueued(a, c)
    PROVE  UpHeld(a, c)' /\ UpQueued(a, c)'
<1>0. InP!SlotInv /\ InP!StopInv /\ InP!Next /\ InP!Paced
  BY DEF InletMoves, Ends, InP!InletInv, InP!Reasons
<1>1. UNCHANGED <<worker, sessions, oCur, oUp, oQ>>
  BY DEF InletMoves, outletVars
<1>2. /\ iUp[c] \in Nat /\ oQ[a] \in Seq(OutP!InMessages) /\ i2o \in Seq(InP!Sends)
      /\ UpBase(a) \in Nat /\ UpBase(a)' = UpBase(a)
  <2>1. iUp[c] \in Nat /\ oQ[a] \in Seq(OutP!InMessages) /\ i2o \in Seq(InP!Sends) /\ Len(oUp[a]) \in Nat
    BY Shapes
  <2>2. UpBase(a) \in Nat
    BY <2>1, HeldOne DEF UpBase
  <2>3. UpBase(a)' = UpBase(a)
    BY <1>1 DEF UpBase, Held
  <2> QED BY <2>1, <2>2, <2>3
<1>3. InP!Effect(c)
  BY <1>0, EndsAssumed, InP!SessionStep
<1>4. iUp'[c] = iUp[c] \/ iUp'[c] = iUp[c] + 1
  BY <1>3 DEF InP!Effect, InP!Rests, InP!Empties, InP!TakesPayload, InP!SendsPayload, InP!PopsMessage,
              InP!BecomesReady, InP!GivesUp, InP!WritesPayload, InP!GetsCredit, InP!GetsMessage
<1>5. UpHeld(a, c)'
  <2>1. CASE (worker[a] = "write" \/ sessions[c] = a) /\ Held(oCur[a], "I2OSendData") = 1
    <3>1. oCur[a].n = Len(oUp[a]) + 1 /\ oCur[a].n <= iUp[c] /\ Len(oUp[a]) \in Nat
      BY <2>1, Shapes DEF UpHeld
    <3> QED BY <1>1, <1>2, <1>4, <3>1 DEF UpHeld
  <2> QED BY <1>1, <2>1 DEF UpHeld, Held
<1>6. ASSUME sessions[c] = a
      PROVE  \E t \in 0 .. iUp'[c] :
               /\ Chain(UpBase(a), oQ[a], i2o', "I2OSendData", c, t)
               /\ main'[c] \notin InP!Over => t = UpSent(c)'
  <2>1. PICK t \in 0 .. iUp[c] :
          Chain(UpBase(a), oQ[a], i2o, "I2OSendData", c, t) /\ (main[c] \notin InP!Over => t = UpSent(c))
    BY <1>6 DEF UpQueued
  <2>2. t \in Nat /\ t \in 0 .. iUp'[c]
    BY <1>2, <1>4, <2>1
  <2>3. CASE InP!TakesPayload(c)
    <3>1. t = UpSent(c)' /\ i2o' = i2o
      BY <1>2, <2>1, <2>3 DEF InP!TakesPayload, UpSent, InP!Holding, InP!Over
    <3> QED BY <2>1, <2>2, <3>1
  <2>4. CASE InP!SendsPayload(c)
    <3>1. iUp[c] # 0
      BY <1>0, <2>4 DEF InP!Paced, InP!SendsPayload, InP!Holding
    <3>2. t + 1 = iUp[c] /\ iUp'[c] = iUp[c] /\ UpSent(c)' = iUp[c]
      BY <1>2, <2>1, <2>4, <3>1 DEF InP!SendsPayload, UpSent, InP!Holding, InP!Over
    <3> DEFINE m == InP!SendData(c, iUp[c])
    <3>3. m \in InP!Sends /\ Is(m, "I2OSendData", c) /\ m.n = t + 1
      BY <1>2, <3>2, EndsAssumed, InP!SendsTyped DEF InP!SendData, Is
    <3>4. i2o' = Append(i2o, m)
      BY <2>4 DEF InP!SendsPayload
    <3> HIDE DEF m
    <3>5. Chain(UpBase(a), oQ[a], i2o', "I2OSendData", c, t + 1)
      BY <1>2, <2>1, <2>2, <3>3, <3>4, ChainExtend
    <3>6. t + 1 \in 0 .. iUp'[c]
      BY <1>2, <2>2, <3>2
    <3> QED BY <3>2, <3>5, <3>6
  <2>5. CASE \/ InP!Rests(c) \/ InP!Empties(c) \/ InP!PopsMessage(c) \/ InP!BecomesReady(c) \/ InP!GivesUp(c)
             \/ InP!WritesPayload(c) \/ InP!GetsCredit(c) \/ InP!GetsMessage(c)
    <3>1. InP!KeepsPace(c) /\ iUp'[c] = iUp[c]
      BY <2>5 DEF InP!Rests, InP!Empties, InP!PopsMessage, InP!BecomesReady, InP!GivesUp, InP!WritesPayload,
                  InP!GetsCredit, InP!GetsMessage
    <3>2. main'[c] \notin InP!Over => t = UpSent(c)'
      BY <2>1, <3>1 DEF InP!KeepsPace, UpSent
    <3>3. i2o' = i2o \/ \E m \in InP!Sends : ~Is(m, "I2OSendData", c) /\ i2o' = Append(i2o, m)
      <4>1. CASE InP!Rests(c)
        BY <4>1 DEF InP!Rests, Is
      <4>2. CASE InP!WritesPayload(c)
        <5>1. InP!RecvResult(c) \in InP!Sends /\ ~Is(InP!RecvResult(c), "I2OSendData", c)
          BY EndsAssumed, InP!SendsTyped DEF InP!RecvResult, Is
        <5> QED BY <4>2, <5>1 DEF InP!WritesPayload
      <4> QED BY <2>5, <4>1, <4>2 DEF InP!Empties, InP!PopsMessage, InP!BecomesReady, InP!GivesUp,
                                      InP!GetsCredit, InP!GetsMessage
    <3>4. Chain(UpBase(a), oQ[a], i2o', "I2OSendData", c, t)
      BY <1>2, <2>1, <2>2, <3>3, ChainOther
    <3> QED BY <2>2, <3>2, <3>4
  <2> QED BY <1>3, <2>3, <2>4, <2>5 DEF InP!Effect
<1>7. UpQueued(a, c)'
  BY <1>1, <1>2, <1>6 DEF UpQueued
<1> QED BY <1>5, <1>7

\* Before its session is announced nothing has been sent for an id.
LEMMA NothingSent ==
    ASSUME Ends, Evidence, NEW c \in Ids, ~Announced(c)
    PROVE  /\ iUp[c] = 0 /\ iFlow[c] = 0 /\ main[c] \notin InP!Holding /\ iDown[c] = <<>>
           /\ \A k \in 1 .. Len(i2o) : ~Is(i2o[k], "I2OSendData", c) /\ ~Is(i2o[k], "I2ORecvDataResult", c)
           /\ \A k \in 1 .. Len(o2i) : ~Is(o2i[k], "O2IRecvData", c)
           /\ \A k \in 1 .. Len(iQ[c]) : ~Is(iQ[c][k], "O2IRecvData", c)
           /\ Held(iCur[c], "O2IRecvData") = 0
<1>1. InP!Paced /\ InP!Asked /\ OutP!Told
  BY DEF Ends, InP!InletInv, InP!Reasons, OutP!OutletInv
<1>2. ~ready[c] /\ iDown[c] = <<>>
  BY DEF Evidence
<1>3. iUp[c] = 0 /\ iFlow[c] = 0 /\ main[c] \notin InP!Holding
  BY <1>1, <1>2 DEF InP!Paced
<1>4. \A k \in 1 .. Len(i2o) : ~Is(i2o[k], "I2OSendData", c) /\ ~Is(i2o[k], "I2ORecvDataResult", c)
  BY <1>1, <1>2, <1>3 DEF InP!Asked, Is
<1>5. \A k \in 1 .. Len(o2i) : ~Is(o2i[k], "O2IRecvData", c)
  BY <1>1 DEF OutP!Told, OutP!Backed, OutP!Spoken, Announced, Is
<1>6. \A k \in 1 .. Len(iQ[c]) : ~Is(iQ[c][k], "O2IRecvData", c)
  BY DEF Evidence, OutP!Spoken, Is
<1>7. Held(iCur[c], "O2IRecvData") = 0
  BY DEF Evidence, OutP!Spoken, Held
<1> QED BY <1>2, <1>3, <1>4, <1>5, <1>6, <1>7

\* A step of the outlet, as one attempt and its id see it
LEMMA AttemptMoves ==
    ASSUME Ends, OutletMoves, NEW a \in Ids, NEW c \in Ids, idOf'[a] = c
    PROVE  \/ go[a] # "none" /\ idOf[a] = c /\ OutP!Effect(a)
           \/ go[a] = "none" /\ idOf[a] = None /\ OutP!Begins(a)
<1>1. OutP!ManagedInv /\ OutP!Typed /\ OutP!StopHolds /\ OutP!Begun /\ OutP!OneAttemptPerId /\ OutP!OwnTarget
        /\ OutP!Next
  BY OnePerId DEF Ends, OutletMoves, OutP!OutletInv, OutP!ManagedInv
<1>2. CASE go[a] # "none"
  BY <1>1, <1>2, EndsAssumed, OutP!AttemptPersists, OutP!AttemptStep
<1>3. CASE go[a] = "none"
  <2>1. OutP!Begins(a) \/ idOf'[a] = idOf[a]
    BY <1>1, <1>3, EndsAssumed, OutP!AttemptBegins
  <2> QED BY <1>3, <2>1, IdsBegun, TunnelAssumption DEF Ends
<1> QED BY <1>2, <1>3

LEMMA UpLineOutlet ==
    ASSUME Ends, Evidence, OutletMoves, NEW a \in Ids, NEW c \in Ids, idOf'[a] = c,
           idOf[a] = c => UpHeld(a, c) /\ UpQueued(a, c)
    PROVE  UpHeld(a, c)' /\ UpQueued(a, c)'
<1>0. UNCHANGED <<main, iUp>>
  BY DEF OutletMoves, inletVars
<1>i. OutP!Idle /\ OutP!InHand /\ OutP!Begun /\ OutP!Fresh
  BY DEF Ends, OutP!OutletInv, OutP!ManagedInv, OutP!Typed
<1>1. CASE go[a] = "none" /\ OutP!Begins(a)
  <2>1. worker[a] = "none" /\ sessions[c] # a /\ UNCHANGED <<worker, sessions>>
    BY <1>1, <1>i DEF OutP!Begins, OutP!InHand, OutP!Fresh
  <2> QED BY <2>1 DEF UpHeld, UpQueued
<1>2. ASSUME go[a] # "none", idOf[a] = c, OutP!Effect(a)
      PROVE  UpHeld(a, c)' /\ UpQueued(a, c)'
  <2>0. UpHeld(a, c) /\ UpQueued(a, c)
    BY <1>2
  <2>s. /\ iUp[c] \in Nat /\ oUp[a] \in Seq(Nat) /\ Len(oUp[a]) \in Nat /\ UpBase(a) \in Nat
        /\ oQ[a] \in Seq(OutP!InMessages) /\ i2o \in Seq(InP!Sends)
    <3>1. /\ iUp[c] \in Nat /\ oUp[a] \in Seq(Nat) /\ Len(oUp[a]) \in Nat
          /\ oQ[a] \in Seq(OutP!InMessages) /\ i2o \in Seq(InP!Sends)
      BY Shapes
    <3>2. Held(oCur[a], "I2OSendData") \in {0, 1}
      BY HeldOne
    <3> QED BY <3>1, <3>2 DEF UpBase
  \* The session stays in the map, and so does what is under way to it.
  <2>1. ASSUME sessions'[c] = a => sessions[c] = a,
               UNCHANGED <<oUp[a], oCur[a]>>,
               sessions'[c] = a => \A t \in Nat : Chain(UpBase(a), oQ[a], i2o, "I2OSendData", c, t) =>
                                     Chain(UpBase(a), oQ'[a], i2o', "I2OSendData", c, t)
        PROVE  UpQueued(a, c)'
    <3>1. UpBase(a)' = UpBase(a) /\ UpSent(c)' = UpSent(c)
      BY <1>0, <2>1 DEF UpBase, Held, UpSent
    <3>2. ASSUME sessions'[c] = a
          PROVE  \E t \in 0 .. iUp[c] :
                   /\ Chain(UpBase(a), oQ'[a], i2o', "I2OSendData", c, t)
                   /\ main[c] \notin InP!Over => t = UpSent(c)
      <4>1. PICK t \in 0 .. iUp[c] :
              Chain(UpBase(a), oQ[a], i2o, "I2OSendData", c, t) /\ (main[c] \notin InP!Over => t = UpSent(c))
        BY <2>0, <2>1, <3>2 DEF UpQueued
      <4>2. t \in Nat
        BY <2>s, <4>1
      <4> QED BY <2>1, <3>2, <4>1, <4>2
    <3> QED BY <1>0, <3>1, <3>2 DEF UpQueued
  <2>2. ASSUME worker'[a] = "write" => worker[a] = "write" \/ sessions[c] = a,
               sessions'[c] = a => sessions[c] = a,
               UNCHANGED <<oUp[a], oCur[a]>>
        PROVE  UpHeld(a, c)'
    BY <1>0, <2>0, <2>2 DEF UpHeld, Held
  <2>3. CASE OutP!Rests(a)
    <3>1. UNCHANGED <<oUp[a], oCur[a], oQ[a]>> /\ (sessions'[c] = a => sessions[c] = a)
            /\ (worker'[a] = "write" => worker[a] = "write")
      BY <2>3 DEF OutP!Rests, OutP!Steady
    <3>2. sessions'[c] = a => i2o' = i2o \/ (i2o # <<>> /\ ~Is(Head(i2o), "I2OSendData", c) /\ i2o' = Tail(i2o))
      BY <1>2, <2>3 DEF OutP!Rests, Is
    <3>3. sessions'[c] = a => \A t \in Nat : Chain(UpBase(a), oQ[a], i2o, "I2OSendData", c, t) =>
                                 Chain(UpBase(a), oQ'[a], i2o', "I2OSendData", c, t)
      BY <2>s, <3>1, <3>2, ChainOther
    <3> QED BY <2>1, <2>2, <3>1, <3>3
  <2>4. CASE OutP!Loses(a)
    <3>1. sessions'[c] # a /\ oUp'[a] = oUp[a] /\ (worker'[a] = "write" => worker[a] = "write" /\ oCur'[a] = oCur[a])
      BY <1>2, <2>4 DEF OutP!Loses, OutP!Steady
    <3> QED BY <1>0, <2>0, <3>1 DEF UpHeld, UpQueued, Held
  <2>5. CASE OutP!GetsMessage(a)
    <3>1. /\ UNCHANGED <<oUp[a], oCur[a]>> /\ (sessions'[c] = a => sessions[c] = a)
          /\ worker'[a] = "write" => worker[a] = "write"
          /\ i2o # <<>> /\ i2o' = Tail(i2o) /\ Head(i2o) \in OutP!InMessages
          /\ oQ'[a] = Append(oQ[a], Head(i2o))
      BY <1>2, <2>5 DEF OutP!GetsMessage, OutP!Steady
    <3>2. \A t \in Nat : Chain(UpBase(a), oQ[a], i2o, "I2OSendData", c, t) =>
                           Chain(UpBase(a), oQ'[a], i2o', "I2OSendData", c, t)
      BY <2>s, <3>1, ChainMove
    <3> QED BY <2>1, <2>2, <3>1, <3>2
  <2>6. CASE OutP!GetsCredit(a)
    <3>1. /\ UNCHANGED <<oUp[a], oCur[a], oQ[a]>> /\ (sessions'[c] = a => sessions[c] = a)
          /\ worker'[a] = "write" => worker[a] = "write"
          /\ i2o # <<>> /\ i2o' = Tail(i2o) /\ ~Is(Head(i2o), "I2OSendData", c)
      BY <1>2, <2>6 DEF OutP!GetsCredit, OutP!Steady, Is
    <3>2. \A t \in Nat : Chain(UpBase(a), oQ[a], i2o, "I2OSendData", c, t) =>
                           Chain(UpBase(a), oQ'[a], i2o', "I2OSendData", c, t)
      BY <2>s, <3>1, ChainOther
    <3> QED BY <2>1, <2>2, <3>1, <3>2
  <2>7. CASE OutP!Installs(a)
    <3>1. reader[a] = "none" /\ worker[a] = "none"
      BY <1>i, <2>7 DEF OutP!Installs, OutP!InHand, OutP!Begun
    <3>2. ~Announced(c)
      BY <1>2, <3>1, IdsBegun DEF Announced, Ends, Once
    <3>3. oUp[a] = <<>> /\ oQ[a] = <<>> /\ oCur[a] = None
      BY <1>i, <3>1 DEF OutP!Idle
    <3>4. UNCHANGED <<oUp[a], oCur[a], oQ[a], i2o>>
      BY <2>7 DEF OutP!Installs
    <3>5. UpBase(a)' = 0 /\ ~(Held(oCur'[a], "I2OSendData") = 1)
      BY <3>3, <3>4 DEF UpBase, Held
    <3>6. Chain(0, <<>>, i2o, "I2OSendData", c, 0)
      BY <1>2, <3>2, NothingSent, ChainEnds
    <3>7. iUp[c] = 0 /\ UpSent(c)' = 0 /\ 0 \in 0 .. iUp[c]
      BY <1>0, <3>2, NothingSent DEF UpSent
    <3>8. UpQueued(a, c)'
      BY <1>0, <3>3, <3>4, <3>5, <3>6, <3>7 DEF UpQueued
    <3> QED BY <3>5, <3>8 DEF UpHeld
  <2>8. CASE OutP!PopsMessage(a)
    <3>1. /\ UNCHANGED <<oUp[a], i2o>> /\ (sessions'[c] = a => sessions[c] = a)
          /\ worker'[a] # "write" /\ oCur[a] = None
          /\ oQ[a] # <<>> /\ oCur'[a] = Head(oQ[a]) /\ oQ'[a] = Tail(oQ[a])
      BY <1>2, <1>i, <2>8 DEF OutP!PopsMessage, OutP!Steady, OutP!Idle
    <3>2. CASE sessions'[c] # a
      BY <3>1, <3>2 DEF UpHeld, UpQueued
    <3>3. CASE sessions'[c] = a
      <4>1. PICK t \in 0 .. iUp[c] :
              Chain(UpBase(a), oQ[a], i2o, "I2OSendData", c, t) /\ (main[c] \notin InP!Over => t = UpSent(c))
        BY <2>0, <3>1, <3>3 DEF UpQueued
      <4>2. t \in Nat /\ UpBase(a) = Len(oUp[a])
        BY <2>s, <3>1, <4>1, HeldOne DEF UpBase
      <4>3. Head(oQ[a]) \in OutP!InMessages /\ Head(oQ[a]) = oQ[a][1] /\ 1 \in 1 .. Len(oQ[a])
        BY <2>s, <3>1, TailFacts
      <4>4. Head(oQ[a]).id = c /\ Head(oQ[a]) # None
        BY <1>2, <4>3, TunnelAssumption
           DEF Ends, OutP!OutletInv, OutP!Addressed, OutP!InMessages, OutP!FromInlet, Out!InMessages, Out!FromInlet
      <4>5. CASE Head(oQ[a]).type = "I2OSendData"
        <5>1. Head(oQ[a]).n = Len(oUp[a]) + 1 /\ Len(oUp[a]) + 1 <= t
                /\ Chain(Len(oUp[a]) + 1, Tail(oQ[a]), i2o, "I2OSendData", c, t)
          BY <2>s, <3>1, <4>1, <4>2, <4>4, <4>5, ChainTake DEF Is
        <5>2. Held(oCur'[a], "I2OSendData") = 1 /\ UpBase(a)' = Len(oUp[a]) + 1
          BY <3>1, <4>4, <4>5 DEF Held, UpBase
        <5>3. UpHeld(a, c)'
          BY <1>0, <2>s, <3>1, <4>1, <5>1 DEF UpHeld
        <5>4. UpQueued(a, c)'
          BY <1>0, <3>1, <4>1, <5>1, <5>2 DEF UpQueued, UpSent
        <5> QED BY <5>3, <5>4
      <4>6. CASE Head(oQ[a]).type # "I2OSendData"
        <5>1. Chain(Len(oUp[a]), Tail(oQ[a]), i2o, "I2OSendData", c, t)
          BY <2>s, <3>1, <4>1, <4>2, <4>6, ChainTake DEF Is
        <5>2. Held(oCur'[a], "I2OSendData") = 0 /\ UpBase(a)' = Len(oUp[a])
          BY <2>s, <3>1, <4>6 DEF Held, UpBase
        <5>3. UpQueued(a, c)'
          BY <1>0, <3>1, <4>1, <5>1, <5>2 DEF UpQueued, UpSent
        <5> QED BY <5>2, <5>3 DEF UpHeld
      <4> QED BY <4>5, <4>6
    <3> QED BY <3>2, <3>3
  <2>9. CASE OutP!BeginsWrite(a)
    <3>1. sessions[c] = a /\ UNCHANGED <<sessions, oUp[a], oCur[a], oQ[a], i2o>>
      BY <1>2, <2>9 DEF OutP!BeginsWrite
    <3> QED BY <2>1, <2>2, <3>1
  <2>10. CASE OutP!WritesPayload(a)
    <3>1. /\ UNCHANGED <<oQ[a], i2o>> /\ (sessions'[c] = a => sessions[c] = a) /\ worker'[a] # "write"
          /\ oCur[a] \in OutP!InMessages /\ oCur[a].type = "I2OSendData" /\ oCur'[a] = None
          /\ oUp'[a] = Append(oUp[a], oCur[a].n)
      BY <1>2, <2>10 DEF OutP!WritesPayload, OutP!Steady
    <3>2. oCur[a].n \in Nat /\ oCur[a] # None
      BY <3>1, TunnelAssumption DEF OutP!InMessages, OutP!FromInlet, Out!InMessages, Out!FromInlet
    <3>3. Len(oUp'[a]) = Len(oUp[a]) + 1
      BY <2>s, <3>1, <3>2, AppendFacts
    <3>4. Held(oCur[a], "I2OSendData") = 1 /\ Held(oCur'[a], "I2OSendData") = 0
      BY <3>1, <3>2 DEF Held
    <3>5. UpBase(a)' = UpBase(a)
      BY <2>s, <3>3, <3>4 DEF UpBase
    <3>6. UpQueued(a, c)'
      BY <1>0, <2>0, <3>1, <3>5 DEF UpQueued, UpSent
    <3> QED BY <3>4, <3>6 DEF UpHeld
  <2>11. CASE OutP!TakesPayload(a) \/ OutP!GetsRoom(a) \/ OutP!SendsPayload(a)
    <3>1. UNCHANGED <<oUp[a], oCur[a], oQ[a], i2o>> /\ (sessions'[c] = a => sessions[c] = a)
            /\ (worker'[a] = "write" => worker[a] = "write")
      BY <2>11 DEF OutP!TakesPayload, OutP!GetsRoom, OutP!SendsPayload, OutP!Steady
    <3> QED BY <2>1, <2>2, <3>1
  <2> QED BY <1>2, <2>3, <2>4, <2>5, <2>6, <2>7, <2>8, <2>9, <2>10, <2>11 DEF OutP!Effect
<1> QED BY <1>1, <1>2, AttemptMoves

LEMMA UpLineInit == Init => UpLine
<1>1. Init => \A a \in Ids : idOf[a] = None
  BY DEF Init, Out!Init
<1> QED BY <1>1, TunnelAssumption DEF UpLine

LEMMA UpLineStep == Ends /\ Evidence /\ UpLine /\ [Next]_vars => UpLine'
<1> SUFFICES ASSUME Ends, Evidence, UpLine, [Next]_vars, NEW a \in Ids, NEW c \in Ids, idOf'[a] = c
             PROVE  UpHeld(a, c)' /\ UpQueued(a, c)'
  BY DEF UpLine
<1>0. idOf[a] = c => UpHeld(a, c) /\ UpQueued(a, c)
  BY DEF UpLine
<1>1. CASE InletMoves
  <2>1. idOf[a] = c
    BY <1>1 DEF InletMoves, outletVars
  <2> QED BY <1>0, <1>1, <2>1, UpLineInlet
<1>2. CASE OutletMoves
  BY <1>0, <1>2, UpLineOutlet
<1>3. CASE UNCHANGED vars
  BY <1>0, <1>3 DEF vars, inletVars, outletVars, UpHeld, UpQueued, UpBase, UpSent, Held
<1> QED BY <1>1, <1>2, <1>3, EitherMoves DEF Ends

LEMMA EvidenceStays == Ends /\ Evidence /\ [Next]_vars => Evidence'
<1>1. UNCHANGED vars /\ Evidence => Evidence'
  BY DEF vars, inletVars, outletVars, Evidence, Announced, OutP!Spoken
<1> QED BY <1>1, EvidenceStep

LEMMA UpLineHolds == Spec => [](Ends /\ Evidence /\ UpLine)
<1>1. Init => Ends /\ Evidence /\ UpLine
  BY EndsInit, EvidenceInit, UpLineInit
<1>2. Ends /\ Evidence /\ UpLine /\ [Next]_vars => (Ends /\ Evidence /\ UpLine)'
  BY EndsStep, EvidenceStays, UpLineStep
<1> QED BY <1>1, <1>2, PTL DEF Spec

-----------------------------------------------------------------------------
\* The payloads of a session at its target, where its attempt has them
UpGot == AtTarget(oUp, <<>>)
DownTaken == AtTarget(oDown, 0)

LEMMA AtAttempt ==
    ASSUME Once, NEW a \in Ids, NEW c \in Ids, idOf[a] = c
    PROVE  /\ HasAttempt(c) /\ AttemptOf(c) = a
           /\ UpGot[c] = oUp[a] /\ DownTaken[c] = oDown[a]
<1>1. HasAttempt(c)
  BY DEF HasAttempt
<1>2. \A b \in Ids : idOf[b] = c => b = a
  BY TunnelAssumption DEF Once
<1>3. AttemptOf(c) = a
  BY <1>2 DEF AttemptOf
<1> QED BY <1>1, <1>3 DEF UpGot, DownTaken, AtTarget

LEMMA AtNoAttempt ==
    ASSUME NEW c \in Ids, ~HasAttempt(c)
    PROVE  UpGot[c] = <<>> /\ DownTaken[c] = 0
BY DEF UpGot, DownTaken, AtTarget

\* The same of the state after a step
LEMMA AtAttemptNext ==
    ASSUME Once', NEW a \in Ids, NEW c \in Ids, idOf'[a] = c
    PROVE  UpGot'[c] = oUp'[a] /\ DownTaken'[c] = oDown'[a]
<1>1. HasAttempt(c)'
  BY DEF HasAttempt
<1>2. \A b \in Ids : idOf'[b] = c => b = a
  BY TunnelAssumption DEF Once
<1>3. AttemptOf(c)' = a
  BY <1>2 DEF AttemptOf
<1> QED BY <1>1, <1>3 DEF UpGot, DownTaken, AtTarget

LEMMA AtNoAttemptNext ==
    ASSUME NEW c \in Ids, ~HasAttempt(c)'
    PROVE  UpGot'[c] = <<>> /\ DownTaken'[c] = 0
BY DEF UpGot, DownTaken, AtTarget

\* An attempt that takes up an id brings nothing with it.
LEMMA TargetMoves ==
    ASSUME Ends, OutletMoves, Ends', NEW c \in Ids
    PROVE  \/ \E a \in Ids : /\ idOf[a] = c
                             /\ UpGot[c] = oUp[a] /\ UpGot'[c] = oUp'[a]
                             /\ DownTaken[c] = oDown[a] /\ DownTaken'[c] = oDown'[a]
           \/ ~HasAttempt(c) /\ UpGot'[c] = UpGot[c] /\ DownTaken'[c] = DownTaken[c]
<1>1. Once /\ Once'
  BY DEF Ends
<1>2. ASSUME NEW a \in Ids, idOf[a] = c
      PROVE  /\ UpGot[c] = oUp[a] /\ UpGot'[c] = oUp'[a]
             /\ DownTaken[c] = oDown[a] /\ DownTaken'[c] = oDown'[a]
  <2>1. idOf'[a] = c
    <3>1. OutP!ManagedInv /\ OutP!Begun /\ OutP!Next
      BY DEF Ends, OutletMoves, OutP!OutletInv
    <3>2. go[a] # "none"
      BY <1>2, IdsBegun DEF Ends
    <3> QED BY <1>2, <3>1, <3>2, EndsAssumed, OutP!AttemptPersists
  <2>2. UpGot'[c] = oUp'[a] /\ DownTaken'[c] = oDown'[a]
    BY <1>1, <2>1, AtAttemptNext
  <2> QED BY <1>1, <1>2, <2>2, AtAttempt
<1>3. ASSUME ~HasAttempt(c), ~HasAttempt(c)'
      PROVE  UpGot'[c] = UpGot[c] /\ DownTaken'[c] = DownTaken[c]
  BY <1>3, AtNoAttempt, AtNoAttemptNext
<1>4. ASSUME ~HasAttempt(c), NEW a \in Ids, idOf'[a] = c
      PROVE  UpGot'[c] = UpGot[c] /\ DownTaken'[c] = DownTaken[c]
  <2>1. go[a] = "none" /\ OutP!Begins(a)
    BY <1>4, AttemptMoves DEF HasAttempt
  <2>2. worker[a] = "none" /\ reader[a] = "none" /\ UNCHANGED <<oUp, oDown>>
    BY <2>1 DEF Ends, OutP!OutletInv, OutP!ManagedInv, OutP!Typed, OutP!InHand, OutP!Begins
  <2>3. oUp'[a] = <<>> /\ oDown'[a] = 0
    BY <2>2 DEF Ends, OutP!OutletInv, OutP!Idle
  <2>4. UpGot'[c] = oUp'[a] /\ DownTaken'[c] = oDown'[a]
    BY <1>1, <1>4, AtAttemptNext
  <2> QED BY <1>4, <2>3, <2>4, AtNoAttempt
<1>5. HasAttempt(c)' => \E a \in Ids : idOf'[a] = c
  BY DEF HasAttempt
<1> QED BY <1>2, <1>3, <1>4, <1>5 DEF HasAttempt

LEMMA PipesInit == Init => UpPipe!PipeInit /\ DownPipe!PipeInit
<1> SUFFICES ASSUME Init PROVE UpPipe!PipeInit /\ DownPipe!PipeInit
  OBVIOUS
<1>1. \A c \in Ids : ~HasAttempt(c)
  BY TunnelAssumption DEF Init, Out!Init, HasAttempt
<1>2. UpGot = [c \in Ids |-> <<>>] /\ DownTaken = [c \in Ids |-> 0]
  BY <1>1 DEF UpGot, DownTaken, AtTarget
<1>3. iUp = [c \in Ids |-> 0] /\ iDown = [c \in Ids |-> <<>>]
  BY DEF Init, In!Init
<1> QED BY <1>2, <1>3 DEF UpPipe!PipeInit, DownPipe!PipeInit, UpGot, DownTaken

\* Functions over the session ids that differ at one session
LEMMA OneDiffers ==
    ASSUME NEW D, NEW f, NEW g, NEW d \in D, NEW v, f = [c \in D |-> f[c]], g = [c \in D |-> g[c]],
           g[d] = v, \A c \in D \ {d} : g[c] = f[c]
    PROVE  g = [f EXCEPT ![d] = v]
OBVIOUS

LEMMA UpPipeStep ==
    ASSUME Ends, Evidence, UpLine, Ends', [Next]_vars
    PROVE  [UpPipe!PipeNext]_(UpPipe!pipeVars)
<1>0. /\ UpGot = [c \in Ids |-> UpGot[c]] /\ UpGot' = [c \in Ids |-> UpGot'[c]]
  BY DEF UpGot, AtTarget
<1>1. CASE InletMoves
  <2>1. InP!SlotInv /\ InP!Next
    BY <1>1 DEF Ends, InP!InletInv, InletMoves
  <2>2. iUp' = iUp \/ \E c \in Ids : iUp' = [iUp EXCEPT ![c] = @ + 1]
    BY <2>1, EndsAssumed, InP!TakenOrWritten
  <2>3. UpGot' = UpGot
    BY <1>1 DEF InletMoves, outletVars, UpGot, AtTarget, HasAttempt, AttemptOf
  <2> QED BY <2>2, <2>3 DEF UpPipe!PipeNext, UpPipe!Take, UpPipe!pipeVars, UpGot
<1>2. CASE OutletMoves
  <2>1. OutP!ManagedInv /\ OutP!OwnTarget /\ OutP!Next /\ UNCHANGED iUp
    BY <1>2 DEF Ends, OutP!OutletInv, OutletMoves, inletVars
  <2>2. CASE UNCHANGED oUp
    <3>1. \A c \in Ids : UpGot'[c] = UpGot[c]
      BY <1>2, <2>2, TargetMoves
    <3>2. UpGot' = UpGot
      BY <1>0, <3>1
    <3> QED BY <2>1, <3>2 DEF UpPipe!pipeVars, UpGot
  <2>3. ASSUME NEW b \in Ids, worker[b] = "write", oCur[b] \in OutP!InMessages, oCur[b].type = "I2OSendData",
               oUp' = [oUp EXCEPT ![b] = Append(@, oCur[b].n)], go[b] # "none"
        PROVE  UpPipe!PipeNext
    <3>1. PICK d \in Ids : d = idOf[b]
      BY <2>3, IdsBegun DEF Ends
    <3>2. oUp \in [Ids -> Seq(Nat)]
      BY DEF Ends, OutP!OutletInv, OutP!ManagedInv, OutP!Typed, OutP!Carried
    <3>3. oCur[b] # None
      BY <2>3, TunnelAssumption DEF OutP!InMessages, OutP!FromInlet, Out!InMessages, Out!FromInlet
    <3>4. Held(oCur[b], "I2OSendData") = 1
      BY <2>3, <3>3 DEF Held
    <3>5. oCur[b].n = Len(oUp[b]) + 1 /\ oCur[b].n <= iUp[d]
      BY <2>3, <3>1, <3>4 DEF UpLine, UpHeld
    <3>6. oUp'[b] = Append(oUp[b], Len(oUp[b]) + 1) /\ \A a \in Ids \ {b} : oUp'[a] = oUp[a]
      BY <2>3, <3>2, <3>5
    <3>7. UpGot[d] = oUp[b]
      BY <3>1, AtAttempt DEF Ends
    <3>8. UpGot'[d] = Append(UpGot[d], Len(UpGot[d]) + 1)
      <4>1. PICK a \in Ids : idOf[a] = d /\ UpGot'[d] = oUp'[a]
        BY <1>2, <3>1, TargetMoves DEF HasAttempt
      <4>2. a = b
        BY <3>1, <4>1, TunnelAssumption DEF Ends, Once
      <4> QED BY <3>6, <3>7, <4>1, <4>2
    <3>9. ASSUME NEW c \in Ids \ {d} PROVE UpGot'[c] = UpGot[c]
      <4>1. \A a \in Ids : idOf[a] = c => a # b
        BY <3>1
      <4> QED BY <1>2, <3>6, <4>1, TargetMoves
    <3>10. UpGot' = [UpGot EXCEPT ![d] = Append(UpGot[d], Len(UpGot[d]) + 1)]
      BY <1>0, <3>8, <3>9, OneDiffers
    <3>11. Len(UpGot[d]) < iUp[d]
      BY <3>2, <3>5, <3>7, Shapes
    <3> QED BY <2>1, <3>10, <3>11 DEF UpPipe!PipeNext, UpPipe!Deliver, UpGot
  <2>4. \/ UNCHANGED oUp
        \/ \E b \in Ids : /\ worker[b] = "write" /\ oCur[b] \in OutP!InMessages /\ oCur[b].type = "I2OSendData"
                          /\ oUp' = [oUp EXCEPT ![b] = Append(@, oCur[b].n)] /\ go[b] # "none"
    BY <2>1, EndsAssumed, OutP!TakenOrWritten
  <2> QED BY <2>2, <2>3, <2>4
<1>3. CASE UNCHANGED vars
  BY <1>3 DEF vars, inletVars, outletVars, UpPipe!pipeVars, AtTarget, HasAttempt, AttemptOf
<1> QED BY <1>1, <1>2, <1>3, EitherMoves DEF Ends

\* What a local client sends reaches the target once and in order, however many
\* sessions there are and however they end (inlet.go:606-640, outlet.go:284-335).
THEOREM UplinkIsPipe == Spec => UpIsPipe
<1>1. Ends /\ Evidence /\ UpLine /\ Ends' /\ [Next]_vars => [UpPipe!PipeNext]_(UpPipe!pipeVars)
  BY UpPipeStep
<1>2. Init => UpPipe!PipeInit
  BY PipesInit
<1> QED BY <1>1, <1>2, UpLineHolds, PTL DEF Spec, UpIsPipe, UpPipe!PipeSpec

-----------------------------------------------------------------------------
\* Downlink.  What the inlet's message loop has in hand is the payload after those it has
\* written, and what follows in its queue and, while the session is in the inlet's map, on
\* the route are the next ones, up to the last the reader has sent.
DownBase(c) == Len(iDown[c]) + Held(iCur[c], "O2IRecvData")

DownHeld(a, c) ==
    Held(iCur[c], "O2IRecvData") = 1 => iCur[c].n = Len(iDown[c]) + 1 /\ iCur[c].n <= oDown[a]

DownSent(a) == IF reader[a] \in OutP!Holding THEN oDown[a] - 1 ELSE oDown[a]

\* What is on the route counts for as long as Input finds the session
ToLoop(c) == IF sess[c] = "live" THEN o2i ELSE <<>>

DownQueued(a, c) ==
    loop[c] \notin InP!Over =>
      \E t \in 0 .. oDown[a] :
        /\ Chain(DownBase(c), iQ[c], ToLoop(c), "O2IRecvData", c, t)
        /\ sess[c] = "live" /\ reader[a] \notin OutP!Over => t = DownSent(a)

DownLine == \A a, c \in Ids : idOf[a] = c => DownHeld(a, c) /\ DownQueued(a, c)

LEMMA DownLineInit == Init => DownLine
<1>1. Init => \A a \in Ids : idOf[a] = None
  BY DEF Init, Out!Init
<1> QED BY <1>1, TunnelAssumption DEF DownLine

\* A session with an attempt is in the map already if it is there after a step.
LEMMA LiveBefore ==
    ASSUME Ends, InletMoves, NEW a \in Ids, NEW c \in Ids, idOf[a] = c, sess'[c] = "live"
    PROVE  sess[c] = "live"
<1>1. InP!Advances(c)
  BY EndsAssumed, InP!SessionAdvances DEF Ends, InP!InletInv, InletMoves
<1>2. main[c] \notin InP!Early
  BY DEF Ends, Once, HasAttempt
<1> QED BY <1>1, <1>2 DEF InP!Advances, InP!Early

LEMMA DownLineInlet ==
    ASSUME Ends, InletMoves, NEW a \in Ids, NEW c \in Ids, idOf[a] = c, DownHeld(a, c), DownQueued(a, c)
    PROVE  DownHeld(a, c)' /\ DownQueued(a, c)'
<1>0. InP!SlotInv /\ InP!StopInv /\ InP!Next /\ InP!HandsFree /\ InP!Fed
  BY DEF InletMoves, Ends, InP!InletInv, InP!Reasons
<1>1. UNCHANGED <<oDown, reader>>
  BY DEF InletMoves, outletVars
<1>2. /\ oDown[a] \in Nat /\ iQ[c] \in Seq(InP!InMessages) /\ o2i \in Seq(InP!InMessages)
      /\ iDown[c] \in Seq(Nat) /\ Len(iDown[c]) \in Nat /\ DownBase(c) \in Nat
  <2>1. /\ oDown[a] \in Nat /\ iQ[c] \in Seq(InP!InMessages) /\ o2i \in Seq(InP!InMessages)
        /\ iDown[c] \in Seq(Nat) /\ Len(iDown[c]) \in Nat
    BY Shapes
  <2>2. Held(iCur[c], "O2IRecvData") \in {0, 1}
    BY HeldOne
  <2> QED BY <2>1, <2>2 DEF DownBase
<1>3. InP!Effect(c)
  BY <1>0, EndsAssumed, InP!SessionStep
<1>4. sess'[c] = "live" => sess[c] = "live"
  BY LiveBefore
<1>5. loop'[c] \notin InP!Over => loop[c] \notin InP!Over
  BY <1>0, EndsAssumed, InP!SessionAdvances DEF InP!Advances
\* It is enough to find the next chain while the session is in the map, and one
\* without the route once it is not.
<1>6. ASSUME NEW base \in Nat, base = DownBase(c)', NEW t \in 0 .. oDown[a],
             /\ Chain(base, iQ'[c], <<>>, "O2IRecvData", c, t)
                \/ Chain(base, iQ'[c], o2i', "O2IRecvData", c, t),
             sess'[c] = "live" => /\ Chain(base, iQ'[c], o2i', "O2IRecvData", c, t)
                                  /\ reader[a] \notin OutP!Over => t = DownSent(a)
      PROVE  DownQueued(a, c)'
  <2>1. DownSent(a)' = DownSent(a) /\ t \in Nat
    BY <1>1, <1>2 DEF DownSent
  <2>2. CASE sess'[c] = "live"
    BY <1>1, <1>6, <2>1, <2>2 DEF DownQueued, ToLoop
  <2>3. CASE sess'[c] # "live"
    <3>1. \E u \in 0 .. oDown[a] : Chain(base, iQ'[c], <<>>, "O2IRecvData", c, u)
      <4>1. CASE Chain(base, iQ'[c], <<>>, "O2IRecvData", c, t)
        BY <4>1
      <4>2. CASE Chain(base, iQ'[c], o2i', "O2IRecvData", c, t)
        <5>1. PICK u \in base .. t : Chain(base, iQ'[c], <<>>, "O2IRecvData", c, u)
          BY <2>1, <4>2, ChainEnds
        <5>2. u \in 0 .. oDown[a]
          BY <1>2, <5>1
        <5> QED BY <5>1, <5>2
      <4> QED BY <1>6, <4>1, <4>2
    <3> QED BY <1>1, <1>6, <2>3, <3>1 DEF DownQueued, ToLoop
  <2> QED BY <2>2, <2>3
<1>7. ASSUME loop'[c] \notin InP!Over
      PROVE  \E t \in 0 .. oDown[a] :
               /\ t \in Nat
               /\ Chain(DownBase(c), iQ[c], <<>>, "O2IRecvData", c, t)
                    \/ Chain(DownBase(c), iQ[c], o2i, "O2IRecvData", c, t)
               /\ sess[c] = "live" => /\ Chain(DownBase(c), iQ[c], o2i, "O2IRecvData", c, t)
                                      /\ reader[a] \notin OutP!Over => t = DownSent(a)
  BY <1>2, <1>5, <1>7 DEF DownQueued, ToLoop
<1>8. CASE loop'[c] \in InP!Over /\ UNCHANGED iDown[c] /\ iCur'[c] \in {iCur[c], None}
  BY <1>1, <1>8 DEF DownHeld, DownQueued, Held
<1>9. CASE \/ InP!Rests(c) \/ InP!Empties(c) \/ InP!TakesPayload(c) \/ InP!SendsPayload(c) \/ InP!GetsCredit(c)
           \/ InP!GetsMessage(c)
  <2>1. UNCHANGED <<iCur[c], iDown[c]>>
    BY <1>9 DEF InP!Rests, InP!Empties, InP!TakesPayload, InP!SendsPayload, InP!GetsCredit, InP!GetsMessage
  <2>2. DownHeld(a, c)' /\ DownBase(c)' = DownBase(c)
    BY <1>1, <2>1 DEF DownHeld, DownBase, Held
  <2>3. CASE loop'[c] \notin InP!Over
    <3>1. PICK t \in 0 .. oDown[a] :
            /\ t \in Nat
            /\ Chain(DownBase(c), iQ[c], <<>>, "O2IRecvData", c, t)
                 \/ Chain(DownBase(c), iQ[c], o2i, "O2IRecvData", c, t)
            /\ sess[c] = "live" => /\ Chain(DownBase(c), iQ[c], o2i, "O2IRecvData", c, t)
                                   /\ reader[a] \notin OutP!Over => t = DownSent(a)
      BY <1>7, <2>3
    <3>2. CASE InP!Rests(c) \/ InP!TakesPayload(c) \/ InP!SendsPayload(c)
      <4>1. iQ'[c] = iQ[c]
        BY <3>2 DEF InP!Rests, InP!TakesPayload, InP!SendsPayload
      <4>2. o2i' = o2i \/ (o2i # <<>> /\ o2i' = Tail(o2i) /\ (Head(o2i).id # c \/ sess'[c] # "live"))
        BY <3>2 DEF InP!Rests, InP!TakesPayload, InP!SendsPayload
      <4>3. sess'[c] = "live" => Chain(DownBase(c), iQ'[c], o2i', "O2IRecvData", c, t)
        BY <1>2, <1>4, <3>1, <4>1, <4>2, ChainOther DEF Is
      <4>4. CASE sess'[c] = "live"
        BY <1>2, <1>4, <1>6, <2>2, <3>1, <4>3, <4>4
      <4>5. CASE sess'[c] # "live"
        <5>1. \E u \in 0 .. oDown[a] : Chain(DownBase(c), iQ'[c], <<>>, "O2IRecvData", c, u)
          <6>1. CASE Chain(DownBase(c), iQ[c], <<>>, "O2IRecvData", c, t)
            BY <4>1, <6>1
          <6>2. CASE Chain(DownBase(c), iQ[c], o2i, "O2IRecvData", c, t)
            <7>1. PICK u \in DownBase(c) .. t : Chain(DownBase(c), iQ[c], <<>>, "O2IRecvData", c, u)
              BY <1>2, <3>1, <6>2, ChainEnds
            <7>2. u \in 0 .. oDown[a]
              BY <1>2, <3>1, <7>1
            <7> QED BY <4>1, <7>1, <7>2
          <6> QED BY <3>1, <6>1, <6>2
        <5> QED BY <1>2, <1>6, <2>2, <4>5, <5>1
      <4> QED BY <2>2, <4>4, <4>5
    <3>3. CASE InP!Empties(c)
      <4>1. iQ'[c] = <<>> /\ sess'[c] # "live"
        BY <3>3 DEF InP!Empties
      <4>2. DownBase(c) <= t
        BY <1>2, <3>1, ChainBase
      <4>3. Len(<<>>) = 0
        OBVIOUS
      <4>4. Chain(DownBase(c), <<>>, <<>>, "O2IRecvData", c, DownBase(c))
        BY <1>2, <4>3, ChainEnds
      <4>5. DownBase(c) \in 0 .. oDown[a]
        BY <1>2, <3>1, <4>2
      <4> QED BY <1>2, <1>6, <2>2, <4>1, <4>4, <4>5
    <3>4. CASE InP!GetsCredit(c)
      <4>1. /\ iQ'[c] = iQ[c] /\ sess[c] = "live" /\ o2i # <<>> /\ o2i' = Tail(o2i)
            /\ ~Is(Head(o2i), "O2IRecvData", c)
        BY <3>4 DEF InP!GetsCredit, Is
      <4>2. Chain(DownBase(c), iQ'[c], o2i', "O2IRecvData", c, t)
        BY <1>2, <3>1, <4>1, ChainOther
      <4> QED BY <1>2, <1>6, <2>2, <3>1, <4>1, <4>2
    <3>5. CASE InP!GetsMessage(c)
      <4>1. /\ iQ'[c] = Append(iQ[c], Head(o2i)) /\ sess[c] = "live" /\ o2i # <<>> /\ o2i' = Tail(o2i)
        BY <3>5 DEF InP!GetsMessage
      <4>2. Head(o2i) \in InP!InMessages
        BY <1>2, <4>1, TailFacts
      <4>3. Chain(DownBase(c), iQ'[c], o2i', "O2IRecvData", c, t)
        BY <1>2, <3>1, <4>1, <4>2, ChainMove
      <4> QED BY <1>2, <1>6, <2>2, <3>1, <4>1, <4>3
    <3> QED BY <1>9, <3>2, <3>3, <3>4, <3>5
  <2> QED BY <1>8, <2>1, <2>2, <2>3
<1>10. CASE InP!PopsMessage(c)
  <2>1. /\ iCur[c] = None /\ loop[c] \notin InP!Over /\ iQ[c] # <<>> /\ UNCHANGED <<iDown[c], o2i>>
        /\ iCur'[c] = Head(iQ[c]) /\ iQ'[c] = Tail(iQ[c])
    BY <1>0, <1>10 DEF InP!PopsMessage, InP!HandsFree, InP!Over
  <2>2. DownBase(c) = Len(iDown[c])
    BY <1>2, <2>1, HeldOne DEF DownBase
  <2>3. Head(iQ[c]) \in InP!InMessages /\ Head(iQ[c]) = iQ[c][1] /\ 1 \in 1 .. Len(iQ[c])
    BY <1>2, <2>1, TailFacts
  <2>4. Head(iQ[c]).id = c /\ Head(iQ[c]) # None
    BY <1>0, <2>3, TunnelAssumption DEF InP!Fed, InP!InMessages, In!InMessages
  <2>5. PICK t \in 0 .. oDown[a] :
          /\ Chain(DownBase(c), iQ[c], ToLoop(c), "O2IRecvData", c, t)
          /\ sess[c] = "live" /\ reader[a] \notin OutP!Over => t = DownSent(a)
    BY <2>1 DEF DownQueued
  <2>6. t \in Nat
    BY <1>2, <2>5
  <2>7. /\ DownHeld(a, c)' /\ DownBase(c)' \in Nat
        /\ Chain(DownBase(c)', iQ'[c], ToLoop(c), "O2IRecvData", c, t)
    <3>1. CASE Head(iQ[c]).type = "O2IRecvData"
      <4>1. Head(iQ[c]).n = Len(iDown[c]) + 1 /\ Len(iDown[c]) + 1 <= t
              /\ Chain(Len(iDown[c]) + 1, Tail(iQ[c]), ToLoop(c), "O2IRecvData", c, t)
        <5>1. Is(Head(iQ[c]), "O2IRecvData", c)
          BY <2>4, <3>1 DEF Is
        <5>2. /\ Head(iQ[c]).n = DownBase(c) + 1 /\ DownBase(c) + 1 <= t
              /\ Chain(DownBase(c) + 1, Tail(iQ[c]), ToLoop(c), "O2IRecvData", c, t)
          BY <1>2, <2>1, <2>5, <2>6, <5>1, ChainTake
        <5> QED BY <2>2, <5>2
      <4>2. DownBase(c)' = Len(iDown[c]) + 1
        BY <2>1, <2>4, <3>1 DEF DownBase, Held
      <4>3. DownHeld(a, c)'
        BY <1>1, <1>2, <2>1, <2>5, <4>1 DEF DownHeld
      <4> QED BY <1>2, <2>1, <4>1, <4>2, <4>3
    <3>2. CASE Head(iQ[c]).type # "O2IRecvData"
      <4>1. Chain(Len(iDown[c]), Tail(iQ[c]), ToLoop(c), "O2IRecvData", c, t)
        BY <1>2, <2>1, <2>2, <2>5, <2>6, <3>2, ChainTake DEF Is
      <4>2. Held(iCur'[c], "O2IRecvData") = 0 /\ DownBase(c)' = Len(iDown[c])
        BY <1>2, <2>1, <3>2 DEF DownBase, Held
      <4>3. DownHeld(a, c)'
        BY <4>2 DEF DownHeld
      <4> QED BY <1>2, <2>1, <4>1, <4>2, <4>3
    <3> QED BY <3>1, <3>2
  <2>8. Chain(DownBase(c)', iQ'[c], <<>>, "O2IRecvData", c, t)
          \/ Chain(DownBase(c)', iQ'[c], o2i', "O2IRecvData", c, t)
    BY <2>1, <2>7 DEF ToLoop
  <2>9. sess'[c] = "live" => /\ Chain(DownBase(c)', iQ'[c], o2i', "O2IRecvData", c, t)
                             /\ reader[a] \notin OutP!Over => t = DownSent(a)
    BY <1>4, <2>1, <2>5, <2>7 DEF ToLoop
  <2> QED BY <1>6, <2>7, <2>8, <2>9
<1>11. CASE InP!BecomesReady(c) \/ InP!WritesPayload(c)
  <2>1. UNCHANGED <<iQ[c], o2i>> /\ iCur'[c] = None /\ iCur[c] # None /\ iCur[c] \in InP!InMessages
    BY <1>11, TunnelAssumption DEF InP!BecomesReady, InP!WritesPayload, InP!InMessages, In!InMessages
  <2>2. DownBase(c)' = DownBase(c)
    <3>1. CASE InP!BecomesReady(c)
      <4>1. iDown'[c] = iDown[c] /\ Held(iCur[c], "O2IRecvData") = 0 /\ Held(iCur'[c], "O2IRecvData") = 0
        BY <2>1, <3>1 DEF InP!BecomesReady, Held
      <4> QED BY <4>1 DEF DownBase
    <3>2. CASE InP!WritesPayload(c)
      <4>1. /\ iDown'[c] = Append(iDown[c], iCur[c].n) /\ Held(iCur[c], "O2IRecvData") = 1
            /\ Held(iCur'[c], "O2IRecvData") = 0
        BY <2>1, <3>2 DEF InP!WritesPayload, Held
      <4>2. iCur[c].n \in Nat
        BY <2>1, <3>2 DEF InP!WritesPayload, InP!InMessages
      <4>3. Len(iDown'[c]) = Len(iDown[c]) + 1
        BY <1>2, <4>1, <4>2, AppendFacts
      <4> QED BY <1>2, <4>1, <4>3 DEF DownBase
    <3> QED BY <1>11, <3>1, <3>2
  <2>3. DownHeld(a, c)'
    BY <2>1, HeldOne DEF DownHeld
  <2>4. CASE loop'[c] \notin InP!Over
    <3>1. PICK t \in 0 .. oDown[a] :
            /\ t \in Nat
            /\ Chain(DownBase(c), iQ[c], <<>>, "O2IRecvData", c, t)
                 \/ Chain(DownBase(c), iQ[c], o2i, "O2IRecvData", c, t)
            /\ sess[c] = "live" => /\ Chain(DownBase(c), iQ[c], o2i, "O2IRecvData", c, t)
                                   /\ reader[a] \notin OutP!Over => t = DownSent(a)
      BY <1>7, <2>4
    <3> QED BY <1>2, <1>4, <1>6, <2>1, <2>2, <2>3, <3>1
  <2>5. CASE loop'[c] \in InP!Over
    BY <2>3, <2>5 DEF DownQueued
  <2> QED BY <2>4, <2>5
<1>12. CASE InP!GivesUp(c)
  BY <1>8, <1>12 DEF InP!GivesUp
<1> QED BY <1>3, <1>9, <1>10, <1>11, <1>12 DEF InP!Effect

LEMMA DownLineOutlet ==
    ASSUME Ends, Evidence, OutletMoves, NEW a \in Ids, NEW c \in Ids, idOf'[a] = c,
           idOf[a] = c => DownHeld(a, c) /\ DownQueued(a, c)
    PROVE  DownHeld(a, c)' /\ DownQueued(a, c)'
<1>0. UNCHANGED <<sess, loop, iQ, iCur, iDown>>
  BY DEF OutletMoves, inletVars
<1>i. OutP!Idle /\ OutP!InHand
  BY DEF Ends, OutP!OutletInv, OutP!ManagedInv, OutP!Typed
<1>s. /\ oDown[a] \in Nat /\ iQ[c] \in Seq(InP!InMessages) /\ o2i \in Seq(InP!InMessages)
      /\ DownBase(c) \in Nat
  <2>1. /\ oDown[a] \in Nat /\ iQ[c] \in Seq(InP!InMessages) /\ o2i \in Seq(InP!InMessages)
        /\ Len(iDown[c]) \in Nat
    BY Shapes
  <2>2. Held(iCur[c], "O2IRecvData") \in {0, 1}
    BY HeldOne
  <2> QED BY <2>1, <2>2 DEF DownBase
<1>b. DownBase(c)' = DownBase(c)
  BY <1>0 DEF DownBase, Held
<1>1. CASE go[a] = "none" /\ OutP!Begins(a)
  <2>1. reader[a] = "none" /\ UNCHANGED <<oDown, reader, o2i>> /\ oDown[a] = 0
    BY <1>1, <1>i DEF OutP!Begins, OutP!InHand, OutP!Idle
  <2>2. i2o # <<>> /\ Head(i2o).type = "I2OConnect" /\ Head(i2o).id = c
    <3>1. idOf \in [Ids -> Ids \cup {None}]
      BY DEF Ends, OutP!OutletInv, OutP!ManagedInv, OutP!Typed, OutP!Located
    <3> QED BY <1>1, <3>1 DEF OutP!Begins
  <2>3. ~HasAttempt(c)
    <3>1. i2o \in Seq(InP!Sends)
      BY Shapes
    <3>2. 1 \in 1 .. Len(i2o) /\ Head(i2o) = i2o[1]
      BY <2>2, <3>1, TailFacts
    <3> QED BY <2>2, <3>2 DEF Ends, Once
  <2>4. ~Announced(c)
    BY <2>3 DEF HasAttempt, Announced
  <2>5. /\ iDown[c] = <<>> /\ Held(iCur[c], "O2IRecvData") = 0
        /\ \A k \in 1 .. Len(o2i) : ~Is(o2i[k], "O2IRecvData", c)
        /\ \A k \in 1 .. Len(iQ[c]) : ~Is(iQ[c][k], "O2IRecvData", c)
    BY <2>4, NothingSent
  <2>6. DownBase(c) = 0
    BY <2>5 DEF DownBase
  <2>7. Len(<<>>) = 0
    OBVIOUS
  <2>8. \A k \in 1 .. Len(ToLoop(c)) : ~Is(ToLoop(c)[k], "O2IRecvData", c)
    BY <2>5, <2>7 DEF ToLoop
  <2>9. Chain(0, iQ[c], ToLoop(c), "O2IRecvData", c, 0)
    <3>1. Nums(iQ[c], "O2IRecvData", c) = {} /\ Sorted(iQ[c], "O2IRecvData", c)
      BY <2>5 DEF Nums, Sorted
    <3>2. Nums(ToLoop(c), "O2IRecvData", c) = {} /\ Sorted(ToLoop(c), "O2IRecvData", c)
      BY <2>8 DEF Nums, Sorted
    <3>3. (0 + 1) .. 0 = {} /\ 0 \in 0 .. 0
      OBVIOUS
    <3> QED BY <3>1, <3>2, <3>3 DEF Chain
  <2>10. DownSent(a)' = 0 /\ 0 \in 0 .. oDown'[a] /\ ToLoop(c)' = ToLoop(c)
    BY <1>0, <2>1 DEF DownSent, OutP!Holding, ToLoop
  <2>11. DownHeld(a, c)'
    BY <1>0, <2>5 DEF DownHeld, Held
  <2> QED BY <1>0, <1>b, <2>6, <2>9, <2>10, <2>11 DEF DownQueued
<1>2. ASSUME go[a] # "none", idOf[a] = c, OutP!Effect(a)
      PROVE  DownHeld(a, c)' /\ DownQueued(a, c)'
  <2>0. DownHeld(a, c) /\ DownQueued(a, c)
    BY <1>2
  <2>1. oDown'[a] = oDown[a] \/ oDown'[a] = oDown[a] + 1
    BY <1>2 DEF OutP!Effect, OutP!Rests, OutP!Loses, OutP!GetsMessage, OutP!GetsCredit, OutP!Installs,
                OutP!PopsMessage, OutP!BeginsWrite, OutP!WritesPayload, OutP!TakesPayload, OutP!GetsRoom,
                OutP!SendsPayload
  <2>2. DownHeld(a, c)'
    <3>1. CASE Held(iCur[c], "O2IRecvData") = 1
      <4>1. iCur[c].n = Len(iDown[c]) + 1 /\ iCur[c].n <= oDown[a] /\ Len(iDown[c]) \in Nat
        BY <2>0, <3>1, Shapes DEF DownHeld
      <4> QED BY <1>0, <1>s, <2>1, <4>1 DEF DownHeld
    <3>2. CASE Held(iCur[c], "O2IRecvData") # 1
      BY <1>0, <3>2 DEF DownHeld, Held
    <3> QED BY <3>1, <3>2
  <2>3. CASE loop[c] \in InP!Over
    BY <1>0, <2>2, <2>3 DEF DownQueued
  <2>4. ASSUME loop[c] \notin InP!Over
        PROVE  DownQueued(a, c)'
    <3>1. PICK t \in 0 .. oDown[a] :
            /\ Chain(DownBase(c), iQ[c], ToLoop(c), "O2IRecvData", c, t)
            /\ sess[c] = "live" /\ reader[a] \notin OutP!Over => t = DownSent(a)
      BY <2>0, <2>4 DEF DownQueued
    <3>2. t \in Nat /\ t \in 0 .. oDown'[a]
      BY <1>s, <2>1, <3>1
    <3>3. ASSUME NEW u \in 0 .. oDown'[a],
                 Chain(DownBase(c), iQ[c], ToLoop(c)', "O2IRecvData", c, u),
                 sess[c] = "live" /\ reader'[a] \notin OutP!Over => u = DownSent(a)'
          PROVE  DownQueued(a, c)'
      BY <1>0, <1>b, <3>3 DEF DownQueued
    <3>4. CASE OutP!TakesPayload(a)
      <4>1. ToLoop(c)' = ToLoop(c)
        BY <1>0, <3>4 DEF OutP!TakesPayload, ToLoop
      <4>2. DownSent(a) = oDown[a] /\ DownSent(a)' = oDown[a] /\ reader[a] \notin OutP!Over
        BY <1>s, <3>4 DEF OutP!TakesPayload, DownSent, OutP!Holding, OutP!Over
      <4> QED BY <3>1, <3>2, <3>3, <4>1, <4>2
    <3>5. CASE OutP!GetsRoom(a)
      <4>1. ToLoop(c)' = ToLoop(c)
        BY <1>0, <3>5 DEF OutP!GetsRoom, ToLoop
      <4>2. DownSent(a)' = DownSent(a) /\ reader[a] \notin OutP!Over
        BY <3>5 DEF OutP!GetsRoom, DownSent, OutP!Holding, OutP!Over
      <4> QED BY <3>1, <3>2, <3>3, <4>1, <4>2
    <3>6. CASE OutP!SendsPayload(a)
      <4> DEFINE m == OutP!RecvData(c, oDown[a])
      <4>1. o2i' = Append(o2i, m) /\ oDown'[a] = oDown[a]
        BY <1>2, <3>6 DEF OutP!SendsPayload
      <4>2. DownSent(a) = oDown[a] - 1 /\ DownSent(a)' = oDown[a] /\ reader[a] \notin OutP!Over
        BY <3>6 DEF OutP!SendsPayload, DownSent, OutP!Holding, OutP!Over
      <4>3. m \in InP!InMessages /\ Is(m, "O2IRecvData", c) /\ m.n = oDown[a]
        BY <1>s DEF OutP!RecvData, InP!InMessages, Is
      <4> HIDE DEF m
      <4>4. CASE sess[c] = "live"
        <5>1. t + 1 = oDown[a] /\ ToLoop(c) = o2i /\ ToLoop(c)' = o2i'
          BY <1>0, <1>s, <3>1, <4>2, <4>4 DEF ToLoop
        <5>2. Chain(DownBase(c), iQ[c], Append(o2i, m), "O2IRecvData", c, t + 1)
          BY <1>s, <3>1, <3>2, <4>3, <5>1, ChainExtend
        <5>3. t + 1 \in 0 .. oDown'[a]
          BY <1>s, <4>1, <5>1
        <5> QED BY <3>3, <4>1, <4>2, <5>1, <5>2, <5>3
      <4>5. CASE sess[c] # "live"
        <5>1. ToLoop(c)' = ToLoop(c)
          BY <1>0, <4>5 DEF ToLoop
        <5> QED BY <3>1, <3>2, <3>3, <4>5, <5>1
      <4> QED BY <4>4, <4>5
    <3>7. CASE \/ OutP!Rests(a) \/ OutP!Loses(a) \/ OutP!GetsMessage(a) \/ OutP!GetsCredit(a) \/ OutP!Installs(a)
               \/ OutP!PopsMessage(a) \/ OutP!BeginsWrite(a) \/ OutP!WritesPayload(a)
      <4>1. oDown'[a] = oDown[a] /\ (OutP!KeepsPace(a) \/ reader'[a] = reader[a])
        BY <3>7 DEF OutP!Rests, OutP!Loses, OutP!GetsMessage, OutP!GetsCredit, OutP!Installs, OutP!PopsMessage,
                    OutP!BeginsWrite, OutP!WritesPayload
      <4>2. reader'[a] \notin OutP!Over => DownSent(a)' = DownSent(a) /\ reader[a] \notin OutP!Over
        BY <4>1 DEF OutP!KeepsPace, DownSent
      <4>3. o2i' = o2i \/ \E m \in InP!InMessages : ~Is(m, "O2IRecvData", c) /\ o2i' = Append(o2i, m)
        <5>1. CASE OutP!Rests(a)
          BY <1>2, <5>1, SameMessages DEF OutP!Rests, Is
        <5>2. CASE OutP!WritesPayload(a)
          <6>1. OutP!SendDataResult(c) \in InP!InMessages /\ ~Is(OutP!SendDataResult(c), "O2IRecvData", c)
            BY DEF OutP!SendDataResult, InP!InMessages, Is
          <6> QED BY <1>2, <5>2, <6>1 DEF OutP!WritesPayload
        <5> QED BY <3>7, <5>1, <5>2 DEF OutP!Loses, OutP!GetsMessage, OutP!GetsCredit, OutP!Installs,
                                        OutP!PopsMessage, OutP!BeginsWrite
      <4>4. Chain(DownBase(c), iQ[c], ToLoop(c)', "O2IRecvData", c, t)
        <5>1. CASE sess[c] = "live"
          <6>1. ToLoop(c) = o2i /\ ToLoop(c)' = o2i'
            BY <1>0, <5>1 DEF ToLoop
          <6> QED BY <1>s, <3>1, <3>2, <4>3, <6>1, ChainOther
        <5>2. CASE sess[c] # "live"
          <6>1. ToLoop(c)' = ToLoop(c)
            BY <1>0, <5>2 DEF ToLoop
          <6> QED BY <3>1, <6>1
        <5> QED BY <5>1, <5>2
      <4> QED BY <3>1, <3>2, <3>3, <4>2, <4>4
    <3> QED BY <1>2, <3>4, <3>5, <3>6, <3>7 DEF OutP!Effect
  <2> QED BY <2>2, <2>3, <2>4
<1> QED BY <1>1, <1>2, AttemptMoves

LEMMA DownLineStep == Ends /\ Evidence /\ DownLine /\ [Next]_vars => DownLine'
<1> SUFFICES ASSUME Ends, Evidence, DownLine, [Next]_vars, NEW a \in Ids, NEW c \in Ids, idOf'[a] = c
             PROVE  DownHeld(a, c)' /\ DownQueued(a, c)'
  BY DEF DownLine
<1>0. idOf[a] = c => DownHeld(a, c) /\ DownQueued(a, c)
  BY DEF DownLine
<1>1. CASE InletMoves
  <2>1. idOf[a] = c
    BY <1>1 DEF InletMoves, outletVars
  <2> QED BY <1>0, <1>1, <2>1, DownLineInlet
<1>2. CASE OutletMoves
  BY <1>0, <1>2, DownLineOutlet
<1>3. CASE UNCHANGED vars
  <2>1. UNCHANGED <<idOf, iCur, iDown, oDown, loop, iQ, sess, o2i, reader>>
    BY <1>3 DEF vars, inletVars, outletVars
  <2>2. /\ DownBase(c)' = DownBase(c) /\ DownSent(a)' = DownSent(a) /\ ToLoop(c)' = ToLoop(c)
        /\ DownHeld(a, c) => DownHeld(a, c)'
    BY <2>1 DEF DownBase, DownSent, ToLoop, DownHeld, Held
  <2> QED BY <1>0, <2>1, <2>2 DEF DownQueued
<1> QED BY <1>1, <1>2, <1>3, EitherMoves DEF Ends

LEMMA DownPipeStep ==
    ASSUME Ends, Evidence, DownLine, Ends', [Next]_vars
    PROVE  [DownPipe!PipeNext]_(DownPipe!pipeVars)
<1>0. /\ DownTaken = [c \in Ids |-> DownTaken[c]] /\ DownTaken' = [c \in Ids |-> DownTaken'[c]]
  BY DEF DownTaken, AtTarget
<1>1. CASE InletMoves
  <2>1. InP!SlotInv /\ InP!Next
    BY <1>1 DEF Ends, InP!InletInv, InletMoves
  <2>2. DownTaken' = DownTaken
    BY <1>1 DEF InletMoves, outletVars, DownTaken, AtTarget, HasAttempt, AttemptOf
  <2>3. CASE UNCHANGED iDown
    BY <2>2, <2>3 DEF DownPipe!pipeVars, DownTaken
  <2>4. ASSUME NEW c \in Ids, iCur[c] \in InP!InMessages, iCur[c].type = "O2IRecvData",
               iDown' = [iDown EXCEPT ![c] = Append(@, iCur[c].n)]
        PROVE  DownPipe!PipeNext
    <3>1. iCur[c] # None
      BY <2>4, TunnelAssumption DEF InP!InMessages, In!InMessages
    <3>2. PICK a \in Ids : idOf[a] = c
      BY <2>4, <3>1 DEF Evidence, Announced, OutP!Spoken
    <3>3. Held(iCur[c], "O2IRecvData") = 1
      BY <2>4, <3>1 DEF Held
    <3>4. iCur[c].n = Len(iDown[c]) + 1 /\ iCur[c].n <= oDown[a]
      BY <3>2, <3>3 DEF DownLine, DownHeld
    <3>5. DownTaken[c] = oDown[a]
      BY <3>2, AtAttempt DEF Ends
    <3>6. Len(iDown[c]) < DownTaken[c]
      BY <3>4, <3>5, Shapes
    <3>7. iDown' = [iDown EXCEPT ![c] = Append(@, Len(@) + 1)]
      BY <2>4, <3>4
    <3> QED BY <2>2, <3>6, <3>7 DEF DownPipe!PipeNext, DownPipe!Deliver, DownTaken
  <2>5. \/ UNCHANGED iDown
        \/ \E c \in Ids : /\ iCur[c] \in InP!InMessages /\ iCur[c].type = "O2IRecvData"
                          /\ iDown' = [iDown EXCEPT ![c] = Append(@, iCur[c].n)]
    BY <2>1, EndsAssumed, InP!TakenOrWritten
  <2> QED BY <2>3, <2>4, <2>5
<1>2. CASE OutletMoves
  <2>1. OutP!ManagedInv /\ OutP!OwnTarget /\ OutP!Next /\ UNCHANGED iDown
    BY <1>2 DEF Ends, OutP!OutletInv, OutletMoves, inletVars
  <2>2. CASE UNCHANGED oDown
    <3>1. \A c \in Ids : DownTaken'[c] = DownTaken[c]
      BY <1>2, <2>2, TargetMoves
    <3>2. DownTaken' = DownTaken
      BY <1>0, <3>1
    <3> QED BY <2>1, <3>2 DEF DownPipe!pipeVars, DownTaken
  <2>3. ASSUME NEW b \in Ids, oDown' = [oDown EXCEPT ![b] = @ + 1], go[b] # "none"
        PROVE  DownPipe!PipeNext
    <3>1. PICK d \in Ids : d = idOf[b]
      BY <2>3, IdsBegun DEF Ends
    <3>2. oDown \in [Ids -> Nat]
      BY TunnelAssumption DEF Ends, OutP!OutletInv, OutP!ManagedInv, OutP!Typed, OutP!Carried
    <3>3. oDown'[b] = oDown[b] + 1 /\ \A a \in Ids \ {b} : oDown'[a] = oDown[a]
      BY <2>3, <3>2
    <3>4. DownTaken[d] = oDown[b]
      BY <3>1, AtAttempt DEF Ends
    <3>5. DownTaken'[d] = DownTaken[d] + 1
      <4>1. PICK a \in Ids : idOf[a] = d /\ DownTaken'[d] = oDown'[a]
        BY <1>2, <3>1, TargetMoves DEF HasAttempt
      <4>2. a = b
        BY <3>1, <4>1, TunnelAssumption DEF Ends, Once
      <4> QED BY <3>3, <3>4, <4>1, <4>2
    <3>6. ASSUME NEW c \in Ids \ {d} PROVE DownTaken'[c] = DownTaken[c]
      <4>1. \A a \in Ids : idOf[a] = c => a # b
        BY <3>1
      <4> QED BY <1>2, <3>3, <4>1, TargetMoves
    <3>7. DownTaken' = [DownTaken EXCEPT ![d] = DownTaken[d] + 1]
      BY <1>0, <3>5, <3>6, OneDiffers
    <3> QED BY <2>1, <3>7 DEF DownPipe!PipeNext, DownPipe!Take, DownTaken
  <2>4. UNCHANGED oDown \/ \E b \in Ids : oDown' = [oDown EXCEPT ![b] = @ + 1] /\ go[b] # "none"
    BY <2>1, EndsAssumed, OutP!TakenOrWritten
  <2> QED BY <2>2, <2>3, <2>4
<1>3. CASE UNCHANGED vars
  BY <1>3 DEF vars, inletVars, outletVars, DownPipe!pipeVars, AtTarget, HasAttempt, AttemptOf
<1> QED BY <1>1, <1>2, <1>3, EitherMoves DEF Ends

LEMMA DownLineHolds == Spec => [](Ends /\ Evidence /\ DownLine)
<1>1. Init => Ends /\ Evidence /\ DownLine
  BY EndsInit, EvidenceInit, DownLineInit
<1>2. Ends /\ Evidence /\ DownLine /\ [Next]_vars => (Ends /\ Evidence /\ DownLine)'
  BY EndsStep, EvidenceStays, DownLineStep
<1> QED BY <1>1, <1>2, PTL DEF Spec

\* What the target sends reaches the local client once and in order, although the
\* client's session may be gone before its last payloads come (inlet.go:159-173, 503-524).
THEOREM DownlinkIsPipe == Spec => DownIsPipe
<1>1. Ends /\ Evidence /\ DownLine /\ Ends' /\ [Next]_vars => [DownPipe!PipeNext]_(DownPipe!pipeVars)
  BY DownPipeStep
<1>2. Init => DownPipe!PipeInit
  BY PipesInit
<1> QED BY <1>1, <1>2, DownLineHolds, PTL DEF Spec, DownIsPipe, DownPipe!PipeSpec

-----------------------------------------------------------------------------
\* Credit.  CreditConserved said of the attempt that has the id, so that a step of
\* the outlet can be followed attempt by attempt.
UpTotal(a, c) ==
    Count(i2o, "I2OSendData", c) + Count(oQ[a], "I2OSendData", c) + Held(oCur[a], "I2OSendData")
      + Count(o2i, "O2ISendDataResult", c)

Emitting(a) == IF reader[a] = "emit" THEN 1 ELSE 0

DownTotal(a, c) ==
    Emitting(a) + Count(o2i, "O2IRecvData", c) + Count(iQ[c], "O2IRecvData", c)
      + Held(iCur[c], "O2IRecvData") + Count(i2o, "I2ORecvDataResult", c)

Balanced(a, c) ==
    sess[c] = "live" /\ sessions[c] = a => iFlow[c] = UpTotal(a, c) /\ oFlow[a] = DownTotal(a, c)

Credit == \A a, c \in Ids : idOf[a] = c => Balanced(a, c)

LEMMA CountNone ==
    ASSUME NEW q, NEW type, NEW c, \A k \in 1 .. Len(q) : ~Is(q[k], type, c)
    PROVE  Count(q, type, c) = 0
<1>1. Places(q, type, c) = {}
  BY DEF Places
<1>2. Count(q, type, c) = Cardinality(Places(q, type, c))
  BY DEF Count, Places, Is
<1> QED BY <1>1, <1>2, FS_EmptySet

\* The queue changes by something that is not counted.
LEMMA CountSkips ==
    ASSUME NEW S, NEW q \in Seq(S), q # <<>>, NEW type, NEW c, ~Is(Head(q), type, c)
    PROVE  Count(Tail(q), type, c) = Count(q, type, c)
<1>1. Tail(q) \in Seq(S)
  BY TailFacts
<1>2. Count(Tail(q), type, c) \in Nat
  BY <1>1, CountPlaces
<1> QED BY <1>2, CountTail DEF One

LEMMA CountOther ==
    ASSUME NEW S, NEW q \in Seq(S), NEW r, NEW type, NEW c,
           \/ r = q
           \/ \E m \in S : ~Is(m, type, c) /\ r = Append(q, m)
           \/ q # <<>> /\ ~Is(Head(q), type, c) /\ r = Tail(q)
    PROVE  Count(r, type, c) = Count(q, type, c)
<1>1. Count(q, type, c) \in Nat
  BY CountPlaces
<1>2. ASSUME NEW m \in S, ~Is(m, type, c), r = Append(q, m) PROVE Count(r, type, c) = Count(q, type, c)
  BY <1>1, <1>2, CountAppend DEF One
<1>3. CASE q # <<>> /\ ~Is(Head(q), type, c) /\ r = Tail(q)
  BY <1>3, CountSkips
<1> QED BY <1>2, <1>3

LEMMA CreditInit == Init => Credit
<1>1. Init => \A a \in Ids : idOf[a] = None
  BY DEF Init, Out!Init
<1> QED BY <1>1, TunnelAssumption DEF Credit

LEMMA CreditInlet ==
    ASSUME Ends, InletMoves, NEW a \in Ids, NEW c \in Ids, idOf[a] = c, Balanced(a, c)
    PROVE  Balanced(a, c)'
<1> SUFFICES ASSUME sess'[c] = "live", sessions'[c] = a
             PROVE  iFlow'[c] = UpTotal(a, c)' /\ oFlow'[a] = DownTotal(a, c)'
  BY DEF Balanced
<1>0. InP!SlotInv /\ InP!StopInv /\ InP!Next /\ InP!HandsFree /\ InP!Fed
  BY DEF InletMoves, Ends, InP!InletInv, InP!Reasons
<1>1. UNCHANGED <<oQ, oCur, oFlow, reader, sessions>>
  BY DEF InletMoves, outletVars
<1>s. /\ iQ[c] \in Seq(InP!InMessages) /\ oQ[a] \in Seq(OutP!InMessages)
      /\ i2o \in Seq(InP!Sends) /\ o2i \in Seq(InP!InMessages)
      /\ iFlow[c] \in Nat /\ oFlow[a] \in Nat
  BY Shapes
<1> DEFINE upI(q) == Count(q, "I2OSendData", c)
           upO(q) == Count(q, "O2ISendDataResult", c)
           downI(q) == Count(q, "I2ORecvDataResult", c)
           downO(q) == Count(q, "O2IRecvData", c)
           upHeld == Held(oCur[a], "I2OSendData")
           inHand == Held(iCur[c], "O2IRecvData")
           inHandNext == Held(iCur'[c], "O2IRecvData")
<1>n. /\ upI(i2o) \in Nat /\ upI(oQ[a]) \in Nat /\ upO(o2i) \in Nat
      /\ downI(i2o) \in Nat /\ downO(o2i) \in Nat /\ downO(iQ[c]) \in Nat
      /\ upHeld \in Nat /\ inHand \in Nat /\ inHandNext \in Nat /\ Emitting(a) \in Nat
  <2>1. upHeld \in {0, 1} /\ inHand \in {0, 1} /\ inHandNext \in {0, 1}
    BY HeldOne
  <2>2. upI(i2o) \in Nat /\ downI(i2o) \in Nat
    BY <1>s, CountPlaces
  <2>3. upI(oQ[a]) \in Nat /\ downO(iQ[c]) \in Nat
    BY <1>s, CountPlaces
  <2>4. upO(o2i) \in Nat /\ downO(o2i) \in Nat
    BY <1>s, CountPlaces
  <2>5. Emitting(a) \in Nat
    BY DEF Emitting
  <2> HIDE DEF upHeld, inHand, inHandNext, upI, upO, downI, downO
  <2> QED BY <2>1, <2>2, <2>3, <2>4, <2>5
<1>2. /\ iFlow[c] = upI(i2o) + upI(oQ[a]) + upHeld + upO(o2i)
      /\ oFlow[a] = Emitting(a) + downO(o2i) + downO(iQ[c]) + inHand + downI(i2o)
  <2>1. sess[c] = "live" /\ sessions[c] = a
    BY <1>1, LiveBefore
  <2> QED BY <2>1 DEF Balanced, UpTotal, DownTotal
<1>3. ASSUME /\ iFlow'[c] = upI(i2o') + upI(oQ[a]) + upHeld + upO(o2i')
             /\ oFlow[a] = Emitting(a) + downO(o2i') + downO(iQ'[c]) + inHandNext + downI(i2o')
      PROVE  iFlow'[c] = UpTotal(a, c)' /\ oFlow'[a] = DownTotal(a, c)'
  BY <1>1, <1>3 DEF UpTotal, DownTotal, Emitting, Held, Count
<1>4. InP!Effect(c)
  BY <1>0, EndsAssumed, InP!SessionStep
<1>5. CASE InP!Rests(c)
  <2>1. UNCHANGED <<iFlow[c], iQ[c], iCur[c]>>
    BY <1>5 DEF InP!Rests
  <2>2. upI(i2o') = upI(i2o) /\ downI(i2o') = downI(i2o)
    <3>1. \/ i2o' = i2o
          \/ \E m \in InP!Sends : /\ ~Is(m, "I2OSendData", c) /\ ~Is(m, "I2ORecvDataResult", c)
                                  /\ i2o' = Append(i2o, m)
      BY <1>5 DEF InP!Rests, Is
    <3> QED BY <1>s, <3>1, CountOther
  <2>3. upO(o2i') = upO(o2i) /\ downO(o2i') = downO(o2i)
    <3>1. o2i' = o2i \/ (/\ o2i # <<>> /\ o2i' = Tail(o2i)
                         /\ ~Is(Head(o2i), "O2ISendDataResult", c) /\ ~Is(Head(o2i), "O2IRecvData", c))
      BY <1>5 DEF InP!Rests, Is
    <3> QED BY <1>s, <3>1, CountOther
  <2> QED BY <1>2, <1>3, <2>1, <2>2, <2>3
<1>6. CASE InP!TakesPayload(c)
  BY <1>2, <1>3, <1>6 DEF InP!TakesPayload
<1>7. CASE InP!SendsPayload(c)
  <2>1. /\ UNCHANGED <<iQ[c], iCur[c], o2i>> /\ iFlow'[c] = iFlow[c] + 1
        /\ i2o' = Append(i2o, InP!SendData(c, iUp[c]))
    BY <1>7 DEF InP!SendsPayload
  <2>2. /\ InP!SendData(c, iUp[c]) \in InP!Sends /\ Is(InP!SendData(c, iUp[c]), "I2OSendData", c)
        /\ ~Is(InP!SendData(c, iUp[c]), "I2ORecvDataResult", c)
    BY Shapes, EndsAssumed, InP!SendsTyped DEF InP!SendData, Is
  <2>3. upI(i2o') = upI(i2o) + 1 /\ downI(i2o') = downI(i2o)
    BY <1>s, <1>n, <2>1, <2>2, CountAppend DEF One
  <2> QED BY <1>2, <1>3, <1>n, <2>1, <2>3
<1>8. CASE InP!PopsMessage(c)
  <2>1. /\ iCur[c] = None /\ iQ[c] # <<>> /\ UNCHANGED <<iFlow[c], i2o, o2i>>
        /\ iCur'[c] = Head(iQ[c]) /\ iQ'[c] = Tail(iQ[c])
    BY <1>0, <1>8 DEF InP!PopsMessage, InP!HandsFree
  <2>2. Head(iQ[c]) \in InP!InMessages /\ Head(iQ[c]) = iQ[c][1] /\ 1 \in 1 .. Len(iQ[c])
          /\ iQ'[c] \in Seq(InP!InMessages)
    BY <1>s, <2>1, TailFacts
  <2>3. Head(iQ[c]).id = c /\ Head(iQ[c]) # None
    BY <1>0, <2>2, TunnelAssumption DEF InP!Fed, InP!InMessages, In!InMessages
  <2>4. inHand = 0 /\ inHandNext = One(Head(iQ[c]), "O2IRecvData", c)
    BY <2>1, <2>3 DEF Held, One, Is
  <2>5. downO(iQ[c]) = downO(iQ'[c]) + One(Head(iQ[c]), "O2IRecvData", c)
    BY <1>s, <2>1, CountTail
  <2>6. downO(iQ'[c]) \in Nat
    BY <2>2, CountPlaces
  <2>7. iFlow'[c] = upI(i2o') + upI(oQ[a]) + upHeld + upO(o2i')
    BY <1>2, <2>1
  <2>8. oFlow[a] = Emitting(a) + downO(o2i') + downO(iQ'[c]) + inHandNext + downI(i2o')
    <3>1. downO(o2i') = downO(o2i) /\ downI(i2o') = downI(i2o)
      BY <2>1
    <3>2. downO(iQ[c]) + inHand = downO(iQ'[c]) + inHandNext
      BY <1>n, <2>4, <2>5, <2>6
    <3> QED BY <1>2, <1>n, <2>6, <3>1, <3>2
  <2> QED BY <1>3, <2>7, <2>8
<1>9. CASE InP!BecomesReady(c)
  <2>1. UNCHANGED <<iFlow[c], iQ[c], i2o, o2i>>
    BY <1>9 DEF InP!BecomesReady
  <2>2. inHand = 0 /\ inHandNext = 0
    BY <1>9 DEF InP!BecomesReady, Held
  <2> QED BY <1>2, <1>3, <2>1, <2>2
<1>10. CASE InP!WritesPayload(c)
  <2>1. /\ UNCHANGED <<iFlow[c], iQ[c], o2i>> /\ i2o' = Append(i2o, InP!RecvResult(c))
    BY <1>10 DEF InP!WritesPayload
  <2>2. inHand = 1 /\ inHandNext = 0
    BY <1>10, TunnelAssumption DEF InP!WritesPayload, Held, InP!InMessages, In!InMessages
  <2>3. /\ InP!RecvResult(c) \in InP!Sends /\ Is(InP!RecvResult(c), "I2ORecvDataResult", c)
        /\ ~Is(InP!RecvResult(c), "I2OSendData", c)
    BY EndsAssumed, InP!SendsTyped DEF InP!RecvResult, Is
  <2>4. upI(i2o') = upI(i2o) /\ downI(i2o') = downI(i2o) + 1
    BY <1>s, <1>n, <2>1, <2>3, CountAppend DEF One
  <2>5. iFlow'[c] = upI(i2o') + upI(oQ[a]) + upHeld + upO(o2i')
    BY <1>2, <2>1, <2>4
  <2>6. oFlow[a] = Emitting(a) + downO(o2i') + downO(iQ'[c]) + inHandNext + downI(i2o')
    <3>1. downO(o2i') = downO(o2i) /\ downO(iQ'[c]) = downO(iQ[c])
      BY <2>1
    <3>2. inHand + downI(i2o) = inHandNext + downI(i2o') /\ downI(i2o') \in Nat
      BY <1>n, <2>2, <2>4
    <3>3. oFlow[a] = Emitting(a) + downO(o2i) + downO(iQ[c]) + inHandNext + downI(i2o')
      BY <1>2, <1>n, <3>2
    <3> QED BY <3>1, <3>3
  <2> QED BY <1>3, <2>5, <2>6
<1>11. CASE InP!GetsCredit(c)
  <2>1. /\ o2i # <<>> /\ o2i' = Tail(o2i) /\ Is(Head(o2i), "O2ISendDataResult", c)
        /\ ~Is(Head(o2i), "O2IRecvData", c) /\ UNCHANGED <<iQ[c], iCur[c], i2o>>
        /\ iFlow'[c] = IF iFlow[c] = 0 THEN 0 ELSE iFlow[c] - 1
    BY <1>11 DEF InP!GetsCredit, Is
  <2>2. o2i' \in Seq(InP!InMessages)
    BY <1>s, <2>1, TailFacts
  <2>3. upO(o2i') \in Nat /\ upO(o2i) = upO(o2i') + 1
    BY <1>s, <2>1, <2>2, CountPlaces, CountTail DEF One
  <2>4. downO(o2i') = downO(o2i)
    BY <1>s, <2>1, CountSkips
  <2>5. iFlow[c] # 0 /\ iFlow'[c] = iFlow[c] - 1
    <3>1. iFlow[c] # 0
      BY <1>2, <1>n, <2>3
    <3> QED BY <2>1, <3>1
  <2>6. iFlow'[c] = upI(i2o') + upI(oQ[a]) + upHeld + upO(o2i')
    BY <1>2, <1>n, <2>1, <2>3, <2>5
  <2>7. inHandNext = inHand /\ downI(i2o') = downI(i2o) /\ downO(iQ'[c]) = downO(iQ[c])
    BY <2>1
  <2> QED BY <1>2, <1>3, <2>4, <2>6, <2>7
<1>12. CASE InP!GetsMessage(c)
  <2>1. /\ o2i # <<>> /\ o2i' = Tail(o2i) /\ ~Is(Head(o2i), "O2ISendDataResult", c)
        /\ iQ'[c] = Append(iQ[c], Head(o2i)) /\ UNCHANGED <<iFlow[c], iCur[c], i2o>>
    BY <1>12 DEF InP!GetsMessage, Is
  <2>2. o2i' \in Seq(InP!InMessages) /\ Head(o2i) \in InP!InMessages
    BY <1>s, <2>1, TailFacts
  <2>3. /\ downO(o2i') \in Nat /\ downO(o2i) = downO(o2i') + One(Head(o2i), "O2IRecvData", c)
        /\ downO(iQ'[c]) = downO(iQ[c]) + One(Head(o2i), "O2IRecvData", c)
    <3>1. downO(o2i') \in Nat
      BY <2>2, CountPlaces
    <3>2. downO(o2i) = downO(o2i') + One(Head(o2i), "O2IRecvData", c)
      <4>1. o2i # <<>> /\ o2i' = Tail(o2i)
        BY <2>1
      <4> QED BY <1>s, <4>1, CountTail
    <3>3. downO(iQ'[c]) = downO(iQ[c]) + One(Head(o2i), "O2IRecvData", c)
      <4>1. iQ'[c] = Append(iQ[c], Head(o2i))
        BY <2>1
      <4> QED BY <1>s, <2>2, <4>1, CountAppend
    <3> QED BY <3>1, <3>2, <3>3
  <2>4. upO(o2i') = upO(o2i)
    BY <1>s, <2>1, CountSkips
  <2>5. One(Head(o2i), "O2IRecvData", c) \in {0, 1}
    BY DEF One
  <2>6. iFlow'[c] = upI(i2o') + upI(oQ[a]) + upHeld + upO(o2i')
    BY <1>2, <2>1, <2>4
  <2>7. inHandNext = inHand /\ downI(i2o') = downI(i2o)
    BY <2>1
  <2>8. oFlow[a] = Emitting(a) + downO(o2i') + downO(iQ'[c]) + inHandNext + downI(i2o')
    BY <1>2, <1>n, <2>3, <2>5, <2>7
  <2> QED BY <1>3, <2>6, <2>8
<1>13. CASE InP!Empties(c) \/ InP!GivesUp(c)
  BY <1>13 DEF InP!Empties, InP!GivesUp
<1> QED BY <1>4, <1>5, <1>6, <1>7, <1>8, <1>9, <1>10, <1>11, <1>12, <1>13 DEF InP!Effect

LEMMA CreditOutlet ==
    ASSUME Ends, Evidence, OutletMoves, NEW a \in Ids, NEW c \in Ids, idOf'[a] = c,
           idOf[a] = c => Balanced(a, c)
    PROVE  Balanced(a, c)'
<1> SUFFICES ASSUME sess'[c] = "live", sessions'[c] = a
             PROVE  iFlow'[c] = UpTotal(a, c)' /\ oFlow'[a] = DownTotal(a, c)'
  BY DEF Balanced
<1>0. UNCHANGED <<sess, iFlow, iQ, iCur>>
  BY DEF OutletMoves, inletVars
<1>i. OutP!Idle /\ OutP!InHand /\ OutP!Begun /\ OutP!Fresh /\ OutP!Addressed /\ OutP!Told
  BY DEF Ends, OutP!OutletInv, OutP!ManagedInv, OutP!Typed
<1>s. /\ iQ[c] \in Seq(InP!InMessages) /\ oQ[a] \in Seq(OutP!InMessages)
      /\ i2o \in Seq(InP!Sends) /\ o2i \in Seq(InP!InMessages)
      /\ iFlow[c] \in Nat /\ oFlow[a] \in Nat
  BY Shapes
<1> DEFINE upI(q) == Count(q, "I2OSendData", c)
           upO(q) == Count(q, "O2ISendDataResult", c)
           downI(q) == Count(q, "I2ORecvDataResult", c)
           downO(q) == Count(q, "O2IRecvData", c)
           upHeld == Held(oCur[a], "I2OSendData")
           upHeldNext == Held(oCur'[a], "I2OSendData")
           inHand == Held(iCur[c], "O2IRecvData")
           emittingNext == IF reader'[a] = "emit" THEN 1 ELSE 0
<1>n. /\ upI(i2o) \in Nat /\ upI(oQ[a]) \in Nat /\ upO(o2i) \in Nat
      /\ downI(i2o) \in Nat /\ downO(o2i) \in Nat /\ downO(iQ[c]) \in Nat
      /\ upHeld \in Nat /\ upHeldNext \in Nat /\ inHand \in Nat /\ Emitting(a) \in Nat
  <2>1. upHeld \in {0, 1} /\ upHeldNext \in {0, 1} /\ inHand \in {0, 1}
    BY HeldOne
  <2>2. Emitting(a) \in {0, 1}
    BY DEF Emitting
  <2>3. upI(i2o) \in Nat /\ downI(i2o) \in Nat
    BY <1>s, CountPlaces
  <2>4. upI(oQ[a]) \in Nat /\ downO(iQ[c]) \in Nat
    BY <1>s, CountPlaces
  <2>5. upO(o2i) \in Nat /\ downO(o2i) \in Nat
    BY <1>s, CountPlaces
  <2> HIDE DEF upHeld, upHeldNext, inHand, upI, upO, downI, downO
  <2> QED BY <2>1, <2>2, <2>3, <2>4, <2>5
<1>1. CASE go[a] = "none" /\ OutP!Begins(a)
  BY <1>1, <1>i DEF OutP!Begins, OutP!InHand, OutP!Begun
<1>2. ASSUME go[a] # "none", idOf[a] = c, OutP!Effect(a)
      PROVE  iFlow'[c] = UpTotal(a, c)' /\ oFlow'[a] = DownTotal(a, c)'
  <2>1. ASSUME /\ iFlow[c] = upI(i2o') + upI(oQ'[a]) + upHeldNext + upO(o2i')
               /\ oFlow'[a] = emittingNext + downO(o2i') + downO(iQ[c]) + inHand + downI(i2o')
        PROVE  iFlow'[c] = UpTotal(a, c)' /\ oFlow'[a] = DownTotal(a, c)'
    BY <1>0, <2>1 DEF UpTotal, DownTotal, Emitting, Held, Count
  <2>2. ASSUME sessions[c] = a
        PROVE  /\ iFlow[c] = upI(i2o) + upI(oQ[a]) + upHeld + upO(o2i)
               /\ oFlow[a] = Emitting(a) + downO(o2i) + downO(iQ[c]) + inHand + downI(i2o)
    BY <1>0, <1>2, <2>2 DEF Balanced, UpTotal, DownTotal
  <2>3. OutP!Steady(a) => sessions[c] = a
    BY DEF OutP!Steady
  <2>4. OutP!KeepsPace(a) \/ reader'[a] = reader[a] => emittingNext = Emitting(a)
    BY DEF OutP!KeepsPace, Emitting
  <2>5. CASE OutP!Rests(a)
    <3>1. /\ UNCHANGED <<oCur[a], oQ[a], oFlow[a]>> /\ sessions[c] = a /\ emittingNext = Emitting(a)
      BY <2>3, <2>4, <2>5 DEF OutP!Rests
    <3>2. upI(i2o') = upI(i2o) /\ downI(i2o') = downI(i2o)
      <4>1. i2o' = i2o \/ (/\ i2o # <<>> /\ i2o' = Tail(i2o)
                           /\ ~Is(Head(i2o), "I2OSendData", c) /\ ~Is(Head(i2o), "I2ORecvDataResult", c))
        BY <1>2, <2>5 DEF OutP!Rests, Is
      <4> QED BY <1>s, <4>1, CountOther
    <3>3. upO(o2i') = upO(o2i) /\ downO(o2i') = downO(o2i)
      <4>1. \/ o2i' = o2i
            \/ \E m \in InP!InMessages : /\ ~Is(m, "O2ISendDataResult", c) /\ ~Is(m, "O2IRecvData", c)
                                         /\ o2i' = Append(o2i, m)
        BY <1>2, <2>5, SameMessages DEF OutP!Rests, Is
      <4> QED BY <1>s, <4>1, CountOther
    <3> QED BY <2>1, <2>2, <3>1, <3>2, <3>3
  <2>6. CASE OutP!Loses(a)
    BY <1>2, <2>6 DEF OutP!Loses
  <2>7. CASE OutP!GetsMessage(a)
    <3>1. /\ sessions[c] = a /\ emittingNext = Emitting(a) /\ i2o # <<>> /\ i2o' = Tail(i2o)
          /\ Head(i2o) \in OutP!InMessages /\ ~Is(Head(i2o), "I2ORecvDataResult", c)
          /\ oQ'[a] = Append(oQ[a], Head(i2o)) /\ UNCHANGED <<oCur[a], oFlow[a], o2i>>
      BY <1>2, <2>4, <2>7 DEF OutP!GetsMessage, OutP!InMessages, Is
    <3>2. i2o' \in Seq(InP!Sends)
      BY <1>s, <3>1, TailFacts
    <3>3. upI(i2o') \in Nat
      BY <3>2, CountPlaces
    <3>4. upI(i2o) = upI(i2o') + One(Head(i2o), "I2OSendData", c)
      <4>1. i2o # <<>> /\ i2o' = Tail(i2o)
        BY <3>1
      <4> QED BY <1>s, <4>1, CountTail
    <3>5. upI(oQ'[a]) = upI(oQ[a]) + One(Head(i2o), "I2OSendData", c)
      <4>1. oQ'[a] = Append(oQ[a], Head(i2o)) /\ Head(i2o) \in OutP!InMessages
        BY <3>1
      <4> QED BY <1>s, <4>1, CountAppend
    <3>6. One(Head(i2o), "I2OSendData", c) \in Nat
      BY DEF One
    <3>7. upI(i2o) + upI(oQ[a]) = upI(i2o') + upI(oQ'[a]) /\ upI(oQ'[a]) \in Nat
      BY <1>n, <3>3, <3>4, <3>5, <3>6
    <3>8. downI(i2o') = downI(i2o)
      BY <1>s, <3>1, CountSkips
    <3>9. iFlow[c] = upI(i2o') + upI(oQ'[a]) + upHeld + upO(o2i)
      BY <1>n, <2>2, <3>1, <3>3, <3>7
    <3>10. upHeldNext = upHeld /\ upO(o2i') = upO(o2i) /\ downO(o2i') = downO(o2i) /\ oFlow'[a] = oFlow[a]
      BY <3>1
    <3> QED BY <2>1, <2>2, <3>1, <3>8, <3>9, <3>10
  <2>8. CASE OutP!GetsCredit(a)
    <3>1. /\ sessions[c] = a /\ emittingNext = Emitting(a) /\ i2o # <<>> /\ i2o' = Tail(i2o)
          /\ Is(Head(i2o), "I2ORecvDataResult", c) /\ ~Is(Head(i2o), "I2OSendData", c)
          /\ UNCHANGED <<oCur[a], oQ[a], o2i>>
          /\ oFlow'[a] = IF oFlow[a] = 0 THEN 0 ELSE oFlow[a] - 1
      BY <1>2, <2>4, <2>8 DEF OutP!GetsCredit, Is
    <3>2. i2o' \in Seq(InP!Sends)
      BY <1>s, <3>1, TailFacts
    <3>3. downI(i2o') \in Nat /\ downI(i2o) = downI(i2o') + 1
      BY <1>s, <3>1, <3>2, CountPlaces, CountTail DEF One
    <3>4. upI(i2o') = upI(i2o)
      BY <1>s, <3>1, CountSkips
    <3>0. oFlow[a] = Emitting(a) + downO(o2i) + downO(iQ[c]) + inHand + downI(i2o)
      BY <2>2, <3>1
    <3>5. oFlow[a] # 0
      BY <1>n, <3>0, <3>3
    <3>6. oFlow'[a] = oFlow[a] - 1
      BY <3>1, <3>5
    <3>7. oFlow'[a] = Emitting(a) + downO(o2i) + downO(iQ[c]) + inHand + downI(i2o')
      BY <1>n, <3>0, <3>3, <3>6
    <3>8. upHeldNext = upHeld /\ upO(o2i') = upO(o2i) /\ downO(o2i') = downO(o2i) /\ upI(oQ'[a]) = upI(oQ[a])
      BY <3>1
    <3> QED BY <2>1, <2>2, <3>1, <3>4, <3>7, <3>8
  <2>9. CASE OutP!Installs(a)
    <3>1. worker[a] = "none" /\ reader[a] = "none"
      BY <1>i, <2>9 DEF OutP!Installs, OutP!Begun
    <3>2. UNCHANGED <<reader[a], oCur[a], oQ[a], oFlow[a], i2o, o2i>>
      BY <2>9 DEF OutP!Installs
    <3>3. \A b \in Ids : idOf[b] = c => b = a
      BY <1>2, TunnelAssumption DEF Ends, Once
    <3>4. ~Announced(c)
      BY <3>1, <3>3 DEF Announced
    <3>5. oQ[a] = <<>> /\ oCur[a] = None /\ oFlow[a] = 0
      BY <1>i, <3>1 DEF OutP!Idle
    <3>6. iFlow[c] = 0 /\ inHand = 0
      BY <3>4, NothingSent
    <3>7. upI(i2o) = 0 /\ downI(i2o) = 0 /\ downO(o2i) = 0 /\ downO(iQ[c]) = 0
      BY <3>4, NothingSent, CountNone
    <3>8. upO(o2i) = 0
      <4>1. \A k \in 1 .. Len(o2i) : ~Is(o2i[k], "O2ISendDataResult", c)
        BY <1>i, <3>1, <3>3 DEF OutP!Told, OutP!Backed, Is
      <4> QED BY <4>1, CountNone
    <3>9. upI(oQ[a]) = 0 /\ upHeld = 0 /\ emittingNext = 0
      BY <3>1, <3>2, <3>5, CountEmpty, HeldOne
    <3> QED BY <2>1, <3>2, <3>5, <3>6, <3>7, <3>8, <3>9
  <2>10. CASE OutP!PopsMessage(a)
    <3>1. /\ sessions[c] = a /\ emittingNext = Emitting(a) /\ oCur[a] = None /\ oQ[a] # <<>>
          /\ oCur'[a] = Head(oQ[a]) /\ oQ'[a] = Tail(oQ[a]) /\ UNCHANGED <<oFlow[a], i2o, o2i>>
      BY <1>i, <2>3, <2>4, <2>10 DEF OutP!PopsMessage, OutP!Idle
    <3>2. /\ Head(oQ[a]) \in OutP!InMessages /\ Head(oQ[a]) = oQ[a][1] /\ 1 \in 1 .. Len(oQ[a])
          /\ oQ'[a] \in Seq(OutP!InMessages)
      BY <1>s, <3>1, TailFacts
    <3>3. Head(oQ[a]).id = c /\ Head(oQ[a]) # None
      BY <1>2, <1>i, <3>2, TunnelAssumption
         DEF OutP!Addressed, OutP!InMessages, OutP!FromInlet, Out!InMessages, Out!FromInlet
    <3>4. upHeld = 0 /\ upHeldNext = One(Head(oQ[a]), "I2OSendData", c)
      BY <3>1, <3>3 DEF Held, One, Is
    <3>5. upI(oQ[a]) = upI(oQ'[a]) + One(Head(oQ[a]), "I2OSendData", c)
      BY <1>s, <3>1, CountTail
    <3>6. upI(oQ'[a]) \in Nat
      BY <3>2, CountPlaces
    <3>7. upI(oQ[a]) + upHeld = upI(oQ'[a]) + upHeldNext
      BY <1>n, <3>4, <3>5, <3>6
    <3>0. iFlow[c] = upI(i2o) + upI(oQ[a]) + upHeld + upO(o2i)
      BY <2>2, <3>1
    <3>8. iFlow[c] = upI(i2o) + upI(oQ'[a]) + upHeldNext + upO(o2i)
      BY <1>n, <3>0, <3>6, <3>7
    <3>9. /\ upI(i2o') = upI(i2o) /\ upO(o2i') = upO(o2i)
          /\ downI(i2o') = downI(i2o) /\ downO(o2i') = downO(o2i) /\ oFlow'[a] = oFlow[a]
      BY <3>1
    <3> QED BY <2>1, <2>2, <3>1, <3>8, <3>9
  <2>11. CASE OutP!BeginsWrite(a)
    <3>1. /\ sessions[c] = a /\ emittingNext = Emitting(a) /\ UNCHANGED <<oCur[a], oQ[a], oFlow[a], i2o, o2i>>
      BY <1>2, <2>4, <2>11 DEF OutP!BeginsWrite
    <3> QED BY <2>1, <2>2, <3>1
  <2>12. CASE OutP!WritesPayload(a)
    <3>1. /\ sessions[c] = a /\ emittingNext = Emitting(a) /\ UNCHANGED <<oQ[a], oFlow[a], i2o>>
          /\ o2i' = Append(o2i, OutP!SendDataResult(c))
      BY <1>2, <2>3, <2>4, <2>12 DEF OutP!WritesPayload
    <3>2. upHeld = 1 /\ upHeldNext = 0
      BY <2>12, TunnelAssumption
         DEF OutP!WritesPayload, Held, OutP!InMessages, OutP!FromInlet, Out!InMessages, Out!FromInlet
    <3>3. /\ OutP!SendDataResult(c) \in InP!InMessages /\ Is(OutP!SendDataResult(c), "O2ISendDataResult", c)
          /\ ~Is(OutP!SendDataResult(c), "O2IRecvData", c)
      BY DEF OutP!SendDataResult, InP!InMessages, Is
    <3>4. upO(o2i') = upO(o2i) + 1 /\ downO(o2i') = downO(o2i)
      BY <1>s, <1>n, <3>1, <3>3, CountAppend DEF One
    <3>5. iFlow[c] = upI(i2o) + upI(oQ[a]) + upHeldNext + upO(o2i')
      BY <1>n, <2>2, <3>1, <3>2, <3>4
    <3>6. upI(i2o') = upI(i2o) /\ upI(oQ'[a]) = upI(oQ[a]) /\ downI(i2o') = downI(i2o) /\ oFlow'[a] = oFlow[a]
      BY <3>1
    <3> QED BY <2>1, <2>2, <3>1, <3>4, <3>5, <3>6
  <2>13. CASE OutP!TakesPayload(a)
    <3>1. /\ sessions[c] = a /\ UNCHANGED <<oCur[a], oQ[a], oFlow[a], i2o, o2i>>
          /\ emittingNext = 0 /\ Emitting(a) = 0
      BY <2>3, <2>13 DEF OutP!TakesPayload, Emitting
    <3> QED BY <2>1, <2>2, <3>1
  <2>14. CASE OutP!GetsRoom(a)
    <3>1. /\ sessions[c] = a /\ UNCHANGED <<oCur[a], oQ[a], i2o, o2i>> /\ oFlow'[a] = oFlow[a] + 1
          /\ emittingNext = 1 /\ Emitting(a) = 0
      BY <2>3, <2>14 DEF OutP!GetsRoom, Emitting
    <3>2. oFlow'[a] = emittingNext + downO(o2i) + downO(iQ[c]) + inHand + downI(i2o)
      BY <1>n, <2>2, <3>1
    <3>3. /\ upI(i2o') = upI(i2o) /\ upI(oQ'[a]) = upI(oQ[a]) /\ upHeldNext = upHeld /\ upO(o2i') = upO(o2i)
          /\ downI(i2o') = downI(i2o) /\ downO(o2i') = downO(o2i)
      BY <3>1
    <3> QED BY <2>1, <2>2, <3>1, <3>2, <3>3
  <2>15. CASE OutP!SendsPayload(a)
    <3> DEFINE m == OutP!RecvData(c, oDown[a])
    <3>1. /\ sessions[c] = a /\ UNCHANGED <<oCur[a], oQ[a], oFlow[a], i2o>> /\ o2i' = Append(o2i, m)
          /\ emittingNext = 0 /\ Emitting(a) = 1
      BY <1>2, <2>3, <2>15 DEF OutP!SendsPayload, Emitting
    <3>2. m \in InP!InMessages /\ Is(m, "O2IRecvData", c) /\ ~Is(m, "O2ISendDataResult", c)
      BY Shapes DEF OutP!RecvData, InP!InMessages, Is
    <3> HIDE DEF m
    <3>3. upO(o2i') = upO(o2i) /\ downO(o2i') = downO(o2i) + 1
      BY <1>s, <1>n, <3>1, <3>2, CountAppend DEF One
    <3>4. oFlow[a] = emittingNext + downO(o2i') + downO(iQ[c]) + inHand + downI(i2o)
      BY <1>n, <2>2, <3>1, <3>3
    <3>5. /\ upI(i2o') = upI(i2o) /\ upI(oQ'[a]) = upI(oQ[a]) /\ upHeldNext = upHeld
          /\ downI(i2o') = downI(i2o) /\ oFlow'[a] = oFlow[a]
      BY <3>1
    <3> QED BY <2>1, <2>2, <3>1, <3>3, <3>4, <3>5
  <2> QED BY <1>2, <2>5, <2>6, <2>7, <2>8, <2>9, <2>10, <2>11, <2>12, <2>13, <2>14, <2>15 DEF OutP!Effect
<1> QED BY <1>1, <1>2, AttemptMoves

LEMMA CreditStep == Ends /\ Evidence /\ Credit /\ [Next]_vars => Credit'
<1> SUFFICES ASSUME Ends, Evidence, Credit, [Next]_vars, NEW a \in Ids, NEW c \in Ids, idOf'[a] = c
             PROVE  Balanced(a, c)'
  BY DEF Credit
<1>0. idOf[a] = c => Balanced(a, c)
  BY DEF Credit
<1>1. CASE InletMoves
  <2>1. idOf[a] = c
    BY <1>1 DEF InletMoves, outletVars
  <2> QED BY <1>0, <1>1, <2>1, CreditInlet
<1>2. CASE OutletMoves
  BY <1>0, <1>2, CreditOutlet
<1>3. CASE UNCHANGED vars
  <2>1. UNCHANGED <<idOf, sess, sessions, iFlow, oFlow, i2o, o2i, oQ, oCur, iQ, iCur, reader>>
    BY <1>3 DEF vars, inletVars, outletVars
  <2>2. UpTotal(a, c)' = UpTotal(a, c) /\ DownTotal(a, c)' = DownTotal(a, c)
    BY <2>1 DEF UpTotal, DownTotal, Emitting, Held, Count
  <2> QED BY <1>0, <2>1, <2>2 DEF Balanced
<1> QED BY <1>1, <1>2, <1>3, EitherMoves DEF Ends

\* The session in the outlet's map under an id is the attempt that has the id.
LEMMA CreditImplies == Ends /\ Credit => CreditConserved
<1> SUFFICES ASSUME Ends, Credit, NEW c \in Ids, sess[c] = "live", sessions[c] # None
             PROVE  iFlow[c] = UpInTransit(c) /\ oFlow[sessions[c]] = DownInTransit(c)
  BY DEF CreditConserved
<1> DEFINE a == sessions[c]
<1>1. a \in Ids /\ idOf[a] = c
  BY DEF Ends, OutP!OutletInv, OutP!ManagedInv, OutP!Typed, OutP!Located, OutP!Keyed
<1>2. AttemptOf(c) = a
  BY <1>1, AtAttempt DEF Ends
<1>3. Balanced(a, c)
  BY <1>1 DEF Credit
<1> QED BY <1>2, <1>3 DEF Balanced, UpInTransit, DownInTransit, UpTotal, DownTotal, Emitting

\* While both ends of a session are up no credit is lost or made up, for any window and
\* queue capacity and however many sessions share the route (common.go:33-70).
THEOREM CreditIsConserved == Spec => []CreditConserved
<1>1. Init => Ends /\ Evidence /\ Credit
  BY EndsInit, EvidenceInit, CreditInit
<1>2. Ends /\ Evidence /\ Credit /\ [Next]_vars => (Ends /\ Evidence /\ Credit)'
  BY EndsStep, EvidenceStays, CreditStep
<1> QED BY <1>1, <1>2, CreditImplies, PTL DEF Spec
=============================================================================
