----------------------------- MODULE Wire_proofs -----------------------------
(***************************************************************************)
(* The control wire, for any messages, sizes of reads and writes, buffers  *)
(* and bounds: every message the codec can carry is decoded into what it   *)
(* means to its reader, a frame is taken off the stream only when its      *)
(* packet is there whole, messages arrive in order and mean what they      *)
(* meant, and a datagram's data are not overwritten while it waits.        *)
(*                                                                         *)
(* What a message means is the message without its blank nested messages   *)
(* (SenseOf): marshal leaves them out.  The proof goes in two steps: a     *)
(* message that has none (Whole) is decoded as it was encoded, and leaving *)
(* them out changes neither a cell of the encoding nor the meaning.        *)
(*                                                                         *)
(* What a message is on the wire is a FlattenSeq of parts, a fold.  Its    *)
(* laws are proved by induction, and the induction principle from the      *)
(* well-foundedness of inclusion between finite sets, with the predicate   *)
(* given as a set.                                                         *)
(***************************************************************************)
EXTENDS Wire, FiniteSetTheorems, SequenceTheorems, TLAPS

\* Induction over the numbers, from the order of finite sets by inclusion

\* Every set of numbers has a least member.
LEMMA LeastMember ==
  ASSUME NEW T, T \subseteq Nat, T # {}
  PROVE  \E m \in T : \A k \in T : m <= k
<1> DEFINE F == {1..k : k \in T}
           R == StrictSubsetOrdering(Nat)
<1>1. IsWellFoundedOn(R, FiniteSubsetsOf(Nat))
  BY FS_StrictSubsetOrderingWellFounded
<1>2. F \subseteq FiniteSubsetsOf(Nat)
  <2>1. \A k \in Nat : IsFiniteSet(1..k) /\ 1..k \in SUBSET Nat
    BY FS_Interval
  <2> QED BY <2>1 DEF FiniteSubsetsOf
<1>3. F # {}
  OBVIOUS
<1>4. \E x \in F : \A y \in F : ~(<<y, x>> \in R)
  <2> HIDE DEF F, R
  <2> QED BY <1>1, <1>2, <1>3, WFMin
<1>5. PICK m \in T : \A k \in T : ~(<<1..k, 1..m>> \in R)
  BY <1>4
<1>6. ASSUME NEW k \in T, k < m PROVE <<1..k, 1..m>> \in R
  <2>1. k \in Nat /\ m \in Nat
    OBVIOUS
  <2>2. 1..k \subseteq 1..m /\ m \in 1..m /\ m \notin 1..k
    BY <1>6, <2>1
  <2>3. 1..k \in SUBSET Nat /\ 1..m \in SUBSET Nat
    BY <2>1
  <2> QED BY <2>2, <2>3 DEF StrictSubsetOrdering
<1>7. \A k \in T : ~(k < m)
  <2> HIDE DEF F, R
  <2> QED BY <1>5, <1>6
<1> QED BY <1>7

\* Induction over the numbers
LEMMA Induction == ASSUME NEW S, 0 \in S, \A n \in Nat : n \in S => n + 1 \in S PROVE Nat \subseteq S
<1>1. SUFFICES ASSUME Nat \ S # {} PROVE FALSE
  OBVIOUS
<1>2. PICK m \in Nat \ S : \A k \in Nat \ S : m <= k
  BY <1>1, LeastMember
<1>3. m # 0 /\ m - 1 \in Nat /\ m - 1 \notin S
  BY <1>2
<1>4. m - 1 \in Nat \ S /\ ~(m <= m - 1)
  BY <1>3
<1> QED BY <1>2, <1>4

-----------------------------------------------------------------------------
\* Sequences put one behind another (SequencesExt!FlattenSeq)

\* What g is when it holds the concatenations of the first parts of ss
Flat(ss, g) ==
    g = [i \in 1 .. Len(ss) |-> IF i = 1 THEN ss[i] ELSE g[i - 1] \o ss[i]]

Grown(n, ss, g) == \A i \in 1 .. n : g[i] = IF i = 1 THEN ss[i] ELSE g[i - 1] \o ss[i]

\* The function that FlattenSeq is defined by exists ...
LEMMA FlatExists ==
  ASSUME NEW T, NEW ss \in Seq(Seq(T))
  PROVE  \E g \in [1 .. Len(ss) -> Seq(T)] : Flat(ss, g)
<1> DEFINE N == Len(ss)
           Good(n, g) == \A i \in 1 .. n : g[i] = IF i = 1 THEN ss[i] ELSE g[i - 1] \o ss[i]
           S == {n \in Nat : n <= N => \E g \in [1 .. n -> Seq(T)] : Good(n, g)}
<1>0. N \in Nat /\ \A i \in 1 .. N : ss[i] \in Seq(T)
  BY LenProperties, ElementOfSeq
<1>1. 0 \in S
  <2>1. Good(0, [i \in 1 .. 0 |-> <<>>]) /\ [i \in 1 .. 0 |-> <<>>] \in [1 .. 0 -> Seq(T)]
    OBVIOUS
  <2> QED BY <2>1
<1>2. ASSUME NEW n \in Nat, n \in S PROVE n + 1 \in S
  <2>1. SUFFICES ASSUME n + 1 <= N PROVE \E g \in [1 .. n + 1 -> Seq(T)] : Good(n + 1, g)
    <3> HIDE DEF Good, N
    <3> QED BY <1>0
  <2>2. PICK h \in [1 .. n -> Seq(T)] : Good(n, h)
    <3> HIDE DEF Good, N
    <3> QED BY <1>2, <2>1, <1>0
  <2> DEFINE last == IF n = 0 THEN ss[1] ELSE h[n] \o ss[n + 1]
             g == [i \in 1 .. n + 1 |-> IF i = n + 1 THEN last ELSE h[i]]
  <2>3. ss[n + 1] \in Seq(T)
    BY <2>1, <1>0
  <2>4. last \in Seq(T)
    <3>1. CASE n = 0
      BY <3>1, <2>3
    <3>2. CASE n # 0
      <4>1. h[n] \in Seq(T)
        BY <2>2, <3>2
      <4> QED BY <4>1, <2>3, <3>2, ConcatProperties
    <3> QED BY <3>1, <3>2
  <2>5. g \in [1 .. n + 1 -> Seq(T)]
    <3> HIDE DEF last
    <3> QED BY <2>4, <2>2
  <2>6. ASSUME NEW i \in 1 .. n + 1 PROVE g[i] = IF i = 1 THEN ss[i] ELSE g[i - 1] \o ss[i]
    <3>1. CASE i = n + 1
      <4>1. g[i] = last
        BY <3>1
      <4>2. n # 0 => g[i - 1] = h[n]
        BY <3>1
      <4> QED BY <4>1, <4>2, <3>1
    <3>2. CASE i # n + 1
      <4>1. i \in 1 .. n /\ g[i] = h[i] /\ (i # 1 => g[i - 1] = h[i - 1])
        BY <3>2
      <4> QED BY <4>1, <2>2
    <3> QED BY <3>1, <3>2
  <2> QED BY <2>5, <2>6
<1>3. N \in S
  <2> HIDE DEF S
  <2> QED BY <1>0, <1>1, <1>2, Induction
<1>4. PICK g \in [1 .. N -> Seq(T)] : Good(N, g)
  BY <1>3, <1>0
<1> QED BY <1>4 DEF Flat

\* ... and is unique.
LEMMA FlatUnique ==
  ASSUME NEW n \in Nat, NEW ss, NEW g, NEW h, Grown(n, ss, g), Grown(n, ss, h)
  PROVE  \A i \in 1 .. n : g[i] = h[i]
<1> DEFINE S == {i \in Nat : i \in 1 .. n => g[i] = h[i]}
<1>1. 0 \in S
  OBVIOUS
<1>2. \A i \in Nat : i \in S => i + 1 \in S
  BY DEF Grown
<1>3. Nat \subseteq S
  <2> HIDE DEF S
  <2> QED BY <1>1, <1>2, Induction
<1> QED BY <1>3

\* FlattenSeq is its last value.
LEMMA Flattened ==
  ASSUME NEW T, NEW ss \in Seq(Seq(T)), ss # <<>>
  PROVE  \E g \in [1 .. Len(ss) -> Seq(T)] : Flat(ss, g) /\ FlattenSeq(ss) = g[Len(ss)]
<1>1. Len(ss) \in Nat /\ Len(ss) # 0
  BY EmptySeq
<1>2. PICK f \in [1 .. Len(ss) -> Seq(T)] : Flat(ss, f)
  BY FlatExists
<1>3. \E g : Flat(ss, g) /\ FlattenSeq(ss) = g[Len(ss)]
  BY <1>1, <1>2 DEF Flat, FlattenSeq
<1>4. PICK g : Flat(ss, g) /\ FlattenSeq(ss) = g[Len(ss)]
  BY <1>3
<1>5. \A i \in 1 .. Len(ss) : g[i] = f[i]
  <2>1. Grown(Len(ss), ss, g)
    BY <1>4 DEF Flat, Grown
  <2>2. Grown(Len(ss), ss, f)
    BY <1>2 DEF Flat, Grown
  <2> QED BY <2>1, <2>2, <1>1, FlatUnique
<1>6. f[Len(ss)] = FlattenSeq(ss)
  BY <1>4, <1>5, <1>1
<1> QED BY <1>2, <1>6

LEMMA FlattenEmpty == FlattenSeq(<<>>) = <<>>
BY EmptySeq DEF FlattenSeq

LEMMA FlattenType ==
  ASSUME NEW T, NEW ss \in Seq(Seq(T))
  PROVE  FlattenSeq(ss) \in Seq(T)
<1>1. CASE ss = <<>>
  BY <1>1, FlattenEmpty, EmptySeq
<1>2. CASE ss # <<>>
  <2>1. PICK g \in [1 .. Len(ss) -> Seq(T)] : FlattenSeq(ss) = g[Len(ss)]
    BY <1>2, Flattened
  <2>2. Len(ss) \in 1 .. Len(ss)
    BY <1>2, EmptySeq
  <2> QED BY <2>1, <2>2
<1> QED BY <1>1, <1>2

\* The last sequence is put behind the others.
LEMMA FlattenAppend ==
  ASSUME NEW T, NEW ss \in Seq(Seq(T)), NEW s \in Seq(T)
  PROVE  FlattenSeq(Append(ss, s)) = FlattenSeq(ss) \o s
<1> DEFINE tt == Append(ss, s)
           n == Len(ss)
<1>1. tt \in Seq(Seq(T)) /\ tt # <<>> /\ Len(tt) = n + 1 /\ n \in Nat
  BY AppendProperties, LenProperties
<1>2. (\A i \in 1 .. n : tt[i] = ss[i]) /\ tt[n + 1] = s
  BY AppendProperties
<1>3. PICK h \in [1 .. Len(tt) -> Seq(T)] : Flat(tt, h) /\ FlattenSeq(tt) = h[Len(tt)]
  <2> HIDE DEF tt
  <2> QED BY <1>1, Flattened
<1> HIDE DEF tt
<1>4. \A i \in 1 .. n + 1 : h[i] = IF i = 1 THEN tt[i] ELSE h[i - 1] \o tt[i]
  BY <1>3, <1>1 DEF Flat
<1>5. CASE ss = <<>>
  <2>1. n = 0
    BY <1>5, EmptySeq
  <2>2. h[1] = s
    BY <2>1, <1>4, <1>2
  <2> QED BY <2>1, <2>2, <1>1, <1>3, <1>5, FlattenEmpty, ConcatEmptySeq DEF tt
<1>6. CASE ss # <<>>
  <2>1. PICK g \in [1 .. n -> Seq(T)] : Flat(ss, g) /\ FlattenSeq(ss) = g[n]
    BY <1>6, Flattened
  <2>2. n # 0
    BY <1>6, EmptySeq
  <2>3. Grown(n, ss, g)
    BY <2>1 DEF Flat, Grown
  <2>4. Grown(n, ss, h)
    <3>1. ASSUME NEW i \in 1 .. n PROVE i \in 1 .. n + 1 /\ tt[i] = ss[i]
      BY <1>1, <1>2
    <3> QED BY <3>1, <1>4 DEF Grown
  <2>5. h[n] = g[n]
    <3>1. n \in Nat /\ n \in 1 .. n
      BY <2>2, <1>1
    <3> HIDE DEF n
    <3> QED BY <2>3, <2>4, <3>1, FlatUnique
  <2>6. h[n + 1] = h[n] \o s
    <3>1. n \in Nat /\ n + 1 \in 1 .. n + 1 /\ n + 1 # 1 /\ (n + 1) - 1 = n
      BY <2>2, <1>1
    <3> HIDE DEF n
    <3> QED BY <3>1, <1>4, <1>2
  <2> QED BY <2>1, <2>5, <2>6, <1>3, <1>1 DEF tt
<1> QED BY <1>5, <1>6

\* Induction over the sequences of a set
LEMMA SequenceInduction ==
  ASSUME NEW T, NEW S, <<>> \in S,
         \A s \in Seq(T), e \in T : s \in S => Append(s, e) \in S
  PROVE  Seq(T) \subseteq S
<1> DEFINE L == {n \in Nat : \A s \in Seq(T) : Len(s) = n => s \in S}
<1>1. 0 \in L
  BY EmptySeq
<1>2. ASSUME NEW n \in Nat, n \in L PROVE n + 1 \in L
  <2>1. SUFFICES ASSUME NEW s \in Seq(T), Len(s) = n + 1 PROVE s \in S
    OBVIOUS
  <2>2. s # <<>>
    BY <2>1, EmptySeq
  <2>3. PICK r \in Seq(T), e \in T : s = Append(r, e)
    BY <2>2, SequenceEmptyOrAppend
  <2>4. Len(r) = n
    BY <2>1, <2>3, AppendProperties, LenProperties
  <2> QED BY <2>3, <2>4, <1>2
<1>3. Nat \subseteq L
  <2> HIDE DEF L
  <2> QED BY <1>1, <1>2, Induction
<1> QED BY <1>3, LenProperties

\* Concatenation as an operator of its own, which the provers do not take apart
Cat(a, b) == a \o b

LEMMA CatType == ASSUME NEW T, NEW a \in Seq(T), NEW b \in Seq(T) PROVE Cat(a, b) \in Seq(T)
BY ConcatProperties DEF Cat

LEMMA CatEmpty == ASSUME NEW T, NEW a \in Seq(T) PROVE Cat(a, <<>>) = a /\ Cat(<<>>, a) = a
BY ConcatEmptySeq DEF Cat

LEMMA CatAssociative ==
  ASSUME NEW T, NEW a \in Seq(T), NEW b \in Seq(T), NEW c \in Seq(T)
  PROVE  Cat(Cat(a, b), c) = Cat(a, Cat(b, c))
<1>1. (a \o b) \o c = a \o (b \o c)
  BY ConcatAssociative
<1> QED BY <1>1 DEF Cat

\* Equal ends may be cut off.
LEMMA CatSame ==
  ASSUME NEW T, NEW a \in Seq(T), NEW b \in Seq(T), NEW c \in Seq(T)
  PROVE  /\ Cat(a, c) = Cat(b, c) => a = b
         /\ Cat(c, a) = Cat(c, b) => a = b
BY ConcatSimplifications DEF Cat

LEMMA CatNone == ASSUME NEW T, NEW a \in Seq(T), NEW b \in Seq(T) PROVE Cat(a, b) = <<>> => a = <<>> /\ b = <<>>
BY ConcatEqualIffEmpty DEF Cat

LEMMA CatLast ==
  ASSUME NEW T, NEW a \in Seq(T), NEW e \in T
  PROVE  Append(a, e) = Cat(a, <<e>>) /\ <<e>> \in Seq(T) /\ Len(<<e>>) = 1 /\ <<e>> # <<>>
BY AppendIsConcat, EmptySeq DEF Cat

LEMMA CatAppend ==
  ASSUME NEW T, NEW a \in Seq(T), NEW b \in Seq(T), NEW e \in T
  PROVE  Append(Cat(a, b), e) = Cat(a, Append(b, e))
<1>1. PICK one \in Seq(T) : one = <<e>>
  BY CatLast
<1>2. PICK x \in Seq(T) : x = Cat(a, b)
  BY CatType
<1>3. Append(b, e) = Cat(b, one) /\ Append(x, e) = Cat(x, one)
  BY <1>1, CatLast
<1>4. Cat(Cat(a, b), one) = Cat(a, Cat(b, one))
  BY CatAssociative
<1> QED BY <1>2, <1>3, <1>4

\* What is put one behind another may be grouped.
LEMMA FlattenConcat ==
  ASSUME NEW T, NEW ss \in Seq(Seq(T)), NEW tt \in Seq(Seq(T))
  PROVE  FlattenSeq(ss \o tt) = FlattenSeq(ss) \o FlattenSeq(tt)
<1> DEFINE S == {x \in Seq(Seq(T)) : FlattenSeq(ss \o x) = FlattenSeq(ss) \o FlattenSeq(x)}
<1>1. <<>> \in S
  <2>1. <<>> \in Seq(Seq(T)) /\ ss \o <<>> = ss
    BY EmptySeq, ConcatEmptySeq
  <2>2. FlattenSeq(ss) \o FlattenSeq(<<>>) = FlattenSeq(ss)
    BY FlattenEmpty, FlattenType, ConcatEmptySeq
  <2> QED BY <2>1, <2>2
<1>2. ASSUME NEW x \in Seq(Seq(T)), NEW e \in Seq(T), x \in S PROVE Append(x, e) \in S
  <2>1. ss \o Append(x, e) = Append(ss \o x, e)
    <3> DEFINE R == Seq(T)
    <3>1. ss \in Seq(R) /\ x \in Seq(R) /\ e \in R
      OBVIOUS
    <3> HIDE DEF R
    <3>2. Append(Cat(ss, x), e) = Cat(ss, Append(x, e))
      BY <3>1, CatAppend
    <3> QED BY <3>2 DEF Cat
  <2>2. FlattenSeq(Append(ss \o x, e)) = FlattenSeq(ss \o x) \o e
    BY ConcatProperties, FlattenAppend
  <2>3. FlattenSeq(Append(x, e)) = FlattenSeq(x) \o e
    BY FlattenAppend
  <2>4. (FlattenSeq(ss) \o FlattenSeq(x)) \o e = FlattenSeq(ss) \o (FlattenSeq(x) \o e)
    <3>1. PICK f \in Seq(T) : f = FlattenSeq(ss)
      BY FlattenType
    <3>2. PICK g \in Seq(T) : g = FlattenSeq(x)
      BY FlattenType
    <3>3. Cat(Cat(f, g), e) = Cat(f, Cat(g, e))
      BY CatAssociative
    <3> QED BY <3>1, <3>2, <3>3 DEF Cat
  <2>5. Append(x, e) \in Seq(Seq(T))
    BY AppendProperties
  <2> QED BY <2>1, <2>2, <2>3, <2>4, <2>5, <1>2
<1>3. Seq(Seq(T)) \subseteq S
  <2> HIDE DEF S
  <2> QED BY <1>1, <1>2, SequenceInduction
<1> QED BY <1>3

LEMMA FlattenOne ==
  ASSUME NEW T, NEW s \in Seq(T)
  PROVE  FlattenSeq(<<s>>) = s
<1>1. <<>> \in Seq(Seq(T)) /\ <<s>> = Append(<<>>, s)
  BY EmptySeq, AppendIsConcat, ConcatEmptySeq
<1>2. FlattenSeq(Append(<<>>, s)) = FlattenSeq(<<>>) \o s
  BY <1>1, FlattenAppend
<1> QED BY <1>1, <1>2, FlattenEmpty, ConcatEmptySeq

LEMMA HeadFirst == ASSUME NEW T, NEW ss \in Seq(T), ss # <<>> PROVE ss = <<Head(ss)>> \o Tail(ss)
<1>1. Len(ss) \in Nat \ {0} /\ 1 \in 1 .. Len(ss) /\ Len(ss) \in 1 .. Len(ss)
  BY EmptySeq
<1>2. SubSeq(ss, 1, Len(ss)) = <<ss[1]>> \o SubSeq(ss, 2, Len(ss))
  BY <1>1, SubSeqRecursiveFirst
<1> QED BY <1>2, SubSeqFull, TailIsSubSeq

LEMMA FlattenHead ==
  ASSUME NEW T, NEW ss \in Seq(Seq(T)), ss # <<>>
  PROVE  FlattenSeq(ss) = Head(ss) \o FlattenSeq(Tail(ss))
<1>1. Head(ss) \in Seq(T) /\ Tail(ss) \in Seq(Seq(T)) /\ <<Head(ss)>> \in Seq(Seq(T))
  BY HeadTailProperties
<1>2. ss = <<Head(ss)>> \o Tail(ss)
  BY HeadFirst
<1>3. FlattenSeq(<<Head(ss)>>) = Head(ss)
  BY <1>1, FlattenOne
<1> QED BY <1>1, <1>2, <1>3, FlattenConcat

LEMMA SplitAt ==
  ASSUME NEW T, NEW s \in Seq(T), NEW i \in Nat, NEW k \in Nat, NEW l \in Nat,
         1 <= i, i <= k + 1, k <= l, l <= Len(s)
  PROVE  SubSeq(s, i, k) \o SubSeq(s, k + 1, l) = SubSeq(s, i, l)
<1>1. Len(s) \in Nat
  BY LenProperties
<1>2. i \in 1 .. Len(s) + 1 /\ k \in i - 1 .. Len(s) /\ l \in k .. Len(s)
  BY <1>1
<1> QED BY <1>2, ConcatAdjacentSubSeq

LEMMA SplitFront ==
  ASSUME NEW T, NEW s \in Seq(T), NEW k \in Nat, NEW l \in Nat, k <= l, l <= Len(s)
  PROVE  SubSeq(s, 1, k) \o SubSeq(s, k + 1, l) = SubSeq(s, 1, l)
<1>1. Len(s) \in Nat
  BY LenProperties
<1>2. 1 \in 1 .. Len(s) + 1 /\ k \in 1 - 1 .. Len(s) /\ l \in k .. Len(s)
  BY <1>1
<1> QED BY <1>2, ConcatAdjacentSubSeq

\* Empty sequences add nothing.
LEMMA FlattenNothing ==
  ASSUME NEW T, NEW ss \in Seq(Seq(T)), \A k \in 1 .. Len(ss) : ss[k] = <<>>
  PROVE  FlattenSeq(ss) = <<>>
<1>1. ss \in Seq(Seq({}))
  <2>1. \A k \in 1 .. Len(ss) : ss[k] \in Seq({})
    BY EmptySeq
  <2>2. Len(ss) \in Nat /\ ss \in [1 .. Len(ss) -> Seq(T)]
    BY LenProperties
  <2>3. ss \in [1 .. Len(ss) -> Seq({})]
    BY <2>1, <2>2
  <2> QED BY <2>2, <2>3, SeqDef
<1>2. FlattenSeq(ss) \in Seq({})
  BY <1>1, FlattenType
<1>3. ASSUME FlattenSeq(ss) # <<>> PROVE FALSE
  <2> DEFINE f == FlattenSeq(ss)
  <2>1. 1 \in 1 .. Len(f)
    BY <1>2, <1>3, EmptySeq
  <2>2. f[1] \in {}
    BY <1>2, <2>1, ElementOfSeq
  <2> QED BY <2>2
<1> QED BY <1>3

Ones(w) == [k \in 1 .. Len(w) |-> <<w[k]>>]

LEMMA OnesType == ASSUME NEW T, NEW w \in Seq(T) PROVE Ones(w) \in Seq(Seq(T)) /\ Len(Ones(w)) = Len(w)
<1>1. Len(w) \in Nat /\ \A k \in 1 .. Len(w) : <<w[k]>> \in Seq(T)
  BY LenProperties, ElementOfSeq
<1>2. Ones(w) \in [1 .. Len(w) -> Seq(T)]
  BY <1>1 DEF Ones
<1> QED BY <1>1, <1>2, SeqDef, LenProperties

\* A sequence cut into single elements
LEMMA FlattenOnes == ASSUME NEW T, NEW w \in Seq(T) PROVE FlattenSeq(Ones(w)) = w
<1> DEFINE S == {x \in Seq(T) : FlattenSeq(Ones(x)) = x}
<1>1. <<>> \in S
  <2>1. Ones(<<>>) = <<>>
    BY OnesType, EmptySeq
  <2> QED BY <2>1, FlattenEmpty, EmptySeq
<1>2. ASSUME NEW x \in Seq(T), NEW e \in T, x \in S PROVE Append(x, e) \in S
  <2> DEFINE y == Append(x, e)
  <2>1. y \in Seq(T) /\ Len(y) = Len(x) + 1 /\ Len(x) \in Nat
        /\ (\A i \in 1 .. Len(x) : y[i] = x[i]) /\ y[Len(x) + 1] = e
    BY AppendProperties, LenProperties
  <2>2. <<e>> \in Seq(T) /\ Ones(x) \in Seq(Seq(T)) /\ Len(Ones(x)) = Len(x)
    BY OnesType
  <2>3. Ones(y) = Append(Ones(x), <<e>>)
    <3> HIDE DEF y
    <3>1. Ones(y) \in Seq(Seq(T)) /\ Len(Ones(y)) = Len(x) + 1
      BY <2>1, OnesType
    <3>2. Append(Ones(x), <<e>>) \in Seq(Seq(T)) /\ Len(Append(Ones(x), <<e>>)) = Len(x) + 1
          /\ (\A i \in 1 .. Len(x) : Append(Ones(x), <<e>>)[i] = Ones(x)[i])
          /\ Append(Ones(x), <<e>>)[Len(x) + 1] = <<e>>
      BY <2>2, AppendProperties
    <3>3. ASSUME NEW i \in 1 .. Len(x) + 1 PROVE Ones(y)[i] = Append(Ones(x), <<e>>)[i]
      <4>1. CASE i = Len(x) + 1
        BY <4>1, <2>1, <3>2 DEF Ones
      <4>2. CASE i # Len(x) + 1
        <5>1. i \in 1 .. Len(x) /\ i \in 1 .. Len(y)
          BY <4>2, <2>1
        <5>2. Ones(x)[i] = <<x[i]>> /\ Ones(y)[i] = <<y[i]>>
          BY <5>1 DEF Ones
        <5> QED BY <5>1, <5>2, <2>1, <3>2
      <4> QED BY <4>1, <4>2
    <3> QED BY <3>1, <3>2, <3>3, SeqEqual
  <2>4. FlattenSeq(Ones(y)) = x \o <<e>>
    BY <2>2, <2>3, FlattenAppend, <1>2
  <2> QED BY <2>1, <2>4, AppendIsConcat
<1>3. Seq(T) \subseteq S
  <2> HIDE DEF S
  <2> QED BY <1>1, <1>2, SequenceInduction
<1> QED BY <1>3

\* A sequence of nothing, but for the elements of w one by one
LEMMA FlattenMapped ==
  ASSUME NEW T, NEW w \in Seq(T), NEW m \in Seq(Seq(T)), NEW a \in Nat, NEW b \in Nat,
         Len(m) = a + Len(w) + b,
         \A k \in 1 .. Len(w) : m[a + k] = <<w[k]>>,
         \A k \in 1 .. Len(m) : k <= a \/ k > a + Len(w) => m[k] = <<>>
  PROVE  FlattenSeq(m) = w
<1> DEFINE n == Len(w)
           p == SubSeq(m, 1, a)
           q == SubSeq(m, a + 1, a + n)
           r == SubSeq(m, a + n + 1, a + n + b)
<1>0. n \in Nat /\ \A k \in 1 .. Len(m) : m[k] \in Seq(T)
  BY LenProperties, ElementOfSeq
<1>1. p \in Seq(Seq(T)) /\ Len(p) = a /\ \A k \in 1 .. a : p[k] = m[k]
  <2>1. \A k \in 1 .. a : m[k] \in Seq(T)
    BY <1>0
  <2> QED BY <2>1, SubSeqProperties
<1>2. q \in Seq(Seq(T)) /\ Len(q) = n /\ \A k \in 1 .. n : q[k] = m[a + k]
  <2>1. \A k \in a + 1 .. a + n : m[k] \in Seq(T)
    BY <1>0
  <2>2. Len(q) = IF a + 1 <= a + n THEN (a + n) - (a + 1) + 1 ELSE 0
    BY <2>1, <1>0, SubSeqProperties
  <2>3. \A k \in 1 .. (a + n) - (a + 1) + 1 : q[k] = m[(a + 1) + k - 1]
    BY <2>1, <1>0, SubSeqProperties
  <2>4. q \in Seq(Seq(T))
    BY <2>1, <1>0, SubSeqProperties
  <2> HIDE DEF q
  <2>5. ASSUME NEW k \in 1 .. n PROVE q[k] = m[a + k]
    <3>1. k \in 1 .. (a + n) - (a + 1) + 1 /\ (a + 1) + k - 1 = a + k
      BY <1>0
    <3> QED BY <3>1, <2>3
  <2> QED BY <2>2, <2>4, <2>5, <1>0
<1>3. r \in Seq(Seq(T)) /\ Len(r) = b /\ \A k \in 1 .. b : r[k] = m[a + n + k]
  <2>1. \A k \in a + n + 1 .. a + n + b : m[k] \in Seq(T)
    BY <1>0
  <2>2. Len(r) = IF a + n + 1 <= a + n + b THEN (a + n + b) - (a + n + 1) + 1 ELSE 0
    BY <2>1, <1>0, SubSeqProperties
  <2>3. \A k \in 1 .. (a + n + b) - (a + n + 1) + 1 : r[k] = m[(a + n + 1) + k - 1]
    BY <2>1, <1>0, SubSeqProperties
  <2>4. r \in Seq(Seq(T))
    BY <2>1, <1>0, SubSeqProperties
  <2> HIDE DEF r
  <2>5. ASSUME NEW k \in 1 .. b PROVE r[k] = m[a + n + k]
    <3>1. k \in 1 .. (a + n + b) - (a + n + 1) + 1 /\ (a + n + 1) + k - 1 = a + n + k
      BY <1>0
    <3> QED BY <3>1, <2>3
  <2> QED BY <2>2, <2>4, <2>5, <1>0
<1>4. m = p \o (q \o r)
  <2>1. SubSeq(m, 1, a + n + b) = m
    BY SubSeqFull
  <2>2. SubSeq(m, a + 1, a + n) \o SubSeq(m, (a + n) + 1, a + n + b) = SubSeq(m, a + 1, a + n + b)
    <3> HIDE DEF n, p, q, r
    <3>1. a + 1 \in Nat /\ a + n \in Nat /\ a + n + b \in Nat /\ 1 <= a + 1 /\ a + 1 <= (a + n) + 1
          /\ a + n <= a + n + b /\ a + n + b <= Len(m)
      BY <1>0 DEF n
    <3> QED BY <3>1, SplitAt
  <2>3. SubSeq(m, 1, a) \o SubSeq(m, a + 1, a + n + b) = SubSeq(m, 1, a + n + b)
    <3> HIDE DEF n, p, q, r
    <3> DEFINE l == a + n + b
    <3>1. 1 \in Nat /\ l \in Nat /\ 1 <= a + 1 /\ a <= l /\ l <= Len(m)
      BY <1>0 DEF n
    <3> HIDE DEF l
    <3>2. SubSeq(m, 1, a) \o SubSeq(m, a + 1, l) = SubSeq(m, 1, l)
      BY <3>1, SplitFront
    <3> QED BY <3>2 DEF l
  <2> QED BY <2>1, <2>2, <2>3
<1> HIDE DEF p, q, r
<1>5. FlattenSeq(p) = <<>>
  <2>1. \A k \in 1 .. Len(p) : p[k] = <<>>
    BY <1>1, <1>0
  <2> QED BY <1>1, <2>1, FlattenNothing
<1>6. FlattenSeq(r) = <<>>
  <2>1. ASSUME NEW k \in 1 .. Len(r) PROVE r[k] = <<>>
    <3>1. k \in 1 .. b /\ a + n + k \in 1 .. Len(m) /\ a + n + k > a + Len(w)
      BY <1>3, <1>0
    <3> HIDE DEF n
    <3> QED BY <3>1, <1>3
  <2> QED BY <1>3, <2>1, FlattenNothing
<1>7. FlattenSeq(q) = w
  <2>1. q = Ones(w)
    <3>1. Ones(w) \in Seq(Seq(T)) /\ Len(Ones(w)) = n /\ \A k \in 1 .. n : Ones(w)[k] = <<w[k]>>
      BY OnesType DEF Ones
    <3>2. \A k \in 1 .. n : q[k] = Ones(w)[k]
      BY <1>2, <3>1
    <3> QED BY <1>2, <3>1, <3>2, SeqEqual
  <2> QED BY <2>1, FlattenOnes
<1>8. FlattenSeq(m) = FlattenSeq(p) \o (FlattenSeq(q) \o FlattenSeq(r))
  <2>1. p \in Seq(Seq(T)) /\ q \in Seq(Seq(T)) /\ r \in Seq(Seq(T)) /\ q \o r \in Seq(Seq(T))
    BY <1>1, <1>2, <1>3, ConcatProperties
  <2>2. FlattenSeq(q \o r) = FlattenSeq(q) \o FlattenSeq(r)
    BY <2>1, FlattenConcat
  <2>3. FlattenSeq(p \o (q \o r)) = FlattenSeq(p) \o FlattenSeq(q \o r)
    BY <2>1, FlattenConcat
  <2> QED BY <2>2, <2>3, <1>4
<1> QED BY <1>5, <1>6, <1>7, <1>8, ConcatEmptySeq, EmptySeq

\* Where the part of one number lies in the parts put together
LEMMA PartPlace ==
  ASSUME NEW T, NEW parts \in Seq(Seq(T)), NEW j \in 1 .. Len(parts),
         \A i \in 1 .. Len(parts) : \A k \in 1 .. Len(parts[i]) : parts[i][k].num = i
  PROVE  \E a \in Nat, b \in Nat :
           /\ Len(FlattenSeq(parts)) = a + Len(parts[j]) + b
           /\ \A k \in 1 .. Len(parts[j]) : FlattenSeq(parts)[a + k] = parts[j][k]
           /\ \A k \in 1 .. Len(FlattenSeq(parts)) :
                k <= a \/ k > a + Len(parts[j]) => FlattenSeq(parts)[k].num # j
<1> DEFINE n == Len(parts)
           U == {c \in T : c.num # j}
           before == SubSeq(parts, 1, j - 1)
           behind == SubSeq(parts, j + 1, n)
           p == FlattenSeq(before)
           r == FlattenSeq(behind)
           q == parts[j]
<1>0. n \in Nat /\ j \in Nat /\ \A i \in 1 .. n : parts[i] \in Seq(T) /\ Len(parts[i]) \in Nat
  BY LenProperties, ElementOfSeq
<1>1. ASSUME NEW i \in 1 .. n, i # j PROVE parts[i] \in Seq(U)
  <2>1. \A k \in 1 .. Len(parts[i]) : parts[i][k] \in U
    BY <1>1, <1>0, ElementOfSeq
  <2>2. parts[i] \in [1 .. Len(parts[i]) -> T]
    BY <1>0, LenProperties
  <2> HIDE DEF U
  <2>3. parts[i] \in [1 .. Len(parts[i]) -> U]
    BY <2>1, <2>2
  <2> DEFINE N == Len(parts[i])
  <2>4. N \in Nat /\ parts[i] \in [1 .. N -> U]
    BY <2>3, <1>0
  <2> HIDE DEF N
  <2> QED BY <2>4, SeqDef
<1>2. before \in Seq(Seq(U))
  <2> HIDE DEF U
  <2>1. \A i \in 1 .. j - 1 : parts[i] \in Seq(U)
    <3>1. \A i \in 1 .. j - 1 : i \in 1 .. n /\ i # j
      BY <1>0
    <3> QED BY <1>1, <3>1
  <2> QED BY <2>1, <1>0, SubSeqProperties
<1>3. behind \in Seq(Seq(U))
  <2> HIDE DEF U, n
  <2>1. \A i \in j + 1 .. n : parts[i] \in Seq(U)
    <3>1. \A i \in j + 1 .. n : i \in 1 .. n /\ i # j
      BY <1>0
    <3> QED BY <1>1, <3>1
  <2> QED BY <2>1, <1>0, SubSeqProperties
<1>4. p \in Seq(U) /\ r \in Seq(U) /\ q \in Seq(T) /\ p \in Seq(T) /\ r \in Seq(T)
  <2>1. p \in Seq(U) /\ r \in Seq(U)
    <3> HIDE DEF U, before, behind
    <3> QED BY <1>2, <1>3, FlattenType
  <2>2. U \subseteq T
    OBVIOUS
  <2> HIDE DEF U, p, r
  <2> QED BY <2>1, <2>2, <1>0, SeqMonotonic
<1>5. FlattenSeq(parts) = p \o (q \o r)
  <2>1. parts = before \o (<<q>> \o behind)
    <3>1. SubSeq(parts, j, n) = <<parts[j]>> \o SubSeq(parts, j + 1, n)
      BY <1>0, SubSeqRecursiveFirst
    <3>2. SubSeq(parts, 1, j - 1) \o SubSeq(parts, (j - 1) + 1, n) = SubSeq(parts, 1, n)
      <4>1. j - 1 \in Nat /\ n \in Nat /\ 1 <= (j - 1) + 1 /\ j - 1 <= n /\ n <= Len(parts)
        BY <1>0
      <4> HIDE DEF n
      <4> QED BY <4>1, SplitAt
    <3>3. (j - 1) + 1 = j /\ SubSeq(parts, 1, n) = parts
      BY <1>0, SubSeqFull
    <3> QED BY <3>1, <3>2, <3>3
  <2>2. Seq(U) \subseteq Seq(T)
    <3>1. U \subseteq T
      OBVIOUS
    <3> HIDE DEF U
    <3> QED BY <3>1, SeqMonotonic
  <2>3. before \in Seq(Seq(T)) /\ behind \in Seq(Seq(T)) /\ <<q>> \in Seq(Seq(T))
    <3>1. <<q>> \in Seq(Seq(T))
      BY <1>4
    <3> HIDE DEF U, before, behind
    <3> QED BY <1>2, <1>3, <2>2, SeqMonotonic, <3>1
  <2> HIDE DEF before, behind, q
  <2> DEFINE one == <<q>>
  <2> HIDE DEF one
  <2>4. FlattenSeq(before \o (one \o behind)) = p \o (FlattenSeq(one) \o r)
    <3>1. one \in Seq(Seq(T)) /\ one \o behind \in Seq(Seq(T))
      BY <2>3, ConcatProperties DEF one
    <3>2. FlattenSeq(one \o behind) = FlattenSeq(one) \o r
      BY <2>3, <3>1, FlattenConcat
    <3>3. FlattenSeq(before \o (one \o behind)) = p \o FlattenSeq(one \o behind)
      BY <2>3, <3>1, FlattenConcat
    <3> QED BY <3>2, <3>3
  <2>5. FlattenSeq(<<q>>) = q
    BY <1>4, FlattenOne
  <2> QED BY <2>1, <2>4, <2>5 DEF one
<1> HIDE DEF p, r, before, behind
<1>6. q \o r \in Seq(T) /\ Len(q \o r) = Len(q) + Len(r)
      /\ \A k \in 1 .. Len(q) + Len(r) : (q \o r)[k] = IF k <= Len(q) THEN q[k] ELSE r[k - Len(q)]
  <2> HIDE DEF q
  <2> QED BY <1>4, ConcatProperties
<1>7. Len(FlattenSeq(parts)) = Len(p) + (Len(q) + Len(r))
      /\ \A k \in 1 .. Len(p) + (Len(q) + Len(r)) :
           FlattenSeq(parts)[k] = IF k <= Len(p) THEN p[k] ELSE (q \o r)[k - Len(p)]
  <2> HIDE DEF q
  <2>1. p \in Seq(T) /\ q \o r \in Seq(T) /\ Len(q \o r) = Len(q) + Len(r)
    BY <1>4, <1>6
  <2>2. Len(p \o (q \o r)) = Len(p) + Len(q \o r)
        /\ \A k \in 1 .. Len(p) + Len(q \o r) : (p \o (q \o r))[k] = IF k <= Len(p) THEN p[k] ELSE (q \o r)[k - Len(p)]
    BY <2>1, ConcatProperties
  <2> QED BY <2>1, <2>2, <1>5
<1>8. Len(p) \in Nat /\ Len(r) \in Nat /\ Len(q) \in Nat
      /\ (\A k \in 1 .. Len(p) : p[k] \in U) /\ (\A k \in 1 .. Len(r) : r[k] \in U)
  <2> HIDE DEF U, q
  <2> QED BY <1>4, LenProperties, ElementOfSeq
<1>9. ASSUME NEW k \in 1 .. Len(q) PROVE FlattenSeq(parts)[Len(p) + k] = q[k]
  <2> HIDE DEF q
  <2>1. Len(p) + k \in 1 .. Len(p) + (Len(q) + Len(r)) /\ ~(Len(p) + k <= Len(p)) /\ (Len(p) + k) - Len(p) = k
        /\ k \in 1 .. Len(q) + Len(r) /\ k <= Len(q)
    BY <1>8
  <2> QED BY <2>1, <1>6, <1>7
<1>10. ASSUME NEW k \in 1 .. Len(FlattenSeq(parts)), k <= Len(p) \/ k > Len(p) + Len(q)
       PROVE  FlattenSeq(parts)[k] \in U
  <2> HIDE DEF q, U
  <2>1. CASE k <= Len(p)
    BY <2>1, <1>7, <1>8
  <2>2. CASE k > Len(p) + Len(q)
    <3>1. ~(k <= Len(p)) /\ k - Len(p) \in 1 .. Len(q) + Len(r) /\ ~(k - Len(p) <= Len(q))
          /\ (k - Len(p)) - Len(q) \in 1 .. Len(r) /\ k \in 1 .. Len(p) + (Len(q) + Len(r))
      BY <2>2, <1>7, <1>8
    <3> QED BY <3>1, <1>6, <1>7, <1>8
  <2> QED BY <1>10, <2>1, <2>2
<1>11. \A k \in 1 .. Len(FlattenSeq(parts)) :
         k <= Len(p) \/ k > Len(p) + Len(q) => FlattenSeq(parts)[k].num # j
  BY <1>10
<1>12. Len(FlattenSeq(parts)) = Len(p) + Len(q) + Len(r)
  <2> HIDE DEF q
  <2> QED BY <1>7, <1>8
<1> QED BY <1>8, <1>9, <1>11, <1>12

-----------------------------------------------------------------------------
\* The tables of every message type agree with one another.

\* The tables of a message type agree: fields are numbered from 1 in the order
\* they are written, each has a name of its own, and unmarshal knows the same.
WellTable(n, out, in, fields) ==
    /\ n \in Nat
    /\ out = [j \in 1 .. n |-> out[j]]
    /\ \A j \in 1 .. n : out[j].num = j
    /\ in = {out[j] : j \in 1 .. n}
    /\ fields = {out[j].name : j \in 1 .. n}
    /\ \A i, j \in 1 .. n : out[i].name = out[j].name => i = j
    /\ \A j \in 1 .. n : out[j].nested = "none" \/ out[j].nested \in DOMAIN Codecs

WellCoded(type) == WellTable(Len(Codecs[type].out), Codecs[type].out, Codecs[type].in, Fields[type])

\* The tables of each message type, as WellTable has them
LEMMA LoginReqCoded == WellCoded("LoginReq")
<1> DEFINE out == LoginReq.out
<1>1. Codecs["LoginReq"] = LoginReq
  BY DEF Codecs
<1>2. Fields["LoginReq"] = {"Version", "Username", "Password", "Platform", "UpdaterVersion",
             "UpgradeTaskID", "UpgradeState", "UpgradeError"}
  BY DEF Fields, ControlFields, ProxyFields
<1>3. LoginReq.in = {B(1, "Version"), B(2, "Username"), B(3, "Password"), B(4, "Platform"), V(5,
             "UpdaterVersion"), B(6, "UpgradeTaskID"), B(7, "UpgradeState"), B(8,
             "UpgradeError")}
  BY DEF LoginReq
<1>4. Len(out) = 8 /\ out = [j \in 1 .. 8 |-> out[j]]
  BY DEF LoginReq
<1>5. /\ out[1] = B(1, "Version")
      /\ out[2] = B(2, "Username")
      /\ out[3] = B(3, "Password")
      /\ out[4] = B(4, "Platform")
      /\ out[5] = V(5, "UpdaterVersion")
      /\ out[6] = B(6, "UpgradeTaskID")
      /\ out[7] = B(7, "UpgradeState")
      /\ out[8] = B(8, "UpgradeError")
  BY DEF LoginReq
<1> HIDE DEF out
<1>6. \A j \in 1 .. 8 : j = 1 \/ j = 2 \/ j = 3 \/ j = 4 \/ j = 5 \/ j = 6 \/ j = 7 \/ j = 8
  OBVIOUS
<1>7. WellTable(8, out, LoginReq.in, Fields["LoginReq"])
  <2>1. LoginReq.in = {out[j] : j \in 1 .. 8}
    BY <1>3, <1>5, <1>6
  <2>2. \A j \in 1 .. 8 : out[j].num = j
    BY <1>5, <1>6 DEF V, B, Field
  <2>3. Fields["LoginReq"] = {out[j].name : j \in 1 .. 8}
    BY <1>2, <1>5, <1>6 DEF V, B, Field
  <2>4. \A i, j \in 1 .. 8 : out[i].name = out[j].name => i = j
    BY <1>5, <1>6 DEF V, B, Field
  <2>5. \A j \in 1 .. 8 : out[j].nested = "none" \/ out[j].nested \in DOMAIN Codecs
    BY <1>5, <1>6 DEF V, B, Field, Codecs
  <2> QED BY <1>4, <2>1, <2>2, <2>3, <2>4, <2>5 DEF WellTable
<1> QED BY <1>1, <1>4, <1>7 DEF WellCoded, out

LEMMA RegisterReqCoded == WellCoded("RegisterReq")
<1> DEFINE out == RegisterReq.out
<1>1. Codecs["RegisterReq"] = RegisterReq
  BY DEF Codecs
<1>2. Fields["RegisterReq"] = {"Username", "Password"}
  BY DEF Fields, ControlFields, ProxyFields
<1>3. RegisterReq.in = {B(1, "Username"), B(2, "Password")}
  BY DEF RegisterReq
<1>4. Len(out) = 2 /\ out = [j \in 1 .. 2 |-> out[j]]
  BY DEF RegisterReq
<1>5. /\ out[1] = B(1, "Username")
      /\ out[2] = B(2, "Password")
  BY DEF RegisterReq
<1> HIDE DEF out
<1>6. \A j \in 1 .. 2 : j = 1 \/ j = 2
  OBVIOUS
<1>7. WellTable(2, out, RegisterReq.in, Fields["RegisterReq"])
  <2>1. RegisterReq.in = {out[j] : j \in 1 .. 2}
    BY <1>3, <1>5, <1>6
  <2>2. \A j \in 1 .. 2 : out[j].num = j
    BY <1>5, <1>6 DEF B, Field
  <2>3. Fields["RegisterReq"] = {out[j].name : j \in 1 .. 2}
    BY <1>2, <1>5, <1>6 DEF B, Field
  <2>4. \A i, j \in 1 .. 2 : out[i].name = out[j].name => i = j
    BY <1>5, <1>6 DEF B, Field
  <2>5. \A j \in 1 .. 2 : out[j].nested = "none" \/ out[j].nested \in DOMAIN Codecs
    BY <1>5, <1>6 DEF B, Field, Codecs
  <2> QED BY <1>4, <2>1, <2>2, <2>3, <2>4, <2>5 DEF WellTable
<1> QED BY <1>1, <1>4, <1>7 DEF WellCoded, out

LEMMA LoginAckCoded == WellCoded("LoginAck")
<1> DEFINE out == LoginAck.out
<1>1. Codecs["LoginAck"] = LoginAck
  BY DEF Codecs
<1>2. Fields["LoginAck"] = {"PlayerID", "TunnelList", "SupportsTunnelRuntimeReport"}
  BY DEF Fields, ControlFields, ProxyFields
<1>3. LoginAck.in = {V(1, "PlayerID"), M(2, "TunnelList", "Tunnel"), V(3,
             "SupportsTunnelRuntimeReport")}
  BY DEF LoginAck
<1>4. Len(out) = 3 /\ out = [j \in 1 .. 3 |-> out[j]]
  BY DEF LoginAck
<1>5. /\ out[1] = V(1, "PlayerID")
      /\ out[2] = M(2, "TunnelList", "Tunnel")
      /\ out[3] = V(3, "SupportsTunnelRuntimeReport")
  BY DEF LoginAck
<1> HIDE DEF out
<1>6. \A j \in 1 .. 3 : j = 1 \/ j = 2 \/ j = 3
  OBVIOUS
<1>7. WellTable(3, out, LoginAck.in, Fields["LoginAck"])
  <2>1. LoginAck.in = {out[j] : j \in 1 .. 3}
    BY <1>3, <1>5, <1>6
  <2>2. \A j \in 1 .. 3 : out[j].num = j
    BY <1>5, <1>6 DEF V, M, Field
  <2>3. Fields["LoginAck"] = {out[j].name : j \in 1 .. 3}
    BY <1>2, <1>5, <1>6 DEF V, M, Field
  <2>4. \A i, j \in 1 .. 3 : out[i].name = out[j].name => i = j
    BY <1>5, <1>6 DEF V, M, Field
  <2>5. \A j \in 1 .. 3 : out[j].nested = "none" \/ out[j].nested \in DOMAIN Codecs
    BY <1>5, <1>6 DEF V, M, Field, Codecs
  <2> QED BY <1>4, <2>1, <2>2, <2>3, <2>4, <2>5 DEF WellTable
<1> QED BY <1>1, <1>4, <1>7 DEF WellCoded, out

LEMMA ModifyTunnelNtfCoded == WellCoded("ModifyTunnelNtf")
<1> DEFINE out == ModifyTunnelNtf.out
<1>1. Codecs["ModifyTunnelNtf"] = ModifyTunnelNtf
  BY DEF Codecs
<1>2. Fields["ModifyTunnelNtf"] = {"IsDelete", "Tunnel"}
  BY DEF Fields, ControlFields, ProxyFields
<1>3. ModifyTunnelNtf.in = {V(1, "IsDelete"), M(2, "Tunnel", "Tunnel")}
  BY DEF ModifyTunnelNtf
<1>4. Len(out) = 2 /\ out = [j \in 1 .. 2 |-> out[j]]
  BY DEF ModifyTunnelNtf
<1>5. /\ out[1] = V(1, "IsDelete")
      /\ out[2] = M(2, "Tunnel", "Tunnel")
  BY DEF ModifyTunnelNtf
<1> HIDE DEF out
<1>6. \A j \in 1 .. 2 : j = 1 \/ j = 2
  OBVIOUS
<1>7. WellTable(2, out, ModifyTunnelNtf.in, Fields["ModifyTunnelNtf"])
  <2>1. ModifyTunnelNtf.in = {out[j] : j \in 1 .. 2}
    BY <1>3, <1>5, <1>6
  <2>2. \A j \in 1 .. 2 : out[j].num = j
    BY <1>5, <1>6 DEF V, M, Field
  <2>3. Fields["ModifyTunnelNtf"] = {out[j].name : j \in 1 .. 2}
    BY <1>2, <1>5, <1>6 DEF V, M, Field
  <2>4. \A i, j \in 1 .. 2 : out[i].name = out[j].name => i = j
    BY <1>5, <1>6 DEF V, M, Field
  <2>5. \A j \in 1 .. 2 : out[j].nested = "none" \/ out[j].nested \in DOMAIN Codecs
    BY <1>5, <1>6 DEF V, M, Field, Codecs
  <2> QED BY <1>4, <2>1, <2>2, <2>3, <2>4, <2>5 DEF WellTable
<1> QED BY <1>1, <1>4, <1>7 DEF WellCoded, out

LEMMA TunnelRuntimeReportCoded == WellCoded("TunnelRuntimeReport")
<1> DEFINE out == TunnelRuntimeReport.out
<1>1. Codecs["TunnelRuntimeReport"] = TunnelRuntimeReport
  BY DEF Codecs
<1>2. Fields["TunnelRuntimeReport"] = {"TunnelID", "Component", "Running", "Error"}
  BY DEF Fields, ControlFields, ProxyFields
<1>3. TunnelRuntimeReport.in = {V(1, "TunnelID"), B(2, "Component"), V(3, "Running"), B(4,
             "Error")}
  BY DEF TunnelRuntimeReport
<1>4. Len(out) = 4 /\ out = [j \in 1 .. 4 |-> out[j]]
  BY DEF TunnelRuntimeReport
<1>5. /\ out[1] = V(1, "TunnelID")
      /\ out[2] = B(2, "Component")
      /\ out[3] = V(3, "Running")
      /\ out[4] = B(4, "Error")
  BY DEF TunnelRuntimeReport
<1> HIDE DEF out
<1>6. \A j \in 1 .. 4 : j = 1 \/ j = 2 \/ j = 3 \/ j = 4
  OBVIOUS
<1>7. WellTable(4, out, TunnelRuntimeReport.in, Fields["TunnelRuntimeReport"])
  <2>1. TunnelRuntimeReport.in = {out[j] : j \in 1 .. 4}
    BY <1>3, <1>5, <1>6
  <2>2. \A j \in 1 .. 4 : out[j].num = j
    BY <1>5, <1>6 DEF V, B, Field
  <2>3. Fields["TunnelRuntimeReport"] = {out[j].name : j \in 1 .. 4}
    BY <1>2, <1>5, <1>6 DEF V, B, Field
  <2>4. \A i, j \in 1 .. 4 : out[i].name = out[j].name => i = j
    BY <1>5, <1>6 DEF V, B, Field
  <2>5. \A j \in 1 .. 4 : out[j].nested = "none" \/ out[j].nested \in DOMAIN Codecs
    BY <1>5, <1>6 DEF V, B, Field, Codecs
  <2> QED BY <1>4, <2>1, <2>2, <2>3, <2>4, <2>5 DEF WellTable
<1> QED BY <1>1, <1>4, <1>7 DEF WellCoded, out

LEMMA UpgradeOfferCoded == WellCoded("UpgradeOffer")
<1> DEFINE out == UpgradeOffer.out
<1>1. Codecs["UpgradeOffer"] = UpgradeOffer
  BY DEF Codecs
<1>2. Fields["UpgradeOffer"] = {"TaskID", "Version", "Platform", "Size", "SHA256", "Signature",
             "ChunkSize"}
  BY DEF Fields, ControlFields, ProxyFields
<1>3. UpgradeOffer.in = {B(1, "TaskID"), B(2, "Version"), B(3, "Platform"), V(4, "Size"), B(5,
             "SHA256"), B(6, "Signature"), V(7, "ChunkSize")}
  BY DEF UpgradeOffer
<1>4. Len(out) = 7 /\ out = [j \in 1 .. 7 |-> out[j]]
  BY DEF UpgradeOffer
<1>5. /\ out[1] = B(1, "TaskID")
      /\ out[2] = B(2, "Version")
      /\ out[3] = B(3, "Platform")
      /\ out[4] = V(4, "Size")
      /\ out[5] = B(5, "SHA256")
      /\ out[6] = B(6, "Signature")
      /\ out[7] = V(7, "ChunkSize")
  BY DEF UpgradeOffer
<1> HIDE DEF out
<1>6. \A j \in 1 .. 7 : j = 1 \/ j = 2 \/ j = 3 \/ j = 4 \/ j = 5 \/ j = 6 \/ j = 7
  OBVIOUS
<1>7. WellTable(7, out, UpgradeOffer.in, Fields["UpgradeOffer"])
  <2>1. UpgradeOffer.in = {out[j] : j \in 1 .. 7}
    BY <1>3, <1>5, <1>6
  <2>2. \A j \in 1 .. 7 : out[j].num = j
    BY <1>5, <1>6 DEF V, B, Field
  <2>3. Fields["UpgradeOffer"] = {out[j].name : j \in 1 .. 7}
    BY <1>2, <1>5, <1>6 DEF V, B, Field
  <2>4. \A i, j \in 1 .. 7 : out[i].name = out[j].name => i = j
    BY <1>5, <1>6 DEF V, B, Field
  <2>5. \A j \in 1 .. 7 : out[j].nested = "none" \/ out[j].nested \in DOMAIN Codecs
    BY <1>5, <1>6 DEF V, B, Field, Codecs
  <2> QED BY <1>4, <2>1, <2>2, <2>3, <2>4, <2>5 DEF WellTable
<1> QED BY <1>1, <1>4, <1>7 DEF WellCoded, out

LEMMA UpgradeChunkCoded == WellCoded("UpgradeChunk")
<1> DEFINE out == UpgradeChunk.out
<1>1. Codecs["UpgradeChunk"] = UpgradeChunk
  BY DEF Codecs
<1>2. Fields["UpgradeChunk"] = {"TaskID", "Offset", "Data", "SHA256", "EOF"}
  BY DEF Fields, ControlFields, ProxyFields
<1>3. UpgradeChunk.in = {B(1, "TaskID"), V(2, "Offset"), B(3, "Data"), B(4, "SHA256"), V(5,
             "EOF")}
  BY DEF UpgradeChunk
<1>4. Len(out) = 5 /\ out = [j \in 1 .. 5 |-> out[j]]
  BY DEF UpgradeChunk
<1>5. /\ out[1] = B(1, "TaskID")
      /\ out[2] = V(2, "Offset")
      /\ out[3] = B(3, "Data")
      /\ out[4] = B(4, "SHA256")
      /\ out[5] = V(5, "EOF")
  BY DEF UpgradeChunk
<1> HIDE DEF out
<1>6. \A j \in 1 .. 5 : j = 1 \/ j = 2 \/ j = 3 \/ j = 4 \/ j = 5
  OBVIOUS
<1>7. WellTable(5, out, UpgradeChunk.in, Fields["UpgradeChunk"])
  <2>1. UpgradeChunk.in = {out[j] : j \in 1 .. 5}
    BY <1>3, <1>5, <1>6
  <2>2. \A j \in 1 .. 5 : out[j].num = j
    BY <1>5, <1>6 DEF V, B, Field
  <2>3. Fields["UpgradeChunk"] = {out[j].name : j \in 1 .. 5}
    BY <1>2, <1>5, <1>6 DEF V, B, Field
  <2>4. \A i, j \in 1 .. 5 : out[i].name = out[j].name => i = j
    BY <1>5, <1>6 DEF V, B, Field
  <2>5. \A j \in 1 .. 5 : out[j].nested = "none" \/ out[j].nested \in DOMAIN Codecs
    BY <1>5, <1>6 DEF V, B, Field, Codecs
  <2> QED BY <1>4, <2>1, <2>2, <2>3, <2>4, <2>5 DEF WellTable
<1> QED BY <1>1, <1>4, <1>7 DEF WellCoded, out

LEMMA UpgradeStatusReportCoded == WellCoded("UpgradeStatusReport")
<1> DEFINE out == UpgradeStatusReport.out
<1>1. Codecs["UpgradeStatusReport"] = UpgradeStatusReport
  BY DEF Codecs
<1>2. Fields["UpgradeStatusReport"] = {"TaskID", "State", "Offset", "Error"}
  BY DEF Fields, ControlFields, ProxyFields
<1>3. UpgradeStatusReport.in = {B(1, "TaskID"), B(2, "State"), V(3, "Offset"), B(4, "Error")}
  BY DEF UpgradeStatusReport
<1>4. Len(out) = 4 /\ out = [j \in 1 .. 4 |-> out[j]]
  BY DEF UpgradeStatusReport
<1>5. /\ out[1] = B(1, "TaskID")
      /\ out[2] = B(2, "State")
      /\ out[3] = V(3, "Offset")
      /\ out[4] = B(4, "Error")
  BY DEF UpgradeStatusReport
<1> HIDE DEF out
<1>6. \A j \in 1 .. 4 : j = 1 \/ j = 2 \/ j = 3 \/ j = 4
  OBVIOUS
<1>7. WellTable(4, out, UpgradeStatusReport.in, Fields["UpgradeStatusReport"])
  <2>1. UpgradeStatusReport.in = {out[j] : j \in 1 .. 4}
    BY <1>3, <1>5, <1>6
  <2>2. \A j \in 1 .. 4 : out[j].num = j
    BY <1>5, <1>6 DEF V, B, Field
  <2>3. Fields["UpgradeStatusReport"] = {out[j].name : j \in 1 .. 4}
    BY <1>2, <1>5, <1>6 DEF V, B, Field
  <2>4. \A i, j \in 1 .. 4 : out[i].name = out[j].name => i = j
    BY <1>5, <1>6 DEF V, B, Field
  <2>5. \A j \in 1 .. 4 : out[j].nested = "none" \/ out[j].nested \in DOMAIN Codecs
    BY <1>5, <1>6 DEF V, B, Field, Codecs
  <2> QED BY <1>4, <2>1, <2>2, <2>3, <2>4, <2>5 DEF WellTable
<1> QED BY <1>1, <1>4, <1>7 DEF WellCoded, out

LEMMA TunnelPointCoded == WellCoded("TunnelPoint")
<1> DEFINE out == TunnelPoint.out
<1>1. Codecs["TunnelPoint"] = TunnelPoint
  BY DEF Codecs
<1>2. Fields["TunnelPoint"] = {"Addr"}
  BY DEF Fields, ControlFields, ProxyFields
<1>3. TunnelPoint.in = {B(1, "Addr")}
  BY DEF TunnelPoint
<1>4. Len(out) = 1 /\ out = [j \in 1 .. 1 |-> out[j]]
  BY DEF TunnelPoint
<1>5. /\ out[1] = B(1, "Addr")
  BY DEF TunnelPoint
<1> HIDE DEF out
<1>6. \A j \in 1 .. 1 : j = 1
  OBVIOUS
<1>7. WellTable(1, out, TunnelPoint.in, Fields["TunnelPoint"])
  <2>1. TunnelPoint.in = {out[j] : j \in 1 .. 1}
    BY <1>3, <1>5, <1>6
  <2>2. \A j \in 1 .. 1 : out[j].num = j
    BY <1>5, <1>6 DEF B, Field
  <2>3. Fields["TunnelPoint"] = {out[j].name : j \in 1 .. 1}
    BY <1>2, <1>5, <1>6 DEF B, Field
  <2>4. \A i, j \in 1 .. 1 : out[i].name = out[j].name => i = j
    BY <1>5, <1>6 DEF B, Field
  <2>5. \A j \in 1 .. 1 : out[j].nested = "none" \/ out[j].nested \in DOMAIN Codecs
    BY <1>5, <1>6 DEF B, Field, Codecs
  <2> QED BY <1>4, <2>1, <2>2, <2>3, <2>4, <2>5 DEF WellTable
<1> QED BY <1>1, <1>4, <1>7 DEF WellCoded, out

LEMMA TunnelCoded == WellCoded("Tunnel")
<1> DEFINE out == Tunnel.out
<1>1. Codecs["Tunnel"] = Tunnel
  BY DEF Codecs
<1>2. Fields["Tunnel"] = {"Source", "Endpoint", "ID", "Enabled", "Sender", "Receiver",
             "TunnelType", "Password", "Username", "IsCompressed", "EncryptionMethod",
             "CustomMapping"}
  BY DEF Fields, ControlFields, ProxyFields
<1>3. Tunnel.in = {M(1, "Source", "TunnelPoint"), M(2, "Endpoint", "TunnelPoint"), V(3, "ID"),
             V(4, "Enabled"), V(5, "Sender"), V(6, "Receiver"), V(7, "TunnelType"), B(8,
             "Password"), B(9, "Username"), V(10, "IsCompressed"), B(11, "EncryptionMethod"),
             M(12, "CustomMapping", "MapEntry")}
  BY DEF Tunnel
<1>4. Len(out) = 12 /\ out = [j \in 1 .. 12 |-> out[j]]
  BY DEF Tunnel
<1>5. /\ out[1] = M(1, "Source", "TunnelPoint")
      /\ out[2] = M(2, "Endpoint", "TunnelPoint")
      /\ out[3] = V(3, "ID")
      /\ out[4] = V(4, "Enabled")
      /\ out[5] = V(5, "Sender")
      /\ out[6] = V(6, "Receiver")
      /\ out[7] = V(7, "TunnelType")
      /\ out[8] = B(8, "Password")
      /\ out[9] = B(9, "Username")
      /\ out[10] = V(10, "IsCompressed")
      /\ out[11] = B(11, "EncryptionMethod")
      /\ out[12] = M(12, "CustomMapping", "MapEntry")
  BY DEF Tunnel
<1> HIDE DEF out
<1>6. \A j \in 1 .. 12 : j = 1 \/ j = 2 \/ j = 3 \/ j = 4 \/ j = 5 \/ j = 6 \/ j = 7 \/ j = 8 \/
      j = 9 \/ j = 10 \/ j = 11 \/ j = 12
  OBVIOUS
<1>7. WellTable(12, out, Tunnel.in, Fields["Tunnel"])
  <2>1. Tunnel.in = {out[j] : j \in 1 .. 12}
    BY <1>3, <1>5, <1>6
  <2>2. \A j \in 1 .. 12 : out[j].num = j
    BY <1>5, <1>6 DEF V, B, M, Field
  <2>3. Fields["Tunnel"] = {out[j].name : j \in 1 .. 12}
    BY <1>2, <1>5, <1>6 DEF V, B, M, Field
  <2>4. \A i, j \in 1 .. 12 : out[i].name = out[j].name => i = j
    BY <1>5, <1>6 DEF V, B, M, Field
  <2>5. \A j \in 1 .. 12 : out[j].nested = "none" \/ out[j].nested \in DOMAIN Codecs
    BY <1>5, <1>6 DEF V, B, M, Field, Codecs
  <2> QED BY <1>4, <2>1, <2>2, <2>3, <2>4, <2>5 DEF WellTable
<1> QED BY <1>1, <1>4, <1>7 DEF WellCoded, out

LEMMA MapEntryCoded == WellCoded("MapEntry")
<1> DEFINE out == MapEntry.out
<1>1. Codecs["MapEntry"] = MapEntry
  BY DEF Codecs
<1>2. Fields["MapEntry"] = {"key", "value"}
  BY DEF Fields, ControlFields, ProxyFields
<1>3. MapEntry.in = {B(1, "key"), B(2, "value")}
  BY DEF MapEntry
<1>4. Len(out) = 2 /\ out = [j \in 1 .. 2 |-> out[j]]
  BY DEF MapEntry
<1>5. /\ out[1] = B(1, "key")
      /\ out[2] = B(2, "value")
  BY DEF MapEntry
<1> HIDE DEF out
<1>6. \A j \in 1 .. 2 : j = 1 \/ j = 2
  OBVIOUS
<1>7. WellTable(2, out, MapEntry.in, Fields["MapEntry"])
  <2>1. MapEntry.in = {out[j] : j \in 1 .. 2}
    BY <1>3, <1>5, <1>6
  <2>2. \A j \in 1 .. 2 : out[j].num = j
    BY <1>5, <1>6 DEF B, Field
  <2>3. Fields["MapEntry"] = {out[j].name : j \in 1 .. 2}
    BY <1>2, <1>5, <1>6 DEF B, Field
  <2>4. \A i, j \in 1 .. 2 : out[i].name = out[j].name => i = j
    BY <1>5, <1>6 DEF B, Field
  <2>5. \A j \in 1 .. 2 : out[j].nested = "none" \/ out[j].nested \in DOMAIN Codecs
    BY <1>5, <1>6 DEF B, Field, Codecs
  <2> QED BY <1>4, <2>1, <2>2, <2>3, <2>4, <2>5 DEF WellTable
<1> QED BY <1>1, <1>4, <1>7 DEF WellCoded, out

LEMMA SuccessCoded == WellCoded("Success")
<1> DEFINE out == Success.out
<1>1. Codecs["Success"] = Success
  BY DEF Codecs
<1>2. Fields["Success"] = {}
  BY DEF Fields, ControlFields, ProxyFields
<1>3. out = <<>> /\ Len(out) = 0 /\ Success.in = {} /\ 1 .. 0 = {}
  BY DEF Success
<1> HIDE DEF out
<1>4. WellTable(0, out, Success.in, Fields["Success"])
  BY <1>2, <1>3 DEF WellTable
<1> QED BY <1>1, <1>3, <1>4 DEF WellCoded, out

LEMMA ErrorCoded == WellCoded("Error")
<1> DEFINE out == Error.out
<1>1. Codecs["Error"] = Error
  BY DEF Codecs
<1>2. Fields["Error"] = {"Number", "Message"}
  BY DEF Fields, ControlFields, ProxyFields
<1>3. Error.in = {V(1, "Number"), B(2, "Message")}
  BY DEF Error
<1>4. Len(out) = 2 /\ out = [j \in 1 .. 2 |-> out[j]]
  BY DEF Error
<1>5. /\ out[1] = V(1, "Number")
      /\ out[2] = B(2, "Message")
  BY DEF Error
<1> HIDE DEF out
<1>6. \A j \in 1 .. 2 : j = 1 \/ j = 2
  OBVIOUS
<1>7. WellTable(2, out, Error.in, Fields["Error"])
  <2>1. Error.in = {out[j] : j \in 1 .. 2}
    BY <1>3, <1>5, <1>6
  <2>2. \A j \in 1 .. 2 : out[j].num = j
    BY <1>5, <1>6 DEF V, B, Field
  <2>3. Fields["Error"] = {out[j].name : j \in 1 .. 2}
    BY <1>2, <1>5, <1>6 DEF V, B, Field
  <2>4. \A i, j \in 1 .. 2 : out[i].name = out[j].name => i = j
    BY <1>5, <1>6 DEF V, B, Field
  <2>5. \A j \in 1 .. 2 : out[j].nested = "none" \/ out[j].nested \in DOMAIN Codecs
    BY <1>5, <1>6 DEF V, B, Field, Codecs
  <2> QED BY <1>4, <2>1, <2>2, <2>3, <2>4, <2>5 DEF WellTable
<1> QED BY <1>1, <1>4, <1>7 DEF WellCoded, out

LEMMA PingCoded == WellCoded("Ping")
<1> DEFINE out == Ping.out
<1>1. Codecs["Ping"] = Ping
  BY DEF Codecs
<1>2. Fields["Ping"] = {"Ticks"}
  BY DEF Fields, ControlFields, ProxyFields
<1>3. Ping.in = {V(1, "Ticks")}
  BY DEF Ping
<1>4. Len(out) = 1 /\ out = [j \in 1 .. 1 |-> out[j]]
  BY DEF Ping
<1>5. /\ out[1] = V(1, "Ticks")
  BY DEF Ping
<1> HIDE DEF out
<1>6. \A j \in 1 .. 1 : j = 1
  OBVIOUS
<1>7. WellTable(1, out, Ping.in, Fields["Ping"])
  <2>1. Ping.in = {out[j] : j \in 1 .. 1}
    BY <1>3, <1>5, <1>6
  <2>2. \A j \in 1 .. 1 : out[j].num = j
    BY <1>5, <1>6 DEF V, Field
  <2>3. Fields["Ping"] = {out[j].name : j \in 1 .. 1}
    BY <1>2, <1>5, <1>6 DEF V, Field
  <2>4. \A i, j \in 1 .. 1 : out[i].name = out[j].name => i = j
    BY <1>5, <1>6 DEF V, Field
  <2>5. \A j \in 1 .. 1 : out[j].nested = "none" \/ out[j].nested \in DOMAIN Codecs
    BY <1>5, <1>6 DEF V, Field, Codecs
  <2> QED BY <1>4, <2>1, <2>2, <2>3, <2>4, <2>5 DEF WellTable
<1> QED BY <1>1, <1>4, <1>7 DEF WellCoded, out

LEMMA PongCoded == WellCoded("Pong")
<1> DEFINE out == Ping.out
<1>1. Codecs["Pong"] = Ping
  BY DEF Codecs, Pong
<1>2. Fields["Pong"] = {"Ticks"}
  BY DEF Fields, ControlFields, ProxyFields
<1>3. Ping.in = {V(1, "Ticks")}
  BY DEF Ping
<1>4. Len(out) = 1 /\ out = [j \in 1 .. 1 |-> out[j]]
  BY DEF Ping
<1>5. /\ out[1] = V(1, "Ticks")
  BY DEF Ping
<1> HIDE DEF out
<1>6. \A j \in 1 .. 1 : j = 1
  OBVIOUS
<1>7. WellTable(1, out, Ping.in, Fields["Pong"])
  <2>1. Ping.in = {out[j] : j \in 1 .. 1}
    BY <1>3, <1>5, <1>6
  <2>2. \A j \in 1 .. 1 : out[j].num = j
    BY <1>5, <1>6 DEF V, Field
  <2>3. Fields["Pong"] = {out[j].name : j \in 1 .. 1}
    BY <1>2, <1>5, <1>6 DEF V, Field
  <2>4. \A i, j \in 1 .. 1 : out[i].name = out[j].name => i = j
    BY <1>5, <1>6 DEF V, Field
  <2>5. \A j \in 1 .. 1 : out[j].nested = "none" \/ out[j].nested \in DOMAIN Codecs
    BY <1>5, <1>6 DEF V, Field, Codecs
  <2> QED BY <1>4, <2>1, <2>2, <2>3, <2>4, <2>5 DEF WellTable
<1> QED BY <1>1, <1>4, <1>7 DEF WellCoded, out

LEMMA I2OConnectCoded == WellCoded("I2OConnect")
<1> DEFINE out == I2OConnect.out
<1>1. Codecs["I2OConnect"] = I2OConnect
  BY DEF Codecs
<1>2. Fields["I2OConnect"] = {"TunnelID", "SessionID", "TunnelType", "IsTCP", "IsCompressed",
             "Addr", "EncryptionMethod", "EncryptionKey", "ClientAddr"}
  BY DEF Fields, ControlFields, ProxyFields
<1>3. I2OConnect.in = {V(1, "TunnelID"), V(2, "SessionID"), V(3, "TunnelType"), V(4, "IsTCP"),
             V(5, "IsCompressed"), B(6, "Addr"), B(7, "EncryptionMethod"), B(8,
             "EncryptionKey"), B(9, "ClientAddr")}
  BY DEF I2OConnect
<1>4. Len(out) = 9 /\ out = [j \in 1 .. 9 |-> out[j]]
  BY DEF I2OConnect
<1>5. /\ out[1] = V(1, "TunnelID")
      /\ out[2] = V(2, "SessionID")
      /\ out[3] = V(3, "TunnelType")
      /\ out[4] = V(4, "IsTCP")
      /\ out[5] = V(5, "IsCompressed")
      /\ out[6] = B(6, "Addr")
      /\ out[7] = B(7, "EncryptionMethod")
      /\ out[8] = B(8, "EncryptionKey")
      /\ out[9] = B(9, "ClientAddr")
  BY DEF I2OConnect
<1> HIDE DEF out
<1>6. \A j \in 1 .. 9 : j = 1 \/ j = 2 \/ j = 3 \/ j = 4 \/ j = 5 \/ j = 6 \/ j = 7 \/ j = 8 \/
      j = 9
  OBVIOUS
<1>7. WellTable(9, out, I2OConnect.in, Fields["I2OConnect"])
  <2>1. I2OConnect.in = {out[j] : j \in 1 .. 9}
    BY <1>3, <1>5, <1>6
  <2>2. \A j \in 1 .. 9 : out[j].num = j
    BY <1>5, <1>6 DEF V, B, Field
  <2>3. Fields["I2OConnect"] = {out[j].name : j \in 1 .. 9}
    BY <1>2, <1>5, <1>6 DEF V, B, Field
  <2>4. \A i, j \in 1 .. 9 : out[i].name = out[j].name => i = j
    BY <1>5, <1>6 DEF V, B, Field
  <2>5. \A j \in 1 .. 9 : out[j].nested = "none" \/ out[j].nested \in DOMAIN Codecs
    BY <1>5, <1>6 DEF V, B, Field, Codecs
  <2> QED BY <1>4, <2>1, <2>2, <2>3, <2>4, <2>5 DEF WellTable
<1> QED BY <1>1, <1>4, <1>7 DEF WellCoded, out

LEMMA O2IConnectCoded == WellCoded("O2IConnect")
<1> DEFINE out == O2IConnect.out
<1>1. Codecs["O2IConnect"] = O2IConnect
  BY DEF Codecs
<1>2. Fields["O2IConnect"] = {"TunnelID", "SessionID", "Success", "ErrorInfo"}
  BY DEF Fields, ControlFields, ProxyFields
<1>3. O2IConnect.in = {V(1, "TunnelID"), V(2, "SessionID"), V(3, "Success"), B(4, "ErrorInfo")}
  BY DEF O2IConnect
<1>4. Len(out) = 4 /\ out = [j \in 1 .. 4 |-> out[j]]
  BY DEF O2IConnect
<1>5. /\ out[1] = V(1, "TunnelID")
      /\ out[2] = V(2, "SessionID")
      /\ out[3] = V(3, "Success")
      /\ out[4] = B(4, "ErrorInfo")
  BY DEF O2IConnect
<1> HIDE DEF out
<1>6. \A j \in 1 .. 4 : j = 1 \/ j = 2 \/ j = 3 \/ j = 4
  OBVIOUS
<1>7. WellTable(4, out, O2IConnect.in, Fields["O2IConnect"])
  <2>1. O2IConnect.in = {out[j] : j \in 1 .. 4}
    BY <1>3, <1>5, <1>6
  <2>2. \A j \in 1 .. 4 : out[j].num = j
    BY <1>5, <1>6 DEF V, B, Field
  <2>3. Fields["O2IConnect"] = {out[j].name : j \in 1 .. 4}
    BY <1>2, <1>5, <1>6 DEF V, B, Field
  <2>4. \A i, j \in 1 .. 4 : out[i].name = out[j].name => i = j
    BY <1>5, <1>6 DEF V, B, Field
  <2>5. \A j \in 1 .. 4 : out[j].nested = "none" \/ out[j].nested \in DOMAIN Codecs
    BY <1>5, <1>6 DEF V, B, Field, Codecs
  <2> QED BY <1>4, <2>1, <2>2, <2>3, <2>4, <2>5 DEF WellTable
<1> QED BY <1>1, <1>4, <1>7 DEF WellCoded, out

LEMMA I2OSendDataCoded == WellCoded("I2OSendData")
<1> DEFINE out == I2OSendData.out
<1>1. Codecs["I2OSendData"] = I2OSendData
  BY DEF Codecs
<1>2. Fields["I2OSendData"] = {"TunnelID", "SessionID", "Data"}
  BY DEF Fields, ControlFields, ProxyFields
<1>3. I2OSendData.in = {V(1, "TunnelID"), V(2, "SessionID"), B(3, "Data")}
  BY DEF I2OSendData, BinaryTriplet
<1>4. Len(out) = 3 /\ out = [j \in 1 .. 3 |-> out[j]]
  BY DEF I2OSendData
<1>5. /\ out[1] = V(1, "TunnelID")
      /\ out[2] = V(2, "SessionID")
      /\ out[3] = B(3, "Data")
  BY DEF I2OSendData
<1> HIDE DEF out
<1>6. \A j \in 1 .. 3 : j = 1 \/ j = 2 \/ j = 3
  OBVIOUS
<1>7. WellTable(3, out, I2OSendData.in, Fields["I2OSendData"])
  <2>1. I2OSendData.in = {out[j] : j \in 1 .. 3}
    BY <1>3, <1>5, <1>6
  <2>2. \A j \in 1 .. 3 : out[j].num = j
    BY <1>5, <1>6 DEF V, B, Field
  <2>3. Fields["I2OSendData"] = {out[j].name : j \in 1 .. 3}
    BY <1>2, <1>5, <1>6 DEF V, B, Field
  <2>4. \A i, j \in 1 .. 3 : out[i].name = out[j].name => i = j
    BY <1>5, <1>6 DEF V, B, Field
  <2>5. \A j \in 1 .. 3 : out[j].nested = "none" \/ out[j].nested \in DOMAIN Codecs
    BY <1>5, <1>6 DEF V, B, Field, Codecs
  <2> QED BY <1>4, <2>1, <2>2, <2>3, <2>4, <2>5 DEF WellTable
<1> QED BY <1>1, <1>4, <1>7 DEF WellCoded, out

LEMMA O2IRecvDataCoded == WellCoded("O2IRecvData")
<1> DEFINE out == O2IRecvData.out
<1>1. Codecs["O2IRecvData"] = O2IRecvData
  BY DEF Codecs
<1>2. Fields["O2IRecvData"] = {"TunnelID", "SessionID", "Data"}
  BY DEF Fields, ControlFields, ProxyFields
<1>3. O2IRecvData.in = {V(1, "TunnelID"), V(2, "SessionID"), B(3, "Data")}
  BY DEF O2IRecvData, BinaryTriplet
<1>4. Len(out) = 3 /\ out = [j \in 1 .. 3 |-> out[j]]
  BY DEF O2IRecvData
<1>5. /\ out[1] = V(1, "TunnelID")
      /\ out[2] = V(2, "SessionID")
      /\ out[3] = B(3, "Data")
  BY DEF O2IRecvData
<1> HIDE DEF out
<1>6. \A j \in 1 .. 3 : j = 1 \/ j = 2 \/ j = 3
  OBVIOUS
<1>7. WellTable(3, out, O2IRecvData.in, Fields["O2IRecvData"])
  <2>1. O2IRecvData.in = {out[j] : j \in 1 .. 3}
    BY <1>3, <1>5, <1>6
  <2>2. \A j \in 1 .. 3 : out[j].num = j
    BY <1>5, <1>6 DEF V, B, Field
  <2>3. Fields["O2IRecvData"] = {out[j].name : j \in 1 .. 3}
    BY <1>2, <1>5, <1>6 DEF V, B, Field
  <2>4. \A i, j \in 1 .. 3 : out[i].name = out[j].name => i = j
    BY <1>5, <1>6 DEF V, B, Field
  <2>5. \A j \in 1 .. 3 : out[j].nested = "none" \/ out[j].nested \in DOMAIN Codecs
    BY <1>5, <1>6 DEF V, B, Field, Codecs
  <2> QED BY <1>4, <2>1, <2>2, <2>3, <2>4, <2>5 DEF WellTable
<1> QED BY <1>1, <1>4, <1>7 DEF WellCoded, out

LEMMA I2ODisconnectCoded == WellCoded("I2ODisconnect")
<1> DEFINE out == I2ODisconnect.out
<1>1. Codecs["I2ODisconnect"] = I2ODisconnect
  BY DEF Codecs
<1>2. Fields["I2ODisconnect"] = {"TunnelID", "SessionID"}
  BY DEF Fields, ControlFields, ProxyFields
<1>3. I2ODisconnect.in = {V(1, "TunnelID"), V(2, "SessionID")}
  BY DEF I2ODisconnect, Pair
<1>4. Len(out) = 2 /\ out = [j \in 1 .. 2 |-> out[j]]
  BY DEF I2ODisconnect
<1>5. /\ out[1] = V(1, "TunnelID")
      /\ out[2] = V(2, "SessionID")
  BY DEF I2ODisconnect
<1> HIDE DEF out
<1>6. \A j \in 1 .. 2 : j = 1 \/ j = 2
  OBVIOUS
<1>7. WellTable(2, out, I2ODisconnect.in, Fields["I2ODisconnect"])
  <2>1. I2ODisconnect.in = {out[j] : j \in 1 .. 2}
    BY <1>3, <1>5, <1>6
  <2>2. \A j \in 1 .. 2 : out[j].num = j
    BY <1>5, <1>6 DEF V, Field
  <2>3. Fields["I2ODisconnect"] = {out[j].name : j \in 1 .. 2}
    BY <1>2, <1>5, <1>6 DEF V, Field
  <2>4. \A i, j \in 1 .. 2 : out[i].name = out[j].name => i = j
    BY <1>5, <1>6 DEF V, Field
  <2>5. \A j \in 1 .. 2 : out[j].nested = "none" \/ out[j].nested \in DOMAIN Codecs
    BY <1>5, <1>6 DEF V, Field, Codecs
  <2> QED BY <1>4, <2>1, <2>2, <2>3, <2>4, <2>5 DEF WellTable
<1> QED BY <1>1, <1>4, <1>7 DEF WellCoded, out

LEMMA O2IDisconnectCoded == WellCoded("O2IDisconnect")
<1> DEFINE out == O2IDisconnect.out
<1>1. Codecs["O2IDisconnect"] = O2IDisconnect
  BY DEF Codecs
<1>2. Fields["O2IDisconnect"] = {"TunnelID", "SessionID"}
  BY DEF Fields, ControlFields, ProxyFields
<1>3. O2IDisconnect.in = {V(1, "TunnelID"), V(2, "SessionID")}
  BY DEF O2IDisconnect, Pair
<1>4. Len(out) = 2 /\ out = [j \in 1 .. 2 |-> out[j]]
  BY DEF O2IDisconnect
<1>5. /\ out[1] = V(1, "TunnelID")
      /\ out[2] = V(2, "SessionID")
  BY DEF O2IDisconnect
<1> HIDE DEF out
<1>6. \A j \in 1 .. 2 : j = 1 \/ j = 2
  OBVIOUS
<1>7. WellTable(2, out, O2IDisconnect.in, Fields["O2IDisconnect"])
  <2>1. O2IDisconnect.in = {out[j] : j \in 1 .. 2}
    BY <1>3, <1>5, <1>6
  <2>2. \A j \in 1 .. 2 : out[j].num = j
    BY <1>5, <1>6 DEF V, Field
  <2>3. Fields["O2IDisconnect"] = {out[j].name : j \in 1 .. 2}
    BY <1>2, <1>5, <1>6 DEF V, Field
  <2>4. \A i, j \in 1 .. 2 : out[i].name = out[j].name => i = j
    BY <1>5, <1>6 DEF V, Field
  <2>5. \A j \in 1 .. 2 : out[j].nested = "none" \/ out[j].nested \in DOMAIN Codecs
    BY <1>5, <1>6 DEF V, Field, Codecs
  <2> QED BY <1>4, <2>1, <2>2, <2>3, <2>4, <2>5 DEF WellTable
<1> QED BY <1>1, <1>4, <1>7 DEF WellCoded, out

LEMMA O2ISendDataResultCoded == WellCoded("O2ISendDataResult")
<1> DEFINE out == O2ISendDataResult.out
<1>1. Codecs["O2ISendDataResult"] = O2ISendDataResult
  BY DEF Codecs
<1>2. Fields["O2ISendDataResult"] = {"TunnelID", "SessionID", "DataLen"}
  BY DEF Fields, ControlFields, ProxyFields
<1>3. O2ISendDataResult.in = {V(1, "TunnelID"), V(2, "SessionID"), V(3, "DataLen")}
  BY DEF O2ISendDataResult, TripleUint32
<1>4. Len(out) = 3 /\ out = [j \in 1 .. 3 |-> out[j]]
  BY DEF O2ISendDataResult
<1>5. /\ out[1] = V(1, "TunnelID")
      /\ out[2] = V(2, "SessionID")
      /\ out[3] = V(3, "DataLen")
  BY DEF O2ISendDataResult
<1> HIDE DEF out
<1>6. \A j \in 1 .. 3 : j = 1 \/ j = 2 \/ j = 3
  OBVIOUS
<1>7. WellTable(3, out, O2ISendDataResult.in, Fields["O2ISendDataResult"])
  <2>1. O2ISendDataResult.in = {out[j] : j \in 1 .. 3}
    BY <1>3, <1>5, <1>6
  <2>2. \A j \in 1 .. 3 : out[j].num = j
    BY <1>5, <1>6 DEF V, Field
  <2>3. Fields["O2ISendDataResult"] = {out[j].name : j \in 1 .. 3}
    BY <1>2, <1>5, <1>6 DEF V, Field
  <2>4. \A i, j \in 1 .. 3 : out[i].name = out[j].name => i = j
    BY <1>5, <1>6 DEF V, Field
  <2>5. \A j \in 1 .. 3 : out[j].nested = "none" \/ out[j].nested \in DOMAIN Codecs
    BY <1>5, <1>6 DEF V, Field, Codecs
  <2> QED BY <1>4, <2>1, <2>2, <2>3, <2>4, <2>5 DEF WellTable
<1> QED BY <1>1, <1>4, <1>7 DEF WellCoded, out

LEMMA I2ORecvDataResultCoded == WellCoded("I2ORecvDataResult")
<1> DEFINE out == I2ORecvDataResult.out
<1>1. Codecs["I2ORecvDataResult"] = I2ORecvDataResult
  BY DEF Codecs
<1>2. Fields["I2ORecvDataResult"] = {"TunnelID", "SessionID", "DataLen"}
  BY DEF Fields, ControlFields, ProxyFields
<1>3. I2ORecvDataResult.in = {V(1, "TunnelID"), V(2, "SessionID"), V(3, "DataLen")}
  BY DEF I2ORecvDataResult, TripleUint32
<1>4. Len(out) = 3 /\ out = [j \in 1 .. 3 |-> out[j]]
  BY DEF I2ORecvDataResult
<1>5. /\ out[1] = V(1, "TunnelID")
      /\ out[2] = V(2, "SessionID")
      /\ out[3] = V(3, "DataLen")
  BY DEF I2ORecvDataResult
<1> HIDE DEF out
<1>6. \A j \in 1 .. 3 : j = 1 \/ j = 2 \/ j = 3
  OBVIOUS
<1>7. WellTable(3, out, I2ORecvDataResult.in, Fields["I2ORecvDataResult"])
  <2>1. I2ORecvDataResult.in = {out[j] : j \in 1 .. 3}
    BY <1>3, <1>5, <1>6
  <2>2. \A j \in 1 .. 3 : out[j].num = j
    BY <1>5, <1>6 DEF V, Field
  <2>3. Fields["I2ORecvDataResult"] = {out[j].name : j \in 1 .. 3}
    BY <1>2, <1>5, <1>6 DEF V, Field
  <2>4. \A i, j \in 1 .. 3 : out[i].name = out[j].name => i = j
    BY <1>5, <1>6 DEF V, Field
  <2>5. \A j \in 1 .. 3 : out[j].nested = "none" \/ out[j].nested \in DOMAIN Codecs
    BY <1>5, <1>6 DEF V, Field, Codecs
  <2> QED BY <1>4, <2>1, <2>2, <2>3, <2>4, <2>5 DEF WellTable
<1> QED BY <1>1, <1>4, <1>7 DEF WellCoded, out

LEMMA I2OSendToDataCoded == WellCoded("I2OSendToData")
<1> DEFINE out == I2OSendToData.out
<1>1. Codecs["I2OSendToData"] = I2OSendToData
  BY DEF Codecs
<1>2. Fields["I2OSendToData"] = {"TunnelID", "SessionID", "Data", "TargetAddr"}
  BY DEF Fields, ControlFields, ProxyFields
<1>3. I2OSendToData.in = {V(1, "TunnelID"), V(2, "SessionID"), B(3, "Data"), B(4, "TargetAddr")}
  BY DEF I2OSendToData
<1>4. Len(out) = 4 /\ out = [j \in 1 .. 4 |-> out[j]]
  BY DEF I2OSendToData
<1>5. /\ out[1] = V(1, "TunnelID")
      /\ out[2] = V(2, "SessionID")
      /\ out[3] = B(3, "Data")
      /\ out[4] = B(4, "TargetAddr")
  BY DEF I2OSendToData
<1> HIDE DEF out
<1>6. \A j \in 1 .. 4 : j = 1 \/ j = 2 \/ j = 3 \/ j = 4
  OBVIOUS
<1>7. WellTable(4, out, I2OSendToData.in, Fields["I2OSendToData"])
  <2>1. I2OSendToData.in = {out[j] : j \in 1 .. 4}
    BY <1>3, <1>5, <1>6
  <2>2. \A j \in 1 .. 4 : out[j].num = j
    BY <1>5, <1>6 DEF V, B, Field
  <2>3. Fields["I2OSendToData"] = {out[j].name : j \in 1 .. 4}
    BY <1>2, <1>5, <1>6 DEF V, B, Field
  <2>4. \A i, j \in 1 .. 4 : out[i].name = out[j].name => i = j
    BY <1>5, <1>6 DEF V, B, Field
  <2>5. \A j \in 1 .. 4 : out[j].nested = "none" \/ out[j].nested \in DOMAIN Codecs
    BY <1>5, <1>6 DEF V, B, Field, Codecs
  <2> QED BY <1>4, <2>1, <2>2, <2>3, <2>4, <2>5 DEF WellTable
<1> QED BY <1>1, <1>4, <1>7 DEF WellCoded, out

LEMMA O2IRecvDataFromCoded == WellCoded("O2IRecvDataFrom")
<1> DEFINE out == O2IRecvDataFrom.out
<1>1. Codecs["O2IRecvDataFrom"] = O2IRecvDataFrom
  BY DEF Codecs
<1>2. Fields["O2IRecvDataFrom"] = {"TunnelID", "SessionID", "Data", "RemoteAddr"}
  BY DEF Fields, ControlFields, ProxyFields
<1>3. O2IRecvDataFrom.in = {V(1, "TunnelID"), V(2, "SessionID"), B(3, "Data"), B(4,
             "RemoteAddr")}
  BY DEF O2IRecvDataFrom
<1>4. Len(out) = 4 /\ out = [j \in 1 .. 4 |-> out[j]]
  BY DEF O2IRecvDataFrom
<1>5. /\ out[1] = V(1, "TunnelID")
      /\ out[2] = V(2, "SessionID")
      /\ out[3] = B(3, "Data")
      /\ out[4] = B(4, "RemoteAddr")
  BY DEF O2IRecvDataFrom
<1> HIDE DEF out
<1>6. \A j \in 1 .. 4 : j = 1 \/ j = 2 \/ j = 3 \/ j = 4
  OBVIOUS
<1>7. WellTable(4, out, O2IRecvDataFrom.in, Fields["O2IRecvDataFrom"])
  <2>1. O2IRecvDataFrom.in = {out[j] : j \in 1 .. 4}
    BY <1>3, <1>5, <1>6
  <2>2. \A j \in 1 .. 4 : out[j].num = j
    BY <1>5, <1>6 DEF V, B, Field
  <2>3. Fields["O2IRecvDataFrom"] = {out[j].name : j \in 1 .. 4}
    BY <1>2, <1>5, <1>6 DEF V, B, Field
  <2>4. \A i, j \in 1 .. 4 : out[i].name = out[j].name => i = j
    BY <1>5, <1>6 DEF V, B, Field
  <2>5. \A j \in 1 .. 4 : out[j].nested = "none" \/ out[j].nested \in DOMAIN Codecs
    BY <1>5, <1>6 DEF V, B, Field, Codecs
  <2> QED BY <1>4, <2>1, <2>2, <2>3, <2>4, <2>5 DEF WellTable
<1> QED BY <1>1, <1>4, <1>7 DEF WellCoded, out

LEMMA AllCoded == \A type \in DOMAIN Codecs : WellCoded(type)
<1>1. DOMAIN Codecs = {"LoginReq", "RegisterReq", "LoginAck", "ModifyTunnelNtf",
         "TunnelRuntimeReport", "UpgradeOffer", "UpgradeChunk", "UpgradeStatusReport",
         "TunnelPoint", "Tunnel", "MapEntry", "Success", "Error", "Ping", "Pong", "I2OConnect",
         "O2IConnect", "I2OSendData", "O2IRecvData", "I2ODisconnect", "O2IDisconnect",
         "O2ISendDataResult", "I2ORecvDataResult", "I2OSendToData", "O2IRecvDataFrom"}
  BY DEF Codecs
<1> QED BY <1>1, LoginReqCoded, RegisterReqCoded, LoginAckCoded, ModifyTunnelNtfCoded,
           TunnelRuntimeReportCoded, UpgradeOfferCoded, UpgradeChunkCoded,
           UpgradeStatusReportCoded, TunnelPointCoded, TunnelCoded, MapEntryCoded, SuccessCoded,
           ErrorCoded, PingCoded, PongCoded, I2OConnectCoded, O2IConnectCoded, I2OSendDataCoded,
           O2IRecvDataCoded, I2ODisconnectCoded, O2IDisconnectCoded, O2ISendDataResultCoded,
           I2ORecvDataResultCoded, I2OSendToDataCoded, O2IRecvDataFromCoded

-----------------------------------------------------------------------------
\* The cells of one field, and how they are read back

\* The cells of one field whose nested messages are encoded as p
PartOf(f, v, p) ==
    IF f.nested = "none"
    THEN IF v = Zero THEN <<>> ELSE <<[num |-> f.num, kind |-> f.kind, val |-> v]>>
    ELSE [k \in 1 .. Len(v) |-> [num |-> f.num, kind |-> f.kind, sub |-> p[k]]]

\* A list of elements of T is a sequence over T.
LEMMA ListIn ==
  ASSUME NEW n \in Nat, NEW s, NEW T, s = [k \in 1 .. n |-> s[k]], \A k \in 1 .. n : s[k] \in T
  PROVE  s \in Seq(T) /\ Len(s) = n
<1>1. s \in [1 .. n -> T]
  <2> DEFINE g == [k \in 1 .. n |-> s[k]]
  <2>1. g \in [1 .. n -> T]
    OBVIOUS
  <2> QED BY <2>1
<1> QED BY <1>1, SeqDef, LenProperties

\* The cells of a list of nested messages encoded as p: empty ones are left out
Wrapped(f, n, p) ==
    [k \in 1 .. n |-> IF p[k] = <<>> THEN <<>> ELSE <<[num |-> f.num, kind |-> f.kind, sub |-> p[k]]>>]
Subs(f, n, p) == [k \in 1 .. n |-> [num |-> f.num, kind |-> f.kind, sub |-> p[k]]]

\* The cells of nested messages are one for each of them.
LEMMA NestedCells ==
  ASSUME NEW f, NEW n \in Nat, NEW p, \A k \in 1 .. n : p[k] # <<>>
  PROVE  FlattenSeq(Wrapped(f, n, p)) = Subs(f, n, p)
<1> DEFINE cell(k) == [num |-> f.num, kind |-> f.kind, sub |-> p[k]]
           w == [k \in 1 .. n |-> cell(k)]
           T == {cell(k) : k \in 1 .. n}
           m == [k \in 1 .. n |-> IF p[k] = <<>> THEN <<>> ELSE <<cell(k)>>]
<1>1. w \in Seq(T) /\ Len(w) = n
  <2>1. w = [k \in 1 .. n |-> w[k]] /\ \A k \in 1 .. n : w[k] \in T
    <3> HIDE DEF cell
    <3> QED OBVIOUS
  <2> HIDE DEF w, T
  <2> QED BY <2>1, ListIn
<1>2. m = Ones(w)
  <2> HIDE DEF cell
  <2>1. \A k \in 1 .. n : w[k] = cell(k)
    OBVIOUS
  <2>2. Ones(w) = [k \in 1 .. n |-> <<w[k]>>]
    BY <1>1 DEF Ones
  <2> HIDE DEF w
  <2> QED BY <2>1, <2>2
<1>3. FlattenSeq(m) = w
  <2> HIDE DEF m, w, T
  <2> QED BY <1>1, <1>2, FlattenOnes
<1>4. m = Wrapped(f, n, p) /\ w = Subs(f, n, p)
  BY DEF Wrapped, Subs
<1> HIDE DEF m, w
<1> QED BY <1>3, <1>4

Numbered(parts, n) ==
    /\ n \in Nat /\ parts = [j \in 1 .. n |-> parts[j]]
    /\ \A j \in 1 .. n : Len(parts[j]) \in Nat /\ parts[j] = [k \in 1 .. Len(parts[j]) |-> parts[j][k]]
    /\ \A j \in 1 .. n : \A k \in 1 .. Len(parts[j]) : parts[j][k].num = j

\* Numbered parts are sequences of cells.
LEMMA NumberedType ==
  ASSUME NEW parts, NEW n, Numbered(parts, n)
  PROVE  \E T : parts \in Seq(Seq(T)) /\ Len(parts) = n
<1> DEFINE T == UNION {{parts[j][k] : k \in 1 .. Len(parts[j])} : j \in 1 .. n}
<1>1. ASSUME NEW j \in 1 .. n PROVE parts[j] \in Seq(T)
  <2>1. \A k \in 1 .. Len(parts[j]) : parts[j][k] \in T
    OBVIOUS
  <2>2. Len(parts[j]) \in Nat /\ parts[j] = [k \in 1 .. Len(parts[j]) |-> parts[j][k]]
    BY DEF Numbered
  <2> DEFINE s == parts[j]  l == Len(s)
  <2>3. l \in Nat /\ s = [k \in 1 .. l |-> s[k]] /\ \A k \in 1 .. l : s[k] \in T
    BY <2>1, <2>2
  <2> HIDE DEF T, l, s
  <2>4. s \in Seq(T)
    BY <2>3, ListIn
  <2> QED BY <2>4 DEF s
<1>2. n \in Nat /\ parts = [j \in 1 .. n |-> parts[j]]
  BY DEF Numbered
<1> HIDE DEF T
<1>3. parts \in Seq(Seq(T)) /\ Len(parts) = n
  BY <1>1, <1>2, ListIn
<1> QED BY <1>3

\* The cell of a number is found in the part of that number only.
LEMMA Placed ==
  ASSUME NEW parts, NEW n, NEW j \in 1 .. n, Numbered(parts, n)
  PROVE  \E a \in Nat, b \in Nat :
           /\ Len(FlattenSeq(parts)) = a + Len(parts[j]) + b
           /\ DOMAIN FlattenSeq(parts) = 1 .. Len(FlattenSeq(parts))
           /\ FlattenSeq(parts) = [k \in 1 .. Len(FlattenSeq(parts)) |-> FlattenSeq(parts)[k]]
           /\ \A k \in 1 .. Len(parts[j]) : FlattenSeq(parts)[a + k] = parts[j][k]
           /\ \A k \in 1 .. Len(FlattenSeq(parts)) :
                k <= a \/ k > a + Len(parts[j]) => FlattenSeq(parts)[k].num # j
<1>1. PICK T : parts \in Seq(Seq(T)) /\ Len(parts) = n
  BY NumberedType
<1>2. FlattenSeq(parts) \in Seq(T)
  BY <1>1, FlattenType
<1>3. DOMAIN FlattenSeq(parts) = 1 .. Len(FlattenSeq(parts))
      /\ FlattenSeq(parts) = [k \in 1 .. Len(FlattenSeq(parts)) |-> FlattenSeq(parts)[k]]
  BY <1>2, LenProperties
<1>4. \A i \in 1 .. Len(parts) : \A k \in 1 .. Len(parts[i]) : parts[i][k].num = i
  BY <1>1 DEF Numbered
<1>5. j \in 1 .. Len(parts)
  BY <1>1
<1> DEFINE c == FlattenSeq(parts)
<1>6. \E a \in Nat, b \in Nat :
        /\ Len(c) = a + Len(parts[j]) + b
        /\ \A k \in 1 .. Len(parts[j]) : c[a + k] = parts[j][k]
        /\ \A k \in 1 .. Len(c) : k <= a \/ k > a + Len(parts[j]) => c[k].num # j
  BY <1>1, <1>4, <1>5, PartPlace
<1> HIDE DEF c
<1> QED BY <1>3, <1>6 DEF c

\* A field that is no list is read from its last cell.
LEMMA ReadLast ==
  ASSUME NEW parts, NEW n, NEW j \in 1 .. n, Numbered(parts, n)
  PROVE  LET cells == FlattenSeq(parts)
         IN  /\ (\A k \in DOMAIN cells : cells[k].num # j) <=> Len(parts[j]) = 0
             /\ Len(parts[j]) # 0 => LastOf(cells, j) = parts[j][Len(parts[j])]
<1> DEFINE cells == FlattenSeq(parts)
           l == Len(parts[j])
<1>1. PICK a \in Nat, b \in Nat :
           /\ Len(cells) = a + l + b
           /\ DOMAIN cells = 1 .. Len(cells)
           /\ cells = [k \in 1 .. Len(cells) |-> cells[k]]
           /\ \A k \in 1 .. l : cells[a + k] = parts[j][k]
           /\ \A k \in 1 .. Len(cells) : k <= a \/ k > a + l => cells[k].num # j
  BY Placed
<1>2. l \in Nat /\ n \in Nat /\ \A k \in 1 .. l : parts[j][k].num = j
  BY DEF Numbered
<1> HIDE DEF cells, l
<1>3. ASSUME NEW k \in DOMAIN cells, cells[k].num = j PROVE k > a /\ k <= a + l
  BY <1>1, <1>3, <1>2
<1>4. ASSUME l # 0 PROVE a + l \in DOMAIN cells /\ cells[a + l] = parts[j][l] /\ cells[a + l].num = j
  <2>1. l \in 1 .. l /\ a + l \in 1 .. Len(cells)
    BY <1>1, <1>2, <1>4
  <2> QED BY <2>1, <1>1, <1>2
<1>5. (\A k \in DOMAIN cells : cells[k].num # j) <=> l = 0
  <2>1. ASSUME l = 0, NEW k \in DOMAIN cells, cells[k].num = j PROVE FALSE
    BY <2>1, <1>1, <1>3
  <2> QED BY <2>1, <1>4
<1>6. ASSUME l # 0 PROVE LastOf(cells, j) = parts[j][l]
  <2> DEFINE Is(k) == cells[k].num = j /\ \A i \in DOMAIN cells : cells[i].num = j => i <= k
  <2>1. a + l \in DOMAIN cells /\ Is(a + l)
    BY <1>3, <1>4, <1>6
  <2>2. ASSUME NEW k \in DOMAIN cells, Is(k) PROVE k = a + l
    <3>1. a + l <= k
      BY <2>1, <2>2
    <3>2. k <= a + l
      BY <1>3, <2>2
    <3>3. k \in Nat
      BY <1>1, <1>2
    <3> QED BY <3>1, <3>2, <3>3, <1>2
  <2>3. (CHOOSE k \in DOMAIN cells : Is(k)) = a + l
    <3> HIDE DEF Is
    <3> QED BY <2>1, <2>2
  <2> QED BY <2>3, <1>4, <1>6 DEF LastOf
<1> QED BY <1>5, <1>6 DEF cells, l

\* Entry k of q stands for cell k: those of field j, in order
Picked(cells, q, j) == [k \in 1 .. Len(cells) |-> IF cells[k].num = j THEN <<q[k]>> ELSE <<>>]

\* A list is read from all its cells, in their order.
LEMMA ReadList ==
  ASSUME NEW parts, NEW n, NEW j \in 1 .. n, NEW v, NEW q, Numbered(parts, n),
         Len(v) = Len(parts[j]), IsList(v),
         \A k \in 1 .. Len(FlattenSeq(parts)) : \A i \in 1 .. Len(v) :
                  FlattenSeq(parts)[k] = parts[j][i] => q[k] = v[i]
  PROVE  FlattenSeq(Picked(FlattenSeq(parts), q, j)) = v
<1> DEFINE cells == FlattenSeq(parts)
           N == Len(cells)
           l == Len(v)
           T == {v[k] : k \in 1 .. l}
           m == [k \in 1 .. N |-> IF cells[k].num = j THEN <<q[k]>> ELSE <<>>]
<1>1. PICK a \in Nat, b \in Nat :
           /\ N = a + l + b
           /\ \A k \in 1 .. l : cells[a + k] = parts[j][k]
           /\ \A k \in 1 .. N : k <= a \/ k > a + l => cells[k].num # j
  BY Placed
<1>2. l \in Nat /\ \A k \in 1 .. l : parts[j][k].num = j
  BY DEF Numbered
<1>3. v \in Seq(T)
  <2>1. \A k \in 1 .. l : v[k] \in T
    OBVIOUS
  <2> HIDE DEF T
  <2>2. v = [k \in 1 .. l |-> v[k]]
    BY DEF IsList
  <2> HIDE DEF l
  <2> QED BY <1>2, <2>1, <2>2, ListIn
<1>4. \A k \in 1 .. N : \A i \in 1 .. l : cells[k] = parts[j][i] => q[k] = v[i]
  OBVIOUS
<1> HIDE DEF cells, l, N
<1>5. ASSUME NEW k \in 1 .. l PROVE a + k \in 1 .. N /\ m[a + k] = <<v[k]>> /\ v[k] \in T
  <2>1. a + k \in 1 .. N
    BY <1>1, <1>2
  <2>2. cells[a + k] = parts[j][k] /\ cells[a + k].num = j
    BY <1>1, <1>2
  <2>3. q[a + k] = v[k]
    BY <2>1, <2>2, <1>4
  <2> QED BY <2>1, <2>2, <2>3
<1>6. ASSUME NEW k \in 1 .. N, k <= a \/ k > a + l PROVE m[k] = <<>>
  BY <1>1, <1>6
<1>7. m \in Seq(Seq(T)) /\ Len(m) = N
  <2>1. ASSUME NEW k \in 1 .. N PROVE m[k] \in Seq(T)
    <3>1. CASE k <= a \/ k > a + l
      BY <3>1, <1>6, EmptySeq
    <3>2. CASE ~(k <= a \/ k > a + l)
      <4>1. PICK i \in 1 .. l : k = a + i
        <5>1. k - a \in 1 .. l /\ k = a + (k - a)
          BY <3>2, <1>1, <1>2
        <5> QED BY <5>1
      <4> HIDE DEF m, T
      <4>2. m[k] = <<v[i]>> /\ v[i] \in T
        BY <4>1, <1>5
      <4> QED BY <4>2
    <3> QED BY <3>1, <3>2
  <2>2. m = [k \in 1 .. N |-> m[k]] /\ N \in Nat
    BY <1>1, <1>2
  <2> HIDE DEF m, T
  <2> QED BY <2>1, <2>2, ListIn
<1>8. FlattenSeq(m) = v
  <2>1. (\A k \in 1 .. Len(v) : m[a + k] = <<v[k]>>) /\ Len(m) = a + Len(v) + b
        /\ (\A k \in 1 .. Len(m) : k <= a \/ k > a + Len(v) => m[k] = <<>>)
    <3> HIDE DEF m
    <3> QED BY <1>1, <1>5, <1>6, <1>7 DEF l
  <2> HIDE DEF m, T
  <2> QED BY <2>1, <1>3, <1>7, FlattenMapped
<1>9. m = Picked(FlattenSeq(parts), q, j)
  BY DEF Picked, cells, N
<1> HIDE DEF m
<1> QED BY <1>8, <1>9

-----------------------------------------------------------------------------
\* One level of nesting after another: pairs, tunnels, messages

PartsOf(type, has, pay) ==
    [j \in 1 .. Len(Codecs[type].out) |->
       PartOf(Codecs[type].out[j], has[Codecs[type].out[j].name], pay[j])]

Lists(type, has) ==
    \A i \in 1 .. Len(Codecs[type].out) :
      Codecs[type].out[i].nested # "none" => IsList(has[Codecs[type].out[i].name])

\* The parts of a message are numbered as its fields are.
LEMMA PartsNumbered ==
  ASSUME NEW type \in DOMAIN Codecs, NEW has, NEW pay, Lists(type, has)
  PROVE  /\ Numbered(PartsOf(type, has, pay), Len(Codecs[type].out))
         /\ \A j \in 1 .. Len(Codecs[type].out) :
              PartsOf(type, has, pay)[j] = PartOf(Codecs[type].out[j], has[Codecs[type].out[j].name], pay[j])
<1> DEFINE out == Codecs[type].out
           n == Len(out)
           parts == PartsOf(type, has, pay)
<1>1. n \in Nat /\ \A j \in 1 .. n : out[j].num = j
  BY AllCoded DEF WellCoded, WellTable
<1>2. \A j \in 1 .. n : parts[j] = PartOf(out[j], has[out[j].name], pay[j])
  BY DEF PartsOf
<1>3. parts = [j \in 1 .. n |-> parts[j]]
  BY DEF PartsOf
<1> HIDE DEF out, n, parts
<1>4. ASSUME NEW j \in 1 .. n
      PROVE  /\ Len(parts[j]) \in Nat /\ parts[j] = [k \in 1 .. Len(parts[j]) |-> parts[j][k]]
             /\ \A k \in 1 .. Len(parts[j]) : parts[j][k].num = j
  <2> DEFINE v == has[out[j].name]
  <2>0. parts[j] = PartOf(out[j], v, pay[j]) /\ out[j].num = j
    BY <1>1, <1>2
  <2>1. CASE out[j].nested = "none" /\ v = Zero
    <3>1. parts[j] = <<>>
      BY <2>0, <2>1 DEF PartOf
    <3> QED BY <3>1
  <2>2. CASE out[j].nested = "none" /\ v # Zero
    <3> DEFINE c == [num |-> out[j].num, kind |-> out[j].kind, val |-> v]
    <3>1. parts[j] = <<c>>
      BY <2>0, <2>2 DEF PartOf
    <3>2. c.num = j
      BY <2>0
    <3> HIDE DEF c
    <3> QED BY <3>1, <3>2
  <2>3. CASE out[j].nested # "none"
    <3>1. Len(v) \in Nat
      BY <2>3 DEF Lists, IsList, out, n
    <3>2. parts[j] = [k \in 1 .. Len(v) |-> [num |-> out[j].num, kind |-> out[j].kind, sub |-> pay[j][k]]]
      BY <2>0, <2>3 DEF PartOf
    <3> DEFINE l == Len(v)
               c(k) == [num |-> out[j].num, kind |-> out[j].kind, sub |-> pay[j][k]]
    <3>3. \A k \in 1 .. l : c(k).num = j
      BY <2>0
    <3>4. parts[j] = [k \in 1 .. l |-> c(k)] /\ l \in Nat
      BY <3>1, <3>2
    <3> HIDE DEF c, l
    <3>5. Len(parts[j]) = l /\ \A k \in 1 .. l : parts[j][k] = c(k)
      BY <3>4
    <3> QED BY <3>3, <3>4, <3>5
  <2> QED BY <2>1, <2>2, <2>3
<1>5. Numbered(parts, n)
  BY <1>1, <1>3, <1>4 DEF Numbered
<1> QED BY <1>2, <1>5 DEF parts, out, n

\* What the decoder finds of field j in the cells of a message that holds v in it
Finds(cells, f, v, j, p) ==
    /\ f.num = j
    /\ (\A k \in DOMAIN cells : cells[k].num # j) <=> v = Zero
    /\ f.nested = "none" /\ v # Zero => LastOf(cells, j).val = v
    /\ f.nested # "none" /\ v # Zero => Len(v) # 0 /\ LastOf(cells, j).sub = p[Len(v)]

\* A field is found unless it is zero.
LEMMA FieldFound ==
  ASSUME NEW type \in DOMAIN Codecs, NEW has, NEW pay, NEW j \in 1 .. Len(Codecs[type].out), Lists(type, has)
  PROVE  Finds(FlattenSeq(PartsOf(type, has, pay)), Codecs[type].out[j], has[Codecs[type].out[j].name], j, pay[j])
<1> DEFINE out == Codecs[type].out
           n == Len(out)
           parts == PartsOf(type, has, pay)
           cells == FlattenSeq(parts)
           f == out[j]
           v == has[f.name]
<1>1. f.num = j
  BY AllCoded DEF WellCoded, WellTable
<1>2. Numbered(parts, n) /\ parts[j] = PartOf(f, v, pay[j])
  BY PartsNumbered
<1>3. /\ (\A k \in DOMAIN cells : cells[k].num # j) <=> Len(parts[j]) = 0
      /\ Len(parts[j]) # 0 => LastOf(cells, j) = parts[j][Len(parts[j])]
  <2> HIDE DEF parts
  <2> QED BY <1>2, ReadLast
<1>4. f.nested # "none" => IsList(v)
  BY DEF Lists
<1> HIDE DEF Finds, f, v, cells, parts
<1>5. CASE f.nested = "none" /\ v = Zero
  <2>1. parts[j] = <<>>
    BY <1>2, <1>5 DEF PartOf
  <2>2. Len(parts[j]) = 0
    BY <2>1
  <2> QED BY <1>1, <1>3, <1>5, <2>2 DEF Finds, f, v, cells, parts
<1>6. CASE f.nested = "none" /\ v # Zero
  <2> DEFINE c == [num |-> f.num, kind |-> f.kind, val |-> v]
  <2>1. parts[j] = <<c>> /\ c.val = v
    BY <1>2, <1>6 DEF PartOf
  <2> HIDE DEF c
  <2>2. Len(parts[j]) = 1 /\ parts[j][1] = c
    BY <2>1
  <2>3. LastOf(cells, j) = c
    BY <2>2, <1>3
  <2> QED BY <1>1, <1>3, <1>6, <2>1, <2>2, <2>3 DEF Finds, f, v, cells, parts
<1>7. CASE f.nested # "none"
  <2> DEFINE l == Len(v)
             c(k) == [num |-> f.num, kind |-> f.kind, sub |-> pay[j][k]]
  <2>1. l \in Nat /\ v = [k \in 1 .. l |-> v[k]]
    BY <1>4, <1>7 DEF IsList
  <2>2. parts[j] = [k \in 1 .. l |-> c(k)]
    BY <1>2, <1>7 DEF PartOf
  <2>3. \A k \in 1 .. l : c(k).sub = pay[j][k]
    OBVIOUS
  <2>4. v = Zero <=> l = 0
    <3>1. v = Zero => l = 0
      BY DEF Zero
    <3>2. ASSUME l = 0 PROVE v = Zero
      <4>1. v = [k \in 1 .. 0 |-> v[k]]
        BY <2>1, <3>2
      <4>2. [k \in 1 .. 0 |-> v[k]] = <<>>
        OBVIOUS
      <4> QED BY <4>1, <4>2 DEF Zero
    <3> QED BY <3>1, <3>2
  <2> HIDE DEF c, l
  <2>5. Len(parts[j]) = l /\ \A k \in 1 .. l : parts[j][k] = c(k)
    BY <2>1, <2>2
  <2>6. l # 0 => LastOf(cells, j).sub = pay[j][l]
    <3>1. l # 0 => l \in 1 .. l
      BY <2>1
    <3> QED BY <3>1, <2>3, <2>5, <1>3
  <2> QED BY <1>1, <1>3, <1>7, <2>4, <2>5, <2>6 DEF Finds, f, v, cells, parts, l
<1> QED BY <1>5, <1>6, <1>7

\* Entry k of q is the value of the list v that cell k was made from
Answers(cells, p, q, v) ==
    \A k \in 1 .. Len(cells) : \A i \in 1 .. Len(v) : cells[k].sub = p[i] => q[k] = v[i]

\* A list is found unless it is empty.
LEMMA ListFound ==
  ASSUME NEW type \in DOMAIN Codecs, NEW has, NEW pay, NEW j \in 1 .. Len(Codecs[type].out), NEW q,
         Lists(type, has), Codecs[type].out[j].nested # "none",
         Answers(FlattenSeq(PartsOf(type, has, pay)), pay[j], q, has[Codecs[type].out[j].name])
  PROVE  FlattenSeq(Picked(FlattenSeq(PartsOf(type, has, pay)), q, j)) = has[Codecs[type].out[j].name]
<1> DEFINE out == Codecs[type].out
           n == Len(out)
           parts == PartsOf(type, has, pay)
           cells == FlattenSeq(parts)
           f == out[j]
           v == has[f.name]
           l == Len(v)
           c(k) == [num |-> f.num, kind |-> f.kind, sub |-> pay[j][k]]
<1>1. Numbered(parts, n) /\ parts[j] = PartOf(f, v, pay[j])
  BY PartsNumbered
<1>2. l \in Nat /\ v = [k \in 1 .. l |-> v[k]]
  BY DEF Lists, IsList
<1>3. parts[j] = [k \in 1 .. l |-> c(k)]
  BY <1>1 DEF PartOf
<1>4. \A k \in 1 .. l : c(k).sub = pay[j][k]
  OBVIOUS
<1>5. \A k \in 1 .. Len(cells) : \A i \in 1 .. l : cells[k].sub = pay[j][i] => q[k] = v[i]
  BY DEF Answers
<1>6. j \in 1 .. n
  OBVIOUS
<1> HIDE DEF c, l, v, f, cells, parts, n
<1>7. Len(parts[j]) = l /\ \A k \in 1 .. l : parts[j][k] = c(k)
  BY <1>2, <1>3
<1>8. \A k \in 1 .. Len(FlattenSeq(parts)) : \A i \in 1 .. Len(v) :
        FlattenSeq(parts)[k] = parts[j][i] => q[k] = v[i]
  BY <1>4, <1>5, <1>7 DEF cells, l
<1>9. Len(v) = Len(parts[j]) /\ IsList(v)
  BY <1>2, <1>7 DEF l, IsList
<1>10. FlattenSeq(Picked(FlattenSeq(parts), q, j)) = v
  BY <1>1, <1>6, <1>8, <1>9, ReadList
<1> QED BY <1>10 DEF parts, v, f

\* unmarshal knows every field that marshal writes.
LEMMA KnownField ==
  ASSUME NEW type \in DOMAIN Codecs, NEW name \in Fields[type]
  PROVE  \E j \in 1 .. Len(Codecs[type].out) :
           /\ Codecs[type].out[j].name = name
           /\ {f \in Codecs[type].in : f.name = name} = {Codecs[type].out[j]}
<1> DEFINE out == Codecs[type].out
           n == Len(out)
<1>1. /\ Codecs[type].in = {out[j] : j \in 1 .. n}
      /\ Fields[type] = {out[j].name : j \in 1 .. n}
      /\ \A i, j \in 1 .. n : out[i].name = out[j].name => i = j
  BY AllCoded DEF WellCoded, WellTable
<1> HIDE DEF out, n
<1>2. PICK j \in 1 .. n : out[j].name = name
  BY <1>1
<1>3. {f \in Codecs[type].in : f.name = name} = {out[j]}
  BY <1>1, <1>2
<1> QED BY <1>2, <1>3 DEF out, n

\* Whole messages: proper ones in which no nested message is blank
WholeWith(Inner(_, _), type, has) ==
    /\ has = [n \in Fields[type] |-> has[n]]
    /\ \A f \in Codecs[type].in : f.nested # "none" =>
         /\ IsList(has[f.name]) /\ (f.name \in Repeated \/ Len(has[f.name]) <= 1)
         /\ \A k \in 1 .. Len(has[f.name]) :
              /\ \E n \in Fields[f.nested] : has[f.name][k][n] # Zero
              /\ Inner(f.nested, has[f.name][k])

WholeFlat(type, has) == WholeWith(Nested, type, has)
WholeTunnel(type, has) == WholeWith(WholeFlat, type, has)
Whole(type, has) == WholeWith(WholeTunnel, type, has)

\* A message without nested ones is read as it was written.
LEMMA FlatLevel ==
  ASSUME NEW type \in DOMAIN Codecs, NEW has, WholeFlat(type, has)
  PROVE  /\ UnmarshalFlat(type, MarshalFlat(type, has)) = has
         /\ (\E name \in Fields[type] : has[name] # Zero) => MarshalFlat(type, has) # <<>>
         /\ IsList(MarshalFlat(type, has))
<1> DEFINE out == Codecs[type].out
           n == Len(out)
           v(j) == has[out[j].name]
           pay == [j \in 1 .. n |-> [k \in 1 .. Len(v(j)) |-> Nothing(out[j].nested, v(j)[k])]]
           parts == PartsOf(type, has, pay)
           cells == FlattenSeq(parts)
           last(f) == LastOf(cells, f.num)
           read(f) == IF \A k \in DOMAIN cells : cells[k].num # f.num THEN Zero
                      ELSE IF f.nested = "none" THEN last(f).val
                      ELSE IF f.name \in Repeated
                           THEN FlattenSeq([k \in 1 .. Len(cells) |->
                                  IF cells[k].num = f.num THEN <<Nothing(f.nested, cells[k].sub)>> ELSE <<>>])
                      ELSE <<Nothing(f.nested, last(f).sub)>>
<1>1. n \in Nat /\ Codecs[type].in = {out[j] : j \in 1 .. n}
      /\ \A j \in 1 .. n : out[j].nested = "none" \/ out[j].nested \in DOMAIN Codecs
  BY AllCoded DEF WellCoded, WellTable
<1>2. ASSUME NEW j \in 1 .. n, out[j].nested # "none"
      PROVE  /\ IsList(v(j)) /\ (out[j].name \in Repeated \/ Len(v(j)) <= 1)
             /\ \A k \in 1 .. Len(v(j)) :
                  (\E name \in Fields[out[j].nested] : v(j)[k][name] # Zero) /\ Nested(out[j].nested, v(j)[k])
  <2>1. out[j] \in Codecs[type].in
    BY <1>1
  <2> HIDE DEF out
  <2> QED BY <2>1, <1>2 DEF WholeFlat, WholeWith
<1>3. ASSUME NEW j \in 1 .. n, out[j].nested # "none", NEW k \in 1 .. Len(v(j))
      PROVE  pay[j][k] # <<>> /\ Nothing(out[j].nested, pay[j][k]) = v(j)[k]
  <2>1. pay[j][k] = Nothing(out[j].nested, v(j)[k])
    OBVIOUS
  <2>2. out[j].nested \in DOMAIN Codecs
    BY <1>1, <1>3
  <2> HIDE DEF out, v, pay, n
  <2> QED BY <2>1, <2>2, <1>2, <1>3 DEF Nested
<1>4. MarshalFlat(type, has) = cells
  <2> DEFINE cellsOf(f, w) ==
               IF f.nested = "none"
               THEN IF w = Zero THEN <<>> ELSE <<[num |-> f.num, kind |-> f.kind, val |-> w]>>
               ELSE FlattenSeq([k \in 1 .. Len(w) |->
                      IF Nothing(f.nested, w[k]) = <<>> THEN <<>>
                      ELSE <<[num |-> f.num, kind |-> f.kind, sub |-> Nothing(f.nested, w[k])]>>])
  <2>1. MarshalFlat(type, has) = FlattenSeq([j \in 1 .. n |-> cellsOf(out[j], v(j))])
    BY DEF MarshalFlat, MarshalWith, FieldCells
  <2>2. ASSUME NEW j \in 1 .. n PROVE cellsOf(out[j], v(j)) = PartOf(out[j], v(j), pay[j])
    <3>1. CASE out[j].nested = "none"
      <4> HIDE DEF out, v, pay, n
      <4> QED BY <3>1 DEF PartOf
    <3>2. CASE out[j].nested # "none"
      <4> DEFINE f == out[j]
                 w == v(j)
                 l == Len(w)
                 p == pay[j]
      <4>1. l \in Nat
        BY <1>2, <3>2 DEF IsList
      <4>2. \A k \in 1 .. l : p[k] = Nothing(f.nested, w[k])
        OBVIOUS
      <4>3. \A k \in 1 .. l : p[k] # <<>>
        <5> HIDE DEF out, v, pay, n
        <5> QED BY <1>3, <3>2
      <4> HIDE DEF f, w, l, p
      <4>4. [k \in 1 .. l |-> IF Nothing(f.nested, w[k]) = <<>> THEN <<>>
                      ELSE <<[num |-> f.num, kind |-> f.kind, sub |-> Nothing(f.nested, w[k])]>>]
            = Wrapped(f, l, p)
        BY <4>2 DEF Wrapped
      <4>5. FlattenSeq(Wrapped(f, l, p)) = Subs(f, l, p)
        BY <4>1, <4>3, NestedCells
      <4>6. PartOf(f, w, p) = Subs(f, l, p)
        BY <3>2 DEF PartOf, Subs, f, l
      <4>7. cellsOf(f, w) = PartOf(f, w, p)
        BY <3>2, <4>4, <4>5, <4>6 DEF f, l
      <4> QED BY <4>7 DEF f, w, p
    <3> QED BY <3>1, <3>2
  <2>3. [j \in 1 .. n |-> cellsOf(out[j], v(j))] = parts
    <3>1. parts = [j \in 1 .. n |-> PartOf(out[j], v(j), pay[j])]
      BY DEF PartsOf
    <3> HIDE DEF out, v, pay, n, cellsOf, parts
    <3> QED BY <2>2, <3>1
  <2> HIDE DEF parts, cellsOf
  <2> QED BY <2>1, <2>3
<1>5. Lists(type, has)
  BY <1>2 DEF Lists
<1>6. ASSUME NEW j \in 1 .. n
      PROVE  /\ out[j].num = j
             /\ (\A k \in DOMAIN cells : cells[k].num # j) <=> v(j) = Zero
             /\ out[j].nested = "none" /\ v(j) # Zero => LastOf(cells, j).val = v(j)
             /\ out[j].nested # "none" /\ v(j) # Zero =>
                  Len(v(j)) # 0 /\ LastOf(cells, j).sub = pay[j][Len(v(j))]
  <2>1. Finds(cells, out[j], v(j), j, pay[j])
    <3> HIDE DEF pay
    <3> QED BY <1>5, FieldFound
  <2> HIDE DEF cells, out, v, pay, n
  <2> QED BY <2>1 DEF Finds
<1>7. ASSUME NEW j \in 1 .. n PROVE read(out[j]) = v(j)
  <2>1. CASE v(j) = Zero
    <3> HIDE DEF out, v, cells, n
    <3> QED BY <1>6, <2>1
  <2>2. CASE v(j) # Zero /\ out[j].nested = "none"
    <3> HIDE DEF out, v, cells, n
    <3> QED BY <1>6, <2>2
  <2>3. CASE v(j) # Zero /\ out[j].nested # "none" /\ out[j].name \notin Repeated
    <3>1. IsList(v(j)) /\ Len(v(j)) = 1
      <4>1. Len(v(j)) \in Nat /\ Len(v(j)) <= 1 /\ Len(v(j)) # 0 /\ IsList(v(j))
        <5> HIDE DEF v, cells, pay, out, n
        <5> QED BY <1>2, <1>6, <2>3 DEF IsList
      <4> DEFINE w == v(j)
                 l == Len(w)
      <4>2. l \in Nat /\ l <= 1 /\ l # 0 /\ IsList(w)
        BY <4>1
      <4> HIDE DEF l, w
      <4>3. l = 1
        BY <4>2
      <4> QED BY <4>2, <4>3 DEF l, w
    <3>2. LastOf(cells, j).sub = pay[j][1] /\ Nothing(out[j].nested, pay[j][1]) = v(j)[1]
      <4>1. 1 \in 1 .. Len(v(j))
        BY <3>1
      <4> HIDE DEF v, cells, pay, out, n
      <4> QED BY <4>1, <3>1, <1>3, <1>6, <2>3
    <3>3. v(j) = <<v(j)[1]>>
      <4> DEFINE w == v(j)
      <4>1. w = [k \in 1 .. 1 |-> w[k]]
        BY <3>1 DEF IsList
      <4> HIDE DEF w
      <4>2. w = <<w[1]>>
        BY <4>1
      <4> QED BY <4>2 DEF w
    <3> HIDE DEF v, cells, pay, out, n
    <3> QED BY <3>2, <3>3, <1>6, <2>3
  <2>4. CASE v(j) # Zero /\ out[j].nested # "none" /\ out[j].name \in Repeated
    <3> DEFINE q == [k \in 1 .. Len(cells) |-> Nothing(out[j].nested, cells[k].sub)]
    <3>1. Answers(cells, pay[j], q, v(j))
      <4> HIDE DEF v, cells, pay, out, n
      <4> QED BY <1>3, <2>4 DEF Answers
    <3>2. FlattenSeq(Picked(cells, q, j)) = v(j)
      <4> HIDE DEF pay, q
      <4> QED BY <1>5, <2>4, <3>1, ListFound
    <3>3. Picked(cells, q, j)
          = [k \in 1 .. Len(cells) |->
               IF cells[k].num = out[j].num THEN <<Nothing(out[j].nested, cells[k].sub)>> ELSE <<>>]
      <4> HIDE DEF v, cells, pay, out, n
      <4> QED BY <1>6 DEF Picked
    <3> HIDE DEF v, cells, pay, out, n, q
    <3> QED BY <3>2, <3>3, <1>6, <2>4
  <2> QED BY <2>1, <2>2, <2>3, <2>4
<1>8. UnmarshalFlat(type, cells) = has
  <2> DEFINE known(name) == {f \in Codecs[type].in : f.name = name}
  <2>1. UnmarshalFlat(type, cells)
        = [name \in Fields[type] |->
             IF known(name) = {} THEN Zero ELSE read(CHOOSE f \in known(name) : TRUE)]
    <3> HIDE DEF cells
    <3> QED BY DEF UnmarshalFlat, UnmarshalWith, ReadField
  <2>2. ASSUME NEW name \in Fields[type]
        PROVE  (IF known(name) = {} THEN Zero ELSE read(CHOOSE f \in known(name) : TRUE)) = has[name]
    <3>1. PICK j \in 1 .. n : out[j].name = name /\ known(name) = {out[j]}
      BY KnownField
    <3> HIDE DEF read, known, out, n
    <3>2. known(name) # {} /\ (CHOOSE f \in known(name) : TRUE) = out[j]
      BY <3>1
    <3>3. read(out[j]) = v(j)
      BY <1>7
    <3> QED BY <3>1, <3>2, <3>3
  <2>3. has = [name \in Fields[type] |-> has[name]]
    BY DEF WholeFlat, WholeWith
  <2> HIDE DEF read, known, cells
  <2> QED BY <2>1, <2>2, <2>3
<1>9. (\E name \in Fields[type] : has[name] # Zero) => cells # <<>>
  <2>1. SUFFICES ASSUME NEW name \in Fields[type], has[name] # Zero, cells = <<>> PROVE FALSE
    OBVIOUS
  <2>2. PICK j \in 1 .. n : out[j].name = name
    BY KnownField
  <2>3. ~ \A k \in DOMAIN cells : cells[k].num # j
    <3> HIDE DEF cells, out, n
    <3> QED BY <1>6, <2>1, <2>2
  <2>4. DOMAIN cells = {}
    <3> HIDE DEF cells
    <3> QED BY <2>1
  <2> HIDE DEF cells
  <2> QED BY <2>3, <2>4
<1>10. IsList(cells)
  <2>1. Numbered(parts, n)
    <3> HIDE DEF pay
    <3> QED BY <1>5, PartsNumbered
  <2> HIDE DEF parts
  <2>2. PICK T : parts \in Seq(Seq(T))
    BY <2>1, NumberedType
  <2>3. cells \in Seq(T)
    BY <2>2, FlattenType
  <2> HIDE DEF cells
  <2> QED BY <2>3, LenProperties DEF IsList
<1> HIDE DEF cells
<1> QED BY <1>4, <1>8, <1>9, <1>10

\* So is one whose nested messages are such.
LEMMA TunnelLevel ==
  ASSUME NEW type \in DOMAIN Codecs, NEW has, WholeTunnel(type, has)
  PROVE  /\ UnmarshalTunnel(type, MarshalTunnel(type, has)) = has
         /\ (\E name \in Fields[type] : has[name] # Zero) => MarshalTunnel(type, has) # <<>>
         /\ IsList(MarshalTunnel(type, has))
<1> DEFINE out == Codecs[type].out
           n == Len(out)
           v(j) == has[out[j].name]
           pay == [j \in 1 .. n |-> [k \in 1 .. Len(v(j)) |-> MarshalFlat(out[j].nested, v(j)[k])]]
           parts == PartsOf(type, has, pay)
           cells == FlattenSeq(parts)
           last(f) == LastOf(cells, f.num)
           read(f) == IF \A k \in DOMAIN cells : cells[k].num # f.num THEN Zero
                      ELSE IF f.nested = "none" THEN last(f).val
                      ELSE IF f.name \in Repeated
                           THEN FlattenSeq([k \in 1 .. Len(cells) |->
                                  IF cells[k].num = f.num THEN <<UnmarshalFlat(f.nested, cells[k].sub)>> ELSE <<>>])
                      ELSE <<UnmarshalFlat(f.nested, last(f).sub)>>
<1>1. n \in Nat /\ Codecs[type].in = {out[j] : j \in 1 .. n}
      /\ \A j \in 1 .. n : out[j].nested = "none" \/ out[j].nested \in DOMAIN Codecs
  BY AllCoded DEF WellCoded, WellTable
<1>2. ASSUME NEW j \in 1 .. n, out[j].nested # "none"
      PROVE  /\ IsList(v(j)) /\ (out[j].name \in Repeated \/ Len(v(j)) <= 1)
             /\ \A k \in 1 .. Len(v(j)) :
                  (\E name \in Fields[out[j].nested] : v(j)[k][name] # Zero) /\ WholeFlat(out[j].nested, v(j)[k])
  <2>1. out[j] \in Codecs[type].in
    BY <1>1
  <2> HIDE DEF out
  <2> QED BY <2>1, <1>2 DEF WholeTunnel, WholeWith
<1>3. ASSUME NEW j \in 1 .. n, out[j].nested # "none", NEW k \in 1 .. Len(v(j))
      PROVE  pay[j][k] # <<>> /\ UnmarshalFlat(out[j].nested, pay[j][k]) = v(j)[k]
  <2>1. pay[j][k] = MarshalFlat(out[j].nested, v(j)[k])
    OBVIOUS
  <2>2. out[j].nested \in DOMAIN Codecs
    BY <1>1, <1>3
  <2> HIDE DEF out, v, pay, n
  <2> QED BY <2>1, <2>2, <1>2, <1>3, FlatLevel
<1>4. MarshalTunnel(type, has) = cells
  <2> DEFINE cellsOf(f, w) ==
               IF f.nested = "none"
               THEN IF w = Zero THEN <<>> ELSE <<[num |-> f.num, kind |-> f.kind, val |-> w]>>
               ELSE FlattenSeq([k \in 1 .. Len(w) |->
                      IF MarshalFlat(f.nested, w[k]) = <<>> THEN <<>>
                      ELSE <<[num |-> f.num, kind |-> f.kind, sub |-> MarshalFlat(f.nested, w[k])]>>])
  <2>1. MarshalTunnel(type, has) = FlattenSeq([j \in 1 .. n |-> cellsOf(out[j], v(j))])
    BY DEF MarshalTunnel, MarshalWith, FieldCells
  <2>2. ASSUME NEW j \in 1 .. n PROVE cellsOf(out[j], v(j)) = PartOf(out[j], v(j), pay[j])
    <3>1. CASE out[j].nested = "none"
      <4> HIDE DEF out, v, pay, n
      <4> QED BY <3>1 DEF PartOf
    <3>2. CASE out[j].nested # "none"
      <4> DEFINE f == out[j]
                 w == v(j)
                 l == Len(w)
                 p == pay[j]
      <4>1. l \in Nat
        BY <1>2, <3>2 DEF IsList
      <4>2. \A k \in 1 .. l : p[k] = MarshalFlat(f.nested, w[k])
        OBVIOUS
      <4>3. \A k \in 1 .. l : p[k] # <<>>
        <5> HIDE DEF out, v, pay, n
        <5> QED BY <1>3, <3>2
      <4> HIDE DEF f, w, l, p
      <4>4. [k \in 1 .. l |-> IF MarshalFlat(f.nested, w[k]) = <<>> THEN <<>>
                      ELSE <<[num |-> f.num, kind |-> f.kind, sub |-> MarshalFlat(f.nested, w[k])]>>]
            = Wrapped(f, l, p)
        BY <4>2 DEF Wrapped
      <4>5. FlattenSeq(Wrapped(f, l, p)) = Subs(f, l, p)
        BY <4>1, <4>3, NestedCells
      <4>6. PartOf(f, w, p) = Subs(f, l, p)
        BY <3>2 DEF PartOf, Subs, f, l
      <4>7. cellsOf(f, w) = PartOf(f, w, p)
        BY <3>2, <4>4, <4>5, <4>6 DEF f, l
      <4> QED BY <4>7 DEF f, w, p
    <3> QED BY <3>1, <3>2
  <2>3. [j \in 1 .. n |-> cellsOf(out[j], v(j))] = parts
    <3>1. parts = [j \in 1 .. n |-> PartOf(out[j], v(j), pay[j])]
      BY DEF PartsOf
    <3> HIDE DEF out, v, pay, n, cellsOf, parts
    <3> QED BY <2>2, <3>1
  <2> HIDE DEF parts, cellsOf
  <2> QED BY <2>1, <2>3
<1>5. Lists(type, has)
  BY <1>2 DEF Lists
<1>6. ASSUME NEW j \in 1 .. n
      PROVE  /\ out[j].num = j
             /\ (\A k \in DOMAIN cells : cells[k].num # j) <=> v(j) = Zero
             /\ out[j].nested = "none" /\ v(j) # Zero => LastOf(cells, j).val = v(j)
             /\ out[j].nested # "none" /\ v(j) # Zero =>
                  Len(v(j)) # 0 /\ LastOf(cells, j).sub = pay[j][Len(v(j))]
  <2>1. Finds(cells, out[j], v(j), j, pay[j])
    <3> HIDE DEF pay
    <3> QED BY <1>5, FieldFound
  <2> HIDE DEF cells, out, v, pay, n
  <2> QED BY <2>1 DEF Finds
<1>7. ASSUME NEW j \in 1 .. n PROVE read(out[j]) = v(j)
  <2>1. CASE v(j) = Zero
    <3> HIDE DEF out, v, cells, n
    <3> QED BY <1>6, <2>1
  <2>2. CASE v(j) # Zero /\ out[j].nested = "none"
    <3> HIDE DEF out, v, cells, n
    <3> QED BY <1>6, <2>2
  <2>3. CASE v(j) # Zero /\ out[j].nested # "none" /\ out[j].name \notin Repeated
    <3>1. IsList(v(j)) /\ Len(v(j)) = 1
      <4>1. Len(v(j)) \in Nat /\ Len(v(j)) <= 1 /\ Len(v(j)) # 0 /\ IsList(v(j))
        <5> HIDE DEF v, cells, pay, out, n
        <5> QED BY <1>2, <1>6, <2>3 DEF IsList
      <4> DEFINE w == v(j)
                 l == Len(w)
      <4>2. l \in Nat /\ l <= 1 /\ l # 0 /\ IsList(w)
        BY <4>1
      <4> HIDE DEF l, w
      <4>3. l = 1
        BY <4>2
      <4> QED BY <4>2, <4>3 DEF l, w
    <3>2. LastOf(cells, j).sub = pay[j][1] /\ UnmarshalFlat(out[j].nested, pay[j][1]) = v(j)[1]
      <4>1. 1 \in 1 .. Len(v(j))
        BY <3>1
      <4> HIDE DEF v, cells, pay, out, n
      <4> QED BY <4>1, <3>1, <1>3, <1>6, <2>3
    <3>3. v(j) = <<v(j)[1]>>
      <4> DEFINE w == v(j)
      <4>1. w = [k \in 1 .. 1 |-> w[k]]
        BY <3>1 DEF IsList
      <4> HIDE DEF w
      <4>2. w = <<w[1]>>
        BY <4>1
      <4> QED BY <4>2 DEF w
    <3> HIDE DEF v, cells, pay, out, n
    <3> QED BY <3>2, <3>3, <1>6, <2>3
  <2>4. CASE v(j) # Zero /\ out[j].nested # "none" /\ out[j].name \in Repeated
    <3> DEFINE q == [k \in 1 .. Len(cells) |-> UnmarshalFlat(out[j].nested, cells[k].sub)]
    <3>1. Answers(cells, pay[j], q, v(j))
      <4> HIDE DEF v, cells, pay, out, n
      <4> QED BY <1>3, <2>4 DEF Answers
    <3>2. FlattenSeq(Picked(cells, q, j)) = v(j)
      <4> HIDE DEF pay, q
      <4> QED BY <1>5, <2>4, <3>1, ListFound
    <3>3. Picked(cells, q, j)
          = [k \in 1 .. Len(cells) |->
               IF cells[k].num = out[j].num THEN <<UnmarshalFlat(out[j].nested, cells[k].sub)>> ELSE <<>>]
      <4> HIDE DEF v, cells, pay, out, n
      <4> QED BY <1>6 DEF Picked
    <3> HIDE DEF v, cells, pay, out, n, q
    <3> QED BY <3>2, <3>3, <1>6, <2>4
  <2> QED BY <2>1, <2>2, <2>3, <2>4
<1>8. UnmarshalTunnel(type, cells) = has
  <2> DEFINE known(name) == {f \in Codecs[type].in : f.name = name}
  <2>1. UnmarshalTunnel(type, cells)
        = [name \in Fields[type] |->
             IF known(name) = {} THEN Zero ELSE read(CHOOSE f \in known(name) : TRUE)]
    <3> HIDE DEF cells
    <3> QED BY DEF UnmarshalTunnel, UnmarshalWith, ReadField
  <2>2. ASSUME NEW name \in Fields[type]
        PROVE  (IF known(name) = {} THEN Zero ELSE read(CHOOSE f \in known(name) : TRUE)) = has[name]
    <3>1. PICK j \in 1 .. n : out[j].name = name /\ known(name) = {out[j]}
      BY KnownField
    <3> HIDE DEF read, known, out, n
    <3>2. known(name) # {} /\ (CHOOSE f \in known(name) : TRUE) = out[j]
      BY <3>1
    <3>3. read(out[j]) = v(j)
      BY <1>7
    <3> QED BY <3>1, <3>2, <3>3
  <2>3. has = [name \in Fields[type] |-> has[name]]
    BY DEF WholeTunnel, WholeWith
  <2> HIDE DEF read, known, cells
  <2> QED BY <2>1, <2>2, <2>3
<1>9. (\E name \in Fields[type] : has[name] # Zero) => cells # <<>>
  <2>1. SUFFICES ASSUME NEW name \in Fields[type], has[name] # Zero, cells = <<>> PROVE FALSE
    OBVIOUS
  <2>2. PICK j \in 1 .. n : out[j].name = name
    BY KnownField
  <2>3. ~ \A k \in DOMAIN cells : cells[k].num # j
    <3> HIDE DEF cells, out, n
    <3> QED BY <1>6, <2>1, <2>2
  <2>4. DOMAIN cells = {}
    <3> HIDE DEF cells
    <3> QED BY <2>1
  <2> HIDE DEF cells
  <2> QED BY <2>3, <2>4
<1>10. IsList(cells)
  <2>1. Numbered(parts, n)
    <3> HIDE DEF pay
    <3> QED BY <1>5, PartsNumbered
  <2> HIDE DEF parts
  <2>2. PICK T : parts \in Seq(Seq(T))
    BY <2>1, NumberedType
  <2>3. cells \in Seq(T)
    BY <2>2, FlattenType
  <2> HIDE DEF cells
  <2> QED BY <2>3, LenProperties DEF IsList
<1> HIDE DEF cells
<1> QED BY <1>4, <1>8, <1>9, <1>10

\* So is one whose nested messages are such, on the last level.
LEMMA MessageLevel ==
  ASSUME NEW type \in DOMAIN Codecs, NEW has, Whole(type, has)
  PROVE  /\ Unmarshal(type, Marshal(type, has)) = has
         /\ (\E name \in Fields[type] : has[name] # Zero) => Marshal(type, has) # <<>>
         /\ IsList(Marshal(type, has))
<1> DEFINE out == Codecs[type].out
           n == Len(out)
           v(j) == has[out[j].name]
           pay == [j \in 1 .. n |-> [k \in 1 .. Len(v(j)) |-> MarshalTunnel(out[j].nested, v(j)[k])]]
           parts == PartsOf(type, has, pay)
           cells == FlattenSeq(parts)
           last(f) == LastOf(cells, f.num)
           read(f) == IF \A k \in DOMAIN cells : cells[k].num # f.num THEN Zero
                      ELSE IF f.nested = "none" THEN last(f).val
                      ELSE IF f.name \in Repeated
                           THEN FlattenSeq([k \in 1 .. Len(cells) |->
                                  IF cells[k].num = f.num THEN <<UnmarshalTunnel(f.nested, cells[k].sub)>> ELSE <<>>])
                      ELSE <<UnmarshalTunnel(f.nested, last(f).sub)>>
<1>1. n \in Nat /\ Codecs[type].in = {out[j] : j \in 1 .. n}
      /\ \A j \in 1 .. n : out[j].nested = "none" \/ out[j].nested \in DOMAIN Codecs
  BY AllCoded DEF WellCoded, WellTable
<1>2. ASSUME NEW j \in 1 .. n, out[j].nested # "none"
      PROVE  /\ IsList(v(j)) /\ (out[j].name \in Repeated \/ Len(v(j)) <= 1)
             /\ \A k \in 1 .. Len(v(j)) :
                  (\E name \in Fields[out[j].nested] : v(j)[k][name] # Zero) /\ WholeTunnel(out[j].nested, v(j)[k])
  <2>1. out[j] \in Codecs[type].in
    BY <1>1
  <2> HIDE DEF out
  <2> QED BY <2>1, <1>2 DEF Whole, WholeWith
<1>3. ASSUME NEW j \in 1 .. n, out[j].nested # "none", NEW k \in 1 .. Len(v(j))
      PROVE  pay[j][k] # <<>> /\ UnmarshalTunnel(out[j].nested, pay[j][k]) = v(j)[k]
  <2>1. pay[j][k] = MarshalTunnel(out[j].nested, v(j)[k])
    OBVIOUS
  <2>2. out[j].nested \in DOMAIN Codecs
    BY <1>1, <1>3
  <2> HIDE DEF out, v, pay, n
  <2> QED BY <2>1, <2>2, <1>2, <1>3, TunnelLevel
<1>4. Marshal(type, has) = cells
  <2> DEFINE cellsOf(f, w) ==
               IF f.nested = "none"
               THEN IF w = Zero THEN <<>> ELSE <<[num |-> f.num, kind |-> f.kind, val |-> w]>>
               ELSE FlattenSeq([k \in 1 .. Len(w) |->
                      IF MarshalTunnel(f.nested, w[k]) = <<>> THEN <<>>
                      ELSE <<[num |-> f.num, kind |-> f.kind, sub |-> MarshalTunnel(f.nested, w[k])]>>])
  <2>1. Marshal(type, has) = FlattenSeq([j \in 1 .. n |-> cellsOf(out[j], v(j))])
    BY DEF Marshal, MarshalWith, FieldCells
  <2>2. ASSUME NEW j \in 1 .. n PROVE cellsOf(out[j], v(j)) = PartOf(out[j], v(j), pay[j])
    <3>1. CASE out[j].nested = "none"
      <4> HIDE DEF out, v, pay, n
      <4> QED BY <3>1 DEF PartOf
    <3>2. CASE out[j].nested # "none"
      <4> DEFINE f == out[j]
                 w == v(j)
                 l == Len(w)
                 p == pay[j]
      <4>1. l \in Nat
        BY <1>2, <3>2 DEF IsList
      <4>2. \A k \in 1 .. l : p[k] = MarshalTunnel(f.nested, w[k])
        OBVIOUS
      <4>3. \A k \in 1 .. l : p[k] # <<>>
        <5> HIDE DEF out, v, pay, n
        <5> QED BY <1>3, <3>2
      <4> HIDE DEF f, w, l, p
      <4>4. [k \in 1 .. l |-> IF MarshalTunnel(f.nested, w[k]) = <<>> THEN <<>>
                      ELSE <<[num |-> f.num, kind |-> f.kind, sub |-> MarshalTunnel(f.nested, w[k])]>>]
            = Wrapped(f, l, p)
        BY <4>2 DEF Wrapped
      <4>5. FlattenSeq(Wrapped(f, l, p)) = Subs(f, l, p)
        BY <4>1, <4>3, NestedCells
      <4>6. PartOf(f, w, p) = Subs(f, l, p)
        BY <3>2 DEF PartOf, Subs, f, l
      <4>7. cellsOf(f, w) = PartOf(f, w, p)
        BY <3>2, <4>4, <4>5, <4>6 DEF f, l
      <4> QED BY <4>7 DEF f, w, p
    <3> QED BY <3>1, <3>2
  <2>3. [j \in 1 .. n |-> cellsOf(out[j], v(j))] = parts
    <3>1. parts = [j \in 1 .. n |-> PartOf(out[j], v(j), pay[j])]
      BY DEF PartsOf
    <3> HIDE DEF out, v, pay, n, cellsOf, parts
    <3> QED BY <2>2, <3>1
  <2> HIDE DEF parts, cellsOf
  <2> QED BY <2>1, <2>3
<1>5. Lists(type, has)
  BY <1>2 DEF Lists
<1>6. ASSUME NEW j \in 1 .. n
      PROVE  /\ out[j].num = j
             /\ (\A k \in DOMAIN cells : cells[k].num # j) <=> v(j) = Zero
             /\ out[j].nested = "none" /\ v(j) # Zero => LastOf(cells, j).val = v(j)
             /\ out[j].nested # "none" /\ v(j) # Zero =>
                  Len(v(j)) # 0 /\ LastOf(cells, j).sub = pay[j][Len(v(j))]
  <2>1. Finds(cells, out[j], v(j), j, pay[j])
    <3> HIDE DEF pay
    <3> QED BY <1>5, FieldFound
  <2> HIDE DEF cells, out, v, pay, n
  <2> QED BY <2>1 DEF Finds
<1>7. ASSUME NEW j \in 1 .. n PROVE read(out[j]) = v(j)
  <2>1. CASE v(j) = Zero
    <3> HIDE DEF out, v, cells, n
    <3> QED BY <1>6, <2>1
  <2>2. CASE v(j) # Zero /\ out[j].nested = "none"
    <3> HIDE DEF out, v, cells, n
    <3> QED BY <1>6, <2>2
  <2>3. CASE v(j) # Zero /\ out[j].nested # "none" /\ out[j].name \notin Repeated
    <3>1. IsList(v(j)) /\ Len(v(j)) = 1
      <4>1. Len(v(j)) \in Nat /\ Len(v(j)) <= 1 /\ Len(v(j)) # 0 /\ IsList(v(j))
        <5> HIDE DEF v, cells, pay, out, n
        <5> QED BY <1>2, <1>6, <2>3 DEF IsList
      <4> DEFINE w == v(j)
                 l == Len(w)
      <4>2. l \in Nat /\ l <= 1 /\ l # 0 /\ IsList(w)
        BY <4>1
      <4> HIDE DEF l, w
      <4>3. l = 1
        BY <4>2
      <4> QED BY <4>2, <4>3 DEF l, w
    <3>2. LastOf(cells, j).sub = pay[j][1] /\ UnmarshalTunnel(out[j].nested, pay[j][1]) = v(j)[1]
      <4>1. 1 \in 1 .. Len(v(j))
        BY <3>1
      <4> HIDE DEF v, cells, pay, out, n
      <4> QED BY <4>1, <3>1, <1>3, <1>6, <2>3
    <3>3. v(j) = <<v(j)[1]>>
      <4> DEFINE w == v(j)
      <4>1. w = [k \in 1 .. 1 |-> w[k]]
        BY <3>1 DEF IsList
      <4> HIDE DEF w
      <4>2. w = <<w[1]>>
        BY <4>1
      <4> QED BY <4>2 DEF w
    <3> HIDE DEF v, cells, pay, out, n
    <3> QED BY <3>2, <3>3, <1>6, <2>3
  <2>4. CASE v(j) # Zero /\ out[j].nested # "none" /\ out[j].name \in Repeated
    <3> DEFINE q == [k \in 1 .. Len(cells) |-> UnmarshalTunnel(out[j].nested, cells[k].sub)]
    <3>1. Answers(cells, pay[j], q, v(j))
      <4> HIDE DEF v, cells, pay, out, n
      <4> QED BY <1>3, <2>4 DEF Answers
    <3>2. FlattenSeq(Picked(cells, q, j)) = v(j)
      <4> HIDE DEF pay, q
      <4> QED BY <1>5, <2>4, <3>1, ListFound
    <3>3. Picked(cells, q, j)
          = [k \in 1 .. Len(cells) |->
               IF cells[k].num = out[j].num THEN <<UnmarshalTunnel(out[j].nested, cells[k].sub)>> ELSE <<>>]
      <4> HIDE DEF v, cells, pay, out, n
      <4> QED BY <1>6 DEF Picked
    <3> HIDE DEF v, cells, pay, out, n, q
    <3> QED BY <3>2, <3>3, <1>6, <2>4
  <2> QED BY <2>1, <2>2, <2>3, <2>4
<1>8. Unmarshal(type, cells) = has
  <2> DEFINE known(name) == {f \in Codecs[type].in : f.name = name}
  <2>1. Unmarshal(type, cells)
        = [name \in Fields[type] |->
             IF known(name) = {} THEN Zero ELSE read(CHOOSE f \in known(name) : TRUE)]
    <3> HIDE DEF cells
    <3> QED BY DEF Unmarshal, UnmarshalWith, ReadField
  <2>2. ASSUME NEW name \in Fields[type]
        PROVE  (IF known(name) = {} THEN Zero ELSE read(CHOOSE f \in known(name) : TRUE)) = has[name]
    <3>1. PICK j \in 1 .. n : out[j].name = name /\ known(name) = {out[j]}
      BY KnownField
    <3> HIDE DEF read, known, out, n
    <3>2. known(name) # {} /\ (CHOOSE f \in known(name) : TRUE) = out[j]
      BY <3>1
    <3>3. read(out[j]) = v(j)
      BY <1>7
    <3> QED BY <3>1, <3>2, <3>3
  <2>3. has = [name \in Fields[type] |-> has[name]]
    BY DEF Whole, WholeWith
  <2> HIDE DEF read, known, cells
  <2> QED BY <2>1, <2>2, <2>3
<1>9. (\E name \in Fields[type] : has[name] # Zero) => cells # <<>>
  <2>1. SUFFICES ASSUME NEW name \in Fields[type], has[name] # Zero, cells = <<>> PROVE FALSE
    OBVIOUS
  <2>2. PICK j \in 1 .. n : out[j].name = name
    BY KnownField
  <2>3. ~ \A k \in DOMAIN cells : cells[k].num # j
    <3> HIDE DEF cells, out, n
    <3> QED BY <1>6, <2>1, <2>2
  <2>4. DOMAIN cells = {}
    <3> HIDE DEF cells
    <3> QED BY <2>1
  <2> HIDE DEF cells
  <2> QED BY <2>3, <2>4
<1>10. IsList(cells)
  <2>1. Numbered(parts, n)
    <3> HIDE DEF pay
    <3> QED BY <1>5, PartsNumbered
  <2> HIDE DEF parts
  <2>2. PICK T : parts \in Seq(Seq(T))
    BY <2>1, NumberedType
  <2>3. cells \in Seq(T)
    BY <2>2, FlattenType
  <2> HIDE DEF cells
  <2> QED BY <2>3, LenProperties DEF IsList
<1> HIDE DEF cells
<1> QED BY <1>4, <1>8, <1>9, <1>10

-----------------------------------------------------------------------------
\* Blank messages are left out

\* A function, element by element
Mapped(h, s) == [k \in 1 .. Len(s) |-> h[s[k]]]
Maps(S, h, T) == \A x \in S : h[x] \in T

LEMMA MappedType ==
  ASSUME NEW S, NEW s \in Seq(S), NEW T, NEW h, Maps(S, h, T)
  PROVE  Mapped(h, s) \in Seq(T) /\ Len(Mapped(h, s)) = Len(s) /\ \A k \in 1 .. Len(s) : Mapped(h, s)[k] = h[s[k]]
<1>1. Len(s) \in Nat /\ \A k \in 1 .. Len(s) : h[s[k]] \in T
  BY LenProperties, ElementOfSeq DEF Maps
<1>2. Mapped(h, s) \in [1 .. Len(s) -> T]
  BY <1>1 DEF Mapped
<1>3. \A k \in 1 .. Len(s) : Mapped(h, s)[k] = h[s[k]]
  BY DEF Mapped
<1> QED BY <1>1, <1>2, <1>3, SeqDef, LenProperties

LEMMA MappedAppend ==
  ASSUME NEW S, NEW s \in Seq(S), NEW e \in S, NEW T, NEW h, Maps(S, h, T)
  PROVE  Mapped(h, Append(s, e)) = Append(Mapped(h, s), h[e])
<1> DEFINE x == Append(s, e)
           n == Len(s)
           y == Append(Mapped(h, s), h[e])
<1>1. x \in Seq(S) /\ Len(x) = n + 1 /\ n \in Nat /\ (\A i \in 1 .. n : x[i] = s[i]) /\ x[n + 1] = e
  BY AppendProperties, LenProperties
<1>2. /\ Mapped(h, s) \in Seq(T) /\ Len(Mapped(h, s)) = n
      /\ \A k \in 1 .. n : Mapped(h, s)[k] = h[s[k]]
  BY MappedType
<1>3. h[e] \in T
  BY DEF Maps
<1>4. y \in Seq(T) /\ Len(y) = n + 1 /\ (\A i \in 1 .. n : y[i] = Mapped(h, s)[i]) /\ y[n + 1] = h[e]
  BY <1>2, <1>3, AppendProperties
<1> HIDE DEF x, y, n
<1>5. Mapped(h, x) \in Seq(T) /\ Len(Mapped(h, x)) = n + 1
      /\ \A k \in 1 .. n + 1 : Mapped(h, x)[k] = h[x[k]]
  BY <1>1, MappedType
<1>6. ASSUME NEW i \in 1 .. n + 1 PROVE Mapped(h, x)[i] = y[i]
  <2>1. CASE i = n + 1
    BY <2>1, <1>1, <1>4, <1>5
  <2>2. CASE i # n + 1
    <3>1. i \in 1 .. n
      BY <2>2, <1>1
    <3>2. Mapped(h, x)[i] = h[x[i]] /\ x[i] = s[i] /\ y[i] = h[s[i]]
      BY <3>1, <1>1, <1>2, <1>4, <1>5
    <3> QED BY <3>2
  <2> QED BY <2>1, <2>2
<1>7. Mapped(h, x) = y
  BY <1>1, <1>4, <1>5, <1>6, SeqEqual
<1> QED BY <1>7 DEF x, y

\* The elements of s other than b, and the cells of a list of elements that g encodes
Sifted(s, b) == FlattenSeq([k \in 1 .. Len(s) |-> IF s[k] = b THEN <<>> ELSE <<s[k]>>])
CellOf(f, p) == [num |-> f.num, kind |-> f.kind, sub |-> p]
CellsOf(f, g, s) == FlattenSeq([k \in 1 .. Len(s) |-> IF g[s[k]] = <<>> THEN <<>> ELSE <<CellOf(f, g[s[k]])>>])
NothingOnly(S, g, b) == \A x \in S : g[x] = <<>> <=> x = b
SameCells(S, s, b, f, g) ==
    /\ Sifted(s, b) \in Seq(S \ {b}) /\ Len(Sifted(s, b)) <= Len(s)
    /\ CellsOf(f, g, Sifted(s, b)) = CellsOf(f, g, s)

\* Leaving out the elements that are encoded as nothing changes no cell.
LEMMA SiftedCells ==
  ASSUME NEW S, NEW s \in Seq(S), NEW b, NEW f, NEW g, NothingOnly(S, g, b)
  PROVE  SameCells(S, s, b, f, g)
<1> DEFINE drop == [x \in S |-> IF x = b THEN <<>> ELSE <<x>>]
           cell == [x \in S |-> IF g[x] = <<>> THEN <<>> ELSE <<CellOf(f, g[x])>>]
           R == S \ {b}
           C == {CellOf(f, g[x]) : x \in S}
           G == {x \in Seq(S) : /\ Sifted(x, b) \in Seq(R) /\ Len(Sifted(x, b)) <= Len(x)
                                /\ CellsOf(f, g, Sifted(x, b)) = CellsOf(f, g, x)}
<1>1. Maps(S, drop, Seq(R))
  <2>1. ASSUME NEW x \in S PROVE (IF x = b THEN <<>> ELSE <<x>>) \in Seq(R)
    <3>1. <<>> \in Seq(R) /\ (x # b => <<x>> \in Seq(R))
      BY EmptySeq
    <3> QED BY <3>1
  <2> HIDE DEF R
  <2> QED BY <2>1 DEF Maps
<1>2. Maps(S, cell, Seq(C))
  <2>1. ASSUME NEW x \in S PROVE (IF g[x] = <<>> THEN <<>> ELSE <<CellOf(f, g[x])>>) \in Seq(C)
    <3> DEFINE c == CellOf(f, g[x])
    <3>1. c \in C
      OBVIOUS
    <3> HIDE DEF c, C
    <3>2. <<>> \in Seq(C) /\ <<c>> \in Seq(C)
      BY <3>1, EmptySeq
    <3> QED BY <3>2 DEF c
  <2> HIDE DEF C
  <2> QED BY <2>1 DEF Maps
<1>3. ASSUME NEW x \in Seq(S)
      PROVE  Sifted(x, b) = FlattenSeq(Mapped(drop, x)) /\ CellsOf(f, g, x) = FlattenSeq(Mapped(cell, x))
  <2>1. \A k \in 1 .. Len(x) : x[k] \in S
    BY ElementOfSeq
  <2>2. Mapped(drop, x) = [k \in 1 .. Len(x) |-> IF x[k] = b THEN <<>> ELSE <<x[k]>>]
    BY <2>1 DEF Mapped
  <2>3. Mapped(cell, x) = [k \in 1 .. Len(x) |-> IF g[x[k]] = <<>> THEN <<>> ELSE <<CellOf(f, g[x[k]])>>]
    BY <2>1 DEF Mapped
  <2> QED BY <2>2, <2>3 DEF Sifted, CellsOf
<1> HIDE DEF drop, cell, C
<1>4. ASSUME NEW x \in Seq(S), NEW e \in S
      PROVE  /\ Append(x, e) \in Seq(S)
             /\ Sifted(Append(x, e), b) = Sifted(x, b) \o drop[e] /\ Sifted(x, b) \in Seq(R)
             /\ CellsOf(f, g, Append(x, e)) = CellsOf(f, g, x) \o cell[e] /\ CellsOf(f, g, x) \in Seq(C)
  <2>1. Append(x, e) \in Seq(S)
    BY AppendProperties
  <2>2. Mapped(drop, x) \in Seq(Seq(R)) /\ Mapped(drop, Append(x, e)) = Append(Mapped(drop, x), drop[e])
    <3> DEFINE T == Seq(R)
    <3>1. Maps(S, drop, T)
      BY <1>1
    <3> HIDE DEF T
    <3>2. Mapped(drop, x) \in Seq(T)
      BY <3>1, MappedType
    <3>3. Mapped(drop, Append(x, e)) = Append(Mapped(drop, x), drop[e])
      BY <3>1, MappedAppend
    <3> QED BY <3>2, <3>3 DEF T
  <2>3. Mapped(cell, x) \in Seq(Seq(C)) /\ Mapped(cell, Append(x, e)) = Append(Mapped(cell, x), cell[e])
    <3> DEFINE T == Seq(C)
    <3>1. Maps(S, cell, T)
      BY <1>2
    <3> HIDE DEF T
    <3>2. Mapped(cell, x) \in Seq(T)
      BY <3>1, MappedType
    <3>3. Mapped(cell, Append(x, e)) = Append(Mapped(cell, x), cell[e])
      BY <3>1, MappedAppend
    <3> QED BY <3>2, <3>3 DEF T
  <2>4. drop[e] \in Seq(R) /\ cell[e] \in Seq(C)
    BY <1>1, <1>2 DEF Maps
  <2> HIDE DEF R
  <2>5. FlattenSeq(Mapped(drop, Append(x, e))) = FlattenSeq(Mapped(drop, x)) \o drop[e]
        /\ FlattenSeq(Mapped(drop, x)) \in Seq(R)
    BY <2>2, <2>4, FlattenAppend, FlattenType
  <2>6. FlattenSeq(Mapped(cell, Append(x, e))) = FlattenSeq(Mapped(cell, x)) \o cell[e]
        /\ FlattenSeq(Mapped(cell, x)) \in Seq(C)
    BY <2>3, <2>4, FlattenAppend, FlattenType
  <2> QED BY <2>1, <2>5, <2>6, <1>3
<1>5. <<>> \in G
  <2>1. Sifted(<<>>, b) = <<>>
    <3>1. [k \in 1 .. Len(<<>>) |-> IF <<>>[k] = b THEN <<>> ELSE <<<<>>[k]>>] = <<>>
      BY EmptySeq
    <3> QED BY <3>1, FlattenEmpty DEF Sifted
  <2> DEFINE u == Sifted(<<>>, b)
  <2>2. u = <<>> /\ <<>> \in Seq(S) /\ u \in Seq(R) /\ Len(u) <= Len(<<>>)
    <3>1. <<>> \in Seq(S) /\ <<>> \in Seq(R) /\ Len(<<>>) = 0
      BY EmptySeq
    <3>2. u = <<>>
      BY <2>1
    <3> HIDE DEF u, R
    <3> QED BY <3>1, <3>2
  <2>3. CellsOf(f, g, u) = CellsOf(f, g, <<>>)
    BY <2>1
  <2> HIDE DEF u, R
  <2> QED BY <2>2, <2>3 DEF u
<1>6. ASSUME NEW x \in Seq(S), NEW e \in S, x \in G PROVE Append(x, e) \in G
  <2> DEFINE u == Sifted(x, b)
             y == Append(x, e)
  <2>1. u \in Seq(R) /\ Len(u) <= Len(x) /\ CellsOf(f, g, u) = CellsOf(f, g, x)
    BY <1>6
  <2>2. y \in Seq(S) /\ Len(y) = Len(x) + 1 /\ Len(x) \in Nat /\ Len(u) \in Nat
    BY <2>1, AppendProperties, LenProperties
  <2>3. Sifted(y, b) = u \o drop[e] /\ CellsOf(f, g, y) = CellsOf(f, g, x) \o cell[e] /\ CellsOf(f, g, x) \in Seq(C)
    BY <1>4
  <2> HIDE DEF u, y
  <2>4. ASSUME e = b PROVE y \in G
    <3>1. drop[e] = <<>> /\ cell[e] = <<>>
      BY <2>4 DEF drop, cell, NothingOnly
    <3>2. Sifted(y, b) = u /\ CellsOf(f, g, y) = CellsOf(f, g, x)
      BY <2>1, <2>3, <3>1, ConcatEmptySeq
    <3>3. Len(Sifted(y, b)) <= Len(y)
      BY <2>1, <2>2, <3>2
    <3>4. CellsOf(f, g, Sifted(y, b)) = CellsOf(f, g, y) /\ Sifted(y, b) \in Seq(R)
      BY <2>1, <3>2
    <3> HIDE DEF R
    <3> QED BY <2>2, <3>3, <3>4
  <2>5. ASSUME e # b PROVE y \in G
    <3>1. drop[e] = <<e>> /\ e \in R
      BY <2>5 DEF drop
    <3>2. Sifted(y, b) = Append(u, e)
      BY <2>1, <2>3, <3>1, AppendIsConcat
    <3>3. u \in Seq(S)
      <4>1. R \subseteq S
        OBVIOUS
      <4> HIDE DEF R
      <4> QED BY <2>1, <4>1
    <3>4. CellsOf(f, g, Append(u, e)) = CellsOf(f, g, u) \o cell[e]
      BY <1>4, <3>3
    <3>5. Append(u, e) \in Seq(R) /\ Len(Append(u, e)) = Len(u) + 1
      <4> HIDE DEF R
      <4> QED BY <2>1, <3>1, AppendProperties
    <3>6. Len(Sifted(y, b)) <= Len(y) /\ Sifted(y, b) \in Seq(R)
      <4>1. Len(Sifted(y, b)) = Len(u) + 1
        BY <3>2, <3>5
      <4> HIDE DEF R
      <4> QED BY <2>1, <2>2, <3>2, <3>5, <4>1
    <3>7. CellsOf(f, g, Sifted(y, b)) = CellsOf(f, g, y)
      BY <2>1, <2>3, <3>2, <3>4
    <3> HIDE DEF R
    <3> QED BY <2>2, <3>6, <3>7
  <2> QED BY <2>4, <2>5 DEF y
<1>7. Seq(S) \subseteq G
  <2> HIDE DEF G
  <2> QED BY <1>5, <1>6, SequenceInduction
<1> QED BY <1>7 DEF SameCells

\* What a message without nested ones means is whole, and encoded as the message is.
LEMMA FlatSense ==
  ASSUME NEW type \in DOMAIN Codecs, NEW has, ProperFlat(type, has)
  PROVE  /\ WholeFlat(type, SenseFlat(type, has))
         /\ MarshalFlat(type, SenseFlat(type, has)) = MarshalFlat(type, has)
         /\ MarshalFlat(type, has) = <<>> <=> SenseFlat(type, has) = Blank(type)
<1> DEFINE out == Codecs[type].out
           n == Len(out)
           v(j) == has[out[j].name]
           sense == SenseFlat(type, has)
           means(j) == [k \in 1 .. Len(v(j)) |-> Nothing(out[j].nested, v(j)[k])]
           cellsOf(f, w) ==
               IF f.nested = "none"
               THEN IF w = Zero THEN <<>> ELSE <<[num |-> f.num, kind |-> f.kind, val |-> w]>>
               ELSE FlattenSeq([k \in 1 .. Len(w) |->
                      IF Nothing(f.nested, w[k]) = <<>> THEN <<>>
                      ELSE <<[num |-> f.num, kind |-> f.kind, sub |-> Nothing(f.nested, w[k])]>>])
<1>1. n \in Nat /\ Codecs[type].in = {out[j] : j \in 1 .. n} /\ Fields[type] = {out[j].name : j \in 1 .. n}
      /\ \A j \in 1 .. n : out[j].nested = "none" \/ out[j].nested \in DOMAIN Codecs
  BY AllCoded DEF WellCoded, WellTable
<1>2. ASSUME NEW j \in 1 .. n, out[j].nested # "none"
      PROVE  /\ IsList(v(j)) /\ (out[j].name \in Repeated \/ Len(v(j)) <= 1)
             /\ \A k \in 1 .. Len(v(j)) : Nested(out[j].nested, v(j)[k])
  <2>1. out[j] \in Codecs[type].in
    BY <1>1
  <2> HIDE DEF out
  <2> QED BY <2>1, <1>2 DEF ProperFlat, ProperWith
<1>3. ASSUME NEW j \in 1 .. n, NEW k \in 1 .. Len(v(j)), out[j].nested # "none"
      PROVE  LET t == out[j].nested
                 x == means(j)[k]
             IN  /\ Nested(t, x) /\ Nothing(t, x) = Nothing(t, v(j)[k])
                 /\ Nothing(t, x) = <<>> <=> x = Blank(t)
                 /\ x # Blank(t) => \E name \in Fields[t] : x[name] # Zero
  <2> DEFINE t == out[j].nested
             x == Nothing(t, v(j)[k])
  <2>0. t # "none" /\ means(j)[k] = x
    BY <1>3
  <2>1. /\ Nested(t, x) /\ Nothing(t, x) = Nothing(t, v(j)[k])
        /\ Nothing(t, v(j)[k]) = <<>> <=> x = Blank(t)
    <3>1. Nested(t, v(j)[k]) /\ t \in DOMAIN Codecs
      <4> HIDE DEF out, v, n, means
      <4> QED BY <1>1, <1>2, <1>3
    <3> HIDE DEF out, v, n, means, t
    <3> QED BY <3>1 DEF Nested
  <2>2. x # Blank(t) => \E name \in Fields[t] : x[name] # Zero
    <3> HIDE DEF t, x
    <3>1. x = [name \in Fields[t] |-> x[name]]
      BY <2>1 DEF Nested
    <3> QED BY <2>1, <3>1 DEF Blank
  <2> HIDE DEF x, t
  <2> QED BY <2>0, <2>1, <2>2 DEF t
<1>4. ASSUME NEW j \in 1 .. n
      PROVE  sense[out[j].name] = IF out[j].nested = "none" THEN v(j)
                                  ELSE Sifted(means(j), Blank(out[j].nested))
  <2> DEFINE name == out[j].name
             nested == {f.nested : f \in {x \in Codecs[type].in : x.name = name}} \ {"none"}
             kept(t) == FlattenSeq([k \in 1 .. Len(has[name]) |->
                  IF Nothing(t, has[name][k]) = Blank(t) THEN <<>> ELSE <<Nothing(t, has[name][k])>>])
  <2>1. name \in Fields[type]
    BY <1>1
  <2>2. sense[name] = IF nested = {} THEN has[name] ELSE kept(CHOOSE t \in nested : TRUE)
    <3> HIDE DEF name
    <3> QED BY <2>1 DEF SenseFlat, SenseWith
  <2>3. nested = {out[j].nested} \ {"none"}
    <3>1. PICK i \in 1 .. n : out[i].name = name /\ {f \in Codecs[type].in : f.name = name} = {out[i]}
      <4> HIDE DEF name
      <4> QED BY <2>1, KnownField
    <3>2. out[j] \in {f \in Codecs[type].in : f.name = name}
      BY <1>1
    <3>3. {f \in Codecs[type].in : f.name = name} = {out[j]}
      BY <3>1, <3>2
    <3> HIDE DEF out, name
    <3> QED BY <3>3
  <2>4. CASE out[j].nested = "none"
    <3> HIDE DEF nested, kept, sense, out
    <3> QED BY <2>2, <2>3, <2>4
  <2>5. CASE out[j].nested # "none"
    <3>1. sense[name] = kept(out[j].nested)
      <4>1. (CHOOSE t \in nested : TRUE) = out[j].nested /\ nested # {}
        <5> HIDE DEF nested, out
        <5> QED BY <2>3, <2>5
      <4> HIDE DEF nested, kept, sense, out, name
      <4> QED BY <2>2, <4>1
    <3>2. kept(out[j].nested) = Sifted(means(j), Blank(out[j].nested))
      <4> DEFINE t == out[j].nested
                 w == v(j)
                 l == Len(w)
      <4>1. l \in Nat
        BY <1>2, <2>5 DEF IsList
      <4>2. means(j) = [k \in 1 .. l |-> Nothing(t, w[k])]
        OBVIOUS
      <4>3. kept(t) = FlattenSeq([k \in 1 .. l |->
                        IF Nothing(t, w[k]) = Blank(t) THEN <<>> ELSE <<Nothing(t, w[k])>>])
        OBVIOUS
      <4> HIDE DEF t, w, l, kept, means
      <4>4. Len(means(j)) = l /\ \A k \in 1 .. l : means(j)[k] = Nothing(t, w[k])
        BY <4>1, <4>2
      <4>5. kept(t) = Sifted(means(j), Blank(t))
        BY <4>3, <4>4 DEF Sifted
      <4> QED BY <4>5 DEF t
    <3> HIDE DEF nested, kept, sense, out, means
    <3> QED BY <3>1, <3>2, <2>5 DEF name
  <2> QED BY <2>4, <2>5
<1>5. ASSUME NEW j \in 1 .. n, out[j].nested # "none"
      PROVE  LET u == sense[out[j].name]
             IN  /\ IsList(u) /\ Len(u) <= Len(v(j)) /\ Len(v(j)) \in Nat
                 /\ \A i \in 1 .. Len(u) : (\E name \in Fields[out[j].nested] : u[i][name] # Zero)
                                           /\ Nested(out[j].nested, u[i])
                 /\ cellsOf(out[j], u) = cellsOf(out[j], v(j))
  <2> DEFINE f == out[j]
             t == f.nested
             w == v(j)
             l == Len(w)
             s == means(j)
             S == {s[k] : k \in 1 .. l}
             g == [x \in S |-> Nothing(t, x)]
             u == Sifted(s, Blank(t))
  <2>1. sense[out[j].name] = u
    <3> HIDE DEF sense, out, means
    <3> QED BY <1>4, <1>5
  <2>2. l \in Nat
    BY <1>2, <1>5 DEF IsList
  <2>3. \A k \in 1 .. l : /\ Nested(t, s[k]) /\ Nothing(t, s[k]) = Nothing(t, w[k])
                          /\ Nothing(t, s[k]) = <<>> <=> s[k] = Blank(t)
                          /\ s[k] # Blank(t) => \E name \in Fields[t] : s[k][name] # Zero
    <3> HIDE DEF means, out, v, n
    <3> QED BY <1>3, <1>5
  <2>4. s = [k \in 1 .. l |-> s[k]] /\ \A k \in 1 .. l : s[k] \in S
    OBVIOUS
  <2> HIDE DEF f, t, w, l, s, S, u
  <2>5. s \in Seq(S) /\ Len(s) = l
    BY <2>2, <2>4, ListIn
  <2>6. \A x \in S : /\ Nested(t, x)
                     /\ g[x] = Nothing(t, x) /\ (g[x] = <<>> <=> x = Blank(t))
                     /\ x # Blank(t) => \E name \in Fields[t] : x[name] # Zero
    BY <2>3 DEF S
  <2> HIDE DEF g
  <2>7. u \in Seq(S \ {Blank(t)}) /\ Len(u) <= l /\ CellsOf(f, g, u) = CellsOf(f, g, s)
    <3> DEFINE b == Blank(t)
    <3>1. u = Sifted(s, b) /\ NothingOnly(S, g, b)
      BY <2>6 DEF u, NothingOnly
    <3> HIDE DEF b
    <3>2. SameCells(S, s, b, f, g)
      BY <2>5, <3>1, SiftedCells
    <3> QED BY <2>5, <3>1, <3>2 DEF SameCells, b
  <2>8. IsList(u) /\ \A i \in 1 .. Len(u) : u[i] \in S /\ u[i] # Blank(t)
    <3> DEFINE R == S \ {Blank(t)}
    <3>1. u \in Seq(R)
      BY <2>7
    <3> HIDE DEF R
    <3>2. Len(u) \in Nat /\ u \in [1 .. Len(u) -> R]
      BY <3>1, LenProperties
    <3>3. u = [i \in 1 .. Len(u) |-> u[i]] /\ \A i \in 1 .. Len(u) : u[i] \in R
      BY <3>2
    <3> QED BY <3>2, <3>3 DEF IsList, R
  <2>9. cellsOf(f, u) = CellsOf(f, g, u)
    <3>1. \A i \in 1 .. Len(u) : g[u[i]] = Nothing(t, u[i])
      BY <2>6, <2>8
    <3>2. CellsOf(f, g, u) = FlattenSeq([k \in 1 .. Len(u) |->
                      IF Nothing(t, u[k]) = <<>> THEN <<>>
                      ELSE <<[num |-> f.num, kind |-> f.kind, sub |-> Nothing(t, u[k])]>>])
      BY <3>1 DEF CellsOf, CellOf
    <3>3. f.nested = t /\ t # "none"
      BY <1>5 DEF f, t
    <3> QED BY <3>2, <3>3
  <2>10. cellsOf(f, w) = CellsOf(f, g, s)
    <3>1. \A k \in 1 .. l : g[s[k]] = Nothing(t, w[k])
      BY <2>3, <2>4, <2>6
    <3>2. CellsOf(f, g, s) = FlattenSeq([k \in 1 .. l |->
                      IF Nothing(t, w[k]) = <<>> THEN <<>>
                      ELSE <<[num |-> f.num, kind |-> f.kind, sub |-> Nothing(t, w[k])]>>])
      BY <3>1, <2>5 DEF CellsOf, CellOf
    <3>3. f.nested = t /\ t # "none"
      BY <1>5 DEF f, t
    <3> QED BY <3>2, <3>3 DEF l
  <2>11. cellsOf(f, u) = cellsOf(f, w)
    BY <2>7, <2>9, <2>10
  <2> HIDE DEF sense, cellsOf
  <2>12. \A i \in 1 .. Len(u) : (\E name \in Fields[t] : u[i][name] # Zero) /\ Nested(t, u[i])
    BY <2>6, <2>8
  <2> QED BY <2>1, <2>2, <2>7, <2>8, <2>11, <2>12 DEF f, t, w, l
<1>6. sense = [name \in Fields[type] |-> sense[name]]
  BY DEF SenseFlat, SenseWith
<1>7. WholeFlat(type, sense)
  <2>1. ASSUME NEW f \in Codecs[type].in, f.nested # "none"
        PROVE  /\ IsList(sense[f.name]) /\ (f.name \in Repeated \/ Len(sense[f.name]) <= 1)
               /\ \A k \in 1 .. Len(sense[f.name]) :
                    /\ \E name \in Fields[f.nested] : sense[f.name][k][name] # Zero
                    /\ Nested(f.nested, sense[f.name][k])
    <3>1. PICK j \in 1 .. n : f = out[j]
      BY <1>1
    <3> DEFINE u == sense[f.name]
    <3>2. /\ IsList(u) /\ Len(u) <= Len(v(j)) /\ Len(v(j)) \in Nat
          /\ \A i \in 1 .. Len(u) : (\E name \in Fields[f.nested] : u[i][name] # Zero) /\ Nested(f.nested, u[i])
          /\ (f.name \in Repeated \/ Len(v(j)) <= 1)
      <4> HIDE DEF sense, out, v, n, cellsOf
      <4> QED BY <1>2, <1>5, <2>1, <3>1
    <3>3. Len(u) \in Nat
      BY <3>2 DEF IsList
    <3> DEFINE lu == Len(u)
               lv == Len(v(j))
    <3>4. lu <= 1 \/ f.name \in Repeated
      <4>1. lu \in Nat /\ lv \in Nat /\ lu <= lv /\ (f.name \in Repeated \/ lv <= 1)
        BY <3>2, <3>3
      <4> HIDE DEF lu, lv
      <4> QED BY <4>1
    <3> HIDE DEF u
    <3> QED BY <3>2, <3>4 DEF u
  <2> HIDE DEF sense
  <2> QED BY <1>6, <2>1 DEF WholeFlat, WholeWith
<1>8. /\ MarshalFlat(type, has) = FlattenSeq([j \in 1 .. n |-> cellsOf(out[j], v(j))])
      /\ \A h : MarshalFlat(type, h) = FlattenSeq([j \in 1 .. n |-> cellsOf(out[j], h[out[j].name])])
  BY DEF MarshalFlat, MarshalWith, FieldCells
<1>9. MarshalFlat(type, sense) = MarshalFlat(type, has)
  <2>1. ASSUME NEW j \in 1 .. n PROVE cellsOf(out[j], sense[out[j].name]) = cellsOf(out[j], v(j))
    <3> HIDE DEF sense, out, v, n, cellsOf, means
    <3> QED BY <1>4, <1>5
  <2>2. [j \in 1 .. n |-> cellsOf(out[j], sense[out[j].name])] = [j \in 1 .. n |-> cellsOf(out[j], v(j))]
    <3> HIDE DEF sense, out, v, n, cellsOf
    <3> QED BY <2>1
  <2>3. MarshalFlat(type, sense) = FlattenSeq([j \in 1 .. n |-> cellsOf(out[j], sense[out[j].name])])
    <3> HIDE DEF sense, out, v, n, cellsOf
    <3> QED BY <1>8
  <2> HIDE DEF sense, out, v, n, cellsOf
  <2> QED BY <1>8, <2>2, <2>3
<1>10. ASSUME sense # Blank(type) PROVE MarshalFlat(type, sense) # <<>>
  <2>1. \E name \in Fields[type] : sense[name] # Zero
    <3> HIDE DEF sense
    <3> QED BY <1>6, <1>10 DEF Blank
  <2> HIDE DEF sense
  <2> QED BY <1>7, <2>1, FlatLevel
<1>11. ASSUME sense = Blank(type) PROVE MarshalFlat(type, sense) = <<>>
  <2> DEFINE m == [j \in 1 .. n |-> cellsOf(out[j], sense[out[j].name])]
  <2>1. MarshalFlat(type, sense) = FlattenSeq(m)
    <3> HIDE DEF sense, out, n, cellsOf
    <3> QED BY <1>8
  <2>2. ASSUME NEW j \in 1 .. n PROVE cellsOf(out[j], sense[out[j].name]) = <<>>
    <3>1. sense[out[j].name] = <<>>
      <4>1. out[j].name \in Fields[type]
        BY <1>1
      <4> HIDE DEF sense, out
      <4> QED BY <1>11, <4>1 DEF Blank, Zero
    <3> DEFINE f == out[j]
    <3>2. cellsOf(f, <<>>) = <<>>
      <4>1. CASE f.nested = "none"
        BY <4>1 DEF Zero
      <4>2. CASE f.nested # "none"
        <5>1. [k \in 1 .. Len(<<>>) |->
                      IF Nothing(f.nested, <<>>[k]) = <<>> THEN <<>>
                      ELSE <<[num |-> f.num, kind |-> f.kind, sub |-> Nothing(f.nested, <<>>[k])]>>] = <<>>
          BY EmptySeq
        <5> QED BY <4>2, <5>1, FlattenEmpty
      <4> QED BY <4>1, <4>2
    <3> HIDE DEF sense, cellsOf, out
    <3> QED BY <3>1, <3>2
  <2> HIDE DEF sense, out, n, cellsOf
  <2>3. m = [j \in 1 .. n |-> <<>>] /\ n \in Nat
    BY <1>1, <2>2 DEF n
  <2>4. m \in Seq(Seq({})) /\ Len(m) = n /\ \A j \in 1 .. n : m[j] = <<>>
    <3>1. m \in [1 .. n -> Seq({})] /\ \A j \in 1 .. n : m[j] = <<>>
      BY <2>2, EmptySeq
    <3> HIDE DEF m
    <3> QED BY <2>3, <3>1, SeqDef, LenProperties
  <2> HIDE DEF m
  <2> QED BY <2>1, <2>4, FlattenNothing
<1> HIDE DEF sense
<1> QED BY <1>7, <1>9, <1>10, <1>11 DEF sense

\* What a tunnel means is whole, and encoded as the tunnel is.
LEMMA TunnelSense ==
  ASSUME NEW type \in DOMAIN Codecs, NEW has, ProperTunnel(type, has)
  PROVE  /\ WholeTunnel(type, SenseTunnel(type, has))
         /\ MarshalTunnel(type, SenseTunnel(type, has)) = MarshalTunnel(type, has)
         /\ MarshalTunnel(type, has) = <<>> <=> SenseTunnel(type, has) = Blank(type)
<1> DEFINE out == Codecs[type].out
           n == Len(out)
           v(j) == has[out[j].name]
           sense == SenseTunnel(type, has)
           means(j) == [k \in 1 .. Len(v(j)) |-> SenseFlat(out[j].nested, v(j)[k])]
           cellsOf(f, w) ==
               IF f.nested = "none"
               THEN IF w = Zero THEN <<>> ELSE <<[num |-> f.num, kind |-> f.kind, val |-> w]>>
               ELSE FlattenSeq([k \in 1 .. Len(w) |->
                      IF MarshalFlat(f.nested, w[k]) = <<>> THEN <<>>
                      ELSE <<[num |-> f.num, kind |-> f.kind, sub |-> MarshalFlat(f.nested, w[k])]>>])
<1>1. n \in Nat /\ Codecs[type].in = {out[j] : j \in 1 .. n} /\ Fields[type] = {out[j].name : j \in 1 .. n}
      /\ \A j \in 1 .. n : out[j].nested = "none" \/ out[j].nested \in DOMAIN Codecs
  BY AllCoded DEF WellCoded, WellTable
<1>2. ASSUME NEW j \in 1 .. n, out[j].nested # "none"
      PROVE  /\ IsList(v(j)) /\ (out[j].name \in Repeated \/ Len(v(j)) <= 1)
             /\ \A k \in 1 .. Len(v(j)) : ProperFlat(out[j].nested, v(j)[k])
  <2>1. out[j] \in Codecs[type].in
    BY <1>1
  <2> HIDE DEF out
  <2> QED BY <2>1, <1>2 DEF ProperTunnel, ProperWith
<1>3. ASSUME NEW j \in 1 .. n, NEW k \in 1 .. Len(v(j)), out[j].nested # "none"
      PROVE  LET t == out[j].nested
                 x == means(j)[k]
             IN  /\ WholeFlat(t, x) /\ MarshalFlat(t, x) = MarshalFlat(t, v(j)[k])
                 /\ MarshalFlat(t, x) = <<>> <=> x = Blank(t)
                 /\ x # Blank(t) => \E name \in Fields[t] : x[name] # Zero
  <2> DEFINE t == out[j].nested
             x == SenseFlat(t, v(j)[k])
  <2>0. t # "none" /\ means(j)[k] = x
    BY <1>3
  <2>1. /\ WholeFlat(t, x) /\ MarshalFlat(t, x) = MarshalFlat(t, v(j)[k])
        /\ MarshalFlat(t, v(j)[k]) = <<>> <=> x = Blank(t)
    <3>1. ProperFlat(t, v(j)[k]) /\ t \in DOMAIN Codecs
      <4> HIDE DEF out, v, n, means
      <4> QED BY <1>1, <1>2, <1>3
    <3> HIDE DEF out, v, n, means, t
    <3> QED BY <3>1, FlatSense
  <2>2. x # Blank(t) => \E name \in Fields[t] : x[name] # Zero
    <3> HIDE DEF t, x
    <3>1. x = [name \in Fields[t] |-> x[name]]
      BY <2>1 DEF WholeFlat, WholeWith
    <3> QED BY <2>1, <3>1 DEF Blank
  <2> HIDE DEF x, t
  <2> QED BY <2>0, <2>1, <2>2 DEF t
<1>4. ASSUME NEW j \in 1 .. n
      PROVE  sense[out[j].name] = IF out[j].nested = "none" THEN v(j)
                                  ELSE Sifted(means(j), Blank(out[j].nested))
  <2> DEFINE name == out[j].name
             nested == {f.nested : f \in {x \in Codecs[type].in : x.name = name}} \ {"none"}
             kept(t) == FlattenSeq([k \in 1 .. Len(has[name]) |->
                  IF SenseFlat(t, has[name][k]) = Blank(t) THEN <<>> ELSE <<SenseFlat(t, has[name][k])>>])
  <2>1. name \in Fields[type]
    BY <1>1
  <2>2. sense[name] = IF nested = {} THEN has[name] ELSE kept(CHOOSE t \in nested : TRUE)
    <3> HIDE DEF name
    <3> QED BY <2>1 DEF SenseTunnel, SenseWith
  <2>3. nested = {out[j].nested} \ {"none"}
    <3>1. PICK i \in 1 .. n : out[i].name = name /\ {f \in Codecs[type].in : f.name = name} = {out[i]}
      <4> HIDE DEF name
      <4> QED BY <2>1, KnownField
    <3>2. out[j] \in {f \in Codecs[type].in : f.name = name}
      BY <1>1
    <3>3. {f \in Codecs[type].in : f.name = name} = {out[j]}
      BY <3>1, <3>2
    <3> HIDE DEF out, name
    <3> QED BY <3>3
  <2>4. CASE out[j].nested = "none"
    <3> HIDE DEF nested, kept, sense, out
    <3> QED BY <2>2, <2>3, <2>4
  <2>5. CASE out[j].nested # "none"
    <3>1. sense[name] = kept(out[j].nested)
      <4>1. (CHOOSE t \in nested : TRUE) = out[j].nested /\ nested # {}
        <5> HIDE DEF nested, out
        <5> QED BY <2>3, <2>5
      <4> HIDE DEF nested, kept, sense, out, name
      <4> QED BY <2>2, <4>1
    <3>2. kept(out[j].nested) = Sifted(means(j), Blank(out[j].nested))
      <4> DEFINE t == out[j].nested
                 w == v(j)
                 l == Len(w)
      <4>1. l \in Nat
        BY <1>2, <2>5 DEF IsList
      <4>2. means(j) = [k \in 1 .. l |-> SenseFlat(t, w[k])]
        OBVIOUS
      <4>3. kept(t) = FlattenSeq([k \in 1 .. l |->
                        IF SenseFlat(t, w[k]) = Blank(t) THEN <<>> ELSE <<SenseFlat(t, w[k])>>])
        OBVIOUS
      <4> HIDE DEF t, w, l, kept, means
      <4>4. Len(means(j)) = l /\ \A k \in 1 .. l : means(j)[k] = SenseFlat(t, w[k])
        BY <4>1, <4>2
      <4>5. kept(t) = Sifted(means(j), Blank(t))
        BY <4>3, <4>4 DEF Sifted
      <4> QED BY <4>5 DEF t
    <3> HIDE DEF nested, kept, sense, out, means
    <3> QED BY <3>1, <3>2, <2>5 DEF name
  <2> QED BY <2>4, <2>5
<1>5. ASSUME NEW j \in 1 .. n, out[j].nested # "none"
      PROVE  LET u == sense[out[j].name]
             IN  /\ IsList(u) /\ Len(u) <= Len(v(j)) /\ Len(v(j)) \in Nat
                 /\ \A i \in 1 .. Len(u) : (\E name \in Fields[out[j].nested] : u[i][name] # Zero)
                                           /\ WholeFlat(out[j].nested, u[i])
                 /\ cellsOf(out[j], u) = cellsOf(out[j], v(j))
  <2> DEFINE f == out[j]
             t == f.nested
             w == v(j)
             l == Len(w)
             s == means(j)
             S == {s[k] : k \in 1 .. l}
             g == [x \in S |-> MarshalFlat(t, x)]
             u == Sifted(s, Blank(t))
  <2>1. sense[out[j].name] = u
    <3> HIDE DEF sense, out, means
    <3> QED BY <1>4, <1>5
  <2>2. l \in Nat
    BY <1>2, <1>5 DEF IsList
  <2>3. \A k \in 1 .. l : /\ WholeFlat(t, s[k]) /\ MarshalFlat(t, s[k]) = MarshalFlat(t, w[k])
                          /\ MarshalFlat(t, s[k]) = <<>> <=> s[k] = Blank(t)
                          /\ s[k] # Blank(t) => \E name \in Fields[t] : s[k][name] # Zero
    <3> HIDE DEF means, out, v, n
    <3> QED BY <1>3, <1>5
  <2>4. s = [k \in 1 .. l |-> s[k]] /\ \A k \in 1 .. l : s[k] \in S
    OBVIOUS
  <2> HIDE DEF f, t, w, l, s, S, u
  <2>5. s \in Seq(S) /\ Len(s) = l
    BY <2>2, <2>4, ListIn
  <2>6. \A x \in S : /\ WholeFlat(t, x)
                     /\ g[x] = MarshalFlat(t, x) /\ (g[x] = <<>> <=> x = Blank(t))
                     /\ x # Blank(t) => \E name \in Fields[t] : x[name] # Zero
    BY <2>3 DEF S
  <2> HIDE DEF g
  <2>7. u \in Seq(S \ {Blank(t)}) /\ Len(u) <= l /\ CellsOf(f, g, u) = CellsOf(f, g, s)
    <3> DEFINE b == Blank(t)
    <3>1. u = Sifted(s, b) /\ NothingOnly(S, g, b)
      BY <2>6 DEF u, NothingOnly
    <3> HIDE DEF b
    <3>2. SameCells(S, s, b, f, g)
      BY <2>5, <3>1, SiftedCells
    <3> QED BY <2>5, <3>1, <3>2 DEF SameCells, b
  <2>8. IsList(u) /\ \A i \in 1 .. Len(u) : u[i] \in S /\ u[i] # Blank(t)
    <3> DEFINE R == S \ {Blank(t)}
    <3>1. u \in Seq(R)
      BY <2>7
    <3> HIDE DEF R
    <3>2. Len(u) \in Nat /\ u \in [1 .. Len(u) -> R]
      BY <3>1, LenProperties
    <3>3. u = [i \in 1 .. Len(u) |-> u[i]] /\ \A i \in 1 .. Len(u) : u[i] \in R
      BY <3>2
    <3> QED BY <3>2, <3>3 DEF IsList, R
  <2>9. cellsOf(f, u) = CellsOf(f, g, u)
    <3>1. \A i \in 1 .. Len(u) : g[u[i]] = MarshalFlat(t, u[i])
      BY <2>6, <2>8
    <3>2. CellsOf(f, g, u) = FlattenSeq([k \in 1 .. Len(u) |->
                      IF MarshalFlat(t, u[k]) = <<>> THEN <<>>
                      ELSE <<[num |-> f.num, kind |-> f.kind, sub |-> MarshalFlat(t, u[k])]>>])
      BY <3>1 DEF CellsOf, CellOf
    <3>3. f.nested = t /\ t # "none"
      BY <1>5 DEF f, t
    <3> QED BY <3>2, <3>3
  <2>10. cellsOf(f, w) = CellsOf(f, g, s)
    <3>1. \A k \in 1 .. l : g[s[k]] = MarshalFlat(t, w[k])
      BY <2>3, <2>4, <2>6
    <3>2. CellsOf(f, g, s) = FlattenSeq([k \in 1 .. l |->
                      IF MarshalFlat(t, w[k]) = <<>> THEN <<>>
                      ELSE <<[num |-> f.num, kind |-> f.kind, sub |-> MarshalFlat(t, w[k])]>>])
      BY <3>1, <2>5 DEF CellsOf, CellOf
    <3>3. f.nested = t /\ t # "none"
      BY <1>5 DEF f, t
    <3> QED BY <3>2, <3>3 DEF l
  <2>11. cellsOf(f, u) = cellsOf(f, w)
    BY <2>7, <2>9, <2>10
  <2> HIDE DEF sense, cellsOf
  <2>12. \A i \in 1 .. Len(u) : (\E name \in Fields[t] : u[i][name] # Zero) /\ WholeFlat(t, u[i])
    BY <2>6, <2>8
  <2> QED BY <2>1, <2>2, <2>7, <2>8, <2>11, <2>12 DEF f, t, w, l
<1>6. sense = [name \in Fields[type] |-> sense[name]]
  BY DEF SenseTunnel, SenseWith
<1>7. WholeTunnel(type, sense)
  <2>1. ASSUME NEW f \in Codecs[type].in, f.nested # "none"
        PROVE  /\ IsList(sense[f.name]) /\ (f.name \in Repeated \/ Len(sense[f.name]) <= 1)
               /\ \A k \in 1 .. Len(sense[f.name]) :
                    /\ \E name \in Fields[f.nested] : sense[f.name][k][name] # Zero
                    /\ WholeFlat(f.nested, sense[f.name][k])
    <3>1. PICK j \in 1 .. n : f = out[j]
      BY <1>1
    <3> DEFINE u == sense[f.name]
    <3>2. /\ IsList(u) /\ Len(u) <= Len(v(j)) /\ Len(v(j)) \in Nat
          /\ \A i \in 1 .. Len(u) : (\E name \in Fields[f.nested] : u[i][name] # Zero) /\ WholeFlat(f.nested, u[i])
          /\ (f.name \in Repeated \/ Len(v(j)) <= 1)
      <4> HIDE DEF sense, out, v, n, cellsOf
      <4> QED BY <1>2, <1>5, <2>1, <3>1
    <3>3. Len(u) \in Nat
      BY <3>2 DEF IsList
    <3> DEFINE lu == Len(u)
               lv == Len(v(j))
    <3>4. lu <= 1 \/ f.name \in Repeated
      <4>1. lu \in Nat /\ lv \in Nat /\ lu <= lv /\ (f.name \in Repeated \/ lv <= 1)
        BY <3>2, <3>3
      <4> HIDE DEF lu, lv
      <4> QED BY <4>1
    <3> HIDE DEF u
    <3> QED BY <3>2, <3>4 DEF u
  <2> HIDE DEF sense
  <2> QED BY <1>6, <2>1 DEF WholeTunnel, WholeWith
<1>8. /\ MarshalTunnel(type, has) = FlattenSeq([j \in 1 .. n |-> cellsOf(out[j], v(j))])
      /\ \A h : MarshalTunnel(type, h) = FlattenSeq([j \in 1 .. n |-> cellsOf(out[j], h[out[j].name])])
  BY DEF MarshalTunnel, MarshalWith, FieldCells
<1>9. MarshalTunnel(type, sense) = MarshalTunnel(type, has)
  <2>1. ASSUME NEW j \in 1 .. n PROVE cellsOf(out[j], sense[out[j].name]) = cellsOf(out[j], v(j))
    <3> HIDE DEF sense, out, v, n, cellsOf, means
    <3> QED BY <1>4, <1>5
  <2>2. [j \in 1 .. n |-> cellsOf(out[j], sense[out[j].name])] = [j \in 1 .. n |-> cellsOf(out[j], v(j))]
    <3> HIDE DEF sense, out, v, n, cellsOf
    <3> QED BY <2>1
  <2>3. MarshalTunnel(type, sense) = FlattenSeq([j \in 1 .. n |-> cellsOf(out[j], sense[out[j].name])])
    <3> HIDE DEF sense, out, v, n, cellsOf
    <3> QED BY <1>8
  <2> HIDE DEF sense, out, v, n, cellsOf
  <2> QED BY <1>8, <2>2, <2>3
<1>10. ASSUME sense # Blank(type) PROVE MarshalTunnel(type, sense) # <<>>
  <2>1. \E name \in Fields[type] : sense[name] # Zero
    <3> HIDE DEF sense
    <3> QED BY <1>6, <1>10 DEF Blank
  <2> HIDE DEF sense
  <2> QED BY <1>7, <2>1, TunnelLevel
<1>11. ASSUME sense = Blank(type) PROVE MarshalTunnel(type, sense) = <<>>
  <2> DEFINE m == [j \in 1 .. n |-> cellsOf(out[j], sense[out[j].name])]
  <2>1. MarshalTunnel(type, sense) = FlattenSeq(m)
    <3> HIDE DEF sense, out, n, cellsOf
    <3> QED BY <1>8
  <2>2. ASSUME NEW j \in 1 .. n PROVE cellsOf(out[j], sense[out[j].name]) = <<>>
    <3>1. sense[out[j].name] = <<>>
      <4>1. out[j].name \in Fields[type]
        BY <1>1
      <4> HIDE DEF sense, out
      <4> QED BY <1>11, <4>1 DEF Blank, Zero
    <3> DEFINE f == out[j]
    <3>2. cellsOf(f, <<>>) = <<>>
      <4>1. CASE f.nested = "none"
        BY <4>1 DEF Zero
      <4>2. CASE f.nested # "none"
        <5>1. [k \in 1 .. Len(<<>>) |->
                      IF MarshalFlat(f.nested, <<>>[k]) = <<>> THEN <<>>
                      ELSE <<[num |-> f.num, kind |-> f.kind, sub |-> MarshalFlat(f.nested, <<>>[k])]>>] = <<>>
          BY EmptySeq
        <5> QED BY <4>2, <5>1, FlattenEmpty
      <4> QED BY <4>1, <4>2
    <3> HIDE DEF sense, cellsOf, out
    <3> QED BY <3>1, <3>2
  <2> HIDE DEF sense, out, n, cellsOf
  <2>3. m = [j \in 1 .. n |-> <<>>] /\ n \in Nat
    BY <1>1, <2>2 DEF n
  <2>4. m \in Seq(Seq({})) /\ Len(m) = n /\ \A j \in 1 .. n : m[j] = <<>>
    <3>1. m \in [1 .. n -> Seq({})] /\ \A j \in 1 .. n : m[j] = <<>>
      BY <2>2, EmptySeq
    <3> HIDE DEF m
    <3> QED BY <2>3, <3>1, SeqDef, LenProperties
  <2> HIDE DEF m
  <2> QED BY <2>1, <2>4, FlattenNothing
<1> HIDE DEF sense
<1> QED BY <1>7, <1>9, <1>10, <1>11 DEF sense

\* So is what a message means.
LEMMA MessageSense ==
  ASSUME NEW type \in DOMAIN Codecs, NEW has, Proper(type, has)
  PROVE  /\ Whole(type, Sense(type, has))
         /\ Marshal(type, Sense(type, has)) = Marshal(type, has)
         /\ Marshal(type, has) = <<>> <=> Sense(type, has) = Blank(type)
<1> DEFINE out == Codecs[type].out
           n == Len(out)
           v(j) == has[out[j].name]
           sense == Sense(type, has)
           means(j) == [k \in 1 .. Len(v(j)) |-> SenseTunnel(out[j].nested, v(j)[k])]
           cellsOf(f, w) ==
               IF f.nested = "none"
               THEN IF w = Zero THEN <<>> ELSE <<[num |-> f.num, kind |-> f.kind, val |-> w]>>
               ELSE FlattenSeq([k \in 1 .. Len(w) |->
                      IF MarshalTunnel(f.nested, w[k]) = <<>> THEN <<>>
                      ELSE <<[num |-> f.num, kind |-> f.kind, sub |-> MarshalTunnel(f.nested, w[k])]>>])
<1>1. n \in Nat /\ Codecs[type].in = {out[j] : j \in 1 .. n} /\ Fields[type] = {out[j].name : j \in 1 .. n}
      /\ \A j \in 1 .. n : out[j].nested = "none" \/ out[j].nested \in DOMAIN Codecs
  BY AllCoded DEF WellCoded, WellTable
<1>2. ASSUME NEW j \in 1 .. n, out[j].nested # "none"
      PROVE  /\ IsList(v(j)) /\ (out[j].name \in Repeated \/ Len(v(j)) <= 1)
             /\ \A k \in 1 .. Len(v(j)) : ProperTunnel(out[j].nested, v(j)[k])
  <2>1. out[j] \in Codecs[type].in
    BY <1>1
  <2> HIDE DEF out
  <2> QED BY <2>1, <1>2 DEF Proper, ProperWith
<1>3. ASSUME NEW j \in 1 .. n, NEW k \in 1 .. Len(v(j)), out[j].nested # "none"
      PROVE  LET t == out[j].nested
                 x == means(j)[k]
             IN  /\ WholeTunnel(t, x) /\ MarshalTunnel(t, x) = MarshalTunnel(t, v(j)[k])
                 /\ MarshalTunnel(t, x) = <<>> <=> x = Blank(t)
                 /\ x # Blank(t) => \E name \in Fields[t] : x[name] # Zero
  <2> DEFINE t == out[j].nested
             x == SenseTunnel(t, v(j)[k])
  <2>0. t # "none" /\ means(j)[k] = x
    BY <1>3
  <2>1. /\ WholeTunnel(t, x) /\ MarshalTunnel(t, x) = MarshalTunnel(t, v(j)[k])
        /\ MarshalTunnel(t, v(j)[k]) = <<>> <=> x = Blank(t)
    <3>1. ProperTunnel(t, v(j)[k]) /\ t \in DOMAIN Codecs
      <4> HIDE DEF out, v, n, means
      <4> QED BY <1>1, <1>2, <1>3
    <3> HIDE DEF out, v, n, means, t
    <3> QED BY <3>1, TunnelSense
  <2>2. x # Blank(t) => \E name \in Fields[t] : x[name] # Zero
    <3> HIDE DEF t, x
    <3>1. x = [name \in Fields[t] |-> x[name]]
      BY <2>1 DEF WholeTunnel, WholeWith
    <3> QED BY <2>1, <3>1 DEF Blank
  <2> HIDE DEF x, t
  <2> QED BY <2>0, <2>1, <2>2 DEF t
<1>4. ASSUME NEW j \in 1 .. n
      PROVE  sense[out[j].name] = IF out[j].nested = "none" THEN v(j)
                                  ELSE Sifted(means(j), Blank(out[j].nested))
  <2> DEFINE name == out[j].name
             nested == {f.nested : f \in {x \in Codecs[type].in : x.name = name}} \ {"none"}
             kept(t) == FlattenSeq([k \in 1 .. Len(has[name]) |->
                  IF SenseTunnel(t, has[name][k]) = Blank(t) THEN <<>> ELSE <<SenseTunnel(t, has[name][k])>>])
  <2>1. name \in Fields[type]
    BY <1>1
  <2>2. sense[name] = IF nested = {} THEN has[name] ELSE kept(CHOOSE t \in nested : TRUE)
    <3> HIDE DEF name
    <3> QED BY <2>1 DEF Sense, SenseWith
  <2>3. nested = {out[j].nested} \ {"none"}
    <3>1. PICK i \in 1 .. n : out[i].name = name /\ {f \in Codecs[type].in : f.name = name} = {out[i]}
      <4> HIDE DEF name
      <4> QED BY <2>1, KnownField
    <3>2. out[j] \in {f \in Codecs[type].in : f.name = name}
      BY <1>1
    <3>3. {f \in Codecs[type].in : f.name = name} = {out[j]}
      BY <3>1, <3>2
    <3> HIDE DEF out, name
    <3> QED BY <3>3
  <2>4. CASE out[j].nested = "none"
    <3> HIDE DEF nested, kept, sense, out
    <3> QED BY <2>2, <2>3, <2>4
  <2>5. CASE out[j].nested # "none"
    <3>1. sense[name] = kept(out[j].nested)
      <4>1. (CHOOSE t \in nested : TRUE) = out[j].nested /\ nested # {}
        <5> HIDE DEF nested, out
        <5> QED BY <2>3, <2>5
      <4> HIDE DEF nested, kept, sense, out, name
      <4> QED BY <2>2, <4>1
    <3>2. kept(out[j].nested) = Sifted(means(j), Blank(out[j].nested))
      <4> DEFINE t == out[j].nested
                 w == v(j)
                 l == Len(w)
      <4>1. l \in Nat
        BY <1>2, <2>5 DEF IsList
      <4>2. means(j) = [k \in 1 .. l |-> SenseTunnel(t, w[k])]
        OBVIOUS
      <4>3. kept(t) = FlattenSeq([k \in 1 .. l |->
                        IF SenseTunnel(t, w[k]) = Blank(t) THEN <<>> ELSE <<SenseTunnel(t, w[k])>>])
        OBVIOUS
      <4> HIDE DEF t, w, l, kept, means
      <4>4. Len(means(j)) = l /\ \A k \in 1 .. l : means(j)[k] = SenseTunnel(t, w[k])
        BY <4>1, <4>2
      <4>5. kept(t) = Sifted(means(j), Blank(t))
        BY <4>3, <4>4 DEF Sifted
      <4> QED BY <4>5 DEF t
    <3> HIDE DEF nested, kept, sense, out, means
    <3> QED BY <3>1, <3>2, <2>5 DEF name
  <2> QED BY <2>4, <2>5
<1>5. ASSUME NEW j \in 1 .. n, out[j].nested # "none"
      PROVE  LET u == sense[out[j].name]
             IN  /\ IsList(u) /\ Len(u) <= Len(v(j)) /\ Len(v(j)) \in Nat
                 /\ \A i \in 1 .. Len(u) : (\E name \in Fields[out[j].nested] : u[i][name] # Zero)
                                           /\ WholeTunnel(out[j].nested, u[i])
                 /\ cellsOf(out[j], u) = cellsOf(out[j], v(j))
  <2> DEFINE f == out[j]
             t == f.nested
             w == v(j)
             l == Len(w)
             s == means(j)
             S == {s[k] : k \in 1 .. l}
             g == [x \in S |-> MarshalTunnel(t, x)]
             u == Sifted(s, Blank(t))
  <2>1. sense[out[j].name] = u
    <3> HIDE DEF sense, out, means
    <3> QED BY <1>4, <1>5
  <2>2. l \in Nat
    BY <1>2, <1>5 DEF IsList
  <2>3. \A k \in 1 .. l : /\ WholeTunnel(t, s[k]) /\ MarshalTunnel(t, s[k]) = MarshalTunnel(t, w[k])
                          /\ MarshalTunnel(t, s[k]) = <<>> <=> s[k] = Blank(t)
                          /\ s[k] # Blank(t) => \E name \in Fields[t] : s[k][name] # Zero
    <3> HIDE DEF means, out, v, n
    <3> QED BY <1>3, <1>5
  <2>4. s = [k \in 1 .. l |-> s[k]] /\ \A k \in 1 .. l : s[k] \in S
    OBVIOUS
  <2> HIDE DEF f, t, w, l, s, S, u
  <2>5. s \in Seq(S) /\ Len(s) = l
    BY <2>2, <2>4, ListIn
  <2>6. \A x \in S : /\ WholeTunnel(t, x)
                     /\ g[x] = MarshalTunnel(t, x) /\ (g[x] = <<>> <=> x = Blank(t))
                     /\ x # Blank(t) => \E name \in Fields[t] : x[name] # Zero
    BY <2>3 DEF S
  <2> HIDE DEF g
  <2>7. u \in Seq(S \ {Blank(t)}) /\ Len(u) <= l /\ CellsOf(f, g, u) = CellsOf(f, g, s)
    <3> DEFINE b == Blank(t)
    <3>1. u = Sifted(s, b) /\ NothingOnly(S, g, b)
      BY <2>6 DEF u, NothingOnly
    <3> HIDE DEF b
    <3>2. SameCells(S, s, b, f, g)
      BY <2>5, <3>1, SiftedCells
    <3> QED BY <2>5, <3>1, <3>2 DEF SameCells, b
  <2>8. IsList(u) /\ \A i \in 1 .. Len(u) : u[i] \in S /\ u[i] # Blank(t)
    <3> DEFINE R == S \ {Blank(t)}
    <3>1. u \in Seq(R)
      BY <2>7
    <3> HIDE DEF R
    <3>2. Len(u) \in Nat /\ u \in [1 .. Len(u) -> R]
      BY <3>1, LenProperties
    <3>3. u = [i \in 1 .. Len(u) |-> u[i]] /\ \A i \in 1 .. Len(u) : u[i] \in R
      BY <3>2
    <3> QED BY <3>2, <3>3 DEF IsList, R
  <2>9. cellsOf(f, u) = CellsOf(f, g, u)
    <3>1. \A i \in 1 .. Len(u) : g[u[i]] = MarshalTunnel(t, u[i])
      BY <2>6, <2>8
    <3>2. CellsOf(f, g, u) = FlattenSeq([k \in 1 .. Len(u) |->
                      IF MarshalTunnel(t, u[k]) = <<>> THEN <<>>
                      ELSE <<[num |-> f.num, kind |-> f.kind, sub |-> MarshalTunnel(t, u[k])]>>])
      BY <3>1 DEF CellsOf, CellOf
    <3>3. f.nested = t /\ t # "none"
      BY <1>5 DEF f, t
    <3> QED BY <3>2, <3>3
  <2>10. cellsOf(f, w) = CellsOf(f, g, s)
    <3>1. \A k \in 1 .. l : g[s[k]] = MarshalTunnel(t, w[k])
      BY <2>3, <2>4, <2>6
    <3>2. CellsOf(f, g, s) = FlattenSeq([k \in 1 .. l |->
                      IF MarshalTunnel(t, w[k]) = <<>> THEN <<>>
                      ELSE <<[num |-> f.num, kind |-> f.kind, sub |-> MarshalTunnel(t, w[k])]>>])
      BY <3>1, <2>5 DEF CellsOf, CellOf
    <3>3. f.nested = t /\ t # "none"
      BY <1>5 DEF f, t
    <3> QED BY <3>2, <3>3 DEF l
  <2>11. cellsOf(f, u) = cellsOf(f, w)
    BY <2>7, <2>9, <2>10
  <2> HIDE DEF sense, cellsOf
  <2>12. \A i \in 1 .. Len(u) : (\E name \in Fields[t] : u[i][name] # Zero) /\ WholeTunnel(t, u[i])
    BY <2>6, <2>8
  <2> QED BY <2>1, <2>2, <2>7, <2>8, <2>11, <2>12 DEF f, t, w, l
<1>6. sense = [name \in Fields[type] |-> sense[name]]
  BY DEF Sense, SenseWith
<1>7. Whole(type, sense)
  <2>1. ASSUME NEW f \in Codecs[type].in, f.nested # "none"
        PROVE  /\ IsList(sense[f.name]) /\ (f.name \in Repeated \/ Len(sense[f.name]) <= 1)
               /\ \A k \in 1 .. Len(sense[f.name]) :
                    /\ \E name \in Fields[f.nested] : sense[f.name][k][name] # Zero
                    /\ WholeTunnel(f.nested, sense[f.name][k])
    <3>1. PICK j \in 1 .. n : f = out[j]
      BY <1>1
    <3> DEFINE u == sense[f.name]
    <3>2. /\ IsList(u) /\ Len(u) <= Len(v(j)) /\ Len(v(j)) \in Nat
          /\ \A i \in 1 .. Len(u) : (\E name \in Fields[f.nested] : u[i][name] # Zero) /\ WholeTunnel(f.nested, u[i])
          /\ (f.name \in Repeated \/ Len(v(j)) <= 1)
      <4> HIDE DEF sense, out, v, n, cellsOf
      <4> QED BY <1>2, <1>5, <2>1, <3>1
    <3>3. Len(u) \in Nat
      BY <3>2 DEF IsList
    <3> DEFINE lu == Len(u)
               lv == Len(v(j))
    <3>4. lu <= 1 \/ f.name \in Repeated
      <4>1. lu \in Nat /\ lv \in Nat /\ lu <= lv /\ (f.name \in Repeated \/ lv <= 1)
        BY <3>2, <3>3
      <4> HIDE DEF lu, lv
      <4> QED BY <4>1
    <3> HIDE DEF u
    <3> QED BY <3>2, <3>4 DEF u
  <2> HIDE DEF sense
  <2> QED BY <1>6, <2>1 DEF Whole, WholeWith
<1>8. /\ Marshal(type, has) = FlattenSeq([j \in 1 .. n |-> cellsOf(out[j], v(j))])
      /\ \A h : Marshal(type, h) = FlattenSeq([j \in 1 .. n |-> cellsOf(out[j], h[out[j].name])])
  BY DEF Marshal, MarshalWith, FieldCells
<1>9. Marshal(type, sense) = Marshal(type, has)
  <2>1. ASSUME NEW j \in 1 .. n PROVE cellsOf(out[j], sense[out[j].name]) = cellsOf(out[j], v(j))
    <3> HIDE DEF sense, out, v, n, cellsOf, means
    <3> QED BY <1>4, <1>5
  <2>2. [j \in 1 .. n |-> cellsOf(out[j], sense[out[j].name])] = [j \in 1 .. n |-> cellsOf(out[j], v(j))]
    <3> HIDE DEF sense, out, v, n, cellsOf
    <3> QED BY <2>1
  <2>3. Marshal(type, sense) = FlattenSeq([j \in 1 .. n |-> cellsOf(out[j], sense[out[j].name])])
    <3> HIDE DEF sense, out, v, n, cellsOf
    <3> QED BY <1>8
  <2> HIDE DEF sense, out, v, n, cellsOf
  <2> QED BY <1>8, <2>2, <2>3
<1>10. ASSUME sense # Blank(type) PROVE Marshal(type, sense) # <<>>
  <2>1. \E name \in Fields[type] : sense[name] # Zero
    <3> HIDE DEF sense
    <3> QED BY <1>6, <1>10 DEF Blank
  <2> HIDE DEF sense
  <2> QED BY <1>7, <2>1, MessageLevel
<1>11. ASSUME sense = Blank(type) PROVE Marshal(type, sense) = <<>>
  <2> DEFINE m == [j \in 1 .. n |-> cellsOf(out[j], sense[out[j].name])]
  <2>1. Marshal(type, sense) = FlattenSeq(m)
    <3> HIDE DEF sense, out, n, cellsOf
    <3> QED BY <1>8
  <2>2. ASSUME NEW j \in 1 .. n PROVE cellsOf(out[j], sense[out[j].name]) = <<>>
    <3>1. sense[out[j].name] = <<>>
      <4>1. out[j].name \in Fields[type]
        BY <1>1
      <4> HIDE DEF sense, out
      <4> QED BY <1>11, <4>1 DEF Blank, Zero
    <3> DEFINE f == out[j]
    <3>2. cellsOf(f, <<>>) = <<>>
      <4>1. CASE f.nested = "none"
        BY <4>1 DEF Zero
      <4>2. CASE f.nested # "none"
        <5>1. [k \in 1 .. Len(<<>>) |->
                      IF MarshalTunnel(f.nested, <<>>[k]) = <<>> THEN <<>>
                      ELSE <<[num |-> f.num, kind |-> f.kind, sub |-> MarshalTunnel(f.nested, <<>>[k])]>>] = <<>>
          BY EmptySeq
        <5> QED BY <4>2, <5>1, FlattenEmpty
      <4> QED BY <4>1, <4>2
    <3> HIDE DEF sense, cellsOf, out
    <3> QED BY <3>1, <3>2
  <2> HIDE DEF sense, out, n, cellsOf
  <2>3. m = [j \in 1 .. n |-> <<>>] /\ n \in Nat
    BY <1>1, <2>2 DEF n
  <2>4. m \in Seq(Seq({})) /\ Len(m) = n /\ \A j \in 1 .. n : m[j] = <<>>
    <3>1. m \in [1 .. n -> Seq({})] /\ \A j \in 1 .. n : m[j] = <<>>
      BY <2>2, EmptySeq
    <3> HIDE DEF m
    <3> QED BY <2>3, <3>1, SeqDef, LenProperties
  <2> HIDE DEF m
  <2> QED BY <2>1, <2>4, FlattenNothing
<1> HIDE DEF sense
<1> QED BY <1>7, <1>9, <1>10, <1>11 DEF sense

\* What the decoder makes of the encoding of a message is what the message means:
\* itself, but for blank nested messages, which are left out (helpers.go).
THEOREM RoundTrip ==
  ASSUME NEW type \in DOMAIN Codecs, NEW has, Proper(type, has)
  PROVE  /\ Unmarshal(type, Marshal(type, has)) = Sense(type, has)
         /\ Marshal(type, has) = <<>> <=> Sense(type, has) = Blank(type)
         /\ IsList(Marshal(type, has))
<1> DEFINE sense == Sense(type, has)
<1>1. Whole(type, sense) /\ Marshal(type, sense) = Marshal(type, has)
      /\ (Marshal(type, has) = <<>> <=> sense = Blank(type))
  BY MessageSense
<1> HIDE DEF sense
<1>2. Unmarshal(type, Marshal(type, sense)) = sense /\ IsList(Marshal(type, sense))
  BY <1>1, MessageLevel
<1> QED BY <1>1, <1>2 DEF sense

-----------------------------------------------------------------------------
\* Packets

\* Every message id has one type, and that type an encoder and a decoder
LEMMA TypeOfID ==
  \A type \in DOMAIN MessageID : TypeOf(MessageID[type]) = type /\ type \in DOMAIN Codecs
<1>1. ASSUME NEW type \in DOMAIN MessageID PROVE type \in DOMAIN Codecs
  BY DEF MessageID, Codecs
<1>2. ASSUME NEW type \in DOMAIN MessageID PROVE TypeOf(MessageID[type]) = type
  BY DEF MessageID, TypeOf
<1> QED BY <1>1, <1>2

\* What goes into the encoder for a message
Inside(m) == IF m.type \in ProxyTypes THEN BridgeToPB(m) ELSE m

\* What BridgeToPB makes of a message can be encoded.
LEMMA InsideProper ==
  ASSUME NEW m, Sendable(m)
  PROVE  /\ Inside(m) = [type |-> m.type, has |-> Inside(m).has]
         /\ m.type \in DOMAIN MessageID /\ Proper(m.type, Inside(m).has)
         /\ Held(Inside(m)) = m
<1>1. IsMessage(m) /\ m = [type |-> m.type, has |-> m.has] /\ m.type \in DOMAIN MessageID
  BY DEF Sendable, IsMessage
<1>2. CASE m.type \in ProxyTypes
  <2>1. Inside(m) = BridgeToPB(m)
    BY <1>2 DEF Inside
  <2>2. Proper(m.type, BridgeToPB(m).has) /\ m = BridgeFromPB(BridgeToPB(m))
    BY <1>2 DEF Sendable
  <2>3. BridgeToPB(m).type = m.type /\ BridgeToPB(m) = [type |-> m.type, has |-> BridgeToPB(m).has]
    BY DEF BridgeToPB
  <2> QED BY <1>1, <1>2, <2>1, <2>2, <2>3 DEF Held
<1>3. CASE m.type \notin ProxyTypes
  <2>1. Inside(m) = m
    BY <1>3 DEF Inside
  <2>2. Proper(m.type, m.has)
    BY <1>3 DEF Sendable
  <2> QED BY <1>1, <1>3, <2>1, <2>2 DEF Held
<1> QED BY <1>2, <1>3

\* The cells of a packet

\* A packet is a flag, a length, a head and the fields.
LEMMA PacketCells ==
  ASSUME NEW m, Sendable(m)
  PROVE  LET P == Packet(m)
             payload == Marshal(m.type, Inside(m).has)
             n == Len(payload)
         IN  /\ n \in Nat /\ payload = [i \in 1 .. n |-> payload[i]]
             /\ IsList(P) /\ Len(P) = n + 3
             /\ P[1].k = "flag" /\ P[2].n = n + 1
             /\ P[3].serial = Serial(m.type) /\ P[3].id = MessageID[m.type]
             /\ \A i \in 1 .. n : P[3 + i].field = payload[i]
<1> DEFINE P == Packet(m)
           payload == Marshal(m.type, Inside(m).has)
           n == Len(payload)
           cell(i) == [k |-> "field", field |-> payload[i]]
           tail == [i \in 1 .. n |-> cell(i)]
           flag == [k |-> "flag"]
           length == [k |-> "len", n |-> 1 + n]
           head == [k |-> "head", serial |-> Serial(m.type), id |-> MessageID[m.type]]
           first == <<flag, length, head>>
           T == {flag, length, head} \cup {cell(i) : i \in 1 .. n}
<1>1. Inside(m).type = m.type /\ m.type \in DOMAIN Codecs /\ Proper(m.type, Inside(m).has)
  <2>1. Inside(m).type = m.type
    <3> DEFINE h == Inside(m).has
    <3>1. Inside(m) = [type |-> m.type, has |-> h]
      BY InsideProper
    <3> HIDE DEF h
    <3> QED BY <3>1
  <2>2. m.type \in DOMAIN MessageID /\ Proper(m.type, Inside(m).has)
    BY InsideProper
  <2> QED BY <2>1, <2>2, TypeOfID
<1>2. IsList(payload)
  <2> DEFINE h == Inside(m).has
             type == m.type
  <2>1. type \in DOMAIN Codecs /\ Proper(type, h)
    BY <1>1
  <2> HIDE DEF h, type
  <2>2. IsList(Marshal(type, h))
    BY <2>1, RoundTrip
  <2> QED BY <2>2 DEF h, type
<1>3. n \in Nat /\ payload = [i \in 1 .. n |-> payload[i]]
  BY <1>2 DEF IsList
<1>4. P = first \o tail
  <2>1. P = Encode(Serial(m.type), Inside(m))
    BY DEF Packet, Inside
  <2> QED BY <2>1, <1>1 DEF Encode
<1>5. flag.k = "flag" /\ length.n = n + 1
      /\ head.serial = Serial(m.type) /\ head.id = MessageID[m.type]
      /\ \A i \in 1 .. n : cell(i).field = payload[i]
  BY <1>3
<1>6. tail \in Seq(T) /\ Len(tail) = n /\ \A i \in 1 .. n : tail[i] = cell(i)
  <2>1. \A i \in 1 .. n : cell(i) \in T
    OBVIOUS
  <2> HIDE DEF cell, T, n
  <2>2. tail = [i \in 1 .. n |-> tail[i]] /\ \A i \in 1 .. n : tail[i] = cell(i)
    OBVIOUS
  <2> HIDE DEF tail
  <2> QED BY <1>3, <2>1, <2>2, ListIn
<1>7. first \in Seq(T) /\ Len(first) = 3 /\ first[1] = flag /\ first[2] = length /\ first[3] = head
  <2>1. flag \in T /\ length \in T /\ head \in T
    OBVIOUS
  <2> HIDE DEF flag, length, head, T
  <2> QED BY <2>1
<1> HIDE DEF tail, first, cell, T, flag, length, head, payload, n, P
<1>8. P \in Seq(T) /\ Len(P) = n + 3
      /\ \A i \in 1 .. n + 3 : P[i] = IF i <= 3 THEN first[i] ELSE tail[i - 3]
  <2>1. /\ first \o tail \in Seq(T) /\ Len(first \o tail) = Len(first) + Len(tail)
        /\ \A i \in 1 .. Len(first) + Len(tail) :
             (first \o tail)[i] = IF i <= Len(first) THEN first[i] ELSE tail[i - Len(first)]
    BY <1>6, <1>7, ConcatProperties
  <2>2. Len(first) = 3 /\ Len(tail) = n /\ 3 + n = n + 3
    BY <1>3, <1>6, <1>7
  <2>3. P \in Seq(T) /\ Len(P) = n + 3
    BY <2>1, <2>2, <1>4
  <2>4. ASSUME NEW i \in 1 .. n + 3 PROVE P[i] = IF i <= 3 THEN first[i] ELSE tail[i - 3]
    <3>1. i \in 1 .. Len(first) + Len(tail)
      BY <2>2
    <3>2. P[i] = IF i <= Len(first) THEN first[i] ELSE tail[i - Len(first)]
      BY <2>1, <3>1, <1>4
    <3> QED BY <2>2, <3>2
  <2> QED BY <2>3, <2>4
<1>9. P[1] = flag /\ P[2] = length /\ P[3] = head /\ \A i \in 1 .. n : P[3 + i] = cell(i)
  <2>1. 1 \in 1 .. n + 3 /\ 2 \in 1 .. n + 3 /\ 3 \in 1 .. n + 3
    BY <1>3
  <2>2. ASSUME NEW i \in 1 .. n PROVE P[3 + i] = cell(i)
    <3>1. 3 + i \in 1 .. n + 3 /\ ~(3 + i <= 3) /\ (3 + i) - 3 = i
      BY <1>3
    <3>2. P[3 + i] = tail[(3 + i) - 3]
      BY <3>1, <1>8
    <3> QED BY <3>1, <3>2, <1>6
  <2> QED BY <2>1, <2>2, <1>7, <1>8
<1>10. IsList(P)
  <2>1. Len(P) \in Nat /\ P \in [1 .. Len(P) -> T]
    BY <1>8, LenProperties
  <2>2. P = [k \in 1 .. Len(P) |-> P[k]]
    BY <2>1
  <2> QED BY <2>1, <2>2 DEF IsList
<1> QED BY <1>3, <1>5, <1>8, <1>9, <1>10 DEF payload, n, P

\* Proxy messages hold no others, so that they mean what they are.
LEMMA ProxyFlat == \A type \in ProxyTypes : \A f \in Codecs[type].in : f.nested = "none"
<1>1. ASSUME NEW type \in ProxyTypes PROVE \A f \in Codecs[type].in : f.nested = "none"
  BY DEF ProxyTypes, Codecs, Field, V, B, Pair, TripleUint32, BinaryTriplet, I2OConnect, O2IConnect,
         I2OSendData, O2IRecvData, I2ODisconnect, O2IDisconnect, O2ISendDataResult, I2ORecvDataResult,
         I2OSendToData, O2IRecvDataFrom
<1> QED BY <1>1

LEMMA ProxySense ==
  ASSUME NEW type \in ProxyTypes, NEW has, has = [n \in Fields[type] |-> has[n]]
  PROVE  Sense(type, has) = has
<1>1. ASSUME NEW n \in Fields[type]
      PROVE  {f.nested : f \in {x \in Codecs[type].in : x.name = n}} \ {"none"} = {}
  <2> DEFINE in == Codecs[type].in
  <2>1. \A f \in in : f.nested = "none"
    BY ProxyFlat
  <2> DEFINE known == {x \in in : x.name = n}
             nested == {f.nested : f \in known}
  <2>2. \A f \in known : f.nested = "none"
    BY <2>1
  <2> HIDE DEF known
  <2>3. \A t \in nested : t = "none"
    BY <2>2
  <2> HIDE DEF nested
  <2>4. nested \ {"none"} = {}
    BY <2>3
  <2> QED BY <2>4 DEF nested, known
<1>2. ASSUME NEW n \in Fields[type] PROVE Sense(type, has)[n] = has[n]
  BY <1>1 DEF Sense, SenseWith
<1>3. Sense(type, has) = [n \in Fields[type] |-> Sense(type, has)[n]]
  BY DEF Sense, SenseWith
<1> HIDE DEF Sense
<1> QED BY <1>2, <1>3

\* What a message means has its type, is encoded as the message is, and is what
\* the reader makes of what goes into the encoder when that is read as it means.
LEMMA SenseFacts ==
  ASSUME NEW m, Sendable(m)
  PROVE  /\ SenseOf(m).type = m.type
         /\ SenseOf(m) = Held([type |-> m.type, has |-> Sense(m.type, Inside(m).has)])
         /\ Packet(SenseOf(m)) = Packet(m)
<1>1. /\ Inside(m) = [type |-> m.type, has |-> Inside(m).has]
      /\ m.type \in DOMAIN MessageID /\ Proper(m.type, Inside(m).has)
      /\ Held(Inside(m)) = m
  BY InsideProper
<1>2. CASE m.type \in ProxyTypes
  <2>1. SenseOf(m) = m
    BY <1>2 DEF SenseOf
  <2> DEFINE h == Inside(m).has
             type == m.type
  <2>2. h = [n \in Fields[type] |-> h[n]]
    BY <1>1 DEF Proper, ProperWith
  <2>3. Sense(type, h) = h
    <3> HIDE DEF h, type
    <3>1. type \in ProxyTypes
      BY <1>2 DEF type
    <3> QED BY <2>2, <3>1, ProxySense
  <2> QED BY <1>1, <2>1, <2>3
<1>3. CASE m.type \notin ProxyTypes
  <2> DEFINE h == m.has
             type == m.type
             r == [type |-> type, has |-> Sense(type, h)]
  <2>1. Inside(m) = m /\ m = [type |-> type, has |-> h]
    BY <1>1, <1>3 DEF Inside
  <2>2. SenseOf(m) = r
    <3>1. SenseOf(m) = [m EXCEPT !.has = Sense(type, h)]
      BY <1>3 DEF SenseOf
    <3> DEFINE z == Sense(type, h)
    <3> HIDE DEF h, type, z
    <3> QED BY <2>1, <3>1 DEF z
  <2>3. r.type = type /\ r.has = Sense(type, h)
    OBVIOUS
  <2> HIDE DEF r
  <2>4. Held(r) = r
    BY <1>3, <2>3 DEF Held
  <2>5. Marshal(type, Sense(type, h)) = Marshal(type, h)
    <3>1. type \in DOMAIN Codecs /\ Proper(type, h)
      BY <1>1, <2>1, TypeOfID
    <3> HIDE DEF h, type
    <3> QED BY <3>1, MessageSense
  <2>6. Packet(r) = Packet(m)
    <3>1. Packet(r) = Encode(Serial(type), r) /\ Packet(m) = Encode(Serial(type), m)
      BY <1>3, <2>3 DEF Packet
    <3>2. Encode(Serial(type), r) = Encode(Serial(type), m)
      BY <2>3, <2>5 DEF Encode
    <3> QED BY <3>1, <3>2
  <2> QED BY <2>1, <2>2, <2>3, <2>4, <2>6 DEF r
<1> QED BY <1>2, <1>3

\* The packet of every message that can be sent is a flag, the length of what
\* follows, and a frame that is decoded into what the message means: the message
\* itself, but for nested messages that are all zero, which are read as nil; the
\* proxy messages with their bridge (codec/frame.go, proto/ids.go, helpers.go:57).
THEOREM PacketIsDecoded ==
  ASSUME NEW m, Sendable(m)
  PROVE  /\ IsList(Packet(m)) /\ Len(Packet(m)) >= 3
         /\ Packet(m)[1].k = "flag" /\ Packet(m)[2].n = Len(Packet(m)) - 2
         /\ [Decode(SubSeq(Packet(m), 3, Len(Packet(m)))) EXCEPT !.msg = Held(@)] = Understood(Entry(m))
<1> DEFINE P == Packet(m)
           payload == Marshal(m.type, Inside(m).has)
           n == Len(payload)
           frame == SubSeq(P, 3, Len(P))
           T == {P[k] : k \in 1 .. Len(P)}
<1>1. /\ n \in Nat /\ payload = [i \in 1 .. n |-> payload[i]]
      /\ IsList(P) /\ Len(P) = n + 3
      /\ P[1].k = "flag" /\ P[2].n = n + 1
      /\ P[3].serial = Serial(m.type) /\ P[3].id = MessageID[m.type]
      /\ \A i \in 1 .. n : P[3 + i].field = payload[i]
  BY PacketCells
<1> HIDE DEF P, payload, n
<1>2. Len(frame) = n + 1 /\ \A i \in 1 .. n + 1 : frame[i] = P[i + 2]
  <2>1. \A i \in 3 .. Len(P) : P[i] \in T
    BY <1>1
  <2> HIDE DEF T
  <2>2. 3 \in Int /\ Len(P) \in Int
    BY <1>1
  <2>3. /\ Len(frame) = IF 3 <= Len(P) THEN Len(P) - 3 + 1 ELSE 0
        /\ \A i \in 1 .. Len(P) - 3 + 1 : frame[i] = P[3 + i - 1]
    BY <2>1, <2>2, SubSeqProperties
  <2> HIDE DEF frame
  <2>4. Len(frame) = n + 1
    BY <1>1, <2>3
  <2>5. ASSUME NEW i \in 1 .. n + 1 PROVE frame[i] = P[i + 2]
    <3>1. i \in 1 .. Len(P) - 3 + 1 /\ 3 + i - 1 = i + 2
      BY <1>1
    <3> QED BY <3>1, <2>3
  <2> QED BY <2>4, <2>5
<1> HIDE DEF frame
<1>3. frame[1].serial = Serial(m.type) /\ frame[1].id = MessageID[m.type]
  <2>1. frame[1] = P[3]
    <3>1. 1 \in 1 .. n + 1 /\ 1 + 2 = 3
      BY <1>1
    <3> QED BY <3>1, <1>2
  <2> QED BY <2>1, <1>1
<1>4. [i \in 1 .. Len(frame) - 1 |-> frame[i + 1].field] = payload
  <2>1. Len(frame) - 1 = n
    BY <1>1, <1>2
  <2>2. ASSUME NEW i \in 1 .. n PROVE frame[i + 1].field = payload[i]
    <3>1. i + 1 \in 1 .. n + 1 /\ i + 1 + 2 = 3 + i
      BY <1>1
    <3>2. frame[i + 1] = P[3 + i]
      BY <3>1, <1>2
    <3> QED BY <3>2, <1>1
  <2>3. [i \in 1 .. n |-> frame[i + 1].field] = [i \in 1 .. n |-> payload[i]]
    BY <2>2
  <2> QED BY <2>1, <2>3, <1>1
<1>5. /\ Inside(m) = [type |-> m.type, has |-> Inside(m).has]
      /\ m.type \in DOMAIN MessageID /\ Proper(m.type, Inside(m).has)
      /\ Held(Inside(m)) = m
  BY InsideProper
<1>6. TypeOf(frame[1].id) = m.type /\ m.type \in DOMAIN Codecs
  BY <1>3, <1>5, TypeOfID
<1>7. Unmarshal(m.type, payload) = Sense(m.type, Inside(m).has)
  <2> DEFINE h == Inside(m).has
             type == m.type
  <2>1. type \in DOMAIN Codecs /\ Proper(type, h) /\ payload = Marshal(type, h)
    BY <1>5, <1>6 DEF payload
  <2> HIDE DEF h, type
  <2>2. Unmarshal(type, Marshal(type, h)) = Sense(type, h)
    BY <2>1, RoundTrip
  <2> QED BY <2>1, <2>2 DEF h, type
<1>8. Decode(frame) = [serial |-> Serial(m.type), msg |-> [type |-> m.type, has |-> Sense(m.type, Inside(m).has)]]
  <2>1. Decode(frame) = [serial |-> frame[1].serial,
                         msg |-> [type |-> TypeOf(frame[1].id),
                                  has |-> Unmarshal(TypeOf(frame[1].id),
                                            [i \in 1 .. Len(frame) - 1 |-> frame[i + 1].field])]]
    BY DEF Decode
  <2> QED BY <2>1, <1>3, <1>4, <1>6, <1>7
<1>9. [Decode(frame) EXCEPT !.msg = Held(@)] = Understood(Entry(m))
  <2> DEFINE d == Decode(frame)
             i == [type |-> m.type, has |-> Sense(m.type, Inside(m).has)]
             s == Serial(m.type)
             r == SenseOf(m)
  <2>1. d = [serial |-> s, msg |-> i] /\ Held(i) = r
    BY <1>8, SenseFacts
  <2>2. Understood(Entry(m)) = [serial |-> s, msg |-> r]
    <3>1. Entry(m) = [serial |-> s, msg |-> m]
      BY DEF Entry
    <3> HIDE DEF s
    <3> QED BY <3>1 DEF Understood
  <2> HIDE DEF d, i, s, r
  <2>3. [d EXCEPT !.msg = Held(@)] = [serial |-> s, msg |-> Held(i)]
    BY <2>1
  <2> QED BY <2>1, <2>2, <2>3 DEF d
<1>10. Len(P) >= 3 /\ P[2].n = Len(P) - 2
  BY <1>1
<1> QED BY <1>1, <1>9, <1>10 DEF P, frame

-----------------------------------------------------------------------------
\* Streams of packets, cut anywhere

\* What is sent and what is understood of it
Raw == First.client \cup First.server \cup Behind
Msgs == {SenseOf(m) : m \in Raw}
Originals == {Entry(m) : m \in Raw}
Entries == {Entry(m) : m \in Msgs}
Cell == UNION {{Packet(m)[k] : k \in 1 .. Len(Packet(m))} : m \in Msgs}

\* The bytes of the packets of messages sent
Packets(todo) == [k \in 1 .. Len(todo) |-> Packet(todo[k].msg)]
Bytes(todo) == FlattenSeq(Packets(todo))

\* A function over 1 .. n is a sequence.
LEMMA FunctionIsSeq ==
  ASSUME NEW n \in Nat, NEW T, NEW s \in [1 .. n -> T]
  PROVE  s \in Seq(T) /\ Len(s) = n
BY SeqDef, LenProperties

LEMMA UnderstoodEntry == ASSUME NEW m, Sendable(m) PROVE Understood(Entry(m)) = Entry(SenseOf(m))
<1> DEFINE s == Serial(m.type)
           r == SenseOf(m)
<1>1. Entry(m) = [serial |-> s, msg |-> m] /\ Entry(r) = [serial |-> s, msg |-> r]
  BY SenseFacts DEF Entry
<1> HIDE DEF s
<1>2. Understood([serial |-> s, msg |-> m]) = [serial |-> s, msg |-> r]
  BY DEF Understood
<1> QED BY <1>1, <1>2

\* What the reader does to the packet of a message gives back its entry.
LEMMA EntryFacts ==
  ASSUME NEW e \in Entries
  PROVE  LET P == Packet(e.msg)
         IN  /\ e.msg \in Msgs /\ P \in Seq(Cell) /\ Len(P) >= 3
             /\ P[1].k = "flag" /\ P[2].n = Len(P) - 2
             /\ [Decode(SubSeq(P, 3, Len(P))) EXCEPT !.msg = Held(@)] = e
<1>1. PICK m \in Raw : e = Entry(SenseOf(m)) /\ SenseOf(m) \in Msgs
  BY DEF Entries, Msgs
<1>2. e.msg = SenseOf(m)
  BY <1>1 DEF Entry
<1>3. Sendable(m)
  BY WireAssumption DEF Raw
<1> DEFINE P == Packet(e.msg)
<1>4. /\ IsList(P) /\ Len(P) >= 3 /\ P[1].k = "flag" /\ P[2].n = Len(P) - 2
      /\ [Decode(SubSeq(P, 3, Len(P))) EXCEPT !.msg = Held(@)] = e
  <2>1. P = Packet(m) /\ Understood(Entry(m)) = e
    BY <1>1, <1>2, <1>3, SenseFacts, UnderstoodEntry
  <2> HIDE DEF P
  <2> QED BY <1>3, <2>1, PacketIsDecoded
<1>5. P \in Seq(Cell)
  <2>1. \A k \in 1 .. Len(P) : P[k] \in Cell
    <3> DEFINE x == e.msg
    <3>1. x \in Msgs
      BY <1>1, <1>2
    <3> HIDE DEF x
    <3>2. \A k \in 1 .. Len(Packet(x)) : Packet(x)[k] \in Cell
      BY <3>1 DEF Cell
    <3> QED BY <3>2 DEF x
  <2> HIDE DEF P
  <2>2. Len(P) \in Nat /\ P = [k \in 1 .. Len(P) |-> P[k]]
    BY <1>4 DEF IsList
  <2> DEFINE l == Len(P)
  <2>3. l \in Nat /\ P = [k \in 1 .. l |-> P[k]] /\ \A k \in 1 .. l : P[k] \in Cell
    BY <2>1, <2>2
  <2> HIDE DEF l
  <2> QED BY <2>3, ListIn
<1> HIDE DEF P
<1> QED BY <1>1, <1>2, <1>4, <1>5 DEF P

\* Packets are sequences of cells.
LEMMA PacketType == ASSUME NEW m \in Msgs PROVE Packet(m) \in Seq(Cell) /\ Packet(m) # <<>> /\ Entry(m) \in Entries
<1>1. Entry(m) \in Entries /\ Entry(m).msg = m
  BY DEF Entries, Entry
<1>2. Packet(Entry(m).msg) \in Seq(Cell) /\ Len(Packet(Entry(m).msg)) >= 3
  BY <1>1, EntryFacts
<1>3. Len(Packet(m)) >= 3 /\ Packet(m) \in Seq(Cell)
  BY <1>1, <1>2
<1> QED BY <1>1, <1>3, EmptySeq

LEMMA BytesType ==
  ASSUME NEW todo \in Seq(Entries)
  PROVE  Packets(todo) \in Seq(Seq(Cell)) /\ Len(Packets(todo)) = Len(todo) /\ Bytes(todo) \in Seq(Cell)
<1>1. Len(todo) \in Nat /\ \A k \in 1 .. Len(todo) : Packet(todo[k].msg) \in Seq(Cell)
  BY LenProperties, ElementOfSeq, EntryFacts
<1>2. Packets(todo) \in [1 .. Len(todo) -> Seq(Cell)]
  BY <1>1 DEF Packets
<1>3. Packets(todo) \in Seq(Seq(Cell)) /\ Len(Packets(todo)) = Len(todo)
  BY <1>1, <1>2, FunctionIsSeq
<1> QED BY <1>3, FlattenType DEF Bytes

\* The bytes of messages sent one after another
LEMMA BytesConcat ==
  ASSUME NEW a \in Seq(Entries), NEW b \in Seq(Entries)
  PROVE  Bytes(a \o b) = Bytes(a) \o Bytes(b)
<1>1. a \o b \in Seq(Entries) /\ Len(a \o b) = Len(a) + Len(b) /\ Len(a) \in Nat /\ Len(b) \in Nat
      /\ \A k \in 1 .. Len(a) + Len(b) : (a \o b)[k] = IF k <= Len(a) THEN a[k] ELSE b[k - Len(a)]
  BY ConcatProperties, LenProperties
<1>2. Packets(a) \in Seq(Seq(Cell)) /\ Packets(b) \in Seq(Seq(Cell)) /\ Packets(a \o b) \in Seq(Seq(Cell))
      /\ Len(Packets(a)) = Len(a) /\ Len(Packets(b)) = Len(b) /\ Len(Packets(a \o b)) = Len(a) + Len(b)
  BY <1>1, BytesType
<1>3. Packets(a \o b) = Packets(a) \o Packets(b)
  <2> DEFINE c == a \o b
             p == Packets(c)
             q == Packets(a) \o Packets(b)
  <2>1. q \in Seq(Seq(Cell)) /\ Len(q) = Len(a) + Len(b)
        /\ \A k \in 1 .. Len(a) + Len(b) :
             q[k] = IF k <= Len(a) THEN Packets(a)[k] ELSE Packets(b)[k - Len(a)]
    <3> DEFINE u == Packets(a)
               w == Packets(b)
               T == Seq(Cell)
    <3>1. u \in Seq(T) /\ w \in Seq(T) /\ Len(u) = Len(a) /\ Len(w) = Len(b)
      BY <1>2
    <3> HIDE DEF u, w, T
    <3>2. /\ u \o w \in Seq(T) /\ Len(u \o w) = Len(u) + Len(w)
          /\ \A k \in 1 .. Len(u) + Len(w) : (u \o w)[k] = IF k <= Len(u) THEN u[k] ELSE w[k - Len(u)]
      BY <3>1, ConcatProperties
    <3> QED BY <3>1, <3>2 DEF u, w, T
  <2>2. p \in Seq(Seq(Cell)) /\ Len(p) = Len(a) + Len(b)
    BY <1>2
  <2>3. ASSUME NEW k \in 1 .. Len(a) + Len(b) PROVE p[k] = q[k]
    <3>1. p[k] = Packet(c[k].msg)
      BY <1>1 DEF Packets
    <3>2. CASE k <= Len(a)
      <4>1. k \in 1 .. Len(a) /\ c[k] = a[k]
        BY <1>1, <3>2
      <4>2. Packets(a)[k] = Packet(a[k].msg)
        BY <4>1 DEF Packets
      <4> HIDE DEF c, p, q
      <4> QED BY <3>1, <3>2, <4>1, <4>2, <2>1
    <3>3. CASE ~(k <= Len(a))
      <4>1. k - Len(a) \in 1 .. Len(b) /\ c[k] = b[k - Len(a)]
        BY <1>1, <3>3
      <4>2. Packets(b)[k - Len(a)] = Packet(b[k - Len(a)].msg)
        BY <4>1 DEF Packets
      <4> HIDE DEF c, p, q
      <4> QED BY <3>1, <3>3, <4>1, <4>2, <2>1
    <3> QED BY <3>2, <3>3
  <2> HIDE DEF p, q, c
  <2>4. p = q
    BY <2>1, <2>2, <2>3, SeqEqual
  <2> QED BY <2>4 DEF p, q, c
<1> QED BY <1>2, <1>3, FlattenConcat DEF Bytes

LEMMA BytesOne == ASSUME NEW e \in Entries PROVE <<e>> \in Seq(Entries) /\ Bytes(<<e>>) = Packet(e.msg)
<1>1. Packets(<<e>>) = <<Packet(e.msg)>>
  BY DEF Packets
<1>2. Packet(e.msg) \in Seq(Cell)
  BY EntryFacts
<1> QED BY <1>1, <1>2, FlattenOne DEF Bytes

LEMMA BytesEmpty == Bytes(<<>>) = <<>>
<1>1. Packets(<<>>) = <<>>
  BY DEF Packets
<1> QED BY <1>1, FlattenEmpty DEF Bytes

\* Equal streams, cut differently
LEMMA CutOff ==
  ASSUME NEW T, NEW c \in Seq(T), NEW x \in Seq(T), NEW p \in Seq(T), NEW y \in Seq(T), Cat(c, x) = Cat(p, y)
  PROVE  /\ \A k \in 1 .. Len(c) : k <= Len(p) => c[k] = p[k]
         /\ Len(p) <= Len(c) => Cat(SubSeq(c, Len(p) + 1, Len(c)), x) = y
<1>0. c \o x = p \o y
  BY DEF Cat
<1>1. /\ Len(c) \in Nat /\ Len(x) \in Nat /\ Len(p) \in Nat /\ Len(y) \in Nat
      /\ Len(c \o x) = Len(c) + Len(x) /\ Len(p \o y) = Len(p) + Len(y)
      /\ \A k \in 1 .. Len(c) + Len(x) : (c \o x)[k] = IF k <= Len(c) THEN c[k] ELSE x[k - Len(c)]
      /\ \A k \in 1 .. Len(p) + Len(y) : (p \o y)[k] = IF k <= Len(p) THEN p[k] ELSE y[k - Len(p)]
  BY ConcatProperties, LenProperties
<1>2. Len(c) + Len(x) = Len(p) + Len(y)
  BY <1>0, <1>1
<1>3. ASSUME NEW k \in 1 .. Len(c), k <= Len(p) PROVE c[k] = p[k]
  <2>1. k \in 1 .. Len(c) + Len(x) /\ k \in 1 .. Len(p) + Len(y) /\ k <= Len(c)
    BY <1>1, <1>3
  <2> QED BY <2>1, <1>0, <1>1, <1>3
<1>4. ASSUME Len(p) <= Len(c) PROVE Cat(SubSeq(c, Len(p) + 1, Len(c)), x) = y
  <2> DEFINE front == SubSeq(c, 1, Len(p))
             back == SubSeq(c, Len(p) + 1, Len(c))
  <2>1. front \o back = c
    <3>1. front \o back = SubSeq(c, 1, Len(c))
      <4>1. Len(p) \in Nat /\ Len(c) \in Nat /\ Len(p) <= Len(c) /\ Len(c) <= Len(c)
        BY <1>1, <1>4
      <4> QED BY <4>1, SplitFront
    <3>2. SubSeq(c, 1, Len(c)) = c
      BY SubSeqFull
    <3> QED BY <3>1, <3>2
  <2>2. front \in Seq(T) /\ Len(front) = Len(p) /\ \A k \in 1 .. Len(p) : front[k] = c[k]
    <3>1. 1 \in Int /\ Len(p) \in Int /\ \A k \in 1 .. Len(p) : c[k] \in T
      BY <1>1, <1>4, ElementOfSeq
    <3>2. /\ front \in Seq(T) /\ Len(front) = IF 1 <= Len(p) THEN Len(p) - 1 + 1 ELSE 0
          /\ \A k \in 1 .. Len(p) - 1 + 1 : front[k] = c[1 + k - 1]
      BY <3>1, SubSeqProperties
    <3> HIDE DEF front
    <3>3. \A k \in 1 .. Len(p) : k \in 1 .. Len(p) - 1 + 1 /\ 1 + k - 1 = k
      BY <1>1
    <3> QED BY <3>2, <3>3, <1>1
  <2>3. back \in Seq(T)
    <3>1. Len(p) + 1 \in Int /\ Len(c) \in Int /\ \A k \in Len(p) + 1 .. Len(c) : c[k] \in T
      BY <1>1, ElementOfSeq
    <3> QED BY <3>1, SubSeqProperties
  <2> HIDE DEF front, back
  <2>4. front = p
    <3>1. \A k \in 1 .. Len(front) : front[k] = p[k]
      BY <2>2, <1>1, <1>3, <1>4
    <3> QED BY <3>1, <2>2, SeqEqual
  <2>5. p \o (back \o x) = p \o y
    <3>1. (p \o back) \o x = p \o (back \o x)
      BY <2>3, ConcatAssociative
    <3> QED BY <3>1, <2>1, <2>4, <1>0
  <2>6. back \o x \in Seq(T)
    BY <2>3, ConcatProperties
  <2>7. back \o x = y
    BY <2>5, <2>6, ConcatSimplifications
  <2> QED BY <2>7 DEF back, Cat
<1> QED BY <1>3, <1>4

\* At the front of a stream of packets a frame is found only if its packet is
\* there whole, and then it is that packet's.
THEOREM FramesAreWhole ==
  ASSUME NEW e \in Entries, NEW c \in Seq(Cell), NEW x \in Seq(Cell), NEW y \in Seq(Cell), NEW max,
         Cat(c, x) = Cat(Packet(e.msg), y), TryExtractFrame(c, max).kind = "frame"
  PROVE  /\ Len(Packet(e.msg)) <= Len(c)
         /\ TryExtractFrame(c, max).frame = SubSeq(Packet(e.msg), 3, Len(Packet(e.msg)))
<1> DEFINE P == Packet(e.msg)
<1>1. P \in Seq(Cell) /\ Len(P) >= 3 /\ P[1].k = "flag" /\ P[2].n = Len(P) - 2
  BY EntryFacts
<1>2. Cat(c, x) = Cat(P, y)
  OBVIOUS
<1> HIDE DEF P
<1>3. Len(c) \in Nat /\ Len(P) \in Nat
  BY <1>1, LenProperties
<1>4. \A k \in 1 .. Len(c) : k <= Len(P) => c[k] = P[k]
  BY <1>1, <1>2, CutOff
<1>5. c # <<>> /\ Len(c) # 1
  BY DEF TryExtractFrame, NoFrame, BadFrame
<1>6. Len(c) >= 2
  <2>1. Len(c) # 0
    BY <1>5, EmptySeq
  <2> DEFINE l == Len(c)
  <2>2. l \in Nat /\ l # 0 /\ l # 1
    BY <2>1, <1>3, <1>5
  <2> HIDE DEF l
  <2>3. l >= 2
    BY <2>2
  <2> QED BY <2>3 DEF l
<1>7. c[2] = P[2] /\ c[2].n = Len(P) - 2
  <2>1. 2 \in 1 .. Len(c) /\ 2 <= Len(P)
    BY <1>1, <1>3, <1>6
  <2> QED BY <2>1, <1>1, <1>4
<1>8. ~(Len(c) < 2 + c[2].n) /\ TryExtractFrame(c, max).frame = SubSeq(c, 3, 2 + c[2].n)
  BY <1>5 DEF TryExtractFrame, NoFrame, BadFrame
<1>9. Len(P) <= Len(c) /\ 2 + c[2].n = Len(P)
  BY <1>3, <1>7, <1>8
<1>10. SubSeq(c, 3, Len(P)) = SubSeq(P, 3, Len(P))
  <2>1. \A k \in 3 .. Len(P) : c[k] = P[k] /\ c[k] \in Cell
    <3>1. \A k \in 3 .. Len(P) : k \in 1 .. Len(c) /\ k <= Len(P)
      BY <1>3, <1>9
    <3> QED BY <3>1, <1>4, ElementOfSeq
  <2> DEFINE a == SubSeq(c, 3, Len(P))
             b == SubSeq(P, 3, Len(P))
  <2>2. 3 \in Int /\ Len(P) \in Int
    BY <1>3
  <2>3. /\ a \in Seq(Cell) /\ Len(a) = IF 3 <= Len(P) THEN Len(P) - 3 + 1 ELSE 0
        /\ \A i \in 1 .. Len(P) - 3 + 1 : a[i] = c[3 + i - 1]
    BY <2>1, <2>2, SubSeqProperties
  <2>4. /\ b \in Seq(Cell) /\ Len(b) = IF 3 <= Len(P) THEN Len(P) - 3 + 1 ELSE 0
        /\ \A i \in 1 .. Len(P) - 3 + 1 : b[i] = P[3 + i - 1]
    <3>1. \A k \in 3 .. Len(P) : P[k] \in Cell
      BY <2>1
    <3> QED BY <3>1, <2>2, SubSeqProperties
  <2> HIDE DEF a, b
  <2>5. \A i \in 1 .. Len(P) - 3 + 1 : 3 + i - 1 \in 3 .. Len(P)
    BY <1>3
  <2>6. Len(a) = Len(b) /\ Len(a) = Len(P) - 3 + 1
    BY <2>3, <2>4, <1>1
  <2>7. \A i \in 1 .. Len(a) : a[i] = b[i]
    BY <2>1, <2>3, <2>4, <2>5, <2>6
  <2>8. a = b
    BY <2>3, <2>4, <2>6, <2>7, SeqEqual
  <2> QED BY <2>8 DEF a, b
<1> QED BY <1>8, <1>9, <1>10 DEF P

-----------------------------------------------------------------------------
\* The reader's memory

\* The cells of slice s of memory m
Slice(m, s) == IF s.buf = None THEN <<>> ELSE SubSeq(m[s.buf].cells, s.from + 1, s.to)

\* The reader's memory m, its cache s and the slices of datagrams that wait
Kept(m, s, ref) ==
    /\ ref.buf \in Buffers /\ ref.at \in 1 .. Len(m[ref.buf].cells)
    /\ m[ref.buf].cells[ref.at].field.val = ref.want
    /\ ref.buf = s.buf => ref.at <= s.from

MemOK(m, s) ==
    /\ \A b \in Buffers : m[b].cap \in Nat /\ m[b].cells \in Seq(Cell)
    /\ m = [b \in Buffers |-> [cap |-> m[b].cap, cells |-> m[b].cells]]
    /\ s = [buf |-> s.buf, from |-> s.from, to |-> s.to]
    /\ s.buf \in Buffers \cup {None} /\ s.from \in Nat /\ s.to \in Nat
    /\ s.buf = None => s.from = 0 /\ s.to = 0
    /\ s.buf # None => s.from <= s.to /\ s.to <= Len(m[s.buf].cells)

Holds(m, s, refs) == \A k \in DOMAIN refs : Kept(m, s, refs[k])

\* A slice has the cells of its buffer from its start to its end.
LEMMA SliceType ==
  ASSUME NEW m, NEW s, MemOK(m, s)
  PROVE  Slice(m, s) \in Seq(Cell) /\ Len(Slice(m, s)) = s.to - s.from
         /\ (s.buf # None => \A k \in 1 .. s.to - s.from : Slice(m, s)[k] = m[s.buf].cells[s.from + k])
<1>1. CASE s.buf = None
  <2>1. Slice(m, s) = <<>> /\ s.to = 0 /\ s.from = 0
    BY <1>1 DEF Slice, MemOK
  <2> QED BY <2>1, <1>1, EmptySeq
<1>2. CASE s.buf # None
  <2> DEFINE c == m[s.buf].cells
             f == s.from
             t == s.to
  <2>1. Slice(m, s) = SubSeq(c, f + 1, t)
    BY <1>2 DEF Slice
  <2>2. c \in Seq(Cell) /\ f \in Nat /\ t \in Nat /\ f <= t /\ t <= Len(c)
    BY <1>2 DEF MemOK
  <2> HIDE DEF c, f, t
  <2>3. Len(c) \in Nat /\ f + 1 \in Int /\ t \in Int /\ \A k \in f + 1 .. t : c[k] \in Cell
    BY <2>2, LenProperties, ElementOfSeq
  <2>4. /\ SubSeq(c, f + 1, t) \in Seq(Cell)
        /\ Len(SubSeq(c, f + 1, t)) = IF f + 1 <= t THEN t - (f + 1) + 1 ELSE 0
        /\ \A i \in 1 .. t - (f + 1) + 1 : SubSeq(c, f + 1, t)[i] = c[f + 1 + i - 1]
    BY <2>3, SubSeqProperties
  <2>5. Len(SubSeq(c, f + 1, t)) = t - f
    BY <2>2, <2>4
  <2>6. ASSUME NEW k \in 1 .. t - f PROVE SubSeq(c, f + 1, t)[k] = c[f + k]
    <3>1. k \in 1 .. t - (f + 1) + 1 /\ f + 1 + k - 1 = f + k
      BY <2>2
    <3> QED BY <3>1, <2>4
  <2> QED BY <2>1, <2>4, <2>5, <2>6 DEF c, f, t
<1> QED BY <1>1, <1>2

\* Collect keeps what a slice uses.
LEMMA Collected ==
  ASSUME NEW m, NEW s, NEW refs, MemOK(m, s), Holds(m, s, refs)
  PROVE  /\ MemOK(Collect(m, s, refs), s) /\ Holds(Collect(m, s, refs), s, refs)
         /\ Slice(Collect(m, s, refs), s) = Slice(m, s)
<1> DEFINE n == Collect(m, s, refs)
<1>1. n = [b \in Buffers |-> n[b]]
  BY DEF Collect
<1>2. \A b \in Buffers : n[b] = m[b] \/ n[b] = [cap |-> 0, cells |-> <<>>]
  BY DEF Collect
<1>3. \A b \in Buffers : s.buf = b => n[b] = m[b]
  BY DEF Collect
<1>4. \A k \in DOMAIN refs : \A b \in Buffers : refs[k].buf = b => n[b] = m[b]
  BY DEF Collect
<1> HIDE DEF n
<1>5. MemOK(n, s)
  <2>1. ASSUME NEW b \in Buffers
        PROVE  n[b].cap \in Nat /\ n[b].cells \in Seq(Cell) /\ n[b] = [cap |-> n[b].cap, cells |-> n[b].cells]
    <3>1. CASE n[b] = m[b]
      <4>1. m[b] = [cap |-> m[b].cap, cells |-> m[b].cells]
        BY DEF MemOK
      <4> QED BY <3>1, <4>1 DEF MemOK
    <3>2. CASE n[b] = [cap |-> 0, cells |-> <<>>]
      BY <3>2, EmptySeq
    <3> QED BY <1>2, <3>1, <3>2
  <2>2. n = [b \in Buffers |-> [cap |-> n[b].cap, cells |-> n[b].cells]]
    BY <1>1, <2>1
  <2>3. s.buf # None => n[s.buf] = m[s.buf]
    BY <1>3 DEF MemOK
  <2> QED BY <2>1, <2>2, <2>3 DEF MemOK
<1>6. Holds(n, s, refs)
  <2>1. ASSUME NEW k \in DOMAIN refs PROVE Kept(n, s, refs[k])
    <3>1. Kept(m, s, refs[k])
      BY DEF Holds
    <3>2. n[refs[k].buf] = m[refs[k].buf]
      BY <1>4, <3>1 DEF Kept
    <3> QED BY <3>1, <3>2 DEF Kept
  <2> QED BY <2>1 DEF Holds
<1>7. Slice(n, s) = Slice(m, s)
  <2>1. s.buf # None => n[s.buf] = m[s.buf]
    BY <1>3 DEF MemOK
  <2> QED BY <2>1 DEF Slice
<1> QED BY <1>5, <1>6, <1>7 DEF n

\* A buffer whose cells are written anew while no slice uses it
Renew(m, b, cap, c) == [m EXCEPT ![b] = [cap |-> cap, cells |-> c]]
All(b, c) == [buf |-> b, from |-> 0, to |-> Len(c)]

\* A buffer that no slice uses may be written anew.
LEMMA Renewed ==
  ASSUME NEW m, NEW s, NEW refs, MemOK(m, s), Holds(m, s, refs), NEW b \in Buffers,
         \A k \in DOMAIN refs : refs[k].buf # b, b # None,
         NEW cap \in Nat, NEW c \in Seq(Cell)
  PROVE  /\ MemOK(Renew(m, b, cap, c), All(b, c)) /\ Holds(Renew(m, b, cap, c), All(b, c), refs)
         /\ Slice(Renew(m, b, cap, c), All(b, c)) = c
<1> DEFINE m2 == Renew(m, b, cap, c)
           s2 == All(b, c)
<1>1. m2[b] = [cap |-> cap, cells |-> c] /\ m2 = [d \in Buffers |-> m2[d]]
      /\ \A d \in Buffers : d # b => m2[d] = m[d]
  BY DEF MemOK, Renew
<1>2. s2.buf = b /\ s2.from = 0 /\ s2.to = Len(c) /\ s2 = [buf |-> s2.buf, from |-> s2.from, to |-> s2.to]
  BY DEF All
<1> HIDE DEF m2, s2
<1>3. m2[b].cells = c /\ m2[b].cap = cap
  BY <1>1
<1>4. MemOK(m2, s2)
  <2>1. ASSUME NEW d \in Buffers
        PROVE  /\ m2[d].cap \in Nat /\ m2[d].cells \in Seq(Cell)
               /\ m2[d] = [cap |-> m2[d].cap, cells |-> m2[d].cells]
    <3>1. CASE d = b
      BY <3>1, <1>1
    <3>2. CASE d # b
      <4>1. m[d] = [cap |-> m[d].cap, cells |-> m[d].cells]
        BY DEF MemOK
      <4> QED BY <3>2, <4>1, <1>1 DEF MemOK
    <3> QED BY <3>1, <3>2
  <2>2. m2 = [d \in Buffers |-> [cap |-> m2[d].cap, cells |-> m2[d].cells]]
    BY <1>1, <2>1
  <2>3. Len(c) \in Nat
    BY LenProperties
  <2> QED BY <2>1, <2>2, <2>3, <1>2, <1>3 DEF MemOK
<1>5. Holds(m2, s2, refs)
  <2>1. ASSUME NEW k \in DOMAIN refs PROVE Kept(m2, s2, refs[k])
    <3>1. Kept(m, s, refs[k])
      BY DEF Holds
    <3>2. m2[refs[k].buf] = m[refs[k].buf] /\ refs[k].buf # s2.buf
      BY <1>1, <1>2, <3>1 DEF Kept
    <3> QED BY <3>1, <3>2 DEF Kept
  <2> QED BY <2>1 DEF Holds
<1>6. Slice(m2, s2) = c
  <2>1. Slice(m2, s2) = SubSeq(c, 0 + 1, Len(c))
    BY <1>2, <1>3 DEF Slice
  <2> QED BY <2>1, SubSeqFull
<1> QED BY <1>4, <1>5, <1>6 DEF m2, s2

\* Memory for one slice more than there are
Room == /\ Fresh \in Buffers /\ Fresh # None /\ ~InUse(Fresh)

\* compactReadCache changes neither the cached cells nor a datagram that waits.
LEMMA Compacted ==
  ASSUME NEW s, NEW refs, MemOK(mem, s), Holds(mem, s, refs), Room,
         \A k \in DOMAIN refs : refs[k].buf # Fresh
  PROVE  /\ MemOK(Compact(s).m, Compact(s).slice) /\ Holds(Compact(s).m, Compact(s).slice, refs)
         /\ Slice(Compact(s).m, Compact(s).slice) = Slice(mem, s)
<1> DEFINE len == s.to - s.from
           k == Compact(s)
<1>0. Slice(mem, s) \in Seq(Cell) /\ Len(Slice(mem, s)) = len /\ len \in Nat
  BY SliceType DEF MemOK
<1>1. CASE len = 0
  <2>1. k = [m |-> mem, slice |-> Nil]
    BY <1>1 DEF Compact
  <2>2. k.m = mem /\ k.slice = Nil
    BY <2>1
  <2>3. MemOK(mem, Nil)
    BY DEF MemOK, Nil
  <2>4. Holds(mem, Nil, refs)
    <3>1. Nil.buf \notin Buffers
      BY WireAssumption DEF Nil
    <3> QED BY <3>1 DEF Holds, Kept
  <2>5. Slice(mem, Nil) = Slice(mem, s)
    <3>1. Slice(mem, Nil) = <<>>
      BY DEF Slice, Nil
    <3>2. Slice(mem, s) = <<>>
      <4>1. Len(Slice(mem, s)) = 0
        BY <1>0, <1>1
      <4> QED BY <4>1, <1>0, EmptySeq
    <3> QED BY <3>1, <3>2
  <2> HIDE DEF k
  <2> QED BY <2>2, <2>3, <2>4, <2>5 DEF k
<1>2. CASE len # 0 /\ (CapOf(s) <= CompactAt \/ len * 4 >= CapOf(s))
  <2>1. k = [m |-> mem, slice |-> s]
    BY <1>2 DEF Compact
  <2>2. k.m = mem /\ k.slice = s
    BY <2>1
  <2> HIDE DEF k
  <2> QED BY <2>2 DEF k
<1>3. CASE len # 0 /\ ~(CapOf(s) <= CompactAt \/ len * 4 >= CapOf(s))
  <2> DEFINE c == Slice(mem, s)
             m2 == [mem EXCEPT ![Fresh] = [cap |-> len, cells |-> c]]
             s2 == [buf |-> Fresh, from |-> 0, to |-> Len(c)]
  <2>1. c = Cells(s)
    BY DEF Slice, Cells
  <2>2. k = [m |-> m2, slice |-> s2]
    BY <1>0, <1>3, <2>1 DEF Compact
  <2>3. k.m = m2 /\ k.slice = s2
    BY <2>2
  <2>4. MemOK(m2, s2) /\ Holds(m2, s2, refs) /\ Slice(m2, s2) = c
    <3> DEFINE f == Fresh
    <3>1. f \in Buffers /\ f # None /\ c \in Seq(Cell) /\ len \in Nat /\ \A i \in DOMAIN refs : refs[i].buf # f
      BY <1>0 DEF Room
    <3> HIDE DEF c, len, f
    <3>2. LET m3 == Renew(mem, f, len, c)
              s3 == All(f, c)
          IN  MemOK(m3, s3) /\ Holds(m3, s3, refs) /\ Slice(m3, s3) = c
      BY <3>1, Renewed
    <3> QED BY <3>2 DEF f, Renew, All
  <2> HIDE DEF k, m2, s2
  <2> QED BY <2>3, <2>4 DEF k, c
<1> QED BY <1>1, <1>2, <1>3

\* append adds to the cached cells and changes no datagram that waits.
LEMMA Appended ==
  ASSUME NEW refs, MemOK(mem, cache), Holds(mem, cache, refs), Room,
         \A k \in DOMAIN refs : refs[k].buf # Fresh,
         NEW more \in Seq(Cell), more # <<>>
  PROVE  LET a == AppendTo(cache, more)
         IN  MemOK(a.m, a.slice) /\ Holds(a.m, a.slice, refs)
             /\ Slice(a.m, a.slice) = Slice(mem, cache) \o more
<1> DEFINE a == AppendTo(cache, more)
           c == Slice(mem, cache)
           len == cache.to - cache.from + Len(more)
<1>0. /\ c \in Seq(Cell) /\ Len(c) = cache.to - cache.from /\ Len(more) \in Nat \ {0} /\ len \in Nat \ {0}
      /\ c \o more \in Seq(Cell) /\ Len(c \o more) = len
  <2>1. c \in Seq(Cell) /\ Len(c) = cache.to - cache.from
    BY SliceType
  <2>2. Len(c) \in Nat /\ Len(more) \in Nat \ {0}
    BY <2>1, LenProperties, EmptySeq
  <2>3. c \o more \in Seq(Cell) /\ Len(c \o more) = Len(c) + Len(more)
    BY <2>1, ConcatProperties
  <2>4. len = Len(c) + Len(more)
    BY <2>1
  <2> HIDE DEF c, len
  <2>5. len \in Nat \ {0}
    BY <2>2, <2>4
  <2> QED BY <2>1, <2>2, <2>3, <2>4, <2>5
<1>1. CASE len <= CapOf(cache)
  <2> DEFINE b == cache.buf
             t == cache.to
             d == SubSeq(mem[b].cells, 1, t) \o more
             m2 == [mem EXCEPT ![b].cells = d]
             s2 == [cache EXCEPT !.to = t + Len(more)]
  <2>1. b # None /\ b \in Buffers
    BY <1>0, <1>1 DEF CapOf, MemOK
  <2>2. a.m = m2 /\ a.slice = s2
    BY <1>1 DEF AppendTo
  <2>3. t \in Nat /\ cache.from \in Nat /\ cache.from <= t /\ t <= Len(mem[b].cells)
        /\ mem[b].cells \in Seq(Cell) /\ mem[b].cap \in Nat
    BY <2>1 DEF MemOK
  <2>4. SubSeq(mem[b].cells, 1, t) \in Seq(Cell) /\ Len(SubSeq(mem[b].cells, 1, t)) = t
        /\ \A i \in 1 .. t : SubSeq(mem[b].cells, 1, t)[i] = mem[b].cells[i]
    <3> DEFINE w == mem[b].cells
    <3>1. w \in Seq(Cell) /\ t \in Nat /\ t <= Len(w)
      BY <2>3
    <3> HIDE DEF w, t
    <3>2. 1 \in Int /\ t \in Int /\ \A i \in 1 .. t : w[i] \in Cell
      BY <3>1, ElementOfSeq, LenProperties
    <3>3. /\ SubSeq(w, 1, t) \in Seq(Cell) /\ Len(SubSeq(w, 1, t)) = IF 1 <= t THEN t - 1 + 1 ELSE 0
          /\ \A i \in 1 .. t - 1 + 1 : SubSeq(w, 1, t)[i] = w[1 + i - 1]
      BY <3>2, SubSeqProperties
    <3>4. Len(SubSeq(w, 1, t)) = t
      BY <3>1, <3>3
    <3>5. ASSUME NEW i \in 1 .. t PROVE SubSeq(w, 1, t)[i] = w[i]
      <4>1. i \in 1 .. t - 1 + 1 /\ 1 + i - 1 = i
        BY <3>1
      <4> QED BY <4>1, <3>3
    <3> QED BY <3>3, <3>4, <3>5 DEF w
  <2>5. d \in Seq(Cell) /\ Len(d) = t + Len(more) /\ \A i \in 1 .. t : d[i] = mem[b].cells[i]
    <3> DEFINE u == SubSeq(mem[b].cells, 1, t)
    <3>1. u \in Seq(Cell) /\ Len(u) = t /\ \A i \in 1 .. t : u[i] = mem[b].cells[i]
      BY <2>4
    <3> HIDE DEF u
    <3>2. /\ u \o more \in Seq(Cell) /\ Len(u \o more) = Len(u) + Len(more)
          /\ \A i \in 1 .. Len(u) + Len(more) : (u \o more)[i] = IF i <= Len(u) THEN u[i] ELSE more[i - Len(u)]
      BY <3>1, ConcatProperties
    <3>3. \A i \in 1 .. t : (u \o more)[i] = u[i]
      <4>1. \A i \in 1 .. t : i \in 1 .. Len(u) + Len(more) /\ i <= Len(u)
        BY <3>1, <1>0, <2>3
      <4> QED BY <4>1, <3>2
    <3>4. d = u \o more
      BY DEF u
    <3> HIDE DEF d
    <3> QED BY <3>1, <3>2, <3>3, <3>4
  <2>6. s2.buf = b /\ s2.from = cache.from /\ s2.to = t + Len(more) /\ s2 = [buf |-> b, from |-> cache.from, to |-> t + Len(more)]
    <3>1. cache = [buf |-> b, from |-> cache.from, to |-> t]
      BY DEF MemOK
    <3> QED BY <3>1
  <2>7. m2[b] = [cap |-> mem[b].cap, cells |-> d] /\ (\A e \in Buffers : e # b => m2[e] = mem[e])
        /\ m2 = [e \in Buffers |-> m2[e]]
    <3>1. mem = [e \in Buffers |-> [cap |-> mem[e].cap, cells |-> mem[e].cells]]
      BY DEF MemOK
    <3>2. mem[b] = [cap |-> mem[b].cap, cells |-> mem[b].cells]
      BY <3>1, <2>1
    <3> HIDE DEF d, b
    <3> QED BY <3>1, <3>2, <2>1
  <2>8. \A e \in Buffers : mem[e] = [cap |-> mem[e].cap, cells |-> mem[e].cells]
    BY DEF MemOK
  <2> HIDE DEF m2, s2, d
  <2>9. m2[b].cells = d /\ m2[b].cap = mem[b].cap
    BY <2>7
  <2>10. MemOK(m2, s2)
    <3>1. ASSUME NEW e \in Buffers
          PROVE  /\ m2[e].cap \in Nat /\ m2[e].cells \in Seq(Cell)
                 /\ m2[e] = [cap |-> m2[e].cap, cells |-> m2[e].cells]
      <4>1. CASE e = b
        BY <4>1, <2>3, <2>5, <2>7, <2>9
      <4>2. CASE e # b
        <5>1. m2[e] = mem[e]
          BY <4>2, <2>7
        <5> QED BY <5>1, <2>8 DEF MemOK
      <4> QED BY <4>1, <4>2
    <3>2. m2 = [e \in Buffers |-> [cap |-> m2[e].cap, cells |-> m2[e].cells]]
      BY <2>7, <3>1
    <3>3. s2.from \in Nat /\ s2.to \in Nat /\ s2.from <= s2.to /\ s2.to <= Len(m2[s2.buf].cells) /\ s2.buf \in Buffers
          /\ s2.buf # None /\ s2 = [buf |-> s2.buf, from |-> s2.from, to |-> s2.to]
      BY <2>1, <2>3, <2>5, <2>6, <2>9, <1>0
    <3> QED BY <3>1, <3>2, <3>3 DEF MemOK
  <2>11. Holds(m2, s2, refs)
    <3>1. ASSUME NEW k \in DOMAIN refs PROVE Kept(m2, s2, refs[k])
      <4>1. Kept(mem, cache, refs[k])
        BY DEF Holds
      <4>2. CASE refs[k].buf # b
        <5>1. m2[refs[k].buf] = mem[refs[k].buf]
          BY <4>1, <4>2, <2>7 DEF Kept
        <5> QED BY <4>1, <4>2, <5>1, <2>6 DEF Kept
      <4>3. CASE refs[k].buf = b
        <5> DEFINE at == refs[k].at
        <5>1. at \in 1 .. Len(mem[b].cells) /\ at <= cache.from /\ mem[b].cells[at].field.val = refs[k].want
          BY <4>1, <4>3 DEF Kept
        <5>2. at \in 1 .. t /\ at \in 1 .. Len(d)
          <6> DEFINE L == Len(mem[b].cells)
          <6>1. at \in 1 .. L /\ at <= cache.from
            BY <5>1
          <6> HIDE DEF L, at
          <6> QED BY <6>1, <2>3, <2>5, <1>0
        <5>3. d[at] = mem[b].cells[at]
          BY <5>2, <2>5
        <5> QED BY <4>3, <5>1, <5>2, <5>3, <2>1, <2>6, <2>9 DEF Kept
      <4> QED BY <4>2, <4>3
    <3> QED BY <3>1 DEF Holds
  <2>12. Slice(m2, s2) = c \o more
    <3> DEFINE w == mem[b].cells
               u == SubSeq(w, 1, t)
               f == cache.from
    <3>1. Slice(m2, s2) = SubSeq(d, f + 1, t + Len(more)) /\ c = SubSeq(w, f + 1, t)
      BY <2>1, <2>6, <2>9 DEF Slice
    <3>2. Slice(m2, s2) \in Seq(Cell) /\ Len(Slice(m2, s2)) = s2.to - s2.from
          /\ (s2.buf # None => \A k \in 1 .. s2.to - s2.from : Slice(m2, s2)[k] = m2[s2.buf].cells[s2.from + k])
      BY <2>10, SliceType
    <3>3. c \in Seq(Cell) /\ Len(c) = t - f /\ \A k \in 1 .. t - f : c[k] = w[f + k]
      BY <2>1, SliceType
    <3>4. /\ c \o more \in Seq(Cell) /\ Len(c \o more) = Len(c) + Len(more)
          /\ \A i \in 1 .. Len(c) + Len(more) : (c \o more)[i] = IF i <= Len(c) THEN c[i] ELSE more[i - Len(c)]
      BY <1>0, ConcatProperties
    <3>5. d = u \o more /\ u \in Seq(Cell) /\ Len(u) = t /\ \A i \in 1 .. t : u[i] = w[i]
      BY <2>4 DEF d
    <3>6. \A i \in 1 .. t + Len(more) : d[i] = IF i <= t THEN w[i] ELSE more[i - t]
      <4> HIDE DEF u, w
      <4>1. \A i \in 1 .. Len(u) + Len(more) : (u \o more)[i] = IF i <= Len(u) THEN u[i] ELSE more[i - Len(u)]
        BY <3>5, ConcatProperties
      <4>2. \A i \in 1 .. t + Len(more) : d[i] = IF i <= t THEN u[i] ELSE more[i - t]
        BY <3>5, <4>1
      <4>3. ASSUME NEW i \in 1 .. t + Len(more) PROVE d[i] = IF i <= t THEN w[i] ELSE more[i - t]
        <5>1. i <= t => i \in 1 .. t
          BY <2>3
        <5> QED BY <5>1, <4>2, <3>5
      <4> QED BY <4>3
    <3> DEFINE x == Slice(m2, s2)
               y == c \o more
               n == t - f + Len(more)
    <3>7. x \in Seq(Cell) /\ Len(x) = n /\ \A k \in 1 .. n : x[k] = d[f + k]
      <4>1. s2.to - s2.from = n
        BY <2>3, <2>6, <1>0
      <4> HIDE DEF x, n
      <4>2. Len(x) = n /\ \A k \in 1 .. n : x[k] = d[s2.from + k]
        BY <3>2, <4>1, <2>1, <2>6, <2>9 DEF x
      <4> QED BY <4>2, <3>2, <2>6 DEF x
    <3>8. y \in Seq(Cell) /\ Len(y) = n
      BY <3>3, <3>4
    <3>9. ASSUME NEW k \in 1 .. n PROVE x[k] = y[k]
      <4>1. k \in 1 .. Len(c) + Len(more) /\ f + k \in 1 .. t + Len(more)
            /\ (f + k <= t <=> k <= Len(c)) /\ (f + k) - t = k - Len(c) /\ (k <= Len(c) => k \in 1 .. t - f)
        <5> DEFINE lc == Len(c)
                   lm == Len(more)
        <5>1. lc = t - f /\ t \in Nat /\ f \in Nat /\ f <= t /\ lm \in Nat /\ k \in 1 .. t - f + lm
          BY <3>3, <2>3, <1>0
        <5> HIDE DEF c, f, t, lc, lm
        <5>2. /\ k \in 1 .. lc + lm /\ f + k \in 1 .. t + lm
              /\ (f + k <= t <=> k <= lc) /\ (f + k) - t = k - lc /\ (k <= lc => k \in 1 .. t - f)
          BY <5>1
        <5> QED BY <5>2 DEF lc, lm
      <4>2. y[k] = IF k <= Len(c) THEN c[k] ELSE more[k - Len(c)]
        BY <4>1, <3>4
      <4>3. x[k] = IF f + k <= t THEN w[f + k] ELSE more[(f + k) - t]
        <5>1. x[k] = d[f + k]
          BY <3>7
        <5> HIDE DEF x, c, w, f, t
        <5> QED BY <5>1, <4>1, <3>6
      <4> HIDE DEF x, y, c, w, f, t
      <4> QED BY <4>1, <4>2, <4>3, <3>3
    <3> HIDE DEF x, y, n
    <3>10. x = y
      BY <3>7, <3>8, <3>9, SeqEqual
    <3> QED BY <3>10 DEF x, y
  <2> HIDE DEF a
  <2> QED BY <2>2, <2>10, <2>11, <2>12 DEF a, c
<1>2. CASE ~(len <= CapOf(cache))
  <2> DEFINE cap == IF 2 * CapOf(cache) > len THEN 2 * CapOf(cache) ELSE len
             m2 == [mem EXCEPT ![Fresh] = [cap |-> cap, cells |-> c \o more]]
             s2 == [buf |-> Fresh, from |-> 0, to |-> Len(c \o more)]
  <2>1. c = Cells(cache)
    BY DEF Slice, Cells
  <2>2. a.m = m2 /\ a.slice = s2
    BY <1>0, <1>2, <2>1 DEF AppendTo
  <2>3. cap \in Nat
    <3> DEFINE p == CapOf(cache)
    <3>1. p \in Int
      BY DEF CapOf, MemOK
    <3> HIDE DEF p, len
    <3> QED BY <3>1, <1>0 DEF p
  <2>4. MemOK(m2, s2) /\ Holds(m2, s2, refs) /\ Slice(m2, s2) = c \o more
    <3> DEFINE f == Fresh
               e == c \o more
    <3>1. f \in Buffers /\ f # None /\ e \in Seq(Cell) /\ cap \in Nat /\ \A i \in DOMAIN refs : refs[i].buf # f
      BY <1>0, <2>3 DEF Room
    <3> HIDE DEF e, cap, f
    <3>2. LET m3 == Renew(mem, f, cap, e)
              s3 == All(f, e)
          IN  MemOK(m3, s3) /\ Holds(m3, s3, refs) /\ Slice(m3, s3) = e
      BY <3>1, Renewed
    <3> QED BY <3>2 DEF f, e, Renew, All
  <2> HIDE DEF a, m2, s2
  <2> QED BY <2>2, <2>4 DEF a, c
<1> QED BY <1>1, <1>2

-----------------------------------------------------------------------------
\* What was sent, as its reader understands it

Reading == [e \in Originals |-> Understood(e)]
AsRead(s) == Mapped(Reading, s)

\* A message of the program is understood as one of the messages, with its packet.
LEMMA ReadAs ==
  ASSUME NEW m \in Raw
  PROVE  /\ SenseOf(m) \in Msgs /\ Packet(SenseOf(m)) = Packet(m)
         /\ Entry(m) \in Originals /\ Reading[Entry(m)] = Entry(SenseOf(m)) /\ Entry(SenseOf(m)) \in Entries
<1>1. Sendable(m)
  BY WireAssumption DEF Raw
<1>2. SenseOf(m) \in Msgs /\ Entry(m) \in Originals
  BY DEF Msgs, Originals
<1>3. Packet(SenseOf(m)) = Packet(m) /\ Understood(Entry(m)) = Entry(SenseOf(m))
  BY <1>1, SenseFacts, UnderstoodEntry
<1>4. Reading[Entry(m)] = Understood(Entry(m))
  BY <1>2 DEF Reading
<1>5. Entry(SenseOf(m)) \in Entries
  BY <1>2 DEF Entries
<1> QED BY <1>2, <1>3, <1>4, <1>5

LEMMA ReadingMaps == Maps(Originals, Reading, Entries)
<1>1. SUFFICES ASSUME NEW e \in Originals PROVE Reading[e] \in Entries
  BY DEF Maps
<1>2. PICK m \in Raw : e = Entry(m)
  BY DEF Originals
<1>3. Reading[Entry(m)] \in Entries
  BY ReadAs
<1> QED BY <1>2, <1>3

LEMMA AsReadType ==
  ASSUME NEW s \in Seq(Originals)
  PROVE  AsRead(s) \in Seq(Entries) /\ Len(AsRead(s)) = Len(s) /\ Len(s) \in Nat
<1>1. Mapped(Reading, s) \in Seq(Entries) /\ Len(Mapped(Reading, s)) = Len(s)
  BY ReadingMaps, MappedType
<1> QED BY <1>1, LenProperties DEF AsRead

LEMMA AsReadEmpty == AsRead(<<>>) = <<>>
<1>1. AsRead(<<>>) \in Seq(Entries) /\ Len(AsRead(<<>>)) = 0
  BY AsReadType, EmptySeq
<1> QED BY <1>1, EmptySeq

\* What is sent is understood one by one.
LEMMA AsReadMore ==
  ASSUME NEW s \in Seq(Originals), NEW m \in Raw
  PROVE  AsRead(Append(s, Entry(m))) = Append(AsRead(s), Entry(SenseOf(m))) /\ Append(s, Entry(m)) \in Seq(Originals)
<1> DEFINE e == Entry(m)
<1>1. e \in Originals /\ Reading[e] = Entry(SenseOf(m))
  BY ReadAs
<1> HIDE DEF e
<1>2. Mapped(Reading, Append(s, e)) = Append(Mapped(Reading, s), Reading[e])
  BY <1>1, ReadingMaps, MappedAppend
<1>3. Append(s, e) \in Seq(Originals)
  BY <1>1, AppendProperties
<1> QED BY <1>1, <1>2, <1>3 DEF AsRead, e

\* Front takes off what Append has added.
LEMMA LastAppended ==
  ASSUME NEW T, NEW s \in Seq(T), NEW e \in T
  PROVE  Front(Append(s, e)) = s /\ Last(Append(s, e)) = e
<1> DEFINE a == Append(s, e)
           n == Len(s)
<1>1. a \in Seq(T) /\ Len(a) = n + 1 /\ n \in Nat /\ (\A i \in 1 .. n : a[i] = s[i]) /\ a[n + 1] = e
  BY AppendProperties, LenProperties
<1>0. s \in Seq(T) /\ n = Len(s)
  OBVIOUS
<1> HIDE DEF a, n
<1>2. Front(a) = s
  <2>1. Len(a) - 1 = n
    BY <1>1
  <2>2. Front(a) = SubSeq(a, 1, n)
    BY <2>1 DEF Front
  <2> DEFINE b == SubSeq(a, 1, n)
  <2>3. /\ b \in Seq(T) /\ Len(b) = IF 1 <= n THEN n - 1 + 1 ELSE 0
        /\ \A i \in 1 .. n - 1 + 1 : b[i] = a[1 + i - 1]
    <3>1. 1 \in Int /\ n \in Int /\ \A i \in 1 .. n : a[i] \in T
      BY <1>1, ElementOfSeq
    <3> QED BY <3>1, SubSeqProperties
  <2> HIDE DEF b
  <2>4. Len(b) = n
    BY <1>1, <2>3
  <2>5. ASSUME NEW i \in 1 .. Len(b) PROVE b[i] = s[i]
    <3>1. i \in 1 .. n - 1 + 1 /\ 1 + i - 1 = i /\ i \in 1 .. n
      BY <1>1, <2>4
    <3> QED BY <3>1, <2>3, <1>1
  <2>6. b = s
    BY <1>0, <2>3, <2>4, <2>5, SeqEqual
  <2> QED BY <2>2, <2>6 DEF b
<1>3. Last(a) = e
  BY <1>1 DEF Last
<1> QED BY <1>2, <1>3 DEF a

LEMMA AsReadLess ==
  ASSUME NEW s \in Seq(Originals), s # <<>>
  PROVE  /\ Front(s) \in Seq(Originals) /\ Len(Front(s)) <= Len(s)
         /\ AsRead(Front(s)) = Front(AsRead(s)) /\ Packet(Last(s).msg) = Packet(Last(AsRead(s)).msg)
<1>1. PICK t \in Seq(Originals), e \in Originals : s = Append(t, e)
  BY SequenceEmptyOrAppend
<1>2. PICK m \in Raw : e = Entry(m)
  BY <1>1 DEF Originals
<1> DEFINE r == SenseOf(m)
           d == Entry(r)
           a == AsRead(t)
<1>3. AsRead(s) = Append(a, d) /\ a \in Seq(Entries) /\ d \in Entries /\ Packet(r) = Packet(m)
  BY <1>1, <1>2, AsReadMore, AsReadType, ReadAs
<1>4. e.msg = m /\ d.msg = r
  BY <1>2 DEF Entry
<1>5. Front(s) = t /\ Last(s) = e
  BY <1>1, LastAppended
<1> HIDE DEF r, d, a
<1>6. Front(AsRead(s)) = a /\ Last(AsRead(s)) = d
  BY <1>3, LastAppended
<1>7. Len(s) = Len(t) + 1 /\ Len(t) \in Nat
  BY <1>1, AppendProperties, LenProperties
<1> QED BY <1>1, <1>3, <1>4, <1>5, <1>6, <1>7 DEF a

-----------------------------------------------------------------------------
\* The inductive invariant

LEMMA CatBytes == ASSUME NEW a \in Seq(Entries), NEW b \in Seq(Entries) PROVE Bytes(Cat(a, b)) = Cat(Bytes(a), Bytes(b))
BY BytesConcat DEF Cat

Ref == [buf : Buffers, at : Nat, want : {c.field.val : c \in Cell}]

WireType ==
    /\ side \in {"client", "server"}
    /\ sends \in Nat /\ sends <= MaxSends
    /\ sent \in Seq(Originals) /\ Len(sent) <= sends
    /\ queue \in Seq(Seq(Cell))
    /\ writing \in [Senders \cup {Loop} -> Seq(Cell)]
    /\ writeMu # None => writeMu \in Senders /\ side = "client" /\ writing[writeMu] # <<>>
    /\ wire \in Seq(Seq(Cell)) /\ (net = "ws" \/ Len(wire) <= 1)
    /\ handed \in Seq(Entries) /\ Len(handed) <= sends
    /\ pending \in Seq(Ref) /\ Len(pending) <= Len(handed)

MemInv == MemOK(mem, cache) /\ Holds(mem, cache, pending)

\* What the reader has not handed on (todo) is in its cache, under way or still
\* to be written (rest); the packet of a write that failed (spill) was cut short.
Tied(todo, spill, rest) ==
    /\ AsRead(sent) = Cat(handed, todo)
    /\ Cat(Cat(Slice(mem, cache), FlattenSeq(wire)), rest) = Bytes(Cat(todo, spill))
    /\ spill # <<>> => rest # <<>> /\ Len(spill) = 1
    /\ writeMu # None => spill = <<>> /\ rest = writing[writeMu]
    /\ side = "client" /\ writeMu = None /\ conn = "up" /\ ~broken => spill = <<>> /\ rest = <<>>
    /\ side = "server" /\ conn = "up" => spill = <<>> /\ rest = Cat(writing[Loop], FlattenSeq(queue))

Stream ==
    ~torn => \E todo \in Seq(Entries), spill \in Seq(Entries), rest \in Seq(Cell) : Tied(todo, spill, rest)

WireInv == WireType /\ MemInv /\ Stream

\* What is sent can be decoded.
LEMMA OfferedType == ASSUME WireType, NEW m \in Offered PROVE m \in Raw
BY DEF Offered, Raw, WireType

\* There are more buffers than slices.
LEMMA RoomLeft ==
  ASSUME WireType
  PROVE  Room /\ \A k \in DOMAIN pending : pending[k].buf # Fresh
<1> DEFINE n == Len(pending)
           f == [k \in 1 .. n |-> pending[k].buf]
           Used == {f[k] : k \in 1 .. n}
           U == Used \cup {cache.buf}
<1>1. n \in Nat /\ n <= MaxSends /\ DOMAIN pending = 1 .. n
  <2>1. n \in Nat /\ DOMAIN pending = 1 .. n /\ Len(handed) \in Nat
    BY LenProperties DEF WireType
  <2>2. n <= Len(handed) /\ Len(handed) <= sends /\ sends \in Nat /\ sends <= MaxSends /\ MaxSends \in Nat
    BY WireAssumption DEF WireType
  <2> HIDE DEF n
  <2> QED BY <2>1, <2>2
<1>2. IsFiniteSet(Used) /\ Cardinality(Used) <= n
  <2>1. f \in Surjection(1 .. n, Used)
    BY DEF Surjection
  <2> HIDE DEF Used, f, n
  <2>2. IsFiniteSet(1 .. n) /\ Cardinality(1 .. n) = n
    <3>1. 1 \in Int /\ n \in Int /\ (1 > n => n = 0) /\ n - 1 + 1 = n
      BY <1>1
    <3>2. IsFiniteSet(1 .. n) /\ Cardinality(1 .. n) = IF 1 > n THEN 0 ELSE n - 1 + 1
      BY <3>1, FS_Interval
    <3> QED BY <3>1, <3>2
  <2> QED BY <2>1, <2>2, FS_Surjection
<1>3. IsFiniteSet(U) /\ Cardinality(U) <= n + 1
  <2> HIDE DEF Used, f
  <2>1. IsFiniteSet(U) /\ Cardinality(U) = IF cache.buf \in Used THEN Cardinality(Used) ELSE Cardinality(Used) + 1
    BY <1>2, FS_AddElement
  <2>2. Cardinality(Used) \in Nat
    BY <1>2, FS_CardinalityType
  <2> HIDE DEF U
  <2> QED BY <1>1, <1>2, <2>1, <2>2
<1>4. \E b \in Buffers : b \notin U
  <2> HIDE DEF U
  <2>1. SUFFICES ASSUME Buffers \subseteq U PROVE FALSE
    OBVIOUS
  <2>2. Cardinality(Buffers) <= Cardinality(U)
    BY <1>3, <2>1, FS_Subset
  <2>3. Cardinality(Buffers) \in Nat /\ Cardinality(U) \in Nat /\ Cardinality(Buffers) >= MaxSends + 2 /\ MaxSends \in Nat
    BY <1>3, WireAssumption, FS_CardinalityType
  <2> QED BY <1>1, <1>3, <2>2, <2>3
<1>5. \A b \in Buffers : InUse(b) => b \in U
  BY <1>1 DEF InUse
<1>6. Fresh \in Buffers /\ ~InUse(Fresh)
  <2>1. \E b \in Buffers : ~InUse(b)
    BY <1>4, <1>5
  <2> QED BY <2>1 DEF Fresh
<1> QED BY <1>6, WireAssumption DEF Room, InUse

\* What is written joins what is under way.
LEMMA Transmitted ==
  ASSUME wire \in Seq(Seq(Cell)), net = "ws" \/ Len(wire) <= 1, NEW cells \in Seq(Cell), Transmit(cells)
  PROVE  /\ wire' \in Seq(Seq(Cell)) /\ (net = "ws" \/ Len(wire') <= 1)
         /\ FlattenSeq(wire') = Cat(FlattenSeq(wire), cells)
<1> DEFINE T == Seq(Cell)
<1>0. SUFFICES wire' \in Seq(Seq(Cell)) /\ (net = "ws" \/ Len(wire') <= 1) /\ FlattenSeq(wire') = FlattenSeq(wire) \o cells
  BY DEF Cat
<1>1. CASE net = "ws" \/ wire = <<>>
  <2>1. wire' = Append(wire, cells)
    BY <1>1 DEF Transmit
  <2>2. wire' \in Seq(T) /\ Len(wire') = Len(wire) + 1
    <3> HIDE DEF T
    <3> QED BY <2>1, AppendProperties DEF T
  <2>3. FlattenSeq(wire') = FlattenSeq(wire) \o cells
    BY <2>1, FlattenAppend
  <2>4. wire = <<>> => Len(wire) = 0
    BY EmptySeq
  <2> QED BY <1>1, <2>2, <2>3, <2>4
<1>2. CASE ~(net = "ws" \/ wire = <<>>)
  <2>1. wire' = <<wire[1] \o cells>>
    BY <1>2 DEF Transmit
  <2>2. Len(wire) = 1
    <3> DEFINE l == Len(wire)
    <3>1. l \in Nat \ {0} /\ l <= 1
      BY <1>2, EmptySeq
    <3> HIDE DEF l
    <3>2. l = 1
      BY <3>1
    <3> QED BY <3>2 DEF l
  <2>3. wire[1] \in Seq(Cell)
    <3>1. 1 \in 1 .. Len(wire)
      BY <2>2
    <3> HIDE DEF T
    <3> QED BY <3>1, ElementOfSeq DEF T
  <2>4. wire = <<wire[1]>>
    <3>1. wire \in [1 .. 1 -> Seq(Cell)]
      BY <2>2, LenProperties
    <3> QED BY <3>1, <2>2
  <2>5. FlattenSeq(wire) = wire[1]
    BY <2>3, <2>4, FlattenOne
  <2>6. wire[1] \o cells \in Seq(Cell)
    BY <2>3, ConcatProperties
  <2>7. FlattenSeq(wire') = wire[1] \o cells
    BY <2>1, <2>6, FlattenOne
  <2>8. wire' \in Seq(Seq(Cell)) /\ Len(wire') = 1
    BY <2>1, <2>6
  <2> QED BY <2>5, <2>7, <2>8
<1> QED BY <1>1, <1>2

\* A write takes the front of what there is to write, and leaves the rest.
LEMMA TwoParts ==
  ASSUME NEW w \in Seq(Cell), w # <<>>, NEW n \in 1 .. Len(w)
  PROVE  /\ SubSeq(w, 1, n) \in Seq(Cell) /\ SubSeq(w, n + 1, Len(w)) \in Seq(Cell)
         /\ Cat(SubSeq(w, 1, n), SubSeq(w, n + 1, Len(w))) = w
         /\ SubSeq(w, 1, n) # <<>>
         /\ n = Len(w) <=> SubSeq(w, n + 1, Len(w)) = <<>>
<1> DEFINE l == Len(w)
           a == SubSeq(w, 1, n)
           b == SubSeq(w, n + 1, l)
<1>1. l \in Nat /\ n \in Nat /\ 1 <= n /\ n <= l /\ l <= l
  BY LenProperties
<1>2. a \o b = SubSeq(w, 1, l)
  BY <1>1, SplitFront
<1>3. SubSeq(w, 1, l) = w
  BY SubSeqFull
<1>4. \A k \in 1 .. l : w[k] \in Cell
  BY ElementOfSeq
<1> HIDE DEF l
<1>5. a \in Seq(Cell) /\ Len(a) = IF 1 <= n THEN n - 1 + 1 ELSE 0
  <2>1. 1 \in Int /\ n \in Int /\ \A k \in 1 .. n : w[k] \in Cell
    BY <1>1, <1>4
  <2> QED BY <2>1, SubSeqProperties
<1>6. b \in Seq(Cell) /\ Len(b) = IF n + 1 <= l THEN l - (n + 1) + 1 ELSE 0
  <2>1. n + 1 \in Int /\ l \in Int /\ \A k \in n + 1 .. l : w[k] \in Cell
    BY <1>1, <1>4
  <2> QED BY <2>1, SubSeqProperties
<1> HIDE DEF a, b
<1>7. Len(a) # 0 /\ (n = l <=> Len(b) = 0)
  BY <1>1, <1>5, <1>6
<1>8. a # <<>> /\ (b = <<>> <=> Len(b) = 0)
  BY <1>5, <1>6, <1>7, EmptySeq
<1> QED BY <1>2, <1>3, <1>5, <1>6, <1>7, <1>8 DEF a, b, l, Cat

\* Every write takes at least one cell.
LEMMA PartsType == ASSUME NEW w \in Seq(Cell), w # <<>>, NEW n \in Parts(w) PROVE n \in 1 .. Len(w)
<1>1. Len(w) \in Nat \ {0}
  BY EmptySeq
<1> QED BY <1>1 DEF Parts

\* What is cached, under way and queued are sequences of cells.
LEMMA FlightType ==
  ASSUME WireType, MemInv
  PROVE  /\ Slice(mem, cache) \in Seq(Cell) /\ FlattenSeq(wire) \in Seq(Cell) /\ FlattenSeq(queue) \in Seq(Cell)
         /\ Cat(Slice(mem, cache), FlattenSeq(wire)) \in Seq(Cell)
<1>1. Slice(mem, cache) \in Seq(Cell)
  BY SliceType DEF MemInv
<1>2. FlattenSeq(wire) \in Seq(Cell) /\ FlattenSeq(queue) \in Seq(Cell)
  BY FlattenType DEF WireType
<1> QED BY <1>1, <1>2, CatType

\* Nothing is sent, under way or cached at first.
LEMMA InitHolds == Init => WireInv
<1>1. SUFFICES ASSUME Init PROVE WireInv
  OBVIOUS
<1>2. WireType
  <2>1. writing \in [Senders \cup {Loop} -> Seq(Cell)]
    BY <1>1, EmptySeq DEF Init
  <2>2. MaxSends \in Nat /\ Len(sent) = 0 /\ Len(wire) = 0 /\ Len(handed) = 0 /\ Len(pending) = 0
    BY <1>1, WireAssumption, EmptySeq DEF Init
  <2> QED BY <1>1, <2>1, <2>2, EmptySeq DEF Init, WireType
<1>3. cache.buf \in Buffers /\ cache.buf # None /\ cache.from = 0 /\ cache.to = 0
      /\ cache = [buf |-> cache.buf, from |-> 0, to |-> 0]
  <2>1. Buffers # {}
    <3>1. IsFiniteSet(Buffers) /\ Cardinality(Buffers) >= MaxSends + 2 /\ MaxSends \in Nat
      BY WireAssumption
    <3>2. SUFFICES ASSUME Buffers = {} PROVE FALSE
      OBVIOUS
    <3>3. Cardinality(Buffers) = 0
      BY <3>2, FS_EmptySet
    <3> QED BY <3>1, <3>3
  <2>2. (CHOOSE b \in Buffers : TRUE) \in Buffers
    BY <2>1
  <2> QED BY <1>1, <2>2, WireAssumption DEF Init
<1>4. \A b \in Buffers : mem[b].cap \in Nat /\ mem[b].cells = <<>> /\ mem[b] = [cap |-> mem[b].cap, cells |-> mem[b].cells]
  BY <1>1, WireAssumption DEF Init
<1>5. MemOK(mem, cache)
  <2>1. mem = [b \in Buffers |-> [cap |-> mem[b].cap, cells |-> mem[b].cells]]
    <3>1. mem = [b \in Buffers |-> mem[b]]
      BY <1>1 DEF Init
    <3> QED BY <3>1, <1>4
  <2>2. Len(mem[cache.buf].cells) = 0
    BY <1>3, <1>4, EmptySeq
  <2>3. \A b \in Buffers : mem[b].cells \in Seq(Cell)
    BY <1>4, EmptySeq
  <2>4. cache = [buf |-> cache.buf, from |-> cache.from, to |-> cache.to]
    BY <1>3
  <2>5. cache.from <= cache.to /\ cache.to <= Len(mem[cache.buf].cells)
    BY <1>3, <2>2
  <2>6. \A b \in Buffers : mem[b].cap \in Nat
    BY <1>4
  <2> QED BY <1>3, <2>1, <2>3, <2>4, <2>5, <2>6 DEF MemOK
<1>6. MemInv
  <2>1. pending = <<>>
    BY <1>1 DEF Init
  <2>2. DOMAIN pending = {}
    BY <2>1
  <2> QED BY <2>2, <1>5 DEF MemInv, Holds
<1>7. Slice(mem, cache) = <<>> /\ FlattenSeq(wire) = <<>> /\ FlattenSeq(queue) = <<>>
  <2>1. Slice(mem, cache) \in Seq(Cell) /\ Len(Slice(mem, cache)) = 0
    BY <1>3, <1>5, SliceType
  <2> QED BY <1>1, <2>1, EmptySeq, FlattenEmpty DEF Init
<1>8. Tied(<<>>, <<>>, <<>>)
  <2>1. Cat(<<>>, <<>>) = <<>>
    BY EmptySeq, CatEmpty
  <2>2. writing[Loop] = <<>>
    BY <1>1 DEF Init
  <2>3. sent = <<>> /\ AsRead(<<>>) = <<>>
    BY <1>1, AsReadEmpty DEF Init
  <2> QED BY <1>1, <1>7, <2>1, <2>2, <2>3, BytesEmpty DEF Init, Tied
<1> QED BY <1>2, <1>6, <1>8, EmptySeq DEF WireInv, Stream

-----------------------------------------------------------------------------
\* The steps of a client that writes

\* One message more is sent and its packet is still to be written.
LEMMA OneMore ==
  ASSUME NEW h \in Seq(Entries), NEW todo \in Seq(Entries), NEW m \in Msgs, NEW F \in Seq(Cell), NEW rest \in Seq(Cell)
  PROVE  \E t \in Seq(Entries) :
           /\ Append(Cat(h, todo), Entry(m)) = Cat(h, t)
           /\ Cat(F, rest) = Bytes(Cat(todo, <<>>)) => Cat(F, Cat(rest, Packet(m))) = Bytes(Cat(t, <<>>))
<1>1. PICK e \in Entries : e = Entry(m) /\ e.msg = m
  BY PacketType DEF Entry
<1>2. PICK one \in Seq(Entries) : one = <<e>> /\ Bytes(one) = Packet(m)
  BY <1>1, BytesOne
<1>3. PICK p \in Seq(Cell) : p = Packet(m)
  BY PacketType
<1>4. PICK t \in Seq(Entries) : t = Cat(todo, one)
  BY CatType
<1>5. PICK x \in Seq(Entries) : x = Cat(h, todo)
  BY CatType
<1>6. Append(x, e) = Cat(h, t)
  <2>1. Append(x, e) = Cat(x, one)
    BY <1>2, CatLast
  <2>2. Cat(Cat(h, todo), one) = Cat(h, Cat(todo, one))
    BY CatAssociative
  <2> QED BY <2>1, <2>2, <1>4, <1>5
<1>7. ASSUME Cat(F, rest) = Bytes(Cat(todo, <<>>)) PROVE Cat(F, Cat(rest, p)) = Bytes(Cat(t, <<>>))
  <2>1. Cat(todo, <<>>) = todo /\ Cat(t, <<>>) = t
    BY CatEmpty
  <2>2. Bytes(t) = Cat(Bytes(todo), p)
    BY <1>2, <1>3, <1>4, CatBytes
  <2>3. Cat(Cat(F, rest), p) = Cat(F, Cat(rest, p))
    BY CatAssociative
  <2> QED BY <1>7, <2>1, <2>2, <2>3
<1> QED BY <1>1, <1>3, <1>5, <1>6, <1>7

\* What is still to be written belongs to the last message sent.
LEMMA OneLess ==
  ASSUME NEW h \in Seq(Entries), NEW todo \in Seq(Entries), NEW F \in Seq(Cell), NEW rest \in Seq(Cell),
         Cat(F, rest) = Bytes(todo), rest # <<>>
  PROVE  \E t \in Seq(Entries), e \in Entries, one \in Seq(Entries) :
           /\ one = <<e>> /\ todo = Cat(t, one)
           /\ Front(Cat(h, todo)) = Cat(h, t) /\ Last(Cat(h, todo)) = e
           /\ Bytes(todo) = Cat(Bytes(t), Packet(e.msg)) /\ Packet(e.msg) \in Seq(Cell)
<1>1. todo # <<>>
  <2>1. SUFFICES ASSUME todo = <<>> PROVE FALSE
    OBVIOUS
  <2>2. Cat(F, rest) = <<>>
    BY <2>1, BytesEmpty
  <2> QED BY <2>2, CatNone
<1>2. PICK t \in Seq(Entries), e \in Entries : todo = Append(t, e)
  BY <1>1, SequenceEmptyOrAppend
<1>3. PICK one \in Seq(Entries) : one = <<e>> /\ Bytes(one) = Packet(e.msg) /\ Packet(e.msg) \in Seq(Cell)
  BY BytesOne, EntryFacts
<1>4. todo = Cat(t, one)
  BY <1>2, <1>3, CatLast
<1>5. Bytes(todo) = Cat(Bytes(t), Packet(e.msg))
  BY <1>3, <1>4, CatBytes
<1>6. PICK x \in Seq(Entries) : x = Cat(h, t)
  BY CatType
<1>7. Cat(h, todo) = Append(x, e)
  <2>1. Append(x, e) = Cat(x, one)
    BY <1>3, CatLast
  <2>2. Cat(Cat(h, t), one) = Cat(h, Cat(t, one))
    BY CatAssociative
  <2> QED BY <2>1, <2>2, <1>4, <1>6
<1>8. Front(Append(x, e)) = x /\ Last(Append(x, e)) = e
  BY LastAppended
<1> QED BY <1>3, <1>4, <1>5, <1>6, <1>7, <1>8

\* The bytes a write moves from what is to be written to what is under way
LEMMA Moved ==
  ASSUME NEW c \in Seq(Cell), NEW w \in Seq(Cell), NEW a \in Seq(Cell), NEW b \in Seq(Cell)
  PROVE  Cat(Cat(c, Cat(w, a)), b) = Cat(Cat(c, w), Cat(a, b))
<1>1. Cat(c, Cat(w, a)) = Cat(Cat(c, w), a)
  BY CatAssociative
<1>2. Cat(c, w) \in Seq(Cell)
  BY CatType
<1> QED BY <1>1, <1>2, CatAssociative

\* Close keeps the slots of the write queue.
LEMMA Emptied ==
  ASSUME queue \in Seq(Seq(Cell)), Closed
  PROVE  conn' = "closed" /\ queue' \in Seq(Seq(Cell))
<1>1. Len(queue) \in Nat /\ DOMAIN queue = 1 .. Len(queue)
  BY LenProperties
<1>2. queue' = [k \in 1 .. Len(queue) |-> <<>>]
  BY <1>1 DEF Closed
<1>3. queue' \in [1 .. Len(queue) -> Seq(Cell)]
  BY <1>2, EmptySeq
<1> QED BY <1>1, <1>3, FunctionIsSeq DEF Closed

\* A client sends: its packet joins the rest, which was empty.
LEMMA SendStep == ASSUME WireInv, NEW s \in Senders, NEW m \in Offered, Send(s, m) PROVE WireInv'
<1>1. WireType /\ MemInv /\ Stream /\ m \in Raw
  BY OfferedType DEF WireInv
<1>0. PICK r \in Msgs : r = SenseOf(m) /\ Packet(r) = Packet(m)
  BY <1>1, ReadAs
<1>2. MemInv'
  BY <1>1 DEF Send, readerVars, MemInv
<1>3. sends' = sends + 1 /\ sends' <= MaxSends /\ side = "client" /\ writing[s] = <<>>
  BY <1>1, WireAssumption DEF Send, WireType
<1>4. UNCHANGED <<side, net, queue, wire, conn, broken, torn, mem, cache, handed, pending>>
  BY DEF Send, readerVars
<1>5. CASE conn = "up" /\ ~broken /\ writeMu = None /\ writeMu' = s
           /\ writing' = [writing EXCEPT ![s] = Packet(m)] /\ sent' = Append(sent, Entry(m))
  <2>1. Packet(m) \in Seq(Cell) /\ Packet(m) # <<>>
    BY <1>0, PacketType
  <2>2. sent' \in Seq(Originals) /\ Len(sent') = Len(sent) + 1 /\ Len(sent) \in Nat
    BY <1>1, <1>5, ReadAs, AppendProperties, LenProperties DEF WireType
  <2>0. AsRead(sent') = Append(AsRead(sent), Entry(r))
    BY <1>0, <1>1, <1>5, AsReadMore DEF WireType
  <2>3. writing' \in [Senders \cup {Loop} -> Seq(Cell)] /\ writing'[s] = Packet(m)
    BY <1>1, <1>5, <2>1 DEF WireType
  <2>4. WireType'
    <3>1. Len(handed) \in Nat /\ Len(sent') <= sends' /\ Len(handed') <= sends' /\ sends' \in Nat
      BY <1>1, <1>3, <1>4, <2>2, LenProperties DEF WireType
    <3> QED BY <1>1, <1>3, <1>4, <1>5, <2>1, <2>2, <2>3, <3>1 DEF WireType
  <2>5. Stream'
    <3>1. SUFFICES ASSUME ~torn'
                   PROVE  \E todo \in Seq(Entries), spill \in Seq(Entries), rest \in Seq(Cell) : Tied(todo, spill, rest)'
      BY DEF Stream
    <3>2. PICK todo \in Seq(Entries), spill \in Seq(Entries), rest \in Seq(Cell) : Tied(todo, spill, rest)
      BY <1>1, <1>4, <3>1 DEF Stream
    <3>3. spill = <<>> /\ rest = <<>>
      BY <1>3, <1>5, <3>2 DEF Tied
    <3>4. PICK F \in Seq(Cell) : F = Cat(Slice(mem, cache), FlattenSeq(wire))
      BY <1>1, FlightType
    <3>5. PICK h \in Seq(Entries) : h = handed
      BY <1>1 DEF WireType
    <3>6. Cat(F, rest) = Bytes(Cat(todo, <<>>)) /\ AsRead(sent) = Cat(h, todo)
      BY <3>2, <3>3, <3>4, <3>5 DEF Tied
    <3>7. PICK t \in Seq(Entries) :
            Append(Cat(h, todo), Entry(r)) = Cat(h, t) /\ Cat(F, Cat(rest, Packet(m))) = Bytes(Cat(t, <<>>))
      <4>1. \E t \in Seq(Entries) :
              /\ Append(Cat(h, todo), Entry(r)) = Cat(h, t)
              /\ Cat(F, rest) = Bytes(Cat(todo, <<>>)) => Cat(F, Cat(rest, Packet(r))) = Bytes(Cat(t, <<>>))
        BY OneMore
      <4> QED BY <1>0, <3>6, <4>1
    <3>8. Cat(rest, Packet(m)) = Packet(m)
      BY <2>1, <3>3, CatEmpty
    <3>9. writeMu' # None /\ Packet(m) = writing'[writeMu'] /\ side' = "client"
      BY <1>3, <1>4, <1>5, <2>3, WireAssumption
    <3>10. AsRead(sent') = Cat(handed', t) /\ Cat(Slice(mem', cache'), FlattenSeq(wire')) = F
      BY <1>4, <2>0, <3>4, <3>5, <3>6, <3>7
    <3>11. Tied(t, <<>>, Packet(m))'
      BY <3>7, <3>8, <3>9, <3>10 DEF Tied
    <3> QED BY <2>1, <3>11, EmptySeq
  <2> QED BY <1>2, <2>4, <2>5 DEF WireInv
<1>6. CASE (conn = "closed" \/ broken) /\ UNCHANGED <<writeMu, writing, sent>>
  <2>1. WireType'
    <3>1. Len(handed) \in Nat /\ Len(sent) \in Nat
      BY <1>1, LenProperties DEF WireType
    <3>2. Len(sent') <= sends' /\ Len(handed') <= sends' /\ sends' \in Nat
      BY <1>1, <1>3, <1>4, <1>6, <3>1 DEF WireType
    <3> QED BY <1>1, <1>3, <1>4, <1>6, <3>2 DEF WireType
  <2>2. Stream'
    BY <1>1, <1>4, <1>6 DEF Stream, Tied
  <2> QED BY <1>2, <2>1, <2>2 DEF WireInv
<1> QED BY <1>5, <1>6 DEF Send

\* A write moves bytes from the rest to the wire.
LEMMA WriteStep == ASSUME WireInv, NEW s \in Senders, Write(s) PROVE WireInv'
<1>1. WireType /\ MemInv /\ Stream
  BY DEF WireInv
<1>2. MemInv'
  BY <1>1 DEF Write, readerVars, MemInv
<1>3. UNCHANGED <<side, net, sends, sent, queue, conn, broken, torn, mem, cache, handed, pending>>
  BY DEF Write, readerVars
<1>4. writeMu = s /\ s # None /\ side = "client" /\ writing[s] \in Seq(Cell) /\ writing[s] # <<>>
  BY <1>1, WireAssumption DEF Write, WireType
<1>5. PICK w \in Seq(Cell) : w = writing[s]
  BY <1>4
<1>6. PICK n \in Parts(w) :
         /\ Transmit(SubSeq(w, 1, n))
         /\ writing' = [writing EXCEPT ![s] = SubSeq(w, n + 1, Len(w))]
         /\ writeMu' = IF n = Len(w) THEN None ELSE s
  BY <1>5 DEF Write
<1>7. PICK a \in Seq(Cell), b \in Seq(Cell) :
        /\ a = SubSeq(w, 1, n) /\ b = SubSeq(w, n + 1, Len(w))
        /\ Cat(a, b) = w /\ (n = Len(w) <=> b = <<>>)
  <2>1. n \in 1 .. Len(w)
    BY <1>4, <1>5, PartsType
  <2> QED BY <1>4, <1>5, <2>1, TwoParts
<1>8. Transmit(a) /\ writing' = [writing EXCEPT ![s] = b] /\ writeMu' = IF b = <<>> THEN None ELSE s
  BY <1>6, <1>7
<1>9. wire' \in Seq(Seq(Cell)) /\ (net = "ws" \/ Len(wire') <= 1) /\ FlattenSeq(wire') = Cat(FlattenSeq(wire), a)
  BY <1>1, <1>8, Transmitted DEF WireType
<1>10. writing' \in [Senders \cup {Loop} -> Seq(Cell)] /\ writing'[s] = b
  BY <1>1, <1>8 DEF WireType
<1>11. WireType'
  BY <1>1, <1>3, <1>4, <1>8, <1>9, <1>10 DEF WireType
<1>12. Stream'
  <2>1. SUFFICES ASSUME ~torn'
                 PROVE  \E todo \in Seq(Entries), spill \in Seq(Entries), rest \in Seq(Cell) : Tied(todo, spill, rest)'
    BY DEF Stream
  <2>2. PICK todo \in Seq(Entries), spill \in Seq(Entries), rest \in Seq(Cell) : Tied(todo, spill, rest)
    BY <1>1, <1>3, <2>1 DEF Stream
  <2>3. spill = <<>> /\ rest = Cat(a, b)
    BY <1>4, <1>5, <1>7, <2>2 DEF Tied
  <2>4. PICK c \in Seq(Cell), f \in Seq(Cell) : c = Slice(mem, cache) /\ f = FlattenSeq(wire)
    BY <1>1, FlightType
  <2>5. Cat(Cat(c, f), Cat(a, b)) = Bytes(Cat(todo, spill))
    BY <2>2, <2>3, <2>4 DEF Tied
  <2>6. Cat(Cat(c, Cat(f, a)), b) = Bytes(Cat(todo, spill))
    BY <2>5, Moved
  <2>7. Cat(Slice(mem', cache'), FlattenSeq(wire')) = Cat(c, Cat(f, a))
    BY <1>3, <1>9, <2>4
  <2>8. writeMu' # None => spill = <<>> /\ b = writing'[writeMu']
    BY <1>8, <1>10, <2>3
  <2>9. writeMu' = None => spill = <<>> /\ b = <<>>
    BY <1>4, <1>8, <2>3
  <2>10. side' = "client" /\ AsRead(sent') = Cat(handed', todo)
    BY <1>3, <1>4, <2>2 DEF Tied
  <2>11. Tied(todo, spill, b)'
    BY <2>3, <2>6, <2>7, <2>8, <2>9, <2>10 DEF Tied
  <2> QED BY <2>11
<1> QED BY <1>2, <1>11, <1>12 DEF WireInv

\* A write fails: the message is not sent after all, and what was written of
\* it is the end of the stream, or the packet is torn.
LEMMA WriteFailsStep == ASSUME WireInv, NEW s \in Senders, WriteFails(s) PROVE WireInv'
<1>1. WireType /\ MemInv /\ Stream
  BY DEF WireInv
<1>2. MemInv'
  BY <1>1 DEF WriteFails, readerVars, MemInv
<1>3. UNCHANGED <<side, net, sends, queue, wire, mem, cache, handed, pending>>
  BY DEF WriteFails, readerVars
<1>4. writeMu = s /\ s # None /\ side = "client" /\ writing[s] \in Seq(Cell) /\ writing[s] # <<>>
  BY <1>1, WireAssumption DEF WriteFails, WireType
<1>5. writing' = [writing EXCEPT ![s] = <<>>] /\ writeMu' = None /\ sent' = Front(sent)
  BY DEF WriteFails
<1>6. ~torn' => ~torn /\ (writing[s] = Packet(Last(sent).msg) \/ broken' \/ conn' = "closed")
  BY DEF WriteFails
<1>7. sent' \in Seq(Originals) /\ Len(sent') <= sends
  <2>1. CASE sent = <<>>
    <3>1. Len(sent) = 0 /\ 0 - 1 < 1 /\ 0 - 1 \in Int
      BY <2>1, EmptySeq
    <3>2. SubSeq(sent, 1, 0 - 1) = <<>>
      BY <3>1, SubSeqEmpty
    <3>3. sent' = <<>>
      BY <1>5, <3>1, <3>2 DEF Front
    <3> QED BY <3>3, <2>1, <1>1 DEF WireType
  <2>2. CASE sent # <<>>
    <3>1. PICK t \in Seq(Originals) : t = sent' /\ Len(t) <= Len(sent)
      BY <1>1, <1>5, <2>2, AsReadLess DEF WireType
    <3>2. Len(t) \in Nat /\ Len(sent) \in Nat /\ Len(sent) <= sends /\ sends \in Nat
      BY <1>1, LenProperties DEF WireType
    <3> QED BY <3>1, <3>2
  <2> QED BY <2>1, <2>2
<1>8. WireType'
  <2>1. writing' \in [Senders \cup {Loop} -> Seq(Cell)]
    BY <1>1, <1>5, EmptySeq DEF WireType
  <2> QED BY <1>1, <1>3, <1>5, <1>7, <2>1 DEF WireType
<1>9. Stream'
  <2>1. SUFFICES ASSUME ~torn'
                 PROVE  \E todo \in Seq(Entries), spill \in Seq(Entries), rest \in Seq(Cell) : Tied(todo, spill, rest)'
    BY DEF Stream
  <2>2. PICK todo \in Seq(Entries), spill \in Seq(Entries), rest \in Seq(Cell) : Tied(todo, spill, rest)
    BY <1>1, <1>6, <2>1 DEF Stream
  <2>3. PICK F \in Seq(Cell), w \in Seq(Cell), h \in Seq(Entries) :
          F = Cat(Slice(mem, cache), FlattenSeq(wire)) /\ w = writing[s] /\ h = handed
    BY <1>1, <1>4, FlightType DEF WireType
  <2>4. spill = <<>> /\ rest = w /\ Cat(F, w) = Bytes(Cat(todo, spill)) /\ AsRead(sent) = Cat(h, todo) /\ w # <<>>
    BY <1>4, <2>2, <2>3 DEF Tied
  <2>5. Cat(F, w) = Bytes(todo)
    BY <2>4, CatEmpty
  <2>6. PICK t \in Seq(Entries), e \in Entries, one \in Seq(Entries) :
           /\ one = <<e>> /\ todo = Cat(t, one)
           /\ Front(Cat(h, todo)) = Cat(h, t) /\ Last(Cat(h, todo)) = e
           /\ Bytes(todo) = Cat(Bytes(t), Packet(e.msg)) /\ Packet(e.msg) \in Seq(Cell)
    BY <2>4, <2>5, OneLess
  <2>11. sent # <<>>
    <3>1. SUFFICES ASSUME sent = <<>> PROVE FALSE
      OBVIOUS
    <3>2. Cat(h, todo) = <<>>
      BY <2>4, <3>1, AsReadEmpty
    <3>3. todo = <<>>
      BY <3>2, CatNone
    <3>4. Cat(F, w) = <<>>
      BY <2>5, <3>3, BytesEmpty
    <3> QED BY <2>4, <3>4, CatNone
  <2>7. AsRead(sent') = Cat(handed', t) /\ Packet(Last(sent).msg) = Packet(e.msg)
    <3>1. AsRead(sent') = Front(AsRead(sent)) /\ Packet(Last(sent).msg) = Packet(Last(AsRead(sent)).msg)
      BY <1>1, <1>5, <2>11, AsReadLess DEF WireType
    <3> QED BY <1>3, <2>3, <2>4, <2>6, <3>1
  <2>8. side' = "client" /\ writeMu' = None /\ Cat(Slice(mem', cache'), FlattenSeq(wire')) = F
    BY <1>3, <1>4, <1>5, <2>3
  <2>9. CASE w = Packet(e.msg)
    <3>1. F = Bytes(t)
      BY <2>5, <2>6, <2>9, BytesType, CatSame
    <3>2. Cat(F, <<>>) = Bytes(Cat(t, <<>>))
      BY <3>1, CatEmpty
    <3>3. Tied(t, <<>>, <<>>)'
      BY <2>7, <2>8, <3>2 DEF Tied
    <3> QED BY <3>3, EmptySeq
  <2>10. CASE w # Packet(e.msg)
    <3>1. broken' \/ conn' = "closed"
      BY <1>6, <2>1, <2>3, <2>7, <2>10
    <3>2. Len(one) = 1
      BY <2>6
    <3>3. Cat(F, w) = Bytes(Cat(t, one))
      BY <2>5, <2>6
    <3>4. Tied(t, one, w)'
      BY <2>4, <2>7, <2>8, <3>1, <3>2, <3>3 DEF Tied
    <3> QED BY <3>4
  <2> QED BY <2>9, <2>10
<1> QED BY <1>2, <1>8, <1>9 DEF WireInv

-----------------------------------------------------------------------------
\* The steps of a server that writes, and those that close

\* A closed connection ties nothing that is still to be written.
LEMMA ClosedKeeps ==
  ASSUME WireInv, UNCHANGED <<side, sent, writeMu, wire, torn, mem, cache, handed>>, conn' = "closed",
         writeMu # None => writing'[writeMu] = writing[writeMu]
  PROVE  Stream'
<1>1. SUFFICES ASSUME ~torn'
               PROVE  \E todo \in Seq(Entries), spill \in Seq(Entries), rest \in Seq(Cell) : Tied(todo, spill, rest)'
  BY DEF Stream
<1>2. PICK todo \in Seq(Entries), spill \in Seq(Entries), rest \in Seq(Cell) : Tied(todo, spill, rest)
  BY <1>1 DEF WireInv, Stream
<1>3. Tied(todo, spill, rest)'
  BY <1>2 DEF Tied
<1> QED BY <1>3

\* Nothing that Tied relates changes.
LEMMA StreamKeeps ==
  ASSUME WireInv,
         UNCHANGED <<side, sent, queue, writing, writeMu, wire, conn, broken, torn, mem, cache, handed>>
  PROVE  Stream'
BY DEF WireInv, Stream, Tied

\* The server queues a packet, or closes a session whose queue is full.
LEMMA EnqueueStep == ASSUME WireInv, NEW m \in Offered, Enqueue(m) PROVE WireInv'
<1>1. WireType /\ MemInv /\ Stream /\ m \in Raw
  BY OfferedType DEF WireInv
<1>0. PICK r \in Msgs : r = SenseOf(m) /\ Packet(r) = Packet(m)
  BY <1>1, ReadAs
<1>2. MemInv'
  BY <1>1 DEF Enqueue, readerVars, MemInv
<1>3. sends' = sends + 1 /\ sends' <= MaxSends /\ side = "server" /\ writeMu = None
  BY <1>1, WireAssumption DEF Enqueue, WireType
<1>4. UNCHANGED <<side, net, writing, writeMu, wire, broken, torn, mem, cache, handed, pending>>
  BY DEF Enqueue, readerVars
<1>5. Len(handed) \in Nat /\ Len(sent) \in Nat /\ sends \in Nat /\ Len(handed) <= sends /\ Len(sent) <= sends
  BY <1>1, LenProperties DEF WireType
<1>6. CASE UNCHANGED <<conn, queue, sent>>
  <2>1. WireType'
    BY <1>1, <1>3, <1>4, <1>5, <1>6 DEF WireType
  <2>2. Stream'
    BY <1>4, <1>6, StreamKeeps
  <2> QED BY <1>2, <2>1, <2>2 DEF WireInv
<1>7. CASE Closed /\ UNCHANGED sent
  <2>1. conn' = "closed" /\ queue' \in Seq(Seq(Cell))
    BY <1>1, <1>7, Emptied DEF WireType
  <2>2. WireType'
    BY <1>1, <1>3, <1>4, <1>5, <1>7, <2>1 DEF WireType
  <2>3. Stream'
    BY <1>4, <1>7, <2>1, ClosedKeeps
  <2> QED BY <1>2, <2>2, <2>3 DEF WireInv
<1>8. CASE conn = "up" /\ queue' = Append(queue, Packet(m)) /\ sent' = Append(sent, Entry(m)) /\ UNCHANGED conn
  <2>1. Packet(m) \in Seq(Cell)
    BY <1>0, PacketType
  <2>2. sent' \in Seq(Originals) /\ Len(sent') = Len(sent) + 1
    BY <1>1, <1>8, ReadAs, AppendProperties DEF WireType
  <2>0. AsRead(sent') = Append(AsRead(sent), Entry(r))
    BY <1>0, <1>1, <1>8, AsReadMore DEF WireType
  <2>3. queue' \in Seq(Seq(Cell)) /\ FlattenSeq(queue') = Cat(FlattenSeq(queue), Packet(m))
    <3> DEFINE T == Seq(Cell)
    <3>1. queue \in Seq(T) /\ Packet(m) \in T
      BY <1>1, <2>1 DEF WireType
    <3>2. FlattenSeq(queue') = FlattenSeq(queue) \o Packet(m)
      BY <1>8, <3>1, FlattenAppend
    <3> HIDE DEF T
    <3>3. queue' \in Seq(T)
      BY <1>8, <3>1, AppendProperties
    <3> QED BY <3>2, <3>3 DEF Cat, T
  <2>4. WireType'
    <3>1. Len(sent') <= sends' /\ Len(handed') <= sends' /\ sends' \in Nat
      BY <1>3, <1>4, <1>5, <2>2
    <3> QED BY <1>1, <1>3, <1>4, <2>2, <2>3, <3>1 DEF WireType
  <2>5. Stream'
    <3>1. SUFFICES ASSUME ~torn'
                   PROVE  \E todo \in Seq(Entries), spill \in Seq(Entries), rest \in Seq(Cell) : Tied(todo, spill, rest)'
      BY DEF Stream
    <3>2. PICK todo \in Seq(Entries), spill \in Seq(Entries), rest \in Seq(Cell) : Tied(todo, spill, rest)
      BY <1>1, <1>4, <3>1 DEF Stream
    <3>3. spill = <<>> /\ rest = Cat(writing[Loop], FlattenSeq(queue))
      BY <1>3, <1>8, <3>2 DEF Tied
    <3>4. PICK F \in Seq(Cell) : F = Cat(Slice(mem, cache), FlattenSeq(wire))
      BY <1>1, FlightType
    <3>5. PICK h \in Seq(Entries) : h = handed
      BY <1>1 DEF WireType
    <3>6. Cat(F, rest) = Bytes(Cat(todo, <<>>)) /\ AsRead(sent) = Cat(h, todo)
      BY <3>2, <3>3, <3>4, <3>5 DEF Tied
    <3>7. PICK t \in Seq(Entries) :
            Append(Cat(h, todo), Entry(r)) = Cat(h, t) /\ Cat(F, Cat(rest, Packet(m))) = Bytes(Cat(t, <<>>))
      <4>1. \E t \in Seq(Entries) :
              /\ Append(Cat(h, todo), Entry(r)) = Cat(h, t)
              /\ Cat(F, rest) = Bytes(Cat(todo, <<>>)) => Cat(F, Cat(rest, Packet(r))) = Bytes(Cat(t, <<>>))
        BY OneMore
      <4> QED BY <1>0, <3>6, <4>1
    <3>8. PICK x \in Seq(Cell) : x = Cat(rest, Packet(m))
      BY <2>1, CatType
    <3>9. x = Cat(writing[Loop], Cat(FlattenSeq(queue), Packet(m)))
      <4>1. writing[Loop] \in Seq(Cell) /\ FlattenSeq(queue) \in Seq(Cell)
        BY <1>1, FlightType DEF WireType
      <4>2. Cat(Cat(writing[Loop], FlattenSeq(queue)), Packet(m)) = Cat(writing[Loop], Cat(FlattenSeq(queue), Packet(m)))
        BY <2>1, <4>1, CatAssociative
      <4> QED BY <3>3, <3>8, <4>2
    <3>10. x = Cat(writing'[Loop], FlattenSeq(queue')) /\ side' = "server" /\ writeMu' = None
      BY <1>3, <1>4, <2>3, <3>9
    <3>11. AsRead(sent') = Cat(handed', t) /\ Cat(Slice(mem', cache'), FlattenSeq(wire')) = F
      BY <1>4, <2>0, <3>4, <3>5, <3>6, <3>7
    <3>12. Cat(Cat(Slice(mem', cache'), FlattenSeq(wire')), x) = Bytes(Cat(t, <<>>))
      BY <3>7, <3>8, <3>11
    <3>13. Tied(t, <<>>, x)'
      BY <3>10, <3>11, <3>12 DEF Tied
    <3> QED BY <3>13, EmptySeq
  <2> QED BY <1>2, <2>4, <2>5 DEF WireInv
<1> QED BY <1>6, <1>7, <1>8 DEF Enqueue

\* The next packet leaves the queue for the write loop.
LEMMA LoopPopsStep == ASSUME WireInv, LoopPops PROVE WireInv'
<1>1. WireType /\ MemInv /\ Stream
  BY DEF WireInv
<1>2. MemInv'
  BY <1>1 DEF LoopPops, readerVars, MemInv
<1>3. UNCHANGED <<side, net, sends, sent, writeMu, wire, conn, broken, torn, mem, cache, handed, pending>>
  BY DEF LoopPops, readerVars
<1>4. /\ side = "server" /\ queue # <<>> /\ writing[Loop] = <<>> /\ writeMu = None
      /\ writing' = [writing EXCEPT ![Loop] = Head(queue)] /\ queue' = Tail(queue)
  BY <1>1 DEF LoopPops, WireType
<1>5. Head(queue) \in Seq(Cell) /\ Tail(queue) \in Seq(Seq(Cell))
      /\ FlattenSeq(queue) = Cat(Head(queue), FlattenSeq(Tail(queue)))
  <2>1. FlattenSeq(queue) = Head(queue) \o FlattenSeq(Tail(queue))
    BY <1>1, <1>4, FlattenHead DEF WireType
  <2> DEFINE T == Seq(Cell)
  <2>2. queue \in Seq(T)
    BY <1>1 DEF WireType
  <2> HIDE DEF T
  <2>3. Head(queue) \in T /\ Tail(queue) \in Seq(T)
    BY <1>4, <2>2, HeadTailProperties
  <2> QED BY <2>1, <2>3 DEF Cat, T
<1>6. writing' \in [Senders \cup {Loop} -> Seq(Cell)] /\ writing'[Loop] = Head(queue)
  BY <1>1, <1>4, <1>5 DEF WireType
<1>7. WireType'
  BY <1>1, <1>3, <1>4, <1>5, <1>6 DEF WireType
<1>8. Stream'
  <2>1. SUFFICES ASSUME ~torn'
                 PROVE  \E todo \in Seq(Entries), spill \in Seq(Entries), rest \in Seq(Cell) : Tied(todo, spill, rest)'
    BY DEF Stream
  <2>2. PICK todo \in Seq(Entries), spill \in Seq(Entries), rest \in Seq(Cell) : Tied(todo, spill, rest)
    BY <1>1, <1>3, <2>1 DEF Stream
  <2>3. PICK q \in Seq(Cell) : q = FlattenSeq(queue)
    BY <1>1, FlightType
  <2>4. q = Cat(writing'[Loop], FlattenSeq(queue'))
    BY <1>4, <1>5, <1>6, <2>3
  <2>5. side' = "server" /\ writeMu' = None
    BY <1>3, <1>4
  <2>6. conn' = "up" => spill = <<>> /\ rest = q
    <3>1. conn' = "up" => spill = <<>> /\ rest = Cat(<<>>, q)
      BY <1>3, <1>4, <2>2, <2>3 DEF Tied
    <3>2. Cat(<<>>, q) = q
      BY CatEmpty
    <3> QED BY <3>1, <3>2
  <2>7. /\ AsRead(sent') = Cat(handed', todo) /\ (spill # <<>> => rest # <<>> /\ Len(spill) = 1)
        /\ Cat(Cat(Slice(mem', cache'), FlattenSeq(wire')), rest) = Bytes(Cat(todo, spill))
    BY <1>3, <2>2 DEF Tied
  <2>8. Tied(todo, spill, rest)'
    BY <2>4, <2>5, <2>6, <2>7 DEF Tied
  <2> QED BY <2>8
<1> QED BY <1>2, <1>7, <1>8 DEF WireInv

\* The write loop writes: bytes move from the rest to the wire.
LEMMA LoopWritesStep == ASSUME WireInv, LoopWrites PROVE WireInv'
<1>1. WireType /\ MemInv /\ Stream
  BY DEF WireInv
<1>2. MemInv'
  BY <1>1 DEF LoopWrites, readerVars, MemInv
<1>3. UNCHANGED <<side, net, sends, sent, queue, writeMu, conn, broken, torn, mem, cache, handed, pending>>
  BY DEF LoopWrites, readerVars
<1>4. side = "server" /\ writeMu = None /\ writing[Loop] \in Seq(Cell) /\ writing[Loop] # <<>> /\ conn = "up"
  BY <1>1 DEF LoopWrites, WireType
<1>5. PICK w \in Seq(Cell) : w = writing[Loop]
  BY <1>4
<1>6. PICK n \in Parts(w) :
         /\ Transmit(SubSeq(w, 1, n))
         /\ writing' = [writing EXCEPT ![Loop] = SubSeq(w, n + 1, Len(w))]
  BY <1>5 DEF LoopWrites
<1>7. PICK a \in Seq(Cell), b \in Seq(Cell) :
        a = SubSeq(w, 1, n) /\ b = SubSeq(w, n + 1, Len(w)) /\ Cat(a, b) = w
  <2>1. n \in 1 .. Len(w)
    BY <1>4, <1>5, PartsType
  <2> QED BY <1>4, <1>5, <2>1, TwoParts
<1>8. Transmit(a) /\ writing' = [writing EXCEPT ![Loop] = b]
  BY <1>6, <1>7
<1>9. wire' \in Seq(Seq(Cell)) /\ (net = "ws" \/ Len(wire') <= 1) /\ FlattenSeq(wire') = Cat(FlattenSeq(wire), a)
  BY <1>1, <1>8, Transmitted DEF WireType
<1>10. writing' \in [Senders \cup {Loop} -> Seq(Cell)] /\ writing'[Loop] = b
  BY <1>1, <1>8 DEF WireType
<1>11. WireType'
  BY <1>1, <1>3, <1>4, <1>9, <1>10 DEF WireType
<1>12. Stream'
  <2>1. SUFFICES ASSUME ~torn'
                 PROVE  \E todo \in Seq(Entries), spill \in Seq(Entries), rest \in Seq(Cell) : Tied(todo, spill, rest)'
    BY DEF Stream
  <2>2. PICK todo \in Seq(Entries), spill \in Seq(Entries), rest \in Seq(Cell) : Tied(todo, spill, rest)
    BY <1>1, <1>3, <2>1 DEF Stream
  <2>3. PICK c \in Seq(Cell), f \in Seq(Cell), q \in Seq(Cell) :
          c = Slice(mem, cache) /\ f = FlattenSeq(wire) /\ q = FlattenSeq(queue)
    BY <1>1, FlightType
  <2>4. spill = <<>> /\ rest = Cat(w, q)
    BY <1>4, <1>5, <2>2, <2>3 DEF Tied
  <2>5. PICK r \in Seq(Cell) : r = Cat(b, q)
    BY CatType
  <2>6. rest = Cat(a, r)
    <3>1. Cat(Cat(a, b), q) = Cat(a, Cat(b, q))
      BY CatAssociative
    <3> QED BY <3>1, <1>7, <2>4, <2>5
  <2>7. Cat(Cat(c, f), Cat(a, r)) = Bytes(Cat(todo, spill))
    BY <2>2, <2>3, <2>6 DEF Tied
  <2>8. Cat(Cat(c, Cat(f, a)), r) = Bytes(Cat(todo, spill))
    BY <2>7, Moved
  <2>9. Cat(Slice(mem', cache'), FlattenSeq(wire')) = Cat(c, Cat(f, a))
    BY <1>3, <1>9, <2>3
  <2>10. r = Cat(writing'[Loop], FlattenSeq(queue')) /\ side' = "server" /\ writeMu' = None
    BY <1>3, <1>4, <1>10, <2>3, <2>5
  <2>11. AsRead(sent') = Cat(handed', todo)
    BY <1>3, <2>2 DEF Tied
  <2>12. Tied(todo, spill, r)'
    BY <2>4, <2>8, <2>9, <2>10, <2>11 DEF Tied
  <2> QED BY <2>12
<1> QED BY <1>2, <1>11, <1>12 DEF WireInv

\* The write loop fails and closes.
LEMMA LoopFailsStep == ASSUME WireInv, LoopFails PROVE WireInv'
<1>1. WireType /\ MemInv
  BY DEF WireInv
<1>2. /\ UNCHANGED <<side, net, sends, sent, writeMu, wire, broken, torn, mem, cache, handed, pending>>
      /\ writing' = [writing EXCEPT ![Loop] = <<>>] /\ writeMu = None
  BY <1>1 DEF LoopFails, readerVars, WireType
<1>3. conn' = "closed" /\ queue' \in Seq(Seq(Cell))
  BY <1>1, Emptied DEF LoopFails, WireType
<1>4. writing' \in [Senders \cup {Loop} -> Seq(Cell)]
  BY <1>1, <1>2, EmptySeq DEF WireType
<1>5. WireType'
  BY <1>1, <1>2, <1>3, <1>4 DEF WireType
<1>6. MemInv'
  BY <1>1, <1>2 DEF MemInv
<1>7. Stream'
  BY <1>2, <1>3, ClosedKeeps
<1> QED BY <1>5, <1>6, <1>7 DEF WireInv

\* The other steps that close
LEMMA ClosingSteps == ASSUME WireInv, Close \/ BadFrameEnds \/ Misread PROVE WireInv'
<1>1. WireType /\ MemInv
  BY DEF WireInv
<1>2. UNCHANGED <<side, net, sends, sent, writing, writeMu, wire, broken, torn, mem, cache, handed, pending>> /\ Closed
  BY DEF Close, BadFrameEnds, Misread, readerVars
<1>3. conn' = "closed" /\ queue' \in Seq(Seq(Cell))
  BY <1>1, <1>2, Emptied DEF WireType
<1>4. WireType'
  BY <1>1, <1>2, <1>3 DEF WireType
<1>5. MemInv'
  BY <1>1, <1>2 DEF MemInv
<1>6. Stream'
  BY <1>2, <1>3, ClosedKeeps
<1> QED BY <1>4, <1>5, <1>6 DEF WireInv

\* Steps that change nothing the invariant speaks of
LEMMA QuietSteps ==
  ASSUME WireInv, ReadFails \/ UNCHANGED vars
  PROVE  WireInv'
<1>1. UNCHANGED <<side, net, sends, sent, queue, writing, writeMu, wire, conn, broken, torn, mem, cache, handed, pending>>
  BY DEF ReadFails, vars, senderVars, readerVars
<1>2. WireType'
  BY <1>1 DEF WireInv, WireType
<1>3. MemInv'
  BY <1>1 DEF WireInv, MemInv
<1>4. Stream'
  BY <1>1, StreamKeeps
<1> QED BY <1>2, <1>3, <1>4 DEF WireInv

-----------------------------------------------------------------------------
\* The steps of the reader: reads

\* What a read of n cells leaves of the chunks v
Put(v, b) == [v EXCEPT ![1] = b]
Remains(v, n) == IF n = Len(v[1]) THEN Tail(v) ELSE Put(v, SubSeq(v[1], n + 1, Len(v[1])))

\* The first chunk is cut short.
LEMMA HeadReplaced ==
  ASSUME NEW T, NEW v \in Seq(Seq(T)), v # <<>>, NEW b \in Seq(T)
  PROVE  \E u \in Seq(Seq(T)) :
           u = Put(v, b) /\ Len(u) = Len(v) /\ FlattenSeq(u) = Cat(b, FlattenSeq(Tail(v)))
<1> DEFINE S == Seq(T)
<1>1. v \in Seq(S) /\ b \in S /\ Len(v) \in Nat \ {0} /\ 1 \in 1 .. Len(v)
  BY EmptySeq
<1> HIDE DEF S
<1>2. PICK u \in Seq(S) : u = Put(v, b)
  BY <1>1, ExceptSeq DEF Put
<1>3. Len(u) = Len(v) /\ \A j \in 1 .. Len(v) : u[j] = IF j = 1 THEN b ELSE v[j]
  BY <1>1, <1>2, ExceptSeq DEF Put
<1>4. u # <<>> /\ u[1] = b
  BY <1>1, <1>3, EmptySeq
<1>5. Head(u) = b
  BY <1>4
<1>6. Tail(u) = Tail(v)
  <2> DEFINE x == Tail(u)
             y == Tail(v)
  <2>1. x \in Seq(S) /\ Len(x) = Len(u) - 1 /\ \A i \in 1 .. Len(x) : x[i] = u[i + 1]
    BY <1>4, HeadTailProperties
  <2>2. y \in Seq(S) /\ Len(y) = Len(v) - 1 /\ \A i \in 1 .. Len(y) : y[i] = v[i + 1]
    BY <1>1, HeadTailProperties
  <2> HIDE DEF x, y
  <2>3. ASSUME NEW i \in 1 .. Len(x) PROVE x[i] = y[i]
    <3>1. i + 1 \in 1 .. Len(v) /\ i + 1 # 1 /\ i \in 1 .. Len(y)
      BY <1>1, <1>3, <2>1, <2>2
    <3> QED BY <3>1, <1>3, <2>1, <2>2
  <2>4. Len(x) = Len(y)
    BY <1>3, <2>1, <2>2
  <2>5. x = y
    BY <2>1, <2>2, <2>3, <2>4, SeqEqual
  <2> QED BY <2>5 DEF x, y
<1>7. FlattenSeq(u) = Head(u) \o FlattenSeq(Tail(u))
  BY <1>4, FlattenHead DEF S
<1> QED BY <1>2, <1>3, <1>5, <1>6, <1>7 DEF S, Cat

\* A read takes the front of the first chunk.
LEMMA Taken ==
  ASSUME NEW v \in Seq(Seq(Cell)), v # <<>>, NEW n \in 1 .. Len(v[1]), NEW u, u = Remains(v, n)
  PROVE  \E a \in Seq(Cell) :
           /\ a = SubSeq(v[1], 1, n) /\ a # <<>>
           /\ u \in Seq(Seq(Cell)) /\ (Len(v) <= 1 => Len(u) <= 1)
           /\ FlattenSeq(v) = Cat(a, FlattenSeq(u))
<1> DEFINE S == Seq(Cell)
<1>1. v \in Seq(S) /\ Len(v) \in Nat \ {0} /\ 1 \in 1 .. Len(v)
  BY EmptySeq
<1>2. PICK h \in Seq(Cell) : h = v[1]
  BY <1>1, ElementOfSeq
<1>3. h # <<>> /\ n \in 1 .. Len(h)
  BY <1>2, EmptySeq
<1>4. PICK a \in Seq(Cell), b \in Seq(Cell) :
        /\ a = SubSeq(h, 1, n) /\ b = SubSeq(h, n + 1, Len(h)) /\ Cat(a, b) = h /\ a # <<>>
        /\ (n = Len(h) <=> b = <<>>)
  BY <1>3, TwoParts
<1>5. FlattenSeq(v) = Cat(h, FlattenSeq(Tail(v)))
  <2>1. FlattenSeq(v) = Head(v) \o FlattenSeq(Tail(v))
    BY FlattenHead
  <2> QED BY <2>1, <1>2 DEF Cat
<1>6. PICK y \in Seq(S) : y = Tail(v) /\ Len(y) = Len(v) - 1
  <2> HIDE DEF S
  <2> QED BY <1>1, HeadTailProperties
<1>7. FlattenSeq(y) \in Seq(Cell)
  BY <1>6, FlattenType
<1>8. CASE n = Len(h)
  <2>1. u = y /\ Cat(a, <<>>) = a
    BY <1>2, <1>6, <1>8, CatEmpty DEF Remains
  <2>2. h = a
    BY <1>4, <1>8, <2>1
  <2>3. FlattenSeq(v) = Cat(a, FlattenSeq(u))
    BY <1>5, <1>6, <2>1, <2>2
  <2>4. Len(v) <= 1 => Len(y) <= 1
    <3> DEFINE l == Len(v)
               k == Len(y)
    <3>1. l \in Nat /\ k = l - 1
      BY <1>1, <1>6
    <3> HIDE DEF l, k
    <3>2. l <= 1 => k <= 1
      BY <3>1
    <3> QED BY <3>2 DEF l, k
  <2>5. u \in Seq(Seq(Cell)) /\ (Len(v) <= 1 => Len(u) <= 1)
    BY <1>6, <2>1, <2>4
  <2> QED BY <1>2, <1>4, <2>3, <2>5
<1>9. CASE n # Len(h)
  <2>1. u = Put(v, b)
    BY <1>2, <1>4, <1>9 DEF Remains
  <2>2. u \in Seq(Seq(Cell)) /\ Len(u) = Len(v) /\ FlattenSeq(u) = Cat(b, FlattenSeq(y))
    BY <1>6, <2>1, HeadReplaced
  <2>3. Cat(Cat(a, b), FlattenSeq(y)) = Cat(a, Cat(b, FlattenSeq(y)))
    BY <1>7, CatAssociative
  <2>4. FlattenSeq(v) = Cat(a, FlattenSeq(u))
    BY <1>4, <1>5, <1>6, <2>2, <2>3
  <2> QED BY <1>2, <1>4, <2>2, <2>4
<1> QED BY <1>8, <1>9

\* The reader's memory changes, what is not handed on stays the same.
LEMMA ReaderKeeps ==
  ASSUME WireInv, UNCHANGED <<side, sent, queue, writing, writeMu, conn, broken, torn, handed>>,
         Cat(Slice(mem', cache'), FlattenSeq(wire')) = Cat(Slice(mem, cache), FlattenSeq(wire))
  PROVE  Stream'
BY DEF WireInv, Stream, Tied

\* A read moves bytes from the wire to the cache.
LEMMA ReadStep == ASSUME WireInv, Read PROVE WireInv'
<1>1. WireType /\ MemInv /\ Stream
  BY DEF WireInv
<1>2. UNCHANGED <<side, net, sends, sent, queue, writing, writeMu, conn, broken, torn, handed, pending>>
  BY DEF Read, senderVars
<1>3. PICK n \in Cut(Len(wire[1])) \cap 1 .. Len(wire[1]) :
        LET after == AppendTo(cache, SubSeq(wire[1], 1, n))
        IN  /\ wire' = IF n = Len(wire[1]) THEN Tail(wire) ELSE [wire EXCEPT ![1] = SubSeq(@, n + 1, Len(@))]
            /\ cache' = after.slice /\ mem' = Collect(after.m, after.slice, pending)
  BY DEF Read
<1>4. wire \in Seq(Seq(Cell)) /\ wire # <<>> /\ n \in 1 .. Len(wire[1])
  BY <1>1 DEF Read, WireType
<1>5. PICK v \in Seq(Seq(Cell)) : v = wire
  BY <1>4
<1>6. PICK a \in Seq(Cell) :
        /\ a = SubSeq(wire[1], 1, n) /\ a # <<>>
        /\ wire' \in Seq(Seq(Cell)) /\ (Len(wire) <= 1 => Len(wire') <= 1)
        /\ FlattenSeq(wire) = Cat(a, FlattenSeq(wire'))
  <2>1. wire' = Remains(v, n)
    BY <1>3, <1>5 DEF Remains, Put
  <2>2. v # <<>> /\ n \in 1 .. Len(v[1])
    BY <1>4, <1>5
  <2>3. \E x \in Seq(Cell) :
           /\ x = SubSeq(v[1], 1, n) /\ x # <<>>
           /\ wire' \in Seq(Seq(Cell)) /\ (Len(v) <= 1 => Len(wire') <= 1)
           /\ FlattenSeq(v) = Cat(x, FlattenSeq(wire'))
    BY <2>1, <2>2, Taken
  <2> QED BY <2>3, <1>5
<1> DEFINE after == AppendTo(cache, a)
<1>7. MemOK(after.m, after.slice) /\ Holds(after.m, after.slice, pending)
      /\ Slice(after.m, after.slice) = Cat(Slice(mem, cache), a)
  BY <1>1, <1>6, RoomLeft, Appended DEF MemInv, Cat
<1>8. cache' = after.slice /\ mem' = Collect(after.m, after.slice, pending)
  BY <1>3, <1>6
<1> HIDE DEF after
<1>9. MemOK(mem', cache') /\ Holds(mem', cache', pending) /\ Slice(mem', cache') = Cat(Slice(mem, cache), a)
  BY <1>7, <1>8, Collected
<1>10. MemInv'
  BY <1>2, <1>9 DEF MemInv
<1>11. WireType'
  BY <1>1, <1>2, <1>6 DEF WireType
<1>12. Cat(Slice(mem', cache'), FlattenSeq(wire')) = Cat(Slice(mem, cache), FlattenSeq(wire))
  <2>1. Slice(mem, cache) \in Seq(Cell) /\ FlattenSeq(wire') \in Seq(Cell)
    BY <1>1, <1>6, FlightType, FlattenType
  <2>2. Cat(Cat(Slice(mem, cache), a), FlattenSeq(wire')) = Cat(Slice(mem, cache), Cat(a, FlattenSeq(wire')))
    BY <2>1, CatAssociative
  <2> QED BY <1>6, <1>9, <2>2
<1>13. Stream'
  BY <1>2, <1>12, ReaderKeeps
<1> QED BY <1>10, <1>11, <1>13 DEF WireInv

\* The cache is compacted when it holds no frame.
LEMMA IncompleteStep == ASSUME WireInv, Incomplete PROVE WireInv'
<1>1. WireType /\ MemInv /\ Stream
  BY DEF WireInv
<1>2. UNCHANGED <<side, net, sends, sent, queue, writing, writeMu, wire, conn, broken, torn, handed, pending>>
  BY DEF Incomplete, senderVars
<1> DEFINE kept == Compact(cache)
<1>3. cache' = kept.slice /\ mem' = Collect(kept.m, kept.slice, pending)
  BY DEF Incomplete
<1>4. MemOK(kept.m, kept.slice) /\ Holds(kept.m, kept.slice, pending) /\ Slice(kept.m, kept.slice) = Slice(mem, cache)
  BY <1>1, RoomLeft, Compacted DEF MemInv
<1> HIDE DEF kept
<1>5. MemOK(mem', cache') /\ Holds(mem', cache', pending) /\ Slice(mem', cache') = Slice(mem, cache)
  BY <1>3, <1>4, Collected
<1>6. MemInv'
  BY <1>2, <1>5 DEF MemInv
<1>7. WireType'
  BY <1>1, <1>2 DEF WireType
<1>8. Stream'
  BY <1>2, <1>5, ReaderKeeps
<1> QED BY <1>6, <1>7, <1>8 DEF WireInv

\* A datagram is taken, its memory may be given back.
LEMMA ConsumeStep == ASSUME WireInv, Consume PROVE WireInv'
<1>1. WireType /\ MemInv /\ Stream
  BY DEF WireInv
<1>2. UNCHANGED <<side, net, sends, sent, queue, writing, writeMu, wire, conn, broken, torn, handed, cache>>
  BY DEF Consume, senderVars
<1>3. pending # <<>> /\ pending' = Tail(pending) /\ mem' = Collect(mem, cache, pending')
  BY DEF Consume
<1>4. pending' \in Seq(Ref) /\ Len(pending') = Len(pending) - 1 /\ Len(pending) \in Nat
      /\ \A k \in 1 .. Len(pending') : pending'[k] = pending[k + 1]
  BY <1>1, <1>3, HeadTailProperties, LenProperties DEF WireType
<1>5. Holds(mem, cache, pending')
  <2>1. DOMAIN pending' = 1 .. Len(pending') /\ DOMAIN pending = 1 .. Len(pending)
    BY <1>1, <1>4, LenProperties DEF WireType
  <2>2. ASSUME NEW k \in DOMAIN pending' PROVE Kept(mem, cache, pending'[k])
    <3>1. k + 1 \in DOMAIN pending /\ pending'[k] = pending[k + 1]
      BY <1>4, <2>1
    <3> QED BY <3>1, <1>1 DEF MemInv, Holds
  <2> QED BY <2>2 DEF Holds
<1>6. MemOK(mem', cache) /\ Holds(mem', cache, pending') /\ Slice(mem', cache) = Slice(mem, cache)
  BY <1>1, <1>3, <1>5, Collected DEF MemInv
<1>7. MemInv'
  BY <1>2, <1>6 DEF MemInv
<1>8. WireType'
  <2>1. Len(handed) \in Nat /\ Len(pending') <= Len(handed)
    BY <1>1, <1>4, LenProperties DEF WireType
  <2> QED BY <1>1, <1>2, <1>4, <2>1 DEF WireType
<1>9. Stream'
  BY <1>2, <1>6, ReaderKeeps
<1> QED BY <1>7, <1>8, <1>9 DEF WireInv

-----------------------------------------------------------------------------
\* The steps of the reader: frames

\* frame is the packet P of e, the first message of todo, taken off the cells c
FrameOf(c, f, rest, todo, spill, frame, e, one, t, P) ==
    /\ one = <<e>> /\ todo = Cat(one, t)
    /\ P = Packet(e.msg) /\ Len(P) <= Len(c) /\ (\A k \in 1 .. Len(P) : c[k] = P[k])
    /\ frame = SubSeq(P, 3, Len(P))
    /\ Cat(Cat(SubSeq(c, Len(P) + 1, Len(c)), f), rest) = Bytes(Cat(t, spill))

\* A frame that is found is that of the first message not handed on, whole.
LEMMA FirstFound ==
  ASSUME NEW c \in Seq(Cell), NEW f \in Seq(Cell), NEW rest \in Seq(Cell),
         NEW todo \in Seq(Entries), NEW spill \in Seq(Entries), NEW max,
         Cat(Cat(c, f), rest) = Bytes(Cat(todo, spill)), spill # <<>> => rest # <<>> /\ Len(spill) = 1,
         TryExtractFrame(c, max).kind = "frame"
  PROVE  \E e \in Entries, one \in Seq(Entries), t \in Seq(Entries), P \in Seq(Cell) :
           FrameOf(c, f, rest, todo, spill, TryExtractFrame(c, max).frame, e, one, t, P)
<1>1. PICK x \in Seq(Cell) : x = Cat(f, rest)
  BY CatType
<1>2. Cat(c, x) = Bytes(Cat(todo, spill))
  BY <1>1, CatAssociative
<1>3. c # <<>>
  BY DEF TryExtractFrame, NoFrame
<1>4. todo # <<>>
  <2>1. SUFFICES ASSUME todo = <<>> PROVE FALSE
    OBVIOUS
  <2>2. Cat(c, x) = Bytes(spill)
    BY <1>2, <2>1, CatEmpty
  <2>3. spill # <<>>
    <3>1. spill = <<>> => Cat(c, x) = <<>>
      BY <2>2, BytesEmpty
    <3> QED BY <1>3, <3>1, CatNone
  <2>4. PICK e \in Entries : spill = <<e>>
    <3>1. Len(spill) = 1
      BY <2>3
    <3>2. spill[1] \in Entries /\ spill = <<spill[1]>>
      <4>1. spill \in [1 .. 1 -> Entries]
        BY <3>1, LenProperties
      <4> QED BY <3>1, <4>1
    <3> QED BY <3>2
  <2>5. PICK P \in Seq(Cell) : P = Packet(e.msg) /\ Bytes(spill) = P
    BY <2>4, BytesOne, EntryFacts
  <2>6. Cat(c, x) = Cat(Packet(e.msg), <<>>)
    BY <2>2, <2>5, CatEmpty
  <2>7. Len(P) <= Len(c)
    <3>1. PICK z \in Seq(Cell) : z = <<>>
      BY EmptySeq
    <3>2. Cat(c, x) = Cat(Packet(e.msg), z)
      BY <2>6, <3>1
    <3>3. Len(Packet(e.msg)) <= Len(c)
      BY <3>2, FramesAreWhole
    <3> QED BY <2>5, <3>3
  <2>8. Len(c \o x) = Len(c) + Len(x) /\ Len(c) \in Nat /\ Len(x) \in Nat /\ Len(P) \in Nat
    BY ConcatProperties, LenProperties
  <2>9. c \o x = P
    BY <2>2, <2>5 DEF Cat
  <2>10. x = <<>>
    <3> DEFINE l == Len(c)
               m == Len(x)
               p == Len(P)
    <3>1. l \in Nat /\ m \in Nat /\ p \in Nat /\ p <= l /\ p = l + m
      BY <2>7, <2>8, <2>9
    <3> HIDE DEF l, m, p
    <3>2. m = 0
      BY <3>1
    <3> QED BY <3>2, EmptySeq DEF m
  <2> QED BY <1>1, <2>3, <2>10, CatNone
<1>5. PICK e \in Entries, t \in Seq(Entries) : e = Head(todo) /\ t = Tail(todo)
  BY <1>4, HeadTailProperties
<1>6. PICK one \in Seq(Entries) : one = <<e>> /\ Bytes(one) = Packet(e.msg)
  BY BytesOne
<1>7. PICK P \in Seq(Cell) : P = Packet(e.msg)
  BY EntryFacts
<1>8. todo = Cat(one, t)
  <2>1. todo = <<Head(todo)>> \o Tail(todo)
    BY <1>4, HeadFirst
  <2> QED BY <2>1, <1>5, <1>6 DEF Cat
<1>9. PICK y \in Seq(Cell) : y = Bytes(Cat(t, spill))
  <2>1. Cat(t, spill) \in Seq(Entries)
    BY CatType
  <2> QED BY <2>1, BytesType
<1>10. Cat(c, x) = Cat(P, y)
  <2>1. Cat(Cat(one, t), spill) = Cat(one, Cat(t, spill)) /\ Cat(t, spill) \in Seq(Entries)
    BY CatAssociative, CatType
  <2>2. Bytes(Cat(one, Cat(t, spill))) = Cat(Bytes(one), Bytes(Cat(t, spill)))
    BY <2>1, CatBytes
  <2> QED BY <1>2, <1>6, <1>7, <1>8, <1>9, <2>1, <2>2
<1>11. Len(P) <= Len(c) /\ TryExtractFrame(c, max).frame = SubSeq(P, 3, Len(P))
  <2>1. Cat(c, x) = Cat(Packet(e.msg), y)
    BY <1>7, <1>10
  <2> QED BY <1>7, <2>1, FramesAreWhole
<1>12. PICK l \in Nat : l = Len(c)
  BY LenProperties
<1>13. PICK p \in Nat : p = Len(P)
  BY LenProperties
<1>14. PICK b \in Seq(Cell) : b = SubSeq(c, p + 1, l)
  <2>1. \A k \in p + 1 .. l : c[k] \in Cell
    <3>1. \A k \in p + 1 .. l : k \in 1 .. l
      BY <1>12, <1>13
    <3> QED BY <3>1, <1>12, ElementOfSeq
  <2>2. p + 1 \in Int /\ l \in Int
    BY <1>12, <1>13
  <2> QED BY <2>1, <2>2, SubSeqProperties
<1>15. (\A k \in 1 .. Len(c) : k <= Len(P) => c[k] = P[k]) /\ Cat(b, x) = y
  <2>1. /\ \A k \in 1 .. Len(c) : k <= Len(P) => c[k] = P[k]
        /\ Len(P) <= Len(c) => Cat(SubSeq(c, Len(P) + 1, Len(c)), x) = y
    BY <1>10, CutOff
  <2> QED BY <2>1, <1>11, <1>12, <1>13, <1>14
<1>16. \A k \in 1 .. Len(P) : c[k] = P[k]
  <2>1. \A k \in 1 .. p : k \in 1 .. l /\ k <= p
    BY <1>11, <1>12, <1>13
  <2> QED BY <2>1, <1>12, <1>13, <1>15
<1>17. Cat(Cat(b, f), rest) = Bytes(Cat(t, spill))
  <2>1. Cat(Cat(b, f), rest) = Cat(b, Cat(f, rest))
    BY CatAssociative
  <2> QED BY <1>1, <1>9, <1>15, <2>1
<1>18. FrameOf(c, f, rest, todo, spill, TryExtractFrame(c, max).frame, e, one, t, P)
  BY <1>6, <1>7, <1>8, <1>11, <1>12, <1>13, <1>14, <1>16, <1>17 DEF FrameOf
<1> QED BY <1>18

\* Slice s without its first n cells
Skip(s, n) == [s EXCEPT !.from = @ + n]

\* A slice cut at its front
LEMMA Skipped ==
  ASSUME NEW m, NEW s, NEW refs, MemOK(m, s), Holds(m, s, refs), s.buf # None, NEW n \in Nat, n <= Len(Slice(m, s))
  PROVE  /\ MemOK(m, Skip(s, n)) /\ Holds(m, Skip(s, n), refs)
         /\ Slice(m, Skip(s, n)) = SubSeq(Slice(m, s), n + 1, Len(Slice(m, s)))
<1>1. PICK z : z = Skip(s, n)
  OBVIOUS
<1>2. s = [buf |-> s.buf, from |-> s.from, to |-> s.to]
  BY DEF MemOK
<1>3. z = [buf |-> s.buf, from |-> s.from + n, to |-> s.to]
  BY <1>1, <1>2 DEF Skip
<1>4. z.buf = s.buf /\ z.from = s.from + n /\ z.to = s.to /\ z = [buf |-> z.buf, from |-> z.from, to |-> z.to]
  BY <1>3
<1>5. PICK c \in Seq(Cell) : c = Slice(m, s) /\ Len(c) = s.to - s.from
        /\ \A k \in 1 .. s.to - s.from : c[k] = m[s.buf].cells[s.from + k]
  BY SliceType
<1>6. /\ s.from \in Nat /\ s.to \in Nat /\ s.from <= s.to /\ n <= s.to - s.from
      /\ s.to <= Len(m[s.buf].cells) /\ s.buf \in Buffers
  BY <1>5 DEF MemOK
<1>7. z.from \in Nat /\ z.to \in Nat /\ z.from <= z.to /\ s.from <= z.from
  BY <1>4, <1>6
<1>8. MemOK(m, z)
  <2>1. z.buf \in Buffers /\ z.buf # None /\ z.to <= Len(m[z.buf].cells)
    BY <1>4, <1>6
  <2>2. /\ \A b \in Buffers : m[b].cap \in Nat /\ m[b].cells \in Seq(Cell)
        /\ m = [b \in Buffers |-> [cap |-> m[b].cap, cells |-> m[b].cells]]
    BY DEF MemOK
  <2> QED BY <1>4, <1>7, <2>1, <2>2 DEF MemOK
<1>9. Holds(m, z, refs)
  <2>1. ASSUME NEW k \in DOMAIN refs PROVE Kept(m, z, refs[k])
    <3>1. Kept(m, s, refs[k])
      BY DEF Holds
    <3>2. refs[k].buf = z.buf => refs[k].at <= z.from
      <4>1. SUFFICES ASSUME refs[k].buf = z.buf PROVE refs[k].at <= z.from
        OBVIOUS
      <4>2. refs[k].at <= s.from /\ refs[k].at \in 1 .. Len(m[s.buf].cells)
        BY <1>4, <3>1, <4>1 DEF Kept
      <4>3. refs[k].at \in Nat
        <5>1. m[s.buf].cells \in Seq(Cell)
          BY <1>6 DEF MemOK
        <5>2. Len(m[s.buf].cells) \in Nat
          BY <5>1, LenProperties
        <5> QED BY <4>2, <5>2
      <4> QED BY <1>6, <1>7, <4>2, <4>3
    <3> QED BY <3>1, <3>2 DEF Kept
  <2> QED BY <2>1 DEF Holds
<1>10. PICK x \in Seq(Cell) : x = Slice(m, z) /\ Len(x) = z.to - z.from
         /\ \A k \in 1 .. z.to - z.from : x[k] = m[z.buf].cells[z.from + k]
  BY <1>4, <1>8, SliceType
<1>11. PICK l \in Nat : l = Len(c)
  BY LenProperties
<1>12. PICK y \in Seq(Cell) : y = SubSeq(c, n + 1, l) /\ Len(y) = l - n
         /\ \A k \in 1 .. l - n : y[k] = c[n + k]
  <2>1. \A k \in n + 1 .. l : c[k] \in Cell
    <3>1. \A k \in n + 1 .. l : k \in 1 .. l
      OBVIOUS
    <3> QED BY <3>1, <1>11, ElementOfSeq
  <2>2. n + 1 \in Int /\ l \in Int /\ n <= l
    BY <1>5, <1>6, <1>11
  <2>3. /\ SubSeq(c, n + 1, l) \in Seq(Cell)
        /\ Len(SubSeq(c, n + 1, l)) = IF n + 1 <= l THEN l - (n + 1) + 1 ELSE 0
        /\ \A i \in 1 .. l - (n + 1) + 1 : SubSeq(c, n + 1, l)[i] = c[n + 1 + i - 1]
    BY <2>1, <2>2, SubSeqProperties
  <2>4. Len(SubSeq(c, n + 1, l)) = l - n
    BY <2>2, <2>3
  <2>5. ASSUME NEW k \in 1 .. l - n PROVE SubSeq(c, n + 1, l)[k] = c[n + k]
    <3>1. k \in 1 .. l - (n + 1) + 1 /\ n + 1 + k - 1 = n + k
      BY <2>2
    <3> QED BY <3>1, <2>3
  <2> QED BY <2>3, <2>4, <2>5
<1>13. x = y
  <2>1. l = s.to - s.from /\ z.to - z.from = l - n /\ n <= l
    BY <1>4, <1>5, <1>6, <1>11
  <2>2. ASSUME NEW k \in 1 .. l - n PROVE x[k] = y[k]
    <3>1. n + k \in 1 .. s.to - s.from /\ s.from + (n + k) = z.from + k /\ k \in 1 .. z.to - z.from
      BY <1>4, <1>6, <2>1
    <3>2. c[n + k] = m[s.buf].cells[s.from + (n + k)]
      BY <1>5, <3>1
    <3>3. x[k] = m[s.buf].cells[z.from + k]
      BY <1>4, <1>10, <3>1
    <3> QED BY <1>12, <3>1, <3>2, <3>3
  <2>3. Len(x) = Len(y) /\ \A k \in 1 .. Len(x) : x[k] = y[k]
    BY <1>10, <1>12, <2>1, <2>2
  <2> QED BY <2>3, SeqEqual
<1> QED BY <1>1, <1>5, <1>8, <1>9, <1>10, <1>11, <1>12, <1>13

\* One datagram more
LEMMA OneRefMore ==
  ASSUME NEW m, NEW s, NEW refs \in Seq(Ref), NEW r \in Ref, Holds(m, s, refs), Kept(m, s, r)
  PROVE  Holds(m, s, Append(refs, r))
<1>1. PICK q \in Seq(Ref) : q = Append(refs, r)
  BY AppendProperties
<1>2. PICK n \in Nat : n = Len(refs)
  BY LenProperties
<1>3. Len(q) = n + 1 /\ (\A k \in 1 .. n : q[k] = refs[k]) /\ q[n + 1] = r /\ DOMAIN q = 1 .. n + 1 /\ DOMAIN refs = 1 .. n
  BY <1>1, <1>2, AppendProperties, LenProperties
<1>4. ASSUME NEW k \in DOMAIN q PROVE Kept(m, s, q[k])
  <2>1. k \in 1 .. n \/ k = n + 1
    BY <1>3
  <2>2. CASE k \in 1 .. n
    BY <2>2, <1>3 DEF Holds
  <2>3. CASE k = n + 1
    BY <2>3, <1>3
  <2> QED BY <2>1, <2>2, <2>3
<1> QED BY <1>1, <1>4 DEF Holds

\* Where a datagram's data are: in the frame that is taken off the cache
LEMMA RefKept ==
  ASSUME NEW m, NEW s, MemOK(m, s), s.buf # None, NEW P \in Seq(Cell), Len(P) >= 3,
         Len(P) <= Len(Slice(m, s)), \A k \in 1 .. Len(P) : Slice(m, s)[k] = P[k],
         NEW k \in 2 .. Len(P) - 2, NEW r,
         r = [buf |-> s.buf, at |-> s.from + 2 + k, want |-> SubSeq(P, 3, Len(P))[k].field.val]
  PROVE  r \in Ref /\ Kept(m, Skip(s, Len(P)), r)
<1>1. PICK p \in Nat : p = Len(P)
  BY LenProperties
<1>2. PICK fr \in Seq(Cell) : fr = SubSeq(P, 3, p) /\ fr[k] = P[k + 2]
  <2>1. \A j \in 3 .. p : P[j] \in Cell
    <3>1. \A j \in 3 .. p : j \in 1 .. p
      OBVIOUS
    <3> QED BY <3>1, <1>1, ElementOfSeq
  <2>2. 3 \in Int /\ p \in Int
    OBVIOUS
  <2>3. /\ SubSeq(P, 3, p) \in Seq(Cell)
        /\ \A i \in 1 .. p - 3 + 1 : SubSeq(P, 3, p)[i] = P[3 + i - 1]
    BY <2>1, <2>2, SubSeqProperties
  <2>4. k \in 1 .. p - 3 + 1 /\ 3 + k - 1 = k + 2
    BY <1>1
  <2> QED BY <2>3, <2>4
<1>3. PICK d \in Seq(Cell) : d = m[s.buf].cells
  BY DEF MemOK
<1>4. PICK l \in Nat : l = Len(d)
  BY LenProperties
<1>5. /\ s.buf \in Buffers /\ s.from \in Nat /\ s.to \in Nat /\ s.from <= s.to /\ s.to <= l
      /\ s = [buf |-> s.buf, from |-> s.from, to |-> s.to]
  BY <1>3, <1>4 DEF MemOK
<1>6. Len(Slice(m, s)) = s.to - s.from /\ \A i \in 1 .. s.to - s.from : Slice(m, s)[i] = d[s.from + i]
  BY <1>3, SliceType
<1>7. PICK at \in Nat : at = s.from + 2 + k
  BY <1>5
<1>8. k + 2 \in 1 .. p /\ k + 2 \in 1 .. s.to - s.from /\ at = s.from + (k + 2) /\ at <= s.from + p /\ at \in 1 .. l
  BY <1>1, <1>5, <1>6, <1>7
<1>9. d[at] = P[k + 2]
  BY <1>1, <1>6, <1>8
<1>10. r = [buf |-> s.buf, at |-> at, want |-> fr[k].field.val]
  BY <1>1, <1>2, <1>7
<1>11. r.buf = s.buf /\ r.at = at /\ r.want = d[at].field.val /\ P[k + 2] \in Cell
  BY <1>1, <1>2, <1>8, <1>9, <1>10, ElementOfSeq
<1>12. r \in Ref
  <2>1. PICK x \in Cell : x = P[k + 2]
    BY <1>11
  <2>2. r = [buf |-> s.buf, at |-> at, want |-> x.field.val]
    BY <1>2, <1>10, <2>1
  <2> QED BY <2>2, <1>5 DEF Ref
<1>13. Skip(s, Len(P)).buf = s.buf /\ Skip(s, Len(P)).from = s.from + p
  BY <1>1, <1>5 DEF Skip
<1> QED BY <1>3, <1>4, <1>5, <1>8, <1>11, <1>12, <1>13 DEF Kept

\* What a frame does to the state, e being the message it holds and P its packet
LEMMA FrameTaken ==
  ASSUME WireInv, Frame
  PROVE  \E todo \in Seq(Entries), spill \in Seq(Entries), rest \in Seq(Cell),
            e \in Entries, one \in Seq(Entries), t \in Seq(Entries), P \in Seq(Cell) :
           /\ Tied(todo, spill, rest)
           /\ FrameOf(Slice(mem, cache), FlattenSeq(wire), rest, todo, spill, Found.frame, e, one, t, P)
<1>1. WireType /\ MemInv /\ Stream /\ ~torn
  BY DEF WireInv, Frame
<1>2. PICK todo \in Seq(Entries), spill \in Seq(Entries), rest \in Seq(Cell) : Tied(todo, spill, rest)
  BY <1>1 DEF Stream
<1>3. PICK c \in Seq(Cell) : c = Slice(mem, cache)
  BY <1>1, FlightType
<1>4. PICK f \in Seq(Cell) : f = FlattenSeq(wire)
  BY <1>1, FlightType
<1>5. PICK max : max = MaxFrame[ReadSide]
  OBVIOUS
<1>6. Found = TryExtractFrame(c, max)
  <2>1. Cells(cache) = c
    BY <1>3 DEF Cells, Slice
  <2> QED BY <2>1, <1>5 DEF Found
<1>7. TryExtractFrame(c, max).kind = "frame"
  BY <1>6 DEF Frame
<1>8. Cat(Cat(c, f), rest) = Bytes(Cat(todo, spill)) /\ (spill # <<>> => rest # <<>> /\ Len(spill) = 1)
  BY <1>2, <1>3, <1>4 DEF Tied
<1>9. \E e \in Entries, one \in Seq(Entries), t \in Seq(Entries), P \in Seq(Cell) :
           FrameOf(c, f, rest, todo, spill, TryExtractFrame(c, max).frame, e, one, t, P)
  BY <1>7, <1>8, FirstFound
<1> QED BY <1>2, <1>3, <1>4, <1>6, <1>9

\* A frame is handed on: the next message, whose packet leaves the cache.
LEMMA FrameStep == ASSUME WireInv, Frame PROVE WireInv'
<1>1. WireType /\ MemInv /\ Stream /\ ~torn
  BY DEF WireInv, Frame
<1>2. UNCHANGED <<side, net, sends, sent, queue, writing, writeMu, wire, conn, broken, torn>>
  BY DEF Frame, senderVars
<1>3. PICK todo \in Seq(Entries), spill \in Seq(Entries), rest \in Seq(Cell),
            e \in Entries, one \in Seq(Entries), t \in Seq(Entries), P \in Seq(Cell) :
           /\ Tied(todo, spill, rest)
           /\ FrameOf(Slice(mem, cache), FlattenSeq(wire), rest, todo, spill, Found.frame, e, one, t, P)
  BY FrameTaken
<1>4. Len(P) >= 3 /\ [Decode(SubSeq(P, 3, Len(P))) EXCEPT !.msg = Held(@)] = e /\ Found.frame = SubSeq(P, 3, Len(P))
  BY <1>3, EntryFacts DEF FrameOf
<1>5. /\ one = <<e>> /\ Tied(Cat(one, t), spill, rest)
      /\ Len(P) >= 3 /\ Len(P) <= Len(Slice(mem, cache))
      /\ \A k \in 1 .. Len(P) : Slice(mem, cache)[k] = P[k]
      /\ Cat(Cat(SubSeq(Slice(mem, cache), Len(P) + 1, Len(Slice(mem, cache))), FlattenSeq(wire)), rest)
            = Bytes(Cat(t, spill))
      /\ handed' = Append(handed, e)
      /\ Found.frame = SubSeq(P, 3, Len(P))
  <2>1. handed' = Append(handed, [Decode(Found.frame) EXCEPT !.msg = Held(@)])
    BY DEF Frame
  <2>2. handed' = Append(handed, e)
    BY <1>4, <2>1
  <2> QED BY <1>3, <1>4, <2>2 DEF FrameOf
<1>6. PICK p \in Nat : p = Len(P)
  BY LenProperties
<1>7. PICK fr \in Seq(Cell) : fr = SubSeq(P, 3, p) /\ Len(fr) = p - 2
  <2>1. \A j \in 3 .. p : P[j] \in Cell
    <3>1. \A j \in 3 .. p : j \in 1 .. p
      OBVIOUS
    <3> QED BY <3>1, <1>6, ElementOfSeq
  <2>2. 3 \in Int /\ p \in Int /\ p >= 3
    BY <1>5, <1>6
  <2>3. SubSeq(P, 3, p) \in Seq(Cell) /\ Len(SubSeq(P, 3, p)) = IF 3 <= p THEN p - 3 + 1 ELSE 0
    BY <2>1, <2>2, SubSeqProperties
  <2>4. Len(SubSeq(P, 3, p)) = p - 2
    BY <2>2, <2>3
  <2> QED BY <2>3, <2>4
<1>8. MemOK(mem, cache) /\ Holds(mem, cache, pending) /\ cache.buf # None
  <2>1. cache.buf = None => Slice(mem, cache) = <<>>
    BY DEF Slice
  <2>2. Slice(mem, cache) # <<>>
    <3>1. SUFFICES ASSUME Slice(mem, cache) = <<>> PROVE FALSE
      OBVIOUS
    <3>2. Len(Slice(mem, cache)) = 0
      BY <3>1, EmptySeq
    <3> QED BY <1>5, <3>2
  <2> QED BY <2>1, <2>2, <1>1 DEF MemInv
<1> DEFINE s == Skip(cache, p)
           kept == Compact(s)
<1>9. /\ MemOK(mem, s) /\ Holds(mem, s, pending)
      /\ Slice(mem, s) = SubSeq(Slice(mem, cache), p + 1, Len(Slice(mem, cache)))
  BY <1>5, <1>6, <1>8, Skipped
<1>10. [cache EXCEPT !.from = @ + 2 + Len(fr)] = s
  <2>1. cache.from \in Nat /\ cache.from + 2 + (p - 2) = cache.from + p
    BY <1>8 DEF MemOK
  <2>2. cache = [buf |-> cache.buf, from |-> cache.from, to |-> cache.to]
    BY <1>8 DEF MemOK
  <2> QED BY <1>7, <2>1, <2>2 DEF Skip
<1>11. /\ cache' = kept.slice /\ mem' = Collect(kept.m, kept.slice, pending')
      /\ \/ pending' = pending
         \/ \E k \in 2 .. Len(fr) :
              pending' = Append(pending, [buf |-> cache.buf, at |-> cache.from + 2 + k, want |-> fr[k].field.val])
  <2>1. Found.frame = fr
    BY <1>5, <1>6, <1>7
  <2> HIDE DEF s
  <2>2. /\ cache' = kept.slice /\ mem' = Collect(kept.m, kept.slice, pending')
        /\ LET refs == IF Decode(fr).msg.type \in Datagrams THEN DataAt(fr) ELSE {}
               ref(k) == [buf |-> cache.buf, at |-> cache.from + 2 + k, want |-> fr[k].field.val]
           IN  pending' = IF refs = {} THEN pending ELSE Append(pending, ref(CHOOSE k \in refs : TRUE))
    BY <1>10, <2>1 DEF Frame
  <2> DEFINE refs == IF Decode(fr).msg.type \in Datagrams THEN DataAt(fr) ELSE {}
             j == CHOOSE k \in refs : TRUE
  <2>3. refs # {} => j \in 2 .. Len(fr)
    <3>1. refs \subseteq 2 .. Len(fr)
      BY DEF DataAt
    <3> HIDE DEF refs
    <3>2. refs # {} => j \in refs
      OBVIOUS
    <3> QED BY <3>1, <3>2
  <2>4. pending' = IF refs = {} THEN pending
                   ELSE Append(pending, [buf |-> cache.buf, at |-> cache.from + 2 + j, want |-> fr[j].field.val])
    BY <2>2
  <2> HIDE DEF refs, j, kept
  <2> QED BY <2>2, <2>3, <2>4
<1>12. /\ pending' \in Seq(Ref) /\ Len(pending') <= Len(pending) + 1 /\ Len(pending) \in Nat
       /\ Holds(mem, s, pending') /\ \A k \in DOMAIN pending' : pending'[k].buf # Fresh
  <2>1. Room /\ (\A k \in DOMAIN pending : pending[k].buf # Fresh) /\ cache.buf # Fresh
    BY <1>1, RoomLeft DEF Room, InUse
  <2>2. pending \in Seq(Ref) /\ Len(pending) \in Nat
    BY <1>1, LenProperties DEF WireType
  <2>3. CASE pending' = pending
    BY <2>1, <2>2, <2>3, <1>9
  <2>4. ASSUME NEW k \in 2 .. Len(fr), NEW r,
               r = [buf |-> cache.buf, at |-> cache.from + 2 + k, want |-> fr[k].field.val],
               pending' = Append(pending, r)
        PROVE  /\ pending' \in Seq(Ref) /\ Len(pending') = Len(pending) + 1
               /\ Holds(mem, s, pending') /\ \A i \in DOMAIN pending' : pending'[i].buf # Fresh
    <3>1. k \in 2 .. Len(P) - 2
      BY <1>6, <1>7
    <3>2. r = [buf |-> cache.buf, at |-> cache.from + 2 + k, want |-> SubSeq(P, 3, Len(P))[k].field.val]
      BY <1>6, <1>7, <2>4
    <3>3. r \in Ref /\ Kept(mem, s, r)
      <4>1. r \in Ref /\ Kept(mem, Skip(cache, Len(P)), r)
        BY <1>5, <1>8, <3>1, <3>2, RefKept
      <4> QED BY <4>1, <1>6
    <3> HIDE DEF s
    <3>4. Holds(mem, s, pending')
      BY <1>9, <2>2, <2>4, <3>3, OneRefMore
    <3>5. pending' \in Seq(Ref) /\ Len(pending') = Len(pending) + 1
          /\ (\A i \in 1 .. Len(pending) : pending'[i] = pending[i]) /\ pending'[Len(pending) + 1] = r
      BY <2>2, <2>4, <3>3, AppendProperties
    <3>6. DOMAIN pending' = 1 .. Len(pending) + 1 /\ DOMAIN pending = 1 .. Len(pending)
      BY <2>2, <3>5, LenProperties
    <3>7. r.buf = cache.buf
      BY <2>4
    <3>8. ASSUME NEW i \in DOMAIN pending' PROVE pending'[i].buf # Fresh
      <4>1. i \in 1 .. Len(pending) \/ i = Len(pending) + 1
        <5>1. PICK n \in Nat : n = Len(pending)
          BY <2>2
        <5>2. i \in 1 .. n + 1
          BY <3>6, <5>1
        <5>3. i \in 1 .. n \/ i = n + 1
          BY <5>2
        <5> QED BY <5>1, <5>3
      <4> QED BY <4>1, <2>1, <3>5, <3>6, <3>7
    <3> QED BY <3>4, <3>5, <3>8
  <2>5. CASE pending' # pending
    <3>1. PICK k \in 2 .. Len(fr) :
            pending' = Append(pending, [buf |-> cache.buf, at |-> cache.from + 2 + k, want |-> fr[k].field.val])
      BY <1>11, <2>5
    <3>2. PICK r : r = [buf |-> cache.buf, at |-> cache.from + 2 + k, want |-> fr[k].field.val]
      OBVIOUS
    <3>3. pending' = Append(pending, r)
      BY <3>1, <3>2
    <3> HIDE DEF s
    <3>4. Len(pending') = Len(pending) + 1 => Len(pending') <= Len(pending) + 1
      BY <2>2
    <3> QED BY <2>2, <2>4, <3>2, <3>3, <3>4
  <2> QED BY <2>3, <2>5
<1>13. MemOK(kept.m, kept.slice) /\ Holds(kept.m, kept.slice, pending') /\ Slice(kept.m, kept.slice) = Slice(mem, s)
  <2> HIDE DEF s
  <2> QED BY <1>1, <1>9, <1>12, RoomLeft, Compacted
<1>14. MemOK(mem', cache') /\ Holds(mem', cache', pending') /\ Slice(mem', cache') = Slice(mem, s)
  <2> HIDE DEF s, kept
  <2> QED BY <1>11, <1>13, Collected
<1>15. MemInv'
  BY <1>14 DEF MemInv
<1>16. AsRead(sent) = Cat(handed', t) /\ handed' \in Seq(Entries) /\ Len(handed') = Len(handed) + 1 /\ Len(handed) \in Nat
  <2>1. handed \in Seq(Entries) /\ Len(handed) \in Nat
    BY <1>1, LenProperties DEF WireType
  <2>2. handed' \in Seq(Entries) /\ Len(handed') = Len(handed) + 1
    BY <1>5, <2>1, AppendProperties
  <2>3. handed' = Cat(handed, one)
    BY <1>5, <2>1, CatLast
  <2>4. AsRead(sent) = Cat(handed, Cat(one, t))
    BY <1>5 DEF Tied
  <2>5. Cat(Cat(handed, one), t) = Cat(handed, Cat(one, t))
    BY <2>1, CatAssociative
  <2> QED BY <2>1, <2>2, <2>3, <2>4, <2>5
<1>17. WireType'
  <2>1. Len(handed') <= Len(sent)
    <3>1. PICK h \in Seq(Entries) : h = handed'
      BY <1>16
    <3>2. Len(h \o t) = Len(h) + Len(t) /\ Len(h) \in Nat /\ Len(t) \in Nat
      BY ConcatProperties, LenProperties
    <3>3. Len(AsRead(sent)) = Len(h) + Len(t)
      BY <1>16, <3>1, <3>2 DEF Cat
    <3>5. Len(AsRead(sent)) = Len(sent)
      BY <1>1, AsReadType DEF WireType
    <3>4. Len(h) <= Len(h) + Len(t)
      BY <3>2
    <3> QED BY <3>1, <3>3, <3>4, <3>5
  <2>2. Len(sent) <= sends /\ Len(sent) \in Nat /\ sends \in Nat /\ Len(pending) <= Len(handed)
    BY <1>1, LenProperties DEF WireType
  <2>3. Len(handed') \in Nat /\ Len(pending') \in Nat
    BY <1>12, <1>16, LenProperties
  <2>4. Len(handed') <= sends /\ Len(pending') <= Len(handed')
    BY <1>12, <1>16, <2>1, <2>2, <2>3
  <2> QED BY <1>1, <1>2, <1>12, <1>16, <2>4 DEF WireType
<1>18. Stream'
  <2>1. Cat(Cat(Slice(mem', cache'), FlattenSeq(wire')), rest) = Bytes(Cat(t, spill))
    <3> HIDE DEF s
    <3> QED BY <1>2, <1>5, <1>6, <1>9, <1>14
  <2>2. Tied(t, spill, rest)'
    BY <1>2, <1>5, <1>16, <2>1 DEF Tied
  <2> QED BY <2>2 DEF Stream
<1> QED BY <1>15, <1>17, <1>18 DEF WireInv

\* Every step keeps the invariant.
LEMMA NextHolds == WireInv /\ [Next]_vars => WireInv'
<1>1. SUFFICES ASSUME WireInv, [Next]_vars PROVE WireInv'
  OBVIOUS
<1>2. ASSUME NEW s \in Senders, Write(s) PROVE WireInv'
  BY <1>1, <1>2, WriteStep
<1>3. ASSUME NEW s \in Senders, WriteFails(s) PROVE WireInv'
  BY <1>1, <1>3, WriteFailsStep
<1>4. ASSUME NEW s \in Senders, NEW m \in Offered, Send(s, m) PROVE WireInv'
  BY <1>1, <1>4, SendStep
<1>5. ASSUME NEW m \in Offered, Enqueue(m) PROVE WireInv'
  BY <1>1, <1>5, EnqueueStep
<1>6. CASE LoopPops \/ LoopWrites \/ LoopFails \/ Close
  BY <1>1, <1>6, LoopPopsStep, LoopWritesStep, LoopFailsStep, ClosingSteps
<1>7. CASE Read \/ ReadFails \/ Incomplete \/ Frame \/ BadFrameEnds \/ Misread \/ Consume
  BY <1>1, <1>7, ReadStep, QuietSteps, IncompleteStep, FrameStep, ClosingSteps, ConsumeStep
<1>8. CASE UNCHANGED vars
  BY <1>1, <1>8, QuietSteps
<1> QED BY <1>1, <1>2, <1>3, <1>4, <1>5, <1>6, <1>7, <1>8 DEF Next

\* In every state, what was sent, each message as its reader understands it, is
\* what was handed on and, byte for byte and in order, what the reader's cache,
\* the transport and the writers hold; and every slice of a datagram lies in
\* memory that nobody writes.  A message may be anything that has a value for
\* each field of its type, with nested messages that are all zero (session.go:568).
THEOREM WireInvariant == Spec => []WireInv
BY InitHolds, NextHolds, PTL DEF Spec

\* The cells of a datagram that waits lie before the cache or in another buffer.
LEMMA InvStable == WireInv => Stable
<1>1. SUFFICES ASSUME WireInv, NEW k \in DOMAIN pending
               PROVE  mem[pending[k].buf].cells[pending[k].at].field.val = pending[k].want
  BY DEF Stable
<1>2. Kept(mem, cache, pending[k])
  BY <1>1 DEF WireInv, MemInv, Holds
<1> QED BY <1>2 DEF Kept

\* What is handed on and what is not make up what was sent.
LEMMA InvFaithful == WireInv => Faithful
<1>0. ASSUME WireInv PROVE AsRead(sent) = [k \in DOMAIN sent |-> Understood(sent[k])]
  <2>1. sent \in Seq(Originals)
    BY <1>0 DEF WireInv, WireType
  <2>2. DOMAIN sent = 1 .. Len(sent) /\ \A k \in 1 .. Len(sent) : sent[k] \in Originals
    BY <2>1, LenProperties, ElementOfSeq
  <2> QED BY <2>2 DEF AsRead, Mapped, Reading
<1>1. SUFFICES ASSUME WireInv, ~torn PROVE IsPrefix(handed, AsRead(sent))
  BY <1>0 DEF Faithful
<1>2. PICK todo \in Seq(Entries), spill \in Seq(Entries), rest \in Seq(Cell) : Tied(todo, spill, rest)
  BY <1>1 DEF WireInv, Stream
<1>3. PICK h \in Seq(Entries) : h = handed
  BY <1>1 DEF WireInv, WireType
<1>4. AsRead(sent) = h \o todo
  BY <1>2, <1>3 DEF Tied, Cat
<1>5. PICK l \in Nat : l = Len(h)
  BY LenProperties
<1>6. PICK u \in Seq(Entries) : u = h \o todo
  BY ConcatProperties
<1>7. PICK n \in Nat : n = Len(u)
  BY LenProperties
<1>8. l <= n /\ \A i \in 1 .. l : u[i] = h[i]
  <2>1. /\ Len(todo) \in Nat /\ n = l + Len(todo)
        /\ \A i \in 1 .. l + Len(todo) : u[i] = IF i <= l THEN h[i] ELSE todo[i - l]
    BY <1>5, <1>6, <1>7, ConcatProperties, LenProperties
  <2>2. \A i \in 1 .. l : i \in 1 .. l + Len(todo) /\ i <= l
    BY <2>1
  <2> QED BY <2>1, <2>2
<1>9. PICK a \in Seq(Entries) : a = SubSeq(u, 1, l) /\ Len(a) = l /\ \A i \in 1 .. l : a[i] = u[i]
  <2>1. 1 \in Int /\ l \in Int /\ \A i \in 1 .. l : u[i] \in Entries
    <3>1. \A i \in 1 .. l : i \in 1 .. n
      BY <1>8
    <3> QED BY <3>1, <1>7, ElementOfSeq
  <2>2. /\ SubSeq(u, 1, l) \in Seq(Entries) /\ Len(SubSeq(u, 1, l)) = IF 1 <= l THEN l - 1 + 1 ELSE 0
        /\ \A i \in 1 .. l - 1 + 1 : SubSeq(u, 1, l)[i] = u[1 + i - 1]
    BY <2>1, SubSeqProperties
  <2>3. Len(SubSeq(u, 1, l)) = l
    BY <2>2
  <2>4. ASSUME NEW i \in 1 .. l PROVE SubSeq(u, 1, l)[i] = u[i]
    <3>1. i \in 1 .. l - 1 + 1 /\ 1 + i - 1 = i
      OBVIOUS
    <3> QED BY <3>1, <2>2
  <2> QED BY <2>2, <2>3, <2>4
<1>10. a = h
  <2>1. Len(a) = Len(h) /\ \A i \in 1 .. Len(a) : a[i] = h[i]
    BY <1>5, <1>8, <1>9
  <2> QED BY <2>1, SeqEqual
<1>11. SubSeq(h, 1, Len(h)) = h
  BY SubSeqFull
<1> QED BY <1>3, <1>4, <1>5, <1>6, <1>7, <1>8, <1>9, <1>10, <1>11 DEF IsPrefix

\* The data of a datagram stay what they were when it was decoded, however the
\* cache they lie in is appended to, compacted and given back, for any number
\* of buffers, any sizes of reads and any capacities.
THEOREM WireStable == Spec => []Stable
BY WireInvariant, InvStable, PTL

\* Unless a packet was torn, the messages handed on are a prefix of those sent as
\* their reader understands them: field by field, but that a nested message that
\* is all zero is read as nil (helpers.go:57).  For any messages, senders, cuts of
\* the stream, frame limit and queue.
THEOREM WireFaithful == Spec => []Faithful
BY WireInvariant, InvFaithful, PTL
=============================================================================
