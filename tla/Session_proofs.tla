--------------------------- MODULE Session_proofs ---------------------------
(***************************************************************************)
(* What every session of an inlet or an outlet shares: proofs about its    *)
(* send window (FlowController), for every window, every set of payload    *)
(* sizes and any number of callers, and about its queue (ProxyQueue), for  *)
(* every capacity and every set of messages.                               *)
(***************************************************************************)
EXTENDS FlowController, ProxyQueue, FiniteSetTheorems, FunctionTheorems, SequenceTheorems, TLAPS

-----------------------------------------------------------------------------
(* The send window *)

\* A request is never larger than the window (common.go:42-45).
LEMMA ClampedBound ==
    ASSUME NEW size \in Sizes
    PROVE  Clamped(size) \in 1..MaxBytes
BY WindowAssumption DEF Clamped

\* Every variable keeps its type; inflight never exceeds the window, so
\* Acquire and Release never oversend (common.go:33-78).
THEOREM TypeCorrect == Spec => []TypeOK
<1>1. Init => TypeOK
  <2> SUFFICES ASSUME Init PROVE TypeOK
    OBVIOUS
  <2>1. inflight \in 0..MaxBytes
    BY WindowAssumption DEF Init
  <2> QED BY <2>1 DEF Init, TypeOK
<1>2. TypeOK /\ [Next]_vars => TypeOK'
  <2> SUFFICES ASSUME TypeOK, [Next]_vars PROVE TypeOK'
    OBVIOUS
  <2> USE WindowAssumption DEF TypeOK
  <2>0. ASSUME NEW c \in Callers, NEW size \in Sizes, Fits(size), Grant(c, size)
        PROVE  /\ inflight' \in 0..MaxBytes
               /\ pc' \in [Callers -> {"idle", "asleep", "awake"}]
               /\ unacked' \in [Sizes -> Nat]
    BY <2>0, ClampedBound DEF Grant, Fits
  <2>1. ASSUME NEW c \in Callers, Recheck(c) PROVE TypeOK'
    BY <2>0, <2>1 DEF Recheck
  <2>2. ASSUME NEW c \in Callers, NEW size \in Sizes, Acquire(c, size) PROVE TypeOK'
    BY <2>0, <2>2 DEF Acquire
  <2>3. ASSUME NEW size \in Sizes, Release(size) PROVE TypeOK'
    BY <2>3 DEF Release, GiveBack, Broadcast
  <2>4. CASE Close
    BY <2>4 DEF Close, Broadcast
  <2>5. CASE UNCHANGED vars
    BY <2>5 DEF vars
  <2> QED BY <2>1, <2>2, <2>3, <2>4, <2>5 DEF Next
<1> QED BY <1>1, <1>2, PTL DEF Spec

-----------------------------------------------------------------------------

\* Broadcast leaves nobody asleep (common.go:69, 77).
LEMMA BroadcastWakesAll ==
    ASSUME TypeOK, Broadcast, NEW c \in Callers
    PROVE  pc'[c] # "asleep"
BY DEF Broadcast, TypeOK

\* Credit is only added by a grant, so a request that does not fit before a
\* grant does not fit after it (common.go:55).
LEMMA GrantKeepsOthersOut ==
    ASSUME TypeOK, NEW c \in Callers, NEW size \in Sizes, Grant(c, size),
           NEW other \in Sizes, ~Fits(other)
    PROVE  ~Fits(other)'
BY WindowAssumption, ClampedBound DEF Grant, Fits, TypeOK, Clamped

\* Whoever sleeps cannot be served: Acquire sleeps only then, and the two
\* operations that make room or close the window broadcast (common.go:46-51).
THEOREM WaitersJustified == Spec => []NoLostWakeup
<1>1. Init => NoLostWakeup
  BY DEF Init, NoLostWakeup
<1>2. TypeOK /\ NoLostWakeup /\ [Next]_vars => NoLostWakeup'
  <2> SUFFICES ASSUME TypeOK, NoLostWakeup, [Next]_vars,
                      NEW d \in Callers, pc'[d] = "asleep"
               PROVE  ~closed' /\ ~Fits(asked[d])'
    BY DEF NoLostWakeup
  <2>0. asked[d] \in Sizes
    BY DEF TypeOK
  <2>1. ASSUME NEW c \in Callers, Recheck(c) PROVE ~closed' /\ ~Fits(asked[d])'
    <3>1. CASE c = d
      BY <2>1, <3>1 DEF Recheck, Grant, TypeOK, Fits
    <3>2. CASE c # d
      <4>1. pc[d] = "asleep" /\ asked' = asked /\ closed' = closed
        BY <2>1, <3>2 DEF Recheck, Grant, TypeOK
      <4>2. ~closed /\ ~Fits(asked[d])
        BY <4>1 DEF NoLostWakeup
      <4>3. CASE Grant(c, asked[c])
        BY <2>0, <4>1, <4>2, <4>3, GrantKeepsOthersOut DEF TypeOK, Fits
      <4>4. CASE UNCHANGED inflight
        BY <4>1, <4>2, <4>4 DEF Fits
      <4> QED BY <2>1, <4>3, <4>4 DEF Recheck
    <3> QED BY <3>1, <3>2
  <2>2. ASSUME NEW c \in Callers, NEW size \in Sizes, Acquire(c, size)
        PROVE  ~closed' /\ ~Fits(asked[d])'
    <3>1. CASE c = d
      BY <2>2, <3>1 DEF Acquire, Grant, TypeOK, Fits
    <3>2. CASE c # d
      <4>1. pc[d] = "asleep" /\ asked'[d] = asked[d] /\ closed' = closed
        BY <2>2, <3>2 DEF Acquire, Grant, TypeOK
      <4>2. ~closed /\ ~Fits(asked[d])
        BY <4>1 DEF NoLostWakeup
      <4>3. CASE Grant(c, size)
        BY <2>0, <4>1, <4>2, <4>3, GrantKeepsOthersOut DEF Fits
      <4>4. CASE UNCHANGED inflight
        BY <4>1, <4>2, <4>4 DEF Fits
      <4> QED BY <2>2, <4>3, <4>4 DEF Acquire
    <3> QED BY <3>1, <3>2
  <2>3. ASSUME NEW size \in Sizes, Release(size) PROVE FALSE
    BY <2>3, BroadcastWakesAll DEF Release
  <2>4. CASE Close
    BY <2>4, BroadcastWakesAll DEF Close
  <2>5. CASE UNCHANGED vars
    BY <2>5 DEF vars, NoLostWakeup, Fits
  <2> QED BY <2>1, <2>2, <2>3, <2>4, <2>5 DEF Next
<1> QED BY <1>1, <1>2, TypeCorrect, PTL DEF Spec

\* No payload is sent through a closed window (common.go:39-41, 52-54).
THEOREM ClosedWindowStaysShut == Spec => NoGrantAfterClose
<1>1. TypeOK /\ [Next]_vars
        => [closed => \A s \in Sizes : unacked'[s] <= unacked[s]]_vars
  <2> SUFFICES ASSUME TypeOK, Next, closed, NEW s \in Sizes
               PROVE  unacked'[s] <= unacked[s]
    BY DEF vars
  <2>1. unacked[s] \in Nat
    BY DEF TypeOK
  <2>2. ASSUME NEW c \in Callers, Recheck(c) PROVE unacked' = unacked
    BY <2>2 DEF Recheck
  <2>3. ASSUME NEW c \in Callers, NEW size \in Sizes, Acquire(c, size) PROVE FALSE
    BY <2>3 DEF Acquire
  <2>4. ASSUME NEW size \in Sizes, Release(size) PROVE unacked'[s] <= unacked[s]
    BY <2>4 DEF Release, TypeOK
  <2>5. CASE Close
    BY <2>1, <2>5 DEF Close
  <2> QED BY <2>1, <2>2, <2>3, <2>4, <2>5 DEF Next
<1> QED BY <1>1, TypeCorrect, PTL DEF Spec, NoGrantAfterClose

-----------------------------------------------------------------------------
\* One more payload of a size is charged for its clamped size, on top of the others.
LEMMA OneMoreCharged ==
    ASSUME NEW counts \in [Sizes -> Nat], NEW more \in [Sizes -> Nat], NEW size \in Sizes,
           more = [counts EXCEPT ![size] = @ + 1], IsFiniteSet(Charged(counts))
    PROVE  /\ IsFiniteSet(Charged(more))
           /\ Cardinality(Charged(counts)) \in Nat
           /\ Cardinality(Charged(more)) = Cardinality(Charged(counts)) + Clamped(size)
<1> DEFINE n == counts[size] + 1
           k == Clamped(size)
           N == {size} \X {n} \X (1 .. k)
<1>0. n \in Nat /\ k \in Nat
  BY ClampedBound, WindowAssumption
<1>1. IsFiniteSet(N) /\ Cardinality(N) = k
  <2> DEFINE byte == [b \in 1 .. k |-> <<size, n, b>>]
  <2>1. byte \in Bijection(1 .. k, N)
    <3>1. byte \in [1 .. k -> N]
      OBVIOUS
    <3>2. \A x, y \in 1 .. k : byte[x] = byte[y] => x = y
      OBVIOUS
    <3>3. \A z \in N : \E x \in 1 .. k : byte[x] = z
      OBVIOUS
    <3> QED BY <3>1, <3>2, <3>3, Fun_IsBij
  <2>2. ExistsBijection(1 .. k, N)
    BY <2>1 DEF ExistsBijection
  <2>3. IsFiniteSet(1 .. k) /\ Cardinality(1 .. k) = k
    BY <1>0, FS_Interval
  <2> QED BY <2>2, <2>3, FS_Bijection
<1>2. Charged(more) = Charged(counts) \cup N
  <2>1. \A s \in Sizes : 1 .. more[s] = IF s = size THEN (1 .. counts[s]) \cup {n} ELSE 1 .. counts[s]
    <3>1. 1 .. n = (1 .. counts[size]) \cup {n}
      BY <1>0
    <3>2. more[size] = n /\ \A s \in Sizes : s # size => more[s] = counts[s]
      OBVIOUS
    <3> HIDE DEF n
    <3> QED BY <3>1, <3>2
  <2>2. ASSUME NEW z PROVE z \in Charged(more) <=> z \in Charged(counts) \/ z \in N
    <3>1. z \in Charged(more) <=> \E s \in Sizes : z \in {s} \X (1 .. more[s]) \X (1 .. Clamped(s))
      BY DEF Charged
    <3>2. z \in Charged(counts) <=> \E s \in Sizes : z \in {s} \X (1 .. counts[s]) \X (1 .. Clamped(s))
      BY DEF Charged
    <3>3. \A s \in Sizes : z \in {s} \X (1 .. more[s]) \X (1 .. Clamped(s))
              <=> z \in {s} \X (1 .. counts[s]) \X (1 .. Clamped(s)) \/ (s = size /\ z \in N)
      BY <2>1
    <3> QED BY <3>1, <3>2, <3>3
  <2> QED BY <2>2
<1>3. Charged(counts) \cap N = {}
  <2> SUFFICES ASSUME NEW z \in Charged(counts), z \in N PROVE FALSE
    OBVIOUS
  <2>1. PICK s \in Sizes : z \in {s} \X (1 .. counts[s]) \X (1 .. Clamped(s))
    BY DEF Charged
  <2>2. z[1] = s /\ z[2] \in 1 .. counts[s] /\ z[1] = size /\ z[2] = n
    BY <2>1
  <2> QED BY <1>0, <2>2
<1> HIDE DEF N
<1>4. /\ IsFiniteSet(Charged(more))
      /\ Cardinality(Charged(more))
           = Cardinality(Charged(counts)) + Cardinality(N) - Cardinality(Charged(counts) \cap N)
  BY <1>1, <1>2, FS_Union
<1>5. Cardinality(Charged(counts) \cap N) = 0
  BY <1>3, FS_EmptySet
<1>6. Cardinality(Charged(counts)) \in Nat
  BY FS_CardinalityType
<1> QED BY <1>0, <1>1, <1>4, <1>5, <1>6

\* Acquire clamps a request and Release subtracts the full size, and still no credit is
\* lost and none invented: an oversized payload leaves room for no other (common.go:42-69).
THEOREM CreditDoesNotDrift == Spec => []NoCreditDrift
<1> DEFINE Kept == ~closed => IsFiniteSet(Charged(unacked)) /\ inflight = Cardinality(Charged(unacked))
<1>1. Init => Kept
  <2> SUFFICES ASSUME Init PROVE Kept
    OBVIOUS
  <2>1. Charged(unacked) = {}
    BY DEF Init, Charged
  <2> QED BY <2>1, FS_EmptySet DEF Init
<1>2. TypeOK /\ Kept /\ [Next]_vars => Kept'
  <2> SUFFICES ASSUME TypeOK, Kept, [Next]_vars, ~closed'
               PROVE  IsFiniteSet(Charged(unacked')) /\ inflight' = Cardinality(Charged(unacked'))
    BY DEF Charged
  <2>1. ASSUME NEW size \in Sizes, ~closed, inflight' = inflight + Clamped(size),
               unacked' = [unacked EXCEPT ![size] = @ + 1]
        PROVE  IsFiniteSet(Charged(unacked')) /\ inflight' = Cardinality(Charged(unacked'))
    <3>1. unacked \in [Sizes -> Nat] /\ unacked' \in [Sizes -> Nat]
      BY <2>1 DEF TypeOK
    <3>2. IsFiniteSet(Charged(unacked)) /\ inflight = Cardinality(Charged(unacked))
      BY <2>1
    <3>3. /\ IsFiniteSet(Charged(unacked'))
          /\ Cardinality(Charged(unacked')) = Cardinality(Charged(unacked)) + Clamped(size)
      BY <2>1, <3>1, <3>2, OneMoreCharged
    <3> QED BY <2>1, <3>2, <3>3
  <2>2. ASSUME UNCHANGED <<inflight, unacked, closed>>
        PROVE  IsFiniteSet(Charged(unacked')) /\ inflight' = Cardinality(Charged(unacked'))
    BY <2>2
  <2>3. ASSUME NEW c \in Callers, Recheck(c)
        PROVE  IsFiniteSet(Charged(unacked')) /\ inflight' = Cardinality(Charged(unacked'))
    BY <2>1, <2>2, <2>3 DEF Recheck, Grant, TypeOK
  <2>4. ASSUME NEW c \in Callers, NEW size \in Sizes, Acquire(c, size)
        PROVE  IsFiniteSet(Charged(unacked')) /\ inflight' = Cardinality(Charged(unacked'))
    BY <2>1, <2>2, <2>4 DEF Acquire, Grant
  <2>5. ASSUME NEW size \in Sizes, Release(size)
        PROVE  IsFiniteSet(Charged(unacked')) /\ inflight' = Cardinality(Charged(unacked'))
    <3>0. unacked \in [Sizes -> Nat] /\ unacked[size] > 0 /\ unacked' = [unacked EXCEPT ![size] = @ - 1]
      BY <2>5 DEF Release, TypeOK
    <3>1. /\ unacked \in [Sizes -> Nat] /\ unacked' \in [Sizes -> Nat]
          /\ unacked = [unacked' EXCEPT ![size] = @ + 1]
      <4>1. unacked' \in [Sizes -> Nat]
        BY <3>0
      <4>2. unacked[size] = unacked'[size] + 1 /\ \A s \in Sizes : s # size => unacked[s] = unacked'[s]
        BY <3>0
      <4> QED BY <3>0, <4>1, <4>2
    <3>2. ~closed /\ IsFiniteSet(Charged(unacked)) /\ inflight = Cardinality(Charged(unacked))
      BY <2>5 DEF Release
    <3>3. IsFiniteSet(Charged(unacked'))
      <4>1. Charged(unacked') \subseteq Charged(unacked)
        <5>1. \A s \in Sizes : 1 .. unacked'[s] \subseteq 1 .. unacked[s]
          BY <3>1
        <5>2. \A s \in Sizes : {s} \X (1 .. unacked'[s]) \X (1 .. Clamped(s))
                                 \subseteq {s} \X (1 .. unacked[s]) \X (1 .. Clamped(s))
          BY <5>1
        <5> QED BY <5>2 DEF Charged
      <4> QED BY <3>2, <4>1, FS_Subset
    <3>4. Cardinality(Charged(unacked')) \in Nat /\ inflight = Cardinality(Charged(unacked')) + Clamped(size)
      BY <3>1, <3>2, <3>3, OneMoreCharged
    <3>5. inflight \in Nat /\ inflight <= MaxBytes /\ size \in Nat /\ MaxBytes \in Nat
      BY WindowAssumption DEF TypeOK
    <3> QED BY <2>5, <3>3, <3>4, <3>5 DEF Release, GiveBack, Clamped
  <2>6. CASE Close
    BY <2>6 DEF Close
  <2> QED BY <2>2, <2>3, <2>4, <2>5, <2>6 DEF Next, vars
<1> QED BY <1>1, <1>2, TypeCorrect, PTL DEF Spec, NoCreditDrift

-----------------------------------------------------------------------------
(* The queue *)

Messages == Msgs \cup {Nil}

\* Indices never run more than one lap ahead, so % subtracts Max at most once.
LEMMA OneLap ==
    ASSUME NEW n \in 0 .. 2 * Max - 1
    PROVE  n % Max = IF n < Max THEN n ELSE n - Max
<1>1. Max \in Nat /\ Max > 0
  BY QueueAssumption
<1>2. CASE n < Max
  BY <1>1, <1>2
<1>3. CASE n >= Max
  <2>1. n - Max \in 0 .. Max - 1
    BY <1>1, <1>3
  <2>2. n = 1 * Max + (n - Max)
    BY <1>1
  <2> QED BY <1>1, <1>3, <2>1, <2>2
<1> QED BY <1>1, <1>2, <1>3

\* The slot k places behind first.
SlotAt(first, k) == IF first + k < Max THEN first + k ELSE first + k - Max

LEMMA SlotArithmetic ==
    ASSUME NEW first \in Slots, NEW k \in 0 .. Max
    PROVE  (first + k) % Max = SlotAt(first, k) /\ SlotAt(first, k) \in Slots
<1> DEFINE n == first + k
<1>1. n \in 0 .. 2 * Max - 1
  BY QueueAssumption DEF Slots
<1>2. SlotAt(first, k) \in Slots
  BY QueueAssumption DEF Slots, SlotAt
<1>3. SlotAt(first, k) = IF n < Max THEN n ELSE n - Max
  BY QueueAssumption DEF Slots, SlotAt
<1> HIDE DEF n
<1>4. n % Max = IF n < Max THEN n ELSE n - Max
  BY <1>1, OneLap
<1>5. n % Max = SlotAt(first, k)
  BY <1>3, <1>4
<1> QED BY <1>2, <1>5 DEF n

\* The same for the k-th message of the ring, k = 1, 2, ...
LEMMA MessageSlot ==
    ASSUME NEW first \in Slots, NEW k \in 1 .. Max
    PROVE  (first + (k - 1)) % Max = SlotAt(first, k - 1) /\ SlotAt(first, k - 1) \in Slots
<1> DEFINE i == k - 1
<1>1. i \in 0 .. Max
  BY QueueAssumption
<1> HIDE DEF i
<1>2. (first + i) % Max = SlotAt(first, i) /\ SlotAt(first, i) \in Slots
  BY <1>1, SlotArithmetic
<1> QED BY <1>2 DEF i

\* The ring read from any slot is a sequence of messages of the given length.
LEMMA ReadIsSequence ==
    ASSUME NEW ring \in [Slots -> Messages], NEW first \in Slots, NEW n \in 0 .. Max
    PROVE  /\ ReadFrom(ring, first, n) \in Seq(Messages)
           /\ Len(ReadFrom(ring, first, n)) = n
           /\ \A k \in 1 .. n : ReadFrom(ring, first, n)[k] = ring[(first + (k - 1)) % Max]
<1>1. \A k \in 1 .. n : (first + (k - 1)) % Max \in Slots
  <2> TAKE k \in 1 .. n
  <2>1. k \in 1 .. Max
    BY QueueAssumption
  <2> QED BY <2>1, MessageSlot
<1>2. n \in Nat
  BY QueueAssumption
<1>3. ReadFrom(ring, first, n) \in [1 .. n -> Messages]
  BY <1>1 DEF ReadFrom
<1>4. ReadFrom(ring, first, n) \in Seq(Messages)
  BY <1>2, <1>3, SeqDef
<1> QED BY <1>2, <1>3, <1>4, LenProperties DEF ReadFrom

\* Writing behind the last message appends (queue.go:45-47).
LEMMA WriteAppends ==
    ASSUME NEW ring \in [Slots -> Messages], NEW first \in Slots,
           NEW n \in 0 .. Max - 1, NEW m \in Msgs
    PROVE  ReadFrom([ring EXCEPT ![(first + n) % Max] = m], first, n + 1)
             = Append(ReadFrom(ring, first, n), m)
<1> DEFINE before == ReadFrom(ring, first, n)
           ring2  == [ring EXCEPT ![(first + n) % Max] = m]
           after  == ReadFrom(ring2, first, n + 1)
<1>0. n \in 0 .. Max /\ n + 1 \in 0 .. Max /\ n \in Nat
  BY QueueAssumption
<1>1. (first + n) % Max \in Slots
  BY <1>0, SlotArithmetic
<1>2. ring2 \in [Slots -> Messages]
  BY <1>1 DEF Messages
<1>3. /\ before \in Seq(Messages) /\ Len(before) = n
      /\ \A k \in 1 .. n : before[k] = ring[(first + (k - 1)) % Max]
  BY <1>0, ReadIsSequence
<1>4. /\ after \in Seq(Messages) /\ Len(after) = n + 1
      /\ \A k \in 1 .. n + 1 : after[k] = ring2[(first + (k - 1)) % Max]
  BY <1>0, <1>2, ReadIsSequence
<1>5. \A k \in 1 .. n : /\ (first + (k - 1)) % Max \in Slots
                         /\ (first + (k - 1)) % Max # (first + n) % Max
  <2> TAKE k \in 1 .. n
  <2>1. k \in 1 .. Max
    BY <1>0, QueueAssumption
  <2>2. (first + (k - 1)) % Max = SlotAt(first, k - 1) /\ SlotAt(first, k - 1) \in Slots
    BY <2>1, MessageSlot
  <2>3. (first + n) % Max = SlotAt(first, n)
    BY <1>0, SlotArithmetic
  <2>4. SlotAt(first, k - 1) # SlotAt(first, n)
    BY QueueAssumption DEF Slots, SlotAt
  <2> QED BY <2>2, <2>3, <2>4
<1>6. Append(before, m) \in Seq(Messages) /\ Len(Append(before, m)) = n + 1
  BY <1>3 DEF Messages
<1>7. \A k \in 1 .. n + 1 : after[k] = Append(before, m)[k]
  <2> TAKE k \in 1 .. n + 1
  <2>1. CASE k = n + 1
    <3>1. after[k] = ring2[(first + n) % Max]
      <4>1. k - 1 = n
        BY <2>1, <1>0, QueueAssumption DEF Slots
      <4> QED BY <1>4, <4>1
    <3>2. Append(before, m)[k] = m
      BY <1>3, <2>1
    <3> QED BY <1>1, <3>1, <3>2
  <2>2. CASE k # n + 1
    <3>1. k \in 1 .. n
      BY <1>0, <2>2
    <3>2. after[k] = ring[(first + (k - 1)) % Max]
      BY <1>4, <1>5, <3>1
    <3>3. Append(before, m)[k] = before[k]
      BY <1>3, <3>1
    <3> QED BY <1>3, <3>1, <3>2, <3>3
  <2> QED BY <2>1, <2>2
<1> HIDE DEF before, after
<1>8. after = Append(before, m)
  BY <1>4, <1>6, <1>7, SeqEqual
<1> QED BY <1>8 DEF before, after

\* Advancing the head by one slot takes the oldest message off (queue.go:61-64).
LEMMA AdvancePops ==
    ASSUME NEW ring \in [Slots -> Messages], NEW first \in Slots, NEW n \in 1 .. Max
    PROVE  /\ ReadFrom(ring, first, n) # <<>>
           /\ Head(ReadFrom(ring, first, n)) = ring[first]
           /\ Tail(ReadFrom(ring, first, n))
                = ReadFrom([ring EXCEPT ![first] = Nil], (first + 1) % Max, n - 1)
<1> DEFINE before == ReadFrom(ring, first, n)
           ring2  == [ring EXCEPT ![first] = Nil]
           second == (first + 1) % Max
           after  == ReadFrom(ring2, second, n - 1)
<1>0. n \in 0 .. Max /\ n - 1 \in 0 .. Max /\ n \in Nat
  BY QueueAssumption
<1>1. /\ before \in Seq(Messages) /\ Len(before) = n
      /\ \A k \in 1 .. n : before[k] = ring[(first + (k - 1)) % Max]
  BY <1>0, ReadIsSequence
<1>2. second \in Slots /\ second = SlotAt(first, 1)
  <2>1. 1 \in 0 .. Max
    BY QueueAssumption
  <2> QED BY <2>1, SlotArithmetic
<1>3. ring2 \in [Slots -> Messages]
  BY DEF Messages
<1>4. /\ after \in Seq(Messages) /\ Len(after) = n - 1
      /\ \A k \in 1 .. n - 1 : after[k] = ring2[(second + (k - 1)) % Max]
  BY <1>0, <1>2, <1>3, ReadIsSequence
<1>5. before # <<>>
  BY <1>0, <1>1
<1>6. Head(before) = ring[first]
  <2>1. 1 \in 1 .. Max /\ 1 \in 1 .. n
    BY <1>0, QueueAssumption
  <2>2. (first + (1 - 1)) % Max = SlotAt(first, 1 - 1)
    BY <2>1, MessageSlot
  <2>3. SlotAt(first, 1 - 1) = first
    BY QueueAssumption DEF SlotAt, Slots
  <2>4. before[1] = ring[first]
    BY <1>1, <2>1, <2>2, <2>3
  <2> QED BY <1>1, <1>5, <2>4
<1>7. /\ Tail(before) \in Seq(Messages) /\ Len(Tail(before)) = n - 1
      /\ \A k \in 1 .. n - 1 : Tail(before)[k] = before[k + 1]
  BY <1>1, <1>5, HeadTailProperties
<1>8. \A k \in 1 .. n - 1 : Tail(before)[k] = after[k]
  <2> TAKE k \in 1 .. n - 1
  <2>1. k + 1 \in 1 .. n
    BY <1>0
  <2>2. k \in 1 .. Max /\ k \in 0 .. Max /\ k + 1 \in 1 .. Max /\ (k + 1) - 1 = k
    BY <1>0, QueueAssumption
  <2>3. before[k + 1] = ring[(first + ((k + 1) - 1)) % Max]
    BY <1>1, <2>1
  <2>4. (first + ((k + 1) - 1)) % Max = SlotAt(first, k) /\ SlotAt(first, k) \in Slots
    BY <2>2, SlotArithmetic
  <2>5. (second + (k - 1)) % Max = SlotAt(second, k - 1)
    BY <1>2, <2>2, MessageSlot
  <2>6. SlotAt(second, k - 1) = SlotAt(first, k) /\ SlotAt(first, k) # first
    <3> HIDE DEF second
    <3> QED BY <1>0, <1>2, QueueAssumption DEF SlotAt, Slots
  <2>7. after[k] = ring[SlotAt(first, k)]
    BY <1>4, <2>4, <2>5, <2>6
  <2> QED BY <1>7, <2>3, <2>4, <2>7
<1> HIDE DEF before, after
<1>9. Tail(before) = after
  BY <1>4, <1>7, <1>8, SeqEqual
<1> QED BY <1>5, <1>6, <1>9 DEF before, after

-----------------------------------------------------------------------------

\* Every variable keeps its type: the head stays inside the ring and no push
\* ever overruns the capacity (queue.go:36-78).
THEOREM QueueTypeCorrect == QueueSpec => []QueueTypeOK
<1>1. QueueInit => QueueTypeOK
  <2>1. 0 \in Slots /\ 0 \in 0 .. Max
    BY QueueAssumption DEF Slots
  <2> QED BY <2>1 DEF QueueInit, QueueTypeOK, EmptyRing
<1>2. QueueTypeOK /\ [QueueNext]_queueVars => QueueTypeOK'
  <2> SUFFICES ASSUME QueueTypeOK, [QueueNext]_queueVars PROVE QueueTypeOK'
    OBVIOUS
  <2> USE QueueAssumption DEF QueueTypeOK, Wake
  <2>1. ASSUME NEW m \in Msgs, Push(m) PROVE QueueTypeOK'
    <3>1. CASE count >= Max \/ queueClosed
      <4>1. accepted' = FALSE /\ UNCHANGED <<items, head, count, queueClosed, consumer, got>>
        BY <2>1, <3>1 DEF Push, Full, TailSlot
      <4> QED BY <4>1
    <3>2. CASE count < Max /\ ~queueClosed
      <4>1. count' \in 0 .. Max
        BY <2>1, <3>2 DEF Push, Full, TailSlot
      <4>2. /\ accepted' = TRUE
            /\ items' = [items EXCEPT ![(head + count) % Max] = m]
            /\ consumer' \in {"running", "asleep", "woken", "left"}
            /\ UNCHANGED <<head, queueClosed, got>>
        BY <2>1, <3>2 DEF Push, Full, TailSlot
      <4> QED BY <4>1, <4>2
    <3> QED BY <3>1, <3>2
  <2>2. CASE PopWait
    BY <2>2 DEF PopWait
  <2>3. CASE PopMessage
    <3>1. (head + 1) % Max \in Slots
      <4>1. 1 \in 0 .. Max
        OBVIOUS
      <4> QED BY <4>1, SlotArithmetic
    <3> QED BY <2>3, <3>1 DEF PopMessage
  <2>4. CASE PopClosed
    BY <2>4 DEF PopClosed
  <2>5. CASE QueueClose
    BY <2>5 DEF QueueClose, EmptyRing, Slots
  <2>6. CASE UNCHANGED queueVars
    BY <2>6 DEF queueVars
  <2> QED BY <2>1, <2>2, <2>3, <2>4, <2>5, <2>6 DEF QueueNext
<1> QED BY <1>1, <1>2, PTL DEF QueueSpec

\* The session goroutine sleeps only on an empty open queue.
THEOREM WaiterJustified == QueueSpec => []NoLostSignal
<1>1. QueueInit => NoLostSignal
  BY DEF QueueInit, NoLostSignal
<1>2. QueueTypeOK /\ NoLostSignal /\ [QueueNext]_queueVars => NoLostSignal'
  BY DEF QueueTypeOK, NoLostSignal, QueueNext, queueVars, Push, Full, TailSlot, PopWait, PopMessage, PopClosed, QueueClose, Wake
<1> QED BY <1>1, <1>2, QueueTypeCorrect, PTL DEF QueueSpec

\* The refinement: read through Contents, every step of the ring buffer is a
\* step of the FIFO or leaves it unchanged (the consumer going to sleep).
THEOREM RingImplementsFifo == QueueSpec => ImplementsFifo
<1>1. QueueInit => Fifo!Init
  <2> SUFFICES ASSUME QueueInit PROVE Contents = <<>>
    BY DEF QueueInit, Fifo!Init
  <2>1. count = 0
    BY DEF QueueInit
  <2> QED BY <2>1 DEF Contents, ReadFrom
<1>2. QueueTypeOK /\ QueueTypeOK' /\ [QueueNext]_queueVars => [Fifo!Next]_(Fifo!vars)
  <2> SUFFICES ASSUME QueueTypeOK, QueueTypeOK', [QueueNext]_queueVars PROVE [Fifo!Next]_(Fifo!vars)
    OBVIOUS
  <2>0. items \in [Slots -> Messages] /\ head \in Slots /\ count \in 0 .. Max
    BY DEF QueueTypeOK, Messages
  <2>1. Contents \in Seq(Messages) /\ Len(Contents) = count
    BY <2>0, ReadIsSequence DEF Contents
  <2>2. Contents' = ReadFrom(items', head', count')
    BY DEF Contents, ReadFrom
  <2>3. ASSUME NEW m \in Msgs, Push(m) PROVE Fifo!Push(m)
    <3>1. CASE queueClosed \/ Full
      <4>1. Contents' = Contents /\ accepted' = FALSE /\ UNCHANGED <<queueClosed, got>>
        BY <2>0, <2>2, <2>3, <3>1, QueueAssumption DEF Push, Full, TailSlot, Contents
      <4>2. ~(~queueClosed /\ Len(Contents) < Max)
        BY <2>0, <2>1, <3>1, QueueAssumption DEF Full
      <4> QED BY <4>1, <4>2 DEF Fifo!Push
    <3>2. CASE ~queueClosed /\ ~Full
      <4>1. /\ accepted' = TRUE
            /\ items' = [items EXCEPT ![(head + count) % Max] = m]
            /\ count' = count + 1
            /\ UNCHANGED <<head, queueClosed, got>>
        BY <2>0, <2>3, <3>2, QueueAssumption DEF Push, Full, TailSlot
      <4>2. count \in 0 .. Max - 1
        BY <2>0, <3>2, QueueAssumption DEF Full
      <4>3. Contents' = Append(Contents, m)
        BY <2>0, <2>2, <4>1, <4>2, WriteAppends DEF Contents
      <4>4. ~queueClosed /\ Len(Contents) < Max
        BY <2>0, <2>1, <3>2, QueueAssumption DEF Full
      <4> QED BY <4>1, <4>3, <4>4 DEF Fifo!Push
    <3> QED BY <3>1, <3>2
  <2>4. CASE PopWait
    BY <2>2, <2>4 DEF PopWait, Contents, Fifo!vars
  <2>5. CASE PopMessage
    <3>1. count \in 1 .. Max
      BY <2>0, <2>5, QueueAssumption DEF PopMessage
    <3>2. /\ Contents # <<>>
          /\ Head(Contents) = items[head]
          /\ Tail(Contents) = Contents'
      BY <2>0, <2>2, <2>5, <3>1, AdvancePops DEF Contents, PopMessage
    <3> QED BY <2>5, <3>2 DEF PopMessage, Fifo!Next, Fifo!Pop
  <2>6. CASE PopClosed
    <3>1. Contents = <<>> /\ Contents' = Contents
      BY <2>1, <2>2, <2>6 DEF PopClosed, Contents
    <3> QED BY <2>6, <3>1 DEF PopClosed, Fifo!Next, Fifo!Drained
  <2>7. CASE QueueClose
    <3>1. Contents' = <<>>
      <4>1. count' = 0
        BY <2>7 DEF QueueClose
      <4> QED BY <2>2, <4>1 DEF ReadFrom
    <3> QED BY <2>7, <3>1 DEF QueueClose, Fifo!Next, Fifo!Close
  <2>8. CASE UNCHANGED queueVars
    BY <2>2, <2>8 DEF queueVars, Contents, Fifo!vars
  <2> QED BY <2>3, <2>4, <2>5, <2>6, <2>7, <2>8 DEF QueueNext, Fifo!Next
<1> QED BY <1>1, <1>2, QueueTypeCorrect, PTL DEF QueueSpec, ImplementsFifo, Fifo!Spec
=============================================================================
