---------------------------- MODULE FormatsProofs ----------------------------
(***************************************************************************)
(* What the recursive functions of KVEntries, HttpBody and UrlQuery        *)
(* compute, for any buffer, any values, any chunks and any query.          *)
(* Induction and recursion are stated of sets and functions, without       *)
(* operators as parameters.                                                *)
(***************************************************************************)
EXTENDS Formats, SequenceTheorems, WellFoundedInduction, TLAPS

-----------------------------------------------------------------------------
(* Induction and recursion.                                                *)

LEMMA Induction ==
  ASSUME NEW T, 0 \in T, \A n \in Nat : n \in T => n + 1 \in T
  PROVE  \A n \in Nat : n \in T
  <1> SUFFICES ASSUME NEW m \in Nat, m \notin T PROVE FALSE
    OBVIOUS
  <1> DEFINE U == Nat \ T
  <1>1. U \subseteq Nat /\ U # {}
    OBVIOUS
  <1>2. PICK x \in U : \A y \in U : ~(<<y, x>> \in OpToRel(<, Nat))
    BY <1>1, WFMin, NatLessThanWellFounded
  <1>3. x \in Nat /\ x \notin T /\ x # 0
    OBVIOUS
  <1>4. x - 1 \in Nat /\ x - 1 < x /\ (x - 1) + 1 = x
    BY <1>3
  <1>5. x - 1 \notin U
    BY <1>2, <1>3, <1>4 DEF OpToRel
  <1> QED BY <1>3, <1>4, <1>5

LEMMA RankInduction ==
  ASSUME NEW D, NEW rank \in [D -> Nat], NEW T,
         \A d \in D : (\A e \in D : rank[e] < rank[d] => e \in T) => d \in T
  PROVE  \A d \in D : d \in T
  <1> DEFINE N == {n \in Nat : \A d \in D : rank[d] < n => d \in T}
  <1>1. 0 \in N
    OBVIOUS
  <1>2. ASSUME NEW n \in Nat, n \in N PROVE n + 1 \in N
    <2> SUFFICES ASSUME NEW d \in D, rank[d] < n + 1 PROVE d \in T
      OBVIOUS
    <2>1. \A e \in D : rank[e] < rank[d] => rank[e] < n
      OBVIOUS
    <2> QED BY <1>2, <2>1
  <1> HIDE DEF N
  <1>3. \A n \in Nat : n \in N
    BY <1>1, <1>2, Induction
  <1> USE DEF N
  <1>4. \A d \in D : rank[d] + 1 \in N /\ rank[d] < rank[d] + 1
    BY <1>3
  <1> QED BY <1>4

\* A function whose value at d is computed from its value at next[d], if that is
\* in the domain; the rank shows that the recursion ends.
Below(D, rank, k) == {d \in D : rank[d] < k}
Value(D, next, base, step, f, d) ==
    IF next[d] \in D THEN step[<<d, f[next[d]]>>] ELSE base[d]
Computes(D, next, S, base, step, f) ==
    /\ f \in [D -> S]
    /\ \A d \in D : f[d] = Value(D, next, base, step, f, d)
Approximates(D, rank, next, S, base, step, f, k) ==
    /\ f \in [Below(D, rank, k) -> S]
    /\ \A d \in Below(D, rank, k) : f[d] = Value(D, next, base, step, f, d)

LEMMA ApproximationsAgree ==
  ASSUME NEW D, NEW rank \in [D -> Nat], NEW next, NEW S, NEW base, NEW step,
         \A d \in D : next[d] \in D => rank[next[d]] < rank[d],
         NEW j \in Nat, NEW f, Approximates(D, rank, next, S, base, step, f, j),
         NEW k \in Nat, NEW g, Approximates(D, rank, next, S, base, step, g, k),
         NEW d \in Below(D, rank, j) \cap Below(D, rank, k)
  PROVE  f[d] = g[d]
  <1> DEFINE Both == Below(D, rank, j) \cap Below(D, rank, k)
             T == {n \in Nat : \A e \in Both : rank[e] < n => f[e] = g[e]}
  <1>1. 0 \in T
    BY DEF Below
  <1>2. ASSUME NEW n \in Nat, n \in T PROVE n + 1 \in T
    <2> SUFFICES ASSUME NEW e \in Both, rank[e] < n + 1 PROVE f[e] = g[e]
      OBVIOUS
    <2>1. f[e] = Value(D, next, base, step, f, e) /\ g[e] = Value(D, next, base, step, g, e)
      BY DEF Approximates
    <2>2. CASE next[e] \in D
      <3>1. rank[next[e]] \in Nat /\ rank[e] \in Nat /\ rank[next[e]] < rank[e]
        BY <2>2 DEF Below
      <3>2. next[e] \in Both /\ rank[next[e]] < n
        BY <2>2, <3>1 DEF Below
      <3>3. f[next[e]] = g[next[e]]
        BY <1>2, <3>2
      <3> QED BY <2>1, <3>3 DEF Value
    <2>3. CASE next[e] \notin D
      BY <2>1, <2>3 DEF Value
    <2> QED BY <2>2, <2>3
  <1>3. \A n \in Nat : n \in T
    <2> HIDE DEF T
    <2> QED BY <1>1, <1>2, Induction
  <1>4. rank[d] \in Nat /\ rank[d] + 1 \in T /\ rank[d] < rank[d] + 1
    BY <1>3 DEF Below
  <1> QED BY <1>4

LEMMA ApproximationsExist ==
  ASSUME NEW D, NEW rank \in [D -> Nat], NEW next, NEW S,
         NEW base \in [D -> S], NEW step \in [D \X S -> S],
         \A d \in D : next[d] \in D => rank[next[d]] < rank[d]
  PROVE  \A k \in Nat : \E f : Approximates(D, rank, next, S, base, step, f, k)
  <1> DEFINE T == {k \in Nat : \E f : Approximates(D, rank, next, S, base, step, f, k)}
  <1>1. 0 \in T
    <2>1. Below(D, rank, 0) = {}
      BY DEF Below
    <2>2. Approximates(D, rank, next, S, base, step, [d \in {} |-> base[d]], 0)
      BY <2>1 DEF Approximates
    <2> QED BY <2>2
  <1>2. ASSUME NEW k \in Nat, k \in T PROVE k + 1 \in T
    <2>1. PICK f : Approximates(D, rank, next, S, base, step, f, k)
      BY <1>2
    <2> DEFINE g == [d \in Below(D, rank, k + 1) |-> Value(D, next, base, step, f, d)]
    <2>2. ASSUME NEW d \in Below(D, rank, k + 1)
          PROVE  /\ g[d] \in S
                 /\ g[d] = Value(D, next, base, step, g, d)
      <3>1. d \in D /\ g[d] = Value(D, next, base, step, f, d)
        BY DEF Below
      <3>2. CASE next[d] \in D
        <4>1. next[d] \in Below(D, rank, k) /\ next[d] \in Below(D, rank, k + 1)
          BY <3>1, <3>2 DEF Below
        <4>2. f[next[d]] \in S /\ f[next[d]] = Value(D, next, base, step, f, next[d])
          BY <2>1, <4>1 DEF Approximates
        <4>3. g[next[d]] = f[next[d]]
          BY <4>1, <4>2
        <4>4. g[d] = step[<<d, f[next[d]]>>]
          BY <3>1, <3>2 DEF Value
        <4> HIDE DEF g
        <4> QED BY <3>1, <3>2, <4>2, <4>3, <4>4 DEF Value
      <3>3. CASE next[d] \notin D
        BY <3>1, <3>3 DEF Value
      <3> QED BY <3>2, <3>3
    <2>3. Approximates(D, rank, next, S, base, step, g, k + 1)
      <3>1. g \in [Below(D, rank, k + 1) -> S]
        BY <2>2
      <3> HIDE DEF g
      <3> QED BY <2>2, <3>1 DEF Approximates
    <2> HIDE DEF g
    <2> QED BY <2>3
  <1> HIDE DEF T
  <1>3. \A k \in Nat : k \in T
    BY <1>1, <1>2, Induction
  <1> USE DEF T
  <1> QED BY <1>3

LEMMA Recursion ==
  ASSUME NEW D, NEW rank \in [D -> Nat], NEW next, NEW S,
         NEW base \in [D -> S], NEW step \in [D \X S -> S],
         \A d \in D : next[d] \in D => rank[next[d]] < rank[d]
  PROVE  \E f : Computes(D, next, S, base, step, f)
  <1> DEFINE App(g, k) == Approximates(D, rank, next, S, base, step, g, k)
             Upto(k) == CHOOSE g : App(g, k)
             f == [d \in D |-> Upto(rank[d] + 1)[d]]
  <1>1. \A k \in Nat : App(Upto(k), k)
    BY ApproximationsExist
  <1>2. ASSUME NEW d \in D, NEW k \in Nat, rank[d] < k
        PROVE  f[d] = Upto(k)[d] /\ f[d] \in S
    <2>1. rank[d] \in Nat /\ rank[d] + 1 \in Nat /\ rank[d] < rank[d] + 1
      OBVIOUS
    <2>2. d \in Below(D, rank, k) /\ d \in Below(D, rank, rank[d] + 1)
      BY <1>2, <2>1 DEF Below
    <2>3. App(Upto(k), k) /\ App(Upto(rank[d] + 1), rank[d] + 1)
      BY <1>1, <2>1
    <2> HIDE DEF Upto
    <2>4. Upto(rank[d] + 1)[d] = Upto(k)[d]
      BY <2>1, <2>2, <2>3, ApproximationsAgree
    <2>5. Upto(k)[d] \in S
      BY <2>2, <2>3 DEF Approximates
    <2> QED BY <2>4, <2>5
  <1>3. f \in [D -> S]
    <2>1. \A d \in D : rank[d] + 1 \in Nat /\ rank[d] < rank[d] + 1
      OBVIOUS
    <2>2. \A d \in D : f[d] \in S
      <3> HIDE DEF f
      <3> QED BY <1>2, <2>1
    <2> QED BY <2>2
  <1>4. ASSUME NEW d \in D
        PROVE  f[d] = Value(D, next, base, step, f, d)
    <2> DEFINE k == rank[d] + 1
    <2>1. k \in Nat /\ rank[d] < k
      OBVIOUS
    <2> HIDE DEF k
    <2>2. d \in Below(D, rank, k) /\ App(Upto(k), k)
      BY <1>1, <2>1 DEF Below
    <2> HIDE DEF Upto, f
    <2>3. f[d] = Value(D, next, base, step, Upto(k), d)
      BY <1>2, <2>1, <2>2 DEF Approximates
    <2>4. ASSUME next[d] \in D PROVE f[next[d]] = Upto(k)[next[d]]
      <3>1. rank[next[d]] \in Nat /\ rank[d] \in Nat /\ rank[next[d]] < k
        BY <2>1, <2>4
      <3> QED BY <1>2, <2>1, <2>4, <3>1
    <2> QED BY <2>3, <2>4 DEF Value
  <1> HIDE DEF f
  <1> QED BY <1>3, <1>4 DEF Computes

-----------------------------------------------------------------------------
(* Entries.                                                                *)

Bytes == 0..255
Deliveries == [vals : Seq(Seq(Bytes)), bad : BOOLEAN]

LEMMA WeightedBytes ==
  ASSUME NEW b1 \in Bytes, NEW b2 \in Bytes, NEW b3 \in Bytes, NEW b4 \in Bytes
  PROVE  Byte3 * b1 + Byte2 * b2 + 256 * b3 + b4 \in Nat
  <1>1. b1 \in Nat /\ b2 \in Nat /\ b3 \in Nat /\ b4 \in Nat
    BY DEF Bytes
  <1> QED BY <1>1, SMTT(30) DEF Byte2, Byte3

LEMMA HeaderIsThere ==
  ASSUME NEW buf \in Seq(Bytes), NEW p \in 0..Len(buf) - HeaderLen
  PROVE  /\ buf[p + 1] \in Bytes /\ buf[p + 2] \in Bytes
         /\ buf[p + 3] \in Bytes /\ buf[p + 4] \in Bytes
         /\ ValLen(buf, p) \in Nat
         /\ EndOf(buf, p) \in Nat /\ EndOf(buf, p) >= p + HeaderLen
         /\ ~Malformed(buf, p) => ValueAt(buf, p) \in Seq(Bytes)
  <1>1. buf[p + 1] \in Bytes /\ buf[p + 2] \in Bytes /\ buf[p + 3] \in Bytes /\ buf[p + 4] \in Bytes
    <2>1. p \in Nat /\ Len(buf) \in Nat /\ p + 4 <= Len(buf)
      BY DEF HeaderLen
    <2>2. /\ p + 1 \in 1..Len(buf) /\ p + 2 \in 1..Len(buf)
          /\ p + 3 \in 1..Len(buf) /\ p + 4 \in 1..Len(buf)
      BY <2>1
    <2>3. \A i \in 1..Len(buf) : buf[i] \in Bytes
      OBVIOUS
    <2> QED BY <2>2, <2>3
  <1>2. ValLen(buf, p) \in Nat
    <2>1. Byte3 * buf[p + 1] + Byte2 * buf[p + 2] + 256 * buf[p + 3] + buf[p + 4] \in Nat
      <3> DEFINE b1 == buf[p + 1]
                 b2 == buf[p + 2]
                 b3 == buf[p + 3]
                 b4 == buf[p + 4]
      <3>1. b1 \in Bytes /\ b2 \in Bytes /\ b3 \in Bytes /\ b4 \in Bytes
        BY <1>1
      <3> HIDE DEF b1, b2, b3, b4
      <3>2. Byte3 * b1 + Byte2 * b2 + 256 * b3 + b4 \in Nat
        BY <3>1, WeightedBytes
      <3> QED BY <3>2 DEF b1, b2, b3, b4
    <2> QED BY <2>1 DEF ValLen
  <1>3. EndOf(buf, p) \in Nat /\ EndOf(buf, p) >= p + HeaderLen
    BY <1>2 DEF EndOf, HeaderLen
  <1>4. ASSUME ~Malformed(buf, p) PROVE ValueAt(buf, p) \in Seq(Bytes)
    <2>1. EndOf(buf, p) <= Len(buf) /\ p + HeaderLen + 1 >= 1 /\ p + HeaderLen + 1 \in Nat
      BY <1>3, <1>4 DEF Malformed, HeaderLen
    <2> QED BY <1>3, <2>1 DEF ValueAt
  <1> QED BY <1>1, <1>2, <1>3, <1>4

LEMMA EntriesDefined ==
  ASSUME NEW buf \in Seq(Bytes), Len(buf) > HeaderLen
  PROVE  /\ EntriesFrom(buf) \in [0..Len(buf) - HeaderLen -> Deliveries]
         /\ \A p \in 0..Len(buf) - HeaderLen :
              EntriesFrom(buf)[p] =
                IF Malformed(buf, p) THEN [vals |-> <<>>, bad |-> TRUE]
                ELSE IF EndOf(buf, p) = Len(buf)
                     THEN [vals |-> <<ValueAt(buf, p)>>, bad |-> FALSE]
                     ELSE LET rest == EntriesFrom(buf)[EndOf(buf, p)] IN
                          [vals |-> <<ValueAt(buf, p)>> \o rest.vals, bad |-> rest.bad]
  <1> DEFINE D == 0..Len(buf) - HeaderLen
             rank == [p \in D |-> Len(buf) - p]
             next == [p \in D |-> IF Malformed(buf, p) THEN -1 ELSE EndOf(buf, p)]
             base == [p \in D |-> IF Malformed(buf, p) THEN [vals |-> <<>>, bad |-> TRUE]
                                  ELSE [vals |-> <<ValueAt(buf, p)>>, bad |-> FALSE]]
             step == [x \in D \X Deliveries |->
                        [vals |-> IF Malformed(buf, x[1]) THEN <<>>
                                  ELSE <<ValueAt(buf, x[1])>> \o x[2].vals,
                         bad  |-> x[2].bad]]
             Is(f) == f = [p \in D |->
                IF Malformed(buf, p) THEN [vals |-> <<>>, bad |-> TRUE]
                ELSE IF EndOf(buf, p) = Len(buf)
                     THEN [vals |-> <<ValueAt(buf, p)>>, bad |-> FALSE]
                     ELSE LET rest == f[EndOf(buf, p)] IN
                          [vals |-> <<ValueAt(buf, p)>> \o rest.vals, bad |-> rest.bad]]
  <1>1. Len(buf) \in Nat /\ HeaderLen \in Nat /\ \A p \in D : p \in Nat /\ p <= Len(buf)
    BY DEF HeaderLen
  <1>2. rank \in [D -> Nat]
    BY <1>1
  <1>3. base \in [D -> Deliveries]
    <2>1. ASSUME NEW p \in D PROVE base[p] \in Deliveries
      <3>1. ~Malformed(buf, p) => ValueAt(buf, p) \in Seq(Bytes)
        BY HeaderIsThere
      <3> QED BY <3>1 DEF Deliveries
    <2> QED BY <2>1
  <1>4. step \in [D \X Deliveries -> Deliveries]
    <2>1. ASSUME NEW p \in D, NEW d \in Deliveries PROVE step[<<p, d>>] \in Deliveries
      <3>1. ~Malformed(buf, p) => ValueAt(buf, p) \in Seq(Bytes)
        BY HeaderIsThere
      <3>2. d.vals \in Seq(Seq(Bytes)) /\ d.bad \in BOOLEAN
        BY DEF Deliveries
      <3>3. ~Malformed(buf, p) => <<ValueAt(buf, p)>> \o d.vals \in Seq(Seq(Bytes))
        BY <3>1, <3>2
      <3> QED BY <3>2, <3>3 DEF Deliveries
    <2> QED BY <2>1
  <1>5. \A p \in D : next[p] \in D => rank[next[p]] < rank[p]
    <2> SUFFICES ASSUME NEW p \in D, next[p] \in D PROVE rank[next[p]] < rank[p]
      OBVIOUS
    <2>1. next[p] = EndOf(buf, p)
      BY <1>1
    <2>2. EndOf(buf, p) \in Nat /\ EndOf(buf, p) >= p + HeaderLen
      BY HeaderIsThere
    <2> QED BY <1>1, <2>1, <2>2 DEF HeaderLen
  <1> HIDE DEF D, rank, next, base, step
  <1>f. PICK f : Computes(D, next, Deliveries, base, step, f)
    BY <1>2, <1>3, <1>4, <1>5, Recursion
  <1>6. /\ f \in [D -> Deliveries]
        /\ \A p \in D : f[p] = IF next[p] \in D THEN step[<<p, f[next[p]]>>] ELSE base[p]
    BY <1>f DEF Computes, Value
  <1>7. Is(f)
    <2>1. ASSUME NEW p \in D
          PROVE  f[p] = IF Malformed(buf, p) THEN [vals |-> <<>>, bad |-> TRUE]
                        ELSE IF EndOf(buf, p) = Len(buf)
                             THEN [vals |-> <<ValueAt(buf, p)>>, bad |-> FALSE]
                             ELSE [vals |-> <<ValueAt(buf, p)>> \o f[EndOf(buf, p)].vals,
                                   bad  |-> f[EndOf(buf, p)].bad]
      <3>1. CASE Malformed(buf, p)
        <4>1. next[p] \notin D
          BY <3>1 DEF D, next
        <4> QED BY <1>6, <3>1, <4>1 DEF base
      <3>2. CASE ~Malformed(buf, p) /\ EndOf(buf, p) = Len(buf)
        <4>1. next[p] \notin D
          BY <1>1, <3>2 DEF D, next, HeaderLen
        <4> QED BY <1>6, <3>2, <4>1 DEF base
      <3>3. CASE ~Malformed(buf, p) /\ EndOf(buf, p) # Len(buf)
        <4>1. EndOf(buf, p) \in Nat
          BY HeaderIsThere DEF D
        <4>2. next[p] \in D /\ next[p] = EndOf(buf, p)
          BY <1>1, <3>3, <4>1 DEF D, next, Malformed, RestFits, HeaderLen
        <4>3. f[p] = step[<<p, f[EndOf(buf, p)]>>] /\ f[EndOf(buf, p)] \in Deliveries
          BY <1>6, <4>2
        <4>4. f[p] = [vals |-> <<ValueAt(buf, p)>> \o f[EndOf(buf, p)].vals,
                      bad |-> f[EndOf(buf, p)].bad]
          BY <3>3, <4>3 DEF step
        <4> QED BY <3>3, <4>3, <4>4 DEF Deliveries
      <3> QED BY <3>1, <3>2, <3>3
    <2> QED BY <2>1, <1>6
  <1> DEFINE g == EntriesFrom(buf)
  <1>8. Is(g)
    BY <1>7, Zenon DEF EntriesFrom, D
  <1> HIDE DEF g
  <1>9. \A p \in D : g[p] = f[p]
    <2> DEFINE T == {p \in D : g[p] = f[p]}
    <2>1. ASSUME NEW p \in D, \A q \in D : rank[q] < rank[p] => q \in T
          PROVE  p \in T
      <3>1. ASSUME EndOf(buf, p) \in D PROVE g[EndOf(buf, p)] = f[EndOf(buf, p)]
        <4>1. EndOf(buf, p) \in Nat /\ EndOf(buf, p) >= p + HeaderLen
          BY HeaderIsThere DEF D
        <4>2. Len(buf) - EndOf(buf, p) < Len(buf) - p
          BY <1>1, <4>1 DEF HeaderLen
        <4>3. rank[EndOf(buf, p)] < rank[p]
          BY <3>1, <4>2 DEF rank
        <4> QED BY <2>1, <3>1, <4>3
      <3>2. ~Malformed(buf, p) /\ EndOf(buf, p) # Len(buf) => EndOf(buf, p) \in D
        BY <1>1, HeaderIsThere DEF D, Malformed, RestFits, HeaderLen
      <3> QED BY <1>7, <1>8, <3>1, <3>2
    <2> HIDE DEF T
    <2>2. \A p \in D : p \in T
      BY <1>2, <2>1, RankInduction
    <2> USE DEF T
    <2> QED BY <2>2
  <1>10. g \in [D -> Deliveries]
    BY <1>6, <1>8, <1>9
  <1> QED BY <1>8, <1>10 DEF g, D

\* What get_values delivers is a sequence of byte sequences.
LEMMA DeliverAllType ==
  ASSUME NEW buf \in Seq(Bytes)
  PROVE  DeliverAll(buf) \in Deliveries
  <1>1. CASE buf = <<>>
    BY <1>1 DEF DeliverAll, Deliveries
  <1>2. CASE buf # <<>> /\ Len(buf) <= HeaderLen
    BY <1>2 DEF DeliverAll, Deliveries
  <1>3. CASE buf # <<>> /\ ~(Len(buf) <= HeaderLen)
    <2>1. Len(buf) > HeaderLen /\ 0 \in 0..Len(buf) - HeaderLen
      BY <1>3 DEF HeaderLen
    <2>2. DeliverAll(buf) = EntriesFrom(buf)[0]
      BY <1>3 DEF DeliverAll
    <2> QED BY <2>1, <2>2, EntriesDefined
  <1> QED BY <1>1, <1>2, <1>3

-----------------------------------------------------------------------------
(* An entry behind a readable content.                                     *)

\* The values that clients may store.
Storable == {v \in Seq(Bytes) : Len(v) \in 1..MaxValueLen}

\* Those and the empty value, which other programs may have written.
Short == {v \in Seq(Bytes) : Len(v) <= MaxValueLen}

LEMMA HeaderOfLength ==
  ASSUME NEW n \in Nat, n < Byte2
  PROVE  /\ (n \div Byte3) % 256 = 0 /\ (n \div Byte2) % 256 = 0
         /\ (n \div 256) % 256 \in Bytes /\ (n % 256) \in Bytes
         /\ 256 * ((n \div 256) % 256) + (n % 256) = n
  <1>1. n \div 256 \in Nat /\ n \div 256 < 256
    BY SMTT(30) DEF Byte2
  <1>2. (n \div 256) % 256 = n \div 256
    BY <1>1
  <1>3. n \div Byte2 = 0 /\ n \div Byte3 = 0
    BY SMTT(30) DEF Byte2, Byte3
  <1>5. (n % 256) \in 0..255
    OBVIOUS
  <1>6. 256 * (n \div 256) + (n % 256) = n
    OBVIOUS
  <1>7. (n \div 256) % 256 \in 0..255 /\ 0 % 256 = 0
    BY <1>1, <1>2
  <1>8. (n \div Byte3) % 256 = 0 /\ (n \div Byte2) % 256 = 0
    BY <1>3, <1>7
  <1> QED BY <1>2, <1>5, <1>6, <1>7, <1>8 DEF Bytes

LEMMA LimitIsPositive == MaxValueLen \in Nat /\ MaxValueLen >= 1
  BY MaxValueLenAssumption, SMTT(30)

LEMMA ShortLength ==
  ASSUME NEW n \in Nat, n <= MaxValueLen
  PROVE  n < Byte2
  BY MaxValueLenAssumption, SMTT(30) DEF Byte2

LEMMA FourBytes ==
  ASSUME NEW b1 \in Bytes, NEW b2 \in Bytes, NEW b3 \in Bytes, NEW b4 \in Bytes
  PROVE  <<b1, b2, b3, b4>> \in Seq(Bytes) /\ Len(<<b1, b2, b3, b4>>) = 4
  OBVIOUS

LEMMA BehindFourBytes ==
  ASSUME NEW b1 \in Bytes, NEW b2 \in Bytes, NEW b3 \in Bytes, NEW b4 \in Bytes,
         NEW v \in Seq(Bytes), NEW s, s = <<b1, b2, b3, b4>> \o v
  PROVE  /\ s[1] = b1 /\ s[2] = b2 /\ s[3] = b3 /\ s[4] = b4
         /\ \A i \in 1..Len(v) : s[4 + i] = v[i]
  <1> DEFINE h == <<b1, b2, b3, b4>>
  <1>1. /\ h \in Seq(Bytes) /\ Len(h) = 4
        /\ h[1] = b1 /\ h[2] = b2 /\ h[3] = b3 /\ h[4] = b4
    BY FourBytes
  <1>2. s = h \o v
    OBVIOUS
  <1> HIDE DEF h
  <1>3. \A i \in 1..4 + Len(v) : s[i] = IF i <= 4 THEN h[i] ELSE v[i - 4]
    BY <1>1, <1>2, ConcatProperties
  <1>4. /\ 1 \in 1..4 + Len(v) /\ 2 \in 1..4 + Len(v)
        /\ 3 \in 1..4 + Len(v) /\ 4 \in 1..4 + Len(v)
        /\ \A i \in 1..Len(v) : 4 + i \in 1..4 + Len(v) /\ ~(4 + i <= 4) /\ (4 + i) - 4 = i
    OBVIOUS
  <1> QED BY <1>1, <1>3, <1>4

LEMMA ShortEntry ==
  ASSUME NEW v \in Short
  PROVE  /\ v \in Seq(Bytes) /\ Len(v) \in Nat /\ Len(v) <= MaxValueLen
         /\ Entry(v) = <<0, 0, (Len(v) \div 256) % 256, (Len(v) % 256)>> \o v
         /\ Entry(v) \in Seq(Bytes)
         /\ Len(Entry(v)) = HeaderLen + Len(v)
  <1> DEFINE n == Len(v)
             hi == (n \div 256) % 256
             lo == (n % 256)
  <1>1. v \in Seq(Bytes) /\ n \in Nat /\ n <= MaxValueLen
    BY DEF Short
  <1>2. n < Byte2
    <2> HIDE DEF n
    <2> QED BY <1>1, ShortLength
  <1>3. /\ (n \div Byte3) % 256 = 0 /\ (n \div Byte2) % 256 = 0
        /\ hi \in Bytes /\ lo \in Bytes
    <2> HIDE DEF n
    <2> QED BY <1>1, <1>2, HeaderOfLength
  <1>4. NetworkOrder(n) = <<0, 0, hi, lo>>
    BY <1>3 DEF NetworkOrder
  <1>5. 0 \in Bytes
    BY DEF Bytes
  <1> HIDE DEF n, hi, lo
  <1>6. <<0, 0, hi, lo>> \in Seq(Bytes) /\ Len(<<0, 0, hi, lo>>) = 4
    BY <1>3, <1>5, FourBytes
  <1>7. Entry(v) = <<0, 0, hi, lo>> \o v
    BY <1>4 DEF Entry, n
  <1>8. Entry(v) \in Seq(Bytes) /\ Len(Entry(v)) = HeaderLen + Len(v)
    BY <1>1, <1>6, <1>7 DEF HeaderLen
  <1> QED BY <1>1, <1>7, <1>8 DEF n, hi, lo

LEMMA StorableValue ==
  ASSUME NEW v \in Storable
  PROVE  /\ v \in Short /\ v \in Seq(Bytes)
         /\ Len(v) \in Nat /\ Len(v) >= 1 /\ Len(v) <= MaxValueLen
  <1>1. v \in Seq(Bytes) /\ Len(v) \in Nat /\ Len(v) >= 1 /\ Len(v) <= MaxValueLen
    BY LimitIsPositive DEF Storable
  <1> QED BY <1>1 DEF Short

LEMMA EntryBytes ==
  ASSUME NEW v \in Storable
  PROVE  /\ Entry(v) \in Seq(Bytes)
         /\ Len(Entry(v)) = HeaderLen + Len(v)
  <1>1. v \in Short
    BY StorableValue
  <1> QED BY <1>1, ShortEntry, Zenon

\* The entry that begins where content ends.
LEMMA EntryAtEnd ==
  ASSUME NEW content \in Seq(Bytes), NEW v \in Storable,
         NEW file, file = content \o Entry(v)
  PROVE  /\ file \in Seq(Bytes) /\ Len(file) = Len(content) + HeaderLen + Len(v)
         /\ Len(content) \in 0..Len(file) - HeaderLen
         /\ ~Malformed(file, Len(content))
         /\ EndOf(file, Len(content)) = Len(file)
         /\ ValueAt(file, Len(content)) = v
  <1> DEFINE n == Len(content)
             m == Len(v)
             hi == (m \div 256) % 256
             lo == (m % 256)
  <1>0. n \in Nat
    OBVIOUS
  <1>1. v \in Seq(Bytes) /\ m \in Nat /\ m >= 1 /\ m <= MaxValueLen /\ n \in Nat
    BY <1>0, StorableValue
  <1>2. Entry(v) \in Seq(Bytes) /\ Entry(v) = <<0, 0, hi, lo>> \o v
    BY StorableValue, ShortEntry, Zenon
  <1>3. 256 * hi + lo = m /\ hi \in Bytes /\ lo \in Bytes /\ 0 \in Bytes
    <2>1. 0 \in Bytes
      BY DEF Bytes
    <2> HIDE DEF m
    <2> QED BY <1>1, <2>1, ShortLength, HeaderOfLength
  <1> HIDE DEF hi, lo
  <1>4. file \in Seq(Bytes) /\ Len(file) = n + HeaderLen + m
    BY <1>1, <1>2, EntryBytes DEF HeaderLen
  <1>5. /\ file[n + 1] = 0 /\ file[n + 2] = 0 /\ file[n + 3] = hi /\ file[n + 4] = lo
        /\ \A i \in 1..m : file[n + 4 + i] = v[i]
    <2>1. Len(<<0, 0, hi, lo>>) = 4 /\ Len(Entry(v)) = 4 + m
      BY EntryBytes DEF HeaderLen
    <2>2. \A i \in 1..4 + m : file[n + i] = Entry(v)[i]
      BY <1>1, <1>2, <2>1
    <2>3. /\ Entry(v)[1] = 0 /\ Entry(v)[2] = 0 /\ Entry(v)[3] = hi /\ Entry(v)[4] = lo
          /\ \A i \in 1..m : Entry(v)[4 + i] = v[i]
      BY <1>1, <1>2, <1>3, BehindFourBytes
    <2>4. ASSUME NEW i \in 1..m PROVE file[n + 4 + i] = v[i]
      <3>1. Entry(v)[4 + i] = v[i]
        BY <2>3
      <3>2. 4 + i \in 1..4 + m /\ n + (4 + i) = n + 4 + i
        BY <1>1
      <3> QED BY <2>2, <3>1, <3>2
    <2>5. 1 \in 1..4 + m /\ 2 \in 1..4 + m /\ 3 \in 1..4 + m /\ 4 \in 1..4 + m
      BY <1>1
    <2> QED BY <2>2, <2>3, <2>4, <2>5
  <1>6. ValLen(file, n) = m
    <2>1. ValLen(file, n) = Byte3 * 0 + Byte2 * 0 + 256 * hi + lo
      BY <1>5 DEF ValLen
    <2>2. hi \in Nat /\ lo \in Nat
      BY <1>3 DEF Bytes
    <2>3. Byte3 * 0 + Byte2 * 0 + 256 * hi + lo = 256 * hi + lo
      BY <2>2, SMTT(30) DEF Byte2, Byte3
    <2> QED BY <1>3, <2>1, <2>3
  <1>7. EndOf(file, n) = Len(file)
    BY <1>1, <1>4, <1>6 DEF EndOf, HeaderLen
  <1>8. ~Malformed(file, n)
    <2>1. RestFits(Len(file) - EndOf(file, n))
      BY <1>1, <1>4, <1>7 DEF RestFits, HeaderLen
    <2>2. ~(m > MaxValueLen) /\ ~(Len(file) > Len(file))
      BY <1>1, <1>4, LimitIsPositive
    <2> QED BY <1>6, <1>7, <2>1, <2>2 DEF Malformed
  <1>9. ValueAt(file, n) = v
    <2> DEFINE w == SubSeq(file, n + 4 + 1, n + 4 + m)
    <2>1. ValueAt(file, n) = w
      BY <1>4, <1>7 DEF ValueAt, HeaderLen
    <2>2. w \in Seq(Bytes) /\ Len(w) = m /\ \A i \in 1..m : w[i] = file[n + 4 + i]
      BY <1>1, <1>4 DEF HeaderLen
    <2> HIDE DEF w
    <2>3. \A i \in 1..m : w[i] = v[i]
      BY <1>5, <2>2
    <2>4. w = v
      BY <1>1, <2>2, <2>3
    <2> QED BY <2>1, <2>4
  <1> QED BY <1>1, <1>4, <1>7, <1>8, <1>9 DEF HeaderLen

\* What a readable rest of a buffer begins with.
LEMMA ReadableRest ==
  ASSUME NEW buf \in Seq(Bytes), Len(buf) > HeaderLen,
         NEW p \in 0..Len(buf) - HeaderLen, ~EntriesFrom(buf)[p].bad
  PROVE  /\ EntriesFrom(buf)[p] \in Deliveries
         /\ ~Malformed(buf, p)
         /\ ValueAt(buf, p) \in Seq(Bytes)
         /\ EndOf(buf, p) \in Nat /\ EndOf(buf, p) >= p + HeaderLen
         /\ EndOf(buf, p) <= Len(buf)
         /\ EndOf(buf, p) = Len(buf) => EntriesFrom(buf)[p].vals = <<ValueAt(buf, p)>>
         /\ EndOf(buf, p) # Len(buf) =>
              /\ EndOf(buf, p) \in 0..Len(buf) - HeaderLen
              /\ ~EntriesFrom(buf)[EndOf(buf, p)].bad
              /\ EntriesFrom(buf)[EndOf(buf, p)] \in Deliveries
              /\ EntriesFrom(buf)[p].vals =
                   <<ValueAt(buf, p)>> \o EntriesFrom(buf)[EndOf(buf, p)].vals
  <1> DEFINE g == EntriesFrom(buf)
  <1>1. /\ g \in [0..Len(buf) - HeaderLen -> Deliveries]
        /\ g[p] = IF Malformed(buf, p) THEN [vals |-> <<>>, bad |-> TRUE]
                  ELSE IF EndOf(buf, p) = Len(buf)
                       THEN [vals |-> <<ValueAt(buf, p)>>, bad |-> FALSE]
                       ELSE [vals |-> <<ValueAt(buf, p)>> \o g[EndOf(buf, p)].vals,
                             bad  |-> g[EndOf(buf, p)].bad]
    BY EntriesDefined
  <1>2. ~g[p].bad
    OBVIOUS
  <1> HIDE DEF g
  <1>3. ~Malformed(buf, p)
    BY <1>1, <1>2
  <1>4. /\ ValueAt(buf, p) \in Seq(Bytes)
        /\ EndOf(buf, p) \in Nat /\ EndOf(buf, p) >= p + HeaderLen
    BY <1>3, HeaderIsThere
  <1>5. Len(buf) \in Nat /\ EndOf(buf, p) <= Len(buf)
    BY <1>3, <1>4 DEF Malformed
  <1>6. EndOf(buf, p) = Len(buf) => g[p].vals = <<ValueAt(buf, p)>>
    BY <1>1, <1>3
  <1>7. ASSUME EndOf(buf, p) # Len(buf)
        PROVE  /\ EndOf(buf, p) \in 0..Len(buf) - HeaderLen
               /\ ~g[EndOf(buf, p)].bad
               /\ g[EndOf(buf, p)] \in Deliveries
               /\ g[p].vals = <<ValueAt(buf, p)>> \o g[EndOf(buf, p)].vals
    <2>1. EndOf(buf, p) \in 0..Len(buf) - HeaderLen
      BY <1>3, <1>4, <1>5, <1>7 DEF Malformed, RestFits, HeaderLen
    <2>2. g[EndOf(buf, p)] \in Deliveries
      BY <1>1, <2>1
    <2> QED BY <1>1, <1>2, <1>3, <1>7, <2>1, <2>2
  <1> QED BY <1>1, <1>3, <1>4, <1>5, <1>6, <1>7 DEF g

LEMMA ReadableContent ==
  ASSUME NEW buf \in Seq(Bytes), Readable(buf), buf # <<>>
  PROVE  /\ Len(buf) \in Nat /\ Len(buf) > HeaderLen
         /\ 0 \in 0..Len(buf) - HeaderLen
         /\ ~EntriesFrom(buf)[0].bad
         /\ ValuesIn(buf) = EntriesFrom(buf)[0].vals
  BY DEF Readable, ValuesIn, DeliverAll, HeaderLen

LEMMA Slice ==
  ASSUME NEW s \in Seq(Bytes), NEW a \in Nat, a >= 1, NEW b \in Nat, b <= Len(s), a <= b + 1
  PROVE  /\ SubSeq(s, a, b) \in Seq(Bytes)
         /\ Len(SubSeq(s, a, b)) = b - a + 1
         /\ \A i \in 1..b - a + 1 : SubSeq(s, a, b)[i] = s[a + i - 1]
  <1>1. Len(SubSeq(s, a, b)) = b - a + 1 /\ SubSeq(s, a, b) \in Seq(Bytes)
    OBVIOUS
  <1>2. ASSUME NEW i \in 1..b - a + 1
        PROVE  SubSeq(s, a, b)[i] = s[a + i - 1]
    OBVIOUS
  <1> QED BY <1>1, <1>2

LEMMA SlicesAgree ==
  ASSUME NEW s \in Seq(Bytes), NEW t \in Seq(Bytes), NEW n \in Nat,
         n <= Len(s), n <= Len(t), \A i \in 1..n : s[i] = t[i],
         NEW a \in Nat, a >= 1, NEW b \in Nat, b <= n, a <= b + 1
  PROVE  SubSeq(s, a, b) = SubSeq(t, a, b)
  <1> DEFINE x == SubSeq(s, a, b)
             y == SubSeq(t, a, b)
             k == b - a + 1
  <1>1. k \in Nat /\ b <= Len(s) /\ b <= Len(t) /\ \A i \in 1..k : a + i - 1 \in 1..n
    OBVIOUS
  <1>2. x \in Seq(Bytes) /\ Len(x) = k /\ \A i \in 1..k : x[i] = s[a + i - 1]
    BY <1>1, Slice
  <1>3. y \in Seq(Bytes) /\ Len(y) = k /\ \A i \in 1..k : y[i] = t[a + i - 1]
    BY <1>1, Slice
  <1> HIDE DEF x, y, k
  <1>4. \A i \in 1..k : x[i] = y[i]
    BY <1>1, <1>2, <1>3
  <1>5. x = y
    BY <1>2, <1>3, <1>4
  <1> QED BY <1>5 DEF x, y

\* An entry behind a content changes none of its headers and values.
LEMMA EntryStaysInPlace ==
  ASSUME NEW content \in Seq(Bytes), NEW v \in Storable,
         NEW file, file = content \o Entry(v),
         NEW p \in 0..Len(content) - HeaderLen, ~Malformed(content, p)
  PROVE  /\ ~Malformed(file, p)
         /\ EndOf(file, p) = EndOf(content, p)
         /\ ValueAt(file, p) = ValueAt(content, p)
  <1> DEFINE n == Len(content)
             end == EndOf(content, p)
  <1>1. n \in Nat /\ file \in Seq(Bytes) /\ Len(v) \in Nat /\ Len(v) >= 1
        /\ Entry(v) \in Seq(Bytes)
    <2>1. file \in Seq(Bytes)
      BY EntryAtEnd
    <2>2. Len(v) \in Nat /\ Len(v) >= 1 /\ Entry(v) \in Seq(Bytes)
      BY StorableValue, EntryBytes
    <2>3. n \in Nat
      OBVIOUS
    <2> QED BY <2>1, <2>2, <2>3
  <1>2. Len(file) = n + HeaderLen + Len(v)
    BY EntryAtEnd
  <1>3. \A i \in 1..n : file[i] = content[i]
    BY <1>1
  <1>4. ValLen(file, p) = ValLen(content, p)
    <2>1. p + 1 \in 1..n /\ p + 2 \in 1..n /\ p + 3 \in 1..n /\ p + 4 \in 1..n
      BY <1>1 DEF HeaderLen
    <2> QED BY <1>3, <2>1 DEF ValLen
  <1>5. end \in Nat /\ end >= p + HeaderLen /\ end <= n
    BY HeaderIsThere, <1>1 DEF Malformed
  <1>6. EndOf(file, p) = end
    BY <1>4 DEF EndOf
  <1>7. ~Malformed(file, p)
    <2>1. RestFits(Len(file) - end) /\ ~(end > Len(file))
      BY <1>1, <1>2, <1>5 DEF RestFits, HeaderLen
    <2> QED BY <1>4, <1>6, <2>1 DEF Malformed
  <1>8. SubSeq(file, p + HeaderLen + 1, end) = SubSeq(content, p + HeaderLen + 1, end)
    <2>1. p + HeaderLen + 1 \in Nat /\ p + HeaderLen + 1 >= 1 /\ end <= Len(file)
      BY <1>1, <1>2, <1>5 DEF HeaderLen
    <2>2. p + HeaderLen + 1 <= end + 1
      BY <1>1, <1>5 DEF HeaderLen
    <2>3. n <= Len(file) /\ n <= Len(content)
      BY <1>1, <1>2 DEF HeaderLen
    <2>4. \A i \in 1..n : file[i] = content[i]
      BY <1>3
    <2> HIDE DEF n, end
    <2> DEFINE a == p + HeaderLen + 1
    <2>5. a \in Nat /\ a >= 1 /\ a <= end + 1 /\ end \in Nat /\ end <= n /\ n \in Nat
      BY <1>1, <1>5, <2>1, <2>2
    <2> HIDE DEF a
    <2>6. SubSeq(file, a, end) = SubSeq(content, a, end)
      BY <1>1, <2>3, <2>4, <2>5, SlicesAgree
    <2> QED BY <2>6 DEF a
  <1> QED BY <1>6, <1>7, <1>8 DEF ValueAt

LEMMA Isolated ==
  ASSUME NEW a \in Seq(Bytes), NEW s \in Seq(Seq(Bytes)), NEW b \in Seq(Bytes)
  PROVE  <<a>> \o (s \o <<b>>) = (<<a>> \o s) \o <<b>>
  <1>1. <<a>> \in Seq(Seq(Bytes)) /\ <<b>> \in Seq(Seq(Bytes))
    OBVIOUS
  <1> QED BY <1>1, ConcatAssociative

\* An entry behind a content that can be read adds its value to what is
\* delivered from every offset on the way.
LEMMA EntryBehind ==
  ASSUME NEW content \in Seq(Bytes), Len(content) > HeaderLen, NEW v \in Storable,
         NEW file, file = content \o Entry(v)
  PROVE  \A p \in 0..Len(content) - HeaderLen :
            ~EntriesFrom(content)[p].bad =>
              EntriesFrom(file)[p] =
                [vals |-> EntriesFrom(content)[p].vals \o <<v>>, bad |-> FALSE]
  <1> DEFINE D == 0..Len(content) - HeaderLen
             f == EntriesFrom(content)
             g == EntriesFrom(file)
             rank == [p \in D |-> Len(content) - p]
             T == {p \in D : ~f[p].bad => g[p] = [vals |-> f[p].vals \o <<v>>, bad |-> FALSE]}
  <1>1. Len(content) \in Nat /\ HeaderLen \in Nat
    BY DEF HeaderLen
  <1>2. rank \in [D -> Nat]
    BY <1>1
  <1>3. v \in Seq(Bytes) /\ Len(v) \in Nat /\ Len(v) >= 1
    BY StorableValue
  <1>4. /\ file \in Seq(Bytes) /\ Len(file) = Len(content) + HeaderLen + Len(v)
        /\ Len(content) \in 0..Len(file) - HeaderLen
        /\ ~Malformed(file, Len(content))
        /\ EndOf(file, Len(content)) = Len(file)
        /\ ValueAt(file, Len(content)) = v
    BY EntryAtEnd
  <1>5. Len(file) > HeaderLen /\ \A p \in D : p \in 0..Len(file) - HeaderLen
    BY <1>1, <1>3, <1>4
  <1>6. \A p \in 0..Len(file) - HeaderLen :
          g[p] = IF Malformed(file, p) THEN [vals |-> <<>>, bad |-> TRUE]
                 ELSE IF EndOf(file, p) = Len(file)
                      THEN [vals |-> <<ValueAt(file, p)>>, bad |-> FALSE]
                      ELSE [vals |-> <<ValueAt(file, p)>> \o g[EndOf(file, p)].vals,
                            bad  |-> g[EndOf(file, p)].bad]
    BY <1>4, <1>5, EntriesDefined
  <1>7. g[Len(content)] = [vals |-> <<v>>, bad |-> FALSE]
    BY <1>4, <1>6
  <1>8. ASSUME NEW p \in D, \A q \in D : rank[q] < rank[p] => q \in T
        PROVE  p \in T
    <2> SUFFICES ASSUME ~f[p].bad
                 PROVE  g[p] = [vals |-> f[p].vals \o <<v>>, bad |-> FALSE]
      OBVIOUS
    <2> DEFINE end == EndOf(content, p)
               val == ValueAt(content, p)
    <2>1. /\ f[p] \in Deliveries
          /\ ~Malformed(content, p) /\ val \in Seq(Bytes)
          /\ end \in Nat /\ end >= p + HeaderLen /\ end <= Len(content)
          /\ end = Len(content) => f[p].vals = <<val>>
          /\ end # Len(content) =>
               /\ end \in D
               /\ ~f[end].bad
               /\ f[end] \in Deliveries
               /\ f[p].vals = <<val>> \o f[end].vals
      BY ReadableRest
    <2>2. ~Malformed(file, p) /\ EndOf(file, p) = end /\ ValueAt(file, p) = val
      BY <2>1, EntryStaysInPlace
    <2>3. end # Len(file)
      BY <1>1, <1>3, <1>4, <2>1
    <2> HIDE DEF end, val, f, g
    <2>4. g[p] = [vals |-> <<val>> \o g[end].vals, bad |-> g[end].bad]
      BY <1>5, <1>6, <2>2, <2>3
    <2>5. CASE end = Len(content)
      <3>1. f[p].vals = <<val>>
        BY <2>1, <2>5
      <3>2. g[end].vals = <<v>> /\ g[end].bad = FALSE
        BY <1>7, <2>5
      <3> QED BY <2>4, <3>1, <3>2
    <2>6. CASE end # Len(content)
      <3>1. end \in D /\ ~f[end].bad /\ f[end] \in Deliveries
            /\ f[p].vals = <<val>> \o f[end].vals
        BY <2>1, <2>6
      <3>2. rank[end] < rank[p]
        <4>1. Len(content) - end < Len(content) - p
          BY <1>1, <2>1 DEF HeaderLen
        <4> QED BY <3>1, <4>1
      <3>3. g[end] = [vals |-> f[end].vals \o <<v>>, bad |-> FALSE]
        BY <1>8, <3>1, <3>2
      <3>4. f[end].vals \in Seq(Seq(Bytes))
        BY <3>1 DEF Deliveries
      <3>5. <<val>> \o (f[end].vals \o <<v>>) = (<<val>> \o f[end].vals) \o <<v>>
        <4>1. val \in Seq(Bytes) /\ v \in Seq(Bytes)
          BY <1>3, <2>1
        <4> QED BY <4>1, <3>4, Isolated
      <3>6. g[end].vals = f[end].vals \o <<v>> /\ g[end].bad = FALSE
        BY <3>3
      <3>7. g[p] = [vals |-> <<val>> \o (f[end].vals \o <<v>>), bad |-> FALSE]
        BY <2>4, <3>6
      <3> QED BY <3>1, <3>5, <3>7
    <2> QED BY <2>5, <2>6
  <1> HIDE DEF D, T, rank
  <1>9. \A p \in D : p \in T
    BY <1>2, <1>8, RankInduction
  <1> USE DEF D, T
  <1> QED BY <1>9

\* What put_value stores behind a content that can be read to its end can be
\* read to its end, and delivers the values of the content and then its own.
THEOREM AppendReadable ==
  ASSUME NEW content \in Seq(Bytes), Readable(content), NEW v \in Storable
  PROVE  /\ content \o Entry(v) \in Seq(Bytes)
         /\ content \o Entry(v) # <<>>
         /\ Readable(content \o Entry(v))
         /\ ValuesIn(content) \in Seq(Seq(Bytes))
         /\ ValuesIn(content \o Entry(v)) = Append(ValuesIn(content), v)
  <1> DEFINE file == content \o Entry(v)
  <1>1. v \in Seq(Bytes) /\ Len(v) \in Nat /\ Len(v) >= 1
    BY StorableValue
  <1>2. /\ file \in Seq(Bytes) /\ Len(file) = Len(content) + HeaderLen + Len(v)
        /\ Len(content) \in 0..Len(file) - HeaderLen
        /\ ~Malformed(file, Len(content))
        /\ EndOf(file, Len(content)) = Len(file)
        /\ ValueAt(file, Len(content)) = v
    BY EntryAtEnd
  <1>3. Len(content) \in Nat
    OBVIOUS
  <1>4. file # <<>> /\ Len(file) > HeaderLen
    BY <1>1, <1>2, <1>3 DEF HeaderLen
  <1>5. DeliverAll(file) = EntriesFrom(file)[0]
    BY <1>2, <1>3, <1>4 DEF DeliverAll, HeaderLen
  <1>6. ValuesIn(content) \in Seq(Seq(Bytes))
    BY DeliverAllType DEF ValuesIn, Deliveries
  <1>7. EntriesFrom(file)[0] = [vals |-> ValuesIn(content) \o <<v>>, bad |-> FALSE]
    <2>1. CASE content = <<>>
      <3>1. Len(content) = 0 /\ ValuesIn(content) = <<>>
        BY <2>1 DEF ValuesIn, DeliverAll
      <3>2. EntriesFrom(file)[0] = [vals |-> <<v>>, bad |-> FALSE]
        BY <1>2, <1>4, <3>1, EntriesDefined
      <3> QED BY <1>1, <3>1, <3>2
    <2>2. CASE content # <<>>
      <3>1. /\ Len(content) > HeaderLen /\ 0 \in 0..Len(content) - HeaderLen
            /\ ~EntriesFrom(content)[0].bad
            /\ ValuesIn(content) = EntriesFrom(content)[0].vals
        BY <2>2, ReadableContent
      <3>2. EntriesFrom(file)[0] =
               [vals |-> EntriesFrom(content)[0].vals \o <<v>>, bad |-> FALSE]
        BY <3>1, EntryBehind
      <3> QED BY <3>1, <3>2
    <2> QED BY <2>1, <2>2
  <1>8. Readable(file) /\ ValuesIn(file) = ValuesIn(content) \o <<v>>
    BY <1>5, <1>7 DEF Readable, ValuesIn
  <1>9. ValuesIn(content) \o <<v>> = Append(ValuesIn(content), v)
    BY <1>1, <1>6
  <1> QED BY <1>2, <1>4, <1>6, <1>8, <1>9

-----------------------------------------------------------------------------
(* A callback that stops get_values.                                       *)

LEMMA Prefix ==
  ASSUME NEW s \in Seq(Seq(Bytes)), NEW k \in Nat, k <= Len(s)
  PROVE  /\ SubSeq(s, 1, k) \in Seq(Seq(Bytes))
         /\ Len(SubSeq(s, 1, k)) = k
         /\ \A i \in 1..k : SubSeq(s, 1, k)[i] = s[i]
  <1>1. Len(SubSeq(s, 1, k)) = k /\ SubSeq(s, 1, k) \in Seq(Seq(Bytes))
    OBVIOUS
  <1>2. ASSUME NEW i \in 1..k PROVE SubSeq(s, 1, k)[i] = s[i]
    OBVIOUS
  <1> QED BY <1>1, <1>2

LEMMA WholePrefix ==
  ASSUME NEW s \in Seq(Seq(Bytes))
  PROVE  s = SubSeq(s, 1, Len(s))
  <1> DEFINE t == SubSeq(s, 1, Len(s))
  <1>1. /\ t \in Seq(Seq(Bytes)) /\ Len(t) = Len(s)
        /\ \A i \in 1..Len(s) : t[i] = s[i]
    BY Prefix
  <1> HIDE DEF t
  <1>2. s = t
    BY <1>1, SeqEqual
  <1> QED BY <1>2 DEF t

\* What is delivered is the first values, or all, of those that a callback that
\* never stops is given.
LEMMA DeliverIsPrefix ==
  ASSUME NEW buf \in Seq(Bytes), NEW limit \in Nat, limit >= 1
  PROVE  /\ Deliver(buf, limit) \in Deliveries
         /\ Len(Deliver(buf, limit).vals) \in 0..Len(ValuesIn(buf))
         /\ Deliver(buf, limit).vals =
              SubSeq(ValuesIn(buf), 1, Len(Deliver(buf, limit).vals))
         /\ Len(Deliver(buf, limit).vals) = 0 => ValuesIn(buf) = <<>>
         /\ Readable(buf) => ~Deliver(buf, limit).bad
  <1> DEFINE all == DeliverAll(buf)
             d == Deliver(buf, limit)
             k == Len(d.vals)
  <1>1. all \in Deliveries /\ all.vals \in Seq(Seq(Bytes)) /\ ValuesIn(buf) = all.vals
    BY DeliverAllType DEF ValuesIn, Deliveries
  <1>2. Readable(buf) => ~all.bad
    BY DEF Readable
  <1>3. d = IF Len(all.vals) >= limit
            THEN [vals |-> SubSeq(all.vals, 1, limit), bad |-> FALSE]
            ELSE all
    BY DEF Deliver
  <1> HIDE DEF all, d
  <1>4. CASE Len(all.vals) >= limit
    <2>1. SubSeq(all.vals, 1, limit) \in Seq(Seq(Bytes)) /\ Len(SubSeq(all.vals, 1, limit)) = limit
      BY <1>1, <1>4, Prefix
    <2>2. d.vals = SubSeq(all.vals, 1, limit) /\ d.bad = FALSE /\ k = limit
      BY <1>3, <1>4, <2>1
    <2>3. d \in Deliveries
      BY <1>3, <1>4, <2>1 DEF Deliveries
    <2> QED BY <1>1, <1>4, <2>2, <2>3 DEF d
  <1>5. CASE ~(Len(all.vals) >= limit)
    <2>1. d = all
      BY <1>3, <1>5
    <2>2. Len(all.vals) \in Nat /\ all.vals = SubSeq(all.vals, 1, Len(all.vals))
      BY <1>1, WholePrefix
    <2>3. Len(all.vals) = 0 => all.vals = <<>>
      BY <1>1
    <2> QED BY <1>1, <1>2, <2>1, <2>2, <2>3 DEF d
  <1> QED BY <1>4, <1>5

-----------------------------------------------------------------------------
(* The encoding of a sequence of values.                                   *)

Encodes(vals, f) ==
    /\ f \in [0..Len(vals) -> Seq(Bytes)]
    /\ f[0] = <<>>
    /\ \A n \in 1..Len(vals) : f[n] = f[n - 1] \o Entry(vals[n])

LEMMA EncodeDefined ==
  ASSUME NEW vals \in Seq(Short)
  PROVE  \E f : Encodes(vals, f) /\ Encode(vals) = f[Len(vals)]
  <1> DEFINE D == 0..Len(vals)
             rank == [n \in D |-> n]
             next == [n \in D |-> n - 1]
             base == [n \in D |-> <<>>]
             step == [x \in D \X Seq(Bytes) |->
                        IF x[1] = 0 THEN <<>> ELSE x[2] \o Entry(vals[x[1]])]
             Is(f) == f = [n \in D |-> IF n = 0 THEN <<>> ELSE f[n - 1] \o Entry(vals[n])]
  <1>1. Len(vals) \in Nat /\ \A n \in D : n \in Nat /\ (n # 0 => n - 1 \in D)
    OBVIOUS
  <1>2. rank \in [D -> Nat]
    BY <1>1
  <1>3. base \in [D -> Seq(Bytes)]
    OBVIOUS
  <1>4. \A n \in D : n # 0 => Entry(vals[n]) \in Seq(Bytes)
    <2>1. \A n \in D : n # 0 => vals[n] \in Short
      BY <1>1
    <2> QED BY <2>1, ShortEntry
  <1>5. step \in [D \X Seq(Bytes) -> Seq(Bytes)]
    <2>1. ASSUME NEW n \in D, NEW s \in Seq(Bytes) PROVE step[<<n, s>>] \in Seq(Bytes)
      <3>1. CASE n = 0
        BY <3>1
      <3>2. CASE n # 0
        <4>1. Entry(vals[n]) \in Seq(Bytes)
          BY <1>4, <3>2
        <4>2. step[<<n, s>>] = s \o Entry(vals[n])
          BY <3>2
        <4> QED BY <4>1, <4>2
      <3> QED BY <3>1, <3>2
    <2> QED BY <2>1
  <1>6. \A n \in D : next[n] \in D => rank[next[n]] < rank[n]
    BY <1>1
  <1> HIDE DEF D, rank, next, base, step
  <1>f. PICK f : Computes(D, next, Seq(Bytes), base, step, f)
    BY <1>2, <1>3, <1>5, <1>6, Recursion
  <1>7. /\ f \in [D -> Seq(Bytes)]
        /\ \A n \in D : f[n] = IF next[n] \in D THEN step[<<n, f[next[n]]>>] ELSE base[n]
    BY <1>f DEF Computes, Value
  <1>8. \A n \in D : f[n] = IF n = 0 THEN <<>> ELSE f[n - 1] \o Entry(vals[n])
    <2> SUFFICES ASSUME NEW n \in D
                 PROVE  f[n] = IF n = 0 THEN <<>> ELSE f[n - 1] \o Entry(vals[n])
      OBVIOUS
    <2>1. CASE n = 0
      <3>1. next[n] \notin D
        BY <2>1 DEF next, D
      <3> QED BY <1>7, <2>1, <3>1 DEF base
    <2>2. CASE n # 0
      <3>1. next[n] = n - 1 /\ n - 1 \in D
        BY <1>1, <2>2 DEF next
      <3>2. f[n] = step[<<n, f[n - 1]>>] /\ f[n - 1] \in Seq(Bytes)
        BY <1>7, <3>1
      <3> QED BY <2>2, <3>2 DEF step
    <2> QED BY <2>1, <2>2
  <1>9. Is(f)
    BY <1>7, <1>8, Zenon
  <1> DEFINE g == CHOOSE h : Is(h)
  <1>10. Is(g)
    BY <1>9, Zenon
  <1>11. Encode(vals) = g[Len(vals)]
    BY DEF Encode, D
  <1> HIDE DEF g
  <1>12. \A n \in Nat : n \in {m \in Nat : m \in D => g[m] = f[m]}
    <2> DEFINE T == {m \in Nat : m \in D => g[m] = f[m]}
    <2>1. 0 \in T
      BY <1>9, <1>10
    <2>2. ASSUME NEW n \in Nat, n \in T PROVE n + 1 \in T
      <3> SUFFICES ASSUME n + 1 \in D PROVE g[n + 1] = f[n + 1]
        OBVIOUS
      <3>1. n \in D /\ n + 1 # 0 /\ (n + 1) - 1 = n
        BY <1>1 DEF D
      <3>2. g[n] = f[n]
        BY <2>2, <3>1
      <3>3. g[n + 1] = g[n] \o Entry(vals[n + 1]) /\ f[n + 1] = f[n] \o Entry(vals[n + 1])
        BY <1>9, <1>10, <3>1
      <3> QED BY <3>2, <3>3
    <2> HIDE DEF T
    <2>3. \A n \in Nat : n \in T
      BY <2>1, <2>2, Induction
    <2> QED BY <2>3 DEF T
  <1>13. Encode(vals) = f[Len(vals)]
    BY <1>1, <1>11, <1>12 DEF D
  <1>14. Encodes(vals, f)
    <2>1. 0 \in D /\ \A n \in 1..Len(vals) : n \in D /\ n # 0
      BY <1>1 DEF D
    <2>2. f[0] = <<>> /\ \A n \in 1..Len(vals) : f[n] = f[n - 1] \o Entry(vals[n])
      BY <1>8, <2>1
    <2> QED BY <1>7, <2>2 DEF Encodes, D
  <1> QED BY <1>13, <1>14

\* The first n values, written one after the other, are what is delivered.
LEMMA WrittenIsDelivered ==
  ASSUME NEW vals \in Seq(Storable), NEW f, Encodes(vals, f)
  PROVE  \A n \in 0..Len(vals) :
           /\ f[n] \in Seq(Bytes)
           /\ Readable(f[n])
           /\ ValuesIn(f[n]) = SubSeq(vals, 1, n)
  <1> DEFINE T == {n \in Nat : n <= Len(vals) =>
                     Readable(f[n]) /\ ValuesIn(f[n]) = SubSeq(vals, 1, n)}
  <1>1. Len(vals) \in Nat /\ vals \in Seq(Seq(Bytes))
    <2>1. Storable \subseteq Seq(Bytes)
      BY DEF Storable
    <2> QED BY <2>1, SeqMonotonic
  <1>2. 0 \in T
    <2>1. f[0] = <<>> /\ SubSeq(vals, 1, 0) = <<>>
      BY DEF Encodes
    <2>2. Readable(<<>>) /\ ValuesIn(<<>>) = <<>>
      BY DEF Readable, ValuesIn, DeliverAll
    <2> QED BY <2>1, <2>2
  <1>3. ASSUME NEW n \in Nat, n \in T PROVE n + 1 \in T
    <2> SUFFICES ASSUME n + 1 <= Len(vals)
                 PROVE  Readable(f[n + 1]) /\ ValuesIn(f[n + 1]) = SubSeq(vals, 1, n + 1)
      OBVIOUS
    <2>1. n <= Len(vals) /\ n \in 0..Len(vals) /\ n + 1 \in 1..Len(vals) /\ (n + 1) - 1 = n
      BY <1>1
    <2>2. Readable(f[n]) /\ ValuesIn(f[n]) = SubSeq(vals, 1, n)
      BY <1>3, <2>1
    <2>3. f[n + 1] = f[n] \o Entry(vals[n + 1]) /\ f[n] \in Seq(Bytes)
      <3>1. f[n + 1] = f[(n + 1) - 1] \o Entry(vals[n + 1]) /\ f[n] \in Seq(Bytes)
        BY <2>1 DEF Encodes
      <3> QED BY <2>1, <3>1
    <2>4. vals[n + 1] \in Storable
      BY <2>1
    <2>5. /\ Readable(f[n + 1])
          /\ ValuesIn(f[n + 1]) = Append(SubSeq(vals, 1, n), vals[n + 1])
      BY <2>2, <2>3, <2>4, AppendReadable
    <2>6. Append(SubSeq(vals, 1, n), vals[n + 1]) = SubSeq(vals, 1, n + 1)
      <3> DEFINE s == SubSeq(vals, 1, n)
                 t == SubSeq(vals, 1, n + 1)
      <3>1. s \in Seq(Seq(Bytes)) /\ Len(s) = n /\ \A i \in 1..n : s[i] = vals[i]
        BY <1>1, <2>1, Prefix
      <3>2. t \in Seq(Seq(Bytes)) /\ Len(t) = n + 1 /\ \A i \in 1..n + 1 : t[i] = vals[i]
        BY <1>1, <2>1, Prefix
      <3>3. vals[n + 1] \in Seq(Bytes)
        BY <2>4 DEF Storable
      <3> HIDE DEF s, t
      <3> DEFINE a == Append(s, vals[n + 1])
      <3>4. /\ a \in Seq(Seq(Bytes)) /\ Len(a) = n + 1
            /\ \A i \in 1..n : a[i] = s[i]
            /\ a[n + 1] = vals[n + 1]
        BY <3>1, <3>3
      <3> HIDE DEF a
      <3>5. \A i \in 1..n + 1 : a[i] = t[i]
        <4> SUFFICES ASSUME NEW i \in 1..n + 1 PROVE a[i] = t[i]
          OBVIOUS
        <4>1. i \in 1..n \/ i = n + 1
          OBVIOUS
        <4> QED BY <4>1, <3>1, <3>2, <3>4
      <3>6. a = t
        BY <3>2, <3>4, <3>5, SeqEqual
      <3> QED BY <3>6 DEF a, s, t
    <2> QED BY <2>5, <2>6
  <1> HIDE DEF T
  <1>4. \A n \in Nat : n \in T
    BY <1>2, <1>3, Induction
  <1> USE DEF T
  <1>5. \A n \in 0..Len(vals) : n \in Nat /\ n <= Len(vals)
    BY <1>1
  <1> QED BY <1>4, <1>5 DEF Encodes

\* The values that clients stored, in any number, are what get_values delivers:
\* all of them, in order, or the first ones when the callback stops.
THEOREM AlwaysReadsBack ==
  ASSUME NEW vals \in Seq(Storable)
  PROVE  ReadsBack(vals)
  <1>1. Len(vals) \in Nat /\ vals \in Seq(Seq(Bytes)) /\ vals \in Seq(Short)
    <2>1. Storable \subseteq Seq(Bytes) /\ Storable \subseteq Short
      BY LimitIsPositive DEF Storable, Short
    <2> QED BY <2>1, SeqMonotonic
  <1>2. PICK f : Encodes(vals, f) /\ Encode(vals) = f[Len(vals)]
    BY <1>1, EncodeDefined
  <1> DEFINE buf == Encode(vals)
             all == DeliverAll(buf)
  <1>3. buf \in Seq(Bytes) /\ Readable(buf) /\ ValuesIn(buf) = SubSeq(vals, 1, Len(vals))
    BY <1>1, <1>2, WrittenIsDelivered
  <1>4. SubSeq(vals, 1, Len(vals)) = vals
    BY <1>1, WholePrefix
  <1> HIDE DEF buf
  <1>5. all \in Deliveries /\ all.vals = vals /\ all.bad = FALSE
    BY <1>3, <1>4, DeliverAllType DEF Readable, ValuesIn, Deliveries
  <1>6. all = [vals |-> vals, bad |-> FALSE]
    BY <1>5 DEF Deliveries
  <1> HIDE DEF all
  <1>7. ASSUME NEW n \in 1..Len(vals)
        PROVE  Deliver(buf, n) = [vals |-> SubSeq(vals, 1, n), bad |-> FALSE]
    <2>1. Deliver(buf, n) = IF Len(all.vals) >= n
                            THEN [vals |-> SubSeq(all.vals, 1, n), bad |-> FALSE]
                            ELSE all
      BY DEF Deliver, all
    <2>2. Len(vals) >= n
      BY <1>1
    <2> QED BY <1>5, <2>1, <2>2
  <1> QED BY <1>6, <1>7 DEF ReadsBack, buf, all

LEMMA Regrouped ==
  ASSUME NEW a \in Seq(Bytes), NEW b \in Seq(Bytes), NEW c \in Seq(Bytes)
  PROVE  (a \o b) \o c = a \o (b \o c)
  BY ConcatAssociative

\* Writing one more value first writes its entry first.
LEMMA EncodeFirst ==
  ASSUME NEW v \in Short, NEW vals \in Seq(Short)
  PROVE  /\ <<v>> \o vals \in Seq(Short)
         /\ Encode(vals) \in Seq(Bytes)
         /\ Encode(<<v>> \o vals) = Entry(v) \o Encode(vals)
  <1> DEFINE more == <<v>> \o vals
             k == Len(vals)
  <1>1. /\ k \in Nat /\ more \in Seq(Short) /\ Len(more) = k + 1
        /\ more[1] = v /\ \A n \in 1..k : more[n + 1] = vals[n]
    OBVIOUS
  <1>2. PICK f : Encodes(vals, f) /\ Encode(vals) = f[k]
    BY EncodeDefined
  <1>3. PICK g : Encodes(more, g) /\ Encode(more) = g[Len(more)]
    BY <1>1, EncodeDefined
  <1>4. Entry(v) \in Seq(Bytes) /\ <<>> \o Entry(v) = Entry(v) /\ Entry(v) \o <<>> = Entry(v)
    <2>1. Entry(v) \in Seq(Bytes)
      BY ShortEntry
    <2> QED BY <2>1
  <1> DEFINE T == {n \in Nat : n <= k => g[n + 1] = Entry(v) \o f[n]}
  <1> HIDE DEF more
  <1>5. 0 \in T
    <2>1. g[1] = g[0] \o Entry(more[1]) /\ g[0] = <<>> /\ f[0] = <<>>
      <3>1. 1 \in 1..Len(more) /\ 1 - 1 = 0
        BY <1>1
      <3> QED BY <1>2, <1>3, <3>1 DEF Encodes
    <2> QED BY <1>1, <1>4, <2>1
  <1>6. ASSUME NEW n \in Nat, n \in T PROVE n + 1 \in T
    <2> SUFFICES ASSUME n + 1 <= k PROVE g[n + 2] = Entry(v) \o f[n + 1]
      OBVIOUS
    <2>1. /\ n <= k /\ n \in 0..k /\ n + 1 \in 1..k /\ (n + 1) - 1 = n
          /\ n + 2 \in 1..Len(more) /\ (n + 2) - 1 = n + 1 /\ (n + 1) + 1 = n + 2
      BY <1>1
    <2>2. g[n + 1] = Entry(v) \o f[n]
      BY <1>6, <2>1
    <2>3. f[n + 1] = f[(n + 1) - 1] \o Entry(vals[n + 1]) /\ f[n] \in Seq(Bytes)
      BY <1>2, <2>1 DEF Encodes
    <2>4. g[n + 2] = g[(n + 2) - 1] \o Entry(more[n + 2])
      BY <1>3, <2>1 DEF Encodes
    <2>5. more[n + 2] = vals[n + 1] /\ vals[n + 1] \in Short
      BY <1>1, <2>1
    <2>6. Entry(vals[n + 1]) \in Seq(Bytes)
      BY <2>5, ShortEntry
    <2>7. g[n + 2] = (Entry(v) \o f[n]) \o Entry(vals[n + 1])
      BY <2>1, <2>2, <2>4, <2>5
    <2>8. f[n + 1] = f[n] \o Entry(vals[n + 1])
      BY <2>1, <2>3
    <2>9. (Entry(v) \o f[n]) \o Entry(vals[n + 1]) = Entry(v) \o (f[n] \o Entry(vals[n + 1]))
      BY <1>4, <2>3, <2>6, Regrouped
    <2> QED BY <2>7, <2>8, <2>9
  <1> HIDE DEF T
  <1>7. \A n \in Nat : n \in T
    BY <1>5, <1>6, Induction
  <1> USE DEF T
  <1>8. g[k + 1] = Entry(v) \o f[k]
    BY <1>1, <1>7
  <1>9. f[k] \in Seq(Bytes)
    BY <1>1, <1>2 DEF Encodes
  <1> QED BY <1>1, <1>2, <1>3, <1>8, <1>9 DEF more

LEMMA EncodeNothing ==
  Encode(<<>>) = <<>>
  <1>1. <<>> \in Seq(Short) /\ Len(<<>>) = 0
    OBVIOUS
  <1>2. PICK f : Encodes(<<>>, f) /\ Encode(<<>>) = f[Len(<<>>)]
    BY <1>1, EncodeDefined
  <1> QED BY <1>1, <1>2 DEF Encodes

-----------------------------------------------------------------------------
(* A content that get_values accepts.                                      *)

LEMMA LengthFromHeader ==
  ASSUME NEW b1 \in Bytes, NEW b2 \in Bytes, NEW b3 \in Bytes, NEW b4 \in Bytes,
         NEW n, n = Byte3 * b1 + Byte2 * b2 + 256 * b3 + b4, n < Byte2
  PROVE  /\ n \in Nat
         /\ b1 = 0 /\ b2 = 0
         /\ b3 = (n \div 256) % 256 /\ b4 = n % 256
  <1>1. /\ b1 \in Nat /\ b2 \in Nat /\ b3 \in Nat /\ b4 \in Nat
        /\ b3 <= 255 /\ b4 <= 255
    BY DEF Bytes
  <1>2. n \in Nat
    BY WeightedBytes
  <1>3. b1 = 0 /\ b2 = 0 /\ n = 256 * b3 + b4
    BY <1>1, SMTT(30) DEF Byte2, Byte3
  <1>4. n \div 256 = b3 /\ n % 256 = b4
    BY <1>1, <1>2, <1>3
  <1>5. b3 % 256 = b3
    BY <1>1
  <1> QED BY <1>2, <1>3, <1>4, <1>5

\* The entry of a value that is delivered lies in the content.
LEMMA DeliveredEntry ==
  ASSUME NEW buf \in Seq(Bytes), NEW p \in 0..Len(buf) - HeaderLen, ~Malformed(buf, p)
  PROVE  /\ ValueAt(buf, p) \in Short
         /\ Len(ValueAt(buf, p)) = EndOf(buf, p) - (p + HeaderLen)
         /\ Entry(ValueAt(buf, p)) = SubSeq(buf, p + 1, EndOf(buf, p))
  <1> DEFINE m == ValLen(buf, p)
             end == EndOf(buf, p)
             val == ValueAt(buf, p)
             s == SubSeq(buf, p + 1, end)
  <1>1. /\ m \in Nat /\ end \in Nat /\ end = p + 4 + m /\ m <= MaxValueLen
        /\ end <= Len(buf) /\ p \in Nat /\ Len(buf) \in Nat
    BY HeaderIsThere, LimitIsPositive DEF Malformed, EndOf, HeaderLen
  <1>2. m < Byte2
    <2> HIDE DEF m
    <2> QED BY <1>1, ShortLength
  <1>3. val \in Seq(Bytes) /\ Len(val) = m /\ \A i \in 1..m : val[i] = buf[p + 4 + i]
    <2> HIDE DEF m, end
    <2> DEFINE a == p + 5
    <2>1. a \in Nat /\ a >= 1 /\ a <= end + 1 /\ end - a + 1 = m
      BY <1>1
    <2>2. val = SubSeq(buf, a, end)
      BY <1>1 DEF ValueAt, HeaderLen, end
    <2>3. \A i \in 1..m : a + i - 1 = p + 4 + i
      BY <1>1
    <2> HIDE DEF a, val
    <2>4. /\ SubSeq(buf, a, end) \in Seq(Bytes) /\ Len(SubSeq(buf, a, end)) = m
          /\ \A i \in 1..m : SubSeq(buf, a, end)[i] = buf[a + i - 1]
      BY <1>1, <2>1, Slice
    <2> QED BY <2>2, <2>3, <2>4
  <1>4. s \in Seq(Bytes) /\ Len(s) = 4 + m /\ \A i \in 1..4 + m : s[i] = buf[p + i]
    <2> HIDE DEF m, end
    <2> DEFINE a == p + 1
    <2>1. a \in Nat /\ a >= 1 /\ a <= end + 1 /\ end - a + 1 = 4 + m
      BY <1>1
    <2>2. \A i \in 1..4 + m : a + i - 1 = p + i
      BY <1>1
    <2> HIDE DEF a
    <2>3. /\ SubSeq(buf, a, end) \in Seq(Bytes) /\ Len(SubSeq(buf, a, end)) = 4 + m
          /\ \A i \in 1..4 + m : SubSeq(buf, a, end)[i] = buf[a + i - 1]
      BY <1>1, <2>1, Slice
    <2> QED BY <2>2, <2>3 DEF a
  <1>5. val \in Short
    BY <1>1, <1>3 DEF Short
  <1>6. /\ Entry(val) = <<0, 0, (m \div 256) % 256, (m % 256)>> \o val
        /\ Entry(val) \in Seq(Bytes) /\ Len(Entry(val)) = 4 + m
    <2>1. /\ Entry(val) = <<0, 0, (Len(val) \div 256) % 256, (Len(val) % 256)>> \o val
          /\ Entry(val) \in Seq(Bytes) /\ Len(Entry(val)) = HeaderLen + Len(val)
      BY <1>5, ShortEntry, Zenon
    <2> HIDE DEF m, val
    <2> QED BY <1>3, <2>1 DEF HeaderLen
  <1>7. /\ buf[p + 1] = 0 /\ buf[p + 2] = 0
        /\ buf[p + 3] = (m \div 256) % 256 /\ buf[p + 4] = m % 256
    <2>1. buf[p + 1] \in Bytes /\ buf[p + 2] \in Bytes /\ buf[p + 3] \in Bytes /\ buf[p + 4] \in Bytes
      BY HeaderIsThere
    <2>2. m = Byte3 * buf[p + 1] + Byte2 * buf[p + 2] + 256 * buf[p + 3] + buf[p + 4]
      BY DEF ValLen
    <2> HIDE DEF m
    <2> DEFINE b1 == buf[p + 1]
               b2 == buf[p + 2]
               b3 == buf[p + 3]
               b4 == buf[p + 4]
    <2>3. /\ b1 \in Bytes /\ b2 \in Bytes /\ b3 \in Bytes /\ b4 \in Bytes
          /\ m = Byte3 * b1 + Byte2 * b2 + 256 * b3 + b4
      BY <2>1, <2>2
    <2> HIDE DEF b1, b2, b3, b4
    <2>4. b1 = 0 /\ b2 = 0 /\ b3 = (m \div 256) % 256 /\ b4 = m % 256
      BY <1>2, <2>3, LengthFromHeader
    <2> QED BY <2>4 DEF b1, b2, b3, b4
  <1> HIDE DEF m, end, val, s
  <1>8. \A i \in 1..4 + m : Entry(val)[i] = s[i]
    <2>1. /\ Entry(val)[1] = 0 /\ Entry(val)[2] = 0
          /\ Entry(val)[3] = (m \div 256) % 256 /\ Entry(val)[4] = m % 256
          /\ \A i \in 1..m : Entry(val)[4 + i] = val[i]
      <3>1. 0 \in Bytes /\ (m \div 256) % 256 \in Bytes /\ (m % 256) \in Bytes
        BY <1>1, <1>2, HeaderOfLength DEF Bytes
      <3> QED BY <1>3, <1>6, <3>1, BehindFourBytes
    <2>2. \A i \in 1..m : Entry(val)[4 + i] = val[i]
      BY <2>1
    <2>3. ASSUME NEW i \in 1..4 + m PROVE Entry(val)[i] = s[i]
      <3>1. s[i] = buf[p + i]
        BY <1>4
      <3>2. CASE i \in 1..4
        <4>1. i = 1 \/ i = 2 \/ i = 3 \/ i = 4
          BY <3>2
        <4>2. /\ s[1] = Entry(val)[1] /\ s[2] = Entry(val)[2]
              /\ s[3] = Entry(val)[3] /\ s[4] = Entry(val)[4]
          <5>1. 1 \in 1..4 + m /\ 2 \in 1..4 + m /\ 3 \in 1..4 + m /\ 4 \in 1..4 + m
            BY <1>1
          <5> QED BY <1>4, <1>7, <2>1, <5>1
        <4> QED BY <4>1, <4>2
      <3>3. CASE i \notin 1..4
        <4>1. i - 4 \in 1..m /\ 4 + (i - 4) = i /\ p + 4 + (i - 4) = p + i
          BY <1>1, <3>3
        <4>2. Entry(val)[i] = val[i - 4] /\ val[i - 4] = buf[p + i]
          BY <1>3, <2>2, <4>1
        <4> QED BY <3>1, <4>2
      <3> QED BY <3>2, <3>3
    <2> QED BY <2>3
  <1>9. Entry(val) = s
    <2>1. Len(Entry(val)) = Len(s) /\ \A i \in 1..Len(s) : Entry(val)[i] = s[i]
      BY <1>4, <1>6, <1>8
    <2> QED BY <1>4, <1>6, <2>1, SeqEqual
  <1>10. Len(val) = end - (p + HeaderLen)
    BY <1>1, <1>3 DEF HeaderLen
  <1> QED BY <1>5, <1>9, <1>10 DEF val, end, s

LEMMA Joined ==
  ASSUME NEW s \in Seq(Bytes), NEW a \in Nat, NEW b \in Nat, a >= 1, a <= b + 1, b <= Len(s)
  PROVE  SubSeq(s, a, b) \o SubSeq(s, b + 1, Len(s)) = SubSeq(s, a, Len(s))
  <1> DEFINE n == Len(s)
             x == SubSeq(s, a, b)
             y == SubSeq(s, b + 1, n)
             z == SubSeq(s, a, n)
             w == x \o y
  <1>1. n \in Nat /\ b + 1 \in Nat /\ b + 1 >= 1 /\ b + 1 <= n + 1 /\ a <= n + 1
    OBVIOUS
  <1>2. x \in Seq(Bytes) /\ Len(x) = b - a + 1 /\ \A i \in 1..b - a + 1 : x[i] = s[a + i - 1]
    BY Slice
  <1>3. /\ y \in Seq(Bytes) /\ Len(y) = n - (b + 1) + 1
        /\ \A i \in 1..n - (b + 1) + 1 : y[i] = s[(b + 1) + i - 1]
    BY <1>1, Slice
  <1>4. z \in Seq(Bytes) /\ Len(z) = n - a + 1 /\ \A i \in 1..n - a + 1 : z[i] = s[a + i - 1]
    BY <1>1, Slice
  <1> HIDE DEF n, x, y, z
  <1>5. /\ w \in Seq(Bytes) /\ Len(w) = Len(x) + Len(y)
        /\ \A i \in 1..Len(x) + Len(y) : w[i] = IF i <= Len(x) THEN x[i] ELSE y[i - Len(x)]
    BY <1>2, <1>3, ConcatProperties
  <1> HIDE DEF w
  <1>6. Len(w) = n - a + 1
    BY <1>1, <1>2, <1>3, <1>5
  <1>7. ASSUME NEW i \in 1..n - a + 1 PROVE w[i] = z[i]
    <2>1. i \in 1..Len(x) + Len(y)
      BY <1>1, <1>2, <1>3
    <2>2. CASE i <= Len(x)
      <3>1. i \in 1..b - a + 1
        BY <1>1, <1>2, <2>2
      <3> QED BY <1>2, <1>4, <1>5, <2>1, <2>2, <3>1
    <2>3. CASE ~(i <= Len(x))
      <3>1. /\ i - Len(x) \in 1..n - (b + 1) + 1
            /\ (b + 1) + (i - Len(x)) - 1 = a + i - 1
        BY <1>1, <1>2, <2>3
      <3> QED BY <1>3, <1>4, <1>5, <2>1, <2>3, <3>1
    <2> QED BY <2>2, <2>3
  <1>8. w = z
    BY <1>4, <1>5, <1>6, <1>7, SeqEqual
  <1> QED BY <1>8 DEF w, x, y, z, n

\* What is delivered from an offset on is what the rest of the content encodes.
Restored(buf, p, d) ==
    /\ d.vals \in Seq(Short) /\ d.vals # <<>>
    /\ d.vals[Len(d.vals)] # <<>>
    /\ Encode(d.vals) = SubSeq(buf, p + 1, Len(buf))

LEMMA RestRestored ==
  ASSUME NEW buf \in Seq(Bytes), Len(buf) > HeaderLen
  PROVE  \A p \in 0..Len(buf) - HeaderLen :
            Len(buf) - p > HeaderLen /\ ~EntriesFrom(buf)[p].bad
              => Restored(buf, p, EntriesFrom(buf)[p])
  <1> DEFINE D == 0..Len(buf) - HeaderLen
             f == EntriesFrom(buf)
             rank == [p \in D |-> Len(buf) - p]
             T == {p \in D : Len(buf) - p > HeaderLen /\ ~f[p].bad
                               => Restored(buf, p, f[p])}
  <1>1. Len(buf) \in Nat /\ rank \in [D -> Nat]
    BY DEF HeaderLen
  <1>2. ASSUME NEW p \in D, \A q \in D : rank[q] < rank[p] => q \in T
        PROVE  p \in T
    <2> SUFFICES ASSUME Len(buf) - p > HeaderLen, ~f[p].bad PROVE Restored(buf, p, f[p])
      OBVIOUS
    <2> DEFINE end == EndOf(buf, p)
               val == ValueAt(buf, p)
    <2>1. /\ ~Malformed(buf, p)
          /\ end \in Nat /\ end >= p + HeaderLen /\ end <= Len(buf)
          /\ end = Len(buf) => f[p].vals = <<val>>
          /\ end # Len(buf) =>
               /\ end \in D /\ ~f[end].bad
               /\ f[p].vals = <<val>> \o f[end].vals
      BY ReadableRest
    <2>2. val \in Short /\ Len(val) = end - (p + HeaderLen)
          /\ Entry(val) = SubSeq(buf, p + 1, end)
      BY <2>1, DeliveredEntry
    <2>3. /\ p + 1 \in Nat /\ p + 1 >= 1 /\ p + 1 <= end + 1 /\ end <= Len(buf)
      BY <2>1 DEF HeaderLen
    <2> HIDE DEF f, end, val
    <2>4. CASE end = Len(buf)
      <3>1. f[p].vals = <<val>> /\ <<val>> = <<val>> \o <<>> /\ <<>> \in Seq(Short)
        BY <2>1, <2>2, <2>4
      <3>2. Encode(<<val>>) = Entry(val) \o <<>>
        BY <2>2, <3>1, EncodeFirst, EncodeNothing
      <3>3. Entry(val) \in Seq(Bytes)
        BY <2>2, ShortEntry
      <3>4. Entry(val) \o <<>> = Entry(val)
        BY <3>3
      <3>5. val # <<>>
        <4>1. Len(val) >= 1
          BY <1>1, <2>2, <2>4 DEF HeaderLen
        <4>2. Len(<<>>) = 0
          OBVIOUS
        <4> QED BY <4>1, <4>2
      <3>6. Len(<<val>>) = 1 /\ <<val>>[1] = val /\ <<val>> \in Seq(Short) /\ <<val>> # <<>>
        BY <2>2
      <3> QED BY <2>2, <2>4, <3>1, <3>2, <3>4, <3>5, <3>6 DEF Restored
    <2>5. CASE end # Len(buf)
      <3>1. end \in D /\ ~f[end].bad /\ f[p].vals = <<val>> \o f[end].vals
        BY <2>1, <2>5
      <3>2. Len(buf) - end > HeaderLen
        <4>1. RestFits(Len(buf) - end)
          BY <2>1 DEF Malformed, end
        <4> QED BY <1>1, <2>1, <2>5, <4>1 DEF RestFits, HeaderLen
      <3>3. rank[end] < rank[p]
        <4>1. Len(buf) - end < Len(buf) - p
          BY <1>1, <2>1 DEF HeaderLen
        <4> QED BY <3>1, <4>1
      <3>4. Restored(buf, end, f[end])
        BY <1>2, <3>1, <3>2, <3>3
      <3> DEFINE rest == f[end].vals
                 more == <<val>> \o rest
      <3>5. /\ rest \in Seq(Short) /\ rest # <<>> /\ rest[Len(rest)] # <<>>
            /\ Encode(rest) = SubSeq(buf, end + 1, Len(buf))
        BY <3>4 DEF Restored
      <3> HIDE DEF rest
      <3>6. more \in Seq(Short) /\ Encode(more) = Entry(val) \o Encode(rest)
        BY <2>2, <3>5, EncodeFirst
      <3>7. Encode(more) = SubSeq(buf, p + 1, Len(buf))
        BY <2>2, <2>1, <2>3, <3>5, <3>6, Joined
      <3>8. Len(rest) \in Nat /\ Len(rest) >= 1 /\ Len(more) = Len(rest) + 1
            /\ more[Len(rest) + 1] = rest[Len(rest)]
        BY <2>2, <3>5
      <3>9. f[p].vals = more
        BY <3>1 DEF rest
      <3> HIDE DEF more
      <3>10. more # <<>>
        <4>1. Len(more) >= 1 /\ Len(<<>>) = 0
          BY <3>8
        <4> QED BY <4>1
      <3> QED BY <3>5, <3>6, <3>7, <3>8, <3>9, <3>10 DEF Restored
    <2> QED BY <2>4, <2>5
  <1> HIDE DEF D, T, rank
  <1>3. \A p \in D : p \in T
    BY <1>1, <1>2, RankInduction
  <1> USE DEF D, T
  <1> QED BY <1>3

\* A content that get_values accepts, whoever wrote it, is exactly the encoding of
\* what it delivers, and its last value is not empty.
THEOREM AlwaysCanonical ==
  ASSUME NEW buf \in Seq(Bytes)
  PROVE  Canonical(buf)
  <1> SUFFICES ASSUME Readable(buf)
               PROVE  /\ Encode(ValuesIn(buf)) = buf
                      /\ buf # <<>> => ValuesIn(buf)[Len(ValuesIn(buf))] # <<>>
    BY DEF Canonical
  <1>1. CASE buf = <<>>
    <2>1. ValuesIn(buf) = <<>>
      BY <1>1 DEF ValuesIn, DeliverAll
    <2> QED BY <1>1, <2>1, EncodeNothing
  <1>2. CASE buf # <<>>
    <2>1. /\ Len(buf) \in Nat /\ Len(buf) > HeaderLen
          /\ 0 \in 0..Len(buf) - HeaderLen
          /\ ~EntriesFrom(buf)[0].bad
          /\ ValuesIn(buf) = EntriesFrom(buf)[0].vals
      BY <1>2, ReadableContent
    <2>2. Len(buf) - 0 > HeaderLen
      BY <2>1
    <2>3. Restored(buf, 0, EntriesFrom(buf)[0])
      BY <2>1, <2>2, RestRestored
    <2>4. SubSeq(buf, 0 + 1, Len(buf)) = buf
      <3> DEFINE t == SubSeq(buf, 1, Len(buf))
      <3>1. t \in Seq(Bytes) /\ Len(t) = Len(buf) /\ \A i \in 1..Len(buf) : t[i] = buf[i]
        OBVIOUS
      <3> HIDE DEF t
      <3>2. t = buf
        BY <3>1, SeqEqual
      <3> QED BY <3>2 DEF t
    <2> QED BY <2>1, <2>3, <2>4 DEF Restored
  <1> QED BY <1>1, <1>2

-----------------------------------------------------------------------------
(* The body of an answer.                                                  *)

\* What http_response_body_write_callback keeps true of the buffer.
Sizes  == 0..Word - 1
Bodies == {b \in [used : Nat, sz : Sizes, failed : BOOLEAN] : b.used <= b.sz}

LEMMA WordSizes ==
  /\ Word \in Nat /\ Word >= 1 /\ FirstSize \in Sizes /\ FirstSize > 0 /\ 0 \in Sizes
  /\ \A n \in Nat : (n % Word) \in Sizes
  BY WordAssumption DEF Sizes

LEMMA WrapsAround ==
  ASSUME NEW sz \in Sizes, NEW length \in Sizes
  PROVE  (sz + length) % Word < sz <=> sz + length >= Word
  <1>1. CASE sz + length < Word
    <2>1. (sz + length) % Word = sz + length
      BY <1>1, WordAssumption DEF Sizes
    <2> QED BY <1>1, <2>1, WordSizes DEF Sizes
  <1>2. CASE sz + length >= Word
    <2>1. (sz + length) % Word = sz + length - Word
      BY <1>2, WordAssumption DEF Sizes
    <2> QED BY <1>2, <2>1, WordSizes DEF Sizes
  <1> QED BY <1>1, <1>2, WordSizes DEF Sizes

\* The doubling ends with room for the old size and the chunk together.
LEMMA GrownFits ==
  ASSUME NEW sz \in Sizes, NEW length \in Sizes, sz + length < Word
  PROVE  Grown(sz, length) \in Sizes /\ Grown(sz, length) >= sz + length
  <1> DEFINE goal == sz + length
             Twice(last) == IF last = 0 THEN FirstSize ELSE (2 * last) % Word
             S == goal..Word - 1
             Goes(last) == Twice(last) > last /\ Twice(last) <= goal
             rank == [last \in Sizes |-> Word - last]
             next == [last \in Sizes |-> IF Goes(last) THEN Twice(last) ELSE Word]
             base == [last \in Sizes |->
                        IF Twice(last) > goal /\ Twice(last) > last THEN Twice(last) ELSE goal]
             step == [x \in Sizes \X S |-> x[2]]
             Is(f) == f = [last \in Sizes |->
                             LET new == Twice(last) IN
                             IF new <= last THEN goal
                             ELSE IF new <= goal THEN f[new] ELSE new]
  <1>1. goal \in Nat /\ goal \in S /\ S \subseteq Sizes /\ Sizes \subseteq Nat /\ Word \notin Sizes
    BY WordSizes DEF Sizes
  <1>2. \A last \in Sizes : Twice(last) \in Sizes
    <2>1. ASSUME NEW last \in Sizes, last # 0 PROVE Twice(last) \in Sizes
      <3>1. 2 * last \in Nat
        BY <1>1
      <3> QED BY <2>1, <3>1, WordSizes
    <2> QED BY <2>1, WordSizes
  <1> HIDE DEF Twice, goal
  <1>3. rank \in [Sizes -> Nat]
    BY WordSizes DEF Sizes
  <1>4. base \in [Sizes -> S]
    <2>1. ASSUME NEW last \in Sizes PROVE base[last] \in S
      BY <1>1, <1>2, WordSizes DEF Sizes
    <2> QED BY <2>1
  <1>5. step \in [Sizes \X S -> S]
    OBVIOUS
  <1>6. \A last \in Sizes : next[last] \in Sizes => rank[next[last]] < rank[last]
    <2> SUFFICES ASSUME NEW last \in Sizes, next[last] \in Sizes
                 PROVE  rank[next[last]] < rank[last]
      OBVIOUS
    <2>1. Goes(last) /\ next[last] = Twice(last)
      BY <1>1
    <2>2. next[last] > last
      BY <2>1
    <2> HIDE DEF next
    <2> QED BY <2>2, WordSizes DEF Sizes
  <1> HIDE DEF rank, step, base
  <1>7. PICK f : Computes(Sizes, next, S, base, step, f)
    BY <1>3, <1>4, <1>5, <1>6, Recursion
  <1>8. /\ f \in [Sizes -> S]
        /\ \A last \in Sizes :
             f[last] = IF next[last] \in Sizes THEN step[<<last, f[next[last]]>>] ELSE base[last]
    BY <1>7 DEF Computes, Value
  <1>9. ASSUME NEW last \in Sizes
        PROVE  f[last] = LET new == Twice(last) IN
                         IF new <= last THEN goal
                         ELSE IF new <= goal THEN f[new] ELSE new
    <2>1. last \in Nat /\ Twice(last) \in Nat /\ goal \in Nat /\ Twice(last) \in Sizes
      BY <1>1, <1>2
    <2>2. CASE Goes(last)
      <3>1. next[last] = Twice(last) /\ f[Twice(last)] \in S
        BY <1>8, <2>1, <2>2
      <3>2. f[last] = step[<<last, f[Twice(last)]>>]
        BY <1>8, <2>1, <3>1
      <3>3. f[last] = f[Twice(last)]
        BY <3>1, <3>2 DEF step
      <3> QED BY <2>1, <2>2, <3>3
    <2>3. CASE ~Goes(last)
      <3>1. next[last] \notin Sizes
        BY <1>1, <2>3
      <3>2. f[last] = base[last]
        BY <1>8, <3>1
      <3> QED BY <2>1, <2>3, <3>2 DEF base
    <2> QED BY <2>2, <2>3
  <1>10. Is(f)
    BY <1>8, <1>9, Zenon
  <1> DEFINE g == CHOOSE h : Is(h)
  <1>11. Is(g)
    BY <1>10, Zenon
  <1>12. Grown(sz, length) = g[sz]
    BY DEF Grown, Sizes, Twice, goal
  <1> HIDE DEF g
  <1>13. \A last \in Sizes : last \in {n \in Sizes : g[n] = f[n]}
    <2> DEFINE T == {n \in Sizes : g[n] = f[n]}
    <2>1. ASSUME NEW last \in Sizes, \A n \in Sizes : rank[n] < rank[last] => n \in T
          PROVE  last \in T
      <3>1. ASSUME Goes(last) PROVE g[Twice(last)] = f[Twice(last)]
        <4>1. Twice(last) \in Sizes /\ next[last] = Twice(last)
          BY <1>2, <3>1
        <4>2. rank[Twice(last)] < rank[last]
          BY <1>6, <4>1
        <4> QED BY <2>1, <4>1, <4>2
      <3>2. g[last] = LET new == Twice(last) IN
                      IF new <= last THEN goal
                      ELSE IF new <= goal THEN g[new] ELSE new
        BY <1>11
      <3>3. last \in Nat /\ Twice(last) \in Nat /\ goal \in Nat
        BY <1>1, <1>2
      <3>4. g[last] = f[last]
        BY <1>9, <3>1, <3>2, <3>3
      <3> QED BY <3>4
    <2> HIDE DEF T
    <2>2. \A last \in Sizes : last \in T
      BY <1>3, <2>1, RankInduction
    <2> QED BY <2>2 DEF T
  <1>14. g[sz] \in S
    BY <1>8, <1>13
  <1> QED BY <1>1, <1>12, <1>14, WordSizes DEF goal, Sizes

\* A chunk is stored behind the bytes received so far, or the request is given up
\* because the sizes wrap around.
LEMMA WriteKeeps ==
  ASSUME NEW body \in Bodies, NEW length \in Sizes
  PROVE  /\ Write(body, length) \in Bodies
         /\ body.failed => Write(body, length).failed
         /\ ~Write(body, length).failed => Write(body, length).used = body.used + length
         /\ Write(body, length).failed /\ ~body.failed =>
              body.used + length > body.sz /\ body.sz + length >= Word
  <1> DEFINE used == body.used
             sz == body.sz
  <1>1. used \in Nat /\ sz \in Sizes /\ sz \in Nat /\ used <= sz /\ length \in Nat
        /\ body.failed \in BOOLEAN /\ body = [used |-> used, sz |-> sz, failed |-> body.failed]
    BY WordSizes DEF Bodies, Sizes
  <1>2. CASE body.failed
    BY <1>2 DEF Write
  <1>3. CASE ~body.failed /\ sz - used >= length
    <2>1. Write(body, length) = [used |-> used + length, sz |-> sz, failed |-> FALSE]
      BY <1>3 DEF Write
    <2>2. used + length \in Nat /\ used + length <= sz
      BY <1>1, <1>3
    <2> HIDE DEF used, sz
    <2> QED BY <1>1, <1>3, <2>1, <2>2 DEF Bodies, used
  <1>4. CASE ~body.failed /\ ~(sz - used >= length) /\ sz + length >= Word
    <2>1. Write(body, length) = [used |-> 0, sz |-> sz, failed |-> TRUE]
      BY <1>1, <1>4, WrapsAround DEF Write
    <2>2. used + length > sz
      BY <1>1, <1>4
    <2> HIDE DEF used, sz
    <2>3. Write(body, length) \in Bodies
      BY <1>1, <2>1 DEF Bodies
    <2> QED BY <1>4, <2>1, <2>2, <2>3 DEF used, sz
  <1>5. CASE ~body.failed /\ ~(sz - used >= length) /\ ~(sz + length >= Word)
    <2> DEFINE grown == Grown(sz, length)
    <2>1. Write(body, length) = [used |-> used + length, sz |-> grown, failed |-> FALSE]
      BY <1>1, <1>5, WrapsAround DEF Write
    <2>2. sz + length < Word
      BY <1>1, <1>5, WordSizes
    <2>3. grown \in Sizes /\ grown >= sz + length
      BY <1>1, <2>2, GrownFits
    <2> HIDE DEF used, sz, grown
    <2>4. used + length \in Nat /\ used + length <= grown
      BY <1>1, <2>3, WordSizes DEF Sizes
    <2> QED BY <1>5, <2>1, <2>3, <2>4 DEF Bodies, used
  <1> QED BY <1>2, <1>3, <1>4, <1>5

\* A function that goes on from each place of a list to the next one.
Follows(k, S, first, step, f) ==
    /\ f \in [0..k -> S] /\ f[0] = first
    /\ \A n \in 1..k : f[n] = step[<<n, f[n - 1]>>]

LEMMA ListRecursion ==
  ASSUME NEW k \in Nat, NEW S, NEW first \in S, NEW step \in [(1..k) \X S -> S]
  PROVE  \E f : Follows(k, S, first, step, f)
  <1> DEFINE D == 0..k
             rank == [n \in D |-> n]
             next == [n \in D |-> n - 1]
             base == [n \in D |-> first]
             go == [x \in D \X S |-> IF x[1] = 0 THEN first ELSE step[x]]
  <1>1. \A n \in D : n \in Nat /\ (n # 0 => n - 1 \in D /\ n \in 1..k)
    OBVIOUS
  <1>2. rank \in [D -> Nat] /\ base \in [D -> S]
    BY <1>1
  <1>3. go \in [D \X S -> S]
    <2>1. ASSUME NEW n \in D, NEW s \in S PROVE go[<<n, s>>] \in S
      BY <1>1
    <2> QED BY <2>1
  <1>4. \A n \in D : next[n] \in D => rank[next[n]] < rank[n]
    BY <1>1
  <1> HIDE DEF D, rank, next, base, go
  <1>5. PICK f : Computes(D, next, S, base, go, f)
    BY <1>2, <1>3, <1>4, Recursion
  <1>6. /\ f \in [D -> S]
        /\ \A n \in D : f[n] = IF next[n] \in D THEN go[<<n, f[next[n]]>>] ELSE base[n]
    BY <1>5 DEF Computes, Value
  <1>7. f[0] = first
    <2>1. 0 \in D /\ next[0] \notin D
      BY DEF D, next
    <2> QED BY <1>6, <2>1 DEF base
  <1>8. ASSUME NEW n \in 1..k PROVE f[n] = step[<<n, f[n - 1]>>]
    <2>1. n \in D /\ n - 1 \in D /\ n # 0 /\ next[n] = n - 1
      BY DEF D, next
    <2>2. f[n] = go[<<n, f[n - 1]>>] /\ f[n - 1] \in S
      BY <1>6, <2>1
    <2> QED BY <2>1, <2>2 DEF go
  <1> QED BY <1>6, <1>7, <1>8 DEF Follows, D

\* The body after each chunk, and what the chunks come to.
Receives(start, chunks, g) ==
    /\ g[0] = start
    /\ \A n \in 1..Len(chunks) : g[n] = Write(g[n - 1], chunks[n])
Adds(chunks, h) ==
    /\ h[0] = 0
    /\ \A n \in 1..Len(chunks) : h[n] = h[n - 1] + chunks[n]

LEMMA ReceivedUnfolds ==
  ASSUME NEW start \in Bodies, NEW chunks \in Seq(Sizes)
  PROVE  \E g : Receives(start, chunks, g) /\ Received(start, chunks) = g[Len(chunks)]
  <1> DEFINE k == Len(chunks)
             step == [x \in (1..k) \X Bodies |-> Write(x[2], chunks[x[1]])]
             Is(f) == f = [n \in 0..k |->
                             IF n = 0 THEN start ELSE Write(f[n - 1], chunks[n])]
  <1>1. k \in Nat /\ \A n \in 1..k : chunks[n] \in Sizes
    OBVIOUS
  <1> HIDE DEF k
  <1>2. step \in [(1..k) \X Bodies -> Bodies]
    <2>1. ASSUME NEW n \in 1..k, NEW b \in Bodies PROVE Write(b, chunks[n]) \in Bodies
      BY <1>1, WriteKeeps
    <2> QED BY <2>1
  <1> HIDE DEF step
  <1>3. PICK f : Follows(k, Bodies, start, step, f)
    BY <1>1, <1>2, ListRecursion
  <1>4. f \in [0..k -> Bodies] /\ \A n \in 0..k :
          f[n] = IF n = 0 THEN start ELSE Write(f[n - 1], chunks[n])
    <2>1. f \in [0..k -> Bodies] /\ f[0] = start
          /\ \A n \in 1..k : f[n] = step[<<n, f[n - 1]>>]
      BY <1>3 DEF Follows
    <2>2. ASSUME NEW n \in 0..k, n # 0 PROVE f[n] = Write(f[n - 1], chunks[n])
      <3>1. n \in 1..k /\ n - 1 \in 0..k
        BY <1>1, <2>2
      <3> QED BY <2>1, <3>1 DEF step
    <2> QED BY <2>1, <2>2
  <1>5. Is(f)
    BY <1>4, Zenon
  <1> DEFINE g == CHOOSE h : Is(h)
  <1>6. Is(g)
    BY <1>5, Zenon
  <1>7. Received(start, chunks) = g[k]
    BY DEF Received, k
  <1> HIDE DEF g
  <1>8. g[0] = start /\ \A n \in 1..k : g[n] = Write(g[n - 1], chunks[n])
    <2>1. 0 \in 0..k /\ \A n \in 1..k : n \in 0..k /\ n # 0
      BY <1>1
    <2> QED BY <1>6, <2>1
  <1> QED BY <1>7, <1>8 DEF Receives, k

LEMMA TotalUnfolds ==
  ASSUME NEW chunks \in Seq(Nat)
  PROVE  \E h : Adds(chunks, h) /\ Total(chunks) = h[Len(chunks)]
  <1> DEFINE k == Len(chunks)
             step == [x \in (1..k) \X Nat |-> x[2] + chunks[x[1]]]
             Is(f) == f = [n \in 0..k |-> IF n = 0 THEN 0 ELSE f[n - 1] + chunks[n]]
  <1>1. k \in Nat /\ \A n \in 1..k : chunks[n] \in Nat
    OBVIOUS
  <1> HIDE DEF k
  <1>2. step \in [(1..k) \X Nat -> Nat]
    <2>1. ASSUME NEW n \in 1..k, NEW b \in Nat PROVE b + chunks[n] \in Nat
      BY <1>1
    <2> QED BY <2>1
  <1> HIDE DEF step
  <1>3. PICK f : Follows(k, Nat, 0, step, f)
    BY <1>1, <1>2, ListRecursion
  <1>4. f \in [0..k -> Nat] /\ \A n \in 0..k :
          f[n] = IF n = 0 THEN 0 ELSE f[n - 1] + chunks[n]
    <2>1. f \in [0..k -> Nat] /\ f[0] = 0
          /\ \A n \in 1..k : f[n] = step[<<n, f[n - 1]>>]
      BY <1>3 DEF Follows
    <2>2. ASSUME NEW n \in 0..k, n # 0 PROVE f[n] = f[n - 1] + chunks[n]
      <3>1. n \in 1..k /\ n - 1 \in 0..k
        BY <1>1, <2>2
      <3> QED BY <2>1, <3>1 DEF step
    <2> QED BY <2>1, <2>2
  <1>5. Is(f)
    BY <1>4, Zenon
  <1> DEFINE g == CHOOSE h : Is(h)
  <1>6. Is(g)
    BY <1>5, Zenon
  <1>7. Total(chunks) = g[k]
    BY DEF Total, k
  <1> HIDE DEF g
  <1>8. g[0] = 0 /\ \A n \in 1..k : g[n] = g[n - 1] + chunks[n]
    <2>1. 0 \in 0..k /\ \A n \in 1..k : n \in 0..k /\ n # 0
      BY <1>1
    <2> QED BY <1>6, <2>1
  <1> QED BY <1>7, <1>8 DEF Adds, k

\* After any number of chunks: what is used is their sum, and it has its place;
\* or the request has been given up, and they come to half of Word.
LEMMA ReceivedHolds ==
  ASSUME NEW start \in Bodies, start.used = 0, ~start.failed, NEW chunks \in Seq(Sizes)
  PROVE  Received(start, chunks) \in Bodies /\ Holds(start, chunks)
  <1> DEFINE k == Len(chunks)
             half == Word \div 2
  <1>1. k \in Nat /\ chunks \in Seq(Nat) /\ \A n \in 1..k : chunks[n] \in Sizes /\ chunks[n] \in Nat
    <2>1. Sizes \subseteq Nat
      BY WordSizes DEF Sizes
    <2>2. chunks \in Seq(Nat)
      BY <2>1, SeqMonotonic
    <2> QED BY <2>1, <2>2
  <1>2. PICK g : Receives(start, chunks, g) /\ Received(start, chunks) = g[k]
    BY ReceivedUnfolds
  <1>3. PICK h : Adds(chunks, h) /\ Total(chunks) = h[k]
    BY <1>1, TotalUnfolds
  <1>4. half \in Nat /\ \A n \in Nat : n + n > Word => n >= half
    BY WordSizes
  <1> HIDE DEF k, half
  <1> DEFINE Kept(n) == /\ g[n] \in Bodies /\ h[n] \in Nat
                        /\ ~g[n].failed => g[n].used = h[n]
                        /\ g[n].failed => h[n] >= half
             T == {n \in Nat : n <= k => Kept(n)}
  <1>5. 0 \in T
    BY <1>2, <1>3 DEF Receives, Adds
  <1>6. ASSUME NEW n \in Nat, n \in T PROVE n + 1 \in T
    <2> SUFFICES ASSUME n + 1 <= k PROVE Kept(n + 1)
      OBVIOUS
    <2> DEFINE length == chunks[n + 1]
    <2>1. n + 1 \in 1..k /\ n <= k /\ (n + 1) - 1 = n
      BY <1>1
    <2>2. length \in Sizes /\ length \in Nat /\ Kept(n)
      BY <1>1, <1>6, <2>1
    <2>3. g[n + 1] = Write(g[n], length) /\ h[n + 1] = h[n] + length
      BY <1>2, <1>3, <2>1 DEF Receives, Adds, k
    <2> HIDE DEF length
    <2>4. /\ g[n + 1] \in Bodies
          /\ g[n].failed => g[n + 1].failed
          /\ ~g[n + 1].failed => g[n + 1].used = g[n].used + length
          /\ g[n + 1].failed /\ ~g[n].failed =>
               g[n].used + length > g[n].sz /\ g[n].sz + length >= Word
      BY <2>2, <2>3, WriteKeeps
    <2>5. h[n + 1] \in Nat /\ h[n + 1] >= h[n]
      BY <2>2, <2>3
    <2>6. ~g[n + 1].failed => g[n + 1].used = h[n + 1]
      BY <2>2, <2>3, <2>4
    <2>7. CASE g[n + 1].failed /\ g[n].failed
      BY <1>4, <2>2, <2>4, <2>5, <2>6, <2>7
    <2>8. CASE g[n + 1].failed /\ ~g[n].failed
      <3> DEFINE sz == g[n].sz
                 used == g[n].used
                 sum == h[n + 1]
      <3>1. sz \in Nat /\ used = h[n] /\ used \in Nat
            /\ used + length > sz /\ sz + length >= Word
        <4>1. used = h[n] /\ h[n] \in Nat /\ g[n] \in Bodies
          BY <2>2, <2>8
        <4>2. sz \in Sizes
          BY <4>1 DEF Bodies
        <4>3. sz \in Nat
          BY <4>2, WordSizes DEF Sizes
        <4>4. used + length > sz /\ sz + length >= Word
          BY <2>4, <2>8
        <4> HIDE DEF sz, used
        <4> QED BY <4>1, <4>3, <4>4
      <3>2. sum = h[n] + length
        BY <2>3
      <3> HIDE DEF sz, used, sum
      <3>3. sum = used + length /\ sum \in Nat
        BY <2>2, <3>1, <3>2
      <3>4. sum > sz /\ sum >= length
        BY <2>2, <3>1, <3>3
      <3>5. sum + sum > Word
        <4>1. length \in Nat /\ Word \in Nat /\ sum \in Nat /\ sz \in Nat
          BY <2>2, <3>1, <3>3, WordSizes
        <4>2. sum + sum > sz + length
          BY <3>4, <4>1
        <4>3. sz + length >= Word
          BY <3>1
        <4> QED BY <4>1, <4>2, <4>3
      <3>6. h[n + 1] >= half
        BY <1>4, <3>3, <3>5 DEF sum
      <3> QED BY <2>4, <2>5, <2>6, <3>6
    <2>9. CASE ~g[n + 1].failed
      BY <2>4, <2>5, <2>6, <2>9
    <2> QED BY <2>7, <2>8, <2>9
  <1> HIDE DEF T
  <1>7. k \in T
    BY <1>1, <1>5, <1>6, Induction
  <1>8. Kept(k)
    BY <1>1, <1>7 DEF T
  <1> DEFINE body == Received(start, chunks)
  <1>9. /\ body \in Bodies /\ Total(chunks) \in Nat
        /\ ~body.failed => body.used = Total(chunks)
        /\ body.failed => Total(chunks) >= half
    BY <1>2, <1>3, <1>8
  <1> HIDE DEF body
  <1>10. body.used <= body.sz /\ body.sz < Word
    BY <1>9, WordSizes DEF Bodies, Sizes
  <1>11. Total(chunks) < Word \div 2 => ~body.failed
    BY <1>4, <1>9 DEF half
  <1> QED BY <1>9, <1>10, <1>11 DEF Holds, body

\* The body of an answer in any number of chunks of any lengths is the sum of them
\* and lies within its memory, or the request is given up, and then the answer
\* fills half of what a size_t can count; also when another answer came before,
\* given up or not, moved away or not (http_response_body_write_callback,
\* http_client_reset, http_client_move_response_body).
THEOREM BodyHolds ==
  ASSUME NEW before \in Seq(Sizes), NEW chunks \in Seq(Sizes)
  PROVE  HoldsAgain(before, chunks)
  <1> DEFINE last == Received(NoBody, before)
  <1>1. NoBody \in Bodies /\ NoBody.used = 0 /\ ~NoBody.failed
    BY WordSizes DEF NoBody, Bodies
  <1>2. last \in Bodies
    BY <1>1, ReceivedHolds
  <1> HIDE DEF last
  <1>3. ASSUME NEW body \in Bodies
        PROVE  Reset(body) \in Bodies /\ Reset(body).used = 0 /\ ~Reset(body).failed
    <2>1. body.sz \in Sizes /\ body.sz >= 0
      BY WordSizes DEF Bodies, Sizes
    <2> QED BY <2>1 DEF Reset, Bodies
  <1>4. Move(last) \in Bodies
    BY <1>1, <1>2 DEF Move
  <1>5. Holds(Reset(last), chunks) /\ Holds(Reset(Move(last)), chunks)
    BY <1>2, <1>3, <1>4, ReceivedHolds
  <1> QED BY <1>5 DEF HoldsAgain, last

-----------------------------------------------------------------------------
(* The parameters of a query.                                              *)

\* What an escaped character looks like.
LEMMA EscapedChar ==
  ASSUME NEW c \in Chars
  PROVE  /\ Escape(c) \in Seq(Chars)
         /\ c \in 97..122 =>
              Escape(c) = <<c>> /\ Len(Escape(c)) = 1 /\ Escape(c)[1] = c
         /\ c \notin 97..122 =>
              /\ Len(Escape(c)) = 3 /\ Escape(c)[1] = Percent
              /\ Byte(Escape(c)[2], Escape(c)[3]) = c
         /\ \A i \in 1..Len(Escape(c)) : Escape(c)[i] \notin Stops
  <1>1. CASE c \in 97..122
    <2>1. Escape(c) = <<c>> /\ c \notin Stops
      BY <1>1 DEF Escape, Stops, Blanks, Space, Amp
    <2> QED BY <1>1, <2>1
  <1>2. CASE c \notin 97..122
    <2> DEFINE h == c \div 16
               l == (c % 16)
    <2>1. h \in 0..15 /\ l \in 0..15 /\ h * 16 + l = c
      BY SMTT(30) DEF Chars
    <2> HIDE DEF h, l
    <2>2. ASSUME NEW n \in 0..15
          PROVE  HexDigit(n) \in (48..57) \cup (97..102) /\ HexToInt(HexDigit(n)) = n
      BY DEF HexDigit, HexToInt
    <2>3. /\ HexDigit(h) \in (48..57) \cup (97..102)
          /\ HexDigit(l) \in (48..57) \cup (97..102)
      BY <2>1, <2>2
    <2>4. Escape(c) = <<Percent, HexDigit(h), HexDigit(l)>>
      BY <1>2 DEF Escape, h, l
    <2>5. Byte(HexDigit(h), HexDigit(l)) = c
      BY <2>1, <2>2 DEF Byte
    <2>6. \A d \in (48..57) \cup (97..102) : d \in Chars /\ d \notin Stops
      BY DEF Chars, Stops, Blanks, Space, Amp
    <2>7. Percent \in Chars /\ Percent \notin Stops
      BY DEF Percent, Chars, Stops, Blanks, Space, Amp
    <2> DEFINE x == HexDigit(h)
               y == HexDigit(l)
    <2>8. x \in Chars /\ y \in Chars /\ x \notin Stops /\ y \notin Stops
      BY <2>3, <2>6
    <2> HIDE DEF x, y
    <2>9. Escape(c) = <<Percent, x, y>> /\ Byte(x, y) = c
      BY <2>4, <2>5 DEF x, y
    <2>10. Escape(c) \in Seq(Chars) /\ Len(Escape(c)) = 3 /\ Escape(c)[1] = Percent
           /\ Escape(c)[2] = x /\ Escape(c)[3] = y
      BY <2>7, <2>8, <2>9
    <2>11. \A i \in 1..Len(Escape(c)) : Escape(c)[i] \notin Stops
      BY <2>7, <2>8, <2>10
    <2> QED BY <1>2, <2>9, <2>10, <2>11
  <1> QED BY <1>1, <1>2

\* The text and what is escaped of it so far.
Escapes(text, e) ==
    /\ e \in [0..Len(text) -> Seq(Chars)]
    /\ e[0] = <<>>
    /\ \A n \in 1..Len(text) : e[n] = e[n - 1] \o Escape(text[n])

LEMMA EscapeUnfolds ==
  ASSUME NEW text \in Seq(Chars)
  PROVE  \E e : Escapes(text, e) /\ EscapeAll(text) = e[Len(text)]
  <1> DEFINE k == Len(text)
             step == [x \in (1..k) \X Seq(Chars) |-> x[2] \o Escape(text[x[1]])]
             Is(f) == f = [n \in 0..k |->
                             IF n = 0 THEN <<>> ELSE f[n - 1] \o Escape(text[n])]
  <1>1. k \in Nat /\ \A n \in 1..k : Escape(text[n]) \in Seq(Chars)
    <2>1. k \in Nat /\ \A n \in 1..k : text[n] \in Chars
      OBVIOUS
    <2> QED BY <2>1, EscapedChar
  <1> HIDE DEF k
  <1>2. step \in [(1..k) \X Seq(Chars) -> Seq(Chars)]
    <2>1. ASSUME NEW n \in 1..k, NEW s \in Seq(Chars)
          PROVE  s \o Escape(text[n]) \in Seq(Chars)
      BY <1>1
    <2> QED BY <2>1
  <1>3. <<>> \in Seq(Chars)
    OBVIOUS
  <1> HIDE DEF step
  <1>4. PICK f : Follows(k, Seq(Chars), <<>>, step, f)
    BY <1>1, <1>2, <1>3, ListRecursion
  <1>5. /\ f \in [0..k -> Seq(Chars)]
        /\ \A n \in 0..k : f[n] = IF n = 0 THEN <<>> ELSE f[n - 1] \o Escape(text[n])
    <2>1. f \in [0..k -> Seq(Chars)] /\ f[0] = <<>>
          /\ \A n \in 1..k : f[n] = step[<<n, f[n - 1]>>]
      BY <1>4 DEF Follows
    <2>2. ASSUME NEW n \in 0..k, n # 0 PROVE f[n] = f[n - 1] \o Escape(text[n])
      <3>1. n \in 1..k /\ n - 1 \in 0..k
        BY <1>1, <2>2
      <3> QED BY <2>1, <3>1 DEF step
    <2> QED BY <2>1, <2>2
  <1>6. Is(f)
    BY <1>5, Zenon
  <1> DEFINE g == CHOOSE h : Is(h)
  <1>7. Is(g)
    BY <1>6, Zenon
  <1>8. EscapeAll(text) = g[k]
    BY DEF EscapeAll, k
  <1> HIDE DEF g
  <1>9. \A n \in Nat : n \in {m \in Nat : m \in 0..k => g[m] = f[m]}
    <2> DEFINE T == {m \in Nat : m \in 0..k => g[m] = f[m]}
    <2>1. 0 \in T
      BY <1>5, <1>7
    <2>2. ASSUME NEW n \in Nat, n \in T PROVE n + 1 \in T
      <3> SUFFICES ASSUME n + 1 \in 0..k PROVE g[n + 1] = f[n + 1]
        OBVIOUS
      <3>1. n \in 0..k /\ n + 1 # 0 /\ (n + 1) - 1 = n
        BY <1>1
      <3>2. g[n] = f[n]
        BY <2>2, <3>1
      <3> QED BY <1>5, <1>7, <3>1, <3>2
    <2> HIDE DEF T
    <2>3. \A n \in Nat : n \in T
      BY <2>1, <2>2, Induction
    <2> QED BY <2>3 DEF T
  <1>10. EscapeAll(text) = f[k]
    <2>1. k \in Nat /\ k \in 0..k
      BY <1>1
    <2> QED BY <1>8, <1>9, <2>1
  <1>11. Escapes(text, f)
    <2>1. 0 \in 0..k /\ \A n \in 1..k : n \in 0..k /\ n # 0
      BY <1>1
    <2> QED BY <1>5, <2>1 DEF Escapes, k
  <1> QED BY <1>10, <1>11 DEF k

\* A sequence put together of two.
Adjoined(a, b, c) ==
    /\ c \in Seq(Chars)
    /\ Len(a) \in Nat /\ Len(b) \in Nat /\ Len(c) = Len(a) + Len(b)
    /\ \A i \in 1..Len(a) : c[i] = a[i]
    /\ \A i \in 1..Len(b) : c[Len(a) + i] = b[i]

LEMMA TwoParts ==
  ASSUME NEW a \in Seq(Chars), NEW b \in Seq(Chars), NEW c, c = a \o b
  PROVE  Adjoined(a, b, c)
  BY DEF Adjoined

\* Sequences put together part by part: each part keeps its place.
Grows(n, f, part) ==
    /\ f \in [0..n -> Seq(Chars)] /\ part \in [1..n -> Seq(Chars)]
    /\ \A j \in 1..n : f[j] = f[j - 1] \o part[j]

InPlace(n, f, part) ==
    /\ \A j \in 0..n : /\ Len(f[j]) \in Nat /\ Len(f[j]) <= Len(f[n])
                       /\ \A i \in 1..Len(f[j]) : f[n][i] = f[j][i]
    /\ \A j \in 1..n :
         /\ Len(part[j]) \in Nat
         /\ Len(f[j]) = Len(f[j - 1]) + Len(part[j])
         /\ \A i \in 1..Len(part[j]) : f[n][Len(f[j - 1]) + i] = part[j][i]

LEMMA PartsInPlace ==
  ASSUME NEW n \in Nat, NEW f, NEW part, Grows(n, f, part)
  PROVE  InPlace(n, f, part)
  <1> DEFINE Kept(k) == \A j \in 0..k : /\ Len(f[j]) \in Nat /\ Len(f[j]) <= Len(f[k])
                                        /\ \A i \in 1..Len(f[j]) : f[k][i] = f[j][i]
             T == {k \in Nat : k <= n => Kept(k)}
  <1>1. \A j \in 0..n : f[j] \in Seq(Chars) /\ Len(f[j]) \in Nat
    BY DEF Grows
  <1>2. ASSUME NEW j \in 1..n
        PROVE  /\ f[j - 1] \in Seq(Chars) /\ part[j] \in Seq(Chars)
               /\ Len(f[j - 1]) \in Nat /\ Len(part[j]) \in Nat
               /\ f[j] = f[j - 1] \o part[j]
               /\ Len(f[j]) = Len(f[j - 1]) + Len(part[j])
               /\ \A i \in 1..Len(f[j - 1]) : f[j][i] = f[j - 1][i]
               /\ \A i \in 1..Len(part[j]) : f[j][Len(f[j - 1]) + i] = part[j][i]
    <2>1. f[j - 1] \in Seq(Chars) /\ part[j] \in Seq(Chars) /\ f[j] = f[j - 1] \o part[j]
      BY DEF Grows
    <2> DEFINE a == f[j - 1]
               b == part[j]
               c == f[j]
    <2> HIDE DEF a, b, c
    <2>2. a \in Seq(Chars) /\ b \in Seq(Chars) /\ c = a \o b
      BY <2>1 DEF a, b, c
    <2>3. /\ Len(a) \in Nat /\ Len(b) \in Nat /\ Len(c) = Len(a) + Len(b)
          /\ \A i \in 1..Len(a) : c[i] = a[i]
          /\ \A i \in 1..Len(b) : c[Len(a) + i] = b[i]
      <3>1. Adjoined(a, b, c)
        BY <2>2, TwoParts
      <3> QED BY <3>1, Zenon DEF Adjoined
    <2> QED BY <2>2, <2>3 DEF a, b, c
  <1>3. 0 \in T
    BY <1>1
  <1>4. ASSUME NEW k \in Nat, k \in T PROVE k + 1 \in T
    <2> SUFFICES ASSUME k + 1 <= n, NEW j \in 0..k + 1
                 PROVE  /\ Len(f[j]) \in Nat /\ Len(f[j]) <= Len(f[k + 1])
                        /\ \A i \in 1..Len(f[j]) : f[k + 1][i] = f[j][i]
      OBVIOUS
    <2>1. /\ Len(f[k]) \in Nat /\ Len(f[k + 1]) \in Nat /\ Len(f[k]) <= Len(f[k + 1])
          /\ \A i \in 1..Len(f[k]) : f[k + 1][i] = f[k][i]
      <3>1. k + 1 \in 1..n /\ (k + 1) - 1 = k
        OBVIOUS
      <3> DEFINE before == f[(k + 1) - 1]
                 after == f[k + 1]
                 new == part[k + 1]
      <3>2. /\ Len(before) \in Nat /\ Len(new) \in Nat
            /\ Len(after) = Len(before) + Len(new)
            /\ \A i \in 1..Len(before) : after[i] = before[i]
        BY <1>2, <3>1
      <3>3. before = f[k]
        BY <3>1
      <3> HIDE DEF before, after, new
      <3>4. Len(after) \in Nat /\ Len(before) <= Len(after)
        BY <3>2
      <3> QED BY <3>2, <3>3, <3>4 DEF after
    <2>2. CASE j = k + 1
      BY <2>1, <2>2
    <2>3. CASE j # k + 1
      <3>1. j \in 0..k /\ k <= n
        BY <2>3
      <3>2. /\ Len(f[j]) \in Nat /\ Len(f[j]) <= Len(f[k])
            /\ \A i \in 1..Len(f[j]) : f[k][i] = f[j][i]
        BY <1>4, <3>1
      <3> QED BY <2>1, <3>2
    <2> QED BY <2>2, <2>3
  <1> HIDE DEF T
  <1>5. n \in T
    BY <1>3, <1>4, Induction
  <1>6. Kept(n)
    BY <1>5 DEF T
  <1>7. ASSUME NEW j \in 1..n, NEW i \in 1..Len(part[j])
        PROVE  f[n][Len(f[j - 1]) + i] = part[j][i]
    <2>1. /\ Len(f[j - 1]) \in Nat /\ Len(part[j]) \in Nat
          /\ Len(f[j]) = Len(f[j - 1]) + Len(part[j])
          /\ f[j][Len(f[j - 1]) + i] = part[j][i]
      BY <1>2
    <2>2. Len(f[j - 1]) + i \in 1..Len(f[j])
      <3> DEFINE a == Len(f[j - 1])
                 b == Len(part[j])
                 c == Len(f[j])
      <3>1. a \in Nat /\ b \in Nat /\ c = a + b /\ i \in 1..b
        BY <2>1
      <3> HIDE DEF a, b, c
      <3>2. a + i \in 1..c
        BY <3>1
      <3> QED BY <3>2 DEF a, c
    <2>3. \A m \in 1..Len(f[j]) : f[n][m] = f[j][m]
      BY <1>6
    <2> QED BY <2>1, <2>2, <2>3
  <1> QED BY <1>2, <1>6, <1>7 DEF InPlace

\* url_decode ends and goes on as the code says, from each place.
LEMMA DecodeUnfolds ==
  ASSUME NEW str \in Seq(Chars)
  PROVE  \A p \in 1..Len(str) + 1 :
            DecodeFrom(str)[p] =
              IF Ends(str, p) THEN <<>>
              ELSE <<CharAt(str, p)>> \o DecodeFrom(str)[After(str, p)]
  <1> DEFINE D == 1..Len(str) + 1
             rank == [p \in D |-> Len(str) + 1 - p]
             next == [p \in D |-> IF Ends(str, p) THEN 0 ELSE After(str, p)]
             base == [p \in D |-> <<>>]
             step == [x \in D \X Seq(Int) |->
                        IF Ends(str, x[1]) THEN <<>> ELSE <<CharAt(str, x[1])>> \o x[2]]
             Is(f) == f = [p \in D |->
                             IF Ends(str, p) THEN <<>>
                             ELSE <<CharAt(str, p)>> \o f[After(str, p)]]
  <1>1. Len(str) \in Nat /\ \A i \in 1..Len(str) : str[i] \in Int
    <2>1. Len(str) \in Nat /\ \A i \in 1..Len(str) : str[i] \in Chars
      OBVIOUS
    <2>2. \A c \in Chars : c \in Int
      BY DEF Chars
    <2> QED BY <2>1, <2>2
  <1>2. rank \in [D -> Nat] /\ base \in [D -> Seq(Int)]
    BY <1>1
  <1>3. ASSUME NEW p \in D, ~Ends(str, p)
        PROVE  CharAt(str, p) \in Int /\ After(str, p) \in D /\ After(str, p) > p
    <2>1. p \in 1..Len(str)
      BY <1>1, <1>3 DEF Ends
    <2>2. After(str, p) \in D /\ After(str, p) > p
      BY <1>1, <2>1 DEF After, Escaped
    <2>3. \A c \in Int : HexToInt(c) \in Int
      BY DEF HexToInt
    <2>4. CASE Escaped(str, p)
      <3>1. str[p + 1] \in Int /\ str[p + 2] \in Int
        BY <1>1, <2>1, <2>4 DEF Escaped
      <3>2. HexToInt(str[p + 1]) \in Int /\ HexToInt(str[p + 2]) \in Int
        BY <2>3, <3>1
      <3>3. Byte(str[p + 1], str[p + 2]) \in Int
        BY <3>2 DEF Byte
      <3> QED BY <2>2, <2>4, <3>3 DEF CharAt
    <2>5. CASE ~Escaped(str, p)
      BY <1>1, <2>1, <2>2, <2>5 DEF CharAt, Space
    <2> QED BY <2>4, <2>5
  <1>4. step \in [D \X Seq(Int) -> Seq(Int)]
    <2>1. ASSUME NEW p \in D, NEW s \in Seq(Int) PROVE step[<<p, s>>] \in Seq(Int)
      BY <1>3
    <2> QED BY <2>1
  <1>5. \A p \in D : next[p] \in D => rank[next[p]] < rank[p]
    <2>1. ASSUME NEW p \in D, next[p] \in D PROVE rank[next[p]] < rank[p]
      <3>1. ~Ends(str, p) /\ next[p] = After(str, p)
        BY <1>1, <2>1
      <3>2. After(str, p) \in D /\ After(str, p) > p
        BY <1>3, <3>1
      <3> QED BY <1>1, <3>1, <3>2
    <2> QED BY <2>1
  <1>d. D = 1..Len(str) + 1
    OBVIOUS
  <1> HIDE DEF D, rank, next, base, step
  <1>6. PICK f : Computes(D, next, Seq(Int), base, step, f)
    BY <1>2, <1>4, <1>5, Recursion
  <1>7. /\ f \in [D -> Seq(Int)]
        /\ \A p \in D : f[p] = IF next[p] \in D THEN step[<<p, f[next[p]]>>] ELSE base[p]
    BY <1>6 DEF Computes, Value
  <1>8. \A p \in D : f[p] = IF Ends(str, p) THEN <<>>
                            ELSE <<CharAt(str, p)>> \o f[After(str, p)]
    <2> SUFFICES ASSUME NEW p \in D
                 PROVE  f[p] = IF Ends(str, p) THEN <<>>
                               ELSE <<CharAt(str, p)>> \o f[After(str, p)]
      OBVIOUS
    <2>1. CASE Ends(str, p)
      <3>1. next[p] = 0 /\ 0 \notin D
        BY <1>1, <2>1 DEF next, D
      <3> QED BY <1>7, <2>1, <3>1 DEF base
    <2>2. CASE ~Ends(str, p)
      <3>1. next[p] = After(str, p) /\ After(str, p) \in D
        BY <1>3, <2>2 DEF next
      <3>2. f[p] = step[<<p, f[After(str, p)]>>] /\ f[After(str, p)] \in Seq(Int)
        BY <1>7, <3>1
      <3> QED BY <2>2, <3>2 DEF step
    <2> QED BY <2>1, <2>2
  <1>9. Is(f)
    BY <1>7, <1>8, Zenon
  <1> DEFINE g == CHOOSE h : Is(h)
  <1>10. Is(g)
    BY <1>9, Zenon
  <1>11. DecodeFrom(str) = g
    BY DEF DecodeFrom, D
  <1> HIDE DEF g
  <1>12. \A p \in D : g[p] = IF Ends(str, p) THEN <<>>
                             ELSE <<CharAt(str, p)>> \o g[After(str, p)]
    BY <1>10, Zenon
  <1> QED BY <1>11, <1>12, <1>d

LEMMA OneMoreFirst ==
  ASSUME NEW text \in Seq(Chars), NEW j \in 1..Len(text)
  PROVE  <<text[j]>> \o SubSeq(text, j + 1, Len(text)) = SubSeq(text, j, Len(text))
  <1> DEFINE n == Len(text)
             c == text[j]
             x == SubSeq(text, j + 1, n)
             y == SubSeq(text, j, n)
             z == <<c>> \o x
             k == n - j
  <1>1. n \in Nat /\ k \in Nat /\ c \in Chars
    OBVIOUS
  <1>2. /\ x \in Seq(Chars) /\ Len(x) = k
        /\ \A i \in 1..k : x[i] = text[j + i]
    OBVIOUS
  <1>3. /\ y \in Seq(Chars) /\ Len(y) = k + 1
        /\ \A i \in 1..k + 1 : y[i] = text[j + i - 1]
    OBVIOUS
  <1> HIDE DEF c, x, y, n, k
  <1>4. <<c>> \in Seq(Chars) /\ Len(<<c>>) = 1 /\ <<c>>[1] = c
    BY <1>1
  <1>5. Adjoined(<<c>>, x, z)
    BY <1>2, <1>4, TwoParts
  <1> HIDE DEF z
  <1>6. /\ z \in Seq(Chars) /\ Len(z) = k + 1 /\ z[1] = c
        /\ \A i \in 1..k : z[1 + i] = x[i]
    <2>1. /\ z \in Seq(Chars) /\ Len(z) = Len(<<c>>) + Len(x)
          /\ \A i \in 1..Len(<<c>>) : z[i] = <<c>>[i]
          /\ \A i \in 1..Len(x) : z[Len(<<c>>) + i] = x[i]
      BY <1>5, Zenon DEF Adjoined
    <2>2. 1 \in 1..Len(<<c>>)
      BY <1>4
    <2> QED BY <1>1, <1>2, <1>4, <2>1, <2>2
  <1>7. ASSUME NEW i \in 1..k + 1 PROVE z[i] = y[i]
    <2>1. CASE i = 1
      <3>1. 1 \in 1..k + 1 /\ j + 1 - 1 = j
        BY <1>1
      <3> QED BY <1>3, <1>6, <2>1, <3>1 DEF c
    <2>2. CASE i # 1
      <3>1. i - 1 \in 1..k /\ 1 + (i - 1) = i /\ j + (i - 1) = j + i - 1
        BY <1>1, <2>2
      <3>2. z[i] = x[i - 1] /\ x[i - 1] = text[j + i - 1]
        BY <1>2, <1>6, <3>1
      <3> QED BY <1>3, <3>2
    <2> QED BY <2>1, <2>2
  <1>8. z = y
    BY <1>3, <1>6, <1>7, SeqEqual
  <1> QED BY <1>8 DEF x, y, z, c, n

\* A text that was escaped is read again, wherever it stands, if the character
\* behind it ends a value.
LEMMA EscapedIsRead ==
  ASSUME NEW str \in Seq(Chars), NEW text \in Seq(Chars), NEW v \in Nat, v >= 1,
         v + Len(EscapeAll(text)) <= Len(str),
         \A i \in 1..Len(EscapeAll(text)) : str[v + i - 1] = EscapeAll(text)[i],
         str[v + Len(EscapeAll(text))] \in Stops
  PROVE  DecodeFrom(str)[v] = text
  <1> DEFINE n == Len(text)
             g == DecodeFrom(str)
  <1>1. PICK e : Escapes(text, e) /\ EscapeAll(text) = e[n]
    BY EscapeUnfolds
  <1> DEFINE part == [j \in 1..n |-> Escape(text[j])]
             at(j) == v + Len(e[j])
             T == {k \in Nat : k <= n => g[at(n - k)] = SubSeq(text, n - k + 1, n)}
  <1>2. n \in Nat /\ \A j \in 1..n : text[j] \in Chars
    OBVIOUS
  <1>3. Grows(n, e, part)
    <2>1. \A j \in 1..n : Escape(text[j]) \in Seq(Chars)
      BY <1>2, EscapedChar
    <2> QED BY <1>1, <2>1 DEF Escapes, Grows
  <1>4. /\ \A j \in 0..n : Len(e[j]) \in Nat /\ Len(e[j]) <= Len(e[n])
        /\ \A j \in 1..n :
              /\ Len(part[j]) \in Nat
              /\ Len(e[j]) = Len(e[j - 1]) + Len(part[j])
              /\ \A i \in 1..Len(part[j]) : e[n][Len(e[j - 1]) + i] = part[j][i]
    <2>1. n \in Nat /\ n \in 0..n
      BY <1>2
    <2> HIDE DEF part, n
    <2>2. InPlace(n, e, part)
      BY <1>3, <2>1, PartsInPlace
    <2> QED BY <2>2, Zenon DEF InPlace
  <1>5. \A p \in 1..Len(str) + 1 :
          g[p] = IF Ends(str, p) THEN <<>> ELSE <<CharAt(str, p)>> \o g[After(str, p)]
    BY DecodeUnfolds
  <1> HIDE DEF g
  <1>6. Len(str) \in Nat /\ v + Len(e[n]) <= Len(str) /\ str[v + Len(e[n])] \in Stops
        /\ \A i \in 1..Len(e[n]) : str[v + i - 1] = e[n][i]
    BY <1>1
  <1>7. 0 \in T
    <2>1. at(n) \in 1..Len(str) + 1 /\ Ends(str, at(n))
      BY <1>2, <1>4, <1>6 DEF Ends
    <2>2. g[at(n)] = <<>>
      BY <1>5, <2>1
    <2>3. SubSeq(text, n + 1, n) = <<>>
      BY <1>2
    <2>4. n - 0 = n /\ n - 0 + 1 = n + 1
      BY <1>2
    <2> QED BY <2>2, <2>3, <2>4
  <1>8. ASSUME NEW k \in Nat, k \in T PROVE k + 1 \in T
    <2> SUFFICES ASSUME k + 1 <= n
                 PROVE  g[at(n - (k + 1))] = SubSeq(text, n - (k + 1) + 1, n)
      OBVIOUS
    <2> DEFINE j == n - k
               c == text[j]
               w == Escape(c)
               p == at(j - 1)
    <2>1. j \in 1..n /\ n - (k + 1) = j - 1 /\ n - (k + 1) + 1 = j /\ n - k + 1 = j + 1
      BY <1>2
    <2>2. g[at(j)] = SubSeq(text, j + 1, n)
      BY <1>8, <2>1
    <2>3. c \in Chars
      BY <1>2, <2>1
    <2>4. /\ Len(w) \in Nat /\ Len(e[j - 1]) \in Nat /\ Len(e[j]) <= Len(e[n])
          /\ Len(e[j]) = Len(e[j - 1]) + Len(w) /\ Len(e[n]) \in Nat
          /\ \A i \in 1..Len(w) : e[n][Len(e[j - 1]) + i] = w[i]
      <3>1. part[j] = w /\ j \in 0..n /\ j - 1 \in 0..n /\ n \in 0..n
        BY <1>2, <2>1
      <3> HIDE DEF part, w, j, n
      <3> QED BY <1>4, <2>1, <3>1
    <2>5. p \in Nat /\ p >= 1 /\ at(j) = p + Len(w) /\ p + Len(w) <= Len(str)
      <3> DEFINE a == Len(e[j - 1])
                 b == Len(w)
                 all == Len(e[n])
                 end == Len(str)
      <3>1. /\ a \in Nat /\ b \in Nat /\ all \in Nat /\ a + b <= all /\ end \in Nat
            /\ v + all <= end /\ p = v + a /\ at(j) = v + (a + b)
        BY <1>6, <2>4
      <3> HIDE DEF a, b, all, end, p, at
      <3>2. p \in Nat /\ p >= 1 /\ at(j) = p + b /\ p + b <= end
        BY <3>1
      <3> QED BY <3>2 DEF b, end
    <2>6. ASSUME NEW i \in 1..Len(w) PROVE str[p + i - 1] = w[i]
      <3> DEFINE m == Len(e[j - 1]) + i
      <3>1. m \in 1..Len(e[n]) /\ e[n][m] = w[i] /\ v + m - 1 = p + i - 1
        <4> DEFINE a == Len(e[j - 1])
                   b == Len(w)
                   all == Len(e[n])
        <4>1. /\ a \in Nat /\ b \in Nat /\ all \in Nat /\ a + b <= all /\ i \in 1..b
              /\ p = v + a /\ m = a + i
          BY <2>4
        <4>2. e[n][m] = w[i]
          BY <2>4
        <4> HIDE DEF a, b, all, p, m
        <4>3. m \in 1..all /\ v + m - 1 = p + i - 1
          BY <4>1
        <4> QED BY <4>2, <4>3 DEF all
      <3> HIDE DEF m, w, p
      <3> QED BY <1>6, <3>1
    <2> HIDE DEF c, w, p, j, n, at
    <2>7. ~Ends(str, p) /\ CharAt(str, p) = c /\ After(str, p) = p + Len(w)
      <3>1. CASE c \in 97..122
        <4>1. Len(w) = 1 /\ w[1] = c /\ w[1] \notin Stops
          BY <2>3, <3>1, EscapedChar DEF w
        <4>2. str[p] = c /\ c \notin Stops
          <5>1. 1 \in 1..Len(w) /\ p + 1 - 1 = p
            BY <2>5, <4>1
          <5> QED BY <2>6, <4>1, <5>1
        <4>3. c # Percent /\ c # Plus
          BY <3>1, SMT DEF Percent, Plus
        <4> QED BY <1>6, <2>5, <4>1, <4>2, <4>3 DEF Ends, CharAt, After, Escaped
      <3>2. CASE c \notin 97..122
        <4>1. /\ Len(w) = 3 /\ w[1] = Percent /\ w[1] \notin Stops
              /\ Byte(w[2], w[3]) = c
          <5>1. /\ Len(w) = 3 /\ w[1] = Percent /\ Byte(w[2], w[3]) = c
                /\ \A i \in 1..Len(w) : w[i] \notin Stops
            BY <2>3, <3>2, EscapedChar, Zenon DEF w
          <5> QED BY <5>1
        <4>2. str[p] = w[1] /\ str[p + 1] = w[2] /\ str[p + 2] = w[3]
          <5>1. /\ 1 \in 1..Len(w) /\ 2 \in 1..Len(w) /\ 3 \in 1..Len(w)
                /\ p + 1 - 1 = p /\ p + 2 - 1 = p + 1 /\ p + 3 - 1 = p + 2
            BY <2>5, <4>1
          <5> QED BY <2>6, <5>1
        <4>3. Escaped(str, p)
          BY <1>6, <2>5, <4>1, <4>2 DEF Escaped
        <4>4. ~Ends(str, p)
          BY <1>6, <2>5, <4>1, <4>2 DEF Ends
        <4> QED BY <4>1, <4>2, <4>3, <4>4 DEF CharAt, After
      <3> QED BY <3>1, <3>2
    <2>8. g[p] = <<c>> \o g[at(j)]
      <3>1. p \in 1..Len(str) + 1
        BY <1>6, <2>4, <2>5
      <3> QED BY <1>5, <2>5, <2>7, <3>1
    <2>9. <<text[j]>> \o SubSeq(text, j + 1, n) = SubSeq(text, j, n)
      BY <2>1, OneMoreFirst DEF n
    <2>10. at(n - (k + 1)) = p
      BY <2>1 DEF p
    <2> QED BY <2>1, <2>2, <2>8, <2>9, <2>10 DEF c
  <1> HIDE DEF T
  <1>9. n \in T
    BY <1>2, <1>7, <1>8, Induction
  <1>10. g[at(n - n)] = SubSeq(text, n - n + 1, n)
    BY <1>2, <1>9 DEF T
  <1>11. n - n = 0 /\ n - n + 1 = 1 /\ Len(e[0]) = 0 /\ v + 0 = v
    BY <1>1, <1>2 DEF Escapes
  <1>12. g[v] = SubSeq(text, 1, n)
    BY <1>10, <1>11
  <1>13. SubSeq(text, 1, n) = text
    <2> DEFINE t == SubSeq(text, 1, n)
    <2>1. t \in Seq(Chars) /\ Len(t) = n /\ \A i \in 1..n : t[i] = text[i]
      BY <1>2
    <2> HIDE DEF t
    <2>2. t = text
      BY <2>1, SeqEqual
    <2> QED BY <2>2 DEF t
  <1> QED BY <1>12, <1>13 DEF g

LEMMA NothingStopsAnEscapedText ==
  ASSUME NEW text \in Seq(Chars)
  PROVE  /\ EscapeAll(text) \in Seq(Chars)
         /\ \A i \in 1..Len(EscapeAll(text)) : EscapeAll(text)[i] \notin Stops
  <1> DEFINE n == Len(text)
             Free(s) == \A i \in 1..Len(s) : s[i] \notin Stops
  <1>1. PICK e : Escapes(text, e) /\ EscapeAll(text) = e[n]
    BY EscapeUnfolds
  <1> DEFINE T == {k \in Nat : k <= n => Free(e[k])}
  <1>2. n \in Nat /\ \A j \in 1..n : text[j] \in Chars
    OBVIOUS
  <1>3. 0 \in T
    BY <1>1 DEF Escapes
  <1>4. ASSUME NEW k \in Nat, k \in T PROVE k + 1 \in T
    <2> SUFFICES ASSUME k + 1 <= n PROVE Free(e[k + 1])
      OBVIOUS
    <2> DEFINE a == e[k]
               b == Escape(text[k + 1])
               c == e[k + 1]
    <2>1. k + 1 \in 1..n /\ k \in 0..n /\ (k + 1) - 1 = k /\ k <= n
      BY <1>2
    <2>2. Free(a)
      BY <1>4, <2>1
    <2>3. a \in Seq(Chars) /\ c = a \o b
      BY <1>1, <2>1 DEF Escapes
    <2>4. b \in Seq(Chars) /\ Free(b)
      <3>1. text[k + 1] \in Chars
        BY <1>2, <2>1
      <3> QED BY <3>1, EscapedChar
    <2> HIDE DEF a, b, c, T, n
    <2>5. /\ Len(c) = Len(a) + Len(b) /\ Len(a) \in Nat /\ Len(b) \in Nat
          /\ \A i \in 1..Len(a) : c[i] = a[i]
          /\ \A i \in 1..Len(b) : c[Len(a) + i] = b[i]
      BY <2>3, <2>4
    <2>6. ASSUME NEW i \in 1..Len(c) PROVE c[i] \notin Stops
      <3>1. CASE i <= Len(a)
        <4>1. i \in 1..Len(a)
          BY <3>1
        <4> QED BY <2>2, <2>5, <4>1
      <3>2. CASE ~(i <= Len(a))
        <4>1. i - Len(a) \in 1..Len(b) /\ Len(a) + (i - Len(a)) = i
          BY <2>5, <3>2
        <4> QED BY <2>4, <2>5, <4>1
      <3> QED BY <3>1, <3>2
    <2> QED BY <2>6 DEF c
  <1> HIDE DEF T
  <1>5. n \in T
    BY <1>2, <1>3, <1>4, Induction
  <1>6. Free(e[n])
    BY <1>2, <1>5 DEF T
  <1>7. e[n] \in Seq(Chars)
    BY <1>1, <1>2 DEF Escapes
  <1> QED BY <1>1, <1>6, <1>7

\* Where the name, "=" and the value of a parameter are, and that nothing in it
\* ends it.
LEMMA InsideParameter ==
  ASSUME NEW param \in Params
  PROVE  /\ param.name \in Seq(NameChars) /\ param.text \in Seq(Chars)
         /\ Len(param.name) \in Nat /\ Len(EscapeAll(param.text)) \in Nat
         /\ Parameter(param) \in Seq(Chars)
         /\ Len(Parameter(param)) = Len(param.name) + 1 + Len(EscapeAll(param.text))
         /\ \A i \in 1..Len(param.name) : Parameter(param)[i] = param.name[i]
         /\ Parameter(param)[Len(param.name) + 1] = Equals
         /\ \A i \in 1..Len(EscapeAll(param.text)) :
              Parameter(param)[Len(param.name) + 1 + i] = EscapeAll(param.text)[i]
         /\ \A i \in 1..Len(Parameter(param)) :
              Parameter(param)[i] \notin Blanks \cup {Amp}
  <1> DEFINE a == param.name
             c == EscapeAll(param.text)
             ab == a \o <<Equals>>
             s == Parameter(param)
  <1>1. a \in Seq(NameChars) /\ param.text \in Seq(Chars)
    BY DEF Params
  <1>2. c \in Seq(Chars) /\ \A i \in 1..Len(c) : c[i] \notin Stops
    BY <1>1, NothingStopsAnEscapedText
  <1>3. a \in Seq(Chars) /\ \A i \in 1..Len(a) : a[i] \in NameChars
    <2>1. NameChars \subseteq Chars
      BY DEF NameChars
    <2> HIDE DEF a
    <2>2. a \in Seq(Chars)
      BY <1>1, <2>1, SeqMonotonic
    <2> QED BY <1>1, <2>2
  <1>4. s = ab \o c
    BY DEF Parameter
  <1>5. Equals \in Chars /\ Equals \notin Blanks \cup {Amp}
    BY SMT DEF Equals, Chars, Blanks, Space, Amp
  <1> HIDE DEF a, c, s
  <1>6. /\ ab \in Seq(Chars) /\ Len(ab) = Len(a) + 1 /\ Len(a) \in Nat
        /\ \A i \in 1..Len(a) : ab[i] = a[i]
        /\ ab[Len(a) + 1] = Equals
    BY <1>3, <1>5
  <1> HIDE DEF ab
  <1>7. /\ s \in Seq(Chars) /\ Len(s) = Len(ab) + Len(c) /\ Len(c) \in Nat
        /\ \A i \in 1..Len(ab) : s[i] = ab[i]
        /\ \A i \in 1..Len(c) : s[Len(ab) + i] = c[i]
    <2>1. ab \in Seq(Chars) /\ c \in Seq(Chars) /\ s = ab \o c
      BY <1>2, <1>4, <1>6
    <2> QED BY <2>1
  <1>8. Len(s) = Len(a) + 1 + Len(c)
    BY <1>6, <1>7
  <1>9. \A i \in 1..Len(a) : s[i] = a[i]
    <2>1. \A i \in 1..Len(a) : i \in 1..Len(ab)
      BY <1>6
    <2> QED BY <1>6, <1>7, <2>1
  <1>10. s[Len(a) + 1] = Equals
    <2>1. Len(a) + 1 \in 1..Len(ab)
      BY <1>6
    <2> QED BY <1>6, <1>7, <2>1
  <1>11. \A i \in 1..Len(c) : s[Len(a) + 1 + i] = c[i]
    BY <1>6, <1>7
  <1>12. ASSUME NEW i \in 1..Len(s) PROVE s[i] \notin Blanks \cup {Amp}
    <2>1. CASE i <= Len(a)
      <3>1. i \in 1..Len(a)
        BY <2>1
      <3> QED BY <1>3, <1>9, <3>1 DEF NameChars
    <2>2. CASE i = Len(a) + 1
      BY <1>5, <1>10, <2>2
    <2>3. CASE ~(i <= Len(a)) /\ i # Len(a) + 1
      <3>1. /\ i - (Len(a) + 1) \in 1..Len(c)
            /\ Len(a) + 1 + (i - (Len(a) + 1)) = i
        BY <1>6, <1>7, <1>8, <2>3
      <3>2. s[i] \notin Stops
        BY <1>2, <1>11, <3>1
      <3> QED BY <3>2 DEF Stops
    <2> QED BY <2>1, <2>2, <2>3
  <1> QED BY <1>1, <1>6, <1>7, <1>8, <1>9, <1>10, <1>11, <1>12 DEF a, c, s

\* Where the parameters of a query begin: each has its place, with "&" behind it
\* and the next one behind that, or a space if it is the last.
Laid(params, str, at) ==
    /\ str \in Seq(Chars)
    /\ at \in [1..Len(params) + 1 -> Nat \ {0}]
    /\ at[1] = 1 /\ Len(str) >= 1 /\ (Len(params) = 0 => str[1] = Space)
    /\ \A k \in 1..Len(params) :
         /\ at[k + 1] = at[k] + Len(Parameter(params[k])) + 1
         /\ at[k] + Len(Parameter(params[k])) <= Len(str)
         /\ \A i \in 1..Len(Parameter(params[k])) :
              str[at[k] + i - 1] = Parameter(params[k])[i]
         /\ str[at[k] + Len(Parameter(params[k]))] =
              IF k = Len(params) THEN Space ELSE Amp

\* Each parameter with the "&" before it, and the query so far.
Joint(params, k) == (IF k > 1 THEN <<Amp>> ELSE <<>>) \o Parameter(params[k])
Joins(params, u) ==
    /\ u \in [0..Len(params) -> Seq(Chars)]
    /\ u[0] = <<>>
    /\ \A k \in 1..Len(params) : u[k] = u[k - 1] \o Joint(params, k)

LEMMA JointShape ==
  ASSUME NEW params \in Seq(Params), NEW k \in 1..Len(params)
  PROVE  /\ params[k] \in Params
         /\ Parameter(params[k]) \in Seq(Chars) /\ Len(Parameter(params[k])) \in Nat
         /\ Joint(params, k) \in Seq(Chars)
         /\ k = 1 => Joint(params, k) = Parameter(params[k])
         /\ k > 1 =>
              /\ Joint(params, k)[1] = Amp
              /\ Len(Joint(params, k)) = 1 + Len(Parameter(params[k]))
              /\ \A i \in 1..Len(Parameter(params[k])) :
                   Joint(params, k)[1 + i] = Parameter(params[k])[i]
  <1> DEFINE s == Parameter(params[k])
  <1>1. params[k] \in Params
    OBVIOUS
  <1>2. s \in Seq(Chars) /\ Len(s) \in Nat
    <2>1. s \in Seq(Chars)
      BY <1>1, InsideParameter
    <2> HIDE DEF s
    <2> QED BY <2>1
  <1>3. Amp \in Chars
    BY DEF Amp, Chars
  <1> HIDE DEF s
  <1>4. CASE k = 1
    <2>1. Joint(params, k) = <<>> \o s
      BY <1>4 DEF Joint, s
    <2>2. Joint(params, k) = s
      BY <1>2, <2>1
    <2> QED BY <1>1, <1>2, <1>4, <2>2 DEF s
  <1>5. CASE k > 1
    <2>1. Joint(params, k) = <<Amp>> \o s
      BY <1>5 DEF Joint, s
    <2>2. /\ <<Amp>> \o s \in Seq(Chars) /\ (<<Amp>> \o s)[1] = Amp
          /\ Len(<<Amp>> \o s) = 1 + Len(s)
          /\ \A i \in 1..Len(s) : (<<Amp>> \o s)[1 + i] = s[i]
      BY <1>2, <1>3
    <2> QED BY <1>1, <1>2, <1>5, <2>1, <2>2 DEF s
  <1> QED BY <1>4, <1>5

LEMMA QueryUnfolds ==
  ASSUME NEW params \in Seq(Params)
  PROVE  \E u : Joins(params, u) /\ Query(params) = u[Len(params)] \o <<Space, 97>>
  <1> DEFINE n == Len(params)
             step == [x \in (1..n) \X Seq(Chars) |-> x[2] \o Joint(params, x[1])]
             Is(f) == f = [k \in 0..n |->
                IF k = 0 THEN <<>>
                ELSE f[k - 1] \o ((IF k > 1 THEN <<Amp>> ELSE <<>>) \o Parameter(params[k]))]
  <1>1. n \in Nat /\ \A k \in 1..n : Joint(params, k) \in Seq(Chars)
    BY JointShape
  <1> HIDE DEF n
  <1>2. step \in [(1..n) \X Seq(Chars) -> Seq(Chars)]
    <2>1. ASSUME NEW k \in 1..n, NEW s \in Seq(Chars)
          PROVE  s \o Joint(params, k) \in Seq(Chars)
      BY <1>1
    <2> QED BY <2>1
  <1>3. <<>> \in Seq(Chars)
    OBVIOUS
  <1> HIDE DEF step
  <1>4. PICK f : Follows(n, Seq(Chars), <<>>, step, f)
    BY <1>1, <1>2, <1>3, ListRecursion
  <1>5. /\ f \in [0..n -> Seq(Chars)]
        /\ \A k \in 0..n : f[k] = IF k = 0 THEN <<>> ELSE f[k - 1] \o Joint(params, k)
    <2>1. f \in [0..n -> Seq(Chars)] /\ f[0] = <<>>
          /\ \A k \in 1..n : f[k] = step[<<k, f[k - 1]>>]
      BY <1>4 DEF Follows
    <2>2. ASSUME NEW k \in 0..n, k # 0 PROVE f[k] = f[k - 1] \o Joint(params, k)
      <3>1. k \in 1..n /\ k - 1 \in 0..n
        BY <1>1, <2>2
      <3> QED BY <2>1, <3>1 DEF step
    <2> QED BY <2>1, <2>2
  <1>6. Is(f)
    BY <1>5, Zenon DEF Joint
  <1> DEFINE g == CHOOSE h : Is(h)
  <1>7. Is(g)
    BY <1>6, Zenon
  <1>8. Query(params) = g[n] \o <<Space, 97>>
    BY Zenon DEF Query, n
  <1>9. \A k \in 0..n : g[k] = IF k = 0 THEN <<>> ELSE g[k - 1] \o Joint(params, k)
    BY <1>7, Zenon DEF Joint
  <1> HIDE DEF g, Is
  <1>10. \A k \in Nat : k \in {m \in Nat : m \in 0..n => g[m] = f[m]}
    <2> DEFINE T == {m \in Nat : m \in 0..n => g[m] = f[m]}
    <2>1. 0 \in T
      BY <1>5, <1>9
    <2>2. ASSUME NEW k \in Nat, k \in T PROVE k + 1 \in T
      <3> SUFFICES ASSUME k + 1 \in 0..n PROVE g[k + 1] = f[k + 1]
        OBVIOUS
      <3>1. k \in 0..n /\ k + 1 # 0 /\ (k + 1) - 1 = k
        BY <1>1
      <3>2. g[k] = f[k]
        BY <2>2, <3>1
      <3> QED BY <1>5, <1>9, <3>1, <3>2
    <2> HIDE DEF T
    <2>3. \A k \in Nat : k \in T
      BY <2>1, <2>2, Induction
    <2> QED BY <2>3 DEF T
  <1>11. Query(params) = f[n] \o <<Space, 97>>
    <2>1. n \in Nat /\ n \in 0..n
      BY <1>1
    <2> QED BY <1>8, <1>10, <2>1
  <1>12. Joins(params, f)
    <2>1. 0 \in 0..n /\ \A k \in 1..n : k \in 0..n /\ k # 0
      BY <1>1
    <2> QED BY <1>5, <2>1 DEF Joins, n
  <1> QED BY <1>11, <1>12 DEF n

LEMMA QueryLaid ==
  ASSUME NEW params \in Seq(Params)
  PROVE  \E at : Laid(params, Query(params), at)
  <1> DEFINE n == Len(params)
             str == Query(params)
  <1>1. PICK u : Joins(params, u) /\ str = u[n] \o <<Space, 97>>
    BY QueryUnfolds
  <1> DEFINE joint == [k \in 1..n |-> Joint(params, k)]
             size(k) == Len(Parameter(params[k]))
             at == [k \in 1..n + 1 |-> Len(u[k - 1]) + (IF k = 1 THEN 1 ELSE 2)]
  <1>2. /\ n \in Nat
        /\ \A k \in 0..n : u[k] \in Seq(Chars) /\ Len(u[k]) \in Nat
        /\ u[0] = <<>> /\ Len(u[0]) = 0
    <2>1. n \in Nat
      OBVIOUS
    <2>2. u \in [0..n -> Seq(Chars)] /\ u[0] = <<>>
      BY <1>1 DEF Joins
    <2> HIDE DEF n
    <2>3. \A k \in 0..n : u[k] \in Seq(Chars)
      BY <2>2
    <2>4. \A s \in Seq(Chars) : Len(s) \in Nat
      OBVIOUS
    <2> QED BY <2>1, <2>2, <2>3, <2>4
  <1>3. Grows(n, u, joint)
    <2>1. \A k \in 1..n : Joint(params, k) \in Seq(Chars)
      BY JointShape
    <2> QED BY <1>1, <2>1 DEF Joins, Grows
  <1>4. InPlace(n, u, joint)
    <2> HIDE DEF joint, n
    <2> QED BY <1>2, <1>3, PartsInPlace
  <1>5. /\ Space \in Chars /\ 97 \in Chars
    BY DEF Space, Chars
  <1>6. /\ str \in Seq(Chars) /\ Len(str) = Len(u[n]) + 2 /\ Len(u[n]) \in Nat
        /\ \A i \in 1..Len(u[n]) : str[i] = u[n][i]
        /\ str[Len(u[n]) + 1] = Space
    <2> DEFINE a == u[n]
               b == <<Space, 97>>
    <2>1. /\ a \in Seq(Chars) /\ b \in Seq(Chars) /\ Len(b) = 2 /\ b[1] = Space
          /\ str = a \o b
      BY <1>1, <1>2, <1>5
    <2> HIDE DEF a, b, str
    <2>2. /\ str \in Seq(Chars) /\ Len(str) = Len(a) + Len(b) /\ Len(a) \in Nat
          /\ \A i \in 1..Len(a) : str[i] = a[i]
          /\ \A i \in 1..Len(b) : str[Len(a) + i] = b[i]
      <3>1. Adjoined(a, b, str)
        BY <2>1, TwoParts
      <3> QED BY <3>1, Zenon DEF Adjoined
    <2>3. 1 \in 1..Len(b)
      BY <2>1
    <2>4. str[Len(a) + 1] = Space /\ Len(str) = Len(a) + 2
      BY <2>1, <2>2, <2>3
    <2> QED BY <2>2, <2>4 DEF a
  <1>7. ASSUME NEW k \in 1..n
        PROVE  /\ k \in 0..n /\ k - 1 \in 0..n /\ size(k) \in Nat
               /\ at[k] = Len(u[k - 1]) + (IF k = 1 THEN 1 ELSE 2)
               /\ at[k + 1] = Len(u[k]) + 2
               /\ Len(u[k - 1]) \in Nat /\ Len(u[k]) \in Nat
               /\ Len(u[k]) <= Len(u[n])
               /\ Len(u[k]) = Len(u[k - 1]) + (IF k = 1 THEN 0 ELSE 1) + size(k)
               /\ \A i \in 1..size(k) : str[at[k] + i - 1] = Parameter(params[k])[i]
               /\ k > 1 => str[Len(u[k - 1]) + 1] = Amp
    <2>1. k \in 0..n /\ k - 1 \in 0..n /\ k \in 1..n + 1 /\ k + 1 \in 1..n + 1
          /\ (k + 1) - 1 = k /\ k + 1 # 1
      BY <1>2
    <2>2. /\ at[k] = Len(u[k - 1]) + (IF k = 1 THEN 1 ELSE 2)
          /\ at[k + 1] = Len(u[k]) + 2
      BY <2>1
    <2> DEFINE a == u[k - 1]
               b == u[k]
               c == u[n]
               d == Joint(params, k)
               p == Parameter(params[k])
    <2>3. /\ Len(b) \in Nat /\ Len(b) <= Len(c) /\ Len(a) \in Nat
          /\ Len(d) \in Nat /\ Len(b) = Len(a) + Len(d)
          /\ \A i \in 1..Len(d) : c[Len(a) + i] = d[i]
      <3>1. joint[k] = d
        OBVIOUS
      <3> HIDE DEF joint, n, d
      <3> QED BY <1>2, <1>4, <2>1, <3>1 DEF InPlace
    <2>4. /\ Len(p) \in Nat
          /\ k = 1 => d = p
          /\ k > 1 => /\ d[1] = Amp /\ Len(d) = 1 + Len(p)
                      /\ \A i \in 1..Len(p) : d[1 + i] = p[i]
      BY JointShape, Zenon
    <2>5. /\ Len(c) \in Nat /\ \A i \in 1..Len(c) : str[i] = c[i]
      BY <1>6
    <2> DEFINE start == at[k]
    <2>6. k \in Nat /\ k >= 1
      BY <1>2
    <2> HIDE DEF at
    <2>7. start = Len(a) + (IF k = 1 THEN 1 ELSE 2)
      BY <2>2
    <2> DEFINE la == Len(a)
               lb == Len(b)
               lc == Len(c)
               ld == Len(d)
               lp == Len(p)
    <2> HIDE DEF a, b, c, d, p, str, n, start
    <2>8. /\ la \in Nat /\ lb \in Nat /\ lc \in Nat /\ ld \in Nat /\ lp \in Nat
          /\ lb = la + ld /\ lb <= lc
          /\ start = la + (IF k = 1 THEN 1 ELSE 2)
          /\ k = 1 => ld = lp
          /\ k > 1 => ld = 1 + lp
      BY <2>3, <2>4, <2>5, <2>7
    <2> HIDE DEF la, lb, lc, ld, lp
    <2>9. ASSUME NEW i \in 1..ld PROVE str[la + i] = d[i]
      <3>1. la + i \in 1..lc
        BY <2>8
      <3> QED BY <2>3, <2>5, <3>1 DEF la, lc, ld
    <2>10. ASSUME NEW i \in 1..lp PROVE str[start + i - 1] = p[i]
      <3>1. CASE k = 1
        <4>1. start + i - 1 = la + i /\ i \in 1..ld
          BY <2>8, <3>1
        <4>2. d[i] = p[i]
          BY <2>4, <3>1
        <4> QED BY <2>9, <4>1, <4>2
      <3>2. CASE k > 1
        <4>1. 1 + i \in 1..ld /\ start + i - 1 = la + (1 + i)
          BY <2>8, <3>2
        <4>2. d[1 + i] = p[i]
          BY <2>4, <3>2 DEF lp
        <4> QED BY <2>9, <4>1, <4>2
      <3> QED BY <2>6, <3>1, <3>2
    <2>11. lb = la + (IF k = 1 THEN 0 ELSE 1) + lp
      BY <2>6, <2>8
    <2>12. k > 1 => str[la + 1] = Amp
      <3> SUFFICES ASSUME k > 1 PROVE str[la + 1] = Amp
        OBVIOUS
      <3>1. 1 \in 1..ld
        BY <2>8
      <3>2. d[1] = Amp
        BY <2>4
      <3> QED BY <2>9, <3>1, <3>2
    <2>13. /\ Len(p) \in Nat /\ Len(a) \in Nat /\ Len(b) \in Nat /\ Len(b) <= Len(c)
           /\ Len(b) = Len(a) + (IF k = 1 THEN 0 ELSE 1) + Len(p)
           /\ \A i \in 1..Len(p) : str[start + i - 1] = p[i]
           /\ k > 1 => str[Len(a) + 1] = Amp
      BY <2>8, <2>10, <2>11, <2>12 DEF la, lb, lc, lp
    <2> QED BY <2>1, <2>2, <2>13, Zenon DEF a, b, c, p, start
  <1>8. at \in [1..n + 1 -> Nat \ {0}]
    <2>1. ASSUME NEW k \in 1..n + 1 PROVE Len(u[k - 1]) \in Nat
      <3>1. k - 1 \in 0..n
        BY <1>2
      <3> QED BY <1>2, <3>1
    <2>2. ASSUME NEW k \in 1..n + 1 PROVE at[k] \in Nat \ {0}
      <3> DEFINE l == Len(u[k - 1])
      <3>1. l \in Nat /\ at[k] = l + (IF k = 1 THEN 1 ELSE 2)
        BY <2>1
      <3> HIDE DEF l, at
      <3> QED BY <3>1
    <2> QED BY <2>2
  <1>9. at[1] = 1
    BY <1>2
  <1>10. Len(str) >= 1 /\ (n = 0 => str[1] = Space)
    <2>1. ASSUME n = 0 PROVE str[1] = Space
      <3>1. Len(u[n]) = 0
        BY <1>2, <2>1
      <3> QED BY <1>6, <3>1
    <2> QED BY <1>6, <2>1
  <1>11. ASSUME NEW k \in 1..n
         PROVE  /\ at[k + 1] = at[k] + size(k) + 1
                /\ at[k] + size(k) <= Len(str)
                /\ \A i \in 1..size(k) : str[at[k] + i - 1] = Parameter(params[k])[i]
                /\ str[at[k] + size(k)] = IF k = n THEN Space ELSE Amp
    <2> DEFINE a == Len(u[k - 1])
               b == Len(u[k])
               c == Len(u[n])
               s == size(k)
               here == at[k]
               next == at[k + 1]
               len == Len(str)
    <2> HIDE DEF at, str, n
    <2>k. k \in Nat /\ k >= 1
      BY <1>2
    <2>l. c \in Nat /\ len = c + 2
      BY <1>6, Zenon
    <2>m. /\ s \in Nat /\ a \in Nat /\ b \in Nat /\ b <= c
          /\ here = a + (IF k = 1 THEN 1 ELSE 2) /\ next = b + 2
          /\ b = a + (IF k = 1 THEN 0 ELSE 1) + s
      BY <1>7, Zenon
    <2>1. /\ s \in Nat /\ a \in Nat /\ b \in Nat /\ b <= c /\ k \in Nat /\ k >= 1
          /\ here = a + (IF k = 1 THEN 1 ELSE 2) /\ next = b + 2
          /\ b = a + (IF k = 1 THEN 0 ELSE 1) + s
          /\ c \in Nat /\ len = c + 2
      BY <2>k, <2>l, <2>m, Zenon
    <2>2. \A i \in 1..size(k) : str[at[k] + i - 1] = Parameter(params[k])[i]
      BY <1>7
    <2>3. k = n => str[b + 1] = Space
      BY <1>6
    <2>4. k # n => str[b + 1] = Amp
      <3>1. ASSUME k # n PROVE k + 1 \in 1..n /\ k + 1 > 1 /\ (k + 1) - 1 = k
        BY <1>2, <3>1
      <3>2. ASSUME k # n PROVE str[Len(u[(k + 1) - 1]) + 1] = Amp
        BY <1>7, <3>1, <3>2
      <3> QED BY <3>1, <3>2
    <2> HIDE DEF a, b, c, s, here, next, len
    <2>5. next = here + s + 1 /\ here + s <= len /\ here + s = b + 1
      BY <2>1
    <2>6. str[here + s] = IF k = n THEN Space ELSE Amp
      BY <2>3, <2>4, <2>5
    <2> QED BY <2>2, <2>5, <2>6 DEF s, here, next, len
  <1> HIDE DEF at, str
  <1>12. Laid(params, str, at)
    BY <1>6, <1>8, <1>9, <1>10, <1>11 DEF Laid
  <1> QED BY <1>12 DEF str

-----------------------------------------------------------------------------
(* The search for a parameter.                                             *)

LEMMA FirstExists ==
  ASSUME NEW s, s \subseteq Nat, s # {}
  PROVE  \E i \in s : \A j \in s : i <= j
  <1>1. PICK x \in s : \A y \in s : ~(<<y, x>> \in OpToRel(<, Nat))
    BY WFMin, NatLessThanWellFounded
  <1>2. x \in Nat /\ \A y \in s : y \in Nat /\ ~(y < x)
    BY <1>1 DEF OpToRel
  <1>3. \A y \in s : x <= y
    BY <1>2
  <1> QED BY <1>1, <1>3

LEMMA FirstChosen ==
  ASSUME NEW s, s \subseteq Nat, NEW i \in s, \A j \in s : i <= j
  PROVE  (CHOOSE x \in s : \A j \in s : x <= j) = i
  <1> DEFINE c == CHOOSE x \in s : \A j \in s : x <= j
  <1>1. c \in s /\ \A j \in s : c <= j
    OBVIOUS
  <1>2. c \in Nat /\ i \in Nat /\ c <= i /\ i <= c
    BY <1>1
  <1> HIDE DEF c
  <1>3. c = i
    BY <1>2
  <1> QED BY <1>3 DEF c

LEMMA NextParameterType ==
  ASSUME NEW str \in Seq(Chars), NEW p \in 1..Len(str) + 1
  PROVE  /\ NextParameter(str, p) \in 0..Len(str) + 1
         /\ NextParameter(str, p) # 0 => NextParameter(str, p) > p
  <1> DEFINE stops == {q \in p..Len(str) : str[q] \in Blanks \cup {Amp}}
             q0 == CHOOSE q \in stops : \A r \in stops : q <= r
  <1>1. Len(str) \in Nat /\ stops \subseteq Nat
    OBVIOUS
  <1>2. CASE stops = {}
    <2>1. NextParameter(str, p) = 0
      BY <1>2 DEF NextParameter, NotFound
    <2> QED BY <1>1, <2>1
  <1>3. CASE stops # {}
    <2>1. \E q \in stops : \A r \in stops : q <= r
      <3> HIDE DEF stops
      <3> QED BY <1>1, <1>3, FirstExists
    <2>2. q0 \in stops
      <3> HIDE DEF stops
      <3> QED BY <2>1
    <2>3. NextParameter(str, p) = IF str[q0] = Amp THEN q0 + 1 ELSE 0
      BY <1>3 DEF NextParameter, NotFound
    <2>4. q0 \in p..Len(str)
      <3> HIDE DEF q0
      <3> QED BY <2>2
    <2> HIDE DEF q0, stops
    <2> QED BY <1>1, <2>3, <2>4
  <1> QED BY <1>2, <1>3

\* If the first character that ends the parameter at p is at q.
LEMMA NextParameterAt ==
  ASSUME NEW str \in Seq(Chars), NEW p \in Nat, p >= 1, NEW q \in p..Len(str),
         str[q] \in Blanks \cup {Amp},
         \A r \in p..q - 1 : str[r] \notin Blanks \cup {Amp}
  PROVE  NextParameter(str, p) = IF str[q] = Amp THEN q + 1 ELSE NotFound
  <1> DEFINE stops == {r \in p..Len(str) : str[r] \in Blanks \cup {Amp}}
  <1>1. stops \subseteq Nat /\ q \in stops
    OBVIOUS
  <1>2. ASSUME NEW r \in stops PROVE q <= r
    <2>1. r \in p..Len(str) /\ str[r] \in Blanks \cup {Amp}
      BY <1>2
    <2>2. ~(r \in p..q - 1)
      BY <2>1
    <2> QED BY <2>1, <2>2
  <1>3. (CHOOSE x \in stops : \A r \in stops : x <= r) = q
    <2> HIDE DEF stops
    <2> QED BY <1>1, <1>2, FirstChosen
  <1>4. stops # {}
    BY <1>1
  <1>5. NextParameter(str, p) =
          IF stops = {} THEN NotFound
          ELSE IF str[CHOOSE x \in stops : \A r \in stops : x <= r] = Amp
               THEN (CHOOSE x \in stops : \A r \in stops : x <= r) + 1 ELSE NotFound
    BY Zenon DEF NextParameter
  <1> HIDE DEF stops
  <1> QED BY <1>3, <1>4, <1>5

LEMMA FindUnfolds ==
  ASSUME NEW str \in Seq(Chars), NEW name \in Seq(NameChars)
  PROVE  \A p \in 0..Len(str) + 1 :
            FindFrom(str, name)[p] =
              IF p = NotFound THEN NotFound
              ELSE IF Named(str, p, name) THEN p + Len(name) + 1
              ELSE FindFrom(str, name)[NextParameter(str, p)]
  <1> DEFINE D == 0..Len(str) + 1
             Stays(p) == p = NotFound \/ Named(str, p, name)
             rank == [p \in D |-> IF p = 0 THEN 0 ELSE Len(str) + 2 - p]
             next == [p \in D |-> IF Stays(p) THEN -1 ELSE NextParameter(str, p)]
             base == [p \in D |-> IF p = NotFound THEN NotFound ELSE p + Len(name) + 1]
             step == [x \in D \X Nat |-> x[2]]
             Is(f) == f = [p \in D |->
                             IF p = NotFound THEN NotFound
                             ELSE IF Named(str, p, name) THEN p + Len(name) + 1
                             ELSE f[NextParameter(str, p)]]
  <1>1. Len(str) \in Nat /\ Len(name) \in Nat /\ NotFound = 0
    BY DEF NotFound
  <1>2. rank \in [D -> Nat]
    BY <1>1
  <1>3. base \in [D -> Nat]
    BY <1>1
  <1>4. step \in [D \X Nat -> Nat]
    OBVIOUS
  <1>5. ASSUME NEW p \in D, ~Stays(p)
        PROVE  /\ p \in 1..Len(str) + 1 /\ NextParameter(str, p) \in D
               /\ NextParameter(str, p) # 0 => NextParameter(str, p) > p
    <2>1. p \in 1..Len(str) + 1
      BY <1>1, <1>5
    <2> QED BY <2>1, NextParameterType
  <1>6. ASSUME NEW p \in D, next[p] \in D PROVE rank[next[p]] < rank[p]
    <2>1. ~Stays(p) /\ next[p] = NextParameter(str, p)
      BY <1>1, <1>6
    <2>2. /\ p \in 1..Len(str) + 1 /\ NextParameter(str, p) \in D
          /\ NextParameter(str, p) # 0 => NextParameter(str, p) > p
      BY <1>5, <2>1
    <2> DEFINE q == NextParameter(str, p)
    <2>3. /\ rank[q] = IF q = 0 THEN 0 ELSE Len(str) + 2 - q
          /\ rank[p] = Len(str) + 2 - p
      BY <2>2
    <2> HIDE DEF q, rank, next
    <2>4. rank[q] < rank[p]
      BY <1>1, <2>2, <2>3 DEF q
    <2> QED BY <2>1, <2>4 DEF q
  <1>d. D = 0..Len(str) + 1
    OBVIOUS
  <1> HIDE DEF D, rank, next, base, step
  <1>7. PICK f : Computes(D, next, Nat, base, step, f)
    BY <1>2, <1>3, <1>4, <1>6, Recursion
  <1>8. /\ f \in [D -> Nat]
        /\ \A p \in D : f[p] = IF next[p] \in D THEN step[<<p, f[next[p]]>>] ELSE base[p]
    BY <1>7 DEF Computes, Value
  <1>9. \A p \in D : f[p] = IF p = NotFound THEN NotFound
                            ELSE IF Named(str, p, name) THEN p + Len(name) + 1
                            ELSE f[NextParameter(str, p)]
    <2> SUFFICES ASSUME NEW p \in D
                 PROVE  f[p] = IF p = NotFound THEN NotFound
                               ELSE IF Named(str, p, name) THEN p + Len(name) + 1
                               ELSE f[NextParameter(str, p)]
      OBVIOUS
    <2>1. CASE Stays(p)
      <3>1. next[p] = -1 /\ -1 \notin D
        BY <1>1, <2>1 DEF next, D
      <3> QED BY <1>8, <2>1, <3>1 DEF base
    <2>2. CASE ~Stays(p)
      <3>1. next[p] = NextParameter(str, p) /\ NextParameter(str, p) \in D
        BY <1>5, <2>2 DEF next
      <3>2. f[p] = step[<<p, f[NextParameter(str, p)]>>] /\ f[NextParameter(str, p)] \in Nat
        BY <1>8, <3>1
      <3> QED BY <2>2, <3>2 DEF step
    <2> QED BY <2>1, <2>2
  <1>10. Is(f)
    BY <1>8, <1>9, Zenon
  <1> DEFINE g == CHOOSE h : Is(h)
  <1>11. Is(g)
    BY <1>10, Zenon
  <1>12. FindFrom(str, name) = g
    BY DEF FindFrom, D
  <1> HIDE DEF g
  <1>13. \A p \in D : g[p] = IF p = NotFound THEN NotFound
                             ELSE IF Named(str, p, name) THEN p + Len(name) + 1
                             ELSE g[NextParameter(str, p)]
    BY <1>11, Zenon
  <1> QED BY <1>12, <1>13, <1>d

\* Where a parameter begins, it is found under its own name only: a name holds no
\* "=".
LEMMA NamedThere ==
  ASSUME NEW params \in Seq(Params), NEW str, NEW at, Laid(params, str, at),
         NEW k \in 1..Len(params), NEW name \in Seq(NameChars)
  PROVE  Named(str, at[k], name) <=> params[k].name = name
  <1> DEFINE own == params[k].name
             s == Parameter(params[k])
             p == at[k]
  <1>1. params[k] \in Params
    OBVIOUS
  <1>2. /\ own \in Seq(NameChars) /\ Len(own) \in Nat /\ Len(s) \in Nat
        /\ Len(s) >= Len(own) + 1
        /\ \A i \in 1..Len(own) : s[i] = own[i]
        /\ s[Len(own) + 1] = Equals
    <2> HIDE DEF own, s
    <2>1. own \in Seq(NameChars) /\ Len(own) \in Nat
      BY <1>1, InsideParameter DEF own
    <2>2. /\ Len(EscapeAll(params[k].text)) \in Nat
          /\ Len(s) = Len(own) + 1 + Len(EscapeAll(params[k].text))
      BY <1>1, InsideParameter DEF own, s
    <2>3. /\ \A i \in 1..Len(own) : s[i] = own[i]
          /\ s[Len(own) + 1] = Equals
      BY <1>1, InsideParameter, Zenon DEF own, s
    <2> QED BY <2>1, <2>2, <2>3
  <1>3. /\ str \in Seq(Chars) /\ Len(str) \in Nat
        /\ p \in Nat /\ p >= 1 /\ p + Len(s) <= Len(str)
        /\ \A i \in 1..Len(s) : str[p + i - 1] = s[i]
    <2>1. p \in Nat \ {0}
      <3>1. k \in 1..Len(params) + 1
        OBVIOUS
      <3> QED BY <3>1 DEF Laid
    <2>2. str \in Seq(Chars) /\ Len(str) \in Nat
      BY DEF Laid
    <2>3. /\ p + Len(s) <= Len(str)
          /\ \A i \in 1..Len(s) : str[p + i - 1] = s[i]
      BY Zenon DEF Laid
    <2> QED BY <2>1, <2>2, <2>3
  <1>4. Len(name) \in Nat /\ \A i \in 1..Len(name) : name[i] \in NameChars
    OBVIOUS
  <1>5. \A i \in 1..Len(own) : own[i] \in NameChars
    BY <1>2
  <1> HIDE DEF own, s, p
  <1>6. ASSUME NEW i \in 1..Len(own) PROVE str[p + i - 1] = own[i]
    <2>1. i \in 1..Len(s)
      BY <1>2
    <2> QED BY <1>2, <1>3, <2>1
  <1>7. str[p + Len(own)] = Equals
    <2>1. Len(own) + 1 \in 1..Len(s) /\ p + (Len(own) + 1) - 1 = p + Len(own)
      BY <1>2, <1>3
    <2> QED BY <1>2, <1>3, <2>1
  <1>8. Equals \notin NameChars
    BY DEF NameChars
  <1> DEFINE b == p + Len(name) - 1
             t == SubSeq(str, p, b)
  <1>9. p + Len(name) <= Len(str) =>
          t \in Seq(Chars) /\ Len(t) = Len(name) /\ \A i \in 1..Len(name) : t[i] = str[p + i - 1]
    <2> SUFFICES ASSUME p + Len(name) <= Len(str)
                 PROVE  t \in Seq(Chars) /\ Len(t) = Len(name)
                        /\ \A i \in 1..Len(name) : t[i] = str[p + i - 1]
      OBVIOUS
    <2>1. b \in Int /\ b >= p - 1 /\ b <= Len(str) /\ b - p + 1 = Len(name)
      BY <1>3, <1>4
    <2> HIDE DEF b
    <2>2. t \in Seq(Chars) /\ Len(t) = b - p + 1
      BY <1>3, <2>1
    <2>3. \A i \in 1..b - p + 1 : t[i] = str[p + i - 1]
      BY <1>3, <2>1
    <2> QED BY <2>1, <2>2, <2>3
  <1> HIDE DEF b, t
  <1>10. Named(str, p, name) <=>
           p + Len(name) <= Len(str) /\ t = name /\ str[p + Len(name)] = Equals
    BY DEF Named, t, b
  <1>11. ASSUME own = name PROVE Named(str, p, name)
    <2>1. p + Len(name) <= Len(str)
      BY <1>2, <1>3, <1>11
    <2>2. \A i \in 1..Len(name) : t[i] = name[i]
      BY <1>6, <1>9, <1>11, <2>1
    <2>3. t = name
      <3>1. t \in Seq(Chars) /\ Len(t) = Len(name)
        BY <1>9, <2>1
      <3>2. name \in Seq(Chars)
        <4>1. NameChars \subseteq Chars
          BY DEF NameChars
        <4> QED BY <4>1, SeqMonotonic
      <3> QED BY <2>2, <3>1, <3>2, SeqEqual
    <2> QED BY <1>7, <1>10, <1>11, <2>1, <2>3
  <1>12. ASSUME Named(str, p, name) PROVE own = name
    <2>1. /\ p + Len(name) <= Len(str) /\ str[p + Len(name)] = Equals
          /\ \A i \in 1..Len(name) : str[p + i - 1] = name[i]
      BY <1>9, <1>10, <1>12
    <2>2. ~(Len(name) < Len(own))
      <3> SUFFICES ASSUME Len(name) < Len(own) PROVE FALSE
        OBVIOUS
      <3>1. Len(name) + 1 \in 1..Len(own) /\ p + (Len(name) + 1) - 1 = p + Len(name)
        BY <1>2, <1>3, <1>4
      <3>2. own[Len(name) + 1] = Equals
        BY <1>6, <2>1, <3>1
      <3> QED BY <1>5, <1>8, <3>1, <3>2
    <2>3. ~(Len(own) < Len(name))
      <3> SUFFICES ASSUME Len(own) < Len(name) PROVE FALSE
        OBVIOUS
      <3>1. Len(own) + 1 \in 1..Len(name) /\ p + (Len(own) + 1) - 1 = p + Len(own)
        BY <1>2, <1>3, <1>4
      <3>2. name[Len(own) + 1] = Equals
        BY <1>7, <2>1, <3>1
      <3> QED BY <1>4, <1>8, <3>1, <3>2
    <2>4. Len(own) = Len(name)
      BY <1>2, <1>4, <2>2, <2>3
    <2>5. \A i \in 1..Len(own) : own[i] = name[i]
      BY <1>6, <2>1, <2>4
    <2> QED BY <1>2, <2>4, <2>5, SeqEqual
  <1> QED BY <1>11, <1>12 DEF own, p

\* From a parameter with another name the search goes on at the next one, if there
\* is one.
LEMMA FindNext ==
  ASSUME NEW params \in Seq(Params), NEW str, NEW at, Laid(params, str, at),
         NEW name \in Seq(NameChars), NEW k \in 1..Len(params)
  PROVE  /\ at[k] \in Nat /\ at[k] >= 1
         /\ FindFrom(str, name)[at[k]] =
              IF params[k].name = name THEN at[k] + Len(name) + 1
              ELSE IF k = Len(params) THEN NotFound
              ELSE FindFrom(str, name)[at[k + 1]]
  <1> DEFINE n == Len(params)
             s == Parameter(params[k])
             p == at[k]
             q == p + Len(s)
             f == FindFrom(str, name)
  <1>1. params[k] \in Params /\ n \in Nat
    OBVIOUS
  <1>2. Len(s) \in Nat /\ \A i \in 1..Len(s) : s[i] \notin Blanks \cup {Amp}
    <2>1. Len(s) \in Nat
      BY JointShape
    <2>2. \A i \in 1..Len(s) : s[i] \notin Blanks \cup {Amp}
      BY <1>1, InsideParameter, Zenon
    <2> QED BY <2>1, <2>2
  <1>3. str \in Seq(Chars) /\ Len(str) \in Nat /\ p \in Nat /\ p >= 1
    <2>1. p \in Nat \ {0}
      <3>1. k \in 1..n + 1
        OBVIOUS
      <3> QED BY <3>1 DEF Laid
    <2>2. str \in Seq(Chars) /\ Len(str) \in Nat
      BY DEF Laid
    <2> QED BY <2>1, <2>2
  <1>4. /\ at[k + 1] = q + 1 /\ q <= Len(str)
        /\ \A i \in 1..Len(s) : str[p + i - 1] = s[i]
        /\ str[q] = IF k = n THEN Space ELSE Amp
    BY Zenon DEF Laid
  <1>5. Named(str, p, name) <=> params[k].name = name
    BY NamedThere
  <1> HIDE DEF s, p, q, n
  <1>6. q \in p..Len(str)
    BY <1>2, <1>3, <1>4 DEF q
  <1>7. ASSUME NEW r \in p..q - 1 PROVE str[r] \notin Blanks \cup {Amp}
    <2> DEFINE i == r - p + 1
    <2>1. i \in 1..Len(s) /\ p + i - 1 = r
      BY <1>2, <1>3 DEF q
    <2> HIDE DEF i
    <2>2. str[r] = s[i]
      BY <1>4, <2>1
    <2> QED BY <1>2, <2>1, <2>2
  <1>8. str[q] \in Blanks \cup {Amp}
    BY <1>4 DEF Blanks
  <1>9. NextParameter(str, p) = IF str[q] = Amp THEN q + 1 ELSE NotFound
    BY <1>3, <1>6, <1>7, <1>8, NextParameterAt
  <1>10. NextParameter(str, p) = IF k = n THEN NotFound ELSE at[k + 1]
    <2>1. Space # Amp
      BY DEF Space, Amp
    <2> QED BY <1>4, <1>9, <2>1
  <1>11. p \in 0..Len(str) + 1 /\ p # NotFound
    BY <1>3, <1>6 DEF NotFound
  <1>12. f[p] = IF Named(str, p, name) THEN p + Len(name) + 1
                ELSE f[NextParameter(str, p)]
    BY <1>3, <1>11, FindUnfolds
  <1>13. f[NotFound] = NotFound
    <2>1. NotFound \in 0..Len(str) + 1
      BY <1>3 DEF NotFound
    <2> QED BY <1>3, <2>1, FindUnfolds
  <1> HIDE DEF f
  <1>14. f[p] = IF params[k].name = name THEN p + Len(name) + 1
                ELSE IF k = n THEN NotFound ELSE f[at[k + 1]]
    BY <1>5, <1>10, <1>12, <1>13
  <1> QED BY <1>3, <1>14 DEF p, n, f

\* The search comes to each parameter that has only others before it.
LEMMA FindSkips ==
  ASSUME NEW params \in Seq(Params), NEW str, NEW at, Laid(params, str, at),
         NEW name \in Seq(NameChars), NEW k \in 1..Len(params),
         \A j \in 1..k - 1 : params[j].name # name
  PROVE  FindVar(str, name) = FindFrom(str, name)[at[k]]
  <1> DEFINE f == FindFrom(str, name)
             T == {m \in Nat : m + 1 <= k => f[1] = f[at[m + 1]]}
  <1>1. Len(params) \in Nat /\ k \in Nat
    OBVIOUS
  <1>2. 0 \in T
    <2>1. at[1] = 1
      BY DEF Laid
    <2> QED BY <2>1
  <1>3. ASSUME NEW m \in Nat, m \in T PROVE m + 1 \in T
    <2> SUFFICES ASSUME (m + 1) + 1 <= k PROVE f[1] = f[at[(m + 1) + 1]]
      OBVIOUS
    <2> DEFINE j == m + 1
    <2>1. j \in 1..Len(params) /\ j \in 1..k - 1 /\ j # Len(params) /\ j <= k
      BY <1>1
    <2>2. f[1] = f[at[j]]
      BY <1>3, <2>1
    <2> HIDE DEF j, f
    <2>3. f[at[j]] = f[at[j + 1]]
      BY <2>1, FindNext DEF f
    <2> QED BY <2>2, <2>3 DEF j
  <1> HIDE DEF T
  <1>4. k - 1 \in Nat /\ (k - 1) + 1 = k
    BY <1>1
  <1>5. k - 1 \in T
    BY <1>2, <1>3, <1>4, Induction
  <1>6. f[1] = f[at[k]]
    BY <1>4, <1>5 DEF T
  <1> QED BY <1>6 DEF FindVar

\* What find_var_value makes of a query: the value of the first parameter with
\* this very name.
LEMMA FindFirst ==
  ASSUME NEW params \in Seq(Params), NEW str, NEW at, Laid(params, str, at),
         NEW name \in Seq(NameChars)
  PROVE  /\ \A k \in 1..Len(params) :
              params[k].name = name /\ (\A j \in 1..k - 1 : params[j].name # name) =>
                FindVar(str, name) = at[k] + Len(name) + 1
         /\ (\A k \in 1..Len(params) : params[k].name # name) =>
              FindVar(str, name) = NotFound
  <1> DEFINE n == Len(params)
  <1>1. n \in Nat
    OBVIOUS
  <1>2. ASSUME NEW k \in 1..n, params[k].name = name,
               \A j \in 1..k - 1 : params[j].name # name
        PROVE  FindVar(str, name) = at[k] + Len(name) + 1
    BY <1>2, FindSkips, FindNext
  <1>3. ASSUME \A k \in 1..n : params[k].name # name, n # 0
        PROVE  FindVar(str, name) = NotFound
    <2>1. n \in 1..n /\ \A j \in 1..n - 1 : j \in 1..n
      BY <1>1, <1>3
    <2>2. FindVar(str, name) = FindFrom(str, name)[at[n]]
      BY <1>3, <2>1, FindSkips
    <2> QED BY <1>3, <2>1, <2>2, FindNext
  <1>4. ASSUME n = 0 PROVE FindVar(str, name) = NotFound
    <2>1. str \in Seq(Chars) /\ Len(str) \in Nat /\ Len(str) >= 1 /\ str[1] = Space
      BY <1>4 DEF Laid
    <2>2. Len(name) \in Nat /\ \A i \in 1..Len(name) : name[i] \in NameChars
      OBVIOUS
    <2>3. Space # Equals /\ Space \notin NameChars /\ Space # Amp /\ Space \in Blanks \cup {Amp}
      BY DEF NameChars, Blanks, Space, Equals, Amp
    <2>4. ~Named(str, 1, name)
      <3> SUFFICES ASSUME Named(str, 1, name) PROVE FALSE
        OBVIOUS
      <3> DEFINE b == 1 + Len(name) - 1
                 t == SubSeq(str, 1, b)
      <3>1. 1 + Len(name) <= Len(str) /\ t = name /\ str[1 + Len(name)] = Equals
        BY DEF Named
      <3>2. Len(name) # 0
        BY <2>1, <2>3, <3>1
      <3>3. b = Len(name) /\ b <= Len(str) /\ 1 \in 1..b
        BY <2>1, <2>2, <3>1, <3>2
      <3> HIDE DEF b
      <3>4. t[1] = str[1]
        BY <2>1, <2>2, <3>3
      <3>5. name[1] \in NameChars
        BY <2>2, <3>3
      <3> QED BY <2>1, <2>3, <3>1, <3>4, <3>5
    <2>5. NextParameter(str, 1) = NotFound
      <3>1. 1 \in 1..Len(str) /\ 1 \in Nat /\ \A r \in 1..1 - 1 : FALSE
        BY <2>1
      <3>2. str[1] \in Blanks \cup {Amp} /\ str[1] # Amp
        BY <2>1, <2>3
      <3> QED BY <2>1, <3>1, <3>2, NextParameterAt
    <2>6. /\ 1 \in 0..Len(str) + 1 /\ NotFound \in 0..Len(str) + 1 /\ 1 # NotFound
      BY <2>1 DEF NotFound
    <2>7. FindFrom(str, name)[1] = FindFrom(str, name)[NotFound]
      BY <2>1, <2>4, <2>5, <2>6, FindUnfolds
    <2>8. FindFrom(str, name)[NotFound] = NotFound
      BY <2>1, <2>6, FindUnfolds
    <2> QED BY <2>7, <2>8 DEF FindVar
  <1> QED BY <1>2, <1>3, <1>4

\* The parameters of a query, in any number, with any names and texts, and a
\* buffer of any length: sb_get_var returns the text of the first parameter with
\* this very name, or its beginning, and then it says so (find_var_value,
\* url_decode).
THEOREM AlwaysReadsQuery ==
  ASSUME NEW params \in Seq(Params), NEW name \in Seq(NameChars), NEW len \in Nat \ {0}
  PROVE  ReadsQuery(params, name, len)
  <1> DEFINE n == Len(params)
             str == Query(params)
             named == {i \in 1..n : params[i].name = name}
             got == GetVar(str, name, len)
             first == CHOOSE i \in named : \A j \in named : i <= j
             text == params[first].text
  <1>1. PICK at : Laid(params, str, at)
    BY QueryLaid
  <1>2. n \in Nat /\ named \subseteq Nat
    OBVIOUS
  <1>3. ReadsQuery(params, name, len) =
          IF named = {} THEN ~got.found
          ELSE /\ got.found
               /\ got.truncated <=> Len(text) >= len - 1
               /\ got.text = IF got.truncated THEN SubSeq(text, 1, len - 1) ELSE text
    BY Zenon DEF ReadsQuery
  <1> HIDE DEF str
  <1>4. CASE named = {}
    <2>1. \A k \in 1..n : params[k].name # name
      BY <1>4
    <2>2. FindVar(str, name) = NotFound
      BY <1>1, <2>1, FindFirst
    <2>3. ~got.found
      BY <2>2 DEF GetVar
    <2> QED BY <1>3, <1>4, <2>3
  <1>5. CASE named # {}
    <2>1. \E i \in named : \A j \in named : i <= j
      <3> HIDE DEF named
      <3> QED BY <1>2, <1>5, FirstExists
    <2>2. first \in named /\ \A j \in named : first <= j
      <3> HIDE DEF named
      <3> QED BY <2>1
    <2> DEFINE k == first
               E == EscapeAll(text)
               s == Parameter(params[k])
               v == at[k] + Len(name) + 1
    <2> HIDE DEF first
    <2>3. k \in 1..n /\ params[k].name = name /\ params[k] \in Params
      BY <2>2
    <2>4. \A j \in 1..k - 1 : params[j].name # name
      <3> SUFFICES ASSUME NEW j \in 1..k - 1, params[j].name = name PROVE FALSE
        OBVIOUS
      <3>1. j \in named /\ ~(k <= j)
        BY <1>2, <2>3
      <3> HIDE DEF named, k
      <3> QED BY <2>2, <3>1 DEF k
    <2>5. FindVar(str, name) = v
      BY <1>1, <2>3, <2>4, FindFirst
    <2>6. /\ str \in Seq(Chars) /\ Len(str) \in Nat /\ at[k] \in Nat /\ at[k] >= 1
          /\ at[k] + Len(s) <= Len(str)
          /\ \A i \in 1..Len(s) : str[at[k] + i - 1] = s[i]
          /\ str[at[k] + Len(s)] \in Stops
      <3>1. at[k] \in Nat /\ at[k] >= 1
        BY <1>1, <2>3, FindNext
      <3>2. str \in Seq(Chars) /\ Len(str) \in Nat
        BY <1>1 DEF Laid
      <3>3. /\ at[k] + Len(s) <= Len(str)
            /\ \A i \in 1..Len(s) : str[at[k] + i - 1] = s[i]
            /\ str[at[k] + Len(s)] = IF k = n THEN Space ELSE Amp
        BY <1>1, <2>3, Zenon DEF Laid
      <3>4. Space \in Stops /\ Amp \in Stops
        BY DEF Stops, Blanks
      <3> QED BY <3>1, <3>2, <3>3, <3>4
    <2>7. /\ text \in Seq(Chars) /\ Len(E) \in Nat /\ Len(name) \in Nat
          /\ Len(s) = Len(name) + 1 + Len(E)
          /\ \A i \in 1..Len(E) : s[Len(name) + 1 + i] = E[i]
      BY <2>3, InsideParameter, Zenon
    <2> HIDE DEF E, s, v, k, text
    <2>8. v \in Nat /\ v >= 1 /\ v + Len(E) = at[k] + Len(s) /\ v + Len(E) <= Len(str)
      BY <2>6, <2>7 DEF v
    <2>9. ASSUME NEW i \in 1..Len(E) PROVE str[v + i - 1] = E[i]
      <3> DEFINE m == Len(name) + 1 + i
      <3>1. m \in 1..Len(s) /\ at[k] + m - 1 = v + i - 1 /\ s[m] = E[i]
        BY <2>6, <2>7 DEF v
      <3> HIDE DEF m
      <3> QED BY <2>6, <3>1
    <2>10. DecodeFrom(str)[v] = text
      BY <2>6, <2>7, <2>8, <2>9, EscapedIsRead DEF E
    <2>11. v # NotFound
      BY <2>8 DEF NotFound
    <2>12. UrlDecode(str, v, len) =
             IF Len(text) < len - 1 THEN [text |-> text, truncated |-> FALSE]
             ELSE [text |-> SubSeq(text, 1, len - 1), truncated |-> TRUE]
      BY <2>10 DEF UrlDecode
    <2>13. got = [found |-> TRUE, text |-> UrlDecode(str, v, len).text,
                  truncated |-> UrlDecode(str, v, len).truncated]
      BY <2>5, <2>11 DEF GetVar
    <2>14. Len(text) \in Nat
      BY <2>7
    <2>15. got.found
           /\ (got.truncated <=> Len(text) >= len - 1)
           /\ got.text = IF got.truncated THEN SubSeq(text, 1, len - 1) ELSE text
      <3> DEFINE l == Len(text)
                 cut == SubSeq(text, 1, len - 1)
      <3>1. l \in Nat /\ UrlDecode(str, v, len) =
              IF l < len - 1 THEN [text |-> text, truncated |-> FALSE]
              ELSE [text |-> cut, truncated |-> TRUE]
        BY <2>12, <2>14
      <3> HIDE DEF l, cut, got
      <3>2. CASE l < len - 1
        BY <2>13, <3>1, <3>2 DEF l
      <3>3. CASE ~(l < len - 1)
        BY <2>13, <3>1, <3>3 DEF l, cut
      <3> QED BY <3>2, <3>3
    <2> QED BY <1>3, <1>5, <2>15, Zenon DEF text, k
  <1> QED BY <1>4, <1>5

-----------------------------------------------------------------------------
(* What Formats states of an input, of every input of its kind.            *)

\* Values that clients stored, in any number: put_value and set_value write what
\* get_values delivers.
THEOREM AlwaysRoundTrip ==
  ASSUME kind = "values" => input \in Seq(Storable)
  PROVE  RoundTrip
  BY AlwaysReadsBack DEF RoundTrip

\* A file of any bytes and any length: get_values accepts it only if it is the
\* encoding of what is delivered.
THEOREM AlwaysAcceptedIsCanonical ==
  ASSUME kind = "file" => input \in Seq(Bytes)
  PROVE  AcceptedIsCanonical
  BY AlwaysCanonical DEF AcceptedIsCanonical

\* Any chunks, cut into two answers anywhere: the body of each is whole and in its
\* memory, or the request is given up (http_response_body_write_callback).
THEOREM AlwaysBodyFits ==
  ASSUME kind = "bodies" => input \in Seq(Sizes)
  PROVE  BodyFits
  <1> SUFFICES ASSUME input \in Seq(Sizes), NEW n \in 0..Len(input)
               PROVE  HoldsAgain(SubSeq(input, 1, n), SubSeq(input, n + 1, Len(input)))
    BY DEF BodyFits
  <1>1. SubSeq(input, 1, n) \in Seq(Sizes) /\ SubSeq(input, n + 1, Len(input)) \in Seq(Sizes)
    OBVIOUS
  <1> QED BY <1>1, BodyHolds

\* Any parameters, in any number, any names asked for and lengths of the buffer:
\* sb_get_var returns the text of the first parameter with the name.
THEOREM AlwaysQueryRoundTrip ==
  ASSUME kind = "query" => input \in Seq(Params)
  PROVE  QueryRoundTrip
  <1> SUFFICES ASSUME input \in Seq(Params), NEW len \in BufLens, NEW name \in Names
               PROVE  ReadsQuery(input, name, len)
    BY DEF QueryRoundTrip
  <1>1. len \in Nat \ {0} /\ name \in Seq(NameChars)
    BY NamesAssumption, BufLensAssumption
  <1> QED BY <1>1, AlwaysReadsQuery
=============================================================================
