------------------------ MODULE ContentTransferProofs ------------------------
(***************************************************************************)
(* Proofs about Manifest and ContentTransfer.                               *)
(*                                                                          *)
(* The first half is about Manifest, for content of any length over any set *)
(* of bytes, every chunk size and both algorithms: the chunks of a content   *)
(* are its bytes in order, and the Merkle root of as many chunks binds each *)
(* of them, although a leftover hash is paired with itself.  Induction is    *)
(* over sets of numbers (Induction below), from the library's fact that < on *)
(* the naturals is well founded: its own induction theorems take an operator, *)
(* which the provers cannot instantiate.                                     *)
(*                                                                          *)
(* The second half is about ContentTransfer, whatever others have stored and *)
(* whatever the station loses, refuses or answers wrongly.  The invariant    *)
(* follows the data.  StoreInv: what stands on the station and what may still *)
(* reach it.  PutInv: where a put stands, and that what it has behind it is  *)
(* on the station.  GetInv: what a get has in its hands is of the content    *)
(* that its address stands for.  HonestInv: and is that content byte for     *)
(* byte, as long as the station has answered what it was asked.              *)
(***************************************************************************)
EXTENDS MCContentTransfer, SequenceTheorems, WellFoundedInduction, TLAPS

-----------------------------------------------------------------------------
(* Numbers.                                                                 *)

\* Every set of numbers has a least one.
LEMMA LeastElement ==
  ASSUME NEW T, T \subseteq Nat, T # {}
  PROVE  \E m \in T : \A k \in T : m <= k
<1> DEFINE R == OpToRel(<, Nat)
<1>1. IsWellFoundedOn(R, Nat)
  BY NatLessThanWellFounded
<1> HIDE DEF R
<1>2. PICK m \in T : \A k \in T : <<k, m>> \notin R
  BY <1>1, WFMin
<1>3. \A k \in T : ~(k < m)
  BY <1>2 DEF R, OpToRel
<1>4. QED BY <1>2, <1>3

\* Induction: a set with 0 and with the successor of each of its numbers has them all.
LEMMA Induction ==
  ASSUME NEW P, 0 \in P, \A n \in Nat : n \in P => n + 1 \in P
  PROVE  Nat \subseteq P
<1> SUFFICES ASSUME NEW x \in Nat, x \notin P
             PROVE  FALSE
  OBVIOUS
<1> DEFINE T == Nat \ P
<1>1. T \subseteq Nat /\ x \in T
  OBVIOUS
<1>2. PICK m \in T : \A k \in T : m <= k
  <2> HIDE DEF T
  <2> QED BY <1>1, LeastElement
<1>3. m \in Nat \ {0} /\ m - 1 \in Nat /\ m = (m - 1) + 1
  BY DEF T
<1>4. m - 1 \in P
  BY <1>2, <1>3
<1>5. QED BY <1>3, <1>4

\* Quotient and remainder.
LEMMA Division ==
  \A a \in Nat, n \in Nat \ {0} :
    /\ a \div n \in Nat
    /\ (a \div n) * n <= a
    /\ a < (a \div n) * n + n
OBVIOUS

\* A smaller multiple is smaller by one n at least.
LEMMA Multiples == \A a, b, n \in Nat : a < b => a * n + n <= b * n
OBVIOUS

-----------------------------------------------------------------------------
(* Chunks.                                                                  *)

\* The number of chunks of L bytes.
Count(L, n) == (L + n - 1) \div n

\* Where chunk k of L bytes ends.
EndOf(L, n, k) == IF k * n < L THEN k * n ELSE L

\* There are just enough chunks for all bytes (manifest.rs do_chunk).
LEMMA CountBounds ==
  ASSUME NEW L \in Nat, NEW n \in Nat \ {0}
  PROVE  /\ Count(L, n) \in Nat
         /\ L <= Count(L, n) * n
         /\ Count(L, n) * n < L + n
BY Division DEF Count

\* None for no bytes, one for no more than n bytes.
LEMMA CountEdges ==
  ASSUME NEW L \in Nat, NEW n \in Nat \ {0}
  PROVE  /\ Count(L, n) = 0 <=> L = 0
         /\ L > n => Count(L, n) > 1
<1> DEFINE c == Count(L, n)
<1>1. c \in Nat /\ L <= c * n /\ c * n < L + n
  BY CountBounds
<1> HIDE DEF c
<1>2. c = 0 => L = 0
  BY <1>1
<1>3. L = 0 => c = 0
  <2>1. c > 0 => c * n >= n
    BY <1>1
  <2>2. QED BY <1>1, <2>1
<1>4. L > n => c > 1
  BY <1>1
<1>5. QED BY <1>2, <1>3, <1>4 DEF c

\* Each chunk lies within the bytes and is not empty; all but the last have n bytes.
LEMMA ChunkBounds ==
  ASSUME NEW L \in Nat, NEW n \in Nat \ {0}, NEW k \in 1..Count(L, n)
  PROVE  /\ (k - 1) * n \in Nat
         /\ EndOf(L, n, k) \in Nat
         /\ (k - 1) * n < EndOf(L, n, k)
         /\ EndOf(L, n, k) <= L
         /\ EndOf(L, n, k) <= k * n
         /\ k < Count(L, n) => EndOf(L, n, k) = k * n
         /\ k = Count(L, n) => EndOf(L, n, k) = L
<1> DEFINE c == Count(L, n)
<1>1. c \in Nat /\ L <= c * n /\ c * n < L + n
  BY CountBounds
<1>2. k \in Nat /\ k >= 1 /\ k <= c
  BY <1>1
<1> HIDE DEF c
<1>3. (k - 1) * n \in Nat /\ k * n \in Nat /\ k * n = (k - 1) * n + n
  BY <1>2
<1>4. k < c => k * n + n <= c * n
  BY <1>1, <1>2, Multiples
<1>5. k = c => k * n = c * n
  OBVIOUS
<1>6. k <= c /\ (k < c \/ k = c)
  BY <1>1, <1>2
<1> DEFINE p == (k - 1) * n  q == k * n  r == c * n
<1>7. /\ p \in Nat /\ q \in Nat /\ q = p + n /\ r \in Nat
      /\ L <= r /\ r < L + n /\ (k < c => q + n <= r) /\ (k = c => q = r)
  BY <1>1, <1>2, <1>3, <1>4, <1>5
<1>8. EndOf(L, n, k) = IF q < L THEN q ELSE L
  BY DEF EndOf
<1> HIDE DEF p, q, r
<1>9. /\ EndOf(L, n, k) \in Nat /\ p < EndOf(L, n, k)
      /\ EndOf(L, n, k) <= L /\ EndOf(L, n, k) <= q
      /\ (k < c => EndOf(L, n, k) = q) /\ (k = c => EndOf(L, n, k) = L)
  BY <1>6, <1>7, <1>8
<1>10. QED BY <1>7, <1>9 DEF c, p, q

\* Every byte lies in one of the chunks.
LEMMA ChunkOf ==
  ASSUME NEW L \in Nat, NEW n \in Nat \ {0}, NEW i \in 1..L
  PROVE  \E k \in 1..Count(L, n) : (k - 1) * n < i /\ i <= EndOf(L, n, k)
<1> DEFINE j == (i - 1) \div n
           c == Count(L, n)
<1>1. i - 1 \in Nat
  OBVIOUS
<1>2. j \in Nat /\ j * n <= i - 1 /\ i - 1 < j * n + n
  BY <1>1, Division
<1>3. c \in Nat /\ L <= c * n
  BY CountBounds
<1> HIDE DEF j, c
<1>4. c <= j => c * n <= j * n
  BY <1>2, <1>3, Multiples
<1>5. j < c
  <2>1. j * n \in Nat /\ c * n \in Nat
    BY <1>2, <1>3
  <2>2. j * n < c * n
    BY <1>2, <1>3, <2>1
  <2>3. QED BY <1>2, <1>3, <1>4, <2>1, <2>2
<1>6. j + 1 \in 1..c /\ ((j + 1) - 1) * n = j * n /\ (j + 1) * n = j * n + n
  BY <1>2, <1>3, <1>5
<1>7. j * n < i /\ i <= (j + 1) * n /\ i <= L
  <2>1. j * n \in Nat
    BY <1>2
  <2>2. QED BY <1>2, <1>6, <2>1
<1>8. i <= EndOf(L, n, j + 1)
  BY <1>7 DEF EndOf
<1>9. QED BY <1>6, <1>7, <1>8 DEF c

\* chunks are the bytes of data over B, n each, in order.
Slices(chunks, data, n, B) ==
  /\ chunks \in Seq(Seq(B))
  /\ Len(chunks) = Count(Len(data), n)
  /\ \A k \in 1..Count(Len(data), n) :
       /\ chunks[k] = SubSeq(data, (k - 1) * n + 1, EndOf(Len(data), n, k))
       /\ chunks[k] \in Seq(B)
       /\ Len(chunks[k]) = EndOf(Len(data), n, k) - (k - 1) * n
       /\ \A i \in 1..Len(chunks[k]) : chunks[k][i] = data[(k - 1) * n + i]

\* What do_chunk makes (manifest.rs do_chunk).
LEMMA ChunkIs ==
  ASSUME NEW B, NEW data \in Seq(B), NEW n \in Nat \ {0}
  PROVE  Slices(do_chunk(data, n), data, n, B)
<1> DEFINE L == Len(data)
           c == Count(L, n)
           chunk(k) == SubSeq(data, (k - 1) * n + 1, EndOf(L, n, k))
<1>1. L \in Nat /\ c \in Nat
  <2>1. L \in Nat
    OBVIOUS
  <2> HIDE DEF L
  <2>2. QED BY <2>1, CountBounds
<1>2. do_chunk(data, n) = [k \in 1..c |-> chunk(k)]
  BY DEF do_chunk, Count, EndOf
<1>3. ASSUME NEW k \in 1..c
      PROVE  /\ chunk(k) \in Seq(B)
             /\ Len(chunk(k)) = EndOf(L, n, k) - (k - 1) * n
             /\ \A i \in 1..Len(chunk(k)) : chunk(k)[i] = data[(k - 1) * n + i]
  <2>1. /\ (k - 1) * n \in Nat /\ EndOf(L, n, k) \in Nat
        /\ (k - 1) * n < EndOf(L, n, k) /\ EndOf(L, n, k) <= L
    BY <1>1, ChunkBounds
  <2> DEFINE p == (k - 1) * n
             e == EndOf(L, n, k)
  <2> HIDE DEF p, e
  <2>2. p \in Nat /\ e \in Nat /\ p < e /\ e <= Len(data)
    BY <2>1 DEF p, e
  <2>3. /\ SubSeq(data, p + 1, e) \in Seq(B)
        /\ Len(SubSeq(data, p + 1, e)) = e - p
        /\ \A i \in 1..(e - p) : SubSeq(data, p + 1, e)[i] = data[p + i]
    BY <2>2, SubSeqProperties
  <2>4. QED BY <2>3 DEF p, e
<1> HIDE DEF chunk, c
<1>4. [k \in 1..c |-> chunk(k)] \in [1..c -> Seq(B)]
  BY <1>3
<1>5. do_chunk(data, n) \in Seq(Seq(B)) /\ Len(do_chunk(data, n)) = c
  BY <1>1, <1>2, <1>4
<1>6. \A k \in 1..c : do_chunk(data, n)[k] = chunk(k)
  BY <1>2
<1>7. QED BY <1>3, <1>5, <1>6 DEF chunk, c, Slices

\* Content of one length in the same chunks is the same content.
LEMMA ChunksDetermine ==
  ASSUME NEW B, NEW data \in Seq(B), NEW other \in Seq(B), NEW n \in Nat \ {0},
         Len(data) = Len(other), do_chunk(data, n) = do_chunk(other, n)
  PROVE  data = other
<1> DEFINE L == Len(data)
<1>1. Slices(do_chunk(data, n), data, n, B)
  BY ChunkIs
<1>2. Slices(do_chunk(other, n), other, n, B)
  BY ChunkIs
<1>3. ASSUME NEW i \in 1..L
      PROVE  data[i] = other[i]
  <2>1. PICK k \in 1..Count(L, n) : (k - 1) * n < i /\ i <= EndOf(L, n, k)
    BY ChunkOf
  <2>2. (k - 1) * n \in Nat /\ EndOf(L, n, k) \in Nat
    BY ChunkBounds
  <2>3. /\ Len(do_chunk(data, n)[k]) = EndOf(L, n, k) - (k - 1) * n
        /\ \A j \in 1..Len(do_chunk(data, n)[k]) :
             do_chunk(data, n)[k][j] = data[(k - 1) * n + j]
    BY <1>1 DEF Slices
  <2>4. \A j \in 1..Len(do_chunk(other, n)[k]) :
          do_chunk(other, n)[k][j] = other[(k - 1) * n + j]
    BY <1>2 DEF Slices
  <2> DEFINE p == (k - 1) * n
  <2> HIDE DEF p
  <2>5. p \in Nat /\ p < i /\ i <= EndOf(L, n, k) /\ EndOf(L, n, k) \in Nat
    BY <2>1, <2>2 DEF p
  <2>6. i - p \in 1..(EndOf(L, n, k) - p) /\ p + (i - p) = i
    BY <2>5
  <2>7. QED BY <2>3, <2>4, <2>6 DEF p
<1>4. QED BY <1>3, SeqEqual

-----------------------------------------------------------------------------
(* The Merkle fold.                                                         *)

\* A list of hashes, of whatever they are.
IsList(h) == Len(h) \in Nat /\ h = [i \in 1..Len(h) |-> h[i]]

\* A function on 1..m is a list of m.
LEMMA ListLen ==
  ASSUME NEW m \in Nat, NEW h, h = [i \in 1..m |-> h[i]]
  PROVE  Len(h) = m /\ IsList(h)
<1>1. h \in [1..m -> {h[i] : i \in 1..m}]
  OBVIOUS
<1>2. h \in Seq({h[i] : i \in 1..m}) /\ Len(h) = m
  BY <1>1
<1>3. QED BY <1>2 DEF IsList

\* The length of a list after a pass.
Merged(n) == IF n > 1 THEN (n + 1) \div 2 ELSE n

\* A pass shortens every list of two hashes or more, and leaves at least one.
LEMMA MergedBounds ==
  \A n \in Nat : /\ Merged(n) \in Nat
                 /\ n > 1 => 1 <= Merged(n) /\ Merged(n) < n
                 /\ n >= 1 => 1 <= Merged(n)
                 /\ n <= 1 => Merged(n) = n
BY DEF Merged

\* What a pass makes of a list, by places (manifest.rs combine).
LEMMA MergeIs ==
  ASSUME NEW h, IsList(h), NEW alg
  PROVE  IsList(merge(h, alg)) /\ Len(merge(h, alg)) = Merged(Len(h))
<1>1. CASE Len(h) > 1
  <2> DEFINE m == (Len(h) + 1) \div 2
  <2>1. m \in Nat
    BY DEF IsList
  <2>2. merge(h, alg) = combine(h, alg) /\ Merged(Len(h)) = m
    BY <1>1 DEF merge, Merged
  <2>3. combine(h, alg) = [k \in 1..m |-> combine(h, alg)[k]]
    BY DEF combine
  <2> HIDE DEF m
  <2>4. QED BY <2>1, <2>2, <2>3, ListLen
<1>2. CASE ~(Len(h) > 1)
  BY <1>2 DEF merge, Merged
<1>3. QED BY <1>1, <1>2

\* A hash stands in the pair that it is hashed with: at its first place when the place
\* is odd, at the second when it is even (manifest.rs combine).
LEMMA MergeInjective ==
  ASSUME NEW g, IsList(g), NEW h, IsList(h), Len(g) = Len(h), NEW alg,
         merge(g, alg) = merge(h, alg)
  PROVE  g = h
<1>1. CASE Len(g) > 1
  <2>1. combine(g, alg) = combine(h, alg)
    BY <1>1 DEF merge
  <2>2. ASSUME NEW i \in 1..Len(g)
        PROVE  g[i] = h[i]
    <3> DEFINE k == (i + 1) \div 2
               second(f) == f[IF 2 * k <= Len(f) THEN 2 * k ELSE 2 * k - 1]
    <3>1. k \in 1..((Len(g) + 1) \div 2)
      BY DEF IsList
    <3>2. /\ combine(g, alg)[k] = Hash(alg, <<g[2 * k - 1], second(g)>>)
          /\ combine(h, alg)[k] = Hash(alg, <<h[2 * k - 1], second(h)>>)
      BY <3>1 DEF combine
    <3>3. g[2 * k - 1] = h[2 * k - 1] /\ second(g) = second(h)
      <4> HIDE DEF k, second
      <4>1. Hash(alg, <<g[2 * k - 1], second(g)>>) = Hash(alg, <<h[2 * k - 1], second(h)>>)
        BY <2>1, <3>2
      <4>2. <<g[2 * k - 1], second(g)>> = <<h[2 * k - 1], second(h)>>
        BY <4>1 DEF Hash
      <4>3. QED BY <4>2
    <3>4. i \in Nat /\ (i = 2 * k - 1 \/ (i = 2 * k /\ 2 * k <= Len(g)))
      BY DEF IsList
    <3> HIDE DEF k
    <3>5. QED BY <3>3, <3>4
  <2>3. QED BY <2>2 DEF IsList
<1>2. CASE ~(Len(g) > 1)
  BY <1>2 DEF merge
<1>3. QED BY <1>1, <1>2

\* The levels exist: the recursion is over finitely many passes.
LEMMA LevelsAre ==
  ASSUME NEW leaves, IsList(leaves), NEW alg
  PROVE  /\ levels(leaves, alg)[0] = leaves
         /\ \A k \in 1..Len(leaves) :
              levels(leaves, alg)[k] = merge(levels(leaves, alg)[k - 1], alg)
<1> DEFINE n == Len(leaves)
           Upto(g, m) == /\ g = [k \in 0..m |-> g[k]]
                         /\ g[0] = leaves
                         /\ \A k \in 1..m : g[k] = merge(g[k - 1], alg)
           P == {m \in Nat : \E g : Upto(g, m)}
           Defines(g) == g = [k \in 0..n |-> IF k = 0 THEN leaves ELSE merge(g[k - 1], alg)]
<1>1. n \in Nat
  BY DEF IsList
<1>2. 0 \in P
  <2>1. Upto([k \in 0..0 |-> leaves], 0)
    OBVIOUS
  <2>2. QED BY <2>1
<1>3. ASSUME NEW m \in Nat, m \in P
      PROVE  m + 1 \in P
  <2>1. PICK g : Upto(g, m)
    BY <1>3
  <2> DEFINE f == [k \in 0..(m + 1) |-> IF k = m + 1 THEN merge(g[m], alg) ELSE g[k]]
  <2>2. f = [k \in 0..(m + 1) |-> f[k]] /\ f[0] = leaves
    BY <2>1
  <2>3. ASSUME NEW k \in 1..(m + 1)
        PROVE  f[k] = merge(f[k - 1], alg)
    <3>1. k - 1 \in 0..(m + 1) /\ k - 1 # m + 1 /\ k \in 0..(m + 1)
      OBVIOUS
    <3>2. f[k - 1] = g[k - 1]
      BY <3>1
    <3>3. CASE k = m + 1
      <4>1. f[k] = merge(g[m], alg) /\ k - 1 = m
        BY <3>1, <3>3
      <4>2. QED BY <3>2, <4>1
    <3>4. CASE k # m + 1
      <4>1. k \in 1..m /\ f[k] = g[k]
        BY <3>1, <3>4
      <4>2. QED BY <2>1, <3>2, <4>1
    <3>5. QED BY <3>3, <3>4
  <2>4. Upto(f, m + 1)
    <3> HIDE DEF f
    <3> QED BY <2>2, <2>3
  <2> HIDE DEF f, Upto
  <2>5. QED BY <2>4
<1>4. n \in P
  <2> HIDE DEF P
  <2> QED BY <1>1, <1>2, <1>3, Induction
<1>5. PICK g : Upto(g, n)
  BY <1>4
<1>6. Defines(g)
  <2>1. \A k \in 0..n : g[k] = IF k = 0 THEN leaves ELSE merge(g[k - 1], alg)
    BY <1>1, <1>5
  <2>2. QED BY <1>5, <2>1
<1>7. levels(leaves, alg) = CHOOSE f : Defines(f)
  BY DEF levels
<1>8. Defines(levels(leaves, alg))
  <2> HIDE DEF Defines
  <2> QED BY <1>6, <1>7
<1>9. \A k \in 0..n : levels(leaves, alg)[k] =
        IF k = 0 THEN leaves ELSE merge(levels(leaves, alg)[k - 1], alg)
  <2> DEFINE f == levels(leaves, alg)
  <2>1. f = [k \in 0..n |-> IF k = 0 THEN leaves ELSE merge(f[k - 1], alg)]
    BY <1>8
  <2> HIDE DEF f, n
  <2>2. \A k \in 0..n : f[k] = IF k = 0 THEN leaves ELSE merge(f[k - 1], alg)
    BY <2>1
  <2>3. QED BY <2>2 DEF f
<1>10. 0 \in 0..n /\ \A k \in 1..n : k \in 0..n /\ k # 0
  BY <1>1
<1> HIDE DEF n
<1>11. QED BY <1>9, <1>10 DEF n

\* Every level is a list, as long as any level there of as many leaves, and each pass
\* brings it nearer to one hash.
LEMMA LevelsShrink ==
  ASSUME NEW g, IsList(g), NEW h, IsList(h), Len(g) = Len(h), NEW alg
  PROVE  \A k \in 0..Len(g) :
           /\ IsList(levels(g, alg)[k]) /\ IsList(levels(h, alg)[k])
           /\ Len(levels(g, alg)[k]) = Len(levels(h, alg)[k])
           /\ Len(g) >= 1 => /\ Len(levels(g, alg)[k]) >= 1
                             /\ \/ Len(levels(g, alg)[k]) = 1
                                \/ Len(levels(g, alg)[k]) <= Len(g) - k
<1> DEFINE n == Len(g)
           a == levels(g, alg)
           b == levels(h, alg)
           Good(k) == /\ IsList(a[k]) /\ IsList(b[k]) /\ Len(a[k]) = Len(b[k])
                      /\ n >= 1 => /\ Len(a[k]) >= 1
                                   /\ Len(a[k]) = 1 \/ Len(a[k]) <= n - k
           P == {k \in Nat : k <= n => Good(k)}
<1>1. n \in Nat
  BY DEF IsList
<1>2. /\ a[0] = g /\ b[0] = h
      /\ \A k \in 1..n : a[k] = merge(a[k - 1], alg) /\ b[k] = merge(b[k - 1], alg)
  BY LevelsAre
<1> HIDE DEF a, b
<1>3. 0 \in P
  BY <1>1, <1>2
<1>4. ASSUME NEW k \in Nat, k \in P
      PROVE  k + 1 \in P
  <2> SUFFICES ASSUME k + 1 <= n
               PROVE  Good(k + 1)
    OBVIOUS
  <2>1. Good(k)
    BY <1>1, <1>4
  <2>2. a[k + 1] = merge(a[k], alg) /\ b[k + 1] = merge(b[k], alg)
    <3>1. k + 1 \in 1..n /\ (k + 1) - 1 = k
      BY <1>1
    <3>2. QED BY <1>2, <3>1
  <2>3. /\ IsList(a[k + 1]) /\ IsList(b[k + 1])
        /\ Len(a[k + 1]) = Merged(Len(a[k])) /\ Len(b[k + 1]) = Merged(Len(b[k]))
    BY <2>1, <2>2, MergeIs
  <2>4. Len(a[k]) \in Nat
    BY <2>1 DEF IsList
  <2>5. n >= 1 => /\ Len(a[k + 1]) >= 1
                  /\ Len(a[k + 1]) = 1 \/ Len(a[k + 1]) <= n - (k + 1)
    <3> DEFINE x == Len(a[k])
               y == Len(a[k + 1])
    <3>1. x \in Nat /\ y \in Nat /\ (x >= 1 => y >= 1) /\ (x > 1 => y < x) /\ (x <= 1 => y = x)
      BY <2>3, <2>4, MergedBounds
    <3>2. n >= 1 => x >= 1 /\ (x = 1 \/ x <= n - k)
      BY <2>1
    <3> HIDE DEF x, y, n
    <3>3. n >= 1 => y >= 1 /\ (y = 1 \/ y <= n - (k + 1))
      BY <1>1, <3>1, <3>2
    <3>4. QED BY <3>3 DEF x, y, n
  <2>6. QED BY <2>1, <2>3, <2>5
<1>5. Nat \subseteq P
  <2> HIDE DEF P
  <2> QED BY <1>3, <1>4, Induction
<1>6. \A k \in 0..n : Good(k)
  BY <1>1, <1>5
<1>7. QED BY <1>6 DEF a, b

\* As many leaves with the same root are the same leaves: the passes are undone one by
\* one, from the root down (manifest.rs root_hash_for).
LEMMA RootInjective ==
  ASSUME NEW g, IsList(g), NEW h, IsList(h), Len(g) = Len(h), Len(g) >= 1, NEW alg,
         levels(g, alg)[Len(g)][1] = levels(h, alg)[Len(h)][1]
  PROVE  g = h
<1> DEFINE n == Len(g)
           a == levels(g, alg)
           b == levels(h, alg)
           P == {k \in Nat : k <= n => a[n - k] = b[n - k]}
<1>1. n \in Nat /\ n >= 1 /\ a[n][1] = b[n][1]
  BY DEF IsList
<1>2. /\ a[0] = g /\ b[0] = h
      /\ \A k \in 1..n : a[k] = merge(a[k - 1], alg) /\ b[k] = merge(b[k - 1], alg)
  BY LevelsAre
<1>3. \A k \in 0..n : /\ IsList(a[k]) /\ IsList(b[k]) /\ Len(a[k]) = Len(b[k])
                      /\ Len(a[k]) >= 1
                      /\ Len(a[k]) = 1 \/ Len(a[k]) <= n - k
  BY LevelsShrink
<1> HIDE DEF n, a, b
<1>4. 0 \in P
  <2>1. /\ IsList(a[n]) /\ IsList(b[n]) /\ Len(a[n]) = Len(b[n])
        /\ Len(a[n]) >= 1 /\ (Len(a[n]) = 1 \/ Len(a[n]) <= n - n)
    BY <1>1, <1>3
  <2>2. Len(a[n]) = 1 /\ Len(b[n]) = 1
    BY <1>1, <2>1 DEF IsList
  <2>3. a[n] = [i \in 1..1 |-> a[n][i]] /\ b[n] = [i \in 1..1 |-> b[n][i]]
    BY <2>1, <2>2 DEF IsList
  <2>4. \A i \in 1..1 : a[n][i] = b[n][i]
    BY <1>1
  <2>5. a[n] = b[n]
    BY <2>3, <2>4
  <2>6. n - 0 = n
    BY <1>1
  <2>7. QED BY <2>5, <2>6
<1>5. ASSUME NEW k \in Nat, k \in P
      PROVE  k + 1 \in P
  <2> SUFFICES ASSUME k + 1 <= n
               PROVE  a[n - (k + 1)] = b[n - (k + 1)]
    OBVIOUS
  <2> DEFINE i == n - (k + 1)
  <2>1. i \in 0..n /\ i + 1 \in 1..n /\ n - k = i + 1 /\ (i + 1) - 1 = i
    BY <1>1
  <2>2. a[i + 1] = b[i + 1]
    BY <1>1, <1>5, <2>1
  <2> HIDE DEF i
  <2>3. merge(a[i], alg) = merge(b[i], alg)
    BY <1>2, <2>1, <2>2
  <2>4. IsList(a[i]) /\ IsList(b[i]) /\ Len(a[i]) = Len(b[i])
    BY <1>3, <2>1
  <2>5. a[i] = b[i]
    BY <2>3, <2>4, MergeInjective
  <2>6. QED BY <2>5 DEF i
<1>6. Nat \subseteq P
  <2> HIDE DEF P
  <2> QED BY <1>4, <1>5, Induction
<1>7. a[n - n] = b[n - n]
  BY <1>1, <1>6
<1>8. n - n = 0
  BY <1>1
<1>9. QED BY <1>2, <1>7, <1>8

-----------------------------------------------------------------------------
(* Manifests.                                                               *)

\* The leaves of the tree over a content.
Leaves(data, n, alg) == [k \in 1..Count(Len(data), n) |-> Hash(alg, do_chunk(data, n)[k])]

\* The root of a content is the fold over the hashes of its chunks, and that of nothing
\* the hash of nothing (manifest.rs chunk_infos, root_hash_for).
LEMMA RootIs ==
  ASSUME NEW B, NEW data \in Seq(B), NEW n \in Nat \ {0}, NEW alg
  PROVE  /\ IsList(chunk_infos(do_chunk(data, n), alg))
         /\ Len(chunk_infos(do_chunk(data, n), alg)) = Count(Len(data), n)
         /\ \A k \in 1..Count(Len(data), n) :
              chunk_infos(do_chunk(data, n), alg)[k].hash = Hash(alg, do_chunk(data, n)[k])
         /\ IsList(Leaves(data, n, alg))
         /\ Len(Leaves(data, n, alg)) = Count(Len(data), n)
         /\ RootOf(data, n, alg) =
              IF data = <<>> THEN Hash(alg, <<>>)
              ELSE levels(Leaves(data, n, alg), alg)[Len(Leaves(data, n, alg))][1]
<1> DEFINE c == Count(Len(data), n)
           chunks == do_chunk(data, n)
           infos == chunk_infos(chunks, alg)
<1>1. Len(data) \in Nat /\ (Len(data) = 0 <=> data = <<>>)
  BY EmptySeq, LenProperties
<1>2. c \in Nat /\ (c = 0 <=> Len(data) = 0)
  <2> DEFINE L == Len(data)
  <2> HIDE DEF L
  <2>1. L \in Nat => Count(L, n) \in Nat /\ (Count(L, n) = 0 <=> L = 0)
    BY CountBounds, CountEdges
  <2>2. QED BY <1>1, <2>1 DEF L
<1>3. DOMAIN chunks = 1..c
  BY DEF do_chunk, Count
<1> HIDE DEF c, chunks
<1>4. /\ DOMAIN infos = 1..c
      /\ infos = [k \in 1..c |-> infos[k]]
      /\ \A k \in 1..c : infos[k].hash = Hash(alg, chunks[k])
  BY <1>3 DEF chunk_infos
<1> HIDE DEF infos
<1>5. IsList(infos) /\ Len(infos) = c
  BY <1>2, <1>4, ListLen
<1>6. Leaves(data, n, alg) = [i \in DOMAIN infos |-> infos[i].hash]
  BY <1>4 DEF Leaves, c, chunks
<1>7. IsList(Leaves(data, n, alg)) /\ Len(Leaves(data, n, alg)) = c
  <2>1. Leaves(data, n, alg) = [k \in 1..c |-> Leaves(data, n, alg)[k]]
    BY DEF Leaves, c
  <2>2. QED BY <1>2, <2>1, ListLen
<1>8. infos = <<>> <=> data = <<>>
  <2>1. infos = <<>> => c = 0
    BY <1>5
  <2>2. c = 0 => infos = <<>>
    BY <1>4
  <2>3. QED BY <1>1, <1>2, <2>1, <2>2
<1>9. RootOf(data, n, alg) =
        IF infos = <<>> THEN Hash(alg, <<>>)
        ELSE levels(Leaves(data, n, alg), alg)[Len(Leaves(data, n, alg))][1]
  BY <1>6 DEF RootOf, root_hash_for, infos, chunks
<1>10. QED BY <1>4, <1>5, <1>7, <1>8, <1>9 DEF c, chunks, infos

\* The root binds the content, given its length: no two contents of one length have the
\* same root under one chunk size and algorithm, although the pairing of a leftover hash
\* with itself gives <<a, b, c>> and <<a, b, c, c>> one root (manifest.rs verify, combine).
THEOREM RootBinds ==
  ASSUME NEW B, NEW data \in Seq(B), NEW other \in Seq(B), NEW n \in Nat \ {0}, NEW alg,
         Len(data) = Len(other), RootOf(data, n, alg) = RootOf(other, n, alg)
  PROVE  data = other
<1> DEFINE g == Leaves(data, n, alg)
           h == Leaves(other, n, alg)
<1>1. /\ IsList(g) /\ Len(g) = Count(Len(data), n)
      /\ RootOf(data, n, alg) =
           IF data = <<>> THEN Hash(alg, <<>>) ELSE levels(g, alg)[Len(g)][1]
  BY RootIs
<1>2. /\ IsList(h) /\ Len(h) = Count(Len(other), n)
      /\ RootOf(other, n, alg) =
           IF other = <<>> THEN Hash(alg, <<>>) ELSE levels(h, alg)[Len(h)][1]
  BY RootIs
<1> HIDE DEF g, h
<1>3. Len(data) \in Nat /\ (Len(data) = 0 <=> data = <<>>) /\ (Len(other) = 0 <=> other = <<>>)
  BY EmptySeq, LenProperties
<1>4. CASE data = <<>>
  BY <1>3, <1>4
<1>5. CASE data # <<>>
  <2>1. other # <<>> /\ Len(data) # 0
    BY <1>3, <1>5
  <2>2. Len(g) = Len(h) /\ levels(g, alg)[Len(g)][1] = levels(h, alg)[Len(h)][1]
    <3>1. RootOf(data, n, alg) = levels(g, alg)[Len(g)][1]
      BY <1>1, <1>5
    <3>2. RootOf(other, n, alg) = levels(h, alg)[Len(h)][1]
      BY <1>2, <2>1
    <3>3. levels(g, alg)[Len(g)][1] = levels(h, alg)[Len(h)][1]
      BY <3>1, <3>2
    <3>4. Len(g) = Len(h)
      BY <1>1, <1>2
    <3>5. QED BY <3>3, <3>4
  <2>3. Len(g) >= 1
    <3> DEFINE L == Len(data)
    <3> HIDE DEF L
    <3>1. L \in Nat /\ L # 0 => Count(L, n) \in Nat /\ Count(L, n) # 0
      BY CountBounds, CountEdges
    <3>2. QED BY <1>1, <1>3, <2>1, <3>1 DEF L
  <2>4. g = h
    BY <1>1, <1>2, <2>2, <2>3, RootInjective
  <2>5. do_chunk(data, n) = do_chunk(other, n)
    <3> DEFINE c == Count(Len(data), n)
    <3>1. do_chunk(data, n) = [k \in 1..c |-> do_chunk(data, n)[k]]
      BY DEF do_chunk, Count
    <3>2. do_chunk(other, n) = [k \in 1..c |-> do_chunk(other, n)[k]]
      BY DEF do_chunk, Count
    <3>3. ASSUME NEW k \in 1..c
          PROVE  do_chunk(data, n)[k] = do_chunk(other, n)[k]
      <4>1. g[k] = Hash(alg, do_chunk(data, n)[k]) /\ h[k] = Hash(alg, do_chunk(other, n)[k])
        BY DEF g, h, Leaves
      <4>2. QED BY <2>4, <4>1 DEF Hash
    <3> HIDE DEF c
    <3>4. QED BY <3>1, <3>2, <3>3
  <2>6. QED BY <2>5, ChunksDetermine
<1>6. QED BY <1>4, <1>5

\* What create writes down (manifest.rs create).
LEMMA CreateIs ==
  ASSUME NEW B, NEW data \in Seq(B), NEW name, NEW n \in Nat \ {0}, NEW alg
  PROVE  LET m == create(data, name, n, alg)
         IN /\ m.size = Len(data) /\ m.chunk_size = n /\ m.hash_algorithm = alg
            /\ m.chunk_count = Count(Len(data), n)
            /\ m.root_hash = RootOf(data, n, alg)
            /\ m.mcid = compute_mcid(name, Len(data), n, m.chunk_count, alg, m.root_hash)
            /\ mcid_is_chunked(m.mcid)
            /\ IsList(m.chunks) /\ Len(m.chunks) = m.chunk_count
            /\ DOMAIN m.chunks = 1..m.chunk_count
            /\ \A k \in 1..m.chunk_count : m.chunks[k].hash = Hash(alg, do_chunk(data, n)[k])
<1> DEFINE infos == chunk_infos(do_chunk(data, n), alg)
           m == create(data, name, n, alg)
<1>1. /\ IsList(infos) /\ Len(infos) = Count(Len(data), n)
      /\ \A k \in 1..Count(Len(data), n) : infos[k].hash = Hash(alg, do_chunk(data, n)[k])
  <2>1. IsList(infos) /\ Len(infos) = Count(Len(data), n)
    BY RootIs
  <2>2. \A k \in 1..Count(Len(data), n) : infos[k].hash = Hash(alg, do_chunk(data, n)[k])
    <3> SUFFICES ASSUME NEW k \in 1..Count(Len(data), n)
                 PROVE  infos[k].hash = Hash(alg, do_chunk(data, n)[k])
      OBVIOUS
    <3> QED BY RootIs
  <2>3. QED BY <2>1, <2>2
<1>2. DOMAIN infos = 1..Len(infos)
  <2> HIDE DEF infos
  <2> QED BY <1>1 DEF IsList
<1>3. /\ m.size = Len(data) /\ m.chunk_size = n /\ m.hash_algorithm = alg
      /\ m.chunk_count = Len(infos)
      /\ m.root_hash = RootOf(data, n, alg)
      /\ m.mcid = compute_mcid(name, Len(data), n, m.chunk_count, alg, m.root_hash)
      /\ m.chunks = infos
  BY DEF create, RootOf
<1>4. mcid_is_chunked(m.mcid)
  BY <1>3 DEF mcid_is_chunked, compute_mcid
<1> HIDE DEF infos, m
<1>5. QED BY <1>1, <1>2, <1>3, <1>4 DEF m

\* A manifest binds its content: verify accepts the data it was made of and no other
\* (manifest.rs create, verify).
THEOREM VerifyBinds ==
  ASSUME NEW B, NEW data \in Seq(B), NEW other \in Seq(B), NEW name, NEW n \in Nat \ {0},
         NEW alg
  PROVE  verify(create(data, name, n, alg), other) <=> other = data
<1> DEFINE m == create(data, name, n, alg)
<1>1. /\ m.size = Len(data) /\ m.chunk_size = n /\ m.hash_algorithm = alg
      /\ m.root_hash = RootOf(data, n, alg)
  BY CreateIs
<1> HIDE DEF m
<1>2. verify(m, other) <=> Len(other) = Len(data) /\ RootOf(other, n, alg) = RootOf(data, n, alg)
  BY <1>1 DEF verify
<1>3. QED BY <1>2, RootBinds DEF m

\* And so does its address, though it leaves the list of chunks out: manifests with one
\* address are of one content, whoever made them (manifest.rs compute_mcid).
THEOREM AddressBinds ==
  ASSUME NEW B, NEW data \in Seq(B), NEW other \in Seq(B),
         NEW name, NEW n \in Nat \ {0}, NEW alg,
         NEW nameO, NEW nO \in Nat \ {0}, NEW algO,
         create(data, name, n, alg).mcid = create(other, nameO, nO, algO).mcid
  PROVE  data = other
<1> DEFINE m == create(data, name, n, alg)
           o == create(other, nameO, nO, algO)
<1>1. /\ m.root_hash = RootOf(data, n, alg)
      /\ m.mcid = compute_mcid(name, Len(data), n, m.chunk_count, alg, m.root_hash)
  BY CreateIs
<1>2. /\ o.root_hash = RootOf(other, nO, algO)
      /\ o.mcid = compute_mcid(nameO, Len(other), nO, o.chunk_count, algO, o.root_hash)
  BY CreateIs
<1> HIDE DEF m, o
<1>3. compute_mcid(name, Len(data), n, m.chunk_count, alg, m.root_hash)
        = compute_mcid(nameO, Len(other), nO, o.chunk_count, algO, o.root_hash)
  BY <1>1, <1>2 DEF m, o
<1>4. \A a1, a2, a3, a4, a5, a6, c1, c2, c3, c4, c5, c6 :
        compute_mcid(a1, a2, a3, a4, a5, a6) = compute_mcid(c1, c2, c3, c4, c5, c6)
          => a2 = c2 /\ a3 = c3 /\ a5 = c5 /\ a6 = c6
  BY DEF compute_mcid, Hash
<1>5. Len(data) = Len(other) /\ n = nO /\ alg = algO /\ m.root_hash = o.root_hash
  BY <1>3, <1>4
<1>6. QED BY <1>1, <1>2, <1>5, RootBinds

\* On the run's byte strings, chunk sizes and algorithms, whatever they are: verify accepts the
\* data that a manifest was made of and no other, and equal addresses mean equal data
\* (manifest.rs verify, compute_mcid, combine).
THEOREM ManifestsBind ==
  ASSUME MaxChunk \in Nat
  PROVE  ManifestBinds
<1>1. \A data \in Data : data \in Seq(Bytes)
  BY DEF Data
<1>2. \A size \in Sizes : size \in Nat \ {0}
  BY DEF Sizes
<1>3. ASSUME NEW size \in Sizes, NEW alg \in Algorithms, NEW data \in Data, NEW other \in Data
      PROVE  /\ verify(create(data, "n", size, alg), other) <=> other = data
             /\ create(data, "n", size, alg).mcid = create(other, "n", size, alg).mcid
                  => other = data
  BY <1>1, <1>2, VerifyBinds, AddressBinds
<1>4. QED BY <1>3 DEF ManifestBinds

-----------------------------------------------------------------------------
(* What a manifest says of its content.                                     *)

\* g puts the lists of s together, one after the other.
Appends(g, s) ==
  /\ Len(s) \in Nat \ {0}
  /\ IsList(g) /\ Len(g) = Len(s)
  /\ g[1] = s[1]
  /\ \A i \in 2..Len(s) : g[i] = g[i - 1] \o s[i]

\* The recursion of FlattenSeq has no other outcome.
LEMMA FlattenIs ==
  ASSUME NEW g, NEW s, Appends(g, s)
  PROVE  FlattenSeq(s) = g[Len(s)]
<1> DEFINE c == Len(s)
<1>0. /\ c \in Nat \ {0} /\ IsList(g) /\ Len(g) = c /\ g[1] = s[1]
      /\ \A i \in 2..c : g[i] = g[i - 1] \o s[i]
  BY DEF Appends
<1> DEFINE Defines(f) == f = [i \in 1..Len(s) |-> IF i = 1 THEN s[i] ELSE f[i - 1] \o s[i]]
<1>1. Defines(g)
  <2>1. \A i \in 1..c : g[i] = IF i = 1 THEN s[i] ELSE g[i - 1] \o s[i]
    <3>1. \A i \in 1..c : i = 1 \/ i \in 2..c
      OBVIOUS
    <3>2. QED BY <1>0, <3>1
  <2>2. g = [i \in 1..c |-> g[i]]
    BY <1>0 DEF IsList
  <2>3. QED BY <2>1, <2>2
<1> DEFINE f == CHOOSE f : Defines(f)
<1>2. Defines(f)
  <2> HIDE DEF Defines
  <2> QED BY <1>1
<1>3. FlattenSeq(s) = f[c]
  BY <1>0 DEF FlattenSeq
<1> HIDE DEF f, c
<1>4. \A i \in 1..c : f[i] = IF i = 1 THEN s[i] ELSE f[i - 1] \o s[i]
  BY <1>2 DEF c
<1> HIDE DEF Defines
<1> DEFINE P == {m \in Nat : m + 1 <= c => f[m + 1] = g[m + 1]}
<1>5. 0 \in P
  <2>1. 1 \in 1..c
    BY <1>0
  <2>2. f[1] = g[1]
    BY <1>0, <1>4, <2>1
  <2>3. QED BY <2>2
<1>6. ASSUME NEW m \in Nat, m \in P
      PROVE  m + 1 \in P
  <2> SUFFICES ASSUME (m + 1) + 1 <= c
               PROVE  f[(m + 1) + 1] = g[(m + 1) + 1]
    OBVIOUS
  <2> DEFINE i == (m + 1) + 1
  <2>1. i \in 2..c /\ i \in 1..c /\ i # 1 /\ i - 1 = m + 1 /\ m + 1 <= c
    BY <1>0
  <2>2. f[m + 1] = g[m + 1]
    BY <1>6, <2>1
  <2> HIDE DEF i
  <2>3. f[i] = f[i - 1] \o s[i] /\ g[i] = g[i - 1] \o s[i]
    BY <1>0, <1>4, <2>1
  <2>4. f[i - 1] = g[i - 1]
    BY <2>1, <2>2
  <2>5. f[i] = g[i]
    BY <2>3, <2>4
  <2>6. QED BY <2>5 DEF i
<1>7. Nat \subseteq P
  <2> HIDE DEF P
  <2> QED BY <1>5, <1>6, Induction
<1>8. c - 1 \in Nat /\ (c - 1) + 1 = c
  BY <1>0
<1>9. f[c] = g[c]
  <2>1. c - 1 \in P
    BY <1>7, <1>8
  <2>2. QED BY <1>8, <2>1
<1>10. QED BY <1>3, <1>9 DEF c

\* The first j chunks put together are the data up to where chunk j ends
\* (manifest.rs do_chunk, chunk_infos).
LEMMA FlattenPrefix ==
  ASSUME NEW B, NEW data \in Seq(B), NEW n \in Nat \ {0}, NEW chunks,
         Slices(chunks, data, n, B), NEW j \in 1..Count(Len(data), n)
  PROVE  FlattenSeq(SubSeq(chunks, 1, j)) = SubSeq(data, 1, EndOf(Len(data), n, j))
<1> DEFINE L == Len(data)
           c == Count(L, n)
           s == SubSeq(chunks, 1, j)
           g == [i \in 1..j |-> SubSeq(data, 1, EndOf(L, n, i))]
<1>1. L \in Nat /\ c \in Nat
  <2>1. L \in Nat
    OBVIOUS
  <2> HIDE DEF L
  <2>2. QED BY <2>1, CountBounds
<1>2. chunks \in Seq(Seq(B)) /\ Len(chunks) = c
  BY DEF Slices
<1>3. ASSUME NEW i \in 1..c
      PROVE  chunks[i] = SubSeq(data, (i - 1) * n + 1, EndOf(L, n, i))
  BY <1>3 DEF Slices
<1>4. ASSUME NEW i \in 1..c
      PROVE  /\ (i - 1) * n \in Nat /\ EndOf(L, n, i) \in Nat
             /\ (i - 1) * n < EndOf(L, n, i) /\ EndOf(L, n, i) <= L
             /\ i < c => EndOf(L, n, i) = i * n
  <2> HIDE DEF L
  <2>1. i \in 1..Count(L, n)
    OBVIOUS
  <2>2. QED BY <1>1, <2>1, ChunkBounds
<1> HIDE DEF c
<1>5. j \in Nat \ {0} /\ j <= c
  BY <1>1 DEF c
<1>6. Len(s) = j /\ \A i \in 1..j : s[i] = chunks[i]
  BY <1>2, <1>5
<1>7. g[1] = s[1]
  <2>1. 1 \in 1..c /\ 1 \in 1..j
    BY <1>1, <1>5
  <2>2. (1 - 1) * n + 1 = 1
    OBVIOUS
  <2>3. chunks[1] = SubSeq(data, 1, EndOf(L, n, 1))
    <3>1. chunks[1] = SubSeq(data, (1 - 1) * n + 1, EndOf(L, n, 1))
      BY <1>3, <2>1
    <3>2. QED BY <2>2, <3>1
  <2>4. g[1] = SubSeq(data, 1, EndOf(L, n, 1))
    BY <2>1
  <2>5. QED BY <1>6, <2>1, <2>3, <2>4
<1>8. ASSUME NEW i \in 2..j
      PROVE  g[i] = g[i - 1] \o s[i]
  <2>1. i \in 1..c /\ i - 1 \in 1..c /\ i - 1 < c /\ i \in 1..j /\ i - 1 \in 1..j
    BY <1>1, <1>5
  <2> DEFINE p == (i - 1) * n
             e == EndOf(L, n, i)
  <2>2. p \in Nat /\ e \in Nat /\ p < e /\ e <= Len(data)
    BY <1>4, <2>1
  <2>3. EndOf(L, n, i - 1) = p
    BY <1>4, <2>1
  <2>4. chunks[i] = SubSeq(data, p + 1, e)
    BY <1>3, <2>1
  <2>5. g[i - 1] = SubSeq(data, 1, p) /\ g[i] = SubSeq(data, 1, e)
    <3> HIDE DEF p
    <3> QED BY <2>1, <2>3
  <2> HIDE DEF p, e
  <2>6. SubSeq(data, 1, p) \o SubSeq(data, p + 1, e) = SubSeq(data, 1, e)
    <3>1. 1 \in 1..(Len(data) + 1) /\ p \in 0..e /\ e \in 0..Len(data)
      BY <2>2
    <3>2. QED BY <2>2, <3>1, ConcatAdjacentSubSeq
  <2> HIDE DEF g, s
  <2>7. s[i] = chunks[i]
    BY <1>6, <2>1
  <2>8. QED BY <2>4, <2>5, <2>6, <2>7
<1>9. g = [i \in 1..j |-> g[i]] /\ g[j] = SubSeq(data, 1, EndOf(L, n, j))
  <2> HIDE DEF L
  <2>1. j \in 1..j
    BY <1>5
  <2>2. QED BY <2>1
<1> HIDE DEF g, s
<1>10. FlattenSeq(s) = g[j]
  <2>1. j \in Nat \ {0} /\ Len(s) = j
    BY <1>5, <1>6
  <2>2. IsList(g) /\ Len(g) = j
    BY <1>5, <1>9, ListLen
  <2>3. g[1] = s[1] /\ \A i \in 2..j : g[i] = g[i - 1] \o s[i]
    BY <1>7, <1>8
  <2> HIDE DEF L
  <2>4. Appends(g, s)
    BY <2>1, <2>2, <2>3 DEF Appends
  <2>5. FlattenSeq(s) = g[Len(s)]
    BY <2>4, FlattenIs
  <2>6. QED BY <2>1, <2>5
<1>11. QED BY <1>9, <1>10 DEF s

\* The chunks are the data, each lies where its record says (manifest.rs do_chunk, chunk_infos).
LEMMA ChunksDescribe ==
  ASSUME NEW B, NEW data \in Seq(B), NEW n \in Nat \ {0}, NEW alg
  PROVE  LET chunks == do_chunk(data, n)
             infos == chunk_infos(chunks, alg)
         IN /\ FlattenSeq(chunks) = data
            /\ DOMAIN chunks = 1..Len(chunks) /\ DOMAIN infos = DOMAIN chunks
            /\ \A k \in DOMAIN chunks :
                 /\ chunks[k] # <<>>
                 /\ k < Len(chunks) => Len(chunks[k]) = n
                 /\ infos[k].hash = Hash(alg, chunks[k])
                 /\ SubSeq(data, infos[k].offset + 1, infos[k].offset + infos[k].size)
                      = chunks[k]
<1> DEFINE L == Len(data)
           c == Count(L, n)
           chunks == do_chunk(data, n)
           infos == chunk_infos(chunks, alg)
<1>1. Slices(chunks, data, n, B)
  BY ChunkIs
<1>2. L \in Nat /\ c \in Nat /\ (c = 0 <=> L = 0)
  <2>1. L \in Nat
    OBVIOUS
  <2> HIDE DEF L
  <2>2. QED BY <2>1, CountBounds, CountEdges
<1>3. ASSUME NEW k \in 1..c
      PROVE  /\ (k - 1) * n \in Nat /\ EndOf(L, n, k) \in Nat
             /\ (k - 1) * n < EndOf(L, n, k) /\ EndOf(L, n, k) <= L
             /\ k < c => EndOf(L, n, k) = k * n
             /\ k = c => EndOf(L, n, k) = L
  <2> HIDE DEF L
  <2>1. k \in 1..Count(L, n)
    OBVIOUS
  <2>2. QED BY <1>2, <2>1, ChunkBounds
<1>4. ASSUME NEW k \in 1..c
      PROVE  /\ chunks[k] = SubSeq(data, (k - 1) * n + 1, EndOf(L, n, k))
             /\ chunks[k] \in Seq(B) /\ Len(chunks[k]) = EndOf(L, n, k) - (k - 1) * n
             /\ FlattenSeq(SubSeq(chunks, 1, k)) = SubSeq(data, 1, EndOf(L, n, k))
  <2> HIDE DEF chunks
  <2>1. FlattenSeq(SubSeq(chunks, 1, k)) = SubSeq(data, 1, EndOf(L, n, k))
    BY <1>1, FlattenPrefix
  <2>2. QED BY <1>1, <2>1 DEF Slices
<1>5. chunks \in Seq(Seq(B)) /\ Len(chunks) = c /\ DOMAIN chunks = 1..c
  BY <1>1 DEF Slices
<1>6. infos = [k \in DOMAIN chunks |->
                 [offset |-> Len(FlattenSeq(SubSeq(chunks, 1, k - 1))),
                  size   |-> Len(chunks[k]),
                  hash   |-> Hash(alg, chunks[k])]]
  BY DEF chunk_infos
<1> HIDE DEF chunks, c, infos
<1>7. FlattenSeq(chunks) = data
  <2>1. CASE c = 0
    <3>1. data = <<>>
      BY <1>2, <2>1
    <3>2. chunks = <<>>
      BY <1>5, <2>1
    <3>3. FlattenSeq(chunks) = chunks
      BY <1>5, <2>1 DEF FlattenSeq
    <3>4. QED BY <3>1, <3>2, <3>3
  <2>2. CASE c # 0
    <3>1. c \in 1..c
      BY <1>2, <2>2
    <3>2. FlattenSeq(SubSeq(chunks, 1, c)) = SubSeq(data, 1, L)
      BY <1>3, <1>4, <3>1
    <3>3. SubSeq(chunks, 1, c) = chunks
      BY <1>5, SubSeqFull
    <3>4. SubSeq(data, 1, L) = data
      BY SubSeqFull
    <3>5. QED BY <3>2, <3>3, <3>4
  <2>3. QED BY <2>1, <2>2
<1>8. ASSUME NEW k \in 1..c
      PROVE  /\ chunks[k] # <<>>
             /\ k < c => Len(chunks[k]) = n
             /\ infos[k].hash = Hash(alg, chunks[k])
             /\ SubSeq(data, infos[k].offset + 1, infos[k].offset + infos[k].size)
                  = chunks[k]
  <2> DEFINE p == (k - 1) * n
             e == EndOf(L, n, k)
  <2>1. p \in Nat /\ e \in Nat /\ p < e /\ e <= L
    BY <1>3
  <2>2. Len(chunks[k]) = e - p /\ chunks[k] = SubSeq(data, p + 1, e)
    BY <1>4
  <2>3. infos[k].size = Len(chunks[k]) /\ infos[k].hash = Hash(alg, chunks[k])
        /\ infos[k].offset = Len(FlattenSeq(SubSeq(chunks, 1, k - 1)))
    BY <1>5, <1>6
  <2>4. k < c => e = p + n
    <3>1. k * n = p + n
      OBVIOUS
    <3>2. QED BY <1>3, <3>1
  <2>5. infos[k].offset = p
    <3>1. CASE k = 1
      <4>1. SubSeq(chunks, 1, k - 1) = <<>>
        BY <1>5, <3>1
      <4>2. FlattenSeq(<<>>) = <<>>
        BY DEF FlattenSeq
      <4>3. p = 0
        BY <3>1
      <4>4. infos[k].offset = Len(<<>>)
        BY <2>3, <4>1, <4>2
      <4> HIDE DEF p
      <4>5. QED BY <4>3, <4>4
    <3>2. CASE k # 1
      <4>1. k - 1 \in 1..c /\ k - 1 < c
        BY <1>2, <3>2
      <4>2. EndOf(L, n, k - 1) = p
        BY <1>3, <4>1
      <4>3. FlattenSeq(SubSeq(chunks, 1, k - 1)) = SubSeq(data, 1, p)
        BY <1>4, <4>1, <4>2
      <4> HIDE DEF p, e
      <4>4. Len(SubSeq(data, 1, p)) = p
        BY <2>1
      <4>5. QED BY <2>3, <4>3, <4>4
    <3>3. QED BY <3>1, <3>2
  <2> HIDE DEF p, e, L
  <2>6. chunks[k] # <<>>
    <3>1. Len(chunks[k]) # 0
      BY <2>1, <2>2
    <3>2. QED BY <3>1
  <2>7. infos[k].offset + infos[k].size = e
    <3>1. infos[k].offset = p /\ infos[k].size = e - p
      BY <2>2, <2>3, <2>5
    <3>2. p \in Nat /\ e \in Nat
      BY <2>1
    <3>3. QED BY <3>1, <3>2
  <2>8. k < c => Len(chunks[k]) = n
    BY <2>1, <2>2, <2>4
  <2>9. QED BY <2>2, <2>3, <2>5, <2>6, <2>7, <2>8
<1>9. DOMAIN infos = DOMAIN chunks
  BY <1>6
<1>10. QED BY <1>5, <1>7, <1>8, <1>9 DEF chunks, infos

-----------------------------------------------------------------------------
(* The fold against the tree.                                               *)

\* The powers of two, each twice the one before: the recursion is over finitely many.
LEMMA PowersAre ==
  ASSUME NEW n \in Nat
  PROVE  /\ Powers(n)[0] = 1
         /\ \A k \in 0..n : Powers(n)[k] \in Nat \ {0}
         /\ \A k \in 1..n : Powers(n)[k] = 2 * Powers(n)[k - 1]
<1> DEFINE Upto(g, m) == /\ g \in [0..m -> Nat \ {0}]
                         /\ g[0] = 1
                         /\ \A k \in 1..m : g[k] = 2 * g[k - 1]
           P == {m \in Nat : \E g : Upto(g, m)}
           Defines(g) == g = [k \in 0..n |-> IF k = 0 THEN 1 ELSE 2 * g[k - 1]]
<1>1. 0 \in P
  <2>1. Upto([k \in 0..0 |-> 1], 0)
    OBVIOUS
  <2>2. QED BY <2>1
<1>2. ASSUME NEW m \in Nat, m \in P
      PROVE  m + 1 \in P
  <2>1. PICK g : Upto(g, m)
    BY <1>2
  <2> DEFINE f == [k \in 0..(m + 1) |-> IF k = m + 1 THEN 2 * g[m] ELSE g[k]]
  <2>2. g[m] \in Nat \ {0}
    BY <2>1
  <2>3. f \in [0..(m + 1) -> Nat \ {0}] /\ f[0] = 1
    <3>1. 2 * g[m] \in Nat \ {0}
      BY <2>2
    <3>2. \A k \in 0..(m + 1) : k = m + 1 \/ k \in 0..m
      OBVIOUS
    <3>3. 0 \in 0..(m + 1) /\ 0 # m + 1
      OBVIOUS
    <3>4. QED BY <2>1, <3>1, <3>2, <3>3
  <2>4. ASSUME NEW k \in 1..(m + 1)
        PROVE  f[k] = 2 * f[k - 1]
    <3>1. k - 1 \in 0..(m + 1) /\ k - 1 # m + 1 /\ k \in 0..(m + 1)
      OBVIOUS
    <3>2. f[k - 1] = g[k - 1]
      BY <3>1
    <3>3. CASE k = m + 1
      <4>1. f[k] = 2 * g[m] /\ k - 1 = m
        BY <3>1, <3>3
      <4>2. QED BY <3>2, <4>1
    <3>4. CASE k # m + 1
      <4>1. k \in 1..m /\ f[k] = g[k]
        BY <3>1, <3>4
      <4>2. QED BY <2>1, <3>2, <4>1
    <3>5. QED BY <3>3, <3>4
  <2>5. Upto(f, m + 1)
    <3> HIDE DEF f
    <3> QED BY <2>3, <2>4
  <2> HIDE DEF f, Upto
  <2>6. QED BY <2>5
<1>3. n \in P
  <2> HIDE DEF P
  <2> QED BY <1>1, <1>2, Induction
<1>4. PICK g : Upto(g, n)
  BY <1>3
<1>5. Defines(g)
  <2>1. \A k \in 0..n : g[k] = IF k = 0 THEN 1 ELSE 2 * g[k - 1]
    BY <1>4
  <2>2. g = [k \in 0..n |-> g[k]]
    BY <1>4
  <2>3. QED BY <2>1, <2>2
<1>6. Powers(n) = CHOOSE f : Defines(f)
  BY DEF Powers
<1>7. Defines(Powers(n))
  <2> HIDE DEF Defines
  <2> QED BY <1>5, <1>6
<1> DEFINE f == Powers(n)
<1>8. f = [k \in 0..n |-> IF k = 0 THEN 1 ELSE 2 * f[k - 1]]
  BY <1>7
<1> HIDE DEF f, Defines
<1>9. \A k \in 0..n : f[k] = IF k = 0 THEN 1 ELSE 2 * f[k - 1]
  BY <1>8
<1>10. f[0] = 1 /\ \A k \in 1..n : f[k] = 2 * f[k - 1]
  <2>1. 0 \in 0..n /\ \A k \in 1..n : k \in 0..n /\ k # 0
    OBVIOUS
  <2>2. QED BY <1>9, <2>1
<1> DEFINE Q == {m \in Nat : m <= n => f[m] \in Nat \ {0}}
<1>11. 0 \in Q
  BY <1>10
<1>12. ASSUME NEW m \in Nat, m \in Q
       PROVE  m + 1 \in Q
  <2> SUFFICES ASSUME m + 1 <= n
               PROVE  f[m + 1] \in Nat \ {0}
    OBVIOUS
  <2>1. m + 1 \in 1..n /\ (m + 1) - 1 = m /\ m <= n
    OBVIOUS
  <2>2. f[m] \in Nat \ {0}
    BY <1>12, <2>1
  <2>3. f[m + 1] = 2 * f[m]
    BY <1>10, <2>1
  <2>4. QED BY <2>2, <2>3
<1>13. Nat \subseteq Q
  <2> HIDE DEF Q
  <2> QED BY <1>11, <1>12, Induction
<1>14. \A k \in 0..n : f[k] \in Nat \ {0}
  <2>1. \A k \in 0..n : k \in Nat /\ k <= n
    OBVIOUS
  <2>2. QED BY <1>13, <2>1
<1>15. QED BY <1>10, <1>14 DEF f

\* Half of a width, rounded up, is the width with slices twice as large.
LEMMA HalfRoundedUp ==
  ASSUME NEW n \in Nat, NEW p \in Nat \ {0}
  PROVE  /\ (n + p - 1) \div p \in Nat
         /\ (n + 2 * p - 1) \div (2 * p) = ((n + p - 1) \div p + 1) \div 2
<1> DEFINE w == (n + p - 1) \div p
           v == (w + 1) \div 2
           q == 2 * p
           u == (n + q - 1) \div q
<1>1. w \in Nat /\ w * p <= n + p - 1 /\ n + p - 1 < w * p + p
  <2>1. n + p - 1 \in Nat
    OBVIOUS
  <2>2. QED BY <2>1, Division
<1>2. q \in Nat \ {0} /\ u \in Nat /\ u * q <= n + q - 1 /\ n + q - 1 < u * q + q
  <2>1. q \in Nat \ {0} /\ n + q - 1 \in Nat
    OBVIOUS
  <2> HIDE DEF q
  <2>2. QED BY <2>1, Division
<1> HIDE DEF w, u
<1>3. v \in Nat /\ 2 * v <= w + 1 /\ w + 1 < 2 * v + 2
  BY <1>1
<1> HIDE DEF v
<1>4. 2 * v * p <= (w + 1) * p /\ w * p <= 2 * v * p
  BY <1>1, <1>3
<1>5. (w + 1) * p = w * p + p /\ 2 * v * p = v * q
  BY <1>1, <1>3
<1>6. v * q <= n + q - 1 /\ n + q - 1 < v * q + q
  <2> DEFINE a == w * p  b == v * q
  <2>1. a \in Nat /\ b \in Nat
    BY <1>1, <1>2, <1>3
  <2>2. b <= a + p /\ a <= b /\ a <= n + p - 1 /\ n + p - 1 < a + p
    BY <1>1, <1>4, <1>5
  <2> HIDE DEF a, b
  <2>3. b <= n + q - 1 /\ n + q - 1 < b + q
    BY <2>1, <2>2
  <2>4. QED BY <2>3 DEF b
<1> HIDE DEF q
<1>7. u = v
  <2>1. u < v => u * q + q <= v * q
    BY <1>2, <1>3, Multiples
  <2>2. v < u => v * q + q <= u * q
    BY <1>2, <1>3, Multiples
  <2>3. u * q \in Nat /\ v * q \in Nat
    BY <1>2, <1>3
  <2>4. QED BY <1>2, <1>3, <1>6, <2>1, <2>2, <2>3
<1>8. QED BY <1>1, <1>7 DEF w, v, q, u

\* The levels of the tree: n leaves, and each level half of the one below, rounded up.
LEMMA WidthIs ==
  ASSUME NEW n \in Nat
  PROVE  /\ Width(n, 0) = n
         /\ \A l \in 0..n : Width(n, l) \in Nat
         /\ \A l \in 1..n : Width(n, l) = (Width(n, l - 1) + 1) \div 2
<1>1. Width(n, 0) = n
  BY PowersAre DEF Width
<1>2. ASSUME NEW l \in 0..n
      PROVE  Width(n, l) \in Nat
  BY PowersAre, HalfRoundedUp DEF Width
<1>3. ASSUME NEW l \in 1..n
      PROVE  Width(n, l) = (Width(n, l - 1) + 1) \div 2
  <2> DEFINE p == Powers(n)[l - 1]
  <2>1. l - 1 \in 0..n
    OBVIOUS
  <2>2. p \in Nat \ {0} /\ Powers(n)[l] = 2 * p
    BY <2>1, PowersAre
  <2>3. Width(n, l - 1) = (n + p - 1) \div p /\ Width(n, l) = (n + 2 * p - 1) \div (2 * p)
    <3>1. Width(n, l - 1) = (n + p - 1) \div p
      BY DEF Width
    <3>2. Width(n, l) = (n + Powers(n)[l] - 1) \div Powers(n)[l]
      BY DEF Width
    <3> HIDE DEF p
    <3>3. QED BY <2>2, <3>1, <3>2
  <2> HIDE DEF p
  <2>4. QED BY <2>2, <2>3, HalfRoundedUp
<1>4. QED BY <1>1, <1>2, <1>3

\* The height is the first level of one node: there is no other.
LEMMA HeightIs ==
  ASSUME NEW n \in Nat, NEW h \in 0..n, Width(n, h) = 1,
         \A g \in 0..(h - 1) : Width(n, g) > 1
  PROVE  Height(n) = h
<1> DEFINE H(x) == Width(n, x) = 1 /\ \A g \in 0..(x - 1) : Width(n, g) > 1
           y == CHOOSE x \in 0..n : H(x)
<1>1. y \in 0..n /\ H(y)
  <2>1. H(h)
    OBVIOUS
  <2> HIDE DEF H
  <2>2. QED BY <2>1
<1>2. Height(n) = y
  BY DEF Height
<1> HIDE DEF y
<1>3. ~(y < h)
  <2>1. y < h => y \in 0..(h - 1)
    BY <1>1
  <2>2. y < h => Width(n, y) > 1
    BY <2>1
  <2>3. QED BY <1>1, <2>2
<1>4. ~(h < y)
  <2>1. h < y => h \in 0..(y - 1)
    BY <1>1
  <2>2. h < y => Width(n, h) > 1
    BY <1>1, <2>1
  <2>3. QED BY <2>2
<1>5. QED BY <1>1, <1>2, <1>3, <1>4

\* The passes of the fold make the levels of the tree until one hash is left, which is
\* carried through the passes that remain (manifest.rs root_hash_for).
LEMMA LevelsAreTree ==
  ASSUME NEW leaves, IsList(leaves), Len(leaves) >= 1, NEW alg
  PROVE  LET n == Len(leaves)
             a == levels(leaves, alg)
             h == Height(n)
         IN /\ h \in 0..n
            /\ \A k \in 0..h : IsList(a[k]) /\ Len(a[k]) = Width(n, k)
            /\ Width(n, h) = 1
            /\ \A k \in 1..h : Width(n, k - 1) > 1 /\ a[k] = combine(a[k - 1], alg)
            /\ a[n] = a[h]
<1> DEFINE n == Len(leaves)
           a == levels(leaves, alg)
           K == {k \in 0..n : Len(a[k]) = 1}
<1>1. n \in Nat /\ n >= 1
  BY DEF IsList
<1>2. \A k \in 0..n : /\ IsList(a[k])
                      /\ Len(a[k]) >= 1
                      /\ Len(a[k]) = 1 \/ Len(a[k]) <= n - k
  BY LevelsShrink
<1>3. \A k \in 1..n : a[k] = merge(a[k - 1], alg)
  BY LevelsAre
<1>4. a[0] = leaves
  BY LevelsAre
<1> HIDE DEF a
<1>5. K \subseteq Nat /\ n \in K
  <2>1. n \in 0..n
    BY <1>1
  <2>2. Len(a[n]) \in Nat
    BY <1>2, <2>1 DEF IsList
  <2>3. Len(a[n]) >= 1 /\ (Len(a[n]) = 1 \/ Len(a[n]) <= n - n)
    BY <1>2, <2>1
  <2>4. Len(a[n]) = 1
    <3> HIDE DEF n
    <3> QED BY <1>1, <2>2, <2>3
  <2>5. QED BY <2>1, <2>4
<1>6. PICK h \in K : \A k \in K : h <= k
  <2> HIDE DEF K
  <2> QED BY <1>5, LeastElement
<1>7. h \in 0..n /\ Len(a[h]) = 1
  BY <1>6
<1>8. ASSUME NEW k \in 0..(h - 1)
      PROVE  Len(a[k]) \in Nat /\ Len(a[k]) > 1
  <2>1. k \in 0..n /\ k < h
    BY <1>1, <1>7
  <2>2. Len(a[k]) # 1
    BY <1>6, <2>1
  <2>3. Len(a[k]) \in Nat /\ Len(a[k]) >= 1
    BY <1>2, <2>1 DEF IsList
  <2>4. \A x \in Nat : x >= 1 /\ x # 1 => x > 1
    OBVIOUS
  <2>5. QED BY <2>2, <2>3, <2>4
<1> HIDE DEF K
<1> DEFINE P == {m \in Nat : m <= h => Len(a[m]) = Width(n, m)}
<1>9. 0 \in P
  BY <1>1, <1>4, WidthIs
<1>10. ASSUME NEW m \in Nat, m \in P
       PROVE  m + 1 \in P
  <2> SUFFICES ASSUME m + 1 <= h
               PROVE  Len(a[m + 1]) = Width(n, m + 1)
    OBVIOUS
  <2>1. /\ m + 1 \in 1..n /\ (m + 1) - 1 = m /\ m \in 0..(h - 1) /\ m \in 0..n /\ m <= h
    BY <1>1, <1>7
  <2>2. Len(a[m]) = Width(n, m) /\ Len(a[m]) \in Nat /\ Len(a[m]) > 1
    BY <1>8, <1>10, <2>1
  <2>3. a[m + 1] = merge(a[m], alg) /\ IsList(a[m])
    BY <1>2, <1>3, <2>1
  <2>4. Len(a[m + 1]) = Merged(Len(a[m]))
    BY <2>3, MergeIs
  <2>5. Width(n, m + 1) = (Width(n, m) + 1) \div 2
    BY <1>1, <2>1, WidthIs
  <2>6. QED BY <2>2, <2>4, <2>5 DEF Merged
<1>11. \A k \in 0..h : Len(a[k]) = Width(n, k)
  <2>1. Nat \subseteq P
    <3> HIDE DEF P
    <3> QED BY <1>9, <1>10, Induction
  <2>2. \A k \in 0..h : k \in Nat /\ k <= h
    BY <1>7
  <2>3. QED BY <2>1, <2>2
<1> HIDE DEF P
<1>12. Width(n, h) = 1 /\ \A k \in 0..(h - 1) : Width(n, k) > 1
  <2>1. h \in 0..h /\ \A k \in 0..(h - 1) : k \in 0..h
    BY <1>7
  <2>2. QED BY <1>7, <1>8, <1>11, <2>1
<1>13. Height(n) = h
  <2> HIDE DEF n
  <2> QED BY <1>1, <1>7, <1>12, HeightIs
<1>14. ASSUME NEW k \in 1..h
       PROVE  Width(n, k - 1) > 1 /\ a[k] = combine(a[k - 1], alg)
  <2>1. k \in 1..n /\ k - 1 \in 0..(h - 1)
    BY <1>1, <1>7
  <2>2. Len(a[k - 1]) > 1
    BY <1>8, <2>1
  <2>3. QED BY <1>3, <1>12, <2>1, <2>2 DEF merge
<1> DEFINE Q == {m \in Nat : h + m <= n => a[h + m] = a[h]}
<1>15. 0 \in Q
  <2>1. h + 0 = h
    BY <1>7
  <2>2. QED BY <2>1
<1>16. ASSUME NEW m \in Nat, m \in Q
       PROVE  m + 1 \in Q
  <2> SUFFICES ASSUME h + (m + 1) <= n
               PROVE  a[h + (m + 1)] = a[h]
    OBVIOUS
  <2> DEFINE k == h + (m + 1)
  <2>1. k \in 1..n /\ k - 1 = h + m /\ h + m <= n
    BY <1>1, <1>7
  <2>2. a[h + m] = a[h]
    BY <1>16, <2>1
  <2> HIDE DEF k
  <2>3. a[k] = merge(a[h], alg)
    BY <1>3, <2>1, <2>2
  <2>4. merge(a[h], alg) = a[h]
    BY <1>7 DEF merge
  <2>5. QED BY <2>3, <2>4 DEF k
<1>17. a[n] = a[h]
  <2>1. Nat \subseteq Q
    <3> HIDE DEF Q
    <3> QED BY <1>15, <1>16, Induction
  <2>2. n - h \in Nat /\ h + (n - h) = n
    BY <1>1, <1>7
  <2>3. n - h \in Q
    BY <2>1, <2>2
  <2> HIDE DEF n
  <2>4. QED BY <1>1, <2>2, <2>3
<1>18. \A k \in 0..h : IsList(a[k])
  <2>1. \A k \in 0..h : k \in 0..n
    BY <1>1, <1>7
  <2>2. QED BY <1>2, <2>1
<1> HIDE DEF Q, n
<1>19. QED BY <1>7, <1>11, <1>12, <1>13, <1>14, <1>17, <1>18 DEF a, n

\* The fold computes the root of the tree (manifest.rs root_hash_for, combine).
THEOREM FoldIsTree ==
  ASSUME NEW leaves, IsList(leaves), Len(leaves) >= 1, NEW alg
  PROVE  levels(leaves, alg)[Len(leaves)][1] = TreeRoot(leaves, alg)
<1> DEFINE n == Len(leaves)
           a == levels(leaves, alg)
           h == Height(n)
           Right(i, l) == IF 2 * i + 1 < Width(n, l) THEN 2 * i + 1 ELSE Width(n, l) - 1
           Pair(f, l, i) == Hash(alg, <<f[l - 1][2 * i], f[l - 1][Right(i, l - 1)]>>)
           Row(f, l) == [i \in 0..(Width(n, l) - 1) |->
                           IF l = 0 THEN leaves[i + 1] ELSE Pair(f, l, i)]
           Defines(f) == f = [l \in 0..h |-> Row(f, l)]
           t == CHOOSE f : Defines(f)
           g == [l \in 0..h |-> [i \in 0..(Width(n, l) - 1) |-> a[l][i + 1]]]
<1>1. n \in Nat /\ n >= 1
  BY DEF IsList
<1>2. TreeRoot(leaves, alg) = t[h][0]
  BY <1>1 DEF TreeRoot
<1>3. /\ h \in 0..n /\ Width(n, h) = 1 /\ a[n] = a[h]
      /\ \A k \in 0..h : Len(a[k]) = Width(n, k)
      /\ \A k \in 1..h : Width(n, k - 1) > 1 /\ a[k] = combine(a[k - 1], alg)
  BY LevelsAreTree
<1>4. a[0] = leaves
  BY LevelsAre
<1> HIDE DEF a, n, h, t
<1>5. /\ \A l \in 0..h : Width(n, l) \in Nat
      /\ \A l \in 1..h : Width(n, l) = (Width(n, l - 1) + 1) \div 2
  <2>1. \A l \in 0..h : l \in 0..n
    BY <1>1, <1>3
  <2>2. \A l \in 1..h : l \in 1..n
    BY <1>1, <1>3
  <2>3. QED BY <1>1, <2>1, <2>2, WidthIs
<1>6. ASSUME NEW l \in 1..h, NEW i \in 0..(Width(n, l) - 1)
      PROVE  /\ 2 * i \in 0..(Width(n, l - 1) - 1)
             /\ Right(i, l - 1) \in 0..(Width(n, l - 1) - 1)
             /\ Pair(g, l, i) = a[l][i + 1]
  <2> DEFINE w == Width(n, l - 1)
             k == i + 1
             A == a[l - 1]
  <2>1. l - 1 \in 0..h /\ l \in 0..h
    BY <1>1, <1>3
  <2>2. w \in Nat /\ Width(n, l) = (w + 1) \div 2 /\ Len(A) = w /\ w > 1
    BY <1>3, <1>5, <2>1
  <2> HIDE DEF w, A
  <2>3. i \in Nat /\ 2 * i + 1 <= w /\ k \in 1..((w + 1) \div 2)
    BY <2>2
  <2> DEFINE r == IF 2 * i + 1 < w THEN 2 * i + 1 ELSE w - 1
  <2>4. 2 * i \in 0..(w - 1) /\ r \in 0..(w - 1) /\ Right(i, l - 1) = r
    BY <2>2, <2>3 DEF w
  <2>5. 2 * k - 1 = 2 * i + 1 /\ (IF 2 * k <= w THEN 2 * k ELSE 2 * k - 1) = r + 1
    BY <2>2, <2>3
  <2>6. a[l] = combine(A, alg)
    BY <1>3 DEF A
  <2>7. combine(A, alg)[k] = Hash(alg, <<A[2 * k - 1], A[IF 2 * k <= w THEN 2 * k ELSE 2 * k - 1]>>)
    BY <2>2, <2>3 DEF combine
  <2>8. a[l][k] = Hash(alg, <<A[2 * i + 1], A[r + 1]>>)
    BY <2>5, <2>6, <2>7
  <2>9. g[l - 1] = [j \in 0..(w - 1) |-> A[j + 1]]
    BY <2>1 DEF w, A
  <2> HIDE DEF g, r
  <2>10. g[l - 1][2 * i] = A[2 * i + 1] /\ g[l - 1][r] = A[r + 1]
    BY <2>4, <2>9
  <2>11. Pair(g, l, i) = a[l][k]
    <3>1. Pair(g, l, i) = Hash(alg, <<g[l - 1][2 * i], g[l - 1][r]>>)
      BY <2>4
    <3> HIDE DEF Pair
    <3>2. QED BY <2>8, <2>10, <3>1
  <2>12. QED BY <2>4, <2>11 DEF w
<1>7. \A l \in 0..h : g[l] = Row(g, l)
  <2> SUFFICES ASSUME NEW l \in 0..h
               PROVE  g[l] = Row(g, l)
    OBVIOUS
  <2>1. g[l] = [i \in 0..(Width(n, l) - 1) |-> a[l][i + 1]]
    OBVIOUS
  <2> HIDE DEF g, Pair
  <2>2. CASE l = 0
    BY <1>4, <2>1, <2>2
  <2>3. CASE l # 0
    <3>1. l \in 1..h
      BY <1>3, <2>3
    <3>2. \A i \in 0..(Width(n, l) - 1) : Pair(g, l, i) = a[l][i + 1]
      BY <1>6, <3>1 DEF g
    <3>3. QED BY <2>1, <2>3, <3>2
  <2>4. QED BY <2>2, <2>3
<1>8. Defines(g)
  <2>1. g = [l \in 0..h |-> g[l]]
    OBVIOUS
  <2> HIDE DEF g, Row
  <2>2. QED BY <1>7, <2>1
<1>9. Defines(t)
  <2> HIDE DEF Defines
  <2>1. QED BY <1>8 DEF t
<1>10. \A l \in 0..h : t[l] = Row(t, l)
  <2> HIDE DEF Row
  <2>1. QED BY <1>9
<1> HIDE DEF g, Defines
<1> DEFINE P == {m \in Nat : m <= h => t[m] = g[m]}
<1>11. 0 \in P
  <2>1. 0 \in 0..h
    BY <1>1, <1>3
  <2>2. t[0] = Row(t, 0) /\ g[0] = Row(g, 0)
    BY <1>7, <1>10, <2>1
  <2>3. QED BY <2>2
<1>12. ASSUME NEW m \in Nat, m \in P
       PROVE  m + 1 \in P
  <2> SUFFICES ASSUME m + 1 <= h
               PROVE  t[m + 1] = g[m + 1]
    OBVIOUS
  <2> DEFINE l == m + 1
  <2>1. l \in 0..h /\ l # 0 /\ l - 1 = m /\ m <= h
    BY <1>1, <1>3
  <2>2. t[l - 1] = g[l - 1]
    BY <1>12, <2>1
  <2> HIDE DEF l, P
  <2>3. \A i : Pair(t, l, i) = Pair(g, l, i)
    BY <2>2
  <2>4. Row(t, l) = Row(g, l)
    <3> HIDE DEF Pair
    <3> QED BY <2>1, <2>3
  <2>5. t[l] = g[l]
    BY <1>7, <1>10, <2>1, <2>4
  <2>6. QED BY <2>5 DEF l
<1>13. t[h] = g[h]
  <2>1. Nat \subseteq P
    <3> HIDE DEF P
    <3> QED BY <1>11, <1>12, Induction
  <2>2. h \in Nat /\ h <= h
    BY <1>1, <1>3
  <2>3. QED BY <2>1, <2>2
<1>14. g[h][0] = a[h][1]
  <2>1. h \in 0..h /\ 0 \in 0..(Width(n, h) - 1)
    BY <1>1, <1>3
  <2>2. g[h] = [i \in 0..(Width(n, h) - 1) |-> a[h][i + 1]]
    BY <2>1 DEF g
  <2>3. g[h][0] = a[h][0 + 1] /\ 0 + 1 = 1
    BY <2>1, <2>2
  <2>4. QED BY <2>3
<1>15. QED BY <1>2, <1>3, <1>13, <1>14 DEF a, n

\* The manifest that create makes of data describes it: the chunks lie end to end where it
\* says and are the data, from_wire accepts it, and its root is that of the tree.
DescribesContent(data, name, n, alg) ==
  LET chunks == do_chunk(data, n)
      m == create(data, name, n, alg)
  IN /\ FlattenSeq(chunks) = data
     /\ from_wire(m)
     /\ \A k \in DOMAIN chunks :
          /\ chunks[k] # <<>>
          /\ k < Len(chunks) => Len(chunks[k]) = n
          /\ SubSeq(data, m.chunks[k].offset + 1, m.chunks[k].offset + m.chunks[k].size)
               = chunks[k]
     /\ m.root_hash = TreeRoot([k \in DOMAIN chunks |-> m.chunks[k].hash], alg)

\* What create writes down of a content describes it, for content of any length over any
\* set of bytes, every chunk size and algorithm (manifest.rs create, do_chunk, chunk_infos,
\* root_hash_for, from_wire).
THEOREM CreateDescribesContent ==
  ASSUME NEW B, NEW data \in Seq(B), NEW name, NEW n \in Nat \ {0}, NEW alg
  PROVE  DescribesContent(data, name, n, alg)
<1> DEFINE chunks == do_chunk(data, n)
           infos == chunk_infos(chunks, alg)
           m == create(data, name, n, alg)
           leaves == Leaves(data, n, alg)
<1>1. /\ FlattenSeq(chunks) = data
      /\ DOMAIN chunks = 1..Len(chunks) /\ DOMAIN infos = DOMAIN chunks
      /\ \A k \in DOMAIN chunks :
           /\ chunks[k] # <<>>
           /\ k < Len(chunks) => Len(chunks[k]) = n
           /\ infos[k].hash = Hash(alg, chunks[k])
           /\ SubSeq(data, infos[k].offset + 1, infos[k].offset + infos[k].size)
                = chunks[k]
  BY ChunksDescribe
<1>2. m.chunks = infos
  BY DEF create
<1>3. m.chunk_size = n /\ Len(m.chunks) = m.chunk_count /\ m.root_hash = RootOf(data, n, alg)
  BY CreateIs
<1>4. DOMAIN chunks = 1..Count(Len(data), n)
  BY DEF do_chunk, Count
<1>5. /\ IsList(leaves)
      /\ Len(leaves) = Count(Len(data), n)
      /\ RootOf(data, n, alg) =
           IF data = <<>> THEN Hash(alg, <<>>) ELSE levels(leaves, alg)[Len(leaves)][1]
  BY RootIs
<1>6. leaves = [k \in 1..Count(Len(data), n) |-> Hash(alg, chunks[k])]
  BY DEF Leaves
<1>7. Count(Len(data), n) \in Nat /\ (Count(Len(data), n) = 0 <=> data = <<>>)
  <2> DEFINE L == Len(data)
  <2>1. L \in Nat /\ (L = 0 <=> data = <<>>)
    BY EmptySeq, LenProperties
  <2> HIDE DEF L
  <2>2. Count(L, n) \in Nat /\ (Count(L, n) = 0 <=> L = 0)
    BY <2>1, CountBounds, CountEdges
  <2>3. QED BY <2>1, <2>2 DEF L
<1> HIDE DEF chunks, infos, m, leaves
<1> DEFINE c == Count(Len(data), n)
<1> HIDE DEF c
<1>8. leaves = [k \in DOMAIN chunks |-> m.chunks[k].hash]
  <2>1. leaves = [k \in 1..c |-> Hash(alg, chunks[k])] /\ DOMAIN chunks = 1..c
    BY <1>4, <1>6 DEF c
  <2>2. \A k \in 1..c : m.chunks[k].hash = Hash(alg, chunks[k])
    BY <1>1, <1>2, <2>1
  <2>3. QED BY <2>1, <2>2
<1>9. m.root_hash = TreeRoot(leaves, alg)
  <2>1. CASE data = <<>>
    <3>1. Len(leaves) = 0
      BY <1>5, <1>7, <2>1
    <3>2. TreeRoot(leaves, alg) = Hash(alg, <<>>)
      BY <3>1 DEF TreeRoot
    <3>3. QED BY <1>3, <1>5, <2>1, <3>2
  <2>2. CASE data # <<>>
    <3>1. c \in Nat /\ c # 0 /\ Len(leaves) = c
      BY <1>5, <1>7, <2>2 DEF c
    <3>2. Len(leaves) >= 1
      BY <3>1
    <3>3. levels(leaves, alg)[Len(leaves)][1] = TreeRoot(leaves, alg)
      BY <1>5, <3>2, FoldIsTree
    <3>4. QED BY <1>3, <1>5, <2>2, <3>3
  <2>3. QED BY <2>1, <2>2
<1>10. from_wire(m)
  BY <1>3 DEF from_wire
<1>11. QED BY <1>1, <1>2, <1>8, <1>9, <1>10 DEF chunks, m, DescribesContent

\* On the run's byte strings, chunk sizes and algorithms, whatever they are: the chunks lie
\* end to end where the manifest says and are the data, from_wire accepts it, and its root
\* is that of the tree (manifest.rs create, do_chunk, root_hash_for).
THEOREM ManifestsDescribe ==
  ASSUME MaxChunk \in Nat
  PROVE  ManifestDescribes
<1>1. \A data \in Data : data \in Seq(Bytes)
  BY DEF Data
<1>2. \A size \in Sizes : size \in Nat \ {0}
  BY DEF Sizes
<1>3. ASSUME NEW data \in Data, NEW size \in Sizes, NEW alg \in Algorithms
      PROVE  DescribesContent(data, "n", size, alg)
  BY <1>1, <1>2, CreateDescribesContent
<1>4. QED BY <1>3 DEF ManifestDescribes, DescribesContent

-----------------------------------------------------------------------------
(* Content transfer: the invariant.                                         *)

\* How content of this client and of others is hashed.
Algs == {"blake3"} \cup {f.alg : f \in Foreign}

\* How that of one address is.
AlgsOf(mcid) ==
  {"blake3"}
    \cup {f.alg : f \in {g \in Foreign : create(g.data, "other", ChunkSize, g.alg).mcid = mcid}}

\* m says of its content what create would write down of d, but for the list of chunks.
Describes(m, d, alg) ==
  /\ m.size = Len(d) /\ m.chunk_size = ChunkSize /\ m.hash_algorithm = alg
  /\ m.chunk_count = Count(Len(d), ChunkSize)
  /\ m.root_hash = RootOf(d, ChunkSize, alg)

\* m lists the chunks of d.
Lists(m, d, alg) ==
  /\ DOMAIN m.chunks = 1..m.chunk_count /\ Len(m.chunks) = m.chunk_count
  /\ \A k \in 1..m.chunk_count : m.chunks[k].hash = Hash(alg, do_chunk(d, ChunkSize)[k])

Fields == {"mcid", "size", "chunk_size", "chunk_count", "hash_algorithm", "root_hash", "chunks"}

\* A manifest of the content that its address stands for.
Made(m) ==
  /\ Fields \subseteq DOMAIN m
  /\ \E d \in Content(m.mcid), alg \in AlgsOf(m.mcid) : Describes(m, d, alg) /\ Lists(m, d, alg)

\* The first k chunks of m are on the station.
HasFirst(m, k) == \A j \in 1..k : \E b \in blocks : b[1] = chunk_mcid(m, j)

\* A request that leaves the station in order if it is carried out.
Harmless(r) ==
  /\ r.proc = "put_manifest" => Made(r.manifest) /\ HasChunks(r.manifest)
  /\ r.proc = "put_block" => r.payload \in Seq(Bytes)

-----------------------------------------------------------------------------

FlowInv ==
  /\ pc \in {"idle", "call", "await", "backoff"}
  /\ wire # None => pc = "await" /\ wire = req /\ reply = None
  /\ reply # None => pc = "await"
  /\ pc # "idle" => op.kind \in {"put", "get"}
  /\ got \in Seq(Bytes)

StoreInv ==
  /\ \A b \in blocks : b[2] \in Seq(Bytes)
  /\ \A m \in manifests : Made(m) /\ HasChunks(m)
  /\ \A r \in late : Harmless(r)

\* A chunked put is at its index-th chunk, or past the last at its manifest.
PutInv ==
  pc # "idle" /\ op.kind = "put" =>
    /\ op.data \in Blobs /\ op.mcid = Address(op.data)
    /\ ~IsChunked(op.data) => req = PutBlock(op.data, op.mcid)
    /\ IsChunked(op.data) =>
         /\ manifest = Own(op.data)
         /\ index \in 1..(manifest.chunk_count + 1)
         /\ HasFirst(manifest, index - 1)
         /\ req = IF index <= manifest.chunk_count THEN Chunk(manifest, op.data, index)
                  ELSE PutManifest(manifest)
    /\ reply # None /\ reply.says = "ok" =>
         /\ req.proc = "put_block" => <<req.mcid, req.payload>> \in blocks
         /\ req.proc = "put_manifest" => req.manifest \in manifests

GetInv ==
  pc # "idle" /\ op.kind = "get" =>
    /\ op.mcid \in Addresses
    /\ ~mcid_is_chunked(op.mcid) => req = GetBlock(op.mcid)
    /\ mcid_is_chunked(op.mcid) =>
         \/ req = GetManifest(op.mcid)
         \/ /\ req.proc = "get_block"
            /\ ~Misaddressed =>
                 \E d \in Content(op.mcid), alg \in Algs : Describes(manifest, d, alg)
    /\ reply # None /\ reply.says = "ok" =>
         /\ req.proc = "get_block" => reply.body \in Seq(Bytes)
         /\ req.proc = "get_manifest" /\ ~Misaddressed =>
              \E d \in Content(op.mcid), alg \in Algs : Describes(reply.body, d, alg)

\* What a finished transfer has left.
LastInv == PutStored /\ (~Misaddressed => GetGenuine)

IInv == FlowInv /\ StoreInv /\ PutInv /\ GetInv /\ LastInv

-----------------------------------------------------------------------------
\* The chunks before the index-th of d.
Before(d) == SubSeq(d, 1, (index - 1) * ChunkSize)

\* While the station is honest: where a get stands.
HonestGet ==
  /\ mcid_is_chunked(op.mcid) /\ req.proc = "get_block" =>
       \E d \in Content(op.mcid) :
         /\ Describes(manifest, d, "blake3") /\ Lists(manifest, d, "blake3")
         /\ index \in 1..manifest.chunk_count
         /\ req = GetBlock(chunk_mcid(manifest, index))
         /\ got = Before(d)
  /\ reply # None =>
       /\ reply.says \notin Mismatches
       /\ reply.says = "ok" /\ req.proc = "get_block" => block_mcid(reply.body) = req.mcid
       /\ reply.says = "ok" /\ req.proc = "get_manifest" =>
            Made(reply.body) /\ reply.body.mcid = req.mcid

\* A get of content that was hashed with BLAKE3, from a station that is honest so far.
Trusted == honest /\ ~HashedOtherwise(op.mcid)

\* A block lies under the hash of its bytes, by whichever algorithm.
IsAddressed(b) == \E alg \in Algs : b[1] = RawMcid(Hash(alg, b[2]))

HonestInv ==
  /\ \A b \in blocks : IsAddressed(b)
  /\ Blake3NeverMismatch
  /\ pc = "idle" => got = <<>>
  /\ pc # "idle" /\ op.kind = "get" =>
       /\ req.proc = "get_manifest" => got = <<>>
       /\ Trusted => HonestGet

-----------------------------------------------------------------------------
(* Content and its manifests.                                               *)

\* The parameters' types, of the records of the others too.
LEMMA Parameters ==
  /\ ChunkSize \in Nat \ {0}
  /\ \A d \in Blobs : d \in Seq(Bytes)
  /\ \A f \in Foreign : f.data \in Seq(Bytes)
BY ContentAssumption

\* Content is hashed as somebody hashes; with BLAKE3 under an address that says so.
LEMMA AlgsOfAreAlgs ==
  ASSUME NEW mcid
  PROVE  /\ AlgsOf(mcid) \subseteq Algs
         /\ ~HashedOtherwise(mcid) => AlgsOf(mcid) = {"blake3"}
BY DEF AlgsOf, Algs, HashedOtherwise

\* What an address stands for is bytes.
LEMMA ContentType == \A mcid : \A d \in Content(mcid) : d \in Seq(Bytes)
BY Parameters DEF Content

\* What create writes down describes and lists its content.
LEMMA CreateDescribes ==
  ASSUME NEW d \in Seq(Bytes), NEW name, NEW alg
  PROVE  LET m == create(d, name, ChunkSize, alg)
         IN /\ Fields \subseteq DOMAIN m
            /\ Describes(m, d, alg) /\ Lists(m, d, alg)
            /\ mcid_is_chunked(m.mcid)
<1> DEFINE m == create(d, name, ChunkSize, alg)
<1>1. Fields \subseteq DOMAIN m
  BY DEF Fields, create
<1>2. /\ m.size = Len(d) /\ m.chunk_size = ChunkSize /\ m.hash_algorithm = alg
      /\ m.chunk_count = Count(Len(d), ChunkSize)
      /\ m.root_hash = RootOf(d, ChunkSize, alg)
      /\ mcid_is_chunked(m.mcid)
  BY CreateIs, Parameters
<1>3. DOMAIN m.chunks = 1..m.chunk_count /\ Len(m.chunks) = m.chunk_count
  BY CreateIs, Parameters
<1>4. ASSUME NEW k \in 1..m.chunk_count
      PROVE  m.chunks[k].hash = Hash(alg, do_chunk(d, ChunkSize)[k])
  BY CreateIs, Parameters
<1> HIDE DEF m
<1>5. QED BY <1>1, <1>2, <1>3, <1>4 DEF m, Describes, Lists

\* The manifest of a put (content.rs put).
LEMMA OwnIs ==
  ASSUME NEW data \in Blobs, IsChunked(data)
  PROVE  /\ Made(Own(data)) /\ Own(data).mcid = Address(data)
         /\ mcid_is_chunked(Address(data))
         /\ Describes(Own(data), data, "blake3") /\ Lists(Own(data), data, "blake3")
         /\ Own(data).chunk_count \in Nat /\ Own(data).chunk_count >= 1
<1> DEFINE m == Own(data)
<1>1. data \in Seq(Bytes)
  BY Parameters
<1>2. /\ Fields \subseteq DOMAIN m /\ mcid_is_chunked(m.mcid)
      /\ Describes(m, data, "blake3") /\ Lists(m, data, "blake3")
  BY <1>1, CreateDescribes DEF Own
<1>3. m.mcid = Address(data) /\ data \in Content(m.mcid)
  BY DEF Address, Content
<1>4. "blake3" \in AlgsOf(m.mcid)
  BY DEF AlgsOf
<1> HIDE DEF m
<1>5. Made(m)
  BY <1>2, <1>3, <1>4 DEF Made
<1>6. m.chunk_count \in Nat /\ m.chunk_count >= 1
  <2> DEFINE L == Len(data)
  <2>1. L \in Nat /\ L > ChunkSize
    BY <1>1 DEF IsChunked
  <2>2. m.chunk_count = Count(L, ChunkSize)
    BY <1>2 DEF Describes
  <2> HIDE DEF L
  <2>3. Count(L, ChunkSize) \in Nat /\ Count(L, ChunkSize) > 1
    BY <2>1, Parameters, CountBounds, CountEdges
  <2>4. QED BY <2>2, <2>3
<1>7. QED BY <1>2, <1>3, <1>5, <1>6 DEF m

\* The chunks of a put, each under its address (content.rs put, put_block).
LEMMA OwnChunk ==
  ASSUME NEW data \in Blobs, IsChunked(data), NEW k \in 1..Own(data).chunk_count
  PROVE  LET r == Chunk(Own(data), data, k)
         IN /\ r.proc = "put_block" /\ r.payload \in Seq(Bytes)
            /\ r.mcid = block_mcid(r.payload) /\ r.mcid = chunk_mcid(Own(data), k)
<1> DEFINE m == Own(data)
           c == do_chunk(data, ChunkSize)[k]
<1>1. Describes(m, data, "blake3") /\ Lists(m, data, "blake3")
  BY OwnIs
<1>2. m.chunk_size = ChunkSize /\ k \in 1..Count(Len(data), ChunkSize)
  BY <1>1 DEF Describes
<1>3. m.chunks[k].hash = Hash("blake3", c)
  BY <1>1 DEF Lists
<1>4. c \in Seq(Bytes)
  <2>1. Slices(do_chunk(data, ChunkSize), data, ChunkSize, Bytes)
    BY Parameters, ChunkIs
  <2>2. QED BY <1>2, <2>1 DEF Slices
<1>5. Chunk(m, data, k) = PutBlock(c, chunk_mcid(m, k))
  BY <1>2 DEF Chunk
<1> HIDE DEF m, c
<1>6. chunk_mcid(m, k) = block_mcid(c)
  BY <1>3 DEF chunk_mcid, block_mcid
<1>7. QED BY <1>4, <1>5, <1>6 DEF m, PutBlock

\* The manifests of others.
LEMMA OthersMade == \A m \in Others : Made(m)
<1> SUFFICES ASSUME NEW f \in Foreign
             PROVE  Made(create(f.data, "other", ChunkSize, f.alg))
  BY DEF Others
<1> DEFINE m == create(f.data, "other", ChunkSize, f.alg)
<1>1. f.data \in Seq(Bytes)
  BY Parameters
<1>2. /\ Fields \subseteq DOMAIN m
      /\ Describes(m, f.data, f.alg) /\ Lists(m, f.data, f.alg)
  BY <1>1, CreateDescribes
<1>3. f.data \in Content(m.mcid) /\ f.alg \in AlgsOf(m.mcid)
  BY DEF Content, AlgsOf
<1> HIDE DEF m
<1>4. QED BY <1>2, <1>3 DEF Made, m

\* The address of a single block is that of the content it stands for.
LEMMA SingleAddress ==
  ASSUME NEW mcid \in Addresses, ~mcid_is_chunked(mcid)
  PROVE  \E d \in Content(mcid) : mcid = block_mcid(d)
<1>1. ASSUME NEW f \in Foreign, mcid = create(f.data, "other", ChunkSize, f.alg).mcid
      PROVE  FALSE
  BY <1>1, Parameters, CreateDescribes
<1>2. PICK d \in Blobs : mcid = Address(d)
  BY <1>1 DEF Addresses, Others
<1>3. ~IsChunked(d)
  BY <1>2, OwnIs
<1>4. QED BY <1>2, <1>3 DEF Address, Content

\* A single block is addressed as such.
LEMMA AddressKind ==
  ASSUME NEW d \in Blobs
  PROVE  mcid_is_chunked(Address(d)) <=> IsChunked(d)
<1>1. ~IsChunked(d) => ~mcid_is_chunked(Address(d))
  BY DEF Address, block_mcid, RawMcid, mcid_is_chunked
<1>2. QED BY <1>1, OwnIs

\* Content that passes the checks of get is the content described (manifest.rs verify).
LEMMA VerifiedIs ==
  ASSUME NEW m, NEW d \in Seq(Bytes), NEW alg, Describes(m, d, alg),
         NEW data \in Seq(Bytes), verify(m, data)
  PROVE  data = d
<1>1. Len(data) = Len(d) /\ RootOf(data, ChunkSize, alg) = RootOf(d, ChunkSize, alg)
  BY DEF verify, Describes
<1>2. QED BY <1>1, Parameters, RootBinds

-----------------------------------------------------------------------------
(* Steps that several actions share.                                        *)

\* The request in progress leaves the station in order.
LEMMA RequestHarmless ==
  ASSUME IInv, pc # "idle"
  PROVE  /\ Harmless(req)
         /\ op.kind = "put" => req.proc \in {"put_block", "put_manifest"}
         /\ op.kind = "get" => req.proc \in {"get_block", "get_manifest"}
         /\ op.kind = "put" /\ req.proc = "put_block" => req.mcid = block_mcid(req.payload)
<1>1. CASE op.kind = "put"
  <2>1. op.data \in Blobs /\ op.mcid = Address(op.data)
    BY <1>1 DEF IInv, PutInv
  <2>2. CASE ~IsChunked(op.data)
    <3>1. req = PutBlock(op.data, op.mcid) /\ op.mcid = block_mcid(op.data)
      BY <1>1, <2>1, <2>2 DEF IInv, PutInv, Address
    <3>2. req.proc = "put_block" /\ req.payload = op.data /\ req.mcid = op.mcid
      BY <3>1 DEF PutBlock
    <3>3. QED BY <1>1, <2>1, <3>1, <3>2, Parameters DEF Harmless
  <2>3. CASE IsChunked(op.data) /\ index <= manifest.chunk_count
    <3>1. /\ manifest = Own(op.data) /\ index \in 1..manifest.chunk_count
          /\ req = Chunk(manifest, op.data, index)
      BY <1>1, <2>3, <2>1, OwnIs DEF IInv, PutInv
    <3>2. /\ req.proc = "put_block" /\ req.payload \in Seq(Bytes)
          /\ req.mcid = block_mcid(req.payload)
      BY <2>1, <2>3, <3>1, OwnChunk
    <3>3. QED BY <1>1, <3>2 DEF Harmless
  <2>4. CASE IsChunked(op.data) /\ ~(index <= manifest.chunk_count)
    <3>1. /\ manifest = Own(op.data) /\ index = manifest.chunk_count + 1
          /\ HasFirst(manifest, index - 1) /\ req = PutManifest(manifest)
          /\ manifest.chunk_count \in Nat
      BY <1>1, <2>1, <2>4, OwnIs DEF IInv, PutInv
    <3>2. Made(manifest) /\ Lists(manifest, op.data, "blake3")
      BY <2>1, <2>4, <3>1, OwnIs
    <3>3. HasChunks(manifest)
      BY <3>1, <3>2 DEF HasChunks, HasFirst, Lists
    <3>4. req.proc = "put_manifest" /\ req.manifest = manifest
      BY <3>1 DEF PutManifest
    <3>5. QED BY <1>1, <3>2, <3>3, <3>4 DEF Harmless
  <2>5. QED BY <2>2, <2>3, <2>4
<1>2. CASE op.kind = "get"
  <2>1. req.proc \in {"get_block", "get_manifest"}
    BY <1>2 DEF IInv, GetInv, GetBlock, GetManifest
  <2>2. QED BY <1>2, <2>1 DEF Harmless
<1>3. QED BY <1>1, <1>2 DEF IInv, FlowInv

\* Blocks that stay are still there.
LEMMA ChunksStay ==
  ASSUME blocks \subseteq blocks'
  PROVE  /\ \A m : HasChunks(m) => HasChunks(m)'
         /\ \A m, k : HasFirst(m, k) => HasFirst(m, k)'
BY DEF HasChunks, HasFirst

\* A request that is carried out adds what it should (the station).
LEMMA StoreKeeps ==
  ASSUME StoreInv, NEW r, Harmless(r), Store(r), late' \subseteq late
  PROVE  /\ StoreInv'
         /\ blocks \subseteq blocks' /\ manifests \subseteq manifests'
         /\ r.proc = "put_block" /\ r.mcid = block_mcid(r.payload) =>
              <<r.mcid, r.payload>> \in blocks'
         /\ r.proc = "put_manifest" => r.manifest \in manifests'
<1>1. /\ blocks \subseteq blocks' /\ manifests \subseteq manifests'
      /\ r.proc = "put_block" /\ r.mcid = block_mcid(r.payload) =>
              <<r.mcid, r.payload>> \in blocks'
      /\ r.proc = "put_manifest" => r.manifest \in manifests'
  BY DEF Store
<1>2. \A b \in blocks' : b[2] \in Seq(Bytes)
  BY DEF Store, StoreInv, Harmless
<1>3. \A m : HasChunks(m) => HasChunks(m)'
  BY <1>1, ChunksStay
<1>4. ASSUME NEW m \in manifests'
      PROVE  Made(m) /\ HasChunks(m)'
  <2>1. Made(m) /\ HasChunks(m)
    BY DEF Store, StoreInv, Harmless
  <2>2. QED BY <1>3, <2>1
<1>5. ASSUME NEW q \in late'
      PROVE  Harmless(q)'
  <2>1. Harmless(q)
    BY DEF StoreInv
  <2>2. QED BY <1>3, <2>1 DEF Harmless, Made, Describes, Lists
<1>6. \A m : Made(m)' <=> Made(m)
  BY DEF Made, Describes, Lists
<1>7. StoreInv'
  BY <1>2, <1>4, <1>5, <1>6 DEF StoreInv
<1>8. QED BY <1>1, <1>7

\* What was stored for a put stays stored.
LEMMA LastStays ==
  ASSUME LastInv, UNCHANGED last, blocks \subseteq blocks', manifests \subseteq manifests'
  PROVE  LastInv'
<1>1. \A m : HasChunks(m) => HasChunks(m)'
  BY ChunksStay
<1>2. PutStored'
  BY <1>1 DEF LastInv, PutStored
<1>3. GetGenuine' <=> GetGenuine
  BY DEF GetGenuine
<1>4. QED BY <1>2, <1>3 DEF LastInv

\* A transfer ends: what it reports has to be true (content.rs put, get).
LEMMA FinishKeeps ==
  ASSUME IInv, pc # "idle", NEW says, NEW data, Finish(says, data),
         op.kind = "put" /\ says = "ok" =>
           IF IsChunked(op.data)
             THEN \E m \in manifests : m.mcid = op.mcid /\ HasChunks(m)
             ELSE <<op.mcid, op.data>> \in blocks,
         op.kind = "get" /\ says = "ok" /\ ~Misaddressed => data \in Content(op.mcid)
  PROVE  IInv'
<1>1. FlowInv'
  BY DEF Finish, FlowInv
<1>2. StoreInv'
  <2>1. \A m : (Made(m)' <=> Made(m)) /\ (HasChunks(m)' <=> HasChunks(m))
    BY DEF Finish, storeVars, Made, Describes, Lists, HasChunks
  <2>2. \A r \in late' : Harmless(r)
    <3>1. late' \subseteq late \cup Puts({wire})
      BY DEF Finish
    <3>2. \A r \in Puts({wire}) : r = req
      BY DEF Puts, IInv, FlowInv
    <3>3. QED BY <3>1, <3>2, RequestHarmless DEF IInv, StoreInv
  <2>3. QED BY <2>1, <2>2 DEF Finish, storeVars, IInv, StoreInv, Harmless
<1>3. PutInv' /\ GetInv'
  BY DEF Finish, PutInv, GetInv
<1>4. /\ last'.op = op /\ last'.says = says /\ last'.data = data
      /\ blocks' = blocks /\ manifests' = manifests
  BY DEF Finish, storeVars
<1>5. \A m : HasChunks(m)' <=> HasChunks(m)
  BY <1>4 DEF HasChunks
<1>6. PutStored'
  BY <1>4, <1>5 DEF PutStored
<1>7. ~Misaddressed => GetGenuine'
  BY <1>4 DEF GetGenuine
<1>8. QED BY <1>1, <1>2, <1>3, <1>6, <1>7 DEF IInv, LastInv

\* A step that changes neither the transfer nor what it awaits.
LEMMA SameKeeps ==
  ASSUME IInv, UNCHANGED <<op, manifest, index, got, req, last, late, blocks, manifests>>,
         FlowInv', pc # "idle",
         reply' = reply \/ reply' = None
  PROVE  IInv'
<1>1. \A m : (Made(m)' <=> Made(m)) /\ (HasChunks(m)' <=> HasChunks(m))
  BY DEF Made, Describes, Lists, HasChunks
<1>2. StoreInv'
  BY <1>1 DEF IInv, StoreInv, Harmless
<1>3. PutInv'
  BY DEF IInv, PutInv, HasFirst
<1>4. GetInv'
  BY DEF IInv, GetInv, Describes
<1>5. LastInv'
  BY LastStays DEF IInv
<1>6. QED BY <1>2, <1>3, <1>4, <1>5 DEF IInv

-----------------------------------------------------------------------------
(* The actions.                                                             *)

\* Nothing of a transfer at the start; the others' content is complete.
LEMMA InitHolds == Init => IInv
<1> SUFFICES ASSUME Init
             PROVE  IInv
  OBVIOUS
<1>1. FlowInv /\ PutInv /\ GetInv /\ LastInv
  BY DEF Init, FlowInv, PutInv, GetInv, LastInv, PutStored, GetGenuine
<1>2. ASSUME NEW f \in Foreign, NEW k \in 1..Count(Len(f.data), ChunkSize)
      PROVE  /\ <<chunk_mcid(create(f.data, "other", ChunkSize, f.alg), k),
                  do_chunk(f.data, ChunkSize)[k]>> \in blocks
             /\ do_chunk(f.data, ChunkSize)[k] \in Seq(Bytes)
  <2>1. k \in DOMAIN do_chunk(f.data, ChunkSize)
    BY DEF do_chunk, Count
  <2>2. Slices(do_chunk(f.data, ChunkSize), f.data, ChunkSize, Bytes)
    BY Parameters, ChunkIs
  <2> DEFINE Stored(g) ==
               {<<chunk_mcid(create(g.data, "other", ChunkSize, g.alg), j),
                  do_chunk(g.data, ChunkSize)[j]>> : j \in DOMAIN do_chunk(g.data, ChunkSize)}
  <2>3. blocks = UNION {Stored(g) : g \in Foreign}
    BY DEF Init
  <2>4. <<chunk_mcid(create(f.data, "other", ChunkSize, f.alg), k),
          do_chunk(f.data, ChunkSize)[k]>> \in Stored(f)
    BY <2>1
  <2> HIDE DEF Stored
  <2>5. <<chunk_mcid(create(f.data, "other", ChunkSize, f.alg), k),
          do_chunk(f.data, ChunkSize)[k]>> \in blocks
    BY <2>3, <2>4
  <2>6. do_chunk(f.data, ChunkSize)[k] \in Seq(Bytes)
    BY <2>2 DEF Slices
  <2>7. QED BY <2>5, <2>6
<1>3. \A b \in blocks : b[2] \in Seq(Bytes)
  <2> SUFFICES ASSUME NEW f \in Foreign, NEW k \in DOMAIN do_chunk(f.data, ChunkSize)
               PROVE  do_chunk(f.data, ChunkSize)[k] \in Seq(Bytes)
    BY DEF Init
  <2>1. k \in 1..Count(Len(f.data), ChunkSize)
    BY DEF do_chunk, Count
  <2>2. QED BY <1>2, <2>1
<1>4. \A m \in manifests : Made(m)
  BY OthersMade DEF Init
<1>5. \A m \in manifests : HasChunks(m)
  <2> SUFFICES ASSUME NEW f \in Foreign
               PROVE  HasChunks(create(f.data, "other", ChunkSize, f.alg))
    BY DEF Init, Others
  <2> DEFINE m == create(f.data, "other", ChunkSize, f.alg)
  <2>1. Describes(m, f.data, f.alg) /\ Lists(m, f.data, f.alg)
    BY Parameters, CreateDescribes
  <2>2. DOMAIN m.chunks = 1..Count(Len(f.data), ChunkSize)
    BY <2>1 DEF Describes, Lists
  <2>3. \A k \in 1..Count(Len(f.data), ChunkSize) :
          <<chunk_mcid(m, k), do_chunk(f.data, ChunkSize)[k]>> \in blocks
    BY <1>2
  <2>4. ASSUME NEW k \in 1..Count(Len(f.data), ChunkSize)
        PROVE  \E b \in blocks : b[1] = chunk_mcid(m, k)
    <3> DEFINE b == <<chunk_mcid(m, k), do_chunk(f.data, ChunkSize)[k]>>
    <3>1. b \in blocks
      BY <1>2
    <3>2. b[1] = chunk_mcid(m, k)
      OBVIOUS
    <3> HIDE DEF b, m
    <3>3. QED BY <3>1, <3>2
  <2> HIDE DEF m
  <2>5. QED BY <2>2, <2>4 DEF HasChunks, m
<1>6. StoreInv
  BY <1>3, <1>4, <1>5 DEF Init, StoreInv
<1>7. QED BY <1>1, <1>6 DEF IInv

\* A put begins with its first chunk, or with its only block.
LEMMA PutKeeps ==
  ASSUME IInv, NEW data \in Blobs, Put(data)
  PROVE  IInv'
<1>1. /\ pc = "idle" /\ pc' = "call" /\ wire = None /\ reply = None
      /\ op'.kind = "put" /\ op'.data = data /\ op'.mcid = Address(data)
      /\ index' = 1 /\ req' = FirstPut(data)
      /\ UNCHANGED <<got, wire, reply, late, blocks, manifests>>
  BY DEF IInv, FlowInv, Put, Request, storeVars
<1>2. FlowInv'
  BY <1>1 DEF IInv, FlowInv
<1>3. \A m : (Made(m)' <=> Made(m)) /\ (HasChunks(m)' <=> HasChunks(m))
  BY <1>1 DEF Made, Describes, Lists, HasChunks
<1>4. StoreInv'
  BY <1>1, <1>3 DEF IInv, StoreInv, Harmless
<1>5. PutInv'
  <2>1. CASE ~IsChunked(data)
    <3>1. req' = PutBlock(data, Address(data))
      BY <1>1, <2>1 DEF FirstPut, Address
    <3>2. QED BY <1>1, <2>1, <3>1 DEF PutInv
  <2>2. CASE IsChunked(data)
    <3>1. manifest' = Own(data) /\ req' = Chunk(Own(data), data, 1)
      BY <1>1, <2>2 DEF Put, FirstPut
    <3>2. Own(data).chunk_count \in Nat /\ Own(data).chunk_count >= 1
      BY <2>2, OwnIs
    <3>3. HasFirst(manifest, index - 1)'
      <4>1. 1..(index' - 1) = {}
        BY <1>1
      <4>2. QED BY <4>1 DEF HasFirst
    <3>4. index' \in 1..(manifest'.chunk_count + 1) /\ index' <= manifest'.chunk_count
      BY <1>1, <3>1, <3>2
    <3>5. QED BY <1>1, <2>2, <3>1, <3>3, <3>4 DEF PutInv, HasFirst
  <2>3. QED BY <2>1, <2>2
<1>6. GetInv'
  BY <1>1 DEF GetInv
<1>7. LastInv'
  BY DEF Put, LastInv, PutStored, GetGenuine
<1>8. QED BY <1>2, <1>4, <1>5, <1>6, <1>7 DEF IInv

\* A get begins with its manifest, or with its only block.
LEMMA GetKeeps ==
  ASSUME IInv, NEW mcid \in Addresses, Get(mcid)
  PROVE  IInv'
<1>1. /\ pc = "idle" /\ pc' = "call" /\ wire = None /\ reply = None
      /\ op'.kind = "get" /\ op'.mcid = mcid
      /\ req' = IF mcid_is_chunked(mcid) THEN GetManifest(mcid) ELSE GetBlock(mcid)
      /\ UNCHANGED <<got, wire, reply, late, blocks, manifests>>
  BY DEF IInv, FlowInv, Get, Request, storeVars
<1>2. FlowInv'
  BY <1>1 DEF IInv, FlowInv
<1>3. \A m : (Made(m)' <=> Made(m)) /\ (HasChunks(m)' <=> HasChunks(m))
  BY <1>1 DEF Made, Describes, Lists, HasChunks
<1>4. StoreInv'
  BY <1>1, <1>3 DEF IInv, StoreInv, Harmless
<1>5. PutInv' /\ GetInv'
  BY <1>1 DEF PutInv, GetInv
<1>6. LastInv'
  BY DEF Get, LastInv, PutStored, GetGenuine
<1>7. QED BY <1>2, <1>4, <1>5, <1>6 DEF IInv

\* A block of a put is stored: the next one, or the manifest, or the end.
LEMMA PutBlockAnsweredKeeps ==
  ASSUME IInv, PutBlockAnswered
  PROVE  IInv'
<1>1. pc = "await" /\ reply # None /\ req.proc = "put_block"
  BY DEF PutBlockAnswered, Answered
<1>2. op.kind = "put"
  BY <1>1, RequestHarmless DEF IInv, FlowInv
<1>3. op.data \in Blobs /\ op.mcid = Address(op.data)
  BY <1>1, <1>2 DEF IInv, PutInv
<1>4. mcid_is_chunked(op.mcid) <=> IsChunked(op.data)
  BY <1>3, AddressKind
<1>5. CASE reply.says # "ok"
  BY <1>1, <1>2, <1>5, FinishKeeps DEF PutBlockAnswered
<1>6. CASE reply.says = "ok" /\ ~IsChunked(op.data)
  <2>1. req.mcid = op.mcid /\ req.payload = op.data
    BY <1>1, <1>2, <1>6 DEF IInv, PutInv, PutBlock
  <2>2. <<op.mcid, op.data>> \in blocks
    BY <1>1, <1>2, <1>6, <2>1 DEF IInv, PutInv
  <2>3. Finish("ok", op.data)
    BY <1>4, <1>6 DEF PutBlockAnswered
  <2>4. QED BY <1>1, <1>2, <1>6, <2>2, <2>3, FinishKeeps
<1>7. CASE reply.says = "ok" /\ IsChunked(op.data)
  <2> DEFINE m == Own(op.data)
  <2>1. /\ manifest = m /\ index \in 1..(m.chunk_count + 1) /\ HasFirst(m, index - 1)
        /\ req = IF index <= m.chunk_count THEN Chunk(m, op.data, index) ELSE PutManifest(m)
        /\ m.chunk_count \in Nat /\ m.chunk_count >= 1
    BY <1>1, <1>2, <1>3, <1>7, OwnIs DEF IInv, PutInv
  <2>2. index \in 1..m.chunk_count
    BY <1>1, <2>1 DEF PutManifest
  <2>3. <<req.mcid, req.payload>> \in blocks /\ req.mcid = chunk_mcid(m, index)
    <3>1. req.mcid = chunk_mcid(m, index)
      BY <1>3, <1>7, <2>1, <2>2, OwnChunk
    <3>2. QED BY <1>1, <1>2, <1>7, <3>1 DEF IInv, PutInv
  <2> HIDE DEF m
  <2>4. HasFirst(m, index)
    <3>1. \A j \in 1..index : j \in 1..(index - 1) \/ j = index
      BY <2>1
    <3>2. QED BY <2>1, <2>3, <3>1 DEF HasFirst
  <2>5. /\ req' = IF MoreChunks THEN Chunk(m, op.data, index + 1) ELSE PutManifest(m)
        /\ index' = index + 1 /\ pc' = "call" /\ reply' = None
        /\ UNCHANGED <<manifest, got, op, last, wire, late, blocks, manifests>>
    BY <1>4, <1>7, <2>1 DEF PutBlockAnswered, Proceed, Request, storeVars
  <2>6. MoreChunks <=> index' <= m.chunk_count
    BY <2>1, <2>2, <2>5 DEF MoreChunks
  <2>7. FlowInv'
    BY <1>1, <2>5 DEF IInv, FlowInv
  <2>8. \A n : (Made(n)' <=> Made(n)) /\ (HasChunks(n)' <=> HasChunks(n))
    BY <2>5 DEF Made, Describes, Lists, HasChunks
  <2>9. StoreInv'
    BY <2>5, <2>8 DEF IInv, StoreInv, Harmless
  <2>10. PutInv'
    <3>1. index' \in 1..(m.chunk_count + 1) /\ index' - 1 = index
      BY <2>1, <2>2, <2>5
    <3>2. \A j \in 1..index : \E b \in blocks' : b[1] = chunk_mcid(m, j)
      BY <2>4, <2>5 DEF HasFirst
    <3>3. manifest' = m /\ m = Own(op'.data) /\ op' = op
      BY <2>1, <2>5 DEF m
    <3>4. HasFirst(manifest, index - 1)'
      BY <3>1, <3>2, <3>3, <2>5, <2>4 DEF HasFirst
    <3>5. req' = IF index' <= manifest'.chunk_count THEN Chunk(manifest', op'.data, index')
                 ELSE PutManifest(manifest')
      BY <2>5, <2>6, <3>3
    <3>6. QED BY <1>2, <1>3, <1>7, <2>5, <3>1, <3>3, <3>4, <3>5 DEF PutInv
  <2>11. GetInv'
    BY <1>2, <2>5 DEF GetInv
  <2>12. LastInv'
    BY <2>5, LastStays DEF IInv
  <2>13. QED BY <2>7, <2>9, <2>10, <2>11, <2>12 DEF IInv
<1>8. QED BY <1>5, <1>6, <1>7

\* The manifest of a put is stored, all its chunks before it.
LEMMA PutManifestAnsweredKeeps ==
  ASSUME IInv, PutManifestAnswered
  PROVE  IInv'
<1>1. /\ pc = "await" /\ reply # None /\ req.proc = "put_manifest"
      /\ Finish(reply.says, op.data)
  BY DEF PutManifestAnswered, Answered
<1>2. op.kind = "put"
  BY <1>1, RequestHarmless DEF IInv, FlowInv
<1>3. op.data \in Blobs /\ op.mcid = Address(op.data)
  BY <1>1, <1>2 DEF IInv, PutInv
<1>4. IsChunked(op.data)
  BY <1>1, <1>2 DEF IInv, PutInv, PutBlock
<1>5. manifest = Own(op.data) /\ manifest.mcid = op.mcid
  BY <1>1, <1>2, <1>3, <1>4, OwnIs DEF IInv, PutInv
<1>6. req.manifest = manifest
  <2>1. ~(index <= manifest.chunk_count)
    BY <1>1, <1>2, <1>3, <1>4 DEF IInv, PutInv, Chunk, PutBlock
  <2>2. QED BY <1>1, <1>2, <1>4, <2>1 DEF IInv, PutInv, PutManifest
<1>7. reply.says = "ok" => \E m \in manifests : m.mcid = op.mcid /\ HasChunks(m)
  BY <1>1, <1>2, <1>5, <1>6 DEF IInv, PutInv, StoreInv
<1>8. QED BY <1>1, <1>2, <1>4, <1>7, FinishKeeps

\* Nothing of a get changes what the station has, what may reach it, or a put.
LEMMA GetGoesOn ==
  ASSUME IInv, pc = "await", reply # None, op.kind = "get",
         NEW r, Proceed(r), UNCHANGED <<blocks, manifests>>,
         got' \in Seq(Bytes), GetInv'
  PROVE  IInv'
<1>1. /\ pc' = "call" /\ reply' = None
      /\ UNCHANGED <<op, last, wire, late, blocks, manifests>>
  BY DEF Proceed, Request
<1>2. FlowInv'
  BY <1>1 DEF IInv, FlowInv
<1>3. \A n : (Made(n)' <=> Made(n)) /\ (HasChunks(n)' <=> HasChunks(n))
  BY <1>1 DEF Made, Describes, Lists, HasChunks
<1>4. StoreInv'
  BY <1>1, <1>3 DEF IInv, StoreInv, Harmless
<1>5. PutInv'
  BY <1>1 DEF PutInv
<1>6. LastInv'
  BY <1>1, LastStays DEF IInv
<1>7. QED BY <1>2, <1>4, <1>5, <1>6 DEF IInv

\* The manifest of a get is there: its first chunk next.
LEMMA GetManifestAnsweredKeeps ==
  ASSUME IInv, GetManifestAnswered
  PROVE  IInv'
<1>1. pc = "await" /\ reply # None /\ req.proc = "get_manifest"
  BY DEF GetManifestAnswered, Answered
<1>2. op.kind = "get"
  BY <1>1, RequestHarmless DEF IInv, FlowInv
<1>3. mcid_is_chunked(op.mcid) /\ op.mcid \in Addresses
  BY <1>1, <1>2 DEF IInv, GetInv, GetBlock
<1>4. CASE reply.says # "ok"
  BY <1>1, <1>2, <1>4, FinishKeeps DEF GetManifestAnswered
<1>5. CASE reply.says = "ok"
  <2> DEFINE m == reply.body
  <2>1. ~Misaddressed => \E d \in Content(op.mcid), alg \in Algs : Describes(m, d, alg)
    BY <1>1, <1>2, <1>5 DEF IInv, GetInv
  <2>2. CASE ~from_wire(m)
    <3>1. Finish("manifest_decode", None)
      BY <1>5, <2>2 DEF GetManifestAnswered
    <3>2. QED BY <1>1, <1>2, <3>1, FinishKeeps
  <2>3. CASE from_wire(m) /\ m.chunk_count = 0
    <3>1. Reassembled(m, <<>>)
      BY <1>5, <2>3 DEF GetManifestAnswered
    <3>2. CASE verify(m, <<>>)
      <4>1. Finish("ok", <<>>)
        BY <3>1, <3>2 DEF Reassembled, Accepts
      <4>2. ~Misaddressed => <<>> \in Content(op.mcid)
        <5>1. <<>> \in Seq(Bytes)
          OBVIOUS
        <5>2. QED BY <2>1, <3>2, <5>1, ContentType, VerifiedIs
      <4>3. QED BY <1>1, <1>2, <4>1, <4>2, FinishKeeps
    <3>3. CASE ~verify(m, <<>>)
      <4>1. Finish("verify", None)
        BY <3>1, <3>3 DEF Reassembled, Accepts
      <4>2. QED BY <1>1, <1>2, <4>1, FinishKeeps
    <3>4. QED BY <3>2, <3>3
  <2>4. CASE from_wire(m) /\ m.chunk_count # 0
    <3>1. /\ manifest' = m /\ got' = got /\ Proceed(GetBlock(chunk_mcid(m, 1)))
      BY <1>5, <2>4 DEF GetManifestAnswered
    <3>2. /\ op' = op /\ reply' = None /\ req'.proc = "get_block"
          /\ UNCHANGED <<blocks, manifests>>
      BY <3>1 DEF Proceed, Request, storeVars, GetBlock
    <3> HIDE DEF m
    <3>3. ~Misaddressed => \E d \in Content(op.mcid), alg \in Algs : Describes(manifest', d, alg)
      BY <2>1, <3>1
    <3>4. GetInv'
      BY <1>3, <3>2, <3>3 DEF GetInv, Describes
    <3>5. got' \in Seq(Bytes)
      BY <3>1 DEF IInv, FlowInv
    <3>6. QED BY <1>1, <1>2, <3>1, <3>2, <3>4, <3>5, GetGoesOn
  <2>5. QED BY <2>2, <2>3, <2>4
<1>6. QED BY <1>4, <1>5

\* A block is there: it is what was asked for, and the last one completes the content.
LEMMA GetBlockAnsweredKeeps ==
  ASSUME IInv, GetBlockAnswered
  PROVE  IInv'
<1>1. pc = "await" /\ reply # None /\ req.proc = "get_block"
  BY DEF GetBlockAnswered, Answered
<1>2. op.kind = "get"
  BY <1>1, RequestHarmless DEF IInv, FlowInv
<1>3. op.mcid \in Addresses
  BY <1>1, <1>2 DEF IInv, GetInv
<1>4. CASE reply.says # "ok"
  BY <1>1, <1>2, <1>4, FinishKeeps DEF GetBlockAnswered
<1>5. CASE reply.says = "ok" /\ ~IsTheBlock(reply.body)
  <2>1. Finish("hash_mismatch", None)
    BY <1>5 DEF GetBlockAnswered
  <2>2. QED BY <1>1, <1>2, <2>1, FinishKeeps
<1>6. CASE reply.says = "ok" /\ IsTheBlock(reply.body) /\ ~mcid_is_chunked(op.mcid)
  <2>1. Finish("ok", reply.body)
    BY <1>6 DEF GetBlockAnswered
  <2>2. block_mcid(reply.body) = op.mcid
    BY <1>1, <1>2, <1>6 DEF IInv, GetInv, GetBlock, IsTheBlock
  <2>3. PICK d \in Content(op.mcid) : op.mcid = block_mcid(d)
    BY <1>3, <1>6, SingleAddress
  <2>4. reply.body = d
    BY <2>2, <2>3 DEF block_mcid, RawMcid, Hash
  <2>5. QED BY <1>1, <1>2, <2>1, <2>3, <2>4, FinishKeeps
<1>7. CASE reply.says = "ok" /\ IsTheBlock(reply.body) /\ mcid_is_chunked(op.mcid)
  <2>1. ~Misaddressed => \E d \in Content(op.mcid), alg \in Algs : Describes(manifest, d, alg)
    BY <1>1, <1>2, <1>7 DEF IInv, GetInv, GetManifest
  <2>2. AppendChunk(got, reply.body) \in Seq(Bytes)
    <3>1. got \in Seq(Bytes) /\ reply.body \in Seq(Bytes)
      BY <1>1, <1>2, <1>7 DEF IInv, FlowInv, GetInv
    <3>2. QED BY <3>1 DEF AppendChunk
  <2> DEFINE data == AppendChunk(got, reply.body)
  <2>3. CASE index = manifest.chunk_count
    <3>1. Reassembled(manifest, data)
      BY <1>7, <2>3 DEF GetBlockAnswered
    <3> HIDE DEF data
    <3>2. CASE verify(manifest, data)
      <4>1. Finish("ok", data)
        BY <3>1, <3>2 DEF Reassembled, Accepts
      <4>2. ~Misaddressed => data \in Content(op.mcid)
        BY <2>1, <2>2, <3>2, ContentType, VerifiedIs DEF data
      <4>3. QED BY <1>1, <1>2, <4>1, <4>2, FinishKeeps
    <3>3. CASE ~verify(manifest, data)
      <4>1. Finish("verify", None)
        BY <3>1, <3>3 DEF Reassembled, Accepts
      <4>2. QED BY <1>1, <1>2, <4>1, FinishKeeps
    <3>4. QED BY <3>2, <3>3
  <2>4. CASE index # manifest.chunk_count
    <3>1. /\ got' = data /\ manifest' = manifest
          /\ Proceed(GetBlock(chunk_mcid(manifest, index + 1)))
      BY <1>7, <2>4 DEF GetBlockAnswered
    <3>2. /\ op' = op /\ reply' = None /\ req'.proc = "get_block"
          /\ UNCHANGED <<blocks, manifests>>
      BY <3>1 DEF Proceed, Request, storeVars, GetBlock
    <3>3. GetInv'
      BY <1>3, <1>7, <2>1, <3>1, <3>2 DEF GetInv, Describes
    <3>4. got' \in Seq(Bytes)
      BY <2>2, <3>1
    <3>5. QED BY <1>1, <1>2, <3>1, <3>2, <3>3, <3>4, GetGoesOn
  <2>5. QED BY <2>3, <2>4
<1>8. QED BY <1>4, <1>5, <1>6, <1>7

-----------------------------------------------------------------------------
(* The station.                                                             *)

\* Another list of chunks leaves the rest of a manifest as it was.
LEMMA RelistedDescribes ==
  ASSUME NEW m, Made(m), NEW n \in Relisted(m), NEW d, NEW alg, Describes(m, d, alg)
  PROVE  Describes(n, d, alg)
<1>1. \E x : n = [m EXCEPT !.chunks = x]
  BY DEF Relisted
<1>2. Fields \subseteq DOMAIN m
  BY DEF Made
<1>3. /\ n.size = m.size /\ n.chunk_size = m.chunk_size /\ n.chunk_count = m.chunk_count
      /\ n.hash_algorithm = m.hash_algorithm /\ n.root_hash = m.root_hash
  BY <1>1, <1>2 DEF Fields
<1>4. QED BY <1>3 DEF Describes

\* The station answers the request in progress.
LEMMA ServeKeeps ==
  ASSUME IInv, Serve
  PROVE  IInv'
<1>1. /\ pc = "await" /\ wire = req /\ reply = None /\ wire' = None
      /\ UNCHANGED <<pc, op, manifest, index, got, req, last, late>>
  BY DEF Serve, IInv, FlowInv, transferVars
<1>2. FlowInv'
  BY <1>1 DEF IInv, FlowInv
<1>3. /\ Harmless(req)
      /\ op.kind = "put" => req.proc \in {"put_block", "put_manifest"}
      /\ op.kind = "get" => req.proc \in {"get_block", "get_manifest"}
      /\ op.kind = "put" /\ req.proc = "put_block" => req.mcid = block_mcid(req.payload)
  BY <1>1, RequestHarmless
<1>4. /\ StoreInv' /\ blocks \subseteq blocks' /\ manifests \subseteq manifests'
      /\ op.kind = "put" /\ reply'.says = "ok" =>
           /\ req.proc = "put_block" => <<req.mcid, req.payload>> \in blocks'
           /\ req.proc = "put_manifest" => req.manifest \in manifests'
  <2>1. CASE Store(req)
    BY <1>1, <1>3, <2>1, StoreKeeps DEF IInv
  <2>2. CASE UNCHANGED <<blocks, manifests>> /\ reply' \in Refusals
    <3>1. reply'.says # "ok"
      BY <2>2 DEF Refusals, Answer
    <3>2. \A n : (Made(n)' <=> Made(n)) /\ (HasChunks(n)' <=> HasChunks(n))
      BY <2>2 DEF Made, Describes, Lists, HasChunks
    <3>3. StoreInv'
      BY <1>1, <2>2, <3>2 DEF IInv, StoreInv, Harmless
    <3>4. QED BY <2>2, <3>1, <3>3
  <2>3. QED BY <1>1, <2>1, <2>2 DEF Serve, storeVars
<1>5. PutInv'
  <2>1. \A m, k : HasFirst(m, k) => HasFirst(m, k)'
    BY <1>4, ChunksStay
  <2>2. HasFirst(manifest, index - 1) => HasFirst(manifest, index - 1)'
    BY <1>1, <1>4 DEF HasFirst
  <2>3. QED BY <1>1, <1>4, <2>2 DEF IInv, PutInv
<1>6. GetInv'
  <2> SUFFICES ASSUME op.kind = "get", reply'.says = "ok"
               PROVE  /\ req.proc = "get_block" => reply'.body \in Seq(Bytes)
                      /\ req.proc = "get_manifest" /\ ~Misaddressed =>
                           \E d \in Content(op.mcid), alg \in Algs :
                             Describes(reply'.body, d, alg)
    BY <1>1 DEF IInv, GetInv, Describes
  <2>1. reply' \in Answers(req) \cup WrongAnswers(req)
    BY <1>1 DEF Serve, Refusals, Answer
  <2>2. CASE req.proc = "get_block"
    <3>1. \E b \in blocks : reply' = Answer("ok", b[2])
      BY <2>1, <2>2 DEF Answers, WrongAnswers, Answer
    <3>2. QED BY <2>2, <3>1 DEF Answer, IInv, StoreInv
  <2>3. CASE req.proc = "get_manifest" /\ ~Misaddressed
    <3>1. req.mcid = op.mcid
      BY <1>1, <2>3 DEF IInv, GetInv, GetManifest, GetBlock
    <3>2. PICK m \in manifests : /\ m.mcid = op.mcid
                                 /\ reply'.body \in {m} \cup Relisted(m)
      <4>1. \A r : Answers(r) = CASE r.proc \in {"put_block", "put_manifest"} -> {Answer("ok", None)}
                [] r.proc = "get_block" ->
                     {Answer("ok", b[2]) : b \in {c \in blocks : c[1] = r.mcid}}
                       \cup {Answer("not_found", None)}
                [] r.proc = "get_manifest" ->
                     {Answer("ok", m) : m \in {n \in manifests : n.mcid = r.mcid}}
                       \cup {Answer("not_found", None)}
        BY DEF Answers
      <4>2. QED BY <2>1, <2>3, <3>1 DEF Answers, WrongAnswers, Answer
    <3>3. Made(m)
      BY <3>2 DEF IInv, StoreInv
    <3>4. PICK d \in Content(op.mcid), alg \in Algs : Describes(m, d, alg)
      BY <3>2, <3>3, AlgsOfAreAlgs DEF Made
    <3>5. Describes(reply'.body, d, alg)
      BY <3>2, <3>3, <3>4, RelistedDescribes
    <3>6. QED BY <2>3, <3>5
  <2>4. QED BY <2>2, <2>3
<1>7. LastInv'
  BY <1>1, <1>4, LastStays DEF IInv
<1>8. QED BY <1>2, <1>4, <1>5, <1>6, <1>7 DEF IInv

\* A put that nobody waits for is carried out, or lost.
LEMMA ServeLateKeeps ==
  ASSUME IInv, ServeLate
  PROVE  IInv'
<1>1. PICK r \in late : /\ late' = late \ {r}
                        /\ Store(r) \/ UNCHANGED storeVars
                        /\ UNCHANGED <<pc, transferVars, req, attempt, last, wire, reply, honest>>
  BY DEF ServeLate
<1>2. StoreInv' /\ blocks \subseteq blocks' /\ manifests \subseteq manifests'
  <2>1. CASE Store(r)
    BY <1>1, <2>1, StoreKeeps DEF IInv, StoreInv
  <2>2. CASE UNCHANGED storeVars
    <3>1. \A n : (Made(n)' <=> Made(n)) /\ (HasChunks(n)' <=> HasChunks(n))
      BY <2>2 DEF Made, Describes, Lists, HasChunks, storeVars
    <3>2. QED BY <1>1, <2>2, <3>1 DEF IInv, StoreInv, Harmless, storeVars
  <2>3. QED BY <1>1, <2>1, <2>2
<1>3. UNCHANGED <<pc, op, manifest, index, got, req, last, wire, reply>>
  BY <1>1 DEF transferVars
<1>4. FlowInv'
  BY <1>3 DEF IInv, FlowInv
<1>5. PutInv'
  <2>1. HasFirst(manifest, index - 1) => HasFirst(manifest, index - 1)'
    BY <1>2, <1>3 DEF HasFirst
  <2>2. QED BY <1>2, <1>3, <2>1 DEF IInv, PutInv
<1>6. GetInv'
  BY <1>3 DEF IInv, GetInv, Describes
<1>7. LastInv'
  BY <1>2, <1>3, LastStays DEF IInv
<1>8. QED BY <1>2, <1>4, <1>5, <1>6, <1>7 DEF IInv

\* Every step of the client, of the application and of the station.
LEMMA StepKeeps == IInv /\ [Next]_vars => IInv'
<1> SUFFICES ASSUME IInv, [Next]_vars
             PROVE  IInv'
  OBVIOUS
<1>1. ASSUME pc # "idle", NEW says, Finish(says, None), says # "ok"
      PROVE  IInv'
  BY <1>1, FinishKeeps
<1>2. CASE Send
  <2>1. CASE Finish("failed", None)
    BY <1>1, <1>2, <2>1 DEF Send
  <2>2. CASE ~Finish("failed", None)
    <3>1. /\ pc = "call" /\ pc' = "await" /\ wire' = req
          /\ UNCHANGED <<op, manifest, index, got, req, last, reply, late, blocks, manifests>>
      BY <1>2, <2>2 DEF Send, transferVars, storeVars
    <3>2. FlowInv'
      BY <3>1 DEF IInv, FlowInv
    <3>3. QED BY <3>1, <3>2, SameKeeps
  <2>3. QED BY <2>1, <2>2
<1>3. CASE AwaitFails
  BY <1>1, <1>3 DEF AwaitFails
<1>4. CASE Retry
  <2>1. /\ pc = "await" /\ reply # None /\ pc' = "backoff" /\ reply' = None
        /\ UNCHANGED <<op, manifest, index, got, req, last, wire, late, blocks, manifests>>
    BY <1>4 DEF Retry, transferVars, storeVars
  <2>2. FlowInv'
    BY <2>1 DEF IInv, FlowInv
  <2>3. QED BY <2>1, <2>2, SameKeeps
<1>5. CASE BackOff
  <2>1. /\ pc = "backoff" /\ pc' = "call"
        /\ UNCHANGED <<op, manifest, index, got, req, last, wire, reply, late, blocks, manifests>>
    BY <1>5 DEF BackOff, transferVars, netVars, storeVars
  <2>2. FlowInv'
    BY <2>1 DEF IInv, FlowInv
  <2>3. QED BY <2>1, <2>2, SameKeeps
<1>6. CASE UNCHANGED vars
  <2>1. UNCHANGED <<pc, op, manifest, index, got, req, last, wire, reply, late, blocks, manifests>>
    BY <1>6 DEF vars, transferVars, netVars, storeVars
  <2>2. \A m : (Made(m)' <=> Made(m)) /\ (HasChunks(m)' <=> HasChunks(m))
    BY <2>1 DEF Made, Describes, Lists, HasChunks
  <2>3. FlowInv' /\ StoreInv'
    BY <2>1, <2>2 DEF IInv, FlowInv, StoreInv, Harmless
  <2>4. PutInv'
    BY <2>1 DEF IInv, PutInv, HasFirst
  <2>5. GetInv'
    BY <2>1 DEF IInv, GetInv, Describes
  <2>6. LastInv'
    BY <2>1, LastStays DEF IInv
  <2>7. QED BY <2>3, <2>4, <2>5, <2>6 DEF IInv
<1>7. CASE PutBlockAnswered \/ PutManifestAnswered
  BY <1>7, PutBlockAnsweredKeeps, PutManifestAnsweredKeeps
<1>8. CASE GetManifestAnswered \/ GetBlockAnswered
  BY <1>8, GetManifestAnsweredKeeps, GetBlockAnsweredKeeps
<1>9. CASE User
  BY <1>9, PutKeeps, GetKeeps DEF User
<1>10. CASE Serve \/ ServeLate
  BY <1>10, ServeKeeps, ServeLateKeeps
<1>11. QED
  BY <1>2, <1>3, <1>4, <1>5, <1>6, <1>7, <1>8, <1>9, <1>10 DEF Next, Client

-----------------------------------------------------------------------------
(* Theorems.                                                                *)

\* The inductive invariant.
THEOREM Invariance == Spec => []IInv
<1>1. Init => IInv
  BY InitHolds
<1>2. IInv /\ [Next]_vars => IInv'
  BY StepKeeps
<1>3. QED BY <1>1, <1>2, PTL DEF Spec

\* A manifest on the station has all its chunks there, however a put ends, is
\* retried or arrives late (content.rs put).
THEOREM ManifestsComplete == Spec => []NoDanglingManifest
<1>1. IInv => NoDanglingManifest
  BY DEF IInv, StoreInv, NoDanglingManifest
<1>2. QED BY <1>1, Invariance, PTL

\* Once put has returned an address, the whole content can be had under it
\* (content.rs put).
THEOREM PutIsStored == Spec => []PutStored
<1>1. IInv => PutStored
  BY DEF IInv, LastInv
<1>2. QED BY <1>1, Invariance, PTL

\* What get returns is what its address stands for, whatever the station answers,
\* as long as a manifest it answers with has the address it was asked for: get does
\* not compare the two, and the run content_misaddressed shows what comes of it.
THEOREM GetIsGenuine ==
  ASSUME ~Misaddressed
  PROVE  Spec => []GetGenuine
<1>1. IInv => GetGenuine
  BY DEF IInv, LastInv
<1>2. QED BY <1>1, Invariance, PTL

-----------------------------------------------------------------------------
(* An honest station.                                                       *)

\* A get of the honest station's that ends has seen no mismatch.
LEMMA HonestFinish ==
  ASSUME HonestInv, NEW says, NEW data, Finish(says, data),
         op.kind = "get" /\ Trusted => says \notin Mismatches
  PROVE  HonestInv'
<1>1. /\ pc' = "idle" /\ got' = <<>> /\ blocks' = blocks
      /\ last'.op = op /\ last'.says = says /\ last'.honest = honest
  BY DEF Finish, storeVars
<1>2. Blake3NeverMismatch'
  BY <1>1 DEF Blake3NeverMismatch, Trusted
<1>3. QED BY <1>1, <1>2 DEF HonestInv

\* A step that changes neither the transfer nor what it awaits.
LEMMA HonestSame ==
  ASSUME HonestInv, pc # "idle", pc' # "idle",
         UNCHANGED <<op, manifest, index, got, req, last, blocks>>,
         honest' => honest, reply' = reply \/ reply' = None
  PROVE  HonestInv'
<1>1. Blake3NeverMismatch'
  BY DEF HonestInv, Blake3NeverMismatch
<1>2. \A n : Made(n)' <=> Made(n)
  BY DEF Made, Describes, Lists
<1>3. \A d : /\ Describes(manifest, d, "blake3")' <=> Describes(manifest, d, "blake3")
             /\ Lists(manifest, d, "blake3")' <=> Lists(manifest, d, "blake3")
             /\ Before(d)' = Before(d)
  BY DEF Describes, Lists, Before
<1>4. HonestGet => HonestGet'
  BY <1>2, <1>3 DEF HonestGet, Made, Describes, Lists
<1>5. QED BY <1>1, <1>4 DEF HonestInv, Trusted

\* A step of a put.
LEMMA HonestPut ==
  ASSUME HonestInv, pc' # "idle", op'.kind = "put", last' \in {last, None},
         UNCHANGED blocks
  PROVE  HonestInv'
<1>1. Blake3NeverMismatch'
  BY DEF HonestInv, Blake3NeverMismatch
<1>2. QED BY <1>1 DEF HonestInv

\* A get begins with nothing in its hands.
LEMMA HonestBegin ==
  ASSUME IInv, HonestInv, NEW mcid \in Addresses, Get(mcid)
  PROVE  HonestInv'
<1>1. /\ pc = "idle" /\ pc' = "call" /\ reply = None /\ reply' = None
      /\ op'.kind = "get" /\ op'.mcid = mcid /\ last' = None /\ got' = got /\ blocks' = blocks
      /\ req' = IF mcid_is_chunked(mcid) THEN GetManifest(mcid) ELSE GetBlock(mcid)
  BY DEF IInv, FlowInv, Get, Request, storeVars
<1>2. got' = <<>>
  BY <1>1 DEF HonestInv
<1>3. ~(mcid_is_chunked(op'.mcid) /\ req'.proc = "get_block")
  BY <1>1 DEF GetManifest
<1>4. HonestGet'
  BY <1>1, <1>3 DEF HonestGet
<1>5. Blake3NeverMismatch'
  BY <1>1 DEF Blake3NeverMismatch
<1>6. QED BY <1>1, <1>2, <1>4, <1>5 DEF HonestInv

\* The number of chunks is a number.
LEMMA CountType == \A d \in Seq(Bytes) : Count(Len(d), ChunkSize) \in Nat
<1> TAKE d \in Seq(Bytes)
<1> DEFINE L == Len(d)
<1>1. L \in Nat
  OBVIOUS
<1> HIDE DEF L
<1>2. Count(L, ChunkSize) \in Nat
  BY <1>1, Parameters, CountBounds
<1>3. QED BY <1>2 DEF L

\* A manifest of content is one that from_wire accepts.
LEMMA MadeReads ==
  ASSUME NEW m, Made(m)
  PROVE  from_wire(m)
<1>1. m.chunk_size = ChunkSize /\ Len(m.chunks) = m.chunk_count
  BY DEF Made, Describes, Lists
<1>2. QED BY <1>1, Parameters DEF from_wire

\* The next chunk continues what is there (manifest.rs do_chunk).
LEMMA NextChunk ==
  ASSUME NEW d \in Seq(Bytes), NEW k \in 1..Count(Len(d), ChunkSize)
  PROVE  /\ SubSeq(d, 1, (k - 1) * ChunkSize) \o do_chunk(d, ChunkSize)[k]
              = SubSeq(d, 1, EndOf(Len(d), ChunkSize, k))
         /\ k < Count(Len(d), ChunkSize) => EndOf(Len(d), ChunkSize, k) = k * ChunkSize
         /\ k = Count(Len(d), ChunkSize) => SubSeq(d, 1, EndOf(Len(d), ChunkSize, k)) = d
<1> DEFINE n == ChunkSize
           p == (k - 1) * n
           e == EndOf(Len(d), n, k)
           c == do_chunk(d, n)[k]
<1>1. /\ p \in Nat /\ e \in Nat /\ p < e /\ e <= Len(d)
      /\ k < Count(Len(d), n) => e = k * n
      /\ k = Count(Len(d), n) => e = Len(d)
  <2> DEFINE L == Len(d)
  <2>1. L \in Nat
    OBVIOUS
  <2> HIDE DEF L
  <2>2. k \in 1..Count(L, n) =>
          /\ (k - 1) * n \in Nat /\ EndOf(L, n, k) \in Nat
          /\ (k - 1) * n < EndOf(L, n, k) /\ EndOf(L, n, k) <= L
          /\ k < Count(L, n) => EndOf(L, n, k) = k * n
          /\ k = Count(L, n) => EndOf(L, n, k) = L
    BY <2>1, Parameters, ChunkBounds
  <2>3. QED BY <2>2 DEF L
<1>2. Slices(do_chunk(d, n), d, n, Bytes)
  BY Parameters, ChunkIs
<1>3. c \in Seq(Bytes) /\ Len(c) = e - p /\ \A i \in 1..Len(c) : c[i] = d[p + i]
  BY <1>2 DEF Slices
<1> HIDE DEF n, p, e, c
<1> DEFINE f == SubSeq(d, 1, p)
           g == SubSeq(d, 1, e)
<1>4. /\ f \in Seq(Bytes) /\ Len(f) = p /\ \A i \in 1..p : f[i] = d[i]
  BY <1>1, SubSeqProperties
<1>5. /\ g \in Seq(Bytes) /\ Len(g) = e /\ \A i \in 1..e : g[i] = d[i]
  BY <1>1, SubSeqProperties
<1> HIDE DEF f, g
<1>6. /\ f \o c \in Seq(Bytes) /\ Len(f \o c) = e
      /\ \A i \in 1..e : (f \o c)[i] = IF i <= p THEN f[i] ELSE c[i - p]
  <2>1. /\ f \o c \in Seq(Bytes) /\ Len(f \o c) = Len(f) + Len(c)
        /\ \A i \in 1..(Len(f) + Len(c)) :
             (f \o c)[i] = IF i <= Len(f) THEN f[i] ELSE c[i - Len(f)]
    BY <1>3, <1>4, ConcatProperties
  <2>2. Len(f) + Len(c) = e
    BY <1>1, <1>3, <1>4
  <2>3. QED BY <1>4, <2>1, <2>2
<1>7. ASSUME NEW i \in 1..e
      PROVE  (f \o c)[i] = g[i]
  <2>1. CASE i <= p
    <3>1. i \in 1..p
      BY <1>1, <2>1
    <3>2. QED BY <1>4, <1>5, <1>6, <2>1, <3>1
  <2>2. CASE i > p
    <3>1. i - p \in 1..Len(c) /\ p + (i - p) = i
      BY <1>1, <1>3, <2>2
    <3>2. c[i - p] = d[i]
      BY <1>3, <3>1
    <3>3. (f \o c)[i] = c[i - p]
      BY <1>1, <1>6, <2>2
    <3>4. QED BY <1>5, <3>2, <3>3
  <2>3. p \in Nat /\ e \in Nat
    BY <1>1
  <2>4. i <= p \/ i > p
    BY <2>3
  <2>5. QED BY <2>1, <2>2, <2>4
<1>8. f \o c = g
  BY <1>5, <1>6, <1>7, SeqEqual
<1>9. e = Len(d) => g = d
  BY <1>5, SeqEqual
<1>10. QED BY <1>1, <1>8, <1>9 DEF n, p, e, c, f, g

\* The manifest of a get is there: what is asked for next is its first chunk.
LEMMA GetManifestHonest ==
  ASSUME IInv, HonestInv, GetManifestAnswered
  PROVE  HonestInv'
<1>1. pc = "await" /\ reply # None /\ req.proc = "get_manifest"
  BY DEF GetManifestAnswered, Answered
<1>2. op.kind = "get"
  BY <1>1, RequestHarmless DEF IInv, FlowInv
<1>3. mcid_is_chunked(op.mcid) /\ req.mcid = op.mcid
  BY <1>1, <1>2 DEF IInv, GetInv, GetBlock, GetManifest
<1>4. got = <<>> /\ (Trusted => HonestGet)
  BY <1>1, <1>2 DEF HonestInv
<1> DEFINE m == reply.body
<1>5. CASE reply.says # "ok"
  <2>1. Finish(reply.says, None)
    BY <1>5 DEF GetManifestAnswered
  <2>2. Trusted => reply.says \notin Mismatches
    BY <1>1, <1>4 DEF HonestGet
  <2>3. QED BY <2>1, <2>2, HonestFinish
<1>6. ASSUME reply.says = "ok", Trusted
      PROVE  /\ from_wire(m)
             /\ \E d \in Content(op.mcid) : Describes(m, d, "blake3") /\ Lists(m, d, "blake3")
  <2>1. Made(m) /\ m.mcid = op.mcid
    BY <1>1, <1>3, <1>4, <1>6 DEF HonestGet
  <2> HIDE DEF m
  <2>2. QED BY <1>6, <2>1, MadeReads, AlgsOfAreAlgs DEF Made, Trusted
<1>7. CASE reply.says = "ok" /\ ~from_wire(m)
  <2>1. Finish("manifest_decode", None) /\ ~Trusted
    BY <1>6, <1>7 DEF GetManifestAnswered
  <2>2. QED BY <2>1, HonestFinish
<1>8. CASE reply.says = "ok" /\ from_wire(m) /\ m.chunk_count = 0
  <2>1. Reassembled(m, <<>>)
    BY <1>8 DEF GetManifestAnswered
  <2>2. Trusted => verify(m, <<>>)
    <3> SUFFICES ASSUME Trusted
                 PROVE  verify(m, <<>>)
      OBVIOUS
    <3>1. PICK d \in Content(op.mcid) : Describes(m, d, "blake3")
      BY <1>6, <1>8
    <3>2. d \in Seq(Bytes) /\ Count(Len(d), ChunkSize) = 0
      BY <1>8, <3>1, ContentType DEF Describes
    <3>3. Len(d) = 0
      BY <3>2, Parameters, CountEdges
    <3>4. d = <<>>
      BY <3>2, <3>3
    <3> HIDE DEF m
    <3>5. QED BY <3>1, <3>3, <3>4 DEF Describes, verify
  <2>3. CASE verify(m, <<>>)
    <3>1. Finish("ok", <<>>)
      BY <2>1, <2>3 DEF Reassembled, Accepts
    <3>2. QED BY <3>1, HonestFinish DEF Mismatches
  <2>4. CASE ~verify(m, <<>>)
    <3>1. Finish("verify", None) /\ ~Trusted
      BY <2>1, <2>2, <2>4 DEF Reassembled, Accepts
    <3>2. QED BY <3>1, HonestFinish
  <2>5. QED BY <2>3, <2>4
<1>9. CASE reply.says = "ok" /\ from_wire(m) /\ m.chunk_count # 0
  <2>1. /\ manifest' = m /\ index' = 1 /\ got' = got
        /\ Proceed(GetBlock(chunk_mcid(m, 1)))
    BY <1>9 DEF GetManifestAnswered
  <2>2. /\ pc' = "call" /\ op' = op /\ reply' = None /\ honest' = honest /\ last' = last
        /\ blocks' = blocks /\ req' = GetBlock(chunk_mcid(m, 1)) /\ req'.proc = "get_block"
    BY <2>1 DEF Proceed, Request, storeVars, GetBlock
  <2> HIDE DEF m
  <2>3. ASSUME Trusted
        PROVE  HonestGet'
    <3>1. PICK d \in Content(op.mcid) : Describes(m, d, "blake3") /\ Lists(m, d, "blake3")
      BY <1>6, <1>9, <2>3
    <3>2. d \in Seq(Bytes) /\ m.chunk_count = Count(Len(d), ChunkSize)
      BY <3>1, ContentType DEF Describes
    <3>3. index' \in 1..m.chunk_count
      <4>1. Count(Len(d), ChunkSize) \in Nat
        BY <3>2, CountType
      <4>2. QED BY <1>9, <2>1, <3>2, <4>1
    <3>4. SubSeq(d, 1, (index' - 1) * ChunkSize) = <<>>
      <4>1. index' - 1 = 0 /\ (index' - 1) * ChunkSize = 0
        BY <2>1, Parameters
      <4>2. QED BY <3>2, <4>1
    <3>5. Before(d)' = <<>>
      BY <3>4 DEF Before
    <3>6. /\ Describes(manifest', d, "blake3") /\ Lists(manifest', d, "blake3")
          /\ index' \in 1..manifest'.chunk_count /\ got' = <<>>
          /\ req' = GetBlock(chunk_mcid(manifest', index'))
      BY <1>4, <2>1, <2>2, <3>1, <3>3
    <3>7. QED BY <2>2, <3>4, <3>6 DEF HonestGet, Before, Describes, Lists
  <2>4. Blake3NeverMismatch'
    BY <2>2 DEF HonestInv, Blake3NeverMismatch
  <2>5. QED BY <1>4, <2>1, <2>2, <2>3, <2>4 DEF HonestInv, Trusted, IsAddressed
<1>10. QED BY <1>5, <1>7, <1>8, <1>9

\* A block is there: the next chunk of the content.
LEMMA GetBlockHonest ==
  ASSUME IInv, HonestInv, GetBlockAnswered
  PROVE  HonestInv'
<1>1. pc = "await" /\ reply # None /\ req.proc = "get_block"
  BY DEF GetBlockAnswered, Answered
<1>2. op.kind = "get"
  BY <1>1, RequestHarmless DEF IInv, FlowInv
<1>3. Trusted => HonestGet
  BY <1>1, <1>2 DEF HonestInv
<1>4. CASE reply.says # "ok"
  <2>1. Finish(reply.says, None)
    BY <1>4 DEF GetBlockAnswered
  <2>2. Trusted => reply.says \notin Mismatches
    BY <1>1, <1>3 DEF HonestGet
  <2>3. QED BY <2>1, <2>2, HonestFinish
<1>5. CASE reply.says = "ok" /\ ~IsTheBlock(reply.body)
  <2>1. Finish("hash_mismatch", None)
    BY <1>5 DEF GetBlockAnswered
  <2>2. ~Trusted
    BY <1>1, <1>3, <1>5 DEF HonestGet, IsTheBlock
  <2>3. QED BY <2>1, <2>2, HonestFinish
<1>6. CASE reply.says = "ok" /\ IsTheBlock(reply.body) /\ ~mcid_is_chunked(op.mcid)
  <2>1. Finish("ok", reply.body)
    BY <1>6 DEF GetBlockAnswered
  <2>2. QED BY <2>1, HonestFinish DEF Mismatches
<1>7. CASE reply.says = "ok" /\ IsTheBlock(reply.body) /\ mcid_is_chunked(op.mcid)
  <2> DEFINE data == AppendChunk(got, reply.body)
             Stands(d) == /\ Describes(manifest, d, "blake3") /\ Lists(manifest, d, "blake3")
                          /\ index \in 1..manifest.chunk_count
                          /\ manifest.chunk_count = Count(Len(d), ChunkSize)
                          /\ index = manifest.chunk_count => data = d
                          /\ index # manifest.chunk_count => data = SubSeq(d, 1, index * ChunkSize)
  <2>1. ASSUME Trusted
        PROVE  \E d \in Content(op.mcid) : Stands(d)
    <3>1. PICK d \in Content(op.mcid) :
            /\ Describes(manifest, d, "blake3") /\ Lists(manifest, d, "blake3")
            /\ index \in 1..manifest.chunk_count
            /\ req = GetBlock(chunk_mcid(manifest, index))
            /\ got = Before(d)
      BY <1>1, <1>3, <1>7, <2>1 DEF HonestGet
    <3>2. d \in Seq(Bytes) /\ manifest.chunk_count = Count(Len(d), ChunkSize)
      BY <3>1, ContentType DEF Describes
    <3>3. manifest.chunks[index].hash = Hash("blake3", do_chunk(d, ChunkSize)[index])
      BY <3>1 DEF Lists
    <3>4. reply.body = do_chunk(d, ChunkSize)[index]
      <4>1. block_mcid(reply.body) = chunk_mcid(manifest, index)
        BY <1>7, <3>1 DEF IsTheBlock, GetBlock
      <4>2. RawMcid(Hash("blake3", reply.body))
              = RawMcid(Hash("blake3", do_chunk(d, ChunkSize)[index]))
        BY <3>3, <4>1 DEF block_mcid, chunk_mcid
      <4>3. QED BY <4>2 DEF RawMcid, Hash
    <3>5. data = SubSeq(d, 1, (index - 1) * ChunkSize) \o do_chunk(d, ChunkSize)[index]
      BY <3>1, <3>4 DEF AppendChunk, Before
    <3> HIDE DEF data
    <3>6. /\ data = SubSeq(d, 1, EndOf(Len(d), ChunkSize, index))
          /\ index < Count(Len(d), ChunkSize) =>
               EndOf(Len(d), ChunkSize, index) = index * ChunkSize
          /\ index = Count(Len(d), ChunkSize) =>
               SubSeq(d, 1, EndOf(Len(d), ChunkSize, index)) = d
      BY <3>1, <3>2, <3>5, NextChunk
    <3>7. Count(Len(d), ChunkSize) \in Nat
      BY <3>2, CountType
    <3>8. index # manifest.chunk_count => index < Count(Len(d), ChunkSize)
      BY <3>1, <3>2, <3>7
    <3>9. Stands(d)
      BY <3>1, <3>2, <3>6, <3>8
    <3> HIDE DEF Stands
    <3>10. QED BY <3>9
  <2>2. CASE index = manifest.chunk_count
    <3>1. Reassembled(manifest, data)
      BY <1>7, <2>2 DEF GetBlockAnswered
    <3>2. Trusted => verify(manifest, data)
      <4> SUFFICES ASSUME Trusted
                   PROVE  verify(manifest, data)
        OBVIOUS
      <4>1. PICK d \in Content(op.mcid) : Stands(d)
        BY <2>1
      <4>2. data = d /\ Describes(manifest, d, "blake3")
        BY <2>2, <4>1
      <4> HIDE DEF data
      <4>3. QED BY <4>2 DEF Describes, verify
    <3> HIDE DEF data
    <3>3. CASE verify(manifest, data)
      <4>1. Finish("ok", data)
        BY <3>1, <3>3 DEF Reassembled, Accepts
      <4>2. QED BY <4>1, HonestFinish DEF Mismatches
    <3>4. CASE ~verify(manifest, data)
      <4>1. Finish("verify", None) /\ ~Trusted
        BY <3>1, <3>2, <3>4 DEF Reassembled, Accepts
      <4>2. QED BY <4>1, HonestFinish
    <3>5. QED BY <3>3, <3>4
  <2>3. CASE index # manifest.chunk_count
    <3>1. /\ got' = data /\ index' = index + 1 /\ manifest' = manifest
          /\ Proceed(GetBlock(chunk_mcid(manifest, index + 1)))
      BY <1>7, <2>3 DEF GetBlockAnswered
    <3>2. /\ pc' = "call" /\ op' = op /\ reply' = None /\ honest' = honest /\ last' = last
          /\ blocks' = blocks /\ req' = GetBlock(chunk_mcid(manifest, index + 1))
          /\ req'.proc = "get_block"
      BY <3>1 DEF Proceed, Request, storeVars, GetBlock
    <3>3. ASSUME Trusted
          PROVE  HonestGet'
      <4>1. PICK d \in Content(op.mcid) : Stands(d)
        BY <2>1, <3>3
      <4> HIDE DEF data
      <4>2. /\ index' \in 1..manifest'.chunk_count /\ index' - 1 = index
            /\ d \in Seq(Bytes)
        <5>1. Count(Len(d), ChunkSize) \in Nat /\ d \in Seq(Bytes)
          BY ContentType, CountType
        <5>2. index \in 1..manifest.chunk_count /\ manifest.chunk_count \in Nat
          BY <4>1, <5>1
        <5>3. QED BY <2>3, <3>1, <5>1, <5>2
      <4>3. got' = SubSeq(d, 1, (index' - 1) * ChunkSize)
        BY <2>3, <3>1, <4>1, <4>2
      <4>4. /\ Describes(manifest', d, "blake3") /\ Lists(manifest', d, "blake3")
            /\ req' = GetBlock(chunk_mcid(manifest', index'))
        BY <3>1, <3>2, <4>1
      <4>5. QED BY <3>2, <4>2, <4>3, <4>4 DEF HonestGet, Before, Describes, Lists
    <3>4. Blake3NeverMismatch'
      BY <3>2 DEF HonestInv, Blake3NeverMismatch
    <3>5. QED BY <3>2, <3>3, <3>4 DEF HonestInv, Trusted, IsAddressed
  <2>4. QED BY <2>2, <2>3
<1>8. QED BY <1>4, <1>5, <1>6, <1>7

\* Nothing of a get at the start, and the blocks of the others under their hashes.
LEMMA InitHonest == Init => HonestInv
<1> SUFFICES ASSUME Init
             PROVE  HonestInv
  OBVIOUS
<1>1. ASSUME NEW b \in blocks
      PROVE  IsAddressed(b)
  <2>1. PICK f \in Foreign :
          \E k \in DOMAIN do_chunk(f.data, ChunkSize) :
            b = <<chunk_mcid(create(f.data, "other", ChunkSize, f.alg), k),
                  do_chunk(f.data, ChunkSize)[k]>>
    BY DEF Init
  <2> DEFINE m == create(f.data, "other", ChunkSize, f.alg)
  <2>2. PICK k \in DOMAIN do_chunk(f.data, ChunkSize) :
          b = <<chunk_mcid(m, k), do_chunk(f.data, ChunkSize)[k]>>
    BY <2>1
  <2>3. Describes(m, f.data, f.alg) /\ Lists(m, f.data, f.alg) /\ f.alg \in Algs
    BY Parameters, CreateDescribes DEF Algs
  <2> HIDE DEF m
  <2>4. k \in 1..m.chunk_count
    BY <2>3 DEF Describes, do_chunk, Count
  <2>5. m.chunks[k].hash = Hash(f.alg, do_chunk(f.data, ChunkSize)[k])
    BY <2>3, <2>4 DEF Lists
  <2>6. b[1] = chunk_mcid(m, k) /\ b[2] = do_chunk(f.data, ChunkSize)[k]
    BY <2>2
  <2>7. QED BY <2>3, <2>5, <2>6 DEF chunk_mcid, IsAddressed
<1>2. pc = "idle" /\ got = <<>> /\ last = None
  BY DEF Init
<1>3. QED BY <1>1, <1>2 DEF HonestInv, Blake3NeverMismatch

\* A block is stored under its address only (content.rs put_block).
LEMMA StoreAddressed ==
  ASSUME HonestInv, NEW r, Store(r)
  PROVE  \A b \in blocks' : IsAddressed(b)
<1>1. "blake3" \in Algs
  BY DEF Algs
<1>2. QED BY <1>1 DEF HonestInv, Store, IsAddressed, block_mcid

\* The station answers, and is honest when it answers what was asked.
LEMMA ServeHonest ==
  ASSUME IInv, HonestInv, Serve
  PROVE  HonestInv'
<1>1. /\ pc = "await" /\ wire = req
      /\ UNCHANGED <<pc, op, manifest, index, got, req, last>>
  BY DEF Serve, IInv, FlowInv, transferVars
<1>2. \A b \in blocks' : IsAddressed(b)
  BY StoreAddressed DEF Serve, storeVars, HonestInv
<1>3. Blake3NeverMismatch'
  BY <1>1 DEF HonestInv, Blake3NeverMismatch
<1>4. Trusted' => Trusted /\ reply' \in Answers(req) \cup Refusals
  BY <1>1 DEF Serve, Trusted
<1>5. ASSUME Trusted', op.kind = "get"
      PROVE  HonestGet'
  <2>1. HonestGet /\ reply' \in Answers(req) \cup Refusals
    BY <1>1, <1>4, <1>5 DEF HonestInv
  <2>2. req.proc \in {"get_block", "get_manifest"}
    BY <1>1, <1>5, RequestHarmless
  <2>3. /\ reply'.says \notin Mismatches
        /\ reply'.says = "ok" /\ req.proc = "get_block" => block_mcid(reply'.body) = req.mcid
        /\ reply'.says = "ok" /\ req.proc = "get_manifest" =>
             Made(reply'.body) /\ reply'.body.mcid = req.mcid
    <3>1. CASE reply' \in Refusals
      BY <3>1 DEF Refusals, Answer, Mismatches
    <3>2. CASE reply' \in Answers(req) /\ req.proc = "get_block"
      <4>1. \/ \E b \in blocks : b[1] = req.mcid /\ reply' = Answer("ok", b[2])
            \/ reply' = Answer("not_found", None)
        BY <3>2 DEF Answers
      <4>2. ASSUME NEW b \in blocks, b[1] = req.mcid
            PROVE  block_mcid(b[2]) = req.mcid
        <5>1. \E data : req.mcid = block_mcid(data)
          <6>1. CASE mcid_is_chunked(op.mcid)
            BY <2>1, <3>2, <6>1 DEF HonestGet, Lists, GetBlock, chunk_mcid, block_mcid
          <6>2. CASE ~mcid_is_chunked(op.mcid)
            BY <1>1, <1>5, <6>2, SingleAddress DEF IInv, GetInv, GetBlock
          <6>3. QED BY <6>1, <6>2
        <5>2. PICK alg \in Algs : b[1] = RawMcid(Hash(alg, b[2]))
          BY DEF HonestInv, IsAddressed
        <5>3. QED BY <4>2, <5>1, <5>2 DEF block_mcid, RawMcid, Hash
      <4>3. QED BY <3>2, <4>1, <4>2 DEF Answer, Mismatches
    <3>3. CASE reply' \in Answers(req) /\ req.proc = "get_manifest"
      <4>1. \/ \E n \in manifests : n.mcid = req.mcid /\ reply' = Answer("ok", n)
            \/ reply' = Answer("not_found", None)
        BY <3>3 DEF Answers
      <4>2. QED BY <3>3, <4>1 DEF Answer, Mismatches, IInv, StoreInv
    <3>4. QED BY <2>1, <2>2, <3>1, <3>2, <3>3
  <2>4. \A n : Made(n)' <=> Made(n)
    BY DEF Made, Describes, Lists
  <2>5. QED BY <1>1, <2>1, <2>3, <2>4 DEF HonestGet, Before, Describes, Lists, Made
<1>6. QED BY <1>1, <1>2, <1>3, <1>4, <1>5 DEF HonestInv

\* Every step.
LEMMA StepHonest == IInv /\ HonestInv /\ [Next]_vars => HonestInv'
<1> SUFFICES ASSUME IInv, HonestInv, [Next]_vars
             PROVE  HonestInv'
  OBVIOUS
<1>1. ASSUME Finish("failed", None)
      PROVE  HonestInv'
  BY <1>1, HonestFinish DEF Mismatches
<1>2. CASE Send
  <2>1. CASE ~Finish("failed", None)
    <3>1. /\ pc = "call" /\ pc' = "await"
          /\ UNCHANGED <<op, manifest, index, got, req, last, reply, honest, blocks>>
      BY <1>2, <2>1 DEF Send, transferVars, storeVars
    <3>2. QED BY <3>1, HonestSame
  <2>2. QED BY <1>1, <2>1
<1>3. CASE AwaitFails
  BY <1>1, <1>3 DEF AwaitFails
<1>4. CASE Retry \/ BackOff
  <2>1. /\ pc # "idle" /\ pc' # "idle" /\ reply' \in {reply, None}
        /\ UNCHANGED <<op, manifest, index, got, req, last, honest, blocks>>
    BY <1>4 DEF Retry, BackOff, transferVars, netVars, storeVars
  <2>2. QED BY <2>1, HonestSame
<1>5. CASE PutBlockAnswered
  <2>1. pc = "await" /\ req.proc = "put_block"
    BY <1>5 DEF PutBlockAnswered, Answered
  <2>2. op.kind = "put"
    BY <2>1, RequestHarmless DEF IInv, FlowInv
  <2>3. \/ \E says, data : Finish(says, data)
        \/ pc' = "call" /\ op' = op /\ UNCHANGED <<last, blocks>>
    BY <1>5 DEF PutBlockAnswered, Proceed, Request, storeVars
  <2>4. QED BY <2>2, <2>3, HonestFinish, HonestPut
<1>6. CASE PutManifestAnswered
  <2>1. pc = "await" /\ req.proc = "put_manifest" /\ Finish(reply.says, op.data)
    BY <1>6 DEF PutManifestAnswered, Answered
  <2>2. op.kind = "put"
    BY <2>1, RequestHarmless DEF IInv, FlowInv
  <2>3. QED BY <2>1, <2>2, HonestFinish
<1>7. CASE GetManifestAnswered \/ GetBlockAnswered
  BY <1>7, GetManifestHonest, GetBlockHonest
<1>8. CASE User
  <2>1. ASSUME NEW data \in Blobs, Put(data)
        PROVE  HonestInv'
    <3>1. pc' = "call" /\ op'.kind = "put" /\ last' = None /\ UNCHANGED blocks
      BY <2>1 DEF Put, Request, storeVars
    <3>2. QED BY <3>1, HonestPut
  <2>2. QED BY <1>8, <2>1, HonestBegin DEF User
<1>9. CASE Serve
  BY <1>9, ServeHonest
<1>10. CASE ServeLate
  <2>1. /\ UNCHANGED <<pc, op, manifest, index, got, req, last, reply, honest>>
        /\ \A b \in blocks' : IsAddressed(b)
    BY <1>10, StoreAddressed DEF ServeLate, storeVars, transferVars, HonestInv
  <2>2. Blake3NeverMismatch'
    BY <2>1 DEF HonestInv, Blake3NeverMismatch
  <2>3. HonestGet' <=> HonestGet
    BY <2>1 DEF HonestGet, Before, Describes, Lists, Made
  <2>4. QED BY <2>1, <2>2, <2>3 DEF HonestInv, Trusted, IsAddressed
<1>11. CASE UNCHANGED vars
  <2>1. UNCHANGED <<pc, op, manifest, index, got, req, last, reply, honest, blocks>>
    BY <1>11 DEF vars, transferVars, netVars, storeVars
  <2>2. Blake3NeverMismatch'
    BY <2>1 DEF HonestInv, Blake3NeverMismatch
  <2>3. HonestGet' <=> HonestGet
    BY <2>1 DEF HonestGet, Before, Describes, Lists, Made
  <2>4. QED BY <2>1, <2>2, <2>3 DEF HonestInv, Trusted, IsAddressed
<1>12. QED
  BY <1>2, <1>3, <1>4, <1>5, <1>6, <1>7, <1>8, <1>9, <1>10, <1>11 DEF Next, Client

\* As long as the station answers with what it was asked for, content hashed with
\* BLAKE3 passes the checks of get: no chunk is put in a wrong place and no manifest is
\* refused, whatever else the station holds.  Other content is left out because
\* get_block compares with block_mcid: the run content_sha shows what comes of it
\* (content.rs get, manifest.rs verify, block_mcid).
THEOREM Blake3AnswersPass == Spec => []Blake3NeverMismatch
<1>1. Init => HonestInv
  BY InitHonest
<1>2. IInv /\ HonestInv /\ [Next]_vars => HonestInv'
  BY StepHonest
<1>3. HonestInv => Blake3NeverMismatch
  BY DEF HonestInv
<1>4. QED BY <1>1, <1>2, <1>3, Invariance, PTL DEF Spec

=============================================================================
