-------------------------- MODULE GrilioParcel_proof --------------------------
(***************************************************************************)
(* What is read from a packet is what was appended to it: for any values,  *)
(* any order of them, any point at which the packet is cut and any calls.  *)
(*                                                                         *)
(* The inductive invariant is ParcelInv: the bytes are the encodings of    *)
(* the values, one after the other, and a reader that follows the values   *)
(* stands where the encodings end of those that it has.  What FlattenSeq   *)
(* returns, and that what g_utf8_to_utf16 makes pairs, is shown for every  *)
(* prefix of a sequence by NatInd, where a set of numbers takes the place  *)
(* of the induction predicate.                                             *)
(***************************************************************************)
EXTENDS GrilioParcel, SequenceTheorems, WellFoundedInduction, TLAPS

-----------------------------------------------------------------------------
(* Induction over the numbers, by the least number outside a set.          *)

\* A set of numbers that has zero and the successor of each of its members has them all.
LEMMA NatInd ==
    ASSUME NEW S \in SUBSET Nat, 0 \in S, \A n \in S : n + 1 \in S
    PROVE  S = Nat
<1> DEFINE R == {ss \in Nat \X Nat : ss[1] < ss[2]}
           T == Nat \ S
<1>1. IsWellFoundedOn(R, Nat)
  BY NatLessThanWellFounded, Zenon DEF OpToRel
<1>2. SUFFICES ASSUME T # {}
               PROVE  FALSE
  OBVIOUS
<1>3. PICK x \in T : \A y \in T : ~(<<y, x>> \in R)
  <2>1. T \subseteq Nat
    OBVIOUS
  <2> HIDE DEF T, R
  <2>2. QED
    BY <1>1, <1>2, <2>1, WFMin, Zenon
<1>4. x \in Nat \ {0}
  OBVIOUS
<1>5. PICK y \in Nat : y + 1 = x
  BY <1>4
<1>6. y \in T
  BY <1>5
<1>7. <<y, x>> \in R
  BY <1>4, <1>5
<1>8. QED
  BY <1>3, <1>6, <1>7

-----------------------------------------------------------------------------
(* What FlattenSeq does to a prefix of a sequence of sequences.            *)

Part(e, n) == FlattenSeq([i \in 1 .. n |-> e[i]])

\* The parts exist as one function of their number.
LEMMA Flattening ==
    ASSUME NEW X, NEW e \in Seq(Seq(X))
    PROVE  \E f \in [0 .. Len(e) -> Seq(X)] :
              f[0] = <<>> /\ \A n \in 1 .. Len(e) : f[n] = f[n - 1] \o e[n]
<1> DEFINE Fits(f, n) == /\ f \in [0 .. n -> Seq(X)] /\ f[0] = <<>>
                         /\ \A i \in 1 .. n : f[i] = f[i - 1] \o e[i]
           S == {n \in Nat : n <= Len(e) => \E f : Fits(f, n)}
<1>1. Len(e) \in Nat /\ \A i \in 1 .. Len(e) : e[i] \in Seq(X)
  BY ElementOfSeq
<1>2. 0 \in S
  <2>1. <<>> \in Seq(X) /\ 0 \in 0 .. 0 /\ 1 .. 0 = {}
    OBVIOUS
  <2>2. PICK z : z = [i \in 0 .. 0 |-> <<>>]
    OBVIOUS
  <2>3. z \in [0 .. 0 -> Seq(X)] /\ z[0] = <<>>
    BY <2>1, <2>2
  <2>4. \A i \in 1 .. 0 : z[i] = z[i - 1] \o e[i]
    BY <2>1, Zenon
  <2>5. \E f : Fits(f, 0)
    BY <2>3, <2>4, Zenon
  <2> HIDE DEF Fits
  <2>6. QED
    BY <2>5
<1>3. ASSUME NEW n \in S
      PROVE  n + 1 \in S
  <2> HIDE DEF Fits
  <2>1. SUFFICES ASSUME n + 1 <= Len(e)
                 PROVE  \E f : Fits(f, n + 1)
    OBVIOUS
  <2> USE DEF Fits
  <2>2. n \in Nat /\ n <= Len(e)
    BY <1>1, <2>1
  <2>3. PICK f : Fits(f, n)
    BY <2>2
  <2> DEFINE g == [i \in 0 .. n + 1 |-> IF i <= n THEN f[i] ELSE f[n] \o e[n + 1]]
  <2>4. f[n] \o e[n + 1] \in Seq(X)
    BY <1>1, <2>1, <2>2, <2>3, ConcatProperties
  <2>5. g \in [0 .. n + 1 -> Seq(X)] /\ g[0] = <<>>
    BY <2>2, <2>3, <2>4
  <2>6. ASSUME NEW i \in 1 .. n + 1
        PROVE  g[i] = g[i - 1] \o e[i]
    <3>1. CASE i <= n
      <4>1. i \in 1 .. n /\ i \in 0 .. n + 1 /\ i - 1 \in 0 .. n + 1 /\ i - 1 <= n
        BY <2>2, <3>1
      <4>2. g[i] = f[i] /\ g[i - 1] = f[i - 1]
        BY <3>1, <4>1
      <4>3. QED
        BY <2>3, <4>1, <4>2
    <3>2. CASE i = n + 1
      <4>1. n + 1 \in 0 .. n + 1 /\ n \in 0 .. n + 1 /\ ~(n + 1 <= n) /\ (n + 1) - 1 = n
        BY <2>2
      <4>2. g[n + 1] = f[n] \o e[n + 1]
        BY <4>1
      <4>3. n <= n
        BY <2>2
      <4>4. g[n] = f[n]
        BY <4>1, <4>3
      <4>5. QED
        BY <3>2, <4>1, <4>2, <4>4
    <3>3. QED
      BY <2>2, <3>1, <3>2
  <2>7. Fits(g, n + 1)
    BY <2>5, <2>6
  <2>8. QED
    BY <2>7
<1>4. S = Nat
  <2> HIDE DEF S
  <2>1. S \in SUBSET Nat
    BY DEF S
  <2>2. QED
    BY <1>2, <1>3, <2>1, NatInd
<1>5. PICK f : Fits(f, Len(e))
  <2> HIDE DEF S, Fits
  <2>1. Len(e) \in S /\ Len(e) <= Len(e)
    BY <1>1, <1>4
  <2> USE DEF S
  <2>2. QED
    BY <2>1
<1>6. QED
  BY <1>5

\* The first parts, one after another, and all of them.
LEMMA Parts ==
    ASSUME NEW X, NEW e \in Seq(Seq(X))
    PROVE  /\ Part(e, 0) = <<>>
           /\ \A n \in 0 .. Len(e) : Part(e, n) \in Seq(X)
           /\ \A n \in 0 .. Len(e) - 1 : Part(e, n + 1) = Part(e, n) \o e[n + 1]
           /\ Part(e, Len(e)) = FlattenSeq(e)
<1>1. Len(e) \in Nat /\ \A i \in 1 .. Len(e) : e[i] \in Seq(X)
  BY ElementOfSeq
<1>2. PICK f \in [0 .. Len(e) -> Seq(X)] :
         f[0] = <<>> /\ \A n \in 1 .. Len(e) : f[n] = f[n - 1] \o e[n]
  BY Flattening
<1>3. Part(e, 0) = <<>>
  <2>1. [i \in 1 .. 0 |-> e[i]] = <<>>
    OBVIOUS
  <2>2. QED
    BY <2>1 DEF Part, FlattenSeq
<1>4. ASSUME NEW n \in 1 .. Len(e)
      PROVE  Part(e, n) = f[n]
  <2> DEFINE p == [i \in 1 .. n |-> e[i]]
             Rec(g) == g = [i \in 1 .. Len(p) |-> IF i = 1 THEN p[i] ELSE g[i - 1] \o p[i]]
             G == CHOOSE g : Rec(g)
             h == [i \in 1 .. n |-> f[i]]
  <2>1. n \in Nat \ {0} /\ n <= Len(e) /\ Len(p) = n /\ DOMAIN p = 1 .. n
    BY <1>1
  <2>2. Part(e, n) = G[n]
    BY <2>1 DEF Part, FlattenSeq
  <2>3. Rec(h)
    <3>1. ASSUME NEW i \in 1 .. n
          PROVE  h[i] = IF i = 1 THEN p[i] ELSE h[i - 1] \o p[i]
      <4>1. i \in 1 .. Len(e) /\ p[i] = e[i] /\ h[i] = f[i]
        BY <2>1
      <4>2. CASE i = 1
        <5>1. f[1] = f[0] \o e[1]
          <6>1. 1 \in 1 .. Len(e) /\ 1 - 1 = 0
            BY <4>1, <4>2
          <6>2. f[1] = f[1 - 1] \o e[1]
            BY <1>2, <6>1
          <6>3. QED
            BY <6>1, <6>2
        <5>2. f[1] = e[1]
          BY <1>1, <1>2, <4>1, <4>2, <5>1, ConcatEmptySeq
        <5>3. QED
          BY <4>1, <4>2, <5>2
      <4>3. CASE i # 1
        <5>1. i - 1 \in 1 .. n /\ h[i - 1] = f[i - 1]
          BY <2>1, <4>3
        <5>2. QED
          BY <1>2, <4>1, <4>3, <5>1
      <4>4. QED
        BY <4>2, <4>3
    <3>2. QED
      BY <2>1, <3>1
  <2>4. Rec(G)
    <3> HIDE DEF Rec
    <3>1. QED
      BY <2>3
  <2>5. \A i \in 1 .. n : G[i] = IF i = 1 THEN p[i] ELSE G[i - 1] \o p[i]
    <3> HIDE DEF G
    <3>1. G = [i \in 1 .. Len(p) |-> IF i = 1 THEN p[i] ELSE G[i - 1] \o p[i]]
      BY <2>4
    <3>2. QED
      BY <2>1, <3>1
  <2>6. \A i \in 1 .. n : h[i] = IF i = 1 THEN p[i] ELSE h[i - 1] \o p[i]
    <3> HIDE DEF h
    <3>1. h = [i \in 1 .. Len(p) |-> IF i = 1 THEN p[i] ELSE h[i - 1] \o p[i]]
      BY <2>3
    <3>2. QED
      BY <2>1, <3>1
  <2> DEFINE S == {i \in Nat : i + 1 <= n => G[i + 1] = h[i + 1]}
  <2>7. S = Nat
    <3> HIDE DEF G, h, p
    <3>1. 0 \in S
      BY <2>1, <2>5, <2>6
    <3>2. ASSUME NEW i \in S
          PROVE  i + 1 \in S
      <4>1. SUFFICES ASSUME i + 1 + 1 <= n
                     PROVE  G[i + 1 + 1] = h[i + 1 + 1]
        OBVIOUS
      <4>2. PICK k \in Nat : k = i + 1
        OBVIOUS
      <4>3. k + 1 \in 1 .. n /\ k + 1 # 1 /\ (k + 1) - 1 = k /\ G[k] = h[k]
        BY <2>1, <4>1, <4>2, SMTT(30)
      <4>4. G[k + 1] = G[k] \o p[k + 1] /\ h[k + 1] = h[k] \o p[k + 1]
        BY <2>5, <2>6, <4>3
      <4>5. QED
        BY <4>2, <4>3, <4>4
    <3>3. S \in SUBSET Nat
      OBVIOUS
    <3> HIDE DEF S
    <3>4. QED
      BY <3>1, <3>2, <3>3, NatInd
  <2>8. G[n] = h[n]
    <3>1. PICK i \in Nat : i + 1 = n
      BY <2>1
    <3> HIDE DEF G, h, p
    <3>2. i \in S
      BY <2>7
    <3>3. QED
      BY <2>1, <3>1, <3>2
  <2>9. h[n] = f[n]
    BY <2>1
  <2>10. QED
    BY <2>2, <2>8, <2>9
<1>5. \A n \in 0 .. Len(e) : Part(e, n) = f[n]
  BY <1>1, <1>2, <1>3, <1>4
<1>6. e = [i \in 1 .. Len(e) |-> e[i]]
  BY LenProperties
<1>7. Part(e, Len(e)) = FlattenSeq(e)
  BY <1>6, Zenon DEF Part
<1>8. \A n \in 0 .. Len(e) : Part(e, n) \in Seq(X)
  BY <1>2, <1>5
<1>9. ASSUME NEW n \in 0 .. Len(e) - 1
      PROVE  Part(e, n + 1) = Part(e, n) \o e[n + 1]
  <2>1. n + 1 \in 1 .. Len(e) /\ n + 1 \in 0 .. Len(e) /\ n \in 0 .. Len(e) /\ (n + 1) - 1 = n
    BY <1>1
  <2>2. f[n + 1] = f[n] \o e[n + 1]
    BY <1>2, <2>1
  <2>3. QED
    BY <1>5, <2>1, <2>2
<1>10. QED
  BY <1>3, <1>7, <1>8, <1>9

\* A further sequence adds its length to that of the parts.
LEMMA PartLens ==
    ASSUME NEW X, NEW e \in Seq(Seq(X)), NEW n \in 0 .. Len(e) - 1
    PROVE  /\ Len(Part(e, n)) \in Nat /\ Len(e[n + 1]) \in Nat
           /\ Len(Part(e, n + 1)) = Len(Part(e, n)) + Len(e[n + 1])
<1>1. Len(e) \in Nat /\ n \in 0 .. Len(e) /\ n + 1 \in 1 .. Len(e)
  OBVIOUS
<1>2. Part(e, n) \in Seq(X) /\ e[n + 1] \in Seq(X) /\ Part(e, n + 1) = Part(e, n) \o e[n + 1]
  BY <1>1, Parts, ElementOfSeq
<1>3. QED
  BY <1>2, ConcatProperties

\* The parts begin all that follow them.
LEMMA PartBegins ==
    ASSUME NEW X, NEW e \in Seq(Seq(X)), NEW n \in 0 .. Len(e), NEW m \in n .. Len(e)
    PROVE  /\ Len(Part(e, n)) \in Nat /\ Len(Part(e, m)) \in Nat
           /\ Len(Part(e, n)) <= Len(Part(e, m))
           /\ \A j \in 1 .. Len(Part(e, n)) : Part(e, m)[j] = Part(e, n)[j]
<1> DEFINE Begins(k) == /\ Len(Part(e, n)) <= Len(Part(e, k))
                        /\ \A j \in 1 .. Len(Part(e, n)) : Part(e, k)[j] = Part(e, n)[j]
           S == {d \in Nat : n + d <= Len(e) => Begins(n + d)}
<1>1. /\ Len(e) \in Nat /\ n \in Nat /\ m \in Nat
      /\ \A i \in 1 .. Len(e) : e[i] \in Seq(X)
  BY ElementOfSeq
<1>2. \A k \in 0 .. Len(e) : Part(e, k) \in Seq(X) /\ Len(Part(e, k)) \in Nat
  BY Parts, LenProperties
<1>3. 0 \in S
  <2>1. n + 0 = n
    BY <1>1
  <2>2. Begins(n)
    BY <1>2
  <2> HIDE DEF Begins
  <2>3. QED
    BY <2>1, <2>2
<1>4. ASSUME NEW d \in S
      PROVE  d + 1 \in S
  <2> HIDE DEF Begins
  <2>1. SUFFICES ASSUME n + (d + 1) <= Len(e)
                 PROVE  Begins(n + (d + 1))
    OBVIOUS
  <2>2. PICK k \in Nat : k = n + d
    BY <1>1
  <2>3. n + (d + 1) = k + 1 /\ k \in 0 .. Len(e) - 1 /\ k \in 0 .. Len(e) /\ k + 1 \in 1 .. Len(e)
        /\ k + 1 \in 0 .. Len(e)
    BY <1>1, <2>1, <2>2
  <2>4. Begins(k)
    BY <1>1, <2>1, <2>2
  <2>5. Part(e, k + 1) = Part(e, k) \o e[k + 1]
    BY <2>3, Parts
  <2>6. Begins(k + 1)
    <3> USE DEF Begins
    <3>1. PICK a, b, c : a = Part(e, k) /\ b = e[k + 1] /\ c = Part(e, k + 1)
      OBVIOUS
    <3>2. a \in Seq(X) /\ b \in Seq(X) /\ c = a \o b /\ Len(a) \in Nat /\ Len(b) \in Nat
      <4>1. Part(e, k) \in Seq(X) /\ Len(Part(e, k)) \in Nat /\ e[k + 1] \in Seq(X)
        BY <1>1, <1>2, <2>3
      <4>2. QED
        BY <2>5, <3>1, <4>1, LenProperties
    <3>3. Len(c) = Len(a) + Len(b) /\ \A j \in 1 .. Len(a) : c[j] = a[j]
      <4>1. /\ Len(a \o b) = Len(a) + Len(b)
            /\ \A i \in 1 .. Len(a) + Len(b) : (a \o b)[i] = IF i <= Len(a) THEN a[i] ELSE b[i - Len(a)]
        BY <3>2, ConcatProperties
      <4>2. /\ Len(c) = Len(a) + Len(b)
            /\ \A i \in 1 .. Len(a) + Len(b) : c[i] = IF i <= Len(a) THEN a[i] ELSE b[i - Len(a)]
        BY <3>2, <4>1
      <4>3. \A j \in 1 .. Len(a) : j \in 1 .. Len(a) + Len(b) /\ j <= Len(a)
        BY <3>2
      <4>4. QED
        BY <4>2, <4>3
    <3>4. PICK p : p = Part(e, n)
      OBVIOUS
    <3>5. Len(p) \in Nat /\ Len(p) <= Len(a) /\ \A j \in 1 .. Len(p) : a[j] = p[j]
      BY <1>2, <2>4, <3>1, <3>4
    <3>6. Len(p) <= Len(c) /\ \A j \in 1 .. Len(p) : j \in 1 .. Len(a)
      BY <3>2, <3>3, <3>5
    <3>7. \A j \in 1 .. Len(p) : c[j] = p[j]
      BY <3>3, <3>5, <3>6
    <3>8. QED
      BY <3>1, <3>4, <3>6, <3>7
  <2>7. QED
    BY <2>3, <2>6
<1>5. S = Nat
  <2> HIDE DEF Begins
  <2>1. S \in SUBSET Nat
    OBVIOUS
  <2> HIDE DEF S
  <2>2. QED
    BY <1>3, <1>4, <2>1, NatInd
<1>6. Begins(m)
  <2> HIDE DEF Begins
  <2>1. PICK d \in Nat : n + d = m
    BY <1>1
  <2>2. d \in S
    <3> HIDE DEF S
    <3>1. QED
      BY <1>5, <2>1
  <2>3. n + d <= Len(e)
    BY <1>1, <2>1
  <2>4. Begins(n + d)
    BY <2>2, <2>3
  <2>5. QED
    BY <2>1, <2>4
<1>7. QED
  BY <1>1, <1>2, <1>6

\* Each of the sequences is found in all of them, after those before it.
LEMMA PartAt ==
    ASSUME NEW X, NEW e \in Seq(Seq(X)), NEW n \in 0 .. Len(e) - 1
    PROVE  /\ Len(Part(e, n)) \in Nat /\ Len(e[n + 1]) \in Nat
           /\ Len(FlattenSeq(e)) \in Nat
           /\ Len(Part(e, n)) + Len(e[n + 1]) <= Len(FlattenSeq(e))
           /\ \A j \in 1 .. Len(e[n + 1]) : FlattenSeq(e)[Len(Part(e, n)) + j] = e[n + 1][j]
<1>1. Len(e) \in Nat /\ n \in 0 .. Len(e) /\ n + 1 \in 1 .. Len(e)
  OBVIOUS
<1>2. /\ Part(e, n) \in Seq(X) /\ e[n + 1] \in Seq(X) /\ Part(e, n + 1) = Part(e, n) \o e[n + 1]
      /\ Part(e, Len(e)) = FlattenSeq(e)
  BY <1>1, Parts, ElementOfSeq
<1>3. PICK a, b : a = Part(e, n) /\ b = e[n + 1]
  OBVIOUS
<1>4. /\ a \in Seq(X) /\ b \in Seq(X) /\ Len(a) \in Nat /\ Len(b) \in Nat
      /\ Part(e, n + 1) = a \o b /\ Len(a \o b) = Len(a) + Len(b)
      /\ \A i \in 1 .. Len(a) + Len(b) : (a \o b)[i] = IF i <= Len(a) THEN a[i] ELSE b[i - Len(a)]
  BY <1>2, <1>3, ConcatProperties, LenProperties, SMTT(30)
<1>5. PICK c : c = a \o b
  OBVIOUS
<1>6. /\ Len(c) = Len(a) + Len(b)
      /\ \A i \in 1 .. Len(a) + Len(b) : c[i] = IF i <= Len(a) THEN a[i] ELSE b[i - Len(a)]
  BY <1>4, <1>5
<1>7. n + 1 \in 0 .. Len(e) /\ Len(e) \in n + 1 .. Len(e)
  BY <1>1
<1>8. /\ Len(Part(e, Len(e))) \in Nat
      /\ Len(c) <= Len(FlattenSeq(e))
      /\ \A j \in 1 .. Len(c) : FlattenSeq(e)[j] = c[j]
  <2>1. /\ Len(Part(e, Len(e))) \in Nat
        /\ Len(Part(e, n + 1)) <= Len(Part(e, Len(e)))
        /\ \A j \in 1 .. Len(Part(e, n + 1)) : Part(e, Len(e))[j] = Part(e, n + 1)[j]
    BY <1>7, PartBegins
  <2>2. Part(e, n + 1) = c /\ Part(e, Len(e)) = FlattenSeq(e)
    BY <1>2, <1>4, <1>5
  <2>3. QED
    BY <2>1, <2>2, Zenon
<1>9. ASSUME NEW j \in 1 .. Len(b)
      PROVE  FlattenSeq(e)[Len(a) + j] = b[j]
  <2>1. PICK i \in Nat : i = Len(a) + j
    BY <1>4
  <2>2. i \in 1 .. Len(c) /\ i \in 1 .. Len(a) + Len(b) /\ ~(i <= Len(a)) /\ i - Len(a) = j
    BY <1>4, <1>6, <2>1
  <2>3. QED
    BY <1>6, <1>8, <2>1, <2>2
<1>10. QED
  BY <1>2, <1>3, <1>4, <1>6, <1>8, <1>9

\* Sequences of one length.
LEMMA PartUniform ==
    ASSUME NEW X, NEW e \in Seq(Seq(X)), NEW k \in {1, 2, 4}, \A i \in 1 .. Len(e) : Len(e[i]) = k,
           NEW n \in 0 .. Len(e)
    PROVE  Len(Part(e, n)) = k * n
<1> DEFINE S == {d \in Nat : d <= Len(e) => Len(Part(e, d)) = k * d}
<1>1. Len(e) \in Nat
  OBVIOUS
<1>2. 0 \in S
  <2>1. Len(Part(e, 0)) = 0
    BY Parts
  <2>2. QED
    BY <2>1
<1>3. ASSUME NEW d \in S
      PROVE  d + 1 \in S
  <2>1. SUFFICES ASSUME d + 1 <= Len(e)
                 PROVE  Len(Part(e, d + 1)) = k * (d + 1)
    OBVIOUS
  <2>2. d \in Nat /\ d \in 0 .. Len(e) - 1 /\ d + 1 \in 1 .. Len(e) /\ Len(Part(e, d)) = k * d
    BY <1>1, <2>1
  <2>3. Len(Part(e, d + 1)) = k * d + k
    BY <2>2, PartLens
  <2>4. QED
    BY <2>2, <2>3
<1>4. S = Nat
  <2>1. S \in SUBSET Nat
    OBVIOUS
  <2> HIDE DEF S
  <2>2. QED
    BY <1>2, <1>3, <2>1, NatInd
<1>5. n \in S
  <2> HIDE DEF S
  <2>1. QED
    BY <1>4
<1>6. QED
  BY <1>5

\* One sequence more is one more at the end.
LEMMA FlattenAppend ==
    ASSUME NEW X, NEW e \in Seq(Seq(X)), NEW s \in Seq(X)
    PROVE  FlattenSeq(Append(e, s)) = FlattenSeq(e) \o s
<1>1. PICK a : a = Append(e, s)
  OBVIOUS
<1>2. /\ a \in Seq(Seq(X)) /\ Len(e) \in Nat /\ Len(a) = Len(e) + 1 /\ a[Len(e) + 1] = s
      /\ \A i \in 1 .. Len(e) : a[i] = e[i]
  BY <1>1
<1>3. [i \in 1 .. Len(e) |-> a[i]] = e
  BY <1>2, LenProperties
<1>4. Part(a, Len(e)) = FlattenSeq(e)
  BY <1>3, Zenon DEF Part
<1>5. Len(e) \in 0 .. Len(a) - 1
  BY <1>2
<1>6. Part(a, Len(e) + 1) = Part(a, Len(e)) \o a[Len(e) + 1] /\ Part(a, Len(a)) = FlattenSeq(a)
  BY <1>2, <1>5, Parts
<1>7. QED
  BY <1>1, <1>2, <1>4, <1>6

-----------------------------------------------------------------------------
(* Bytes, units and words.                                                 *)

\* A byte has at least two values; a unit is a pair of bytes and a word a pair of units.
LEMMA Sizes ==
    /\ Base \in Nat /\ Base >= 2
    /\ Unit \in Nat /\ Unit >= 4 /\ Unit = Base * Base
    /\ Word \in Nat /\ Word >= 16 /\ Word = Unit * Unit
<1>1. Base \in Nat /\ Base >= 2
  BY BaseAssumption DEF BaseAssumption
<1>2. Unit \in Nat /\ Unit >= 4 /\ Unit = Base * Base
  BY <1>1 DEF Unit
<1>3. Word = Unit * Unit
  BY <1>1 DEF Word, Unit
<1>4. Word \in Nat /\ Word >= 16
  BY <1>2, <1>3
<1>5. QED
  BY <1>1, <1>2, <1>3, <1>4

\* A number is made of the two digits it is divided into.
LEMMA Digits ==
    ASSUME NEW b \in Nat \ {0}, NEW c \in Nat \ {0}, NEW v \in 0 .. b * c - 1
    PROVE  /\ v % b \in 0 .. b - 1
           /\ v \div b \in 0 .. c - 1
           /\ v = (v % b) + b * (v \div b)
<1>1. v \in Nat /\ v < b * c
  BY SMT
<1>2. v % b \in 0 .. b - 1 /\ v \div b \in Nat /\ v = (v % b) + b * (v \div b)
  BY <1>1
<1>3. v \div b < c
  <2>1. PICK q, r \in Nat : q = v \div b /\ r = v % b /\ v = r + b * q
    BY <1>2
  <2>2. SUFFICES ASSUME q >= c
                 PROVE  FALSE
    BY <2>1
  <2>3. b * q >= b * c
    BY <2>1, <2>2
  <2>4. QED
    BY <1>1, <2>1, <2>3
<1>4. QED
  BY <1>2, <1>3

\* What the prover does not multiply out by itself.
LEMMA Distributes ==
    ASSUME NEW a \in Nat, NEW b \in Nat, NEW c \in Nat
    PROVE  (a * b) * c = a * (b * c) /\ a * (b + c) = a * b + a * c /\ a * b \in Nat
  BY SMT

\* EncodeUnit, and UnitAt on what it returns.
LEMMA UnitBytes ==
    ASSUME NEW u \in 0 .. Unit - 1
    PROVE  /\ EncodeUnit(u) \in Seq(0 .. Base - 1) /\ Len(EncodeUnit(u)) = 2
           /\ EncodeUnit(u)[1] + Base * EncodeUnit(u)[2] = u
<1>1. Base \in Nat \ {0} /\ u \in 0 .. Base * Base - 1
  BY Sizes
<1>2. u % Base \in 0 .. Base - 1 /\ u \div Base \in 0 .. Base - 1 /\ u = (u % Base) + Base * (u \div Base)
  BY <1>1, Digits
<1>3. QED
  BY <1>2 DEF EncodeUnit

\* EncodeInt32, and Int32At on what it returns.
LEMMA WordBytes ==
    ASSUME NEW v \in 0 .. Word - 1
    PROVE  /\ EncodeInt32(v) \in Seq(0 .. Base - 1) /\ Len(EncodeInt32(v)) = 4
           /\ EncodeInt32(v)[1] + Base * (EncodeInt32(v)[2]
                + Base * (EncodeInt32(v)[3] + Base * EncodeInt32(v)[4])) = v
<1>1. Base \in Nat \ {0} /\ Unit \in Nat \ {0} /\ v \in 0 .. Unit * Unit - 1
  BY Sizes
<1>2. PICK low, high \in Nat :
         /\ low = v % Unit /\ high = v \div Unit
         /\ low \in 0 .. Unit - 1 /\ high \in 0 .. Unit - 1 /\ v = low + Unit * high
  <2>1. /\ v % Unit \in 0 .. Unit - 1 /\ v \div Unit \in 0 .. Unit - 1
        /\ v = (v % Unit) + Unit * (v \div Unit)
    BY <1>1, Digits
  <2>2. QED
    BY <2>1
<1>3. low \in 0 .. Base * Base - 1 /\ high \in 0 .. Base * Base - 1
  BY <1>2, Sizes
<1>4. PICK a, b, c, d \in Nat :
         /\ a = low % Base /\ b = low \div Base /\ c = high % Base /\ d = high \div Base
         /\ {a, b, c, d} \subseteq 0 .. Base - 1
         /\ low = a + Base * b /\ high = c + Base * d
  <2>1. low % Base \in 0 .. Base - 1 /\ low \div Base \in 0 .. Base - 1
        /\ low = (low % Base) + Base * (low \div Base)
    BY <1>1, <1>3, Digits
  <2>2. high % Base \in 0 .. Base - 1 /\ high \div Base \in 0 .. Base - 1
        /\ high = (high % Base) + Base * (high \div Base)
    BY <1>1, <1>3, Digits
  <2>3. QED
    BY <2>1, <2>2
<1>5. EncodeInt32(v) = <<a, b, c, d>>
  BY <1>2, <1>4, Zenon DEF EncodeInt32
<1>6. v = a + Base * (b + Base * (c + Base * d))
  <2>1. PICK x \in Nat : x = Base * d
    BY <1>1, <1>4
  <2>2. high = c + x
    BY <1>4, <2>1
  <2>3. PICK y \in Nat : y = Base * high
    BY <1>1, <1>2
  <2>4. Unit * high = Base * y
    <3>1. Unit = Base * Base
      BY Sizes
    <3>2. (Base * Base) * high = Base * (Base * high)
      BY <1>1, <1>2, Distributes
    <3>3. QED
      BY <2>3, <3>1, <3>2, Zenon
  <2>5. Base * (b + y) = Base * b + Base * y
    BY <1>1, <1>4, <2>3, Distributes
  <2>6. PICK z, w \in Nat : z = Base * b /\ w = Base * y
    <3>1. Base * b \in Nat /\ Base * y \in Nat
      BY <1>1, <1>4, <2>3, Distributes
    <3>2. QED
      BY <3>1
  <2>7. v = a + (z + w)
    BY <1>2, <1>4, <2>4, <2>6
  <2>8. v = a + Base * (b + y)
    BY <2>5, <2>6, <2>7
  <2>9. QED
    BY <2>1, <2>2, <2>3, <2>8, Zenon
<1>7. PICK e : e = EncodeInt32(v)
  OBVIOUS
<1>8. e \in Seq(0 .. Base - 1) /\ Len(e) = 4 /\ e[1] = a /\ e[2] = b /\ e[3] = c /\ e[4] = d
  <2>1. a \in 0 .. Base - 1 /\ b \in 0 .. Base - 1 /\ c \in 0 .. Base - 1 /\ d \in 0 .. Base - 1
    BY <1>4
  <2>2. PICK X : X = 0 .. Base - 1
    OBVIOUS
  <2>3. e = <<a, b, c, d>> /\ a \in X /\ b \in X /\ c \in X /\ d \in X
    BY <1>5, <1>7, <2>1, <2>2
  <2>4. e \in Seq(X) /\ Len(e) = 4 /\ e[1] = a /\ e[2] = b /\ e[3] = c /\ e[4] = d
    BY <2>3
  <2>5. QED
    BY <2>2, <2>4
<1>9. QED
  BY <1>6, <1>7, <1>8, Zenon

\* Sequences of k elements each, and a sequence in which they stand one after another.
SameLength(e, k, X) == e \in Seq(Seq(X)) /\ \A i \in 1 .. Len(e) : Len(e[i]) = k
InRows(s, e, k, X) ==
    /\ s \in Seq(X) /\ Len(s) = k * Len(e)
    /\ \A i \in 1 .. Len(e), j \in 1 .. k : s[k * (i - 1) + j] = e[i][j]

\* Rows of the same length, joined: each element is where its row and its place say.
LEMMA Uniform ==
    ASSUME NEW X, NEW e, NEW k \in {1, 2, 4}, SameLength(e, k, X)
    PROVE  InRows(FlattenSeq(e), e, k, X)
<1>0. e \in Seq(Seq(X)) /\ \A i \in 1 .. Len(e) : Len(e[i]) = k
  BY DEF SameLength
<1>1. Len(e) \in Nat /\ Len(e) \in 0 .. Len(e)
  BY <1>0
<1>2. FlattenSeq(e) = Part(e, Len(e))
  BY <1>0, Parts
<1>3. FlattenSeq(e) \in Seq(X) /\ Len(FlattenSeq(e)) = k * Len(e)
  <2>1. Part(e, Len(e)) \in Seq(X)
    BY <1>0, <1>1, Parts
  <2>2. Len(Part(e, Len(e))) = k * Len(e)
    BY <1>0, <1>1, PartUniform, ZenonT(30)
  <2>3. QED
    BY <1>2, <2>1, <2>2, Zenon
<1>4. ASSUME NEW i \in 1 .. Len(e), NEW j \in 1 .. k
      PROVE  FlattenSeq(e)[k * (i - 1) + j] = e[i][j]
  <2>1. PICK n \in Nat : n + 1 = i
    BY <1>1
  <2>2. n \in 0 .. Len(e) - 1 /\ n \in 0 .. Len(e) /\ i - 1 = n
    BY <1>1, <2>1
  <2>3. Len(Part(e, n)) = k * n
    BY <1>0, <2>2, PartUniform
  <2>4. FlattenSeq(e)[Len(Part(e, n)) + j] = e[n + 1][j]
    <3>1. \A m \in 1 .. Len(e[n + 1]) : FlattenSeq(e)[Len(Part(e, n)) + m] = e[n + 1][m]
      BY <1>0, <2>2, PartAt
    <3>2. j \in 1 .. Len(e[n + 1])
      BY <1>0, <2>1, <2>2
    <3>3. QED
      BY <3>1, <3>2
  <2>5. QED
    BY <2>1, <2>2, <2>3, <2>4, Zenon
<1>5. QED
  BY <1>3, <1>4 DEF InRows

\* EncodeInt32Values: the bytes of the words, one word after another.
LEMMA WordsBytes ==
    ASSUME NEW n \in Seq(0 .. Word - 1)
    PROVE  /\ EncodeInt32Values(n) \in Seq(0 .. Base - 1)
           /\ Len(EncodeInt32Values(n)) = 4 * Len(n)
           /\ \A i \in 1 .. Len(n), j \in 1 .. 4 :
                EncodeInt32Values(n)[4 * (i - 1) + j] = EncodeInt32(n[i])[j]
<1>1. PICK e : e = [i \in DOMAIN n |-> EncodeInt32(n[i])]
  OBVIOUS
<1>2. /\ Len(n) \in Nat /\ DOMAIN n = 1 .. Len(n)
      /\ \A i \in 1 .. Len(n) : /\ EncodeInt32(n[i]) \in Seq(0 .. Base - 1)
                                /\ Len(EncodeInt32(n[i])) = 4
  <2>1. \A i \in 1 .. Len(n) : n[i] \in 0 .. Word - 1
    BY ElementOfSeq
  <2>2. \A v \in 0 .. Word - 1 : EncodeInt32(v) \in Seq(0 .. Base - 1) /\ Len(EncodeInt32(v)) = 4
    BY WordBytes
  <2>3. Len(n) \in Nat /\ DOMAIN n = 1 .. Len(n)
    BY LenProperties
  <2>4. QED
    BY <2>1, <2>2, <2>3, Zenon
<1>3. /\ e \in Seq(Seq(0 .. Base - 1)) /\ Len(e) = Len(n)
      /\ \A i \in 1 .. Len(e) : e[i] = EncodeInt32(n[i]) /\ Len(e[i]) = 4
  BY <1>1, <1>2
<1>4. EncodeInt32Values(n) = FlattenSeq(e)
  BY <1>1 DEF EncodeInt32Values
<1>5. InRows(FlattenSeq(e), e, 4, 0 .. Base - 1)
  <2>1. SameLength(e, 4, 0 .. Base - 1)
    BY <1>3 DEF SameLength
  <2>2. 4 \in {1, 2, 4}
    OBVIOUS
  <2>3. QED
    BY <2>1, <2>2, Uniform
<1>6. PICK w : w = EncodeInt32Values(n) /\ InRows(w, e, 4, 0 .. Base - 1)
  BY <1>4, <1>5
<1>7. ASSUME NEW i \in 1 .. Len(n), NEW j \in 1 .. 4
      PROVE  w[4 * (i - 1) + j] = EncodeInt32(n[i])[j]
  <2>1. i \in 1 .. Len(e) /\ e[i] = EncodeInt32(n[i])
    BY <1>3
  <2>2. QED
    BY <1>6, <2>1, Zenon DEF InRows
<1>8. w = EncodeInt32Values(n) /\ w \in Seq(0 .. Base - 1) /\ Len(w) = 4 * Len(n)
  BY <1>3, <1>6, Zenon DEF InRows
<1>9. QED
  BY <1>7, <1>8, Zenon

-----------------------------------------------------------------------------
(* Strings.                                                                *)

\* Min returns the least member of a set of numbers.
LEMMA MinNat ==
    ASSUME NEW S \in SUBSET Nat, S # {}
    PROVE  Min(S) \in S /\ \A y \in S : Min(S) <= y
<1> DEFINE R == {ss \in Nat \X Nat : ss[1] < ss[2]}
<1>1. IsWellFoundedOn(R, Nat)
  BY NatLessThanWellFounded, Zenon DEF OpToRel
<1>2. PICK x \in S : \A y \in S : ~(<<y, x>> \in R)
  BY <1>1, WFMin, Zenon
<1>3. ASSUME NEW y \in S
      PROVE  x <= y
  <2>1. ~(<<y, x>> \in Nat \X Nat /\ <<y, x>>[1] < <<y, x>>[2])
    BY <1>2, Zenon
  <2>2. QED
    BY <2>1
<1>4. QED
  BY <1>3, Zenon DEF Min

\* g_utf8_validate: what it leaves is characters.
LEMMA ValidText ==
    ASSUME NEW t \in Texts
    PROVE  Valid(t) \in Seq(Letters \cup Highs)
<1>1. /\ t \in Seq(Letters \cup Highs \cup {Bad}) /\ Len(t) \in Nat
      /\ DOMAIN t = 1 .. Len(t) /\ \A i \in 1 .. Len(t) : t[i] \in Letters \cup Highs \cup {Bad}
  <2>1. t \in Seq(Letters \cup Highs \cup {Bad})
    BY ItemAssumption DEF ItemAssumption
  <2>2. QED
    BY <2>1, LenProperties, ElementOfSeq
<1>2. CASE Bad \notin Range(t)
  <2>1. \A i \in 1 .. Len(t) : t[i] \in Letters \cup Highs
    BY <1>1, <1>2 DEF Range
  <2>2. Valid(t) = t
    BY <1>2 DEF Valid
  <2>3. QED
    BY <1>1, <2>1, <2>2
<1>3. CASE Bad \in Range(t)
  <2> DEFINE I == {i \in 1 .. Len(t) : t[i] = Bad}
  <2>1. I \in SUBSET Nat /\ I # {}
    BY <1>1, <1>3 DEF Range
  <2>2. PICK m : m = Min(I)
    OBVIOUS
  <2>3. m \in I /\ \A i \in I : m <= i
    <3> HIDE DEF I
    <3>1. QED
      BY <2>1, <2>2, MinNat
  <2>4. Valid(t) = SubSeq(t, 1, m - 1)
    <3>1. SelectInSeq(t, LAMBDA c : c = Bad) = m
      BY <2>1, <2>2 DEF SelectInSeq
    <3>2. QED
      BY <1>3, <3>1, Zenon DEF Valid
  <2>5. ASSUME NEW i \in 1 .. m - 1
        PROVE  t[i] \in Letters \cup Highs
    <3>1. i \in 1 .. Len(t) /\ ~(m <= i)
      BY <1>1, <2>3
    <3>2. i \notin I
      BY <2>3, <3>1
    <3>3. QED
      BY <1>1, <3>1, <3>2
  <2>6. PICK X : X = Letters \cup Highs
    OBVIOUS
  <2>7. SubSeq(t, 1, m - 1) \in Seq(X)
    <3>1. 1 \in Int /\ m - 1 \in Int /\ \A i \in 1 .. m - 1 : t[i] \in X
      BY <2>3, <2>5, <2>6
    <3>2. QED
      BY <3>1, SubSeqProperties
  <2>8. QED
    BY <2>4, <2>6, <2>7, Zenon
<1>4. QED
  BY <1>2, <1>3

\* One unit more is a character more, unless it ends a pair.
LEMMA CharactersAppend ==
    ASSUME NEW X, NEW u \in Seq(X), NEW c \in X
    PROVE  Characters(Append(u, c)) = Characters(u) \o (IF c = Low THEN <<>> ELSE <<c>>)
<1> DEFINE F(x) == IF x = Low THEN <<>> ELSE <<x>>
<1>1. PICK v : v = Append(u, c)
  OBVIOUS
<1>2. /\ v \in Seq(X) /\ Len(u) \in Nat /\ Len(v) = Len(u) + 1 /\ v[Len(u) + 1] = c
      /\ DOMAIN v = 1 .. Len(v) /\ DOMAIN u = 1 .. Len(u)
      /\ \A i \in 1 .. Len(u) : v[i] = u[i]
  BY <1>1
<1>3. \A x \in X : F(x) \in Seq(X)
  OBVIOUS
<1>4. PICK e, g : e = [i \in DOMAIN u |-> F(u[i])] /\ g = [i \in DOMAIN v |-> F(v[i])]
  OBVIOUS
<1> HIDE DEF F
<1>5. /\ e \in Seq(Seq(X)) /\ Len(e) = Len(u) /\ \A i \in 1 .. Len(u) : e[i] = F(u[i])
  BY <1>2, <1>3, <1>4, ElementOfSeq
<1>6. /\ g \in Seq(Seq(X)) /\ Len(g) = Len(v) /\ \A i \in 1 .. Len(v) : g[i] = F(v[i])
  BY <1>2, <1>3, <1>4, ElementOfSeq
<1>7. g = Append(e, F(c))
  <2>1. PICK h : h = Append(e, F(c))
    OBVIOUS
  <2>2. /\ h \in Seq(Seq(X)) /\ Len(h) = Len(u) + 1 /\ h[Len(u) + 1] = F(c)
        /\ \A i \in 1 .. Len(u) : h[i] = e[i]
    BY <1>2, <1>3, <1>5, <2>1
  <2>3. \A i \in 1 .. Len(g) : g[i] = h[i]
    <3>1. PICK k \in Nat : k = Len(u) + 1
      BY <1>2
    <3>2. /\ k \in 1 .. Len(v) /\ Len(g) = k /\ v[k] = c /\ h[k] = F(c)
          /\ \A i \in 1 .. k : i \in 1 .. Len(u) \/ i = k
          /\ \A i \in 1 .. Len(u) : i \in 1 .. Len(v)
      BY <1>2, <1>6, <2>2, <3>1
    <3>3. g[k] = h[k]
      BY <1>6, <3>2, Zenon
    <3>4. \A i \in 1 .. Len(u) : g[i] = h[i]
      BY <1>2, <1>5, <1>6, <2>2, <3>2, ZenonT(30)
    <3>5. QED
      BY <3>2, <3>3, <3>4, Zenon
  <2>4. Len(g) = Len(h)
    BY <1>2, <1>6, <2>2
  <2>5. g = h
    BY <1>6, <2>2, <2>3, <2>4, SeqEqual
  <2>6. QED
    BY <2>1, <2>5
<1>8. FlattenSeq(g) = FlattenSeq(e) \o F(c)
  <2>1. F(c) \in Seq(X)
    BY <1>3
  <2>2. QED
    BY <1>5, <1>7, <2>1, FlattenAppend
<1>9. Characters(u) = FlattenSeq(e) /\ Characters(v) = FlattenSeq(g)
  BY <1>4, Zenon DEF Characters, F
<1>10. QED
  BY <1>1, <1>8, <1>9, Zenon DEF F

\* Units that pair, and the characters they are.
Pairing(u) == /\ u = <<>> \/ u[1] # Low
              /\ \A i \in 1 .. Len(u) : u[i] \in Highs <=> i < Len(u) /\ u[i + 1] = Low
Paired(u, w) == u \in Seq(Letters \cup Highs \cup {Low}) /\ Pairing(u) /\ Characters(u) = w

\* Units that pair still pair with a letter behind them.
LEMMA PairedLetter ==
    ASSUME NEW u, NEW w, Paired(u, w), NEW c \in Letters
    PROVE  Paired(u \o <<c>>, w \o <<c>>)
<1> DEFINE X == Letters \cup Highs \cup {Low}
<1>1. PICK v : v = u \o <<c>>
  OBVIOUS
<1>2. u \in Seq(X) /\ Pairing(u) /\ Characters(u) = w
  BY DEF Paired
<1>3. c \in X /\ c # Low /\ c \notin Highs
  BY UnitAssumption DEF UnitAssumption
<1> HIDE DEF X
<1>4. v = Append(u, c)
  BY <1>1, <1>2, <1>3
<1>5. /\ v \in Seq(X) /\ Len(u) \in Nat /\ Len(v) = Len(u) + 1 /\ v[Len(u) + 1] = c
      /\ \A i \in 1 .. Len(u) : v[i] = u[i]
  BY <1>2, <1>3, <1>4
<1>6. Characters(v) = w \o <<c>>
  BY <1>2, <1>3, <1>4, CharactersAppend
<1>7. v[1] # Low
  <2>1. CASE u = <<>>
    BY <1>3, <1>5, <2>1
  <2>2. CASE u # <<>>
    BY <1>2, <1>5, <2>2 DEF Pairing
  <2>3. QED
    BY <2>1, <2>2
<1>8. ASSUME NEW i \in 1 .. Len(v)
      PROVE  v[i] \in Highs <=> i < Len(v) /\ v[i + 1] = Low
  <2>1. CASE i = Len(u) + 1
    BY <1>3, <1>5, <2>1
  <2>2. CASE i = Len(u)
    <3>1. i \in 1 .. Len(u) /\ ~(i < Len(u)) /\ v[i] = u[i] /\ v[i + 1] = c
      BY <1>5, <2>2
    <3>2. v[i] \notin Highs
      BY <1>2, <3>1 DEF Pairing
    <3>3. QED
      BY <1>3, <3>1, <3>2
  <2>3. CASE i < Len(u)
    <3>1. /\ i \in 1 .. Len(u) /\ i + 1 \in 1 .. Len(u) /\ i < Len(v)
          /\ v[i] = u[i] /\ v[i + 1] = u[i + 1]
      BY <1>5, <2>3
    <3>2. QED
      BY <1>2, <2>3, <3>1 DEF Pairing
  <2>4. QED
    BY <1>5, <2>1, <2>2, <2>3
<1>9. QED
  BY <1>1, <1>5, <1>6, <1>7, <1>8 DEF Paired, Pairing, X

\* Units that pair still pair with a pair behind them, which is one more character.
LEMMA PairedHigh ==
    ASSUME NEW u, NEW w \in Seq(Letters \cup Highs), Paired(u, w), NEW c \in Highs
    PROVE  Paired(u \o <<c, Low>>, w \o <<c>>)
<1> DEFINE X == Letters \cup Highs \cup {Low}
<1>1. PICK v : v = u \o <<c, Low>>
  OBVIOUS
<1>2. u \in Seq(X) /\ Pairing(u) /\ Characters(u) = w
  BY DEF Paired
<1>3. c \in X /\ Low \in X /\ c # Low /\ Low \notin Highs
  BY UnitAssumption DEF UnitAssumption
<1> HIDE DEF X
<1>4. PICK p : p = Append(u, c)
  OBVIOUS
<1>5. /\ p \in Seq(X) /\ Len(u) \in Nat /\ Len(p) = Len(u) + 1 /\ p[Len(u) + 1] = c
      /\ \A i \in 1 .. Len(u) : p[i] = u[i]
  BY <1>2, <1>3, <1>4
<1>6. PICK q : q = Append(p, Low)
  OBVIOUS
<1>7. /\ q \in Seq(X) /\ Len(q) = Len(u) + 2 /\ q[Len(u) + 1] = c /\ q[Len(u) + 2] = Low
      /\ \A i \in 1 .. Len(u) : q[i] = u[i]
  BY <1>3, <1>5, <1>6
<1>8. v = q
  <2>1. PICK d : d = <<c, Low>>
    OBVIOUS
  <2>2. d \in Seq(X) /\ Len(d) = 2 /\ d[1] = c /\ d[2] = Low
    BY <1>3, <2>1
  <2>3. /\ v \in Seq(X) /\ Len(v) = Len(u) + 2
        /\ \A i \in 1 .. Len(u) + 2 : v[i] = IF i <= Len(u) THEN u[i] ELSE d[i - Len(u)]
    BY <1>1, <1>2, <2>1, <2>2, ConcatProperties
  <2>4. ASSUME NEW i \in 1 .. Len(v)
        PROVE  v[i] = q[i]
    <3>1. CASE i <= Len(u)
      BY <1>5, <1>7, <2>3, <3>1
    <3>2. CASE i = Len(u) + 1
      <4>1. v[i] = d[1]
        BY <1>5, <2>3, <3>2
      <4>2. QED
        BY <1>7, <2>2, <3>2, <4>1
    <3>3. CASE i = Len(u) + 2
      <4>1. v[i] = d[2]
        BY <1>5, <2>3, <3>3
      <4>2. QED
        BY <1>7, <2>2, <3>3, <4>1
    <3>4. QED
      BY <1>5, <2>3, <3>1, <3>2, <3>3
  <2>5. Len(v) = Len(q)
    BY <1>7, <2>3
  <2>6. QED
    BY <1>7, <2>3, <2>4, <2>5, SeqEqual
<1>9. Characters(q) = w \o <<c>>
  <2>1. Characters(p) = w \o <<c>>
    BY <1>2, <1>3, <1>4, CharactersAppend
  <2>2. Characters(q) = Characters(p) \o <<>>
    BY <1>3, <1>5, <1>6, CharactersAppend
  <2>3. PICK a : a = w \o <<c>>
    OBVIOUS
  <2>4. a \in Seq(Letters \cup Highs)
    BY <2>3
  <2>5. a \o <<>> = a
    BY <2>4, ConcatEmptySeq
  <2>6. QED
    BY <2>1, <2>2, <2>3, <2>5
<1>10. q[1] # Low
  <2>1. CASE u = <<>>
    BY <1>3, <1>7, <2>1
  <2>2. CASE u # <<>>
    BY <1>2, <1>5, <1>7, <2>2 DEF Pairing
  <2>3. QED
    BY <2>1, <2>2
<1>11. ASSUME NEW i \in 1 .. Len(q)
      PROVE  q[i] \in Highs <=> i < Len(q) /\ q[i + 1] = Low
  <2>1. CASE i = Len(u) + 2
    BY <1>3, <1>5, <1>7, <2>1
  <2>2. CASE i = Len(u) + 1
    <3>1. i < Len(q) /\ q[i] = c /\ i + 1 = Len(u) + 2
      BY <1>5, <1>7, <2>2
    <3>2. QED
      BY <1>7, <3>1
  <2>3. CASE i = Len(u)
    <3>1. i \in 1 .. Len(u) /\ ~(i < Len(u)) /\ q[i] = u[i] /\ q[i + 1] = c
      BY <1>5, <1>7, <2>3
    <3>2. q[i] \notin Highs
      BY <1>2, <3>1 DEF Pairing
    <3>3. QED
      BY <1>3, <3>1, <3>2
  <2>4. CASE i < Len(u)
    <3>1. /\ i \in 1 .. Len(u) /\ i + 1 \in 1 .. Len(u) /\ i < Len(q)
          /\ q[i] = u[i] /\ q[i + 1] = u[i + 1]
      BY <1>5, <1>7, <2>4
    <3>2. QED
      BY <1>2, <2>4, <3>1 DEF Pairing
  <2>5. QED
    BY <1>5, <1>7, <2>1, <2>2, <2>3, <2>4
<1>12. QED
  BY <1>1, <1>7, <1>8, <1>9, <1>10, <1>11 DEF Paired, Pairing, X

\* grilio_encode_utf8_chars: the units of a string pair, and are its characters.
LEMMA UnitsPaired ==
    ASSUME NEW t \in Texts
    PROVE  Paired(Units(t), Valid(t))
<1>1. PICK w : w = Valid(t) /\ w \in Seq(Letters \cup Highs)
  BY ValidText
<1>2. PICK X : X = Letters \cup Highs \cup {Low}
  OBVIOUS
<1>3. PICK e : e = [i \in DOMAIN w |-> Utf16(w[i])]
  OBVIOUS
<1>4. Len(w) \in Nat /\ DOMAIN w = 1 .. Len(w) /\ \A i \in 1 .. Len(w) : w[i] \in Letters \cup Highs
  BY <1>1, LenProperties, ElementOfSeq
<1>5. ASSUME NEW c \in Letters \cup Highs
      PROVE  Utf16(c) \in Seq(X)
  <2>1. c \in X /\ Low \in X
    BY <1>2
  <2>2. <<c>> \in Seq(X) /\ <<c, Low>> \in Seq(X)
    BY <2>1
  <2>3. QED
    BY <2>2 DEF Utf16
<1>6. e \in Seq(Seq(X)) /\ Len(e) = Len(w) /\ \A i \in 1 .. Len(w) : e[i] = Utf16(w[i])
  BY <1>3, <1>4, <1>5
<1> DEFINE S == {n \in Nat : n <= Len(w) => Paired(Part(e, n), SubSeq(w, 1, n))}
<1>7. 0 \in S
  <2>1. Part(e, 0) = <<>> /\ SubSeq(w, 1, 0) = <<>>
    BY <1>1, <1>6, Parts
  <2>2. Paired(<<>>, <<>>)
    <3>1. <<>> \in Seq(X) /\ Len(<<>>) = 0 /\ DOMAIN <<>> = {} /\ 1 .. 0 = {}
      OBVIOUS
    <3>2. Characters(<<>>) = <<>>
      <4>1. [i \in DOMAIN <<>> |-> IF <<>>[i] = Low THEN <<>> ELSE << <<>>[i] >>] = <<>>
        BY <3>1
      <4>2. FlattenSeq(<<>>) = <<>>
        BY <3>1 DEF FlattenSeq
      <4>3. QED
        BY <4>1, <4>2, Zenon DEF Characters
    <3>3. QED
      BY <1>2, <3>1, <3>2 DEF Paired, Pairing
  <2>3. QED
    BY <2>1, <2>2
<1>8. ASSUME NEW n \in S
      PROVE  n + 1 \in S
  <2>1. SUFFICES ASSUME n + 1 <= Len(w)
                 PROVE  Paired(Part(e, n + 1), SubSeq(w, 1, n + 1))
    OBVIOUS
  <2>2. /\ n \in Nat /\ n \in 0 .. Len(e) - 1 /\ n + 1 \in 1 .. Len(w)
        /\ Paired(Part(e, n), SubSeq(w, 1, n))
    BY <1>4, <1>6, <2>1
  <2>3. PICK c : c = w[n + 1] /\ c \in Letters \cup Highs
    BY <1>4, <2>2
  <2>4. Part(e, n + 1) = Part(e, n) \o Utf16(c)
    BY <1>6, <2>2, <2>3, Parts
  <2>5. PICK v : v = SubSeq(w, 1, n) /\ v \in Seq(Letters \cup Highs)
    <3>1. \A i \in 1 .. n : w[i] \in Letters \cup Highs
      BY <1>4, <2>1, <2>2
    <3>2. SubSeq(w, 1, n) \in Seq(Letters \cup Highs)
      BY <2>2, <3>1, SubSeqProperties
    <3>3. QED
      BY <3>2
  <2>6. SubSeq(w, 1, n + 1) = v \o <<c>>
    <3>1. PICK m \in Nat : m = n + 1
      BY <2>2
    <3>2. 1 \in 1 .. Len(w) /\ m \in 1 .. Len(w) /\ m - 1 = n
      BY <1>4, <2>2, <3>1
    <3>3. SubSeq(w, 1, m) = SubSeq(w, 1, m - 1) \o <<w[m]>>
      BY <1>1, <3>2, SubSeqRecursiveSecond
    <3>4. QED
      BY <2>3, <2>5, <3>1, <3>2, <3>3
  <2>7. PICK u : u = Part(e, n) /\ Paired(u, v)
    BY <2>2, <2>5
  <2>8. CASE c \in Highs
    <3>1. Utf16(c) = <<c, Low>>
      BY <2>8 DEF Utf16
    <3>2. QED
      BY <2>4, <2>5, <2>6, <2>7, <2>8, <3>1, PairedHigh
  <2>9. CASE c \notin Highs
    <3>1. Utf16(c) = <<c>> /\ c \in Letters
      BY <2>3, <2>9 DEF Utf16
    <3>2. QED
      BY <2>4, <2>6, <2>7, <3>1, PairedLetter
  <2>10. QED
    BY <2>8, <2>9
<1>9. S = Nat
  <2>1. S \in SUBSET Nat
    OBVIOUS
  <2> HIDE DEF S
  <2>2. QED
    BY <1>7, <1>8, <2>1, NatInd
<1>10. Paired(Part(e, Len(w)), SubSeq(w, 1, Len(w)))
  <2>1. Len(w) \in S
    <3> HIDE DEF S
    <3>1. QED
      BY <1>4, <1>9
  <2>2. QED
    BY <1>4, <2>1
<1>11. Part(e, Len(w)) = Units(t)
  <2>1. Units(t) = FlattenSeq(e)
    BY <1>1, <1>3, Zenon DEF Units
  <2>2. QED
    BY <1>6, <2>1, Parts
<1>12. SubSeq(w, 1, Len(w)) = w
  BY <1>1, SubSeqFull
<1>13. QED
  BY <1>1, <1>10, <1>11, <1>12

\* g_utf16_to_utf8: the characters of units that pair.
LEMMA PairedUtf8 ==
    ASSUME NEW u, NEW w, Paired(u, w)
    PROVE  Utf8(u) = w
<1>1. /\ u \in Seq(Letters \cup Highs \cup {Low}) /\ Pairing(u) /\ Characters(u) = w
      /\ DOMAIN u = 1 .. Len(u) /\ \A i \in 1 .. Len(u) : u[i] # 0
  <2>1. u \in Seq(Letters \cup Highs \cup {Low}) /\ Pairing(u) /\ Characters(u) = w
    BY DEF Paired
  <2>2. 0 \notin Letters \cup Highs \cup {Low}
    BY UnitAssumption DEF UnitAssumption
  <2>3. QED
    BY <2>1, <2>2, LenProperties, ElementOfSeq
<1>2. SelectInSeq(u, LAMBDA x : x = 0) = 0
  <2>1. {i \in 1 .. Len(u) : u[i] = 0} = {}
    BY <1>1
  <2>2. QED
    BY <2>1 DEF SelectInSeq
<1>3. QED
  BY <1>1, <1>2 DEF Utf8, Pairing

\* Aligning to four bytes adds three at most (G_ALIGN4 in grilio_encode.c).
LEMMA AlignBounds ==
    ASSUME NEW n \in Nat
    PROVE  Align4(n) \in Nat /\ n <= Align4(n) /\ Align4(n) <= n + 3
  BY DEF Align4

\* A string as bytes: its length, its units and what pads them.
TextBytes(e, u) ==
    /\ e \in Seq(0 .. Base - 1)
    /\ Len(e) = 4 + Align4((Len(u) + 1) * 2)
    /\ \A j \in 1 .. 4 : e[j] = EncodeInt32(Len(u))[j]
    /\ \A i \in 1 .. Len(u), j \in 1 .. 2 : e[4 + 2 * (i - 1) + j] = EncodeUnit(u[i])[j]

\* A sequence that begins with two others, one after another, and is l long.
StartsWith(e, a, b, l, X) ==
    /\ e \in Seq(X) /\ Len(e) = l
    /\ \A j \in 1 .. Len(a) : e[j] = a[j]
    /\ \A j \in 1 .. Len(b) : e[Len(a) + j] = b[j]

\* Two byte strings one after the other.
LEMMA TwoBytes ==
    ASSUME NEW X, NEW a \in Seq(X), NEW b \in Seq(X)
    PROVE  StartsWith(a \o b, a, b, Len(a) + Len(b), X)
<1>0. PICK e : e = a \o b
  OBVIOUS
<1>1. Len(a) \in Nat /\ Len(b) \in Nat
  BY LenProperties
<1>2. /\ e \in Seq(X) /\ Len(e) = Len(a) + Len(b)
      /\ \A i \in 1 .. Len(a) + Len(b) : e[i] = IF i <= Len(a) THEN a[i] ELSE b[i - Len(a)]
  <2>1. /\ a \o b \in Seq(X) /\ Len(a \o b) = Len(a) + Len(b)
        /\ \A i \in 1 .. Len(a) + Len(b) : (a \o b)[i] = IF i <= Len(a) THEN a[i] ELSE b[i - Len(a)]
    BY ConcatProperties
  <2>2. QED
    BY <1>0, <2>1, Zenon
<1>3. ASSUME NEW j \in 1 .. Len(a)
      PROVE  e[j] = a[j]
  <2>1. j \in 1 .. Len(a) + Len(b) /\ j <= Len(a)
    BY <1>1
  <2>2. QED
    BY <1>2, <2>1
<1>4. ASSUME NEW j \in 1 .. Len(b)
      PROVE  e[Len(a) + j] = b[j]
  <2>1. PICK i \in Nat : i = Len(a) + j
    BY <1>1
  <2>2. i \in 1 .. Len(a) + Len(b) /\ ~(i <= Len(a)) /\ i - Len(a) = j
    BY <1>1, <2>1
  <2>3. QED
    BY <1>2, <2>1, <2>2
<1>5. QED
  BY <1>0, <1>2, <1>3, <1>4, Zenon DEF StartsWith

\* Three byte strings one after the other.
LEMMA ThreeBytes ==
    ASSUME NEW X, NEW a \in Seq(X), NEW b \in Seq(X), NEW c \in Seq(X)
    PROVE  StartsWith(a \o b \o c, a, b, Len(a) + Len(b) + Len(c), X)
<1>1. Len(a) \in Nat /\ Len(b) \in Nat /\ Len(c) \in Nat
  BY LenProperties
<1>2. PICK p : p = a \o b /\ StartsWith(p, a, b, Len(a) + Len(b), X)
  BY TwoBytes
<1>3. /\ p \in Seq(X) /\ Len(p) = Len(a) + Len(b)
      /\ \A j \in 1 .. Len(a) : p[j] = a[j]
      /\ \A j \in 1 .. Len(b) : p[Len(a) + j] = b[j]
  BY <1>2, Zenon DEF StartsWith
<1>4. PICK e : e = p \o c /\ StartsWith(e, p, c, Len(p) + Len(c), X)
  BY <1>3, TwoBytes
<1>5. /\ e \in Seq(X) /\ Len(e) = Len(p) + Len(c)
      /\ \A j \in 1 .. Len(p) : e[j] = p[j]
  BY <1>4, Zenon DEF StartsWith
<1>6. /\ \A j \in 1 .. Len(a) : j \in 1 .. Len(p)
      /\ \A j \in 1 .. Len(b) : Len(a) + j \in 1 .. Len(p)
  BY <1>1, <1>3
<1>7. \A j \in 1 .. Len(a) : e[j] = a[j]
  BY <1>3, <1>5, <1>6
<1>8. \A j \in 1 .. Len(b) : e[Len(a) + j] = b[j]
  BY <1>3, <1>5, <1>6
<1>9. Len(e) = Len(a) + Len(b) + Len(c)
  BY <1>1, <1>3, <1>5
<1>10. StartsWith(e, a, b, Len(a) + Len(b) + Len(c), X)
  BY <1>5, <1>7, <1>8, <1>9, Zenon DEF StartsWith
<1>11. QED
  BY <1>2, <1>4, <1>10, Zenon

\* The units of a string are numbers that two bytes hold, and few enough for its length.
LEMMA UnitsFit ==
    ASSUME NEW t \in Texts
    PROVE  /\ Units(t) \in Seq(1 .. Unit - 1)
           /\ Len(Units(t)) \in Nat /\ 2 * (Len(Units(t)) + 1) <= Word - 4
<1>1. Units(t) \in Seq(Letters \cup Highs \cup {Low})
  BY UnitsPaired DEF Paired
<1>2. Letters \cup Highs \cup {Low} \subseteq 1 .. Unit - 1
  BY UnitAssumption DEF UnitAssumption
<1>3. Units(t) \in Seq(1 .. Unit - 1)
  BY <1>1, <1>2, SeqMonotonic
<1>4. 2 * (Len(Units(t)) + 1) <= Word - 4
  BY LengthAssumption DEF LengthAssumption
<1>5. QED
  BY <1>3, <1>4, LenProperties

\* grilio_encode_utf8_chars: the bytes of a string.
LEMMA TextEncoded ==
    ASSUME NEW t \in Texts, t # NULL
    PROVE  TextBytes(EncodeUtf8Chars(t), Units(t))
<1>1. PICK u : u = Units(t)
  OBVIOUS
<1>2. u \in Seq(1 .. Unit - 1) /\ Len(u) \in Nat /\ 2 * (Len(u) + 1) <= Word - 4
  BY <1>1, UnitsFit
<1>3. PICK X : X = 0 .. Base - 1
  OBVIOUS
<1>4. Base \in Nat /\ Base >= 2 /\ Unit \in Nat /\ Unit >= 4 /\ Word \in Nat /\ Word >= 16
  BY Sizes
<1>5. PICK a : /\ a = EncodeInt32(Len(u)) /\ a \in Seq(X) /\ Len(a) = 4
  <2>1. Len(u) \in 0 .. Word - 1
    BY <1>2, <1>4
  <2>2. QED
    BY <1>3, <2>1, WordBytes
<1>6. PICK n \in Nat : n = (Len(u) + 1) * 2
  BY <1>2
<1>7. Align4(n) \in Nat /\ n <= Align4(n)
  BY AlignBounds
<1>8. CASE u = <<>>
  <2>1. Len(u) = 0 /\ n = 2 /\ Align4(n) = 4
    BY <1>6, <1>8 DEF Align4
  <2>2. PICK b, c : /\ b = EncodeUnit(0) /\ c = EncodeUnit(Unit - 1)
                    /\ b \in Seq(X) /\ c \in Seq(X) /\ Len(b) = 2 /\ Len(c) = 2
    <3>1. 0 \in 0 .. Unit - 1 /\ Unit - 1 \in 0 .. Unit - 1
      BY <1>4
    <3>2. QED
      BY <1>3, <3>1, UnitBytes
  <2>3. EncodeUtf8Chars(t) = a \o b \o c
    <3>1. EncodeUtf8Chars(t) = EncodeInt32(0) \o EncodeUnit(0) \o EncodeUnit(Unit - 1)
      BY <1>1, <1>8 DEF EncodeUtf8Chars
    <3>2. QED
      BY <1>5, <2>1, <2>2, <3>1, Zenon
  <2>4. PICK e : e = a \o b \o c /\ StartsWith(e, a, b, Len(a) + Len(b) + Len(c), X)
    BY <1>5, <2>2, ThreeBytes
  <2>5. e \in Seq(X) /\ Len(e) = 8 /\ \A j \in 1 .. 4 : e[j] = a[j]
    <3>1. /\ e \in Seq(X) /\ Len(e) = Len(a) + Len(b) + Len(c)
          /\ \A j \in 1 .. Len(a) : e[j] = a[j]
      BY <2>4, Zenon DEF StartsWith
    <3>2. QED
      BY <1>5, <2>2, <3>1
  <2>6. 1 .. Len(u) = {}
    BY <2>1
  <2>7. Len(e) = 4 + Align4((Len(u) + 1) * 2)
    BY <1>6, <2>1, <2>5
  <2>8. TextBytes(e, u)
    BY <1>3, <1>5, <2>5, <2>6, <2>7, Zenon DEF TextBytes
  <2>9. QED
    BY <1>1, <2>3, <2>4, <2>8, Zenon
<1>9. CASE u # <<>>
  <2>1. PICK f : f = [i \in DOMAIN u |-> EncodeUnit(u[i])]
    OBVIOUS
  <2>2. /\ DOMAIN u = 1 .. Len(u)
        /\ \A i \in 1 .. Len(u) : EncodeUnit(u[i]) \in Seq(X) /\ Len(EncodeUnit(u[i])) = 2
    <3>1. \A i \in 1 .. Len(u) : u[i] \in 0 .. Unit - 1
      BY <1>2, <1>4, ElementOfSeq
    <3>2. \A v \in 0 .. Unit - 1 : EncodeUnit(v) \in Seq(X) /\ Len(EncodeUnit(v)) = 2
      BY <1>3, UnitBytes
    <3>3. QED
      BY <1>2, <3>1, <3>2, LenProperties
  <2>3. /\ f \in Seq(Seq(X)) /\ Len(f) = Len(u)
        /\ \A i \in 1 .. Len(u) : f[i] = EncodeUnit(u[i])
    BY <1>2, <2>1, <2>2
  <2>4. PICK b : b = FlattenSeq(f) /\ InRows(b, f, 2, X)
    <3>1. SameLength(f, 2, X)
      BY <2>2, <2>3 DEF SameLength
    <3>2. 2 \in {1, 2, 4}
      OBVIOUS
    <3>3. InRows(FlattenSeq(f), f, 2, X)
      BY <3>1, <3>2, Uniform
    <3>4. QED
      BY <3>3
  <2>5. b \in Seq(X) /\ Len(b) = 2 * Len(u)
    BY <2>3, <2>4 DEF InRows
  <2>6. ASSUME NEW i \in 1 .. Len(u), NEW j \in 1 .. 2
        PROVE  2 * (i - 1) + j \in 1 .. Len(b) /\ b[2 * (i - 1) + j] = EncodeUnit(u[i])[j]
    <3>1. b[2 * (i - 1) + j] = f[i][j]
      BY <2>3, <2>4, Zenon DEF InRows
    <3>2. 2 * (i - 1) + j \in 1 .. Len(b)
      BY <1>2, <2>5
    <3>3. QED
      BY <2>3, <3>1, <3>2, Zenon
  <2>7. PICK k \in Nat : k = Align4(n) - Len(u) * 2
    BY <1>2, <1>6, <1>7
  <2>8. PICK c : c = [i \in 1 .. k |-> 0]
    OBVIOUS
  <2>9. c \in Seq(X) /\ Len(c) = k
    <3>1. 0 \in X
      BY <1>3, <1>4
    <3>2. QED
      BY <2>8, <3>1
  <2>10. PICK e : e = a \o b \o c /\ StartsWith(e, a, b, Len(a) + Len(b) + Len(c), X)
    BY <1>5, <2>5, <2>9, ThreeBytes
  <2>11. EncodeUtf8Chars(t) = e
    <3>1. EncodeUtf8Chars(t) = EncodeInt32(Len(u)) \o FlattenSeq([i \in DOMAIN u |-> EncodeUnit(u[i])])
                                 \o [i \in 1 .. Align4((Len(u) + 1) * 2) - Len(u) * 2 |-> 0]
      BY <1>1, <1>9, Zenon DEF EncodeUtf8Chars
    <3>2. QED
      BY <1>5, <1>6, <2>1, <2>4, <2>7, <2>8, <2>10, <3>1, Zenon
  <2>12. /\ e \in Seq(X) /\ Len(e) = Len(a) + Len(b) + Len(c)
         /\ \A j \in 1 .. Len(a) : e[j] = a[j]
         /\ \A j \in 1 .. Len(b) : e[Len(a) + j] = b[j]
    BY <2>10, Zenon DEF StartsWith
  <2>13. Len(e) = 4 + Align4((Len(u) + 1) * 2)
    <3>1. Len(e) = 4 + Align4(n)
      BY <1>2, <1>5, <1>7, <2>5, <2>7, <2>9, <2>12
    <3>2. QED
      BY <1>6, <3>1
  <2>14. \A j \in 1 .. 4 : e[j] = EncodeInt32(Len(u))[j]
    BY <1>5, <2>12
  <2>15. ASSUME NEW i \in 1 .. Len(u), NEW j \in 1 .. 2
         PROVE  e[4 + 2 * (i - 1) + j] = EncodeUnit(u[i])[j]
    <3>1. PICK m \in Nat : m = 2 * (i - 1) + j
      BY <1>2
    <3>2. m \in 1 .. Len(b) /\ b[m] = EncodeUnit(u[i])[j]
      BY <2>6, <3>1, Zenon
    <3>3. e[4 + m] = EncodeUnit(u[i])[j]
      BY <1>5, <2>12, <3>2, Zenon
    <3>4. 4 + 2 * (i - 1) + j = 4 + m
      BY <1>2, <3>1
    <3>5. QED
      BY <3>3, <3>4
  <2>16. QED
    BY <1>1, <1>3, <2>11, <2>12, <2>13, <2>14, <2>15 DEF TextBytes
<1>10. QED
  BY <1>8, <1>9

-----------------------------------------------------------------------------
(* The packet: its bytes are the encodings of the values, in their order.  *)

Item ==
    [kind : {"byte"}, value : 0 .. Base - 1]
    \cup [kind : {"bytes"}, value : Seq(0 .. Base - 1)]
    \cup [kind : {"words"}, value : Seq(0 .. Word - 1)]
    \cup [kind : {"text"}, value : Texts \cup {NULL}]

Encodings == [i \in DOMAIN items |-> Encoding(items[i])]

Packed == items \in Seq(Item) /\ bytes = FlattenSeq(Encodings)

\* The bytes e stand in the packet behind the first p.
Stands(e, p) == \A j \in 1 .. Len(e) : bytes[p + j] = e[j]

\* Every value is encoded as bytes.
LEMMA EncodingTyped ==
    ASSUME NEW item \in Item
    PROVE  Encoding(item) \in Seq(0 .. Base - 1)
<1>1. CASE item \in [kind : {"byte"}, value : 0 .. Base - 1]
  <2>1. item.kind = "byte" /\ item.value \in 0 .. Base - 1
    BY <1>1
  <2>2. Encoding(item) = <<item.value>>
    BY <2>1 DEF Encoding
  <2>3. PICK x, X : x = item.value /\ X = 0 .. Base - 1
    OBVIOUS
  <2>4. <<x>> \in Seq(X)
    BY <2>1, <2>3
  <2>5. QED
    BY <2>2, <2>3, <2>4, Zenon
<1>2. CASE item \in [kind : {"bytes"}, value : Seq(0 .. Base - 1)]
  <2>1. item.kind = "bytes" /\ item.value \in Seq(0 .. Base - 1)
    BY <1>2
  <2>2. Encoding(item) = item.value
    BY <2>1 DEF Encoding
  <2>3. QED
    BY <2>1, <2>2, Zenon
<1>3. CASE item \in [kind : {"words"}, value : Seq(0 .. Word - 1)]
  <2>1. Encoding(item) = EncodeInt32Values(item.value) /\ item.value \in Seq(0 .. Word - 1)
    BY <1>3 DEF Encoding
  <2>2. QED
    BY <2>1, WordsBytes
<1>4. CASE item \in [kind : {"text"}, value : Texts \cup {NULL}]
  <2>1. Encoding(item) = EncodeUtf8Chars(item.value) /\ item.value \in Texts \cup {NULL}
    BY <1>4 DEF Encoding
  <2>2. CASE item.value = NULL
    <3>1. Encoding(item) = EncodeInt32(Word - 1)
      BY <2>1, <2>2 DEF EncodeUtf8Chars
    <3>2. Word - 1 \in 0 .. Word - 1
      BY Sizes
    <3>3. QED
      BY <3>1, <3>2, WordBytes
  <2>3. CASE item.value # NULL
    BY <2>1, <2>3, TextEncoded DEF TextBytes
  <2>4. QED
    BY <2>2, <2>3
<1>5. QED
  BY <1>1, <1>2, <1>3, <1>4 DEF Item

\* The encodings of the values, one by one, are byte strings.
LEMMA EncodingsTyped ==
    ASSUME NEW s \in Seq(Item)
    PROVE  LET e == [i \in DOMAIN s |-> Encoding(s[i])] IN
           /\ e \in Seq(Seq(0 .. Base - 1)) /\ Len(e) = Len(s)
           /\ \A i \in 1 .. Len(s) : e[i] = Encoding(s[i])
<1>1. PICK X : X = Seq(0 .. Base - 1)
  OBVIOUS
<1>2. /\ Len(s) \in Nat /\ DOMAIN s = 1 .. Len(s)
      /\ \A i \in 1 .. Len(s) : Encoding(s[i]) \in X
  BY <1>1, EncodingTyped, LenProperties, ElementOfSeq
<1>3. PICK e : e = [i \in DOMAIN s |-> Encoding(s[i])]
  OBVIOUS
<1>4. e \in Seq(X) /\ Len(e) = Len(s) /\ \A i \in 1 .. Len(s) : e[i] = Encoding(s[i])
  BY <1>2, <1>3
<1>5. QED
  BY <1>1, <1>3, <1>4, Zenon

\* The bytes in front of a value, in terms of the encodings.
LEMMA OffsetPart ==
    ASSUME Packed, NEW n \in 0 .. Len(items)
    PROVE  Offset(n) = Len(Part(Encodings, n))
<1>1. /\ items \in Seq(Item) /\ Len(items) \in Nat
      /\ \A i \in 1 .. Len(items) : Encodings[i] = Encoding(items[i])
  BY EncodingsTyped, LenProperties DEF Packed, Encodings
<1>2. [i \in 1 .. n |-> Encoding(items[i])] = [i \in 1 .. n |-> Encodings[i]]
  BY <1>1
<1>3. QED
  BY <1>2, Zenon DEF Offset, Part

\* A value stands where those before it end.
LEMMA ItemAt ==
    ASSUME Packed, NEW n \in 0 .. Len(items) - 1
    PROVE  /\ Offset(n) \in Nat /\ Len(Encoding(items[n + 1])) \in Nat
           /\ Offset(n + 1) = Offset(n) + Len(Encoding(items[n + 1]))
           /\ Offset(n + 1) <= Len(bytes)
           /\ Stands(Encoding(items[n + 1]), Offset(n))
<1>1. PICK e : e = Encodings
  OBVIOUS
<1>2. /\ items \in Seq(Item) /\ Len(items) \in Nat /\ e \in Seq(Seq(0 .. Base - 1)) /\ Len(e) = Len(items)
      /\ \A i \in 1 .. Len(items) : e[i] = Encoding(items[i])
      /\ bytes = FlattenSeq(e)
  BY <1>1, EncodingsTyped, LenProperties DEF Packed, Encodings
<1>3. /\ n \in 0 .. Len(items) /\ n + 1 \in 0 .. Len(items) /\ n + 1 \in 1 .. Len(items)
      /\ n \in 0 .. Len(e) - 1
  BY <1>2
<1>4. Offset(n) = Len(Part(e, n)) /\ Offset(n + 1) = Len(Part(e, n + 1))
  BY <1>1, <1>3, OffsetPart
<1>5. /\ Len(Part(e, n)) \in Nat /\ Len(e[n + 1]) \in Nat
      /\ Len(Part(e, n + 1)) = Len(Part(e, n)) + Len(e[n + 1])
  BY <1>2, <1>3, PartLens
<1>6. /\ Len(Part(e, n)) + Len(e[n + 1]) <= Len(FlattenSeq(e))
      /\ \A j \in 1 .. Len(e[n + 1]) : FlattenSeq(e)[Len(Part(e, n)) + j] = e[n + 1][j]
  BY <1>2, <1>3, PartAt
<1>7. e[n + 1] = Encoding(items[n + 1])
  BY <1>2, <1>3
<1>8. Stands(Encoding(items[n + 1]), Offset(n))
  BY <1>2, <1>4, <1>6, <1>7, Zenon DEF Stands
<1>9. Offset(n + 1) <= Len(bytes)
  BY <1>2, <1>4, <1>5, <1>6, Zenon
<1>10. QED
  BY <1>4, <1>5, <1>7, <1>8, <1>9, Zenon

\* The packet is made of bytes.
LEMMA PacketTyped ==
    ASSUME Packed
    PROVE  bytes \in Seq(0 .. Base - 1) /\ Len(bytes) \in Nat /\ Len(items) \in Nat /\ Offset(0) = 0
<1>1. PICK e : e = Encodings
  OBVIOUS
<1>2. items \in Seq(Item) /\ e \in Seq(Seq(0 .. Base - 1)) /\ bytes = FlattenSeq(e)
  BY <1>1, EncodingsTyped DEF Packed, Encodings
<1>3. Len(items) \in Nat /\ Len(e) \in 0 .. Len(e)
  BY <1>2
<1>4. bytes \in Seq(0 .. Base - 1)
  BY <1>2, <1>3, Parts
<1>5. Offset(0) = 0
  <2>1. Offset(0) = Len(Part(e, 0)) /\ Part(e, 0) = <<>>
    BY <1>1, <1>2, <1>3, OffsetPart, Parts
  <2>2. QED
    BY <2>1
<1>6. QED
  BY <1>3, <1>4, <1>5, LenProperties

\* A value that is appended stands behind the others.
LEMMA AppendItemPacked ==
    ASSUME Packed, NEW item \in Item, AppendItem(item)
    PROVE  Packed'
<1>1. items \in Seq(Item) /\ items' = Append(items, item) /\ bytes' = bytes \o Encoding(item)
  BY DEF Packed, AppendItem
<1>2. PICK t : t = Append(items, item)
  OBVIOUS
<1>3. /\ t \in Seq(Item) /\ Len(items) \in Nat /\ Len(t) = Len(items) + 1 /\ t[Len(items) + 1] = item
      /\ \A i \in 1 .. Len(items) : t[i] = items[i]
  BY <1>1, <1>2
<1>4. PICK e : e = Encodings
  OBVIOUS
<1>5. /\ e \in Seq(Seq(0 .. Base - 1)) /\ Len(e) = Len(items) /\ bytes = FlattenSeq(e)
      /\ \A i \in 1 .. Len(items) : e[i] = Encoding(items[i])
  BY <1>1, <1>4, EncodingsTyped DEF Packed, Encodings
<1>6. PICK f : f = [i \in DOMAIN t |-> Encoding(t[i])]
  OBVIOUS
<1>7. /\ f \in Seq(Seq(0 .. Base - 1)) /\ Len(f) = Len(t)
      /\ \A i \in 1 .. Len(t) : f[i] = Encoding(t[i])
  BY <1>3, <1>6, EncodingsTyped
<1>8. PICK b : b = Encoding(item) /\ b \in Seq(0 .. Base - 1)
  BY EncodingTyped
<1>9. PICK g : g = Append(e, b)
  OBVIOUS
<1>10. /\ g \in Seq(Seq(0 .. Base - 1)) /\ Len(g) = Len(items) + 1 /\ g[Len(items) + 1] = b
       /\ \A i \in 1 .. Len(items) : g[i] = e[i]
  BY <1>3, <1>5, <1>8, <1>9
<1>11. f = g
  <2>1. PICK k \in Nat : k = Len(items) + 1
    BY <1>3
  <2>2. /\ k \in 1 .. Len(t) /\ t[k] = item /\ g[k] = b /\ Len(f) = k /\ Len(g) = k
        /\ \A i \in 1 .. k : i \in 1 .. Len(items) \/ i = k
        /\ \A i \in 1 .. Len(items) : i \in 1 .. Len(t)
    BY <1>3, <1>7, <1>10, <2>1
  <2>3. f[k] = g[k]
    BY <1>7, <1>8, <2>2, Zenon
  <2>4. \A i \in 1 .. Len(items) : f[i] = g[i]
    BY <1>3, <1>5, <1>7, <1>10, <2>2, Zenon
  <2>5. \A i \in 1 .. Len(f) : f[i] = g[i]
    BY <2>2, <2>3, <2>4, Zenon
  <2>6. QED
    BY <1>7, <1>10, <2>2, <2>5, SeqEqual
<1>12. FlattenSeq(f) = FlattenSeq(e) \o b
  BY <1>5, <1>8, <1>9, <1>11, FlattenAppend
<1>13. items' \in Seq(Item) /\ bytes' = FlattenSeq(f)
  BY <1>1, <1>2, <1>3, <1>5, <1>8, <1>12, Zenon
<1>14. Encodings' = f
  BY <1>1, <1>2, <1>6, Zenon DEF Encodings
<1>15. QED
  BY <1>13, <1>14, Zenon DEF Packed

-----------------------------------------------------------------------------
(* What the parser reads.                                                  *)

\* The word at a place where its encoding lies (grilio_parser_get_uint32).
LEMMA Int32AtIs ==
    ASSUME NEW p \in Nat, NEW v \in 0 .. Word - 1,
           \A j \in 1 .. 4 : bytes[p + j] = EncodeInt32(v)[j]
    PROVE  Int32At(p) = v
<1>1. /\ bytes[p + 1] = EncodeInt32(v)[1] /\ bytes[p + 2] = EncodeInt32(v)[2]
      /\ bytes[p + 3] = EncodeInt32(v)[3] /\ bytes[p + 4] = EncodeInt32(v)[4]
  <2>1. 1 \in 1 .. 4 /\ 2 \in 1 .. 4 /\ 3 \in 1 .. 4 /\ 4 \in 1 .. 4
    OBVIOUS
  <2>2. QED
    BY <2>1, Zenon
<1>2. EncodeInt32(v)[1] + Base * (EncodeInt32(v)[2]
        + Base * (EncodeInt32(v)[3] + Base * EncodeInt32(v)[4])) = v
  BY WordBytes
<1>3. QED
  BY <1>1, <1>2, Zenon DEF Int32At

\* The unit at a place where its encoding lies.
LEMMA UnitAtIs ==
    ASSUME NEW p \in Nat, NEW u \in 0 .. Unit - 1,
           \A j \in 1 .. 2 : bytes[p + j] = EncodeUnit(u)[j]
    PROVE  UnitAt(p) = u
<1>1. bytes[p + 1] = EncodeUnit(u)[1] /\ bytes[p + 2] = EncodeUnit(u)[2]
  <2>1. 1 \in 1 .. 2 /\ 2 \in 1 .. 2
    OBVIOUS
  <2>2. QED
    BY <2>1, Zenon
<1>2. EncodeUnit(u)[1] + Base * EncodeUnit(u)[2] = u
  BY UnitBytes
<1>3. QED
  BY <1>1, <1>2, Zenon DEF UnitAt

\* Four bytes of the packet are a number.
LEMMA Int32AtTyped ==
    ASSUME Packed, NEW p \in Nat, p + 4 <= Len(bytes)
    PROVE  Int32At(p) \in Nat
<1>1. Base \in Nat /\ bytes \in Seq(0 .. Base - 1) /\ Len(bytes) \in Nat
  BY PacketTyped, Sizes
<1>2. \A i \in 1 .. Len(bytes) : bytes[i] \in Nat
  BY <1>1, ElementOfSeq
<1>3. /\ p + 1 \in 1 .. Len(bytes) /\ p + 2 \in 1 .. Len(bytes)
      /\ p + 3 \in 1 .. Len(bytes) /\ p + 4 \in 1 .. Len(bytes)
  BY <1>1
<1>4. PICK a, b, c, d \in Nat :
         a = bytes[p + 1] /\ b = bytes[p + 2] /\ c = bytes[p + 3] /\ d = bytes[p + 4]
  BY <1>2, <1>3
<1>5. Base * d \in Nat
  BY <1>1, Distributes
<1>6. Base * (c + Base * d) \in Nat
  <2>1. c + Base * d \in Nat
    BY <1>5
  <2>2. QED
    BY <1>1, <2>1, Distributes
<1>7. Base * (b + Base * (c + Base * d)) \in Nat
  <2>1. b + Base * (c + Base * d) \in Nat
    BY <1>6
  <2>2. QED
    BY <1>1, <2>1, Distributes
<1>8. a + Base * (b + Base * (c + Base * d)) \in Nat
  BY <1>7
<1>9. QED
  BY <1>4, <1>8, Zenon DEF Int32At

\* A string that is found ends within the packet.
LEMMA StringSizeBounds ==
    ASSUME Packed, end \in 0 .. Len(bytes), ptr \in 0 .. end
    PROVE  StringSize = NULL \/ StringSize \in 0 .. end - ptr
<1>1. end \in Nat /\ ptr \in Nat /\ Len(bytes) \in Nat /\ Word \in Nat /\ Word >= 16
  BY PacketTyped, Sizes
<1>2. CASE Left < 4
  BY <1>2 DEF StringSize
<1>3. CASE ~(Left < 4)
  <2>1. ptr + 4 <= Len(bytes) /\ Left = end - ptr /\ Left \in Nat /\ 4 <= Left
    BY <1>1, <1>3 DEF Left
  <2>2. PICK len \in Nat : len = Int32At(ptr)
    BY <1>1, <2>1, Int32AtTyped
  <2>3. PICK a \in Nat : a = Align4((len + 1) * 2)
    <3>1. (len + 1) * 2 \in Nat
      OBVIOUS
    <3>2. QED
      BY <3>1, AlignBounds
  <2>4. PICK b \in Nat : b = a % Word
    BY <1>1
  <2>5. StringSize = IF len = Word - 1 THEN 4
                     ELSE IF len < Word \div 2 /\ 4 + b <= Left THEN 4 + b ELSE NULL
    BY <1>3, <2>2, <2>3, <2>4, Zenon DEF StringSize
  <2>6. PICK z : z = StringSize
    OBVIOUS
  <2>7. z = NULL \/ z = 4 \/ (z = 4 + b /\ 4 + b <= Left)
    BY <2>5, <2>6
  <2>8. z = NULL \/ z \in 0 .. Left
    BY <2>1, <2>7
  <2>9. QED
    BY <2>1, <2>6, <2>8, Zenon
<1>4. QED
  BY <1>2, <1>3

\* What is known of a value that stands at the cursor.
Facing(item) ==
    /\ Packed /\ end \in 0 .. Len(bytes) /\ ptr \in 0 .. end
    /\ item \in Item /\ Stands(Encoding(item), ptr)

\* The string at the cursor is found if it is there to its end, and is what was appended.
LEMMA TextFound ==
    ASSUME NEW item, Facing(item), item.kind = "text"
    PROVE  IF Len(Encoding(item)) <= Left THEN StringSize = Len(Encoding(item)) /\ StringAt = Meaning(item)
           ELSE StringSize = NULL
<1>1. /\ Packed /\ item \in Item /\ Stands(Encoding(item), ptr)
      /\ end \in Nat /\ ptr \in Nat /\ ptr <= end
  BY PacketTyped DEF Facing
<1>2. Left \in Nat
  BY <1>1 DEF Left
<1>3. Word \in Nat /\ Word >= 16 /\ Unit \in Nat /\ Unit >= 4
  BY Sizes
<1>4. item.value \in Texts \cup {NULL} /\ Encoding(item) = EncodeUtf8Chars(item.value)
  BY <1>1 DEF Item, Encoding
<1>5. PICK e : e = Encoding(item)
  OBVIOUS
<1>6. \A j \in 1 .. Len(e) : bytes[ptr + j] = e[j]
  BY <1>1, <1>5 DEF Stands
<1>7. CASE item.value = NULL
  <2>1. e = EncodeInt32(Word - 1)
    BY <1>4, <1>5, <1>7 DEF EncodeUtf8Chars
  <2>2. PICK v : v = Word - 1 /\ v \in 0 .. Word - 1
    BY <1>3
  <2>3. Len(e) = 4
    BY <2>1, <2>2, WordBytes
  <2>4. Int32At(ptr) = v
    BY <1>1, <1>6, <2>1, <2>2, <2>3, Int32AtIs
  <2>5. StringSize = IF Left < 4 THEN NULL ELSE 4
    BY <2>2, <2>4 DEF StringSize
  <2>6. StringAt = NULL
    BY <2>2, <2>4 DEF StringAt
  <2>7. Meaning(item) = NULL
    BY <1>7 DEF Meaning
  <2>8. QED
    BY <1>2, <1>5, <2>3, <2>5, <2>6, <2>7
<1>8. CASE item.value # NULL
  <2>1. PICK t \in Texts : t = item.value
    BY <1>4, <1>8
  <2>2. PICK u : u = Units(t)
    OBVIOUS
  <2>3. TextBytes(e, u)
    BY <1>4, <1>5, <1>8, <2>1, <2>2, TextEncoded
  <2>4. PICK len \in Nat : len = Len(u) /\ 2 * (len + 1) <= Word - 4
    BY <2>2, UnitsFit
  <2>5. u \in Seq(1 .. Unit - 1) /\ Paired(u, Valid(t))
    BY <2>2, UnitsFit, UnitsPaired
  <2>6. PICK a \in Nat : a = Align4((len + 1) * 2) /\ (len + 1) * 2 <= a /\ a <= (len + 1) * 2 + 3
    <3>1. (len + 1) * 2 \in Nat
      OBVIOUS
    <3>2. QED
      BY <3>1, AlignBounds
  <2>7. Len(e) = 4 + a
    BY <2>3, <2>4, <2>6 DEF TextBytes
  <2>8. Int32At(ptr) = len
    <3>1. len \in 0 .. Word - 1
      BY <1>3, <2>4
    <3>2. \A j \in 1 .. 4 : j \in 1 .. Len(e) /\ e[j] = EncodeInt32(len)[j]
      BY <2>3, <2>4, <2>7 DEF TextBytes
    <3>3. \A j \in 1 .. 4 : bytes[ptr + j] = EncodeInt32(len)[j]
      BY <1>6, <3>2
    <3>4. QED
      BY <1>1, <3>1, <3>3, Int32AtIs
  <2>9. len # Word - 1 /\ len < Word \div 2 /\ a % Word = a
    BY <1>3, <2>4, <2>6
  <2>10. StringSize = IF Left < 4 THEN NULL ELSE IF 4 + a <= Left THEN 4 + a ELSE NULL
    BY <2>6, <2>8, <2>9, Zenon DEF StringSize
  <2>11. ASSUME 4 + a <= Left
         PROVE  StringAt = Meaning(item)
    <3>1. PICK f : f = [i \in 1 .. len |-> UnitAt(ptr + 2 + 2 * i)]
      OBVIOUS
    <3>2. ASSUME NEW i \in 1 .. len
          PROVE  f[i] = u[i]
      <4>1. u[i] \in 0 .. Unit - 1
        <5>1. PICK X : X = 1 .. Unit - 1
          OBVIOUS
        <5>2. u \in Seq(X) /\ i \in 1 .. Len(u)
          BY <2>4, <2>5, <5>1
        <5>3. u[i] \in X
          BY <5>2, ElementOfSeq
        <5>4. QED
          BY <1>3, <5>1, <5>3
      <4>2. PICK p \in Nat : p = ptr + 2 + 2 * i
        BY <1>1
      <4>3. ASSUME NEW j \in 1 .. 2
            PROVE  bytes[p + j] = EncodeUnit(u[i])[j]
        <5>1. PICK m : m = 4 + 2 * (i - 1) + j
          OBVIOUS
        <5>2. m \in 1 .. 4 + a /\ ptr + m = p + j
          BY <1>1, <2>6, <4>2, <5>1
        <5>3. e[m] = EncodeUnit(u[i])[j]
          BY <2>3, <2>4, <5>1, Zenon DEF TextBytes
        <5>4. bytes[ptr + m] = e[m]
          BY <1>6, <2>7, <5>2, Zenon
        <5>5. QED
          BY <5>2, <5>3, <5>4, Zenon
      <4>4. UnitAt(p) = u[i]
        BY <4>1, <4>3, UnitAtIs
      <4>5. QED
        BY <3>1, <4>2, <4>4
    <3>3. f = u
      BY <2>4, <2>5, <3>1, <3>2, LenProperties
    <3>4. StringAt = Utf8(f)
      <4>1. ~(4 + 2 * len > Left)
        BY <1>2, <2>6, <2>11
      <4>2. QED
        BY <2>8, <2>9, <3>1, <4>1, Zenon DEF StringAt
    <3>5. Meaning(item) = Valid(t)
      BY <1>8, <2>1 DEF Meaning
    <3>6. QED
      BY <2>5, <3>3, <3>4, <3>5, PairedUtf8
  <2>12. CASE 4 + a <= Left
    <3>1. StringSize = 4 + a
      BY <1>2, <2>6, <2>10, <2>12
    <3>2. QED
      BY <1>5, <2>7, <2>11, <2>12, <3>1
  <2>13. CASE ~(4 + a <= Left)
    <3>1. StringSize = NULL
      BY <2>10, <2>13, Zenon
    <3>2. QED
      BY <1>5, <2>7, <2>13, <3>1, Zenon
  <2>14. QED
    BY <2>12, <2>13
<1>9. QED
  BY <1>7, <1>8

\* The words at the cursor are those that were appended.
LEMMA WordsFound ==
    ASSUME NEW item, Facing(item), item.kind = "words"
    PROVE  /\ item.value \in Seq(0 .. Word - 1)
           /\ Len(Encoding(item)) = 4 * Len(item.value)
           /\ [i \in 1 .. Len(item.value) |-> Int32At(ptr + 4 * (i - 1))] = Meaning(item)
<1>1. /\ item \in Item /\ Stands(Encoding(item), ptr) /\ ptr \in Nat
  BY PacketTyped DEF Facing
<1>2. PICK n : n = item.value
  OBVIOUS
<1>3. n \in Seq(0 .. Word - 1) /\ Encoding(item) = EncodeInt32Values(n) /\ Meaning(item) = n
  <2>1. item.value \in Seq(0 .. Word - 1)
    BY <1>1 DEF Item
  <2>2. Encoding(item) = EncodeInt32Values(item.value) /\ Meaning(item) = item.value
    BY DEF Encoding, Meaning
  <2>3. QED
    BY <1>2, <2>1, <2>2, Zenon
<1>4. PICK e : e = Encoding(item)
  OBVIOUS
<1>5. /\ Len(e) = 4 * Len(n)
      /\ \A i \in 1 .. Len(n), j \in 1 .. 4 : e[4 * (i - 1) + j] = EncodeInt32(n[i])[j]
  <2>1. /\ Len(EncodeInt32Values(n)) = 4 * Len(n)
        /\ \A i \in 1 .. Len(n), j \in 1 .. 4 :
              EncodeInt32Values(n)[4 * (i - 1) + j] = EncodeInt32(n[i])[j]
    BY <1>3, WordsBytes
  <2>2. QED
    BY <1>3, <1>4, <2>1, ZenonT(30)
<1>6. \A j \in 1 .. Len(e) : bytes[ptr + j] = e[j]
  BY <1>1, <1>4 DEF Stands
<1>7. Len(n) \in Nat /\ \A i \in 1 .. Len(n) : n[i] \in 0 .. Word - 1
  BY <1>3, ElementOfSeq, LenProperties
<1>8. PICK f : f = [i \in 1 .. Len(n) |-> Int32At(ptr + 4 * (i - 1))]
  OBVIOUS
<1>9. ASSUME NEW i \in 1 .. Len(n)
      PROVE  f[i] = n[i]
  <2>1. PICK p \in Nat : p = ptr + 4 * (i - 1)
    BY <1>1, <1>7
  <2>2. ASSUME NEW j \in 1 .. 4
        PROVE  bytes[p + j] = EncodeInt32(n[i])[j]
    <3>1. PICK m : m = 4 * (i - 1) + j
      OBVIOUS
    <3>2. m \in 1 .. Len(e) /\ ptr + m = p + j
      BY <1>1, <1>5, <1>7, <2>1, <3>1
    <3>3. e[m] = EncodeInt32(n[i])[j]
      BY <1>5, <3>1, Zenon
    <3>4. bytes[ptr + m] = e[m]
      BY <1>6, <3>2, Zenon
    <3>5. QED
      BY <3>2, <3>3, <3>4, Zenon
  <2>3. Int32At(p) = n[i]
    BY <1>7, <2>2, Int32AtIs
  <2>4. QED
    BY <1>8, <2>1, <2>3
<1>10. f = n
  BY <1>3, <1>7, <1>8, <1>9, LenProperties
<1>11. QED
  BY <1>2, <1>3, <1>4, <1>5, <1>8, <1>10, Zenon

\* The bytes at the cursor are those that were appended.
LEMMA BytesFound ==
    ASSUME NEW item, Facing(item), item.kind = "bytes"
    PROVE  /\ item.value \in Seq(0 .. Base - 1)
           /\ Len(Encoding(item)) = Len(item.value)
           /\ SubSeq(bytes, ptr + 1, ptr + Len(item.value)) = Meaning(item)
<1>1. /\ item \in Item /\ Stands(Encoding(item), ptr) /\ ptr \in Nat
  BY PacketTyped DEF Facing
<1>2. PICK b, X : b = item.value /\ X = 0 .. Base - 1
  OBVIOUS
<1>3. b \in Seq(X) /\ Encoding(item) = b /\ Meaning(item) = b
  BY <1>1, <1>2 DEF Item, Encoding, Meaning
<1>4. /\ Len(b) \in Nat /\ \A j \in 1 .. Len(b) : bytes[ptr + j] = b[j] /\ b[j] \in X
  BY <1>1, <1>3, ElementOfSeq, LenProperties DEF Stands
<1>5. PICK f : f = SubSeq(bytes, ptr + 1, ptr + Len(b))
  OBVIOUS
<1>6. ASSUME NEW i \in ptr + 1 .. ptr + Len(b)
      PROVE  bytes[i] \in X
  <2>1. PICK j \in 1 .. Len(b) : ptr + j = i
    BY <1>1, <1>4
  <2>2. QED
    BY <1>4, <2>1, Zenon
<1>7. /\ f \in Seq(X) /\ Len(f) = Len(b)
      /\ \A i \in 1 .. Len(b) : f[i] = bytes[ptr + i]
  <2>1. PICK m, n \in Int : m = ptr + 1 /\ n = ptr + Len(b)
    BY <1>1, <1>4
  <2>2. /\ SubSeq(bytes, m, n) \in Seq(X)
        /\ Len(SubSeq(bytes, m, n)) = IF m <= n THEN n - m + 1 ELSE 0
        /\ \A i \in 1 .. n - m + 1 : SubSeq(bytes, m, n)[i] = bytes[m + i - 1]
    BY <1>6, <2>1, SubSeqProperties
  <2>3. /\ f \in Seq(X) /\ Len(f) = IF m <= n THEN n - m + 1 ELSE 0
        /\ \A i \in 1 .. n - m + 1 : f[i] = bytes[m + i - 1]
    BY <1>5, <2>1, <2>2, Zenon
  <2>4. n - m + 1 = Len(b) /\ \A i \in 1 .. Len(b) : m + i - 1 = ptr + i
    BY <1>1, <1>4, <2>1
  <2>5. Len(f) = Len(b)
    BY <1>1, <1>4, <2>1, <2>3
  <2>6. QED
    BY <2>3, <2>4, <2>5
<1>8. f = b
  BY <1>3, <1>4, <1>7, SeqEqual
<1>9. QED
  BY <1>2, <1>3, <1>5, <1>8, Zenon

\* The byte at the cursor is the one that was appended.
LEMMA ByteFound ==
    ASSUME NEW item, Facing(item), item.kind = "byte"
    PROVE  Len(Encoding(item)) = 1 /\ bytes[ptr + 1] = Meaning(item)
<1>1. item \in Item /\ Stands(Encoding(item), ptr)
  BY DEF Facing
<1>2. Encoding(item) = <<item.value>> /\ Meaning(item) = item.value
  BY DEF Encoding, Meaning
<1>3. QED
  BY <1>1, <1>2 DEF Stands

-----------------------------------------------------------------------------
(* The inductive invariant.                                                *)

\* What a call may return.
Values == {Meaning(item) : item \in Item} \cup {Skipped}

\* The cursor is within the packet, and a reader that follows the values is where the
\* values end that it has, all of which are right.
Reading ==
    /\ end = NULL => ptr = 0 /\ got = <<>> /\ failed = FALSE /\ strayed = FALSE
    /\ end # NULL => end \in 0 .. Len(bytes) /\ ptr \in 0 .. end
    /\ failed \in BOOLEAN /\ strayed \in BOOLEAN
    /\ got \in Seq(Values) /\ Len(got) <= Len(items)
    /\ RoundTrip
    /\ CutIsNoticed

ParcelInv == Packed /\ Reading

\* The value that a call asks for.
Asked(item, kind, count) ==
    /\ item.kind = kind
    /\ kind \in {"words", "bytes"} => Len(item.value) = count

\* What a call does when it asks for the value that stands at the cursor.
Takes(kind, count, ok, value) ==
    \A item : Facing(item) /\ Asked(item, kind, count) =>
        IF ok THEN ptr' = ptr + Len(Encoding(item)) /\ value \in {Meaning(item), Skipped}
        ELSE ptr <= ptr' /\ end < ptr + Len(Encoding(item))

\* A call keeps the invariant if, of a value that is all there, it returns the meaning and
\* goes to its end, and fails and goes nowhere past its end if it was cut.
LEMMA CalledStep ==
    ASSUME ParcelInv, NEW kind, NEW count, NEW ok \in BOOLEAN, NEW value,
           Called(kind, count, ok, value), ptr' \in 0 .. end, Takes(kind, count, ok, value)
    PROVE  ParcelInv'
<1>1. /\ Packed /\ Reading /\ end # NULL /\ UNCHANGED <<bytes, items, end>>
      /\ end \in 0 .. Len(bytes) /\ ptr \in 0 .. end
      /\ got \in Seq(Values) /\ Len(got) \in Nat /\ Len(got) <= Len(items)
      /\ DOMAIN got = 1 .. Len(got)
      /\ failed \in BOOLEAN /\ strayed \in BOOLEAN /\ RoundTrip /\ CutIsNoticed
  BY LenProperties DEF ParcelInv, Reading, Called
<1>2. Packed'
  BY <1>1 DEF Packed, Encodings
<1>3. Len(items) \in Nat /\ Len(bytes) \in Nat
  BY <1>1, PacketTyped
<1>4. \A n : Offset(n)' = Offset(n)
  BY <1>1 DEF Offset
<1> DEFINE follows == /\ ~strayed /\ ~failed /\ Len(got) < Len(items)
                      /\ Asked(items[Len(got) + 1], kind, count)
<1>5. /\ strayed' = ~follows /\ failed' = (follows /\ ~ok)
      /\ got' = IF ~follows THEN <<>> ELSE IF ok THEN Append(got, value) ELSE got
  BY DEF Called, Asked
<1>6. SUFFICES /\ got' \in Seq(Values) /\ Len(got') <= Len(items)
               /\ RoundTrip' /\ CutIsNoticed'
  <2>1. strayed' \in BOOLEAN /\ failed' \in BOOLEAN
    BY <1>5
  <2>2. end' # NULL /\ end' \in 0 .. Len(bytes') /\ ptr' \in 0 .. end'
    BY <1>1
  <2>3. QED
    BY <1>1, <1>2, <2>1, <2>2 DEF ParcelInv, Reading
<1>7. CASE ~follows
  <2>1. got' = <<>> /\ strayed' = TRUE
    BY <1>5, <1>7
  <2>2. Len(got') = 0 /\ DOMAIN got' = {} /\ got' \in Seq(Values)
    BY <2>1
  <2>3. QED
    BY <1>3, <2>1, <2>2 DEF RoundTrip, CutIsNoticed
<1>8. CASE follows
  <2>1. PICK n \in Nat : n = Len(got)
    BY <1>1
  <2>2. PICK item : item = items[n + 1]
    OBVIOUS
  <2>3. n \in 0 .. Len(items) - 1 /\ n + 1 \in 1 .. Len(items)
    BY <1>3, <1>8, <2>1
  <2>4. item \in Item
    BY <1>1, <2>2, <2>3, ElementOfSeq DEF Packed
  <2>5. PICK b \in Nat : b = Len(Encoding(item))
    BY <2>4, EncodingTyped, LenProperties
  <2>6. ptr = Offset(n)
    BY <1>1, <1>8, <2>1 DEF CutIsNoticed
  <2>7. Offset(n + 1) = ptr + b /\ Stands(Encoding(item), ptr)
    BY <1>1, <2>2, <2>3, <2>5, <2>6, ItemAt
  <2>8. Facing(item) /\ Asked(item, kind, count)
    BY <1>1, <1>8, <2>1, <2>2, <2>4, <2>7 DEF Facing
  <2>9. IF ok THEN ptr' = ptr + b /\ value \in {Meaning(item), Skipped}
        ELSE ptr <= ptr' /\ end < ptr + b
    BY <2>5, <2>8, Zenon DEF Takes
  <2>10. strayed' = FALSE /\ failed' = ~ok
    BY <1>5, <1>8
  <2>11. CASE ok
    <3>1. got' = Append(got, value) /\ failed' = FALSE
      BY <1>5, <1>8, <2>10, <2>11
    <3>2. value \in Values /\ value \in {Meaning(item), Skipped}
      BY <2>4, <2>9, <2>11 DEF Values
    <3>3. /\ got' \in Seq(Values) /\ Len(got') = n + 1 /\ DOMAIN got' = 1 .. n + 1
          /\ got'[n + 1] = value /\ \A i \in 1 .. n : got'[i] = got[i]
      BY <1>1, <2>1, <3>1, <3>2, AppendProperties
    <3>4. Len(got') <= Len(items)
      BY <1>3, <2>3, <3>3
    <3>5. RoundTrip'
      <4>1. ASSUME NEW i \in 1 .. n + 1
            PROVE  got'[i] \in {Meaning(items[i]), Skipped}
        <5>1. CASE i = n + 1
          BY <2>2, <3>2, <3>3, <5>1
        <5>2. CASE i # n + 1
          <6>1. i \in 1 .. n /\ i \in DOMAIN got
            BY <1>1, <2>1, <5>2
          <6>2. QED
            BY <1>1, <3>3, <6>1 DEF RoundTrip
        <5>3. QED
          BY <5>1, <5>2
      <4>2. QED
        BY <1>1, <3>3, <4>1 DEF RoundTrip
    <3>6. CutIsNoticed'
      <4>1. ptr' = Offset(n + 1)
        BY <2>7, <2>9, <2>11
      <4>2. QED
        BY <1>4, <3>1, <3>3, <4>1 DEF CutIsNoticed
    <3>7. QED
      BY <3>3, <3>4, <3>5, <3>6
  <2>12. CASE ~ok
    <3>1. got' = got /\ failed' = TRUE
      BY <1>5, <1>8, <2>10, <2>12
    <3>2. RoundTrip'
      BY <1>1, <3>1 DEF RoundTrip
    <3>3. Offset(Len(got)) <= ptr' /\ Offset(Len(got) + 1) > end
      BY <1>1, <1>3, <2>1, <2>5, <2>6, <2>7, <2>9, <2>12
    <3>4. CutIsNoticed'
      BY <1>1, <1>4, <3>1, <3>3 DEF CutIsNoticed
    <3>5. QED
      BY <1>1, <3>1, <3>2, <3>4
  <2>13. QED
    BY <2>11, <2>12
<1>9. QED
  BY <1>7, <1>8

-----------------------------------------------------------------------------
(* Every call of the parser keeps the invariant.                           *)

\* The cursor and the end are numbers and the cursor is between zero and the end.
LEMMA CursorTyped ==
    ASSUME ParcelInv, end # NULL
    PROVE  /\ Packed /\ end \in 0 .. Len(bytes) /\ ptr \in 0 .. end
           /\ Len(bytes) \in Nat /\ end \in Nat /\ ptr \in Nat /\ Left \in Nat /\ Left = end - ptr
<1>1. Packed /\ end \in 0 .. Len(bytes) /\ ptr \in 0 .. end
  BY DEF ParcelInv, Reading
<1>2. Len(bytes) \in Nat
  BY <1>1, PacketTyped
<1>3. QED
  BY <1>1, <1>2 DEF Left

\* grilio_parser_get_byte.
LEMMA GetByteStep == ParcelInv /\ GetByte => ParcelInv'
<1> SUFFICES ASSUME ParcelInv, GetByte
             PROVE  ParcelInv'
  OBVIOUS
<1>1. PICK value : value = IF Left > 0 THEN bytes[ptr + 1] ELSE 0
  OBVIOUS
<1>2. Called("byte", 1, Left > 0, value) /\ ptr' = IF Left > 0 THEN ptr + 1 ELSE ptr
  BY <1>1 DEF GetByte
<1>3. end # NULL
  BY <1>2 DEF Called
<1>4. end \in Nat /\ ptr \in Nat /\ Left \in Nat /\ Left = end - ptr
  BY <1>3, CursorTyped
<1>5. ptr' \in 0 .. end
  BY <1>2, <1>4
<1>6. ASSUME NEW item, Facing(item), Asked(item, "byte", 1)
      PROVE  IF Left > 0 THEN ptr' = ptr + Len(Encoding(item)) /\ value \in {Meaning(item), Skipped}
             ELSE ptr <= ptr' /\ end < ptr + Len(Encoding(item))
  <2>1. Len(Encoding(item)) = 1 /\ bytes[ptr + 1] = Meaning(item)
    BY <1>6, ByteFound DEF Asked
  <2>2. CASE Left > 0
    BY <1>1, <1>2, <2>1, <2>2
  <2>3. CASE ~(Left > 0)
    BY <1>2, <1>4, <2>1, <2>3
  <2>4. QED
    BY <2>2, <2>3
<1>7. Takes("byte", 1, Left > 0, value)
  BY <1>6, Zenon DEF Takes
<1>8. (Left > 0) \in BOOLEAN
  OBVIOUS
<1>9. QED
  BY <1>2, <1>5, <1>7, <1>8, CalledStep, Zenon

\* grilio_parser_get_int32_array, with the words it returns before the one that is missing.
LEMMA GetInt32ArrayStep ==
    ASSUME ParcelInv, NEW count \in Nat, GetInt32Array(count)
    PROVE  ParcelInv'
<1>1. PICK there : there = IF Left \div 4 < count THEN Left \div 4 ELSE count
  OBVIOUS
<1>2. PICK ok, value :
         /\ ok \in BOOLEAN /\ ok = (there = count) /\ value = [i \in 1 .. there |-> Int32At(ptr + 4 * (i - 1))]
         /\ Called("words", count, ok, value) /\ ptr' = ptr + 4 * there
  BY <1>1 DEF GetInt32Array
<1>3. end # NULL
  BY <1>2 DEF Called
<1>4. end \in Nat /\ ptr \in Nat /\ Left \in Nat /\ Left = end - ptr
  BY <1>3, CursorTyped
<1>5. there \in Nat /\ 4 * there <= Left /\ (there # count => Left < 4 * count)
  BY <1>1, <1>4
<1>6. ptr' \in 0 .. end
  BY <1>2, <1>4, <1>5
<1>7. ASSUME NEW item, Facing(item), Asked(item, "words", count)
      PROVE  IF ok THEN ptr' = ptr + Len(Encoding(item)) /\ value \in {Meaning(item), Skipped}
             ELSE ptr <= ptr' /\ end < ptr + Len(Encoding(item))
  <2>1. item.kind = "words" /\ Len(item.value) = count
    BY <1>7 DEF Asked
  <2>2. /\ Len(Encoding(item)) = 4 * count
        /\ [i \in 1 .. count |-> Int32At(ptr + 4 * (i - 1))] = Meaning(item)
    BY <1>7, <2>1, WordsFound
  <2>3. CASE ok
    <3>1. there = count
      BY <1>2, <2>3
    <3>2. value = Meaning(item)
      BY <1>2, <2>2, <3>1, Zenon
    <3>3. QED
      BY <1>2, <2>2, <2>3, <3>1, <3>2
  <2>4. CASE ~ok
    <3>1. there # count
      BY <1>2, <2>4, Zenon
    <3>2. ptr <= ptr' /\ end < ptr + Len(Encoding(item))
      BY <1>2, <1>4, <1>5, <2>2, <3>1
    <3>3. QED
      BY <2>4, <3>2, Zenon
  <2>5. QED
    BY <2>3, <2>4
<1>8. Takes("words", count, ok, value)
  BY <1>7 DEF Takes
<1>9. QED
  BY <1>2, <1>6, <1>8, CalledStep

\* A string is taken or left, read or skipped.
LEMMA StringStep ==
    ASSUME ParcelInv, NEW ok \in BOOLEAN, NEW value,
           ok = (StringSize # NULL), ok => value \in {StringAt, Skipped},
           Called("text", 1, ok, value), ptr' = IF StringSize = NULL THEN ptr ELSE ptr + StringSize
    PROVE  ParcelInv'
<1>1. end # NULL
  BY DEF Called
<1>2. /\ Packed /\ end \in 0 .. Len(bytes) /\ ptr \in 0 .. end
      /\ end \in Nat /\ ptr \in Nat /\ Left \in Nat /\ Left = end - ptr
  BY <1>1, CursorTyped
<1>3. PICK size : size = StringSize
  OBVIOUS
<1>4. size = NULL \/ size \in 0 .. end - ptr
  BY <1>2, <1>3, StringSizeBounds
<1>5. ptr' \in 0 .. end
  BY <1>2, <1>3, <1>4
<1>6. ASSUME NEW item, Facing(item), Asked(item, "text", 1)
      PROVE  IF ok THEN ptr' = ptr + Len(Encoding(item)) /\ value \in {Meaning(item), Skipped}
             ELSE ptr <= ptr' /\ end < ptr + Len(Encoding(item))
  <2>1. PICK b \in Nat : b = Len(Encoding(item))
    BY <1>6, EncodingTyped, LenProperties DEF Facing
  <2>2. IF b <= Left THEN size = b /\ StringAt = Meaning(item) ELSE size = NULL
    BY <1>3, <1>6, <2>1, TextFound DEF Asked
  <2>3. CASE b <= Left
    <3>1. size = b /\ StringAt = Meaning(item) /\ size # NULL
      BY <2>2, <2>3, NullAssumption DEF NullAssumption
    <3>2. ok /\ ptr' = ptr + b /\ value \in {Meaning(item), Skipped}
      BY <1>3, <3>1
    <3>3. QED
      BY <2>1, <3>2
  <2>4. CASE ~(b <= Left)
    <3>1. ~ok /\ ptr' = ptr
      BY <1>3, <2>2, <2>4
    <3>2. QED
      BY <1>2, <2>1, <2>4, <3>1
  <2>5. QED
    BY <2>3, <2>4
<1>7. Takes("text", 1, ok, value)
  BY <1>6 DEF Takes
<1>8. QED
  BY <1>5, <1>7, CalledStep

\* grilio_parser_get_nullable_utf8.
LEMMA GetNullableUtf8Step == ParcelInv /\ GetNullableUtf8 => ParcelInv'
<1> SUFFICES ASSUME ParcelInv, GetNullableUtf8
             PROVE  ParcelInv'
  OBVIOUS
<1>1. PICK ok, value :
         /\ ok \in BOOLEAN /\ ok = (StringSize # NULL) /\ value = (IF StringSize = NULL THEN NULL ELSE StringAt)
         /\ Called("text", 1, ok, value)
         /\ ptr' = IF StringSize = NULL THEN ptr ELSE ptr + StringSize
  BY DEF GetNullableUtf8
<1>2. ok => value \in {StringAt, Skipped}
  BY <1>1
<1>3. QED
  BY <1>1, <1>2, StringStep

\* grilio_parser_skip_string.
LEMMA SkipStringStep == ParcelInv /\ SkipString => ParcelInv'
<1> SUFFICES ASSUME ParcelInv, SkipString
             PROVE  ParcelInv'
  OBVIOUS
<1>1. PICK ok, value :
         /\ ok \in BOOLEAN /\ ok = (StringSize # NULL) /\ value = Skipped
         /\ Called("text", 1, ok, value)
         /\ ptr' = IF StringSize = NULL THEN ptr ELSE ptr + StringSize
  BY DEF SkipString
<1>2. ok => value \in {StringAt, Skipped}
  BY <1>1
<1>3. QED
  BY <1>1, <1>2, StringStep

\* grilio_parser_get_data.
LEMMA GetDataStep ==
    ASSUME ParcelInv, NEW maxlen \in Nat, GetData(maxlen)
    PROVE  ParcelInv'
<1>1. PICK len : len = IF maxlen < Left THEN maxlen ELSE Left
  OBVIOUS
<1>2. PICK ok, value :
         /\ ok \in BOOLEAN /\ ok = (len = maxlen) /\ value = SubSeq(bytes, ptr + 1, ptr + len)
         /\ Called("bytes", maxlen, ok, value) /\ ptr' = ptr + len
  BY <1>1 DEF GetData
<1>3. end # NULL
  BY <1>2 DEF Called
<1>4. end \in Nat /\ ptr \in Nat /\ Left \in Nat /\ Left = end - ptr
  BY <1>3, CursorTyped
<1>5. len \in Nat /\ len <= Left /\ (len # maxlen => Left < maxlen)
  BY <1>1, <1>4
<1>6. ptr' \in 0 .. end
  BY <1>2, <1>4, <1>5
<1>7. ASSUME NEW item, Facing(item), Asked(item, "bytes", maxlen)
      PROVE  IF ok THEN ptr' = ptr + Len(Encoding(item)) /\ value \in {Meaning(item), Skipped}
             ELSE ptr <= ptr' /\ end < ptr + Len(Encoding(item))
  <2>1. item.kind = "bytes" /\ Len(item.value) = maxlen
    BY <1>7 DEF Asked
  <2>2. Len(Encoding(item)) = maxlen /\ SubSeq(bytes, ptr + 1, ptr + maxlen) = Meaning(item)
    <3>1. /\ Len(Encoding(item)) = Len(item.value)
          /\ SubSeq(bytes, ptr + 1, ptr + Len(item.value)) = Meaning(item)
      BY <1>7, <2>1, BytesFound
    <3>2. QED
      BY <2>1, <3>1, Zenon
  <2>3. CASE ok
    <3>1. len = maxlen
      BY <1>2, <2>3
    <3>2. value = Meaning(item)
      BY <1>2, <2>2, <3>1, Zenon
    <3>3. QED
      BY <1>2, <2>2, <2>3, <3>1, <3>2
  <2>4. CASE ~ok
    <3>1. len # maxlen
      BY <1>2, <2>4, Zenon
    <3>2. ptr <= ptr' /\ end < ptr + Len(Encoding(item))
      BY <1>2, <1>4, <1>5, <2>2, <3>1
    <3>3. QED
      BY <2>4, <3>2, Zenon
  <2>5. QED
    BY <2>3, <2>4
<1>8. Takes("bytes", maxlen, ok, value)
  BY <1>7 DEF Takes
<1>9. QED
  BY <1>2, <1>6, <1>8, CalledStep

-----------------------------------------------------------------------------
(* So does everything that fills a request.                                *)

\* Nothing has been read of a request that is filled.
LEMMA FillingReads ==
    ASSUME ParcelInv, end = NULL, UNCHANGED reader, Len(items') \in Nat
    PROVE  Reading'
<1>1. ptr = 0 /\ got = <<>> /\ failed = FALSE /\ strayed = FALSE
  BY DEF ParcelInv, Reading
<1>2. end' = NULL /\ ptr' = 0 /\ got' = <<>> /\ failed' = FALSE /\ strayed' = FALSE
  BY <1>1 DEF reader
<1>3. got' \in Seq(Values) /\ Len(got') = 0 /\ DOMAIN got' = {}
  BY <1>2
<1>4. RoundTrip' /\ CutIsNoticed'
  BY <1>2, <1>3 DEF RoundTrip, CutIsNoticed
<1>5. Len(got') <= Len(items')
  BY <1>3
<1>6. QED
  BY <1>2, <1>3, <1>4, <1>5, Zenon DEF Reading

\* Each of the grilio_request_append functions.
LEMMA AppendItemStep ==
    ASSUME ParcelInv, NEW item \in Item, AppendItem(item)
    PROVE  ParcelInv'
<1>1. Packed'
  BY AppendItemPacked DEF ParcelInv
<1>2. Len(items') \in Nat /\ end = NULL /\ UNCHANGED reader
  BY <1>1, LenProperties DEF Packed, AppendItem
<1>3. QED
  BY <1>1, <1>2, FillingReads DEF ParcelInv

\* The functions that make a request of an array.
LEMMA NewRequestStep ==
    ASSUME ParcelInv, end = NULL, UNCHANGED reader, items' \in Seq(Item),
           bytes' = FlattenSeq([i \in DOMAIN items' |-> Encoding(items'[i])])
    PROVE  ParcelInv'
<1>1. Packed'
  BY DEF Packed, Encodings
<1>2. Len(items') \in Nat
  BY LenProperties
<1>3. QED
  BY <1>1, <1>2, FillingReads DEF ParcelInv

\* What is appended is typed.
LEMMA ItemsTyped ==
    /\ \A b \in 0 .. Base - 1 : Byte(b) \in Item
    /\ \A b \in Bytes : Data(b) \in Item /\ Len(b) \in Nat
    /\ \A n \in Ints : Words(n) \in Item /\ Words(<<Len(n)>>) \in Item /\ Len(n) \in Nat
    /\ \A t \in Texts \cup {NULL} : Text(t) \in Item
    /\ Words(<<2>>) \in Item
<1>1. \A b \in 0 .. Base - 1 : Byte(b) \in Item
  BY DEF Byte, Item
<1>2. ASSUME NEW b \in Bytes
      PROVE  Data(b) \in Item /\ Len(b) \in Nat
  <2>1. b \in Seq(0 .. Base - 1)
    BY ItemAssumption DEF ItemAssumption
  <2>2. QED
    BY <2>1, LenProperties DEF Data, Item
<1>3. \A n \in Seq(0 .. Word - 1) : Words(n) \in Item
  BY DEF Words, Item
<1>4. ASSUME NEW v \in 0 .. Word - 1
      PROVE  Words(<<v>>) \in Item
  <2>1. PICK X : X = 0 .. Word - 1
    OBVIOUS
  <2>2. <<v>> \in Seq(X)
    BY <2>1
  <2>3. QED
    BY <1>3, <2>1, <2>2
<1>5. Word \in Nat /\ Word >= 16 /\ 2 \in 0 .. Word - 1
  BY Sizes
<1>6. ASSUME NEW n \in Ints
      PROVE  Words(n) \in Item /\ Words(<<Len(n)>>) \in Item /\ Len(n) \in Nat
  <2>1. n \in Seq(0 .. Word - 1) /\ Len(n) < Word
    BY ItemAssumption, LengthAssumption DEF ItemAssumption, LengthAssumption
  <2>2. Len(n) \in Nat
    BY <2>1, LenProperties
  <2>3. Len(n) \in 0 .. Word - 1
    BY <1>5, <2>1, <2>2
  <2>4. QED
    BY <1>3, <1>4, <2>1, <2>2, <2>3
<1>7. \A t \in Texts \cup {NULL} : Text(t) \in Item
  BY DEF Text, Item
<1>8. QED
  BY <1>1, <1>2, <1>4, <1>5, <1>6, <1>7

\* grilio_request_array_utf8_new.
LEMMA ArrayUtf8NewStep ==
    ASSUME ParcelInv, NEW t \in Texts \cup {NULL}, NEW u \in Texts \cup {NULL}, ArrayUtf8New(<<t, u>>)
    PROVE  ParcelInv'
<1>1. PICK a, s : a = Words(<<2>>) /\ s = <<Text(t), Text(u)>>
  OBVIOUS
<1>2. a \in Item /\ s \in Seq(Item)
  BY <1>1, ItemsTyped
<1>3. [i \in DOMAIN <<t, u>> |-> Text(<<t, u>>[i])] = s
  BY <1>1
<1>4. items' = <<a>> \o s
  <2>1. Len(<<t, u>>) = 2
    OBVIOUS
  <2>2. QED
    BY <1>1, <1>3, <2>1 DEF ArrayUtf8New
<1>5. items' \in Seq(Item)
  <2>1. <<a>> \in Seq(Item)
    BY <1>2
  <2>2. QED
    BY <1>2, <1>4, <2>1, ConcatProperties
<1>6. end = NULL /\ UNCHANGED reader /\ bytes' = FlattenSeq([i \in DOMAIN items' |-> Encoding(items'[i])])
  BY DEF ArrayUtf8New
<1>7. QED
  BY <1>5, <1>6, NewRequestStep

\* grilio_request_array_int32_new.
LEMMA ArrayInt32NewStep ==
    ASSUME ParcelInv, NEW n \in Ints, ArrayInt32New(n)
    PROVE  ParcelInv'
<1>1. items' = <<Words(<<Len(n)>>), Words(n)>> /\ Words(<<Len(n)>>) \in Item /\ Words(n) \in Item
  BY ItemsTyped DEF ArrayInt32New
<1>2. items' \in Seq(Item)
  BY <1>1
<1>3. end = NULL /\ UNCHANGED reader /\ bytes' = FlattenSeq([i \in DOMAIN items' |-> Encoding(items'[i])])
  BY DEF ArrayInt32New
<1>4. QED
  BY <1>2, <1>3, NewRequestStep

\* The cursor of a new parser is at the first value.
LEMMA ParserInitStep ==
    ASSUME ParcelInv, NEW len \in 0 .. Len(bytes), ParserInit(len)
    PROVE  ParcelInv'
<1>1. /\ Packed /\ got = <<>> /\ failed = FALSE /\ strayed = FALSE
      /\ UNCHANGED <<bytes, items, got, failed, strayed>> /\ end' = len /\ ptr' = 0
  BY DEF ParcelInv, Reading, ParserInit
<1>2. /\ Len(bytes) \in Nat /\ Len(items) \in Nat /\ Offset(0) = 0
  BY <1>1, PacketTyped
<1>3. Packed'
  BY <1>1 DEF Packed, Encodings
<1>4. Offset(0)' = 0
  BY <1>1, <1>2 DEF Offset
<1>5. Len(got') = 0 /\ DOMAIN got' = {} /\ got' \in Seq(Values) /\ Len(got') <= Len(items')
  BY <1>1, <1>2
<1>6. end' \in 0 .. Len(bytes') /\ ptr' \in 0 .. end' /\ end' # NULL
  BY <1>1, <1>2, NullAssumption DEF NullAssumption
<1>7. RoundTrip' /\ CutIsNoticed'
  BY <1>1, <1>4, <1>5 DEF RoundTrip, CutIsNoticed
<1>8. QED
  BY <1>1, <1>3, <1>5, <1>6, <1>7 DEF ParcelInv, Reading

-----------------------------------------------------------------------------
\* A new request is empty and nothing was read.
LEMMA ParcelInit == Init => ParcelInv
<1> SUFFICES ASSUME Init
             PROVE  ParcelInv
  OBVIOUS
<1>1. /\ bytes = <<>> /\ items = <<>> /\ end = NULL /\ ptr = 0
      /\ got = <<>> /\ failed = FALSE /\ strayed = FALSE
  BY DEF Init
<1>2. Encodings = <<>>
  BY <1>1 DEF Encodings
<1>3. FlattenSeq(<<>>) = <<>>
  BY DEF FlattenSeq
<1>4. Packed
  BY <1>1, <1>2, <1>3 DEF Packed
<1>5. Len(got) = 0 /\ Len(items) = 0 /\ DOMAIN got = {} /\ got \in Seq(Values)
  BY <1>1
<1>6. RoundTrip /\ CutIsNoticed
  BY <1>1, <1>5 DEF RoundTrip, CutIsNoticed
<1>7. Len(got) <= Len(items)
  BY <1>5
<1>8. failed \in BOOLEAN /\ strayed \in BOOLEAN
  BY <1>1
<1>9. QED
  BY <1>1, <1>4, <1>5, <1>6, <1>7, <1>8, Zenon DEF ParcelInv, Reading

\* Every step keeps the invariant.
LEMMA ParcelStep == ParcelInv /\ [Next]_vars => ParcelInv'
<1> SUFFICES ASSUME ParcelInv, [Next]_vars
             PROVE  ParcelInv'
  OBVIOUS
<1>1. CASE \E b \in 0 .. Base - 1 : AppendByte(b)
  BY <1>1, ItemsTyped, AppendItemStep DEF AppendByte
<1>2. CASE \E b \in Bytes : AppendBytes(b)
  BY <1>2, ItemsTyped, AppendItemStep DEF AppendBytes
<1>3. CASE \E n \in Ints : AppendInt32Array(n) \/ ArrayInt32New(n)
  <2>1. PICK n \in Ints : AppendInt32Array(n) \/ ArrayInt32New(n)
    BY <1>3
  <2>2. CASE AppendInt32Array(n)
    BY <2>2, ItemsTyped, AppendItemStep DEF AppendInt32Array
  <2>3. CASE ArrayInt32New(n)
    BY <2>3, ArrayInt32NewStep
  <2>4. QED
    BY <2>1, <2>2, <2>3
<1>4. CASE \E t \in Texts \cup {NULL} : AppendUtf8(t)
  BY <1>4, ItemsTyped, AppendItemStep DEF AppendUtf8
<1>5. CASE \E t, u \in Texts \cup {NULL} : ArrayUtf8New(<<t, u>>)
  BY <1>5, ArrayUtf8NewStep
<1>6. CASE \E len \in 0 .. Len(bytes) : ParserInit(len)
  BY <1>6, ParserInitStep
<1>7. CASE GetByte
  BY <1>7, GetByteStep
<1>8. CASE \E n \in Ints : GetInt32Array(Len(n))
  BY <1>8, ItemsTyped, GetInt32ArrayStep
<1>9. CASE GetNullableUtf8
  BY <1>9, GetNullableUtf8Step
<1>10. CASE SkipString
  BY <1>10, SkipStringStep
<1>11. CASE \E b \in Bytes : GetData(Len(b))
  BY <1>11, ItemsTyped, GetDataStep
<1>12. CASE UNCHANGED vars
  BY <1>12 DEF vars, reader, ParcelInv, Packed, Encodings, Reading, RoundTrip, CutIsNoticed, Offset
<1>13. QED
  BY <1>1, <1>2, <1>3, <1>4, <1>5, <1>6, <1>7, <1>8, <1>9, <1>10, <1>11, <1>12 DEF Next

\* The bytes of a request are the encodings of what grilio_request_append_* was given, in
\* that order, and the cursor of a parser whose calls follow the values is where those end
\* that it has returned.
THEOREM ParcelInvariant == Spec => []ParcelInv
  BY ParcelInit, ParcelStep, PTL DEF Spec

\* Whatever functions of grilio_parser.c are called on a packet, in whatever order and
\* wherever the packet was cut, the cursor stays between the beginning and the end of it.
THEOREM CursorStaysInPacket == Spec => []CursorInPacket
<1>1. ParcelInv => CursorInPacket
  BY PacketTyped DEF ParcelInv, Reading, CursorInPacket
<1>2. QED
  BY <1>1, ParcelInvariant, PTL

\* What the functions of grilio_parser.c return is what those of grilio_encode.c were given:
\* bytes, words of any value, and strings up to the first byte that is not UTF-8.
THEOREM ValuesRoundTrip == Spec => []RoundTrip
<1>1. ParcelInv => RoundTrip
  BY DEF ParcelInv, Reading
<1>2. QED
  BY <1>1, ParcelInvariant, PTL

\* A parser whose calls follow the values keeps in step with the encoder, over paddings and
\* skipped strings too, and a call of it fails only if the packet was cut in its value.
THEOREM CutsAreNoticed == Spec => []CutIsNoticed
<1>1. ParcelInv => CutIsNoticed
  BY DEF ParcelInv, Reading
<1>2. QED
  BY <1>1, ParcelInvariant, PTL
=============================================================================
