--------------------------- MODULE SequenceLemmas ---------------------------
(***************************************************************************)
(* What the proofs need of the sequences that are put together of others:   *)
(* the requests of a synchronisation are those of its kinds, one after the  *)
(* other (elk.py:103-116, elements.py), and a message is its fields, each   *)
(* behind those before it (message.py). Induction is over sets of numbers,  *)
(* from the well-foundedness of < that the library proves.                  *)
(***************************************************************************)
EXTENDS Integers, SequencesExt, SequenceTheorems, WellFoundedInduction, TLAPS

(* A set of numbers has a least element.                                   *)
LEMMA LeastNumber ==
  ASSUME NEW T, T \subseteq Nat, T # {}
  PROVE  \E x \in T : \A y \in T : x <= y
  <1>1. PICK x \in T : \A y \in T : ~ (<<y, x>> \in OpToRel(<, Nat))
    BY NatLessThanWellFounded, WFMin
  <1>2. \A y \in T : ~ (y < x)
    BY <1>1 DEF OpToRel
  <1> QED
    BY <1>2

(* Induction: a set of numbers that holds 0 and every successor is Nat.     *)
LEMMA SetInduction ==
  ASSUME NEW T, T \subseteq Nat, 0 \in T, \A n \in T : n + 1 \in T
  PROVE  T = Nat
  <1> SUFFICES ASSUME Nat \ T # {} PROVE FALSE
    OBVIOUS
  <1>1. PICK x \in Nat \ T : \A y \in Nat \ T : x <= y
    BY LeastNumber
  <1>2. x # 0 /\ x - 1 \in T
    BY <1>1
  <1> QED
    BY <1>1, <1>2

Flattening(f, seqs, n) ==
    f = [i \in 1..n |-> IF i = 1 THEN seqs[i] ELSE f[i - 1] \o seqs[i]]

(* The function by which FlattenSeq is defined exists.                      *)
LEMMA FlatteningExists ==
  ASSUME NEW S, NEW seqs \in Seq(Seq(S))
  PROVE  \E f : Flattening(f, seqs, Len(seqs))
  <1> DEFINE N == Len(seqs)
             T == {m \in Nat : m <= N => \E f \in [1..m -> Seq(S)] : Flattening(f, seqs, m)}
  <1>0. N \in Nat /\ \A i \in 1..N : seqs[i] \in Seq(S)
    OBVIOUS
  <1>1. 0 \in T
    <2> DEFINE e == [i \in 1..0 |-> <<>>]
    <2>1. e \in [1..0 -> Seq(S)] /\ Flattening(e, seqs, 0)
      BY DEF Flattening
    <2> QED
      BY <2>1
  <1>2. ASSUME NEW m \in T PROVE m + 1 \in T
    <2> SUFFICES ASSUME m + 1 <= N
                 PROVE  \E f \in [1..m + 1 -> Seq(S)] : Flattening(f, seqs, m + 1)
      OBVIOUS
    <2>1. PICK f \in [1..m -> Seq(S)] : Flattening(f, seqs, m)
      BY <1>0
    <2> DEFINE next == IF m = 0 THEN seqs[1] ELSE f[m] \o seqs[m + 1]
               g == [i \in 1..m + 1 |-> IF i = m + 1 THEN next ELSE f[i]]
    <2>2. next \in Seq(S)
      <3>1. CASE m = 0
        BY <3>1, <1>0
      <3>2. CASE m # 0
        <4>1. f[m] \in Seq(S) /\ seqs[m + 1] \in Seq(S)
          BY <3>2, <1>0, <2>1
        <4> QED
          BY <3>2, <4>1, ConcatProperties
      <3> QED
        BY <3>1, <3>2
    <2>3. \A i \in 1..m : f[i] = IF i = 1 THEN seqs[i] ELSE f[i - 1] \o seqs[i]
      BY <2>1 DEF Flattening
    <2> HIDE DEF next
    <2>4. g \in [1..m + 1 -> Seq(S)]
      BY <2>1, <2>2
    <2>5. ASSUME NEW i \in 1..m + 1
          PROVE  g[i] = IF i = 1 THEN seqs[i] ELSE g[i - 1] \o seqs[i]
      <3>1. CASE i = m + 1
        <4>1. g[i] = next
          BY <3>1
        <4>2. i # 1 => g[i - 1] = f[m] /\ m # 0 /\ m \in Nat
          BY <3>1, <1>0
        <4> QED
          BY <3>1, <4>1, <4>2 DEF next
      <3>2. CASE i # m + 1
        <4>1. g[i] = f[i] /\ i \in 1..m
          BY <3>2, <1>0
        <4>2. i # 1 => g[i - 1] = f[i - 1]
          BY <4>1, <1>0
        <4> QED
          BY <4>1, <4>2, <2>3
      <3> QED
        BY <3>1, <3>2
    <2>6. Flattening(g, seqs, m + 1)
      <3>1. g = [i \in 1..m + 1 |-> g[i]]
        BY DEF g
      <3> HIDE DEF g
      <3> QED
        BY <3>1, <2>5 DEF Flattening
    <2> QED
      BY <2>4, <2>6
  <1>3. N \in T
    <2> HIDE DEF T
    <2>1. T \subseteq Nat
      BY DEF T
    <2> QED
      BY <1>0, <1>1, <1>2, <2>1, SetInduction
  <1> QED
    BY <1>0, <1>3

(* FlattenSeq is the last of the prefixes, each a sequence over S.          *)
LEMMA FlattenSeqPrefixes ==
  ASSUME NEW S, NEW seqs \in Seq(Seq(S)), Len(seqs) # 0
  PROVE  \E f \in [1..Len(seqs) -> Seq(S)] :
            /\ FlattenSeq(seqs) = f[Len(seqs)]
            /\ f[1] = seqs[1]
            /\ \A i \in 2..Len(seqs) : f[i] = f[i - 1] \o seqs[i]
  <1> DEFINE N == Len(seqs)
             f == CHOOSE x : Flattening(x, seqs, N)
             T == {m \in Nat : m + 1 <= N => f[m + 1] \in Seq(S)}
  <1>0. N \in Nat \ {0} /\ \A i \in 1..N : seqs[i] \in Seq(S)
    OBVIOUS
  <1>1. FlattenSeq(seqs) = f[N]
    BY <1>0 DEF FlattenSeq, Flattening
  <1>2. Flattening(f, seqs, N)
    BY FlatteningExists
  <1> HIDE DEF f
  <1>3. f = [i \in 1..N |-> f[i]]
    BY <1>2 DEF Flattening
  <1>4. \A i \in 1..N : f[i] = IF i = 1 THEN seqs[i] ELSE f[i - 1] \o seqs[i]
    BY <1>2 DEF Flattening
  <1>5. f[1] = seqs[1] /\ f[1] \in Seq(S)
    BY <1>0, <1>4
  <1>6. ASSUME NEW i \in 2..N PROVE f[i] = f[i - 1] \o seqs[i]
    <2>1. i \in 1..N /\ i # 1
      BY <1>0
    <2> QED
      BY <1>4, <2>1
  <1>7. 0 \in T
    BY <1>5
  <1>8. ASSUME NEW m \in T PROVE m + 1 \in T
    <2>1. m \in Nat /\ (m + 1 <= N => f[m + 1] \in Seq(S))
      OBVIOUS
    <2>2. ASSUME m + 1 + 1 <= N PROVE f[m + 1 + 1] \in Seq(S)
      <3>1. f[m + 1] \in Seq(S) /\ seqs[m + 1 + 1] \in Seq(S)
        BY <1>0, <2>1, <2>2
      <3>2. f[m + 1 + 1] = f[m + 1] \o seqs[m + 1 + 1]
        <4>1. PICK k \in 2..N : k = m + 1 + 1
          BY <1>0, <2>1, <2>2
        <4>2. f[k] = f[k - 1] \o seqs[k]
          BY <1>6
        <4>3. k - 1 = m + 1
          BY <2>1, <4>1
        <4> QED
          BY <4>1, <4>2, <4>3
      <3> QED
        BY <3>1, <3>2, ConcatProperties
    <2> QED
      BY <2>1, <2>2
  <1>9. ASSUME NEW i \in 1..N PROVE f[i] \in Seq(S)
    <2>1. T = Nat
      <3> HIDE DEF T
      <3>1. T \subseteq Nat
        BY DEF T
      <3> QED
        BY <1>7, <1>8, <3>1, SetInduction
    <2>2. i - 1 \in T /\ i - 1 \in Nat /\ i - 1 + 1 = i /\ i <= N
      <3>1. i - 1 \in Nat /\ i - 1 + 1 = i /\ i <= N
        BY <1>0
      <3> HIDE DEF T
      <3> QED
        BY <3>1, <2>1
    <2>3. i - 1 + 1 <= N => f[i - 1 + 1] \in Seq(S)
      BY <2>2
    <2> QED
      BY <2>2, <2>3
  <1>10. f \in [1..N -> Seq(S)]
    BY <1>3, <1>9
  <1> QED
    BY <1>1, <1>5, <1>6, <1>10

(* What is put together of sequences over S is a sequence over S.           *)
LEMMA FlattenSeqType ==
  ASSUME NEW S, NEW seqs \in Seq(Seq(S))
  PROVE  FlattenSeq(seqs) \in Seq(S)
  <1>1. CASE Len(seqs) = 0
    <2>1. seqs = <<>>
      BY <1>1, EmptySeq
    <2> QED
      BY <1>1, <2>1 DEF FlattenSeq
  <1>2. CASE Len(seqs) # 0
    <2>1. Len(seqs) \in 1..Len(seqs)
      BY <1>2, LenProperties
    <2>2. PICK f \in [1..Len(seqs) -> Seq(S)] : FlattenSeq(seqs) = f[Len(seqs)]
      BY <1>2, FlattenSeqPrefixes
    <2> QED
      BY <2>1, <2>2
  <1> QED
    BY <1>1, <1>2

(* Nothing that is put together is lost.                                   *)
LEMMA FlattenSeqContains ==
  ASSUME NEW S, NEW seqs \in Seq(Seq(S)), NEW i \in 1..Len(seqs), NEW j \in 1..Len(seqs[i])
  PROVE  \E p \in 1..Len(FlattenSeq(seqs)) : FlattenSeq(seqs)[p] = seqs[i][j]
  <1> DEFINE N == Len(seqs)
  <1>0. /\ N \in Nat \ {0} /\ Len(seqs) # 0 /\ i \in 1..N /\ seqs[i] \in Seq(S)
        /\ \A m \in 1..N : seqs[m] \in Seq(S)
    OBVIOUS
  <1>1. PICK f \in [1..N -> Seq(S)] :
            /\ FlattenSeq(seqs) = f[N]
            /\ f[1] = seqs[1]
            /\ \A m \in 2..N : f[m] = f[m - 1] \o seqs[m]
    <2>1. Len(seqs) # 0
      BY <1>0
    <2>2. \E f \in [1..Len(seqs) -> Seq(S)] :
            /\ FlattenSeq(seqs) = f[Len(seqs)]
            /\ f[1] = seqs[1]
            /\ \A m \in 2..Len(seqs) : f[m] = f[m - 1] \o seqs[m]
      BY <2>1, FlattenSeqPrefixes, ZenonT(30)
    <2> QED
      BY <2>2
  <1> DEFINE Has(m) == \E p \in 1..Len(f[m]) : f[m][p] = seqs[i][j]
             T == {n \in Nat : i + n <= N => Has(i + n)}
  <1>2. Has(i)
    <2>1. CASE i = 1
      BY <1>1, <2>1
    <2>2. CASE i # 1
      <3>1. i - 1 \in 1..N /\ i \in 2..N
        BY <1>0, <2>2
      <3>2. f[i] = f[i - 1] \o seqs[i] /\ f[i - 1] \in Seq(S) /\ seqs[i] \in Seq(S)
        BY <1>0, <1>1, <3>1
      <3>3. Len(f[i - 1]) + j \in 1..Len(f[i]) /\ f[i][Len(f[i - 1]) + j] = seqs[i][j]
        <4> DEFINE s == f[i - 1]
                   t == seqs[i]
        <4>1. s \in Seq(S) /\ t \in Seq(S) /\ f[i] = s \o t /\ j \in 1..Len(t)
          BY <3>2
        <4> HIDE DEF s, t
        <4>2. Len(s) + j \in 1..Len(s \o t) /\ (s \o t)[Len(s) + j] = t[j]
          BY <4>1
        <4> QED
          BY <4>1, <4>2 DEF s, t
      <3> QED
        BY <3>3
    <2> QED
      BY <2>1, <2>2
  <1>3. ASSUME NEW n \in Nat, i + n + 1 <= N, Has(i + n) PROVE Has(i + (n + 1))
    <2>1. PICK m \in 2..N : m = i + (n + 1)
      BY <1>0, <1>3
    <2>2. m - 1 \in 1..N /\ m - 1 = i + n /\ m \in 1..N
      BY <1>0, <2>1
    <2>3. f[m] = f[m - 1] \o seqs[m] /\ f[m - 1] \in Seq(S) /\ seqs[m] \in Seq(S)
      BY <1>0, <1>1, <2>2
    <2>4. PICK p \in 1..Len(f[m - 1]) : f[m - 1][p] = seqs[i][j]
      BY <1>3, <2>2
    <2>5. p \in 1..Len(f[m]) /\ f[m][p] = f[m - 1][p]
      <3> DEFINE s == f[m - 1]
                 t == seqs[m]
      <3>1. s \in Seq(S) /\ t \in Seq(S) /\ f[m] = s \o t /\ p \in 1..Len(s)
        BY <2>3
      <3> HIDE DEF s, t
      <3>2. p \in 1..Len(s \o t) /\ (s \o t)[p] = s[p]
        BY <3>1
      <3> QED
        BY <3>1, <3>2 DEF s, t
    <2> QED
      BY <2>1, <2>4, <2>5
  <1> HIDE DEF Has
  <1>4. T = Nat
    <2>1. 0 \in T
      <3>1. i + 0 = i
        BY <1>0
      <3> QED
        BY <1>2, <3>1
    <2>2. ASSUME NEW n \in T PROVE n + 1 \in T
      <3>1. n \in Nat /\ (i + n <= N => Has(i + n))
        OBVIOUS
      <3>2. i + (n + 1) <= N => i + n + 1 <= N /\ i + n <= N
        BY <1>0, <3>1
      <3>3. i + (n + 1) <= N => Has(i + (n + 1))
        BY <1>3, <3>1, <3>2
      <3> QED
        BY <3>1, <3>3
    <2>3. T \subseteq Nat
      OBVIOUS
    <2> HIDE DEF T
    <2> QED
      BY <2>1, <2>2, <2>3, SetInduction
  <1>5. Has(N)
    <2>1. N - i \in Nat /\ i + (N - i) = N /\ N <= N
      BY <1>0
    <2>2. N - i \in T
      BY <1>4, <2>1
    <2>3. i + (N - i) <= N => Has(i + (N - i))
      BY <2>2
    <2> QED
      BY <2>1, <2>3
  <1> QED
    BY <1>1, <1>5 DEF Has

(* Of parts of one element or none, each element comes from a part of its   *)
(* own, in the order of the parts.                                          *)
InOrderFrom(f, s, seqs, n) ==
    /\ f \in [1..Len(s) -> 1..n]
    /\ \A x \in 1..Len(s) : Len(seqs[f[x]]) = 1 /\ s[x] = seqs[f[x]][1]
    /\ \A x, y \in 1..Len(s) : x < y => f[x] < f[y]

LEMMA FlattenSeqOrder ==
  ASSUME NEW S, NEW seqs \in Seq(Seq(S)), \A i \in 1..Len(seqs) : Len(seqs[i]) \in 0..1
  PROVE  \E f : InOrderFrom(f, FlattenSeq(seqs), seqs, Len(seqs))
  <1> DEFINE N == Len(seqs)
  <1>0. N \in Nat /\ \A i \in 1..N : seqs[i] \in Seq(S)
    OBVIOUS
  <1>1. CASE N = 0
    <2>1. seqs = <<>>
      BY <1>1, EmptySeq
    <2>2. FlattenSeq(seqs) = <<>>
      BY <1>1, <2>1 DEF FlattenSeq
    <2> DEFINE e == [x \in 1..0 |-> 0]
    <2>3. InOrderFrom(e, <<>>, seqs, N)
      BY DEF InOrderFrom
    <2> QED
      BY <2>2, <2>3
  <1>2. CASE N # 0
    <2>1. PICK g \in [1..N -> Seq(S)] :
            /\ FlattenSeq(seqs) = g[N]
            /\ g[1] = seqs[1]
            /\ \A i \in 2..N : g[i] = g[i - 1] \o seqs[i]
      BY <1>2, FlattenSeqPrefixes, ZenonT(30)
    <2> DEFINE T == {n \in Nat : n + 1 <= N => \E f : InOrderFrom(f, g[n + 1], seqs, n + 1)}
    <2>2. ASSUME NEW n \in Nat, n + 1 <= N, NEW s \in Seq(S), NEW f, InOrderFrom(f, s, seqs, n)
          PROVE  \E h : InOrderFrom(h, s \o seqs[n + 1], seqs, n + 1)
      <3> DEFINE t == seqs[n + 1]
                 h == [x \in 1..Len(s) + Len(t) |-> IF x <= Len(s) THEN f[x] ELSE n + 1]
      <3>1. n + 1 \in 1..N
        BY <1>0, <2>2
      <3>2. t \in Seq(S) /\ Len(t) \in 0..1
        BY <1>0, <3>1
      <3> HIDE DEF t
      <3>3. /\ f \in [1..Len(s) -> 1..n]
            /\ \A x \in 1..Len(s) : Len(seqs[f[x]]) = 1 /\ s[x] = seqs[f[x]][1]
            /\ \A x, y \in 1..Len(s) : x < y => f[x] < f[y]
        BY <2>2 DEF InOrderFrom
      <3>4. PICK a \in Nat, b \in 0..1 : a = Len(s) /\ b = Len(t)
        BY <3>2
      <3>5. /\ Len(s \o t) = a + b
            /\ \A x \in 1..a : (s \o t)[x] = s[x]
            /\ b = 1 => (s \o t)[a + 1] = t[1]
        BY <3>2, <3>4
      <3>6. \A x \in 1..a + b : x \in 1..a \/ (b = 1 /\ x = a + 1 /\ ~(x <= a))
        OBVIOUS
      <3>7. /\ \A x \in 1..a : h[x] = f[x] /\ h[x] \in 1..n
            /\ b = 1 => h[a + 1] = n + 1
        <4>1. h = [x \in 1..a + b |-> IF x <= a THEN f[x] ELSE n + 1]
          BY <3>4
        <4> HIDE DEF h
        <4>2. \A x \in 1..a : h[x] = f[x]
          BY <4>1
        <4>3. \A x \in 1..a : f[x] \in 1..n
          BY <3>3, <3>4
        <4>4. b = 1 => h[a + 1] = n + 1
          BY <4>1
        <4> QED
          BY <4>2, <4>3, <4>4
      <3>8. h = [x \in 1..a + b |-> h[x]]
        BY <3>4
      <3> HIDE DEF h
      <3>9. ASSUME NEW x \in 1..a + b
            PROVE  /\ h[x] \in 1..n + 1
                   /\ Len(seqs[h[x]]) = 1 /\ (s \o t)[x] = seqs[h[x]][1]
        <4>1. CASE x \in 1..a
          BY <3>3, <3>4, <3>5, <3>7, <4>1
        <4>2. CASE b = 1 /\ x = a + 1
          <5>1. h[x] = n + 1 /\ seqs[h[x]] = t /\ Len(t) = 1
            BY <3>4, <3>7, <4>2 DEF t
          <5> QED
            BY <3>5, <4>2, <5>1
        <4> QED
          BY <3>6, <4>1, <4>2
      <3>10. ASSUME NEW x \in 1..a + b, NEW y \in 1..a + b, x < y PROVE h[x] < h[y]
        <4>1. CASE y \in 1..a
          <5>1. x \in 1..a
            BY <3>10, <4>1
          <5> QED
            BY <3>3, <3>4, <3>7, <3>10, <4>1, <5>1
        <4>2. CASE b = 1 /\ y = a + 1
          <5>1. x \in 1..a
            BY <3>10, <4>2
          <5>2. h[x] \in 1..n /\ h[y] = n + 1
            BY <3>7, <4>2, <5>1
          <5> QED
            BY <5>2
        <4> QED
          BY <3>6, <4>1, <4>2
      <3>11. h \in [1..a + b -> 1..n + 1]
        BY <3>8, <3>9
      <3>12. InOrderFrom(h, s \o t, seqs, n + 1)
        BY <3>5, <3>9, <3>10, <3>11 DEF InOrderFrom
      <3> QED
        BY <3>12 DEF t
    <2>3. 0 \in T
      <3> DEFINE e == [x \in 1..0 |-> 0]
      <3>1. InOrderFrom(e, <<>>, seqs, 0) /\ <<>> \in Seq(S)
        BY DEF InOrderFrom
      <3>2. 0 + 1 <= N /\ 0 + 1 = 1
        BY <1>0, <1>2
      <3>3. \E h : InOrderFrom(h, <<>> \o seqs[0 + 1], seqs, 0 + 1)
        <4> HIDE DEF e
        <4> QED
          BY <2>2, <3>1, <3>2
      <3>4. <<>> \o seqs[1] = g[1]
        <4>1. seqs[1] \in Seq(S)
          BY <1>0, <3>2
        <4> QED
          BY <2>1, <4>1
      <3>5. \E h : InOrderFrom(h, g[0 + 1], seqs, 0 + 1)
        BY <3>2, <3>3, <3>4
      <3> QED
        BY <3>5
    <2>4. ASSUME NEW n \in T PROVE n + 1 \in T
      <3>1. n \in Nat /\ (n + 1 <= N => \E f : InOrderFrom(f, g[n + 1], seqs, n + 1))
        OBVIOUS
      <3>2. ASSUME n + 1 + 1 <= N PROVE \E f : InOrderFrom(f, g[n + 1 + 1], seqs, n + 1 + 1)
        <4>1. n + 1 <= N /\ n + 1 \in Nat /\ n + 1 \in 1..N
          BY <1>0, <3>1, <3>2
        <4>2. PICK f : InOrderFrom(f, g[n + 1], seqs, n + 1)
          BY <3>1, <4>1
        <4>3. g[n + 1] \in Seq(S)
          BY <2>1, <4>1
        <4>4. g[n + 1 + 1] = g[n + 1] \o seqs[n + 1 + 1]
          <5>1. PICK k \in 2..N : k = n + 1 + 1 /\ k - 1 = n + 1
            BY <1>0, <3>1, <3>2
          <5>2. g[k] = g[k - 1] \o seqs[k]
            BY <2>1
          <5> QED
            BY <5>1, <5>2
        <4>5. \E f2 : InOrderFrom(f2, g[n + 1] \o seqs[n + 1 + 1], seqs, n + 1 + 1)
          BY <2>2, <3>2, <4>1, <4>2, <4>3
        <4> QED
          BY <4>4, <4>5
      <3> QED
        BY <3>1, <3>2
    <2>5. N - 1 \in T
      <3> HIDE DEF T
      <3>1. T \subseteq Nat
        BY DEF T
      <3>2. T = Nat
        BY <2>3, <2>4, <3>1, SetInduction
      <3> QED
        BY <1>0, <1>2, <3>2
    <2>6. N - 1 + 1 = N /\ N <= N
      BY <1>0
    <2>7. N - 1 + 1 <= N => \E f : InOrderFrom(f, g[N - 1 + 1], seqs, N - 1 + 1)
      BY <2>5
    <2> QED
      BY <2>1, <2>6, <2>7
  <1> QED
    BY <1>1, <1>2

-----------------------------------------------------------------------------
(* Sums of the first numbers of a sequence, by a function that exists.      *)
Totals(f, s, n) == f = [i \in 0..n |-> IF i = 0 THEN 0 ELSE f[i - 1] + s[i]]

LEMMA TotalsExist ==
  ASSUME NEW s, Len(s) \in Nat
  PROVE  \E f : Totals(f, s, Len(s))
  <1> DEFINE T == {n \in Nat : \E f : Totals(f, s, n)}
  <1>1. 0 \in T
    <2> DEFINE e == [i \in 0..0 |-> 0]
    <2>1. Totals(e, s, 0)
      BY DEF Totals
    <2> QED
      BY <2>1
  <1>2. ASSUME NEW n \in T PROVE n + 1 \in T
    <2>1. PICK f : Totals(f, s, n)
      OBVIOUS
    <2> DEFINE g == [i \in 0..n + 1 |-> IF i = n + 1 THEN f[n] + s[n + 1] ELSE f[i]]
    <2>2. n \in Nat
      OBVIOUS
    <2>3. ASSUME NEW i \in 0..n + 1 PROVE g[i] = IF i = 0 THEN 0 ELSE g[i - 1] + s[i]
      <3>1. CASE i = n + 1
        BY <2>2, <3>1
      <3>2. CASE i \in 1..n
        BY <2>1, <2>2, <3>2 DEF Totals
      <3>3. CASE i = 0
        BY <2>1, <2>2, <3>3 DEF Totals
      <3> QED
        BY <2>2, <3>1, <3>2, <3>3
    <2> HIDE DEF g
    <2>4. g = [i \in 0..n + 1 |-> g[i]]
      BY DEF g
    <2>5. Totals(g, s, n + 1)
      BY <2>3, <2>4 DEF Totals
    <2> QED
      BY <2>2, <2>5
  <1>3. T = Nat
    <2> HIDE DEF T
    <2>1. T \subseteq Nat
      BY DEF T
    <2> QED
      BY <1>1, <1>2, <2>1, SetInduction
  <1> QED
    BY <1>3

(* The same of lengths: t[i] is where part i of what is put together ends.  *)
Prefix(t, w, n) == t[0] = 0 /\ \A i \in 1..n : t[i] = t[i - 1] + w[i]

LEMMA PrefixExists ==
  ASSUME NEW w, NEW n \in Nat, Len(w) = n
  PROVE  \E t : Prefix(t, w, n)
  <1>1. PICK t : Totals(t, w, n)
    BY TotalsExist
  <1>2. \A i \in 0..n : t[i] = IF i = 0 THEN 0 ELSE t[i - 1] + w[i]
    BY <1>1 DEF Totals
  <1> QED
    BY <1>2 DEF Prefix

Alike(w, l, n) == \A i \in 1..n : w[i] = l[i]

LEMMA SamePrefix ==
  ASSUME NEW n \in Nat, NEW w, NEW l, Alike(w, l, n),
         NEW t, Prefix(t, w, n), NEW u, Prefix(u, l, n)
  PROVE  t[n] = u[n]
  <1> DEFINE T == {i \in Nat : i <= n => t[i] = u[i]}
  <1>1. 0 \in T
    BY DEF Prefix
  <1>2. ASSUME NEW i \in T PROVE i + 1 \in T
    <2>1. CASE i + 1 <= n
      <3>1. i \in Nat /\ i + 1 \in 1..n /\ i + 1 - 1 = i
        BY <2>1
      <3>2. t[i + 1] = t[i] + w[i + 1] /\ u[i + 1] = u[i] + w[i + 1] /\ t[i] = u[i]
        BY <2>1, <3>1 DEF Prefix, Alike
      <3> QED
        BY <3>1, <3>2
    <2> QED
      BY <2>1
  <1>3. T = Nat
    <2> HIDE DEF T
    <2>1. T \subseteq Nat
      BY DEF T
    <2> QED
      BY <1>1, <1>2, <2>1, SetInduction
  <1> QED
    BY <1>3

LEMMA PrefixType ==
  ASSUME NEW n \in Nat, NEW w, \A i \in 1..n : w[i] \in Nat, NEW t, Prefix(t, w, n)
  PROVE  \A i \in 0..n : t[i] \in Nat
  <1> DEFINE T == {i \in Nat : i <= n => t[i] \in Nat}
  <1>1. 0 \in T
    BY DEF Prefix
  <1>2. ASSUME NEW i \in T PROVE i + 1 \in T
    <2>1. CASE i + 1 <= n
      <3>1. i \in Nat /\ i + 1 \in 1..n /\ i + 1 - 1 = i
        BY <2>1
      <3>2. t[i + 1] = t[i] + w[i + 1] /\ t[i] \in Nat /\ w[i + 1] \in Nat
        BY <2>1, <3>1 DEF Prefix
      <3> QED
        BY <3>1, <3>2
    <2> QED
      BY <2>1
  <1>3. T = Nat
    <2> HIDE DEF T
    <2>1. T \subseteq Nat
      BY DEF T
    <2> QED
      BY <1>1, <1>2, <2>1, SetInduction
  <1> QED
    BY <1>3

(* Longer parts end no sooner.                                             *)
LEMMA LaterPrefix ==
  ASSUME NEW n \in Nat, NEW w, NEW l, \A i \in 1..n : w[i] \in Nat /\ l[i] \in Nat /\ w[i] <= l[i],
         NEW t, Prefix(t, w, n), NEW u, Prefix(u, l, n)
  PROVE  t[n] <= u[n]
  <1> DEFINE T == {m \in Nat : m <= n => t[m] <= u[m]}
  <1>0. \A i \in 0..n : t[i] \in Nat /\ u[i] \in Nat
    BY PrefixType
  <1>1. 0 \in T
    BY DEF Prefix
  <1>2. ASSUME NEW m \in T PROVE m + 1 \in T
    <2>1. CASE m + 1 <= n
      <3>1. m \in Nat /\ m \in 0..n /\ m + 1 \in 1..n /\ m + 1 - 1 = m
        BY <2>1
      <3>2. /\ t[m + 1] = t[m] + w[m + 1] /\ u[m + 1] = u[m] + l[m + 1]
            /\ t[m] \in Nat /\ u[m] \in Nat /\ w[m + 1] \in Nat /\ l[m + 1] \in Nat /\ w[m + 1] <= l[m + 1]
        BY <1>0, <3>1 DEF Prefix
      <3>3. t[m] <= u[m]
        BY <2>1, <3>1
      <3> QED
        BY <3>1, <3>2, <3>3
    <2> QED
      BY <2>1
  <1>3. T = Nat
    <2> HIDE DEF T
    <2>1. T \subseteq Nat
      BY DEF T
    <2> QED
      BY <1>1, <1>2, <2>1, SetInduction
  <1> QED
    BY <1>3

(* Where every part has at least its width and all of them together have no *)
(* more, each has just its width.                                           *)
LEMMA NoneIsLonger ==
  ASSUME NEW n \in Nat, NEW w, NEW l, \A i \in 1..n : w[i] \in Nat /\ l[i] \in Nat /\ w[i] <= l[i],
         NEW t, Prefix(t, w, n), NEW u, Prefix(u, l, n), t[n] = u[n]
  PROVE  Alike(w, l, n)
  <1> DEFINE T == {m \in Nat : m <= n => t[m] <= u[m] /\ \A i \in 1..m : l[i] - w[i] <= u[m] - t[m]}
  <1>0. \A i \in 0..n : t[i] \in Nat /\ u[i] \in Nat
    BY PrefixType
  <1>1. 0 \in T
    BY DEF Prefix
  <1>2. ASSUME NEW m \in T PROVE m + 1 \in T
    <2>1. CASE m + 1 <= n
      <3>1. m \in Nat /\ m \in 0..n /\ m + 1 \in 1..n /\ m + 1 - 1 = m
        BY <2>1
      <3>2. /\ t[m + 1] = t[m] + w[m + 1] /\ u[m + 1] = u[m] + l[m + 1]
            /\ t[m] \in Nat /\ u[m] \in Nat /\ w[m + 1] \in Nat /\ l[m + 1] \in Nat /\ w[m + 1] <= l[m + 1]
        BY <1>0, <3>1 DEF Prefix
      <3>3. t[m] <= u[m] /\ \A i \in 1..m : l[i] - w[i] <= u[m] - t[m]
        BY <2>1, <3>1
      <3>4. ASSUME NEW i \in 1..m + 1 PROVE l[i] - w[i] <= u[m + 1] - t[m + 1]
        <4>1. l[i] \in Nat /\ w[i] \in Nat
          BY <3>1
        <4>2. CASE i = m + 1
          BY <3>2, <3>3, <4>1, <4>2
        <4>3. CASE i \in 1..m
          <5>1. l[i] - w[i] <= u[m] - t[m]
            BY <3>3, <4>3
          <5> QED
            BY <3>2, <4>1, <5>1
        <4> QED
          BY <3>1, <4>2, <4>3
      <3> QED
        BY <3>1, <3>2, <3>3, <3>4
    <2> QED
      BY <2>1
  <1>3. T = Nat
    <2> HIDE DEF T
    <2>1. T \subseteq Nat
      BY DEF T
    <2> QED
      BY <1>1, <1>2, <2>1, SetInduction
  <1>4. \A i \in 1..n : l[i] - w[i] <= u[n] - t[n]
    BY <1>3
  <1> QED
    BY <1>0, <1>4 DEF Alike
=============================================================================
