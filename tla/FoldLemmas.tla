----------------------------- MODULE FoldLemmas -----------------------------
(***************************************************************************)
(* What the folds the models are built from compute, for sequences of any  *)
(* length: concatenating a sequence of sequences, and sums.  By induction: *)
(* a set of naturals that is not empty has a least element, so the numbers *)
(* for which a statement fails have none.                                  *)
(***************************************************************************)
EXTENDS Integers, Sequences, SequencesExt, SequenceTheorems, WellFoundedInduction, TLAPS

-----------------------------------------------------------------------------
(* Induction, and concatenating a sequence of sequences.                   *)

LEMMA LeastNat ==
    ASSUME NEW S \in SUBSET Nat, S # {}
    PROVE  \E m \in S : \A n \in S : m <= n
<1> DEFINE Less == {p \in Nat \X Nat : p[1] < p[2]}
<1>1. IsWellFoundedOn(Less, Nat)
  BY NatLessThanWellFounded DEF OpToRel
<1>2. \A m, n \in Nat : n < m => <<n, m>> \in Less
  OBVIOUS
<1> HIDE DEF Less
<1>3. PICK m \in S : \A n \in S : ~ (<<n, m>> \in Less)
  BY <1>1, WFMin
<1>4. ASSUME NEW n \in S PROVE m <= n
  <2>1. m \in Nat /\ n \in Nat /\ ~ (<<n, m>> \in Less)
    BY <1>3
  <2>2. ~ (n < m)
    BY <1>2, <2>1
  <2> QED
    BY <2>1, <2>2
<1> QED
  BY <1>4

(* Induction over the naturals, with a set for the property. *)
LEMMA NatInductionBySet ==
    ASSUME NEW Good, 0 \in Good, \A n \in Nat : n \in Good => n + 1 \in Good
    PROVE  Nat \subseteq Good
<1> SUFFICES ASSUME Nat \ Good # {} PROVE FALSE
  OBVIOUS
<1>1. PICK m \in Nat \ Good : \A n \in Nat \ Good : m <= n
  BY LeastNat
<1>2. m \in Nat /\ m # 0 /\ m - 1 \in Nat /\ ~ (m <= m - 1)
  BY <1>1
<1>3. m - 1 \in Good
  BY <1>1, <1>2
<1>4. (m - 1) + 1 \in Good
  BY <1>2, <1>3
<1> QED
  BY <1>1, <1>2, <1>4

(* Concatenation, for the provers to take as it is. *)
Join(s, t) == s \o t

LEMMA JoinFacts ==
    ASSUME NEW S, NEW s \in Seq(S), NEW t \in Seq(S), NEW u \in Seq(S)
    PROVE  /\ Join(s, t) \in Seq(S)
           /\ Join(Join(s, t), u) = Join(s, Join(t, u))
           /\ Join(s, <<>>) = s /\ Join(<<>>, s) = s
<1>1. Join(s, t) \in Seq(S)
  BY ConcatProperties DEF Join
<1>2. Join(Join(s, t), u) = Join(s, Join(t, u))
  BY ConcatAssociative, SMTT(30) DEF Join
<1>3. Join(s, <<>>) = s /\ Join(<<>>, s) = s
  BY ConcatEmptySeq DEF Join
<1> QED
  BY <1>1, <1>2, <1>3

LEMMA JoinIndices ==
    ASSUME NEW S, NEW s \in Seq(S), NEW t \in Seq(S)
    PROVE  /\ Len(Join(s, t)) = Len(s) + Len(t)
           /\ \A i \in 1..Len(s) : Join(s, t)[i] = s[i]
           /\ \A i \in 1..Len(t) : Join(s, t)[Len(s) + i] = t[i]
BY ConcatProperties DEF Join

(* What FlattenSeq puts together on the way to its result. *)
Flattens(ss, n, f) == f[1] = ss[1] /\ \A i \in 2..n : f[i] = Join(f[i - 1], ss[i])

LEMMA FlattenExists ==
    ASSUME NEW S, NEW ss \in Seq(Seq(S)), NEW n \in 1..Len(ss)
    PROVE  \E f \in [1..n -> Seq(S)] : Flattens(ss, n, f)
<1> DEFINE Has(k) == k \in 1..Len(ss) => \E f \in [1..k -> Seq(S)] : Flattens(ss, k, f)
           Good == {k \in Nat : Has(k)}
<1>1. \A i \in 1..Len(ss) : ss[i] \in Seq(S)
  BY ElementOfSeq
<1>2. ASSUME NEW k \in Nat, Has(k), k + 1 \in 1..Len(ss)
      PROVE  \E f \in [1..(k + 1) -> Seq(S)] : Flattens(ss, k + 1, f)
  <2>1. CASE k = 0
    <3>1. Flattens(ss, 1, [i \in 1..1 |-> ss[1]])
      BY DEF Flattens
    <3>2. [i \in 1..1 |-> ss[1]] \in [1..1 -> Seq(S)]
      BY <1>1, <1>2, <2>1
    <3> QED
      BY <2>1, <3>1, <3>2
  <2>2. CASE k # 0
    <3>1. PICK f \in [1..k -> Seq(S)] : Flattens(ss, k, f)
      BY <1>2, <2>2
    <3>2. PICK new \in Seq(S) : new = Join(f[k], ss[k + 1])
      BY <1>1, <1>2, <2>2, JoinFacts
    <3> DEFINE g == [i \in 1..(k + 1) |-> IF i \in 1..k THEN f[i] ELSE new]
    <3>3. g \in [1..(k + 1) -> Seq(S)]
      OBVIOUS
    <3>4. \A i \in 1..k : g[i] = f[i]
      OBVIOUS
    <3>5. g[k + 1] = Join(f[k], ss[k + 1])
      BY <3>2
    <3> HIDE DEF g
    <3>6. g[1] = ss[1]
      BY <2>2, <3>1, <3>4 DEF Flattens
    <3>7. ASSUME NEW i \in 2..(k + 1) PROVE g[i] = Join(g[i - 1], ss[i])
      <4>1. CASE i = k + 1
        BY <2>2, <3>4, <3>5, <4>1
      <4>2. CASE i # k + 1
        <5>1. i \in 2..k /\ i \in 1..k /\ i - 1 \in 1..k
          BY <4>2
        <5> QED
          BY <3>1, <3>4, <5>1 DEF Flattens
      <4> QED
        BY <4>1, <4>2
    <3> QED
      BY <3>3, <3>6, <3>7 DEF Flattens
  <2> QED
    BY <2>1, <2>2
<1>3. ASSUME NEW k \in Nat, k \in Good PROVE k + 1 \in Good
  <2>1. k + 1 \in Nat
    OBVIOUS
  <2>2. Has(k + 1)
    BY <1>2, <1>3, Zenon
  <2> QED
    BY <2>1, <2>2, Zenon
<1>4. 0 \in Good
  OBVIOUS
<1> HIDE DEF Has
<1>5. Nat \subseteq Good
  BY <1>3, <1>4, NatInductionBySet
<1>6. Has(n)
  BY <1>5
<1> QED
  BY <1>6 DEF Has

Agree(ss, tt, n) == \A i \in 1..n : ss[i] = tt[i]

LEMMA FlattenSame ==
    ASSUME NEW n \in Nat, NEW ss, NEW tt, Agree(ss, tt, n),
           NEW f, Flattens(ss, n, f), NEW g, Flattens(tt, n, g)
    PROVE  Agree(f, g, n)
<1> DEFINE Good == {k \in Nat : k \in 1..n => f[k] = g[k]}
<1>1. ASSUME NEW k \in Nat, k \in Good PROVE k + 1 \in Good
  <2> SUFFICES ASSUME k + 1 \in 1..n PROVE f[k + 1] = g[k + 1]
    OBVIOUS
  <2>1. CASE k = 0
    BY <2>1 DEF Flattens, Agree
  <2>2. CASE k # 0
    <3>1. k \in 1..n /\ k + 1 \in 2..n /\ (k + 1) - 1 = k
      BY <2>2
    <3>2. f[k] = g[k] /\ ss[k + 1] = tt[k + 1]
      BY <1>1, <3>1 DEF Agree
    <3>3. f[k + 1] = Join(f[k], ss[k + 1]) /\ g[k + 1] = Join(g[k], tt[k + 1])
      BY <3>1 DEF Flattens
    <3> QED
      BY <3>2, <3>3
  <2> QED
    BY <2>1, <2>2
<1>2. 0 \in Good
  OBVIOUS
<1>3. Nat \subseteq Good
  BY <1>1, <1>2, NatInductionBySet
<1> QED
  BY <1>3 DEF Agree

LEMMA FlattenIs ==
    ASSUME NEW S, NEW ss \in Seq(Seq(S)), Len(ss) # 0,
           NEW f \in [1..Len(ss) -> Seq(S)], Flattens(ss, Len(ss), f)
    PROVE  FlattenSeq(ss) = f[Len(ss)]
<1> DEFINE Step(h) == [i \in 1..Len(ss) |-> IF i = 1 THEN ss[i] ELSE h[i - 1] \o ss[i]]
           c == CHOOSE h : h = Step(h)
<1>1. Len(ss) \in Nat /\ Len(ss) \in 1..Len(ss) /\ 1 \in 1..Len(ss)
  OBVIOUS
<1>2. ASSUME NEW i \in 1..Len(ss)
      PROVE  f[i] = IF i = 1 THEN ss[i] ELSE Join(f[i - 1], ss[i])
  BY DEF Flattens
<1>3. f = Step(f)
  <2>1. f = [i \in 1..Len(ss) |-> IF i = 1 THEN ss[i] ELSE Join(f[i - 1], ss[i])]
    BY <1>2
  <2> QED
    BY <2>1, Zenon DEF Join
<1>4. FlattenSeq(ss) = c[Len(ss)]
  BY DEF FlattenSeq
<1>5. c = Step(c)
  BY <1>3, Zenon
<1> HIDE DEF c
<1>6. c[1] = ss[1] /\ \A i \in 2..Len(ss) : c[i] = Join(c[i - 1], ss[i])
  <2>1. \A i \in 1..Len(ss) : c[i] = IF i = 1 THEN ss[i] ELSE Join(c[i - 1], ss[i])
    BY <1>5, Zenon DEF Join
  <2>2. ASSUME NEW i \in 2..Len(ss) PROVE i \in 1..Len(ss) /\ i # 1
    OBVIOUS
  <2> QED
    BY <1>1, <2>1, <2>2, Zenon
<1>7. Flattens(ss, Len(ss), c)
  BY <1>6 DEF Flattens
<1>8. c[Len(ss)] = f[Len(ss)]
  BY <1>1, <1>7, FlattenSame DEF Agree
<1> QED
  BY <1>4, <1>8

LEMMA FlattenTyped ==
    ASSUME NEW S, NEW ss \in Seq(Seq(S))
    PROVE  FlattenSeq(ss) \in Seq(S)
<1>1. CASE Len(ss) = 0
  <2>1. FlattenSeq(ss) = ss /\ ss = <<>>
    BY <1>1, EmptySeq DEF FlattenSeq
  <2> QED
    BY <2>1, EmptySeq
<1>2. CASE Len(ss) # 0
  <2>1. Len(ss) \in 1..Len(ss)
    BY <1>2
  <2>2. PICK f \in [1..Len(ss) -> Seq(S)] : Flattens(ss, Len(ss), f)
    BY <2>1, FlattenExists
  <2>3. FlattenSeq(ss) = f[Len(ss)]
    BY <1>2, <2>2, FlattenIs
  <2> QED
    BY <2>1, <2>3
<1> QED
  BY <1>1, <1>2

LEMMA FlattenEmpty == FlattenSeq(<<>>) = <<>>
BY DEF FlattenSeq

LEMMA FlattenOne ==
    ASSUME NEW S, NEW s \in Seq(S)
    PROVE  FlattenSeq(<<s>>) = s
<1> DEFINE T == Seq(S)
<1> HIDE DEF T
<1>0. s \in T
  BY DEF T
<1>1. PICK ss \in Seq(T) : ss = <<s>> /\ Len(ss) = 1 /\ ss[1] = s
  <2>1. <<s>> \in Seq(T)
    BY <1>0
  <2>2. Len(<<s>>) = 1 /\ <<s>>[1] = s
    OBVIOUS
  <2> QED
    BY <2>1, <2>2, Zenon
<1> USE DEF T
<1>2. PICK f \in [1..Len(ss) -> Seq(S)] : f = [i \in 1..Len(ss) |-> s]
  OBVIOUS
<1>3. Flattens(ss, Len(ss), f) /\ f[Len(ss)] = s
  BY <1>1, <1>2 DEF Flattens
<1>4. FlattenSeq(ss) = f[Len(ss)]
  <2>1. Len(ss) # 0
    BY <1>1
  <2> QED
    BY <1>3, <2>1, FlattenIs
<1> QED
  BY <1>1, <1>3, <1>4

(* What is flattened in two parts. *)
LEMMA FlattenConcat ==
    ASSUME NEW S, NEW ss \in Seq(Seq(S)), NEW tt \in Seq(Seq(S))
    PROVE  FlattenSeq(Join(ss, tt)) = Join(FlattenSeq(ss), FlattenSeq(tt))
<1> DEFINE m == Len(ss)
           n == Len(tt)
<1>1. m \in Nat /\ n \in Nat
  OBVIOUS
<1>2. PICK all \in Seq(Seq(S)) : all = Join(ss, tt)
  BY JoinFacts
<1>3. /\ Len(all) = m + n
      /\ \A i \in 1..m : all[i] = ss[i]
      /\ \A i \in 1..n : all[m + i] = tt[i]
  BY <1>2 DEF Join
<1>4. FlattenSeq(ss) \in Seq(S) /\ FlattenSeq(tt) \in Seq(S)
  BY FlattenTyped
<1>8. \A a, b, c \in Seq(S) : Join(Join(a, b), c) = Join(a, Join(b, c))
  BY JoinFacts
<1>5. CASE m = 0
  <2>1. ss = <<>> /\ FlattenSeq(ss) = <<>>
    BY <1>5, EmptySeq, FlattenEmpty
  <2>2. Join(ss, tt) = tt
    BY <2>1, JoinFacts
  <2> QED
    BY <1>4, <2>1, <2>2, JoinFacts
<1>6. CASE n = 0
  <2>1. tt = <<>> /\ FlattenSeq(tt) = <<>>
    BY <1>6, EmptySeq, FlattenEmpty
  <2>2. Join(ss, tt) = ss
    BY <2>1, JoinFacts
  <2> QED
    BY <1>4, <2>1, <2>2, JoinFacts
<1>7. CASE m # 0 /\ n # 0
  <2>1. m \in 1..m /\ n \in 1..n /\ m + n \in 1..(m + n) /\ Len(all) \in 1..Len(all)
    BY <1>1, <1>3, <1>7
  <2>2. PICK f \in [1..m -> Seq(S)] : Flattens(ss, m, f)
    BY <2>1, FlattenExists
  <2>3. PICK g \in [1..n -> Seq(S)] : Flattens(tt, n, g)
    BY <2>1, FlattenExists
  <2>4. PICK h \in [1..(m + n) -> Seq(S)] : Flattens(all, m + n, h)
    BY <2>1, <1>3, FlattenExists
  <2>5. FlattenSeq(ss) = f[m] /\ FlattenSeq(tt) = g[n] /\ FlattenSeq(all) = h[m + n]
    <3>1. FlattenSeq(ss) = f[m]
      BY <1>7, <2>2, FlattenIs
    <3>2. FlattenSeq(tt) = g[n]
      BY <1>7, <2>3, FlattenIs
    <3>3. FlattenSeq(all) = h[m + n]
      <4>1. h \in [1..Len(all) -> Seq(S)] /\ Flattens(all, Len(all), h) /\ Len(all) # 0
        BY <1>1, <1>3, <1>7, <2>4
      <4>2. FlattenSeq(all) = h[Len(all)]
        BY <4>1, FlattenIs
      <4> QED
        BY <1>3, <4>2
    <3> QED
      BY <3>1, <3>2, <3>3
  <2> HIDE DEF m, n
  <2>6. h[m] = f[m]
    <3>1. Flattens(all, m, h)
      BY <1>1, <2>1, <2>4 DEF Flattens
    <3>2. Agree(all, ss, m)
      BY <1>3 DEF Agree
    <3>3. Agree(h, f, m)
      BY <1>1, <2>2, <3>1, <3>2, FlattenSame
    <3> QED
      BY <2>1, <3>3 DEF Agree
  <2> DEFINE Good == {k \in Nat : k \in 1..n => h[m + k] = Join(f[m], g[k])}
  <2>7. 0 \in Good
    OBVIOUS
  <2>8. ASSUME NEW k \in Nat, k \in Good PROVE k + 1 \in Good
    <3> SUFFICES ASSUME k + 1 \in 1..n PROVE h[m + (k + 1)] = Join(f[m], g[k + 1])
      OBVIOUS
    <3>1. /\ m + (k + 1) \in 2..(m + n) /\ (m + (k + 1)) - 1 = m + k
          /\ all[m + (k + 1)] = tt[k + 1]
      BY <1>1, <1>3, <2>1
    <3>2. h[m + (k + 1)] = Join(h[m + k], tt[k + 1])
      BY <2>4, <3>1 DEF Flattens
    <3>3. CASE k = 0
      <4>1. g[k + 1] = tt[k + 1] /\ h[m + k] = f[m]
        BY <1>1, <2>3, <2>6, <3>3 DEF Flattens
      <4> QED
        BY <3>2, <4>1
    <3>4. CASE k # 0
      <4>1. k \in 1..n /\ k + 1 \in 2..n /\ (k + 1) - 1 = k
        BY <1>1, <3>4
      <4>2. h[m + k] = Join(f[m], g[k])
        BY <2>8, <4>1
      <4>3. g[k + 1] = Join(g[k], tt[k + 1])
        BY <2>3, <4>1 DEF Flattens
      <4>4. f[m] \in Seq(S) /\ g[k] \in Seq(S) /\ tt[k + 1] \in Seq(S)
        BY <2>1, <4>1, ElementOfSeq DEF n
      <4>5. Join(Join(f[m], g[k]), tt[k + 1]) = Join(f[m], Join(g[k], tt[k + 1]))
        BY <1>8, <4>4
      <4> QED
        BY <3>2, <4>2, <4>3, <4>5
    <3> QED
      BY <3>3, <3>4
  <2>9. Nat \subseteq Good
    BY <2>7, <2>8, NatInductionBySet
  <2>10. h[m + n] = Join(f[m], g[n])
    BY <1>1, <2>1, <2>9
  <2> QED
    BY <1>2, <2>5, <2>10
<1> QED
  BY <1>5, <1>6, <1>7

-----------------------------------------------------------------------------
(* Sums: FoldLeft folds over the set of indices, the greatest last.         *)

LEMMA MaxIs ==
    ASSUME NEW s \in SUBSET Int, NEW m \in s, \A x \in s : m >= x
    PROVE  Max(s) = m
<1>1. ASSUME NEW k \in s, \A x \in s : k >= x PROVE k = m
  BY <1>1
<1> QED
  BY <1>1 DEF Max

LEMMA MaxIn ==
    ASSUME NEW n \in Nat, NEW s \in SUBSET (1..n), s # {}
    PROVE  Max(s) \in s
<1> DEFINE below == {k \in Nat : n - k \in s}
<1>1. PICK x \in s : x \in 1..n
  OBVIOUS
<1>2. n - x \in below
  BY <1>1
<1>3. PICK m \in below : \A k \in below : m <= k
  BY <1>2, LeastNat
<1>4. n - m \in s /\ m \in Nat
  BY <1>3
<1>5. ASSUME NEW y \in s PROVE n - m >= y
  <2>1. y \in 1..n /\ n - y \in Nat /\ n - (n - y) = y
    OBVIOUS
  <2>2. n - y \in below
    BY <2>1
  <2> HIDE DEF below
  <2>3. m <= n - y
    BY <1>3, <2>2
  <2> QED
    BY <1>4, <2>1, <2>3
<1>6. Max(s) = n - m
  <2>1. s \in SUBSET Int
    OBVIOUS
  <2> HIDE DEF below
  <2> QED
    BY <1>4, <1>5, <2>1, MaxIs
<1> QED
  BY <1>4, <1>6

Folds(w, n, f) ==
    f = [s \in SUBSET (1..n) |-> IF s = {} THEN 0 ELSE f[s \ {Max(s)}] + w[Max(s)]]

LEMMA FoldsExist ==
    ASSUME NEW w, NEW n \in Nat
    PROVE  \E f : Folds(w, n, f)
<1> DEFINE Good == {k \in Nat : \E f : Folds(w, k, f)}
<1>1. 0 \in Good
  <2>1. SUBSET (1..0) = {{}}
    OBVIOUS
  <2>2. Folds(w, 0, [s \in SUBSET (1..0) |-> 0])
    BY <2>1 DEF Folds
  <2> QED
    BY <2>2
<1>2. ASSUME NEW k \in Nat, k \in Good PROVE k + 1 \in Good
  <2>1. PICK f : Folds(w, k, f)
    BY <1>2
  <2> DEFINE g == [s \in SUBSET (1..(k + 1)) |->
                      IF s \in SUBSET (1..k) THEN f[s]
                      ELSE f[s \ {k + 1}] + w[k + 1]]
  <2>2. ASSUME NEW s \in SUBSET (1..(k + 1))
        PROVE  g[s] = IF s = {} THEN 0 ELSE g[s \ {Max(s)}] + w[Max(s)]
    <3>1. \A r \in SUBSET (1..k) : r \in SUBSET (1..(k + 1)) /\ g[r] = f[r]
      <4>1. 1..k \subseteq 1..(k + 1)
        OBVIOUS
      <4> QED
        BY <4>1
    <3>2. CASE s \in SUBSET (1..k)
      <4>1. s \ {Max(s)} \in SUBSET (1..k)
        BY <3>2
      <4>2. f[s] = IF s = {} THEN 0 ELSE f[s \ {Max(s)}] + w[Max(s)]
        BY <2>1, <3>2, Zenon DEF Folds
      <4> HIDE DEF g
      <4> QED
        BY <3>1, <3>2, <4>1, <4>2
    <3>3. CASE s \notin SUBSET (1..k)
      <4>1. k + 1 \in s /\ \A x \in s : x \in Int /\ k + 1 >= x
        BY <3>3
      <4>2. Max(s) = k + 1
        BY <4>1, MaxIs
      <4>3. s # {} /\ s \ {k + 1} \in SUBSET (1..k)
        BY <4>1
      <4>4. g[s] = f[s \ {k + 1}] + w[k + 1]
        BY <3>3
      <4> HIDE DEF g
      <4> QED
        BY <3>1, <4>2, <4>3, <4>4
    <3> QED
      BY <3>2, <3>3
  <2>3. g = [s \in SUBSET (1..(k + 1)) |-> g[s]]
    OBVIOUS
  <2> HIDE DEF g
  <2>4. Folds(w, k + 1, g)
    BY <2>2, <2>3, Zenon DEF Folds
  <2>5. k + 1 \in Nat
    OBVIOUS
  <2> QED
    BY <2>4, <2>5, Zenon
<1> HIDE DEF Good
<1>3. Nat \subseteq Good
  BY <1>1, <1>2, NatInductionBySet
<1> QED
  BY <1>3 DEF Good

(* The sums of the beginnings of a sequence of naturals. *)
Sums(w, n, f) == f[0] = 0 /\ \A i \in 1..n : f[i] = f[i - 1] + w[i]

Total(w) == (CHOOSE f : Folds(w, Len(w), f))[1..Len(w)]

LEMMA FoldSums ==
    ASSUME NEW w \in Seq(Nat), NEW c, Folds(w, Len(w), c)
    PROVE  \E f \in [0..Len(w) -> Nat] : Sums(w, Len(w), f) /\ c[1..Len(w)] = f[Len(w)]
<1> DEFINE n == Len(w)
           u == [i \in 0..n |-> c[1..i]]
<1>1. n \in Nat /\ \A i \in 1..n : w[i] \in Nat
  OBVIOUS
<1>2. Folds(w, n, c)
  OBVIOUS
<1> HIDE DEF n
<1>4. c[{}] = 0
  BY <1>2 DEF Folds
<1>5. ASSUME NEW i \in 1..n PROVE c[1..i] = c[1..(i - 1)] + w[i]
  <2>0. i \in Nat /\ i >= 1 /\ i <= n
    BY <1>1
  <2>1. 1..i \in SUBSET (1..n) /\ 1..i # {}
    <3>1. \A x \in 1..i : x \in 1..n
      BY <1>1, <2>0
    <3>2. i \in 1..i
      BY <2>0
    <3> QED
      BY <3>1, <3>2
  <2>2. Max(1..i) = i
    <3>1. 1..i \in SUBSET Int /\ i \in 1..i /\ \A x \in 1..i : i >= x
      BY <2>0
    <3> QED
      BY <3>1, MaxIs
  <2>3. (1..i) \ {i} = 1..(i - 1)
    BY <1>1
  <2>4. c[1..i] = c[(1..i) \ {Max(1..i)}] + w[Max(1..i)]
    BY <1>2, <2>1, Zenon DEF Folds
  <2> QED
    BY <2>2, <2>3, <2>4
<1>6. 1..0 = {}
  OBVIOUS
<1>7. u[0] = 0 /\ \A i \in 1..n : u[i] = u[i - 1] + w[i]
  BY <1>1, <1>4, <1>5, <1>6
<1>8. u[n] = c[1..n]
  BY <1>1
<1>9. u \in [0..n -> Nat]
  <2> DEFINE Good == {k \in Nat : k \in 0..n => c[1..k] \in Nat}
  <2>1. 0 \in Good
    BY <1>4, <1>6
  <2>2. ASSUME NEW k \in Nat, k \in Good PROVE k + 1 \in Good
    <3> SUFFICES ASSUME k + 1 \in 0..n PROVE c[1..(k + 1)] \in Nat
      OBVIOUS
    <3>1. k + 1 \in 1..n /\ k \in 0..n /\ (k + 1) - 1 = k
      BY <1>1
    <3>2. c[1..k] \in Nat
      BY <2>2, <3>1
    <3>3. w[k + 1] \in Nat
      BY <1>1, <3>1
    <3>4. c[1..(k + 1)] = c[1..k] + w[k + 1]
      BY <1>5, <3>1
    <3> QED
      BY <3>2, <3>3, <3>4
  <2>3. Nat \subseteq Good
    BY <2>1, <2>2, NatInductionBySet
  <2> QED
    BY <1>1, <2>3
<1> HIDE DEF u
<1> QED
  BY <1>7, <1>8, <1>9 DEF n, Sums

LEMMA TotalSums ==
    ASSUME NEW w \in Seq(Nat)
    PROVE  \E f \in [0..Len(w) -> Nat] : Sums(w, Len(w), f) /\ Total(w) = f[Len(w)]
<1> DEFINE c == CHOOSE f : Folds(w, Len(w), f)
<1>1. Len(w) \in Nat
  OBVIOUS
<1>2. Folds(w, Len(w), c)
  BY <1>1, FoldsExist
<1>3. Total(w) = c[1..Len(w)]
  BY DEF Total
<1> HIDE DEF c
<1> QED
  BY <1>2, <1>3, FoldSums

(* From m on, g rises by the terms of w. *)
Rises(w, n, m, g) == \A i \in 1..n : g[m + i] = g[(m + i) - 1] + w[i]

LEMMA RisesBySums ==
    ASSUME NEW w \in Seq(Nat), NEW m \in Nat, NEW f \in [0..Len(w) -> Nat], NEW g,
           Sums(w, Len(w), f), Rises(w, Len(w), m, g), g[m] \in Nat
    PROVE  g[m + Len(w)] = g[m] + f[Len(w)]
<1> DEFINE n == Len(w)
<1>0. /\ n \in Nat /\ f \in [0..n -> Nat] /\ \A i \in 1..n : w[i] \in Nat
      /\ Sums(w, n, f) /\ Rises(w, n, m, g)
  OBVIOUS
<1> HIDE DEF n
<1> DEFINE Good == {k \in Nat : k \in 0..n => g[m + k] = g[m] + f[k]}
<1>1. 0 \in Good
  <2>1. m + 0 = m /\ f[0] = 0
    BY <1>0 DEF Sums
  <2> QED
    BY <2>1
<1>2. ASSUME NEW k \in Nat, k \in Good PROVE k + 1 \in Good
  <2> SUFFICES ASSUME k + 1 \in 0..n PROVE g[m + (k + 1)] = g[m] + f[k + 1]
    OBVIOUS
  <2>1. k + 1 \in 1..n /\ k \in 0..n /\ (k + 1) - 1 = k /\ (m + (k + 1)) - 1 = m + k
    BY <1>0
  <2>2. g[m + k] = g[m] + f[k]
    BY <1>2, <2>1
  <2>3. g[m + (k + 1)] = g[m + k] + w[k + 1]
    BY <1>0, <2>1 DEF Rises
  <2>4. f[k + 1] = f[k] + w[k + 1]
    BY <1>0, <2>1 DEF Sums
  <2>5. f[k] \in Nat /\ w[k + 1] \in Nat
    BY <1>0, <2>1
  <2> QED
    BY <2>2, <2>3, <2>4, <2>5
<1>3. Nat \subseteq Good
  BY <1>1, <1>2, NatInductionBySet
<1> QED
  BY <1>0, <1>3 DEF n

LEMMA RisesFromZero ==
    ASSUME NEW w, NEW n \in Nat, NEW f, \A i \in 1..n : f[i] = f[i - 1] + w[i]
    PROVE  Rises(w, n, 0, f)
<1>1. \A i \in 1..n : 0 + i = i
  OBVIOUS
<1> QED
  BY <1>1 DEF Rises

LEMMA TotalOfFold ==
    ASSUME NEW w \in Seq(Nat), NEW c, Folds(w, Len(w), c)
    PROVE  c[1..Len(w)] = Total(w)
<1> DEFINE n == Len(w)
<1>1. PICK f \in [0..n -> Nat] : Sums(w, n, f) /\ Total(w) = f[n]
  BY TotalSums
<1>2. PICK g \in [0..n -> Nat] : Sums(w, n, g) /\ c[1..n] = g[n]
  BY FoldSums
<1>3. n \in Nat /\ \A i \in 1..n : w[i] \in Nat
  OBVIOUS
<1> HIDE DEF n
<1>4. Rises(w, n, 0, g) /\ g[0] = 0
  BY <1>2, <1>3, RisesFromZero DEF Sums
<1>5. g[0 + n] = g[0] + f[n]
  <2>1. /\ w \in Seq(Nat) /\ f \in [0..Len(w) -> Nat] /\ g[0] \in Nat
        /\ Sums(w, Len(w), f) /\ Rises(w, Len(w), 0, g)
    BY <1>1, <1>4 DEF n
  <2> QED
    BY <2>1, RisesBySums DEF n
<1>6. g[n] = f[n]
  BY <1>1, <1>3, <1>4, <1>5
<1> QED
  BY <1>1, <1>2, <1>6 DEF n

LEMMA TotalTyped == \A w \in Seq(Nat) : Total(w) \in Nat
<1> SUFFICES ASSUME NEW w \in Seq(Nat) PROVE Total(w) \in Nat
  OBVIOUS
<1>1. PICK f \in [0..Len(w) -> Nat] : Total(w) = f[Len(w)]
  BY TotalSums
<1> QED
  BY <1>1

LEMMA TotalEmpty == Total(<<>>) = 0
<1>1. PICK none \in Seq(Nat) : none = <<>> /\ Len(none) = 0
  <2>1. <<>> \in Seq(Nat) /\ Len(<<>>) = 0
    OBVIOUS
  <2> QED
    BY <2>1, Zenon
<1>2. PICK f \in [0..Len(none) -> Nat] : Sums(none, Len(none), f) /\ Total(none) = f[Len(none)]
  BY TotalSums
<1> QED
  BY <1>1, <1>2 DEF Sums

LEMMA TotalOne ==
    ASSUME NEW x \in Nat
    PROVE  Total(<<x>>) = x
<1>1. PICK one \in Seq(Nat) : one = <<x>> /\ Len(one) = 1 /\ one[1] = x
  <2>1. <<x>> \in Seq(Nat) /\ Len(<<x>>) = 1 /\ <<x>>[1] = x
    OBVIOUS
  <2> QED
    BY <2>1, Zenon
<1>2. PICK f \in [0..Len(one) -> Nat] : Sums(one, Len(one), f) /\ Total(one) = f[Len(one)]
  BY TotalSums
<1>3. Total(one) = x
  BY <1>1, <1>2 DEF Sums
<1> QED
  BY <1>1, <1>3

LEMMA TotalConcat ==
    ASSUME NEW v \in Seq(Nat), NEW w \in Seq(Nat)
    PROVE  Total(Join(v, w)) = Total(v) + Total(w)
<1> DEFINE m == Len(v)
           n == Len(w)
<1>1. PICK all \in Seq(Nat) : all = Join(v, w)
  BY JoinFacts
<1>2. /\ m \in Nat /\ n \in Nat /\ Len(all) = m + n
      /\ \A i \in 1..m : all[i] = v[i] /\ v[i] \in Nat
      /\ \A i \in 1..n : all[m + i] = w[i] /\ w[i] \in Nat
  BY <1>1 DEF Join
<1>3. PICK f \in [0..m -> Nat] : Sums(v, m, f) /\ Total(v) = f[m]
  BY TotalSums
<1>4. PICK g \in [0..n -> Nat] : Sums(w, n, g) /\ Total(w) = g[n]
  BY TotalSums
<1>5. PICK h \in [0..Len(all) -> Nat] : Sums(all, Len(all), h) /\ Total(all) = h[Len(all)]
  BY TotalSums
<1> HIDE DEF m, n
<1>6. h[0] = 0 /\ \A i \in 1..(m + n) : h[i] = h[i - 1] + all[i]
  BY <1>2, <1>5 DEF Sums
<1>7. Rises(v, m, 0, h)
  <2>1. \A i \in 1..m : i \in 1..(m + n)
    BY <1>2
  <2>2. \A i \in 1..m : h[i] = h[i - 1] + v[i]
    BY <1>2, <1>6, <2>1
  <2> QED
    BY <1>2, <2>2, RisesFromZero
<1>8. Rises(w, n, m, h)
  <2>1. \A i \in 1..n : m + i \in 1..(m + n)
    BY <1>2
  <2> QED
    BY <1>2, <1>6, <2>1 DEF Rises
<1>9. h[m] = f[m] /\ f[m] \in Nat
  <2>1. h[0 + m] = h[0] + f[m]
    <3>1. /\ f \in [0..Len(v) -> Nat] /\ h[0] \in Nat
          /\ Sums(v, Len(v), f) /\ Rises(v, Len(v), 0, h)
      BY <1>3, <1>6, <1>7 DEF m
    <3> QED
      BY <3>1, RisesBySums DEF m
  <2>2. f[m] \in Nat
    BY <1>2
  <2> QED
    BY <1>2, <1>6, <2>1, <2>2
<1>10. h[m + n] = h[m] + g[n]
  <2>1. /\ g \in [0..Len(w) -> Nat] /\ h[m] \in Nat /\ m \in Nat
        /\ Sums(w, Len(w), g) /\ Rises(w, Len(w), m, h)
    BY <1>2, <1>4, <1>8, <1>9 DEF n
  <2> QED
    BY <2>1, RisesBySums DEF n
<1> QED
  BY <1>1, <1>2, <1>3, <1>4, <1>5, <1>9, <1>10

LEMMA TotalAppend ==
    ASSUME NEW w \in Seq(Nat), NEW x \in Nat
    PROVE  Total(Append(w, x)) = Total(w) + x
<1>1. PICK one \in Seq(Nat) : one = <<x>> /\ Total(one) = x
  <2>1. <<x>> \in Seq(Nat) /\ Total(<<x>>) = x
    BY TotalOne
  <2> QED
    BY <2>1, Zenon
<1>2. Append(w, x) = Join(w, one)
  BY <1>1, AppendIsConcat DEF Join
<1> QED
  BY <1>1, <1>2, TotalConcat
=============================================================================
