--------------------------- MODULE LogFile_proofs ---------------------------
(***************************************************************************)
(* Proofs about LogFile.tla, for any ring of files, any sizes and lengths, *)
(* any number of starts and failures: no file gets longer than it may, the *)
(* newest lines are kept without a gap, and files that were left are full. *)
(***************************************************************************)
EXTENDS LogFile, FoldLemmas

-----------------------------------------------------------------------------
(* The bytes of a sequence of lines.                                       *)

Sizes(s) == [i \in 1..Len(s) |-> s[i].len]

(* What Bytes folds with. *)
BytesFold(s, n, f) ==
    f = [r \in SUBSET (1..n) |-> IF r = {} THEN 0 ELSE f[r \ {Max(r)}] + s[Max(r)].len]

LEMMA LineTyped ==
    \A l \in Lines : /\ l.len \in Nat /\ l.len \in Lens /\ l.len <= RollSize
                     /\ l.start \in Nat /\ l.start >= 1 /\ l.n \in Nat
<1> SUFFICES ASSUME NEW l \in Lines
             PROVE  /\ l.len \in Nat /\ l.len \in Lens /\ l.len <= RollSize
                    /\ l.start \in Nat /\ l.start >= 1 /\ l.n \in Nat
  OBVIOUS
<1>1. l.start \in 1..MaxStarts /\ l.n \in 1..MaxLines /\ l.len \in Lens
  BY DEF Lines
<1>2. l.len \in 1..RollSize /\ RollSize \in Nat
  BY <1>1, LogFileAssumption
<1> QED
  BY <1>1, <1>2

LEMMA BytesFoldIs ==
    ASSUME NEW s, NEW w, NEW n \in Nat, NEW f, \A i \in 1..n : w[i] = s[i].len
    PROVE  BytesFold(s, n, f) <=> Folds(w, n, f)
<1>1. ASSUME NEW r \in SUBSET (1..n), r # {} PROVE w[Max(r)] = s[Max(r)].len
  BY <1>1, MaxIn
<1>2. [r \in SUBSET (1..n) |-> IF r = {} THEN 0 ELSE f[r \ {Max(r)}] + s[Max(r)].len]
      = [r \in SUBSET (1..n) |-> IF r = {} THEN 0 ELSE f[r \ {Max(r)}] + w[Max(r)]]
  BY <1>1
<1> QED
  BY <1>2, Zenon DEF BytesFold, Folds

LEMMA BytesIs ==
    ASSUME NEW s \in Seq(Lines)
    PROVE  /\ Sizes(s) \in Seq(Nat) /\ Len(Sizes(s)) = Len(s)
           /\ Bytes(s) = Total(Sizes(s))
<1> DEFINE n == Len(s)
           w == Sizes(s)
           c == CHOOSE f : BytesFold(s, n, f)
<1>1. n \in Nat /\ DOMAIN s = 1..n /\ \A i \in 1..n : s[i].len \in Nat
  BY LineTyped, ElementOfSeq
<1>2. w \in Seq(Nat) /\ Len(w) = n /\ \A i \in 1..n : w[i] = s[i].len
  BY <1>1 DEF Sizes
<1>3. Bytes(s) = c[1..n]
  BY <1>1 DEF Bytes, FoldLeft, MapThenFoldSet, BytesFold
<1>4. Folds(w, n, c)
  <2>1. \E f : BytesFold(s, n, f)
    BY <1>1, <1>2, FoldsExist, BytesFoldIs
  <2>2. BytesFold(s, n, c)
    BY <2>1
  <2> QED
    BY <1>1, <1>2, <2>2, BytesFoldIs
<1> HIDE DEF c, w
<1>5. c[1..n] = Total(w)
  BY <1>2, <1>4, TotalOfFold
<1> QED
  BY <1>2, <1>3, <1>5 DEF w

LEMMA BytesTyped == \A s \in Seq(Lines) : Bytes(s) \in Nat
BY BytesIs, TotalTyped

LEMMA BytesEmpty == Bytes(<<>>) = 0
<1>1. PICK none \in Seq(Lines) : none = <<>> /\ Len(none) = 0
  <2>1. <<>> \in Seq(Lines) /\ Len(<<>>) = 0
    OBVIOUS
  <2> QED
    BY <2>1, Zenon
<1>2. Sizes(none) = <<>>
  BY <1>1, BytesIs, EmptySeq
<1> QED
  BY <1>1, <1>2, BytesIs, TotalEmpty, Zenon

LEMMA BytesOne ==
    ASSUME NEW l \in Lines
    PROVE  <<l>> \in Seq(Lines) /\ Bytes(<<l>>) = l.len
<1>1. PICK one \in Seq(Lines) : one = <<l>> /\ Len(one) = 1 /\ one[1] = l
  <2>1. <<l>> \in Seq(Lines) /\ Len(<<l>>) = 1 /\ <<l>>[1] = l
    OBVIOUS
  <2> QED
    BY <2>1, Zenon
<1>2. Sizes(one) = <<l.len>>
  <2>1. Sizes(one) = [i \in 1..1 |-> l.len]
    BY <1>1 DEF Sizes
  <2> QED
    BY <2>1
<1>3. Total(<<l.len>>) = l.len
  BY LineTyped, TotalOne
<1> QED
  BY <1>1, <1>2, <1>3, BytesIs, Zenon

LEMMA BytesConcat ==
    ASSUME NEW s \in Seq(Lines), NEW t \in Seq(Lines)
    PROVE  Bytes(Join(s, t)) = Bytes(s) + Bytes(t)
<1> DEFINE m == Len(s)
           n == Len(t)
           v == Sizes(s)
           w == Sizes(t)
<1>1. PICK all \in Seq(Lines) : all = Join(s, t)
  BY JoinFacts
<1>2. /\ m \in Nat /\ n \in Nat /\ Len(all) = m + n
      /\ \A i \in 1..m : all[i] = s[i]
      /\ \A i \in 1..n : all[m + i] = t[i]
  BY <1>1 DEF Join
<1>3. /\ v \in Seq(Nat) /\ Len(v) = m /\ Bytes(s) = Total(v)
      /\ w \in Seq(Nat) /\ Len(w) = n /\ Bytes(t) = Total(w)
      /\ Sizes(all) \in Seq(Nat) /\ Len(Sizes(all)) = m + n /\ Bytes(all) = Total(Sizes(all))
  BY <1>2, BytesIs
<1>4. /\ \A i \in 1..m : v[i] = s[i].len
      /\ \A i \in 1..n : w[i] = t[i].len
      /\ \A i \in 1..(m + n) : Sizes(all)[i] = all[i].len
  BY <1>2 DEF Sizes
<1>5. PICK both \in Seq(Nat) : both = Join(v, w)
  BY <1>3, JoinFacts
<1> HIDE DEF m, n, v, w
<1>6. /\ Len(both) = m + n
      /\ \A i \in 1..m : both[i] = v[i]
      /\ \A i \in 1..n : both[m + i] = w[i]
  <2>1. Len(both) = Len(v) + Len(w)
    BY <1>3, <1>5, JoinIndices
  <2>2. \A i \in 1..Len(v) : both[i] = v[i]
    BY <1>3, <1>5, JoinIndices
  <2>3. \A i \in 1..Len(w) : both[Len(v) + i] = w[i]
    BY <1>3, <1>5, JoinIndices
  <2> QED
    BY <1>3, <2>1, <2>2, <2>3
<1>7. ASSUME NEW i \in 1..(m + n) PROVE Sizes(all)[i] = both[i]
  <2>1. CASE i \in 1..m
    <3>1. i \in 1..(m + n) /\ all[i] = s[i]
      BY <1>2, <2>1
    <3>2. both[i] = v[i] /\ v[i] = s[i].len
      BY <1>4, <1>6, <2>1
    <3>3. Sizes(all)[i] = all[i].len
      BY <1>4
    <3> QED
      BY <3>1, <3>2, <3>3
  <2>2. CASE i \notin 1..m
    <3>1. i - m \in 1..n /\ i = m + (i - m)
      BY <1>2, <2>2
    <3>2. all[m + (i - m)] = t[i - m] /\ both[m + (i - m)] = w[i - m] /\ w[i - m] = t[i - m].len
      BY <1>2, <1>4, <1>6, <3>1
    <3>3. Sizes(all)[i] = all[i].len
      BY <1>4
    <3> QED
      BY <3>1, <3>2, <3>3
  <2> QED
    BY <2>1, <2>2
<1>8. Sizes(all) = both
  BY <1>3, <1>6, <1>7, SeqEqual
<1>9. Total(both) = Total(v) + Total(w)
  BY <1>3, <1>5, TotalConcat
<1> QED
  BY <1>1, <1>3, <1>8, <1>9

LEMMA LinesJoin ==
    ASSUME NEW s \in Seq(Lines), NEW t \in Seq(Lines)
    PROVE  /\ Join(s, t) \in Seq(Lines) /\ Len(Join(s, t)) = Len(s) + Len(t)
           /\ \A i \in 1..Len(s) : Join(s, t)[i] = s[i]
           /\ \A i \in 1..Len(t) : Join(s, t)[Len(s) + i] = t[i]
           /\ Bytes(Join(s, t)) = Bytes(s) + Bytes(t)
           /\ Join(s, <<>>) = s
<1>1. Join(s, t) \in Seq(Lines) /\ Join(s, <<>>) = s
  BY JoinFacts
<1>2. /\ Len(Join(s, t)) = Len(s) + Len(t)
      /\ \A i \in 1..Len(s) : Join(s, t)[i] = s[i]
      /\ \A i \in 1..Len(t) : Join(s, t)[Len(s) + i] = t[i]
  BY JoinIndices
<1>3. Bytes(Join(s, t)) = Bytes(s) + Bytes(t)
  BY BytesConcat
<1> QED
  BY <1>1, <1>2, <1>3

LEMMA FilesJoin ==
    ASSUME NEW s \in Seq(Seq(Lines)), NEW t \in Seq(Seq(Lines))
    PROVE  /\ Len(Join(s, t)) = Len(s) + Len(t)
           /\ \A i \in 1..Len(s) : Join(s, t)[i] = s[i]
           /\ \A i \in 1..Len(t) : Join(s, t)[Len(s) + i] = t[i]
BY JoinIndices

LEMMA BytesAppend ==
    ASSUME NEW s \in Seq(Lines), NEW l \in Lines
    PROVE  /\ Append(s, l) \in Seq(Lines) /\ Append(s, l) = Join(s, <<l>>)
           /\ Bytes(Append(s, l)) = Bytes(s) + l.len
<1>1. PICK one \in Seq(Lines) : one = <<l>> /\ Bytes(one) = l.len
  <2>1. <<l>> \in Seq(Lines) /\ Bytes(<<l>>) = l.len
    BY BytesOne
  <2> QED
    BY <2>1, Zenon
<1>2. Append(s, l) = Join(s, one)
  BY <1>1, AppendIsConcat DEF Join
<1> QED
  <2>1. Join(s, one) \in Seq(Lines) /\ Bytes(Join(s, one)) = Bytes(s) + Bytes(one)
    BY LinesJoin
  <2> QED
    BY <1>1, <1>2, <2>1

(* A stream that is cut in two. *)
LEMMA Cut ==
    ASSUME NEW s \in Seq(Lines), NEW n \in 0..Len(s)
    PROVE  /\ SubSeq(s, 1, n) \in Seq(Lines) /\ SubSeq(s, n + 1, Len(s)) \in Seq(Lines)
           /\ s = Join(SubSeq(s, 1, n), SubSeq(s, n + 1, Len(s)))
           /\ Bytes(s) = Bytes(SubSeq(s, 1, n)) + Bytes(SubSeq(s, n + 1, Len(s)))
           /\ Bytes(SubSeq(s, 1, n)) <= Bytes(s)
<1> DEFINE a == SubSeq(s, 1, n)
           b == SubSeq(s, n + 1, Len(s))
           m == Len(s)
<1>1. /\ n \in Nat /\ m \in Nat /\ n <= m
      /\ a \in Seq(Lines) /\ Len(a) = n /\ \A i \in 1..n : a[i] = s[i]
      /\ b \in Seq(Lines) /\ Len(b) = m - n /\ \A i \in 1..(m - n) : b[i] = s[n + i]
  <2>1. /\ n \in Nat /\ m \in Nat /\ n <= m
        /\ \A i \in 1..n : s[i] \in Lines
        /\ \A i \in (n + 1)..m : s[i] \in Lines
    BY ElementOfSeq
  <2> QED
    BY <2>1, SubSeqProperties
<1> HIDE DEF a, b, m
<1>2. PICK all \in Seq(Lines) : all = Join(a, b)
  BY <1>1, JoinFacts
<1>3. /\ Len(all) = n + (m - n)
      /\ \A i \in 1..n : all[i] = a[i]
      /\ \A i \in 1..(m - n) : all[n + i] = b[i]
  <2>1. /\ Len(all) = Len(a) + Len(b)
        /\ \A i \in 1..Len(a) : all[i] = a[i]
        /\ \A i \in 1..Len(b) : all[Len(a) + i] = b[i]
    <3>1. a \in Seq(Lines) /\ b \in Seq(Lines)
      BY <1>1
    <3>2. /\ Len(Join(a, b)) = Len(a) + Len(b)
          /\ \A i \in 1..Len(a) : Join(a, b)[i] = a[i]
          /\ \A i \in 1..Len(b) : Join(a, b)[Len(a) + i] = b[i]
      BY <3>1, LinesJoin
    <3> QED
      BY <1>2, <3>2
  <2>2. Len(a) = n /\ Len(b) = m - n
    BY <1>1
  <2> QED
    BY <2>1, <2>2
<1>4. ASSUME NEW i \in 1..m PROVE all[i] = s[i]
  <2>1. CASE i \in 1..n
    BY <1>1, <1>3, <2>1
  <2>2. CASE i \notin 1..n
    <3>1. i - n \in 1..(m - n) /\ n + (i - n) = i
      BY <1>1, <2>2
    <3>2. all[n + (i - n)] = b[i - n] /\ b[i - n] = s[n + (i - n)]
      BY <1>1, <1>3, <3>1
    <3> QED
      BY <3>1, <3>2
  <2> QED
    BY <2>1, <2>2
<1>5. Len(all) = m
  BY <1>1, <1>3
<1>6. s = all
  BY <1>4, <1>5, SeqEqual DEF m
<1>7. Bytes(all) = Bytes(a) + Bytes(b) /\ Bytes(a) \in Nat /\ Bytes(b) \in Nat
  BY <1>1, <1>2, BytesConcat, BytesTyped
<1> QED
  BY <1>1, <1>2, <1>6, <1>7 DEF a, b, m

-----------------------------------------------------------------------------
(* The ring.                                                               *)

LEMMA AfterIs ==
    ASSUME NEW i \in Indices
    PROVE  /\ After(i) \in Indices
           /\ After(i) = IF i + 1 = MaxFiles THEN 0 ELSE i + 1
<1>1. MaxFiles \in Nat \ {0} /\ i \in Nat /\ i + 1 <= MaxFiles
  BY LogFileAssumption DEF Indices
<1>2. CASE i + 1 = MaxFiles
  BY <1>1, <1>2 DEF After, Indices
<1>3. CASE i + 1 # MaxFiles
  BY <1>1, <1>3 DEF After, Indices
<1> QED
  BY <1>2, <1>3

(* The k-th file after one, and whether it is another. *)
Place(i, k) == (i + k) % MaxFiles

LEMMA PlaceIs ==
    ASSUME NEW i \in Indices, NEW k \in 1..MaxFiles
    PROVE  /\ Place(i, k) \in Indices
           /\ Place(i, k) = i <=> k = MaxFiles
           /\ k < MaxFiles => Place(After(i), k) = Place(i, k + 1)
           /\ Place(i, 1) = After(i)
<1>1. MaxFiles \in Nat \ {0} /\ i \in Nat /\ k \in Nat /\ i < MaxFiles /\ k <= MaxFiles /\ k >= 1
  BY LogFileAssumption DEF Indices
<1>2. Place(i, k) = IF i + k < MaxFiles THEN i + k ELSE i + k - MaxFiles
  BY <1>1 DEF Place
<1>3. ASSUME k < MaxFiles PROVE Place(After(i), k) = Place(i, k + 1)
  <2>1. Place(i, k + 1) = IF i + k + 1 < MaxFiles THEN i + k + 1 ELSE i + k + 1 - MaxFiles
    BY <1>1, <1>3 DEF Place
  <2>2. CASE i + 1 = MaxFiles
    <3>1. After(i) = 0
      BY <2>2, AfterIs
    <3>2. Place(0, k) = k
      BY <1>1, <1>3 DEF Place
    <3> QED
      BY <1>1, <2>1, <2>2, <3>1, <3>2
  <2>3. CASE i + 1 # MaxFiles
    <3>1. After(i) = i + 1
      BY <2>3, AfterIs
    <3>2. Place(i + 1, k) = IF i + 1 + k < MaxFiles THEN i + 1 + k ELSE i + 1 + k - MaxFiles
      BY <1>1, <2>3 DEF Place
    <3> QED
      BY <1>1, <2>1, <3>1, <3>2
  <2> QED
    BY <2>2, <2>3
<1>4. Place(i, 1) = After(i)
  BY DEF Place, After
<1> QED
  BY <1>1, <1>2, <1>3, <1>4 DEF Indices

(* What the ring holds, and what it holds besides the current file. *)
Ring(f, i) == [k \in 1..MaxFiles |-> f[Place(i, k)]]
Older(f, i) == [k \in 1..(MaxFiles - 1) |-> f[Place(i, k)]]
Disks == [Indices -> Seq(Lines)]

LEMMA RingTyped ==
    ASSUME NEW f \in Disks, NEW i \in Indices
    PROVE  /\ Ring(f, i) \in Seq(Seq(Lines)) /\ Len(Ring(f, i)) = MaxFiles
           /\ Older(f, i) \in Seq(Seq(Lines)) /\ Len(Older(f, i)) = MaxFiles - 1
           /\ FlattenSeq(Ring(f, i)) \in Seq(Lines) /\ FlattenSeq(Older(f, i)) \in Seq(Lines)
<1>1. MaxFiles \in Nat \ {0}
  BY LogFileAssumption
<1>2. ASSUME NEW k \in 1..MaxFiles PROVE f[Place(i, k)] \in Seq(Lines)
  <2>1. Place(i, k) \in Indices
    BY PlaceIs
  <2> QED
    BY <2>1 DEF Disks
<1>3. Ring(f, i) \in [1..MaxFiles -> Seq(Lines)]
  BY <1>2 DEF Ring
<1>4. \A k \in 1..(MaxFiles - 1) : k \in 1..MaxFiles
  BY <1>1
<1>5. Older(f, i) \in [1..(MaxFiles - 1) -> Seq(Lines)]
  BY <1>2, <1>4 DEF Older
<1>6. /\ Ring(f, i) \in Seq(Seq(Lines)) /\ Len(Ring(f, i)) = MaxFiles
      /\ Older(f, i) \in Seq(Seq(Lines)) /\ Len(Older(f, i)) = MaxFiles - 1
  <2>1. \A n \in Nat : \A r \in [1..n -> Seq(Lines)] : r \in Seq(Seq(Lines)) /\ Len(r) = n
    OBVIOUS
  <2>2. MaxFiles \in Nat /\ MaxFiles - 1 \in Nat
    BY <1>1
  <2> QED
    BY <1>3, <1>5, <2>1, <2>2, Zenon
<1> QED
  BY <1>6, FlattenTyped

(* The current file is the last of the ring. *)
LEMMA RingIs ==
    ASSUME NEW f \in Disks, NEW i \in Indices
    PROVE  FlattenSeq(Ring(f, i)) = Join(FlattenSeq(Older(f, i)), f[i])
<1> DEFINE R == Ring(f, i)
           O == Older(f, i)
<1>1. /\ MaxFiles \in Nat \ {0} /\ f[i] \in Seq(Lines)
      /\ R \in Seq(Seq(Lines)) /\ Len(R) = MaxFiles
      /\ O \in Seq(Seq(Lines)) /\ Len(O) = MaxFiles - 1
  BY RingTyped, LogFileAssumption DEF Disks
<1>2. MaxFiles \in 1..MaxFiles /\ Place(i, MaxFiles) = i
  <2>1. MaxFiles \in 1..MaxFiles
    BY <1>1
  <2> QED
    BY <2>1, PlaceIs
<1>3. /\ R[MaxFiles] = f[i]
      /\ \A k \in 1..(MaxFiles - 1) : O[k] = R[k]
  BY <1>1, <1>2 DEF Ring, Older
<1> HIDE DEF R, O
<1>4. R = Append(O, f[i])
  <2> DEFINE A == Append(O, f[i])
  <2>1. /\ A \in Seq(Seq(Lines)) /\ Len(A) = MaxFiles
        /\ \A k \in 1..(MaxFiles - 1) : A[k] = O[k]
        /\ A[MaxFiles] = f[i]
    BY <1>1, AppendProperties
  <2>2. ASSUME NEW k \in 1..MaxFiles PROVE R[k] = A[k]
    <3>1. k = MaxFiles \/ k \in 1..(MaxFiles - 1)
      BY <1>1
    <3> HIDE DEF A
    <3> QED
      BY <1>3, <2>1, <3>1
  <2> HIDE DEF A
  <2>3. R = A
    BY <1>1, <2>1, <2>2, SeqEqual
  <2> QED
    BY <2>3 DEF A
<1>5. PICK one \in Seq(Seq(Lines)) : one = <<f[i]>> /\ FlattenSeq(one) = f[i]
  <2>1. <<f[i]>> \in Seq(Seq(Lines))
    BY <1>1
  <2>2. FlattenSeq(<<f[i]>>) = f[i]
    BY <1>1, FlattenOne
  <2> QED
    BY <2>1, <2>2, Zenon
<1>6. Append(O, f[i]) = Join(O, one)
  BY <1>1, <1>5, AppendIsConcat DEF Join
<1>7. FlattenSeq(Join(O, one)) = Join(FlattenSeq(O), FlattenSeq(one))
  BY <1>1, <1>5, FlattenConcat
<1> QED
  BY <1>4, <1>5, <1>6, <1>7, Zenon DEF R, O

(* It alone changes when something is written. *)
LEMMA OlderSame ==
    ASSUME NEW f \in Disks, NEW i \in Indices, NEW g, \A j \in Indices \ {i} : g[j] = f[j]
    PROVE  Older(g, i) = Older(f, i)
<1>1. ASSUME NEW k \in 1..(MaxFiles - 1) PROVE g[Place(i, k)] = f[Place(i, k)]
  <2>1. k \in 1..MaxFiles /\ k # MaxFiles
    BY LogFileAssumption
  <2>2. Place(i, k) \in Indices \ {i}
    BY <2>1, PlaceIs
  <2> QED
    BY <2>2
<1> QED
  BY <1>1 DEF Older

(* Rolling drops the oldest file. *)
LEMMA RingMoves ==
    ASSUME NEW f \in Disks, NEW i \in Indices, NEW g \in Disks, g[After(i)] = <<>>,
           \A j \in Indices \ {After(i)} : g[j] = f[j]
    PROVE  FlattenSeq(Ring(f, i)) = Join(f[After(i)], FlattenSeq(Ring(g, After(i))))
<1> DEFINE R == Ring(f, i)
           o == After(i)
           O == Older(g, After(i))
<1>1. /\ MaxFiles \in Nat \ {0} /\ o \in Indices /\ f[o] \in Seq(Lines)
      /\ R \in Seq(Seq(Lines)) /\ Len(R) = MaxFiles
      /\ O \in Seq(Seq(Lines)) /\ Len(O) = MaxFiles - 1
      /\ FlattenSeq(O) \in Seq(Lines)
  BY RingTyped, AfterIs, LogFileAssumption DEF Disks
<1>2. R[1] = f[o]
  <2>1. 1 \in 1..MaxFiles
    BY <1>1
  <2> QED
    BY <2>1, PlaceIs DEF Ring
<1>3. ASSUME NEW k \in 1..(MaxFiles - 1) PROVE O[k] = R[k + 1]
  <2>1. k \in 1..MaxFiles /\ k + 1 \in 1..MaxFiles /\ k # MaxFiles /\ k < MaxFiles
    BY <1>1
  <2>2. Place(o, k) = Place(i, k + 1) /\ Place(o, k) \in Indices \ {o}
    <3>1. Place(o, k) = Place(i, k + 1)
      BY <2>1, PlaceIs
    <3> HIDE DEF o
    <3>2. Place(o, k) \in Indices \ {o}
      BY <1>1, <2>1, PlaceIs
    <3> QED
      BY <3>1, <3>2
  <2>3. O[k] = g[Place(o, k)] /\ R[k + 1] = f[Place(i, k + 1)]
    BY <2>1 DEF Older, Ring
  <2> QED
    BY <2>2, <2>3
<1>4. FlattenSeq(Ring(g, o)) = FlattenSeq(O)
  <2>1. FlattenSeq(Ring(g, o)) = Join(FlattenSeq(O), g[o])
    BY <1>1, RingIs
  <2>2. Join(FlattenSeq(O), <<>>) = FlattenSeq(O)
    BY <1>1, JoinFacts
  <2> QED
    BY <2>1, <2>2
<1> HIDE DEF R, O, o
<1>5. PICK one \in Seq(Seq(Lines)) : one = <<f[o]>> /\ FlattenSeq(one) = f[o] /\ Len(one) = 1 /\ one[1] = f[o]
  <2>1. <<f[o]>> \in Seq(Seq(Lines)) /\ Len(<<f[o]>>) = 1 /\ <<f[o]>>[1] = f[o]
    BY <1>1
  <2>2. FlattenSeq(<<f[o]>>) = f[o]
    BY <1>1, FlattenOne
  <2> QED
    BY <2>1, <2>2, Zenon
<1>6. R = Join(one, O)
  <2>1. PICK all \in Seq(Seq(Lines)) : all = Join(one, O)
    BY <1>1, <1>5, JoinFacts
  <2>2. /\ Len(all) = 1 + (MaxFiles - 1) /\ all[1] = f[o]
        /\ \A k \in 1..(MaxFiles - 1) : all[1 + k] = O[k]
    <3>1. /\ Len(Join(one, O)) = Len(one) + Len(O)
          /\ \A k \in 1..Len(one) : Join(one, O)[k] = one[k]
          /\ \A k \in 1..Len(O) : Join(one, O)[Len(one) + k] = O[k]
      BY <1>1, <1>5, FilesJoin
    <3>2. Len(one) = 1 /\ Len(O) = MaxFiles - 1 /\ one[1] = f[o] /\ 1 \in 1..Len(one)
      BY <1>1, <1>5
    <3> QED
      BY <2>1, <3>1, <3>2
  <2>3. ASSUME NEW k \in 1..MaxFiles PROVE all[k] = R[k]
    <3>1. k = 1 \/ (k - 1 \in 1..(MaxFiles - 1) /\ 1 + (k - 1) = k /\ (k - 1) + 1 = k)
      BY <1>1
    <3> QED
      BY <1>2, <1>3, <2>2, <3>1
  <2>4. Len(all) = MaxFiles
    BY <1>1, <2>2
  <2>5. all = R
    BY <1>1, <2>3, <2>4, SeqEqual
  <2> QED
    BY <2>1, <2>5
<1>7. FlattenSeq(Join(one, O)) = Join(FlattenSeq(one), FlattenSeq(O))
  BY <1>1, <1>5, FlattenConcat
<1>8. FlattenSeq(R) = Join(f[o], FlattenSeq(Ring(g, o)))
  BY <1>4, <1>5, <1>6, <1>7, Zenon
<1> QED
  BY <1>8 DEF R, o

-----------------------------------------------------------------------------
(* The lines of one start at the end of a sequence, none missing.          *)

InOrderFrom(s, st, last, old) ==
    /\ old \in 0..Len(s)
    /\ \A k \in 1..old : s[k].start # st
    /\ \A k \in (old + 1)..Len(s) : s[k].start = st /\ s[k].n + (Len(s) - k) = last
InOrder(s, st, last) == \E old \in 0..Len(s) : InOrderFrom(s, st, last, old)

LEMMA InOrderNone ==
    ASSUME NEW s \in Seq(Lines), NEW st, NEW last, \A k \in 1..Len(s) : s[k].start # st
    PROVE  InOrder(s, st, last)
<1>1. Len(s) \in Nat
  OBVIOUS
<1>2. InOrderFrom(s, st, last, Len(s)) /\ Len(s) \in 0..Len(s)
  BY <1>1 DEF InOrderFrom
<1> QED
  BY <1>2 DEF InOrder

LEMMA InOrderAppend ==
    ASSUME NEW s \in Seq(Lines), NEW l \in Lines, NEW last \in Nat,
           InOrder(s, l.start, last), l.n = last + 1
    PROVE  InOrder(Append(s, l), l.start, last + 1)
<1> DEFINE t == Append(s, l)
           n == Len(s)
<1>1. /\ n \in Nat /\ Len(t) = n + 1 /\ t[n + 1] = l /\ \A k \in 1..n : t[k] = s[k]
      /\ \A k \in 1..n : s[k].n \in Nat
  BY AppendProperties, LineTyped, ElementOfSeq
<1>2. PICK old \in 0..n : InOrderFrom(s, l.start, last, old)
  BY DEF InOrder
<1>3. /\ \A k \in 1..old : s[k].start # l.start
      /\ \A k \in (old + 1)..n : s[k].start = l.start /\ s[k].n + (n - k) = last
  BY <1>2 DEF InOrderFrom
<1> HIDE DEF t, n
<1>4. old \in 0..Len(t) /\ \A k \in 1..old : t[k].start # l.start
  BY <1>1, <1>3
<1>5. ASSUME NEW k \in (old + 1)..Len(t)
      PROVE  t[k].start = l.start /\ t[k].n + (Len(t) - k) = last + 1
  <2>1. CASE k = n + 1
    BY <1>1, <2>1
  <2>2. CASE k # n + 1
    <3>1. k \in (old + 1)..n /\ k \in 1..n
      BY <1>1, <2>2
    <3>2. s[k].start = l.start /\ s[k].n + (n - k) = last /\ t[k] = s[k] /\ s[k].n \in Nat
      BY <1>1, <1>3, <3>1
    <3>3. \A x \in Nat : x + (n - k) = last => x + ((n + 1) - k) = last + 1
      BY <1>1, <3>1
    <3>4. s[k].n + ((n + 1) - k) = last + 1
      BY <3>2, <3>3
    <3> QED
      BY <1>1, <3>2, <3>4
  <2> QED
    BY <2>1, <2>2
<1>6. InOrderFrom(t, l.start, last + 1, old)
  BY <1>4, <1>5 DEF InOrderFrom
<1> QED
  BY <1>4, <1>6 DEF InOrder, t

LEMMA InOrderSuffix ==
    ASSUME NEW d \in Seq(Lines), NEW s \in Seq(Lines), NEW st, NEW last,
           InOrder(Join(d, s), st, last)
    PROVE  InOrder(s, st, last)
<1> DEFINE m == Len(d)
           n == Len(s)
<1>1. PICK t \in Seq(Lines) : t = Join(d, s)
  BY LinesJoin
<1>2. /\ m \in Nat /\ n \in Nat /\ Len(t) = m + n
      /\ \A k \in 1..n : t[m + k] = s[k]
  <2>1. /\ Len(Join(d, s)) = Len(d) + Len(s)
        /\ \A k \in 1..Len(s) : Join(d, s)[Len(d) + k] = s[k]
    BY LinesJoin
  <2> QED
    BY <1>1, <2>1
<1>3. PICK old \in 0..Len(t) : InOrderFrom(t, st, last, old)
  BY <1>1 DEF InOrder
<1> HIDE DEF m, n
<1>4. /\ \A k \in 1..old : t[k].start # st
      /\ \A k \in (old + 1)..(m + n) : t[k].start = st /\ t[k].n + ((m + n) - k) = last
  BY <1>2, <1>3 DEF InOrderFrom
<1> DEFINE rest == IF old <= m THEN 0 ELSE old - m
<1>5. rest \in 0..n
  BY <1>2, <1>3
<1>6. ASSUME NEW k \in 1..rest PROVE s[k].start # st
  <2>1. k \in 1..n /\ m + k \in 1..old
    BY <1>2, <1>3
  <2> QED
    BY <1>2, <1>4, <2>1
<1>7. ASSUME NEW k \in (rest + 1)..n PROVE s[k].start = st /\ s[k].n + (n - k) = last
  <2>1. k \in 1..n /\ m + k \in (old + 1)..(m + n) /\ (m + n) - (m + k) = n - k
    BY <1>2, <1>3
  <2>2. t[m + k].start = st /\ t[m + k].n + ((m + n) - (m + k)) = last
    BY <1>4, <2>1
  <2> QED
    BY <1>2, <2>1, <2>2
<1> HIDE DEF rest
<1>8. InOrderFrom(s, st, last, rest)
  BY <1>5, <1>6, <1>7 DEF InOrderFrom, n
<1> QED
  BY <1>5, <1>8 DEF InOrder, n

LEMMA InOrderPrefix ==
    ASSUME NEW s \in Seq(Lines), NEW d \in Seq(Lines), NEW st, NEW last \in Nat,
           InOrder(Join(s, d), st, last)
    PROVE  \E l \in 0..last : InOrder(s, st, l)
<1> DEFINE m == Len(s)
           n == Len(d)
<1>1. PICK t \in Seq(Lines) : t = Join(s, d)
  BY LinesJoin
<1>2. /\ m \in Nat /\ n \in Nat /\ Len(t) = m + n
      /\ \A k \in 1..m : t[k] = s[k] /\ s[k].n \in Nat
  <2>1. /\ Len(Join(s, d)) = Len(s) + Len(d)
        /\ \A k \in 1..Len(s) : Join(s, d)[k] = s[k]
    BY LinesJoin
  <2>2. \A k \in 1..m : s[k].n \in Nat
    BY LineTyped, ElementOfSeq
  <2> QED
    BY <1>1, <2>1, <2>2
<1>3. PICK old \in 0..Len(t) : InOrderFrom(t, st, last, old)
  BY <1>1 DEF InOrder
<1>4. /\ \A k \in 1..old : t[k].start # st
      /\ \A k \in (old + 1)..(m + n) : t[k].start = st /\ t[k].n + ((m + n) - k) = last
  BY <1>2, <1>3 DEF InOrderFrom
<1>5. CASE m <= old
  <2>1. \A k \in 1..m : s[k].start # st
    <3>1. \A k \in 1..m : k \in 1..old
      BY <1>2, <1>3, <1>5
    <3> QED
      BY <1>2, <1>4, <3>1
  <2>2. InOrder(s, st, 0)
    BY <2>1, InOrderNone
  <2> QED
    BY <2>2
<1>6. CASE ~ (m <= old)
  <2> HIDE DEF m, n
  <2>1. ASSUME NEW k \in (old + 1)..m
        PROVE  s[k].start = st /\ s[k].n + ((m + n) - k) = last /\ s[k].n \in Nat
    <3>1. k \in 1..m /\ k \in (old + 1)..(m + n)
      BY <1>2, <1>3
    <3> QED
      BY <1>2, <1>4, <3>1
  <2>2. m \in (old + 1)..m /\ old \in 0..m
    BY <1>2, <1>3, <1>6
  <2>3. s[m].n + n = last /\ s[m].n \in Nat
    <3>1. (m + n) - m = n
      BY <1>2
    <3> QED
      BY <2>1, <2>2, <3>1
  <2> DEFINE l == s[m].n
  <2>4. l \in 0..last /\ last = l + n
    BY <1>2, <2>3
  <2> HIDE DEF l
  <2>5. ASSUME NEW k \in (old + 1)..m PROVE s[k].start = st /\ s[k].n + (m - k) = l
    <3>1. s[k].start = st /\ s[k].n + ((m + n) - k) = last /\ s[k].n \in Nat /\ k \in Int
      BY <2>1
    <3>2. \A x \in Nat : x + ((m + n) - k) = last => x + (m - k) = l
      BY <1>2, <2>4, <3>1
    <3>3. s[k].n + (m - k) = l
      BY <3>1, <3>2
    <3> QED
      BY <3>1, <3>3
  <2>6. \A k \in 1..old : s[k].start # st
    <3>1. \A k \in 1..old : k \in 1..m
      BY <1>2, <2>2
    <3> QED
      BY <1>2, <1>4, <3>1
  <2>7. InOrderFrom(s, st, l, old)
    BY <2>2, <2>5, <2>6 DEF InOrderFrom, m
  <2> QED
    BY <2>2, <2>4, <2>7 DEF InOrder, m
<1> QED
  BY <1>5, <1>6

-----------------------------------------------------------------------------
(* Writing to the current file.                                            *)

(* Some lines go to the file, others stay in the stream. *)
Emits(a, b) ==
    /\ a \in Seq(Lines) /\ b \in Seq(Lines)
    /\ files' = [files EXCEPT ![index] = Join(files[index], a)] /\ held' = b
    /\ index' = index

LEMMA EmitsFacts ==
    ASSUME TypeOK, NEW a, NEW b, Emits(a, b)
    PROVE  /\ files' \in Disks /\ files \in Disks /\ index \in Indices
           /\ files'[index] = Join(files[index], a) /\ files[index] \in Seq(Lines)
           /\ \A j \in Indices \ {index} : files'[j] = files[j]
           /\ Bytes(files'[index]) = Bytes(files[index]) + Bytes(a)
           /\ Bytes(files[index]) \in Nat /\ Bytes(a) \in Nat /\ Bytes(b) \in Nat
<1>1. files \in [Indices -> Seq(Lines)] /\ index \in Indices /\ files[index] \in Seq(Lines)
  BY DEF TypeOK
<1>2. a \in Seq(Lines) /\ b \in Seq(Lines)
  BY DEF Emits
<1>3. Join(files[index], a) \in Seq(Lines)
      /\ Bytes(Join(files[index], a)) = Bytes(files[index]) + Bytes(a)
  BY <1>1, <1>2, LinesJoin
<1>4. files' = [files EXCEPT ![index] = Join(files[index], a)]
  BY DEF Emits
<1>5. /\ files' \in [Indices -> Seq(Lines)]
      /\ files'[index] = Join(files[index], a)
      /\ \A j \in Indices \ {index} : files'[j] = files[j]
  BY <1>1, <1>3, <1>4
<1> QED
  BY <1>1, <1>2, <1>3, <1>5, BytesTyped DEF Disks

(* What is kept is the ring and what the stream holds, whether or not some   *)
(* of it has been written.                                                 *)
Content == FlattenSeq(Ring(files, index))

LEMMA KeptIs ==
    /\ Kept = Join(Content, held) /\ Kept' = Join(Content', held')
    /\ \A last : NewestUpTo(last) = InOrder(Kept, start, last)
    /\ \A last : NewestUpTo(last)' = InOrder(Kept', start', last)
<1>1. Kept = Join(Content, held) /\ Kept' = Join(Content', held')
  BY DEF Kept, Content, Ring, Place, Join
<1>2. \A last : NewestUpTo(last) = InOrder(Kept, start, last)
  BY DEF NewestUpTo, InOrder, InOrderFrom
<1>3. \A last : NewestUpTo(last)' = InOrder(Kept', start', last)
  BY DEF NewestUpTo, InOrder, InOrderFrom
<1> QED
  BY <1>1, <1>2, <1>3

LEMMA EmitsKept ==
    ASSUME TypeOK, NEW a, NEW b, Emits(a, b)
    PROVE  Content \in Seq(Lines) /\ Kept' = Join(Content, Join(a, b))
<1> DEFINE O == FlattenSeq(Older(files, index))
           F == files[index]
<1>1. /\ files \in Disks /\ files' \in Disks /\ index \in Indices /\ index' = index
      /\ F \in Seq(Lines) /\ files'[index] = Join(F, a)
      /\ \A j \in Indices \ {index} : files'[j] = files[j]
  BY EmitsFacts DEF Emits
<1>2. a \in Seq(Lines) /\ b \in Seq(Lines) /\ held' = b
  BY DEF Emits
<1>3. O \in Seq(Lines) /\ Content \in Seq(Lines)
  BY <1>1, RingTyped DEF Content
<1>4. Content = Join(O, F)
  BY <1>1, RingIs DEF Content
<1>5. Older(files', index) = Older(files, index)
  BY <1>1, OlderSame
<1>6. Content' = Join(O, Join(F, a))
  <2>1. FlattenSeq(Ring(files', index)) = Join(FlattenSeq(Older(files', index)), files'[index])
    BY <1>1, RingIs
  <2> QED
    BY <1>1, <1>5, <2>1 DEF Content
<1> HIDE DEF O, F
<1>7. Join(Join(O, Join(F, a)), b) = Join(Join(O, F), Join(a, b))
  <2>1. Join(O, Join(F, a)) = Join(Join(O, F), a)
    BY <1>1, <1>2, <1>3, JoinFacts
  <2>2. Join(O, F) \in Seq(Lines)
    BY <1>1, <1>3, LinesJoin
  <2>3. Join(Join(Join(O, F), a), b) = Join(Join(O, F), Join(a, b))
    BY <1>2, <2>2, JoinFacts
  <2> QED
    BY <2>1, <2>3
<1>8. Kept' = Join(Join(O, Join(F, a)), b)
  BY <1>2, <1>6, KeptIs
<1> QED
  BY <1>3, <1>4, <1>7, <1>8

(* The steps that write. *)
LEMMA WriteEmits ==
    ASSUME TypeOK, line \in Lines, Write
    PROVE  \E a, b : Emits(a, b) /\ Join(a, b) = Append(held, line)
<1>1. held \in Seq(Lines)
  BY DEF TypeOK
<1>2. PICK n \in 0..(Len(held) + 1) :
          LET all == Append(held, line)
          IN  /\ files' = [files EXCEPT ![index] = @ \o SubSeq(all, 1, n)]
              /\ held' = SubSeq(all, n + 1, Len(all))
  BY DEF Write
<1> DEFINE all == Append(held, line)
           a == SubSeq(all, 1, n)
           b == SubSeq(all, n + 1, Len(all))
<1>3. all \in Seq(Lines) /\ n \in 0..Len(all)
  BY <1>1, AppendProperties
<1> HIDE DEF all
<1>4. a \in Seq(Lines) /\ b \in Seq(Lines) /\ Join(a, b) = all
  BY <1>3, Cut
<1>5. files' = [files EXCEPT ![index] = Join(files[index], a)] /\ held' = b
  BY <1>2, Zenon DEF all, Join
<1>6. index' = index
  BY DEF Write
<1> HIDE DEF a, b
<1>7. Emits(a, b) /\ Join(a, b) = Append(held, line)
  BY <1>4, <1>5, <1>6 DEF Emits, all
<1> QED
  BY <1>7

LEMMA FailEmits ==
    ASSUME TypeOK, WriteFails \/ FlushFails
    PROVE  \E a : \E b \in Seq(Lines) : Emits(a, <<>>) /\ Join(a, b) = held
<1>1. held \in Seq(Lines) /\ Len(held) \in Nat
  BY DEF TypeOK
<1>2. PICK n \in 0..Len(held) :
          files' = [files EXCEPT ![index] = @ \o SubSeq(held, 1, n)]
  <2>1. \A n \in 0..(Len(held) - 1) : n \in 0..Len(held)
    BY <1>1
  <2> QED
    BY <2>1 DEF WriteFails, FlushFails
<1> DEFINE a == SubSeq(held, 1, n)
           b == SubSeq(held, n + 1, Len(held))
<1>3. a \in Seq(Lines) /\ b \in Seq(Lines) /\ Join(a, b) = held
  BY <1>1, Cut
<1>4. files' = [files EXCEPT ![index] = Join(files[index], a)]
  BY <1>2, Zenon DEF Join
<1>5. index' = index /\ held' = <<>>
  BY DEF WriteFails, FlushFails
<1>6. <<>> \in Seq(Lines)
  BY EmptySeq
<1> HIDE DEF a, b
<1>7. Emits(a, <<>>)
  BY <1>3, <1>4, <1>5, <1>6, Zenon DEF Emits
<1> QED
  BY <1>3, <1>7

LEMMA FlushEmits ==
    ASSUME TypeOK, Flush \/ CloseFile
    PROVE  Emits(held, <<>>)
<1>1. held \in Seq(Lines) /\ <<>> \in Seq(Lines)
  BY EmptySeq DEF TypeOK
<1>2. files' = [files EXCEPT ![index] = Join(files[index], held)] /\ held' = <<>> /\ index' = index
  BY Zenon DEF Flush, CloseFile, Join
<1> QED
  BY <1>1, <1>2, Zenon DEF Emits

-----------------------------------------------------------------------------
(* The initial states, and the types.                                      *)

LEMMA InitIInv == Init => IInv
<1> SUFFICES ASSUME Init PROVE IInv
  OBVIOUS
<1>1. /\ MaxFiles \in Nat \ {0} /\ RollSize \in Nat
      /\ FailCount \in Nat /\ MaxStarts \in Nat /\ MaxLines \in Nat /\ MaxFailures \in Nat
  BY LogFileAssumption
<1>2. /\ files = [i \in Indices |-> <<>>] /\ saved = Torn /\ index = 0 /\ written = 0
      /\ open = FALSE /\ good = FALSE /\ held = <<>> /\ failCount = 0 /\ pc = "down"
      /\ line = NoLine /\ start = 0 /\ appended = 0 /\ failures = 0
  BY DEF Init
<1>3. TypeOK
  <2>1. files \in [Indices -> Seq(Lines)] /\ held \in Seq(Lines)
        /\ saved \in Indices \cup {Torn} /\ index \in Indices /\ written \in Nat
    BY <1>1, <1>2 DEF Indices
  <2>2. open \in BOOLEAN /\ good \in BOOLEAN
    BY <1>1, <1>2 DEF Indices
  <2>3. /\ pc \in {"down", "open", "saveState", "writeState", "idle", "roll", "next", "write"}
        /\ line \in Lines \cup {NoLine} /\ failCount \in 0..FailCount
        /\ start \in 0..MaxStarts /\ appended \in 0..MaxLines
        /\ failures \in 0..MaxFailures
    BY <1>1, <1>2 DEF Indices
  <2> QED
    BY <2>1, <2>2, <2>3 DEF TypeOK
<1>4. FilesBounded
  <2>1. ASSUME NEW i \in Indices
        PROVE  Bytes(files[i]) + (IF i = index THEN Bytes(held) ELSE 0) <= RollSize
    <3>1. Bytes(files[i]) = 0 /\ Bytes(held) = 0
      BY <1>2, BytesEmpty
    <3> QED
      BY <1>1, <3>1
  <2> QED
    BY <2>1 DEF FilesBounded
<1>5. StagesAgree /\ Counted /\ LineFits /\ RingInOrder /\ RingIsFull
  BY <1>2 DEF StagesAgree, Counted, LineFits, RingInOrder, RingIsFull, Opening
<1>6. NothingFromLater
  <2>1. /\ \A i \in Indices : \A k \in 1..Len(files[i]) : FALSE
        /\ \A k \in 1..Len(held) : FALSE
    BY <1>2
  <2> QED
    BY <1>2, <2>1 DEF NothingFromLater
<1> QED
  BY <1>3, <1>4, <1>5, <1>6 DEF IInv

LEMMA TypeStep == TypeOK /\ StagesAgree /\ [Next]_vars => TypeOK'
<1> SUFFICES ASSUME TypeOK, StagesAgree, [Next]_vars PROVE TypeOK'
  OBVIOUS
<1>1. /\ MaxFiles \in Nat \ {0} /\ 0 \in Indices /\ MaxFiles - 1 \in Indices
      /\ FailCount \in Nat /\ MaxStarts \in Nat /\ MaxLines \in Nat /\ MaxFailures \in Nat
  BY LogFileAssumption DEF Indices
<1>2. /\ \A i \in Indices : After(i) \in Indices
      /\ <<>> \in Seq(Lines) /\ <<>> \in Seq(Seq(Lines))
  BY AfterIs, EmptySeq
<1>3. CASE Crash
  <2>1. files' \in [Indices -> Seq(Lines)] /\ held' \in Seq(Lines)
        /\ saved' \in Indices \cup {Torn} /\ index' \in Indices /\ written' \in Nat
    BY <1>1, <1>2, <1>3 DEF Crash, TypeOK, disk
  <2>2. open' \in BOOLEAN /\ good' \in BOOLEAN
    BY <1>1, <1>2, <1>3 DEF Crash, TypeOK, disk
  <2>3. /\ pc' \in {"down", "open", "saveState", "writeState", "idle", "roll", "next", "write"}
        /\ line' \in Lines \cup {NoLine} /\ failCount' \in 0..FailCount
        /\ start' \in 0..MaxStarts /\ appended' \in 0..MaxLines
        /\ failures' \in 0..MaxFailures
    BY <1>1, <1>2, <1>3 DEF Crash, TypeOK, disk
  <2> QED
    BY <2>1, <2>2, <2>3 DEF TypeOK
<1>4. CASE Start
  BY <1>1, <1>2, <1>4 DEF Start, TypeOK, disk, stream
<1>5. CASE OpenFile
  <2>1. files[index] \in Seq(Lines)
    BY DEF TypeOK
  <2>2. Bytes(files[index]) \in Nat
    BY <2>1, BytesTyped
  <2> QED
    BY <1>5, <2>2 DEF OpenFile, TypeOK, disk
<1>6. CASE StartFails
  <2>1. files' \in [Indices -> Seq(Lines)] /\ held' \in Seq(Lines)
        /\ saved' \in Indices \cup {Torn} /\ index' \in Indices /\ written' \in Nat
    BY <1>1, <1>2, <1>6 DEF StartFails, Fails, TypeOK, disk
  <2>2. open' \in BOOLEAN /\ good' \in BOOLEAN
    BY <1>1, <1>2, <1>6 DEF StartFails, Fails, TypeOK, disk
  <2>3. /\ pc' \in {"down", "open", "saveState", "writeState", "idle", "roll", "next", "write"}
        /\ line' \in Lines \cup {NoLine} /\ failCount' \in 0..FailCount
        /\ start' \in 0..MaxStarts /\ appended' \in 0..MaxLines
        /\ failures' \in 0..MaxFailures
    BY <1>1, <1>2, <1>6 DEF StartFails, Fails, TypeOK, disk
  <2> QED
    BY <2>1, <2>2, <2>3 DEF TypeOK
<1>7. CASE TruncateState
  BY <1>7 DEF TruncateState, TypeOK, stream
<1>8. CASE WriteState
  BY <1>8 DEF WriteState, Saved, TypeOK, stream
<1>9. CASE WriteStateFails
  BY <1>1, <1>9 DEF WriteStateFails, Saved, Fails, TypeOK, disk, stream
<1>10. CASE SaveStateFails
  BY <1>1, <1>10 DEF SaveStateFails, Fails, TypeOK, disk, stream
<1>11. CASE AppendRefused
  BY <1>1, <1>11 DEF AppendRefused, TypeOK, disk, stream
<1>12. CASE Write
  <2>1. line \in Lines /\ line.n = appended + 1
    BY <1>12 DEF Write, TypeOK, StagesAgree
  <2>2. PICK a, b : Emits(a, b)
    BY <1>12, <2>1, WriteEmits
  <2>3. files' \in [Indices -> Seq(Lines)] /\ held' \in Seq(Lines)
    BY <2>2, EmitsFacts DEF Emits, Disks
  <2>4. line.n \in 1..MaxLines /\ line.len \in Nat
    BY <2>1, LineTyped DEF Lines
  <2>5. /\ saved' = saved /\ index' = index /\ written' = written + line.len
        /\ open' = open /\ good' = good /\ failCount' = failCount /\ pc' = "idle"
        /\ line' = NoLine /\ start' = start /\ appended' = line.n /\ failures' = failures
    BY <1>12, <2>1 DEF Write
  <2>6. pc' \in {"down", "open", "saveState", "writeState", "idle", "roll", "next", "write"}
    BY <2>5
  <2>7. written' \in Nat /\ appended' \in 0..MaxLines
    <3>1. written \in Nat
      BY DEF TypeOK
    <3>2. \A x \in 1..MaxLines : x \in 0..MaxLines
      BY <1>1
    <3> QED
      BY <2>4, <2>5, <3>1, <3>2
  <2>8. line' \in Lines \cup {NoLine}
    BY <2>5
  <2> QED
    BY <2>3, <2>5, <2>6, <2>7, <2>8, Zenon DEF TypeOK
<1>13. CASE WriteFails \/ FlushFails
  <2>1. PICK a : Emits(a, <<>>)
    BY <1>13, FailEmits
  <2>2. files' \in [Indices -> Seq(Lines)] /\ held' \in Seq(Lines)
    BY <2>1, EmitsFacts DEF Emits, Disks
  <2>3. /\ saved' = saved /\ index' = index /\ written' = written /\ open' = open
        /\ good' = FALSE /\ failCount' = failCount /\ pc' = "idle" /\ line' = NoLine
        /\ start' = start /\ appended' = appended
        /\ failures < MaxFailures /\ failures' = failures + 1
    BY <1>13 DEF WriteFails, FlushFails, Fails
  <2>4. good' \in BOOLEAN /\ pc' \in {"down", "open", "saveState", "writeState", "idle", "roll", "next", "write"}
    BY <2>3
  <2>5. failures' \in 0..MaxFailures
    BY <1>1, <2>3 DEF TypeOK
  <2> QED
    BY <2>2, <2>3, <2>4, <2>5, Zenon DEF TypeOK
<1>14. CASE Flush \/ CloseFile
  <2>1. Emits(held, <<>>)
    BY <1>14, FlushEmits
  <2>2. files' \in [Indices -> Seq(Lines)] /\ held' \in Seq(Lines)
    BY <2>1, EmitsFacts DEF Emits, Disks
  <2> QED
    BY <1>14, <2>2 DEF Flush, CloseFile, TypeOK
<1>15. CASE OpenNext
  BY <1>1, <1>2, <1>15 DEF OpenNext, TypeOK
<1>16. CASE OpenNextFails
  <2>1. files' \in [Indices -> Seq(Lines)] /\ held' \in Seq(Lines)
        /\ saved' \in Indices \cup {Torn} /\ index' \in Indices /\ written' \in Nat
    BY <1>1, <1>2, <1>16 DEF OpenNextFails, Fails, TypeOK, disk
  <2>2. open' \in BOOLEAN /\ good' \in BOOLEAN
    BY <1>1, <1>2, <1>16 DEF OpenNextFails, Fails, TypeOK, disk
  <2>3. /\ pc' \in {"down", "open", "saveState", "writeState", "idle", "roll", "next", "write"}
        /\ line' \in Lines \cup {NoLine} /\ failCount' \in 0..FailCount
        /\ start' \in 0..MaxStarts /\ appended' \in 0..MaxLines
        /\ failures' \in 0..MaxFailures
    BY <1>1, <1>2, <1>16 DEF OpenNextFails, Fails, TypeOK, disk
  <2> QED
    BY <2>1, <2>2, <2>3 DEF TypeOK
<1>17. CASE \E len \in Lens : AppendLine(len)
  <2>1. PICK len \in Lens : AppendLine(len)
    BY <1>17
  <2>2. start \in 1..MaxStarts /\ appended + 1 \in 1..MaxLines
    BY <1>1, <2>1 DEF AppendLine, TypeOK, StagesAgree
  <2>3. line' \in Lines
    BY <2>1, <2>2 DEF AppendLine, Lines
  <2> QED
    BY <2>1, <2>3 DEF AppendLine, TypeOK, disk, stream
<1>18. CASE UNCHANGED vars
  BY <1>18 DEF vars, TypeOK
<1> QED
  BY <1>3, <1>4, <1>5, <1>6, <1>7, <1>8, <1>9, <1>10, <1>11, <1>12, <1>13, <1>14, <1>15, <1>16,
     <1>17, <1>18 DEF Next

(* Where the program stands. *)
LEMMA StagesStep == TypeOK /\ StagesAgree /\ [Next]_vars => StagesAgree'
<1> SUFFICES ASSUME TypeOK, StagesAgree, [Next]_vars PROVE StagesAgree'
  OBVIOUS
<1>1. /\ start \in Nat /\ appended \in Nat /\ NoLine.n = 0
      /\ open \in BOOLEAN /\ good \in BOOLEAN
  BY LogFileAssumption DEF TypeOK, NoLine
<1>2. CASE Crash
  BY <1>2 DEF Crash, StagesAgree
<1>3. CASE Start
  BY <1>1, <1>3 DEF Start, StagesAgree, stream
<1>4. CASE OpenFile
  BY <1>4 DEF OpenFile, StagesAgree
<1>5. CASE StartFails
  BY <1>5 DEF StartFails, StagesAgree
<1>6. CASE TruncateState
  BY <1>6 DEF TruncateState, StagesAgree, stream
<1>7. CASE WriteState \/ WriteStateFails
  BY <1>7 DEF WriteState, WriteStateFails, Saved, StagesAgree, stream
<1>8. CASE SaveStateFails
  BY <1>8 DEF SaveStateFails, StagesAgree, stream
<1>9. CASE AppendRefused
  BY <1>9 DEF AppendRefused, StagesAgree, stream
<1>10. CASE Write
  BY <1>10 DEF Write, StagesAgree
<1>11. CASE WriteFails \/ FlushFails
  BY <1>11 DEF WriteFails, FlushFails, StagesAgree
<1>12. CASE Flush \/ CloseFile
  BY <1>12 DEF Flush, CloseFile, StagesAgree
<1>13. CASE OpenNext \/ OpenNextFails
  BY <1>13 DEF OpenNext, OpenNextFails, StagesAgree
<1>14. CASE \E len \in Lens : AppendLine(len)
  <2>1. PICK len \in Lens : AppendLine(len)
    BY <1>14
  <2>2. line'.start = start /\ line'.n = appended + 1 /\ line' # NoLine
    BY <1>1, <2>1 DEF AppendLine
  <2> QED
    BY <2>1, <2>2 DEF AppendLine, StagesAgree, stream
<1>15. CASE UNCHANGED vars
  BY <1>15 DEF vars, StagesAgree
<1> QED
  BY <1>2, <1>3, <1>4, <1>5, <1>6, <1>7, <1>8, <1>9, <1>10, <1>11, <1>12, <1>13, <1>14, <1>15
     DEF Next

-----------------------------------------------------------------------------
(* How long files get.                                                     *)

Bounded(f, i, h) == \A j \in Indices : Bytes(f[j]) + (IF j = i THEN Bytes(h) ELSE 0) <= RollSize

LEMMA BoundedIs ==
    ASSUME NEW f \in Disks, NEW i \in Indices, NEW h \in Seq(Lines)
    PROVE  Bounded(f, i, h) <=>
              /\ \A j \in Indices : Bytes(f[j]) <= RollSize
              /\ Bytes(f[i]) + Bytes(h) <= RollSize
<1>1. Bytes(h) \in Nat /\ RollSize \in Nat /\ \A j \in Indices : Bytes(f[j]) \in Nat
  <2>1. \A j \in Indices : f[j] \in Seq(Lines)
    BY DEF Disks
  <2> QED
    BY <2>1, BytesTyped, LogFileAssumption
<1>2. ASSUME Bounded(f, i, h)
      PROVE  /\ \A j \in Indices : Bytes(f[j]) <= RollSize
             /\ Bytes(f[i]) + Bytes(h) <= RollSize
  BY <1>1, <1>2 DEF Bounded
<1>3. ASSUME \A j \in Indices : Bytes(f[j]) <= RollSize, Bytes(f[i]) + Bytes(h) <= RollSize
      PROVE  Bounded(f, i, h)
  BY <1>1, <1>3 DEF Bounded
<1> QED
  BY <1>2, <1>3

LEMMA FilesBoundedIs ==
    /\ FilesBounded = Bounded(files, index, held)
    /\ FilesBounded' = Bounded(files', index', held')
<1>1. FilesBounded = Bounded(files, index, held)
  BY DEF FilesBounded, Bounded
<1>2. FilesBounded' = Bounded(files', index', held')
  BY DEF FilesBounded, Bounded
<1> QED
  BY <1>1, <1>2

(* What is written was counted before. *)
LEMMA EmitsBytes ==
    ASSUME TypeOK, FilesBounded, NEW a, NEW b, Emits(a, b),
           Bytes(files[index]) + (Bytes(a) + Bytes(b)) <= RollSize
    PROVE  /\ FilesBounded'
           /\ Bytes(files'[index']) + Bytes(held') = Bytes(files[index]) + (Bytes(a) + Bytes(b))
<1>1. /\ files' \in Disks /\ files \in Disks /\ index \in Indices /\ index' = index
      /\ held' = b /\ b \in Seq(Lines) /\ held \in Seq(Lines)
      /\ \A j \in Indices \ {index} : files'[j] = files[j]
      /\ Bytes(files'[index]) = Bytes(files[index]) + Bytes(a)
      /\ Bytes(files[index]) \in Nat /\ Bytes(a) \in Nat /\ Bytes(b) \in Nat
      /\ RollSize \in Nat
  BY EmitsFacts, LogFileAssumption DEF Emits, TypeOK
<1>2. \A j \in Indices : Bytes(files[j]) <= RollSize
  BY <1>1, FilesBoundedIs, BoundedIs
<1>3. Bytes(files'[index]) + Bytes(b) = Bytes(files[index]) + (Bytes(a) + Bytes(b))
  BY <1>1
<1>4. ASSUME NEW j \in Indices PROVE Bytes(files'[j]) <= RollSize
  <2>1. CASE j = index
    BY <1>1, <1>3, <2>1
  <2>2. CASE j # index
    BY <1>1, <1>2, <2>2
  <2> QED
    BY <2>1, <2>2
<1>5. Bounded(files', index, b)
  BY <1>1, <1>3, <1>4, BoundedIs
<1> QED
  BY <1>1, <1>3, <1>5, FilesBoundedIs

(* Steps after which the stream holds nothing, and no file has grown. *)
LEMMA NothingHeld ==
    ASSUME FilesBounded, TypeOK, TypeOK', held' = <<>>,
           \A j \in Indices : files'[j] = files[j] \/ files'[j] = <<>>
    PROVE  FilesBounded'
<1>1. /\ files \in Disks /\ files' \in Disks /\ index \in Indices /\ index' \in Indices
      /\ held \in Seq(Lines) /\ held' \in Seq(Lines) /\ RollSize \in Nat
  BY LogFileAssumption DEF TypeOK, Disks
<1>2. \A j \in Indices : Bytes(files[j]) <= RollSize
  BY <1>1, FilesBoundedIs, BoundedIs
<1>3. Bytes(held') = 0
  BY BytesEmpty
<1>4. ASSUME NEW j \in Indices PROVE Bytes(files'[j]) <= RollSize /\ Bytes(files'[j]) \in Nat
  <2>1. files'[j] \in Seq(Lines)
    BY <1>1 DEF Disks
  <2>2. Bytes(files'[j]) \in Nat
    BY <2>1, BytesTyped
  <2>3. CASE files'[j] = files[j]
    BY <1>2, <2>2, <2>3
  <2>4. CASE files'[j] = <<>>
    BY <1>1, <2>2, <2>4, BytesEmpty
  <2> QED
    BY <2>2, <2>3, <2>4
<1>5. Bytes(files'[index']) + Bytes(held') <= RollSize
  BY <1>1, <1>3, <1>4
<1> QED
  BY <1>1, <1>4, <1>5, FilesBoundedIs, BoundedIs

LEMMA BytesStep ==
    ASSUME TypeOK, TypeOK', StagesAgree, FilesBounded, Counted, LineFits, [Next]_vars
    PROVE  FilesBounded' /\ Counted' /\ LineFits'
<1>1. /\ files \in Disks /\ index \in Indices /\ held \in Seq(Lines) /\ files[index] \in Seq(Lines)
      /\ written \in Nat /\ RollSize \in Nat /\ MaxFiles \in Nat \ {0}
      /\ line # NoLine => line \in Lines /\ line.len \in Nat /\ line.len <= RollSize
  BY LogFileAssumption, LineTyped DEF TypeOK, Disks
<1>2. /\ Bytes(files[index]) \in Nat /\ Bytes(held) \in Nat
      /\ Bytes(files[index]) + Bytes(held) <= RollSize
  BY <1>1, BytesTyped, FilesBoundedIs, BoundedIs
<1>3. CASE Crash \/ StartFails
  <2>1. /\ held' = <<>> /\ files' = files /\ open' = FALSE /\ pc' = "down"
    BY <1>3 DEF Crash, StartFails, disk
  <2>2. FilesBounded'
    BY <2>1, NothingHeld
  <2> QED
    BY <2>1, <2>2 DEF Counted, LineFits
<1>4. CASE Start
  <2>1. /\ held' = <<>> /\ files' = files /\ open' = FALSE /\ pc' = "open"
    BY <1>4 DEF Start, StagesAgree, disk, stream
  <2>2. FilesBounded'
    BY <2>1, NothingHeld
  <2> QED
    BY <2>1, <2>2 DEF Counted, LineFits
<1>5. CASE OpenFile
  <2>1. /\ held = <<>> /\ held' = held /\ files' = files /\ index' = index /\ line' = NoLine
        /\ written' = Bytes(files[index])
    BY <1>5 DEF OpenFile, StagesAgree, disk
  <2>2. FilesBounded'
    BY <2>1, FilesBoundedIs
  <2>3. Bytes(held') = 0
    BY <2>1, BytesEmpty
  <2> QED
    BY <1>2, <2>1, <2>2, <2>3 DEF Counted, LineFits
<1>6. CASE TruncateState \/ WriteState \/ WriteStateFails \/ SaveStateFails \/ AppendRefused
  <2>1. /\ held' = held /\ files' = files /\ index' = index /\ written' = written
        /\ open' = open /\ good' = good /\ (line' = line \/ line' = NoLine)
        /\ pc \in {"saveState", "writeState", "idle"}
        /\ pc = "idle" => pc' = "idle"
    BY <1>6 DEF TruncateState, WriteState, WriteStateFails, SaveStateFails, AppendRefused, disk, stream
  <2>2. FilesBounded'
    BY <2>1, FilesBoundedIs
  <2> QED
    BY <2>1, <2>2 DEF Counted, LineFits
<1>7. CASE \E len \in Lens : AppendLine(len)
  <2>1. PICK len \in Lens : AppendLine(len)
    BY <1>7
  <2>2. /\ held' = held /\ files' = files /\ index' = index /\ written' = written
        /\ open /\ good /\ open' = open /\ good' = good /\ line'.len = len
        /\ pc' = IF MustRoll(len) THEN "roll" ELSE "write"
    BY <2>1 DEF AppendLine, disk, stream
  <2>3. FilesBounded'
    BY <2>2, FilesBoundedIs
  <2>4. Counted'
    BY <2>2 DEF Counted
  <2>5. written <= RollSize
    BY <1>2, <2>2 DEF Counted
  <2>6. len \in Nat /\ len <= RollSize
    BY <2>1, LogFileAssumption
  <2>7. ~MustRoll(len) => written + len <= RollSize
    BY <1>1, <2>5, <2>6 DEF MustRoll
  <2> QED
    BY <2>2, <2>3, <2>4, <2>7 DEF LineFits
<1>8. CASE Write
  <2>1. line \in Lines /\ open /\ good /\ written + line.len <= RollSize /\ line.len \in Nat
    BY <1>1, <1>8 DEF Write, StagesAgree, LineFits
  <2>2. PICK a, b : Emits(a, b) /\ Join(a, b) = Append(held, line)
    BY <1>8, <2>1, WriteEmits
  <2>3. a \in Seq(Lines) /\ b \in Seq(Lines)
    BY <2>2 DEF Emits
  <2>4. Bytes(a) + Bytes(b) = Bytes(held) + line.len
    <3>1. Bytes(Join(a, b)) = Bytes(a) + Bytes(b)
      BY <2>3, BytesConcat
    <3>2. Bytes(Append(held, line)) = Bytes(held) + line.len
      BY <1>1, <2>1, BytesAppend
    <3> QED
      BY <2>2, <3>1, <3>2, Zenon
  <2>5. Bytes(files[index]) + (Bytes(a) + Bytes(b)) = written + line.len
    BY <1>2, <2>1, <2>4 DEF Counted
  <2>6. /\ FilesBounded'
        /\ Bytes(files'[index']) + Bytes(held') = Bytes(files[index]) + (Bytes(a) + Bytes(b))
    BY <2>1, <2>2, <2>5, EmitsBytes
  <2>7. written' = written + line.len /\ pc' = "idle"
    BY <1>8 DEF Write
  <2> QED
    BY <2>5, <2>6, <2>7 DEF Counted, LineFits
<1>9. CASE WriteFails \/ FlushFails
  <2>1. PICK a : \E b \in Seq(Lines) : Emits(a, <<>>) /\ Join(a, b) = held
    BY <1>9, FailEmits
  <2>2. PICK b \in Seq(Lines) : Emits(a, <<>>) /\ Join(a, b) = held
    BY <2>1
  <2>3. a \in Seq(Lines)
    BY <2>2 DEF Emits
  <2>4. Bytes(held) = Bytes(a) + Bytes(b) /\ Bytes(a) \in Nat /\ Bytes(b) \in Nat
    BY <2>2, <2>3, BytesConcat, BytesTyped
  <2>5. Bytes(files[index]) + (Bytes(a) + Bytes(<<>>)) <= RollSize
    BY <1>1, <1>2, <2>4, BytesEmpty
  <2>6. FilesBounded'
    BY <2>2, <2>5, EmitsBytes
  <2>7. ~good' /\ pc' = "idle"
    BY <1>9 DEF WriteFails, FlushFails
  <2> QED
    BY <2>6, <2>7 DEF Counted, LineFits
<1>10. CASE Flush \/ CloseFile
  <2>1. Emits(held, <<>>)
    BY <1>10, FlushEmits
  <2>2. Bytes(held) + Bytes(<<>>) = Bytes(held)
    BY <1>2, BytesEmpty
  <2>3. /\ FilesBounded'
        /\ Bytes(files'[index']) + Bytes(held') = Bytes(files[index]) + Bytes(held)
    BY <1>2, <2>1, <2>2, EmitsBytes
  <2>4. written' = written /\ good' = good /\ (~open' \/ open' = open) /\ pc' \in {"idle", "next"}
    BY <1>10 DEF Flush, CloseFile
  <2> QED
    BY <2>3, <2>4 DEF Counted, LineFits
<1>11. CASE OpenNext
  <2>1. /\ held = <<>> /\ held' = held /\ index' = After(index) /\ written' = 0 /\ line' = line
        /\ files' = [files EXCEPT ![After(index)] = <<>>] /\ line # NoLine
    BY <1>11 DEF OpenNext, StagesAgree
  <2>2. After(index) \in Indices
    BY <1>1, AfterIs
  <2>3. \A j \in Indices : files'[j] = IF j = After(index) THEN <<>> ELSE files[j]
    BY <1>1, <2>1, <2>2 DEF Disks
  <2>4. FilesBounded'
    BY <2>1, <2>3, NothingHeld
  <2>5. Bytes(files'[index']) = 0 /\ Bytes(held') = 0
    BY <2>1, <2>2, <2>3, BytesEmpty
  <2>6. Counted'
    BY <2>1, <2>5 DEF Counted
  <2>7. LineFits'
    BY <1>1, <2>1 DEF LineFits
  <2> QED
    BY <2>4, <2>6, <2>7
<1>12. CASE OpenNextFails
  <2>1. /\ held' = <<>> /\ files' = files /\ ~good' /\ pc' = "idle"
    BY <1>12 DEF OpenNextFails, StagesAgree, disk
  <2>2. FilesBounded'
    BY <2>1, NothingHeld
  <2> QED
    BY <2>1, <2>2 DEF Counted, LineFits
<1>13. CASE UNCHANGED vars
  <2>1. /\ held' = held /\ files' = files /\ index' = index /\ written' = written
        /\ open' = open /\ good' = good /\ line' = line /\ pc' = pc
    BY <1>13 DEF vars
  <2>2. FilesBounded'
    BY <2>1, FilesBoundedIs
  <2> QED
    BY <2>1, <2>2 DEF Counted, LineFits
<1> QED
  BY <1>3, <1>4, <1>5, <1>6, <1>7, <1>8, <1>9, <1>10, <1>11, <1>12, <1>13 DEF Next

-----------------------------------------------------------------------------
(* Lines are of this start or of an earlier one.                           *)

Upto(s, st) == \A k \in 1..Len(s) : s[k].start <= st

LEMMA UptoJoin ==
    ASSUME NEW s \in Seq(Lines), NEW t \in Seq(Lines), NEW st
    PROVE  Upto(Join(s, t), st) <=> Upto(s, st) /\ Upto(t, st)
<1> DEFINE m == Len(s)
           n == Len(t)
<1>1. PICK all \in Seq(Lines) : all = Join(s, t)
  BY LinesJoin
<1>2. /\ m \in Nat /\ n \in Nat /\ Len(all) = m + n
      /\ \A k \in 1..m : all[k] = s[k]
      /\ \A k \in 1..n : all[m + k] = t[k]
  <2>1. /\ Len(Join(s, t)) = Len(s) + Len(t)
        /\ \A k \in 1..Len(s) : Join(s, t)[k] = s[k]
        /\ \A k \in 1..Len(t) : Join(s, t)[Len(s) + k] = t[k]
    BY LinesJoin
  <2> QED
    BY <1>1, <2>1
<1>3. ASSUME Upto(all, st) PROVE Upto(s, st) /\ Upto(t, st)
  <2> HIDE DEF m, n
  <2>1. \A k \in 1..m : k \in 1..(m + n)
    BY <1>2
  <2>2. \A k \in 1..n : m + k \in 1..(m + n)
    BY <1>2
  <2>3. \A k \in 1..(m + n) : all[k].start <= st
    BY <1>2, <1>3 DEF Upto
  <2>4. (\A k \in 1..m : s[k].start <= st) /\ (\A k \in 1..n : t[k].start <= st)
    BY <1>2, <2>1, <2>2, <2>3
  <2> QED
    BY <2>4 DEF Upto, m, n
<1>4. ASSUME Upto(s, st), Upto(t, st) PROVE Upto(all, st)
  <2>1. (\A k \in 1..m : s[k].start <= st) /\ (\A k \in 1..n : t[k].start <= st)
    BY <1>4 DEF Upto
  <2> HIDE DEF m, n
  <2>2. ASSUME NEW k \in 1..(m + n) PROVE all[k].start <= st
    <3>1. CASE k \in 1..m
      BY <1>2, <2>1, <3>1
    <3>2. CASE k \notin 1..m
      <4>1. k - m \in 1..n /\ m + (k - m) = k
        BY <1>2, <3>2
      <4> QED
        BY <1>2, <2>1, <4>1
    <3> QED
      BY <3>1, <3>2
  <2> QED
    BY <1>2, <2>2 DEF Upto
<1> QED
  BY <1>1, <1>3, <1>4

LEMMA UptoAppend ==
    ASSUME NEW s \in Seq(Lines), NEW l \in Lines, NEW st \in Nat, Upto(s, st), l.start <= st
    PROVE  Upto(Append(s, l), st)
<1>1. /\ Len(s) \in Nat /\ Len(Append(s, l)) = Len(s) + 1 /\ Append(s, l)[Len(s) + 1] = l
      /\ \A k \in 1..Len(s) : Append(s, l)[k] = s[k]
  BY AppendProperties
<1> DEFINE t == Append(s, l)
           n == Len(s)
<1>2. \A k \in 1..n : s[k].start <= st
  BY DEF Upto
<1> HIDE DEF t, n
<1>3. ASSUME NEW k \in 1..(n + 1) PROVE t[k].start <= st
  <2>1. k \in 1..n \/ k = n + 1
    BY <1>1 DEF n
  <2> QED
    BY <1>1, <1>2, <2>1 DEF t, n
<1> QED
  BY <1>1, <1>3 DEF Upto, t, n

LEMMA UptoEmpty == \A st : Upto(<<>>, st)
BY DEF Upto

LEMMA NothingFromLaterIs ==
    /\ NothingFromLater <=>
          /\ \A i \in Indices : Upto(files[i], start)
          /\ Upto(held, start)
          /\ pc = "open" => \A i \in Indices : ~HasOwn(i)
    /\ NothingFromLater' <=>
          /\ \A i \in Indices : Upto(files'[i], start')
          /\ Upto(held', start')
          /\ pc' = "open" => \A i \in Indices : ~HasOwn(i)'
BY DEF NothingFromLater, Upto

LEMMA LaterStep ==
    ASSUME TypeOK, TypeOK', StagesAgree, NothingFromLater, [Next]_vars
    PROVE  NothingFromLater'
<1>1. /\ files \in Disks /\ index \in Indices /\ held \in Seq(Lines) /\ start \in Nat
      /\ \A i \in Indices : Upto(files[i], start) /\ files[i] \in Seq(Lines)
      /\ Upto(held, start)
  <2>1. files \in [Indices -> Seq(Lines)] /\ start \in Nat
    BY LogFileAssumption DEF TypeOK
  <2>2. files \in Disks /\ index \in Indices /\ held \in Seq(Lines)
    BY DEF TypeOK, Disks
  <2>3. \A i \in Indices : files[i] \in Seq(Lines)
    BY <2>1
  <2> QED
    BY <2>1, <2>2, <2>3, NothingFromLaterIs
<1>2. ASSUME NEW a, NEW b, Emits(a, b), Upto(a, start), Upto(b, start), start' = start, pc' # "open"
      PROVE  NothingFromLater'
  <2>1. /\ a \in Seq(Lines) /\ held' = b
        /\ files'[index] = Join(files[index], a)
        /\ \A j \in Indices \ {index} : files'[j] = files[j]
    BY <1>2, EmitsFacts DEF Emits
  <2>2. Upto(Join(files[index], a), start)
    BY <1>1, <1>2, <2>1, UptoJoin
  <2>3. \A i \in Indices : Upto(files'[i], start')
    BY <1>1, <1>2, <2>1, <2>2
  <2> QED
    BY <1>2, <2>1, <2>3, NothingFromLaterIs
<1>3. ASSUME start' = start, held' = held \/ held' = <<>>, pc' # "open",
             \A i \in Indices : files'[i] = files[i] \/ files'[i] = <<>>
      PROVE  NothingFromLater'
  <2>1. Upto(held', start') /\ \A i \in Indices : Upto(files'[i], start')
    BY <1>1, <1>3, UptoEmpty
  <2> QED
    BY <1>3, <2>1, NothingFromLaterIs
<1>4. CASE Start
  <2>1. start' = start + 1 /\ held' = held /\ files' = files
    BY <1>4 DEF Start, disk, stream
  <2>2. ASSUME NEW s \in Seq(Lines), Upto(s, start)
        PROVE  Upto(s, start + 1) /\ \A k \in 1..Len(s) : s[k].start # start + 1
    <3>1. \A k \in 1..Len(s) : s[k].start \in Nat /\ s[k].start <= start
      BY <2>2, LineTyped, ElementOfSeq DEF Upto
    <3>2. \A x \in Nat : x <= start => x <= start + 1 /\ x # start + 1
      BY <1>1
    <3> QED
      BY <3>1, <3>2 DEF Upto
  <2>3. \A i \in Indices : ~HasOwn(i)'
    BY <1>1, <2>1, <2>2 DEF HasOwn
  <2>4. Upto(held', start') /\ \A i \in Indices : Upto(files'[i], start')
    BY <1>1, <2>1, <2>2
  <2> QED
    BY <2>3, <2>4, NothingFromLaterIs
<1>5. CASE Crash \/ OpenFile \/ StartFails \/ TruncateState \/ WriteState \/ WriteStateFails
           \/ SaveStateFails \/ AppendRefused \/ OpenNextFails \/ \E len \in Lens : AppendLine(len)
  <2>1. start' = start /\ (held' = held \/ held' = <<>>) /\ pc' # "open" /\ files' = files
    BY <1>5 DEF Crash, OpenFile, StartFails, TruncateState, WriteState, WriteStateFails, Saved,
       SaveStateFails, AppendRefused, OpenNextFails, AppendLine, disk, stream
  <2> QED
    BY <1>3, <2>1
<1>6. CASE OpenNext
  <2>1. /\ start' = start /\ held' = held /\ pc' # "open"
        /\ files' = [files EXCEPT ![After(index)] = <<>>]
    BY <1>6 DEF OpenNext
  <2>2. \A i \in Indices : files'[i] = files[i] \/ files'[i] = <<>>
    BY <1>1, <2>1 DEF Disks
  <2> QED
    BY <1>3, <2>1, <2>2
<1>7. CASE Write
  <2>1. line \in Lines /\ line.start = start /\ start' = start /\ pc' # "open"
    BY <1>7 DEF Write, StagesAgree, TypeOK
  <2>2. PICK a, b : Emits(a, b) /\ Join(a, b) = Append(held, line)
    BY <1>7, <2>1, WriteEmits
  <2>3. Upto(Append(held, line), start)
    BY <1>1, <2>1, UptoAppend
  <2>4. a \in Seq(Lines) /\ b \in Seq(Lines)
    BY <2>2 DEF Emits
  <2>5. Upto(a, start) /\ Upto(b, start)
    BY <2>2, <2>3, <2>4, UptoJoin
  <2> QED
    BY <1>2, <2>1, <2>2, <2>5
<1>8. CASE WriteFails \/ FlushFails
  <2>1. start' = start /\ pc' # "open"
    BY <1>8 DEF WriteFails, FlushFails
  <2>2. PICK a : \E b \in Seq(Lines) : Emits(a, <<>>) /\ Join(a, b) = held
    BY <1>8, FailEmits
  <2>3. PICK b \in Seq(Lines) : Emits(a, <<>>) /\ Join(a, b) = held
    BY <2>2
  <2>4. a \in Seq(Lines)
    BY <2>3 DEF Emits
  <2>5. Upto(a, start) /\ Upto(<<>>, start)
    BY <1>1, <2>3, <2>4, UptoJoin, UptoEmpty
  <2> QED
    BY <1>2, <2>1, <2>3, <2>5
<1>9. CASE Flush \/ CloseFile
  <2>1. start' = start /\ pc' # "open"
    BY <1>9 DEF Flush, CloseFile
  <2>2. Emits(held, <<>>)
    BY <1>9, FlushEmits
  <2> QED
    BY <1>1, <1>2, <2>1, <2>2, UptoEmpty
<1>10. CASE UNCHANGED vars
  <2>1. start' = start /\ held' = held /\ files' = files /\ pc' = pc
    BY <1>10 DEF vars
  <2> QED
    BY <2>1 DEF NothingFromLater, HasOwn
<1> QED
  BY <1>4, <1>5, <1>6, <1>7, <1>8, <1>9, <1>10 DEF Next

-----------------------------------------------------------------------------
(* The order of what is kept.                                              *)

Ordered(s, st, n, g) == \E last \in 0..n : InOrder(s, st, last) /\ (g => last = n)

LEMMA RingInOrderIs ==
    /\ RingInOrder <=> (open \/ Opening => Ordered(Kept, start, appended, good))
    /\ RingInOrder' <=> (open' \/ Opening' => Ordered(Kept', start', appended', good'))
<1>1. RingInOrder <=> (open \/ Opening => Ordered(Kept, start, appended, good))
  BY KeptIs DEF RingInOrder, Ordered
<1>2. RingInOrder' <=> (open' \/ Opening' => Ordered(Kept', start', appended', good'))
  BY KeptIs DEF RingInOrder, Ordered
<1> QED
  BY <1>1, <1>2

LEMMA KeptTyped ==
    ASSUME TypeOK
    PROVE  Content \in Seq(Lines) /\ held \in Seq(Lines) /\ Kept \in Seq(Lines)
<1>1. files \in Disks /\ index \in Indices /\ held \in Seq(Lines)
  BY DEF TypeOK, Disks
<1>2. Content \in Seq(Lines)
  BY <1>1, RingTyped DEF Content
<1> QED
  BY <1>1, <1>2, LinesJoin, KeptIs

(* When a new start begins, none of the lines are its own. *)
LEMMA NoneKeptIsLater ==
    ASSUME NEW f \in Disks, NEW i \in Indices, NEW st \in Nat, \A j \in Indices : Upto(f[j], st)
    PROVE  LET s == FlattenSeq(Ring(f, i)) IN \A k \in 1..Len(s) : s[k].start # st + 1
<1> DEFINE S == {l \in Lines : l.start # st + 1}
<1>1. ASSUME NEW j \in Indices PROVE f[j] \in Seq(S)
  <2>1. f[j] \in Seq(Lines)
    BY DEF Disks
  <2>2. ASSUME NEW k \in 1..Len(f[j]) PROVE f[j][k] \in S
    <3>1. f[j][k] \in Lines /\ f[j][k].start \in Nat /\ f[j][k].start <= st
      BY <2>1, LineTyped, ElementOfSeq DEF Upto
    <3>2. \A x \in Nat : x <= st => x # st + 1
      OBVIOUS
    <3> QED
      BY <3>1, <3>2
  <2> HIDE DEF S
  <2>3. Len(f[j]) \in Nat /\ f[j] \in [1..Len(f[j]) -> S]
    BY <2>1, <2>2
  <2> QED
    BY <2>3
<1> HIDE DEF S
<1>2. ASSUME NEW k \in 1..MaxFiles PROVE f[Place(i, k)] \in Seq(S)
  BY <1>1, PlaceIs
<1>3. MaxFiles \in Nat
  BY LogFileAssumption
<1>4. Ring(f, i) \in [1..MaxFiles -> Seq(S)]
  BY <1>2 DEF Ring
<1>5. Ring(f, i) \in Seq(Seq(S))
  BY <1>3, <1>4
<1>6. FlattenSeq(Ring(f, i)) \in Seq(S)
  BY <1>5, FlattenTyped
<1>7. \A k \in 1..Len(FlattenSeq(Ring(f, i))) : FlattenSeq(Ring(f, i))[k] \in S
  BY <1>6, ElementOfSeq
<1> QED
  BY <1>7 DEF S

LEMMA OrderStep ==
    ASSUME TypeOK, TypeOK', StagesAgree, NothingFromLater, RingInOrder, [Next]_vars
    PROVE  RingInOrder'
<1>1. /\ files \in Disks /\ index \in Indices /\ held \in Seq(Lines) /\ start \in Nat
      /\ appended \in Nat /\ Content \in Seq(Lines) /\ Kept \in Seq(Lines)
      /\ Kept = Join(Content, held)
  <2>1. appended \in Nat /\ start \in Nat
    BY LogFileAssumption DEF TypeOK
  <2> QED
    BY <2>1, KeptTyped, KeptIs DEF TypeOK, Disks
<1>2. ASSUME open \/ Opening, Kept' = Kept, start' = start, appended' = appended, good' = good
      PROVE  RingInOrder'
  <2>1. Ordered(Kept, start, appended, good)
    BY <1>2, RingInOrderIs
  <2> QED
    BY <1>2, <2>1, RingInOrderIs
<1>3. ASSUME files' = files, index' = index, held' = held PROVE Kept' = Kept
  BY <1>3 DEF Kept
<1>4. CASE Crash \/ StartFails \/ OpenNextFails
  <2>1. ~open' /\ ~Opening'
    BY <1>4 DEF Crash, StartFails, OpenNextFails, Opening, StagesAgree
  <2> QED
    BY <2>1, RingInOrderIs
<1>5. CASE Start
  <2>1. /\ start' = start + 1 /\ appended' = 0 /\ files' = files /\ held' = <<>> /\ ~good'
        /\ index' \in Indices
    BY <1>5 DEF Start, StagesAgree, disk, stream, TypeOK
  <2>2. Content' = FlattenSeq(Ring(files, index')) /\ Content' \in Seq(Lines)
    <3>1. Content' = FlattenSeq(Ring(files, index'))
      BY <2>1 DEF Content
    <3>2. FlattenSeq(Ring(files, index')) \in Seq(Lines)
      BY <1>1, <2>1, RingTyped
    <3> QED
      BY <3>1, <3>2
  <2>3. Kept' = Content'
    <3>1. Kept' = Join(Content', <<>>)
      BY <2>1, KeptIs
    <3>2. Join(Content', <<>>) = Content'
      BY <2>2, JoinFacts
    <3> QED
      BY <3>1, <3>2
  <2>4. \A k \in 1..Len(Kept') : Kept'[k].start # start + 1
    <3>1. \A j \in Indices : Upto(files[j], start)
      BY NothingFromLaterIs
    <3> QED
      BY <1>1, <2>1, <2>2, <2>3, <3>1, NoneKeptIsLater
  <2>5. InOrder(Kept', start', 0)
    BY <2>1, <2>2, <2>3, <2>4, InOrderNone
  <2>6. 0 \in 0..0
    OBVIOUS
  <2>7. Ordered(Kept', start', appended', good')
    BY <2>1, <2>5, <2>6 DEF Ordered
  <2> QED
    BY <2>7, RingInOrderIs
<1>6. CASE OpenFile
  <2>1. /\ Opening /\ files' = files /\ index' = index /\ held' = held /\ start' = start
        /\ appended' = appended /\ appended = 0
    BY <1>6 DEF OpenFile, StagesAgree, Opening, disk
  <2>2. Kept' = Kept
    BY <1>3, <2>1
  <2>3. PICK last \in 0..appended : InOrder(Kept, start, last)
    BY <2>1, RingInOrderIs DEF Ordered
  <2>4. last = appended
    BY <2>1, <2>3
  <2>5. Ordered(Kept', start', appended', good')
    BY <2>1, <2>2, <2>3, <2>4 DEF Ordered
  <2> QED
    BY <2>5, RingInOrderIs
<1>7. CASE TruncateState \/ WriteState \/ WriteStateFails \/ SaveStateFails \/ AppendRefused
           \/ \E len \in Lens : AppendLine(len)
  <2>1. /\ files' = files /\ index' = index /\ held' = held /\ start' = start
        /\ appended' = appended /\ good' = good /\ open' = open /\ ~Opening'
    BY <1>7 DEF TruncateState, WriteState, WriteStateFails, SaveStateFails, AppendRefused,
       AppendLine, Saved, Opening, disk, stream
  <2>2. Kept' = Kept
    BY <1>3, <2>1
  <2> QED
    BY <1>2, <2>1, <2>2, RingInOrderIs
<1>8. CASE Write
  <2>1. /\ line \in Lines /\ open /\ good /\ line.start = start /\ line.n = appended + 1
        /\ start' = start /\ appended' = appended + 1
    BY <1>8 DEF Write, StagesAgree, TypeOK
  <2>2. PICK a, b : Emits(a, b) /\ Join(a, b) = Append(held, line)
    BY <1>8, <2>1, WriteEmits
  <2>3. Kept' = Append(Kept, line)
    <3>1. Kept' = Join(Content, Append(held, line))
      BY <2>2, EmitsKept
    <3>2. PICK one \in Seq(Lines) : one = <<line>>
      <4>1. <<line>> \in Seq(Lines)
        BY <2>1
      <4> QED
        BY <4>1, Zenon
    <3>3. Append(held, line) = Join(held, one) /\ Append(Kept, line) = Join(Kept, one)
      BY <1>1, <2>1, <3>2, BytesAppend
    <3>4. Join(Join(Content, held), one) = Join(Content, Join(held, one))
      BY <1>1, JoinFacts
    <3> QED
      BY <1>1, <3>1, <3>3, <3>4
  <2>4. InOrder(Kept, start, appended)
    BY <2>1, RingInOrderIs DEF Ordered
  <2>5. InOrder(Append(Kept, line), start, appended + 1)
    BY <1>1, <2>1, <2>4, InOrderAppend
  <2>6. appended + 1 \in 0..(appended + 1)
    BY <1>1
  <2>7. Ordered(Kept', start', appended', good')
    BY <2>1, <2>3, <2>5, <2>6 DEF Ordered
  <2> QED
    BY <2>7, RingInOrderIs
<1>9. CASE WriteFails \/ FlushFails
  <2>1. open /\ start' = start /\ appended' = appended /\ ~good'
    BY <1>9 DEF WriteFails, FlushFails, StagesAgree
  <2>2. PICK a : \E b \in Seq(Lines) : Emits(a, <<>>) /\ Join(a, b) = held
    BY <1>9, FailEmits
  <2>3. PICK b \in Seq(Lines) : Emits(a, <<>>) /\ Join(a, b) = held
    BY <2>2
  <2>4. a \in Seq(Lines)
    BY <2>3 DEF Emits
  <2>5. Kept' = Join(Content, a)
    <3>1. Kept' = Join(Content, Join(a, <<>>))
      BY <2>3, EmitsKept
    <3>2. Join(a, <<>>) = a
      BY <2>4, JoinFacts
    <3> QED
      BY <3>1, <3>2
  <2>6. Kept = Join(Join(Content, a), b) /\ Join(Content, a) \in Seq(Lines)
    BY <1>1, <2>3, <2>4, JoinFacts
  <2>7. PICK last \in 0..appended : InOrder(Kept, start, last)
    BY <2>1, RingInOrderIs DEF Ordered
  <2>8. last \in Nat /\ \A l \in 0..last : l \in 0..appended
    BY <1>1, <2>7
  <2>9. \E l \in 0..last : InOrder(Join(Content, a), start, l)
    BY <2>3, <2>6, <2>7, <2>8, InOrderPrefix
  <2>10. Ordered(Kept', start', appended', good')
    BY <2>1, <2>5, <2>8, <2>9 DEF Ordered
  <2> QED
    BY <2>10, RingInOrderIs
<1>10. CASE Flush \/ CloseFile
  <2>1. open /\ start' = start /\ appended' = appended /\ good' = good
    BY <1>10 DEF Flush, CloseFile, StagesAgree
  <2>2. Emits(held, <<>>)
    BY <1>10, FlushEmits
  <2>3. Kept' = Kept
    <3>1. Kept' = Join(Content, Join(held, <<>>))
      BY <2>2, EmitsKept
    <3>2. Join(held, <<>>) = held
      BY <1>1, JoinFacts
    <3> QED
      BY <1>1, <3>1, <3>2
  <2> QED
    BY <1>2, <2>1, <2>3
<1>11. CASE OpenNext
  <2>1. /\ Opening /\ held = <<>> /\ held' = <<>> /\ start' = start /\ appended' = appended
        /\ good' = good /\ index' = After(index)
        /\ files' = [files EXCEPT ![After(index)] = <<>>]
    BY <1>11 DEF OpenNext, StagesAgree, Opening
  <2>2. After(index) \in Indices /\ files' \in Disks
    BY <1>1, AfterIs DEF TypeOK, Disks
  <2>3. files'[After(index)] = <<>> /\ \A j \in Indices \ {After(index)} : files'[j] = files[j]
    BY <1>1, <2>1, <2>2 DEF Disks
  <2>4. Content = Join(files[After(index)], Content')
    <3>1. FlattenSeq(Ring(files, index))
          = Join(files[After(index)], FlattenSeq(Ring(files', After(index))))
      BY <1>1, <2>2, <2>3, RingMoves
    <3> QED
      BY <2>1, <3>1 DEF Content
  <2>5. files[After(index)] \in Seq(Lines) /\ Content' \in Seq(Lines)
    <3>1. FlattenSeq(Ring(files', After(index))) \in Seq(Lines)
      BY <2>2, RingTyped
    <3> QED
      BY <1>1, <2>1, <2>2, <3>1 DEF Content, Disks
  <2>6. Kept = Content /\ Kept' = Content'
    <3>1. Kept = Join(Content, <<>>) /\ Kept' = Join(Content', <<>>)
      BY <2>1, KeptIs
    <3>2. Join(Content, <<>>) = Content /\ Join(Content', <<>>) = Content'
      BY <1>1, <2>5, JoinFacts
    <3> QED
      BY <3>1, <3>2
  <2>7. PICK last \in 0..appended : InOrder(Kept, start, last) /\ (good => last = appended)
    BY <2>1, RingInOrderIs DEF Ordered
  <2>8. InOrder(Content', start, last)
    BY <2>4, <2>5, <2>6, <2>7, InOrderSuffix
  <2>9. Ordered(Kept', start', appended', good')
    BY <2>1, <2>6, <2>7, <2>8 DEF Ordered
  <2> QED
    BY <2>9, RingInOrderIs
<1>12. CASE UNCHANGED vars
  <2>1. /\ files' = files /\ index' = index /\ held' = held /\ start' = start
        /\ appended' = appended /\ good' = good /\ open' = open /\ Opening' = Opening
    BY <1>12 DEF vars, Opening
  <2>2. Kept' = Kept
    BY <1>3, <2>1
  <2> QED
    BY <1>2, <2>1, <2>2, RingInOrderIs
<1> QED
  BY <1>4, <1>5, <1>6, <1>7, <1>8, <1>9, <1>10, <1>11, <1>12 DEF Next

-----------------------------------------------------------------------------
(* Files that were left.                                                   *)

LEMMA FullStep ==
    ASSUME TypeOK, TypeOK', StagesAgree, Counted, NothingFromLater', RingIsFull, [Next]_vars
    PROVE  RingIsFull'
<1>1. /\ files \in Disks /\ index \in Indices /\ held \in Seq(Lines)
      /\ files[index] \in Seq(Lines) /\ written \in Nat /\ RollSize \in Nat
      /\ After(index) \in Indices
  BY AfterIs, LogFileAssumption DEF TypeOK, Disks
<1>2. ASSUME NEW i \in Indices, files'[i] = files[i], start' = start
      PROVE  HasOwn(i)' = HasOwn(i) /\ Full(i)' = Full(i)
  BY <1>2 DEF HasOwn, Full
<1>3. ASSUME open \/ Opening, start' = start, pc' \notin {"roll", "next"}, index' = index,
             \A i \in Indices \ {index} : files'[i] = files[i]
      PROVE  RingIsFull'
  <2>1. ASSUME NEW i \in Indices, i # index', HasOwn(i)' PROVE Full(i)'
    BY <1>2, <1>3, <2>1 DEF RingIsFull
  <2> QED
    BY <1>3, <2>1 DEF RingIsFull
<1>4. CASE Crash \/ StartFails \/ OpenNextFails
  <2>1. ~open' /\ ~Opening' /\ pc' # "roll"
    BY <1>4 DEF Crash, StartFails, OpenNextFails, Opening, StagesAgree
  <2> QED
    BY <2>1 DEF RingIsFull
<1>5. CASE Start
  <2>1. pc' = "open"
    BY <1>5 DEF Start
  <2>2. \A i \in Indices : ~HasOwn(i)'
    BY <2>1, NothingFromLaterIs
  <2> QED
    BY <2>1, <2>2 DEF RingIsFull
<1>6. CASE OpenFile
  <2>1. Opening /\ start' = start /\ pc' = "saveState" /\ index' = index /\ files' = files
    BY <1>6 DEF OpenFile, Opening, disk
  <2> QED
    BY <1>3, <2>1
<1>7. CASE TruncateState \/ WriteState \/ WriteStateFails \/ SaveStateFails \/ AppendRefused
  <2>1. /\ start' = start /\ pc' \notin {"roll", "next", "open"} /\ index' = index
        /\ files' = files /\ open' = open
    BY <1>7 DEF TruncateState, WriteState, WriteStateFails, SaveStateFails, AppendRefused,
       Saved, disk, stream
  <2>2. CASE open
    BY <1>3, <2>1, <2>2
  <2>3. CASE ~open
    BY <2>1, <2>3 DEF RingIsFull, Opening
  <2> QED
    BY <2>2, <2>3
<1>8. CASE \E len \in Lens : AppendLine(len)
  <2>1. PICK len \in Lens : AppendLine(len)
    BY <1>8
  <2>2. /\ start' = start /\ index' = index /\ files' = files /\ held' = held /\ line'.len = len
        /\ open /\ good /\ pc' = IF MustRoll(len) THEN "roll" ELSE "write"
    BY <2>1 DEF AppendLine, disk, stream
  <2>3. CASE MustRoll(len)
    <3>1. len > RollSize - written /\ len \in Nat
      BY <2>1, <2>3, LogFileAssumption DEF MustRoll
    <3>2. written = Bytes(files[index]) + Bytes(held)
      BY <2>2 DEF Counted
    <3>3. written + len > RollSize
      BY <1>1, <3>1
    <3>4. Bytes(files'[index']) + Bytes(held') + line'.len > RollSize
      BY <2>2, <3>2, <3>3
    <3>5. ASSUME NEW i \in Indices, i # index', HasOwn(i)' PROVE Full(i)'
      BY <1>2, <2>2, <3>5 DEF RingIsFull
    <3> QED
      BY <2>2, <2>3, <3>4, <3>5 DEF RingIsFull
  <2>4. CASE ~MustRoll(len)
    <3>1. pc' \notin {"roll", "next"}
      BY <2>2, <2>4
    <3> QED
      BY <1>3, <2>2, <3>1
  <2> QED
    BY <2>3, <2>4
<1>9. CASE Write \/ WriteFails \/ Flush \/ FlushFails
  <2>1. open /\ start' = start /\ pc' = "idle" /\ index' = index
    BY <1>9 DEF Write, WriteFails, Flush, FlushFails, StagesAgree
  <2>2. \A i \in Indices \ {index} : files'[i] = files[i]
    <3>1. CASE Write
      <4>1. line \in Lines
        BY <3>1 DEF Write, StagesAgree, TypeOK
      <4> QED
        BY <3>1, <4>1, WriteEmits, EmitsFacts
    <3>2. CASE WriteFails \/ FlushFails
      BY <3>2, FailEmits, EmitsFacts
    <3>3. CASE Flush
      BY <3>3, FlushEmits, EmitsFacts
    <3> QED
      BY <1>9, <3>1, <3>2, <3>3
  <2> QED
    BY <1>3, <2>1, <2>2
<1>10. CASE CloseFile
  <2>1. /\ open /\ start' = start /\ pc = "roll" /\ pc' = "next" /\ index' = index
        /\ line \in Lines
    BY <1>10 DEF CloseFile, StagesAgree, TypeOK
  <2>2. Emits(held, <<>>)
    BY <1>10, FlushEmits
  <2>3. /\ \A i \in Indices \ {index} : files'[i] = files[i]
        /\ Bytes(files'[index]) = Bytes(files[index]) + Bytes(held)
    BY <2>2, EmitsFacts
  <2>4. Bytes(files'[index]) + line.len > RollSize
    BY <2>1, <2>3 DEF RingIsFull
  <2>5. ASSUME NEW i \in Indices, HasOwn(i)' PROVE Full(i)'
    <3>1. CASE i = index
      <4>1. line.len \in Lens
        BY <2>1, LineTyped
      <4> QED
        BY <2>4, <3>1, <4>1 DEF Full
    <3>2. CASE i # index
      BY <1>2, <2>1, <2>3, <2>5, <3>2 DEF RingIsFull
    <3> QED
      BY <3>1, <3>2
  <2> QED
    BY <2>1, <2>5 DEF RingIsFull
<1>11. CASE OpenNext
  <2>1. /\ pc = "next" /\ Opening /\ start' = start /\ pc' = "saveState" /\ index' = After(index)
        /\ files' = [files EXCEPT ![After(index)] = <<>>]
    BY <1>11 DEF OpenNext, Opening
  <2>2. \A j \in Indices \ {After(index)} : files'[j] = files[j]
    BY <1>1, <2>1 DEF Disks
  <2>3. ASSUME NEW i \in Indices, i # index', HasOwn(i)' PROVE Full(i)'
    BY <1>2, <2>1, <2>2, <2>3 DEF RingIsFull
  <2> QED
    BY <2>1, <2>3 DEF RingIsFull
<1>12. CASE UNCHANGED vars
  <2>1. /\ files' = files /\ index' = index /\ held' = held /\ start' = start /\ line' = line
        /\ pc' = pc /\ open' = open
    BY <1>12 DEF vars
  <2>2. Opening' = Opening /\ \A i \in Indices : HasOwn(i)' = HasOwn(i) /\ Full(i)' = Full(i)
    BY <1>2, <2>1 DEF Opening
  <2> QED
    BY <2>1, <2>2 DEF RingIsFull
<1> QED
  BY <1>4, <1>5, <1>6, <1>7, <1>8, <1>9, <1>10, <1>11, <1>12 DEF Next

-----------------------------------------------------------------------------
(* What the log file promises.                                             *)

(* The inductive invariant holds in every state, for any number of files,   *)
(* any roll size, any lengths of lines, and any number of starts, crashes   *)
(* and failures.                                                           *)
THEOREM Invariance == Spec => []IInv
<1>1. Init => IInv
  BY InitIInv
<1>2. IInv /\ [Next]_vars => IInv'
  <2> SUFFICES ASSUME IInv, [Next]_vars PROVE IInv'
    OBVIOUS
  <2>1. /\ TypeOK /\ FilesBounded /\ StagesAgree /\ Counted /\ LineFits
        /\ NothingFromLater /\ RingInOrder /\ RingIsFull
    BY DEF IInv
  <2>2. TypeOK' /\ StagesAgree'
    BY <2>1, TypeStep, StagesStep
  <2>3. FilesBounded' /\ Counted' /\ LineFits'
    BY <2>1, <2>2, BytesStep
  <2>4. NothingFromLater'
    BY <2>1, <2>2, LaterStep
  <2>5. RingInOrder' /\ RingIsFull'
    BY <2>1, <2>2, <2>4, OrderStep, FullStep
  <2> QED
    BY <2>2, <2>3, <2>4, <2>5 DEF IInv
<1> QED
  BY <1>1, <1>2, PTL DEF Spec

(* No file gets longer than the roll size, whatever earlier starts left in  *)
(* it: writtenBytes_ agrees with the file and the stream, and rollFile is   *)
(* called before a line that would not fit.                                *)
THEOREM FilesStayBounded == Spec => []FilesBounded
<1>1. IInv => FilesBounded
  BY DEF IInv
<1> QED
  BY <1>1, Invariance, PTL

(* Rolling, restarting and failing never leave a gap between the lines of   *)
(* a start that are kept, and drop none but the oldest.                     *)
THEOREM NewestLinesKept == Spec => []KeepsNewestLines
<1>1. IInv => KeepsNewestLines
  BY DEF IInv, RingInOrder, KeepsNewestLines
<1> QED
  BY <1>1, Invariance, PTL

(* append() leaves a file for the next only when it is full.                *)
THEOREM LeftFilesAreFull == Spec => []RolledFilesAreFull
<1>1. IInv => RolledFilesAreFull
  BY DEF IInv, RingIsFull, RolledFilesAreFull
<1> QED
  BY <1>1, Invariance, PTL
=============================================================================
