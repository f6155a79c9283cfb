------------------------- MODULE AsyncLogger_proofs -------------------------
(***************************************************************************)
(* Proofs about AsyncLogger.tla and LogStream.tla, for any buffers, lines, *)
(* integers and failures: no line is lost, repeated or reordered, every    *)
(* number can be read back from the file, and the logger implements the    *)
(* safety part of LogQueue.                                                *)
(***************************************************************************)
EXTENDS AsyncLogger, FoldLemmas

-----------------------------------------------------------------------------
(* The size of a buffer is the sum of the lengths of its lines.             *)

Lengths(b) == [i \in 1..Len(b) |-> Len(b[i].text)]

Texts == {b \in Seq(Lines) : \A i \in 1..Len(b) : Len(b[i].text) \in Nat}

(* What Size folds with. *)
SizeFold(b, n, f) ==
    f = [s \in SUBSET (1..n) |->
            IF s = {} THEN 0 ELSE f[s \ {Max(s)}] + Len(b[Max(s)].text)]

LEMMA SizeFoldIs ==
    ASSUME NEW b, NEW w, NEW n \in Nat, NEW f, \A i \in 1..n : w[i] = Len(b[i].text)
    PROVE  SizeFold(b, n, f) <=> Folds(w, n, f)
<1>1. ASSUME NEW s \in SUBSET (1..n), s # {} PROVE w[Max(s)] = Len(b[Max(s)].text)
  BY <1>1, MaxIn
<1>2. [s \in SUBSET (1..n) |-> IF s = {} THEN 0 ELSE f[s \ {Max(s)}] + Len(b[Max(s)].text)]
      = [s \in SUBSET (1..n) |-> IF s = {} THEN 0 ELSE f[s \ {Max(s)}] + w[Max(s)]]
  BY <1>1
<1> QED
  BY <1>2, Zenon DEF SizeFold, Folds

LEMMA SizeIs ==
    ASSUME NEW b \in Texts
    PROVE  /\ Lengths(b) \in Seq(Nat) /\ Len(Lengths(b)) = Len(b)
           /\ Size(b) = Total(Lengths(b))
<1> DEFINE n == Len(b)
           w == Lengths(b)
           c == CHOOSE f : SizeFold(b, n, f)
<1>1. n \in Nat /\ DOMAIN b = 1..n /\ \A i \in 1..n : Len(b[i].text) \in Nat
  BY DEF Texts
<1>2. w \in Seq(Nat) /\ Len(w) = n /\ \A i \in 1..n : w[i] = Len(b[i].text)
  BY <1>1 DEF Lengths
<1>3. Size(b) = c[1..n]
  BY <1>1 DEF Size, FoldLeft, MapThenFoldSet, SizeFold
<1>4. Folds(w, n, c)
  <2>1. \E f : SizeFold(b, n, f)
    BY <1>1, <1>2, FoldsExist, SizeFoldIs
  <2>2. SizeFold(b, n, c)
    BY <2>1
  <2> QED
    BY <1>1, <1>2, <2>2, SizeFoldIs
<1> HIDE DEF c, w
<1>5. c[1..n] = Total(w)
  BY <1>2, <1>4, TotalOfFold
<1> QED
  BY <1>2, <1>3, <1>5 DEF w

LEMMA SizeTyped == \A b \in Texts : Size(b) \in Nat
BY SizeIs, TotalTyped

LEMMA SizeEmpty == <<>> \in Texts /\ Size(<<>>) = 0
<1>1. PICK none \in Seq(Lines) : none = <<>> /\ Len(none) = 0
  <2>1. <<>> \in Seq(Lines) /\ Len(<<>>) = 0
    OBVIOUS
  <2> QED
    BY <2>1, Zenon
<1>2. none \in Texts
  BY <1>1 DEF Texts
<1>3. Lengths(none) = <<>>
  BY <1>1, <1>2, SizeIs, EmptySeq
<1> QED
  BY <1>1, <1>2, <1>3, SizeIs, TotalEmpty, Zenon

LEMMA SizeAppend ==
    ASSUME NEW b \in Texts, NEW line \in Lines, Len(line.text) \in Nat
    PROVE  /\ Append(b, line) \in Texts
           /\ Size(Append(b, line)) = Size(b) + Len(line.text)
<1> DEFINE n == Len(b)
           longer == Append(b, line)
<1>1. n \in Nat /\ b \in Seq(Lines) /\ \A i \in 1..n : Len(b[i].text) \in Nat
  BY DEF Texts
<1>2. /\ longer \in Seq(Lines) /\ Len(longer) = n + 1
      /\ longer[n + 1] = line /\ \A i \in 1..n : longer[i] = b[i]
  BY <1>1, AppendProperties
<1> HIDE DEF longer
<1>3. longer \in Texts
  <2>1. ASSUME NEW i \in 1..Len(longer) PROVE Len(longer[i].text) \in Nat
    <3>1. i = n + 1 \/ i \in 1..n
      BY <1>1, <1>2
    <3> QED
      BY <1>1, <1>2, <3>1
  <2> QED
    BY <1>2, <2>1 DEF Texts
<1>4. Lengths(longer) = Append(Lengths(b), Len(line.text))
  <2> DEFINE w == Lengths(b)
             v == Lengths(longer)
             u == Append(w, Len(line.text))
  <2>1. w \in Seq(Nat) /\ Len(w) = n /\ v \in Seq(Nat) /\ Len(v) = n + 1
    BY <1>2, <1>3, SizeIs
  <2>2. /\ u \in Seq(Nat) /\ Len(u) = n + 1 /\ u[n + 1] = Len(line.text)
        /\ \A i \in 1..n : u[i] = w[i]
    <3> HIDE DEF w
    <3> QED
      BY <2>1, AppendProperties
  <2>3. ASSUME NEW i \in 1..(n + 1) PROVE v[i] = u[i]
    <3>1. v[i] = Len(longer[i].text) /\ \A k \in 1..n : w[k] = Len(b[k].text)
      BY <1>2 DEF Lengths
    <3>2. i = n + 1 \/ i \in 1..n
      BY <1>1
    <3> HIDE DEF u, v, w
    <3> QED
      BY <1>2, <2>2, <3>1, <3>2
  <2> HIDE DEF u, v
  <2>4. u = v
    BY <2>1, <2>2, <2>3, SeqEqual
  <2> QED
    BY <2>4 DEF u, v
<1>5. /\ Size(b) = Total(Lengths(b)) /\ Lengths(b) \in Seq(Nat)
      /\ Size(longer) = Total(Lengths(longer))
  BY <1>3, SizeIs
<1>6. Total(Append(Lengths(b), Len(line.text))) = Total(Lengths(b)) + Len(line.text)
  BY <1>5, TotalAppend
<1> QED
  BY <1>3, <1>4, <1>5, <1>6 DEF longer

-----------------------------------------------------------------------------
(* Numbers: convert() for every value, whatever the width.                 *)

Abs(i) == IF i < 0 THEN -i ELSE i

LEMMA DivisionByTen ==
    ASSUME NEW i \in Int
    PROVE  /\ Abs(i) \in Nat /\ Quotient(i) \in Int /\ Remainder(i) \in -9..9
           /\ Quotient(i) # 0 => Abs(Quotient(i)) < Abs(i)
           /\ Abs(i) = 10 * Abs(Quotient(i)) + Abs(Remainder(i))
           /\ i < 0 <=> Quotient(i) < 0 \/ Remainder(i) < 0
<1>1. CASE i >= 0
  <2>1. PICK q \in Nat : q = i \div 10
    BY <1>1
  <2>2. Quotient(i) = q /\ 10 * q <= i /\ i < 10 * q + 10
    BY <1>1, <2>1 DEF Quotient
  <2>3. Remainder(i) = i - 10 * q
    BY <2>2 DEF Remainder
  <2> QED
    BY <1>1, <2>2, <2>3 DEF Abs
<1>2. CASE i < 0
  <2>1. PICK q \in Nat : q = (-i) \div 10
    BY <1>2
  <2>2. Quotient(i) = -q /\ 10 * q <= -i /\ -i < 10 * q + 10
    BY <1>2, <2>1 DEF Quotient
  <2>3. Remainder(i) = i + 10 * q
    BY <2>2 DEF Remainder
  <2> QED
    BY <1>2, <2>2, <2>3 DEF Abs
<1> QED
  BY <1>1, <1>2

Digits == {"0", "1", "2", "3", "4", "5", "6", "7", "8", "9"}

LEMMA ZeroIs ==
    /\ zero(0) = "0" /\ zero(1) = "1" /\ zero(2) = "2" /\ zero(3) = "3" /\ zero(4) = "4"
    /\ zero(5) = "5" /\ zero(6) = "6" /\ zero(7) = "7" /\ zero(8) = "8" /\ zero(9) = "9"
    /\ zero(-1) = "1" /\ zero(-2) = "2" /\ zero(-3) = "3" /\ zero(-4) = "4" /\ zero(-5) = "5"
    /\ zero(-6) = "6" /\ zero(-7) = "7" /\ zero(-8) = "8" /\ zero(-9) = "9"
BY DEF zero, digits

(* What a reader makes of one digit. *)
Digit(d) == CHOOSE k \in 0..9 : zero(k) = d

LEMMA DigitOfZero ==
    ASSUME NEW r \in -9..9
    PROVE  zero(r) \in Digits /\ Digit(zero(r)) = Abs(r)
<1>1. zero(r) \in Digits
  BY ZeroIs DEF Digits
<1>2. Abs(r) \in 0..9 /\ zero(Abs(r)) = zero(r)
  BY ZeroIs DEF Abs
<1>3. ASSUME NEW j \in 0..9, NEW k \in 0..9, zero(j) = zero(k) PROVE j = k
  BY <1>3, ZeroIs
<1>4. Digit(zero(r)) \in 0..9 /\ zero(Digit(zero(r))) = zero(r)
  BY <1>2 DEF Digit
<1> QED
  BY <1>1, <1>2, <1>3, <1>4

(* The recursive function LowDigits, in stages. *)
Below(n) == {i \in Ints : Abs(i) < n}
DigitsOf(f, i) == Join(<<zero(Remainder(i))>>, IF Quotient(i) = 0 THEN <<>> ELSE f[Quotient(i)])
Stage(n, f) == DOMAIN f = Below(n) /\ \A i \in Below(n) : f[i] = DigitsOf(f, i)

LEMMA StageExists ==
    ASSUME NEW n \in Nat
    PROVE  \E f : Stage(n, f)
<1> DEFINE Good == {k \in Nat : \E f : Stage(k, f)}
<1>0. \A i \in Ints : i \in Int /\ Quotient(i) \in Ints /\ Abs(i) \in Nat
  BY LogStreamAssumption, DivisionByTen
<1>1. 0 \in Good
  <2>1. Below(0) = {}
    BY <1>0 DEF Below
  <2>2. Stage(0, [i \in {} |-> 0])
    BY <2>1 DEF Stage
  <2> QED
    BY <2>2
<1>2. ASSUME NEW k \in Nat, k \in Good PROVE k + 1 \in Good
  <2>1. PICK f : Stage(k, f)
    BY <1>2
  <2> DEFINE g == [i \in Below(k + 1) |-> IF i \in Below(k) THEN f[i] ELSE DigitsOf(f, i)]
  <2>2. \A i \in Below(k) : i \in Below(k + 1) /\ g[i] = f[i]
    BY <1>0 DEF Below
  <2>3. ASSUME NEW i \in Below(k + 1) PROVE g[i] = DigitsOf(g, i)
    <3>1. g[i] = DigitsOf(f, i)
      BY <2>1, <2>3 DEF Stage
    <3>2. Quotient(i) # 0 => Quotient(i) \in Below(k)
      BY <1>0, DivisionByTen DEF Below
    <3>3. Quotient(i) # 0 => g[Quotient(i)] = f[Quotient(i)]
      BY <2>2, <3>2
    <3> HIDE DEF g
    <3> QED
      BY <3>1, <3>3 DEF DigitsOf
  <2>4. DOMAIN g = Below(k + 1)
    OBVIOUS
  <2> HIDE DEF g
  <2>5. Stage(k + 1, g) /\ k + 1 \in Nat
    BY <2>3, <2>4 DEF Stage
  <2> QED
    BY <2>5
<1> HIDE DEF Good
<1>3. Nat \subseteq Good
  BY <1>1, <1>2, NatInductionBySet
<1> QED
  BY <1>3 DEF Good

(* Induction over Ints: division makes a number smaller. *)
LEMMA IntsInduction ==
    ASSUME NEW Good,
           \A i \in Ints : (Quotient(i) # 0 => Quotient(i) \in Good) => i \in Good
    PROVE  Ints \subseteq Good
<1> SUFFICES ASSUME NEW j \in Ints, j \notin Good PROVE FALSE
  OBVIOUS
<1>0. \A i \in Ints : i \in Int /\ Quotient(i) \in Ints /\ Abs(i) \in Nat
  BY LogStreamAssumption, DivisionByTen
<1> DEFINE Bad == {n \in Nat : \E i \in Ints \ Good : Abs(i) = n}
<1>1. Bad # {}
  BY <1>0
<1>2. PICK m \in Bad : \A n \in Bad : m <= n
  BY <1>1, LeastNat
<1>3. PICK i \in Ints \ Good : Abs(i) = m
  OBVIOUS
<1>4. Quotient(i) # 0 /\ Quotient(i) \in Ints \ Good
  BY <1>0
<1>5. Abs(Quotient(i)) \in Bad /\ Abs(Quotient(i)) < m
  BY <1>0, <1>3, <1>4, DivisionByTen
<1> QED
  BY <1>2, <1>5

LEMMA StagesAgree ==
    ASSUME NEW m \in Nat, NEW f, Stage(m, f), NEW n \in Nat, NEW g, Stage(n, g)
    PROVE  \A i \in Below(m) \cap Below(n) : f[i] = g[i]
<1> DEFINE Good == {i \in Ints : i \in Below(m) \cap Below(n) => f[i] = g[i]}
<1>0. \A i \in Ints : i \in Int /\ Quotient(i) \in Ints /\ Abs(i) \in Nat
  BY LogStreamAssumption, DivisionByTen
<1>1. ASSUME NEW i \in Ints, Quotient(i) # 0 => Quotient(i) \in Good
      PROVE  i \in Good
  <2> SUFFICES ASSUME i \in Below(m), i \in Below(n) PROVE f[i] = g[i]
    OBVIOUS
  <2>1. f[i] = DigitsOf(f, i) /\ g[i] = DigitsOf(g, i)
    BY DEF Stage
  <2>2. Quotient(i) # 0 => Quotient(i) \in Below(m) /\ Quotient(i) \in Below(n)
    BY <1>0, DivisionByTen DEF Below
  <2>3. Quotient(i) # 0 => f[Quotient(i)] = g[Quotient(i)]
    BY <1>1, <2>2
  <2> QED
    BY <2>1, <2>3 DEF DigitsOf
<1>2. Ints \subseteq Good
  BY <1>1, IntsInduction
<1> QED
  BY <1>2 DEF Below

LEMMA LowDigitsIs == \A i \in Ints : LowDigits[i] = DigitsOf(LowDigits, i)
<1>0. \A i \in Ints : i \in Int /\ Quotient(i) \in Ints /\ Abs(i) \in Nat
  BY LogStreamAssumption, DivisionByTen
<1> DEFINE part(i) == CHOOSE f : Stage(Abs(i) + 1, f)
           all == [i \in Ints |-> part(i)[i]]
<1>1. ASSUME NEW i \in Ints PROVE Stage(Abs(i) + 1, part(i))
  <2>1. \E f : Stage(Abs(i) + 1, f)
    BY <1>0, StageExists
  <2> QED
    BY <2>1
<1> HIDE DEF part
<1>2. ASSUME NEW i \in Ints PROVE all[i] = DigitsOf(all, i)
  <2>1. part(i)[i] = DigitsOf(part(i), i)
    <3>1. i \in Below(Abs(i) + 1)
      BY <1>0 DEF Below
    <3> QED
      BY <1>1, <3>1 DEF Stage
  <2>2. ASSUME Quotient(i) # 0
        PROVE  part(i)[Quotient(i)] = part(Quotient(i))[Quotient(i)]
    <3> DEFINE q == Quotient(i)
    <3>1. q \in Ints /\ q \in Below(Abs(i) + 1) /\ q \in Below(Abs(q) + 1)
      BY <1>0, <2>2, DivisionByTen DEF Below
    <3>2. Abs(i) + 1 \in Nat /\ Abs(q) + 1 \in Nat
      BY <1>0
    <3>3. Stage(Abs(i) + 1, part(i)) /\ Stage(Abs(q) + 1, part(q))
      BY <1>1, <3>1
    <3> HIDE DEF q
    <3>4. part(i)[q] = part(q)[q]
      BY <3>1, <3>2, <3>3, StagesAgree
    <3> QED
      BY <3>4 DEF q
  <2>3. all[i] = part(i)[i] /\ all[Quotient(i)] = part(Quotient(i))[Quotient(i)]
    BY <1>0
  <2> HIDE DEF all
  <2> QED
    BY <2>1, <2>2, <2>3 DEF DigitsOf
<1> DEFINE Step(f) == [i \in Ints |-> <<zero(Remainder(i))>> \o
                          IF Quotient(i) = 0 THEN <<>> ELSE f[Quotient(i)]]
<1>3. all = Step(all)
  <2>1. all = [i \in Ints |-> all[i]]
    OBVIOUS
  <2> HIDE DEF all
  <2>2. all = [i \in Ints |-> DigitsOf(all, i)]
    BY <1>2, <2>1, Zenon
  <2> QED
    BY <2>2, Zenon DEF DigitsOf, Join
<1> HIDE DEF all
<1>4. LowDigits = CHOOSE f : f = Step(f)
  BY Zenon DEF LowDigits
<1>5. LowDigits = Step(LowDigits)
  BY <1>3, <1>4, Zenon
<1> QED
  BY <1>5, Zenon DEF DigitsOf, Join

LEMMA LowDigitsTyped == \A i \in Ints : LowDigits[i] \in Seq(Digits) /\ LowDigits[i] # <<>>
<1> DEFINE Good == {i \in Ints : LowDigits[i] \in Seq(Digits) /\ LowDigits[i] # <<>>}
<1>1. ASSUME NEW i \in Ints, Quotient(i) # 0 => Quotient(i) \in Good
      PROVE  i \in Good
  <2> DEFINE d == zero(Remainder(i))
             rest == IF Quotient(i) = 0 THEN <<>> ELSE LowDigits[Quotient(i)]
  <2>1. d \in Digits
    BY LogStreamAssumption, DivisionByTen, DigitOfZero
  <2>2. rest \in Seq(Digits)
    BY <1>1, EmptySeq
  <2>3. LowDigits[i] = <<d>> \o rest
    BY LowDigitsIs, Zenon DEF DigitsOf, Join
  <2> HIDE DEF d, rest
  <2>4. <<d>> \o rest \in Seq(Digits) /\ <<d>> \o rest # <<>>
    BY <2>1, <2>2, ConcatProperties
  <2> QED
    BY <2>3, <2>4
<1> HIDE DEF Good
<1>2. Ints \subseteq Good
  BY <1>1, IntsInduction
<1> QED
  BY <1>2 DEF Good

-----------------------------------------------------------------------------
(* Reading a number back, digit by digit from the left.                    *)

Magnitude(s) == FoldLeft(LAMBDA m, d :
    10 * m + (CHOOSE k \in 0..9 : zero(k) = d), 0, s)

LEMMA DigitTyped == \A d \in Digits : Digit(d) \in Nat
<1> SUFFICES ASSUME NEW d \in Digits PROVE Digit(d) \in Nat
  OBVIOUS
<1>1. \E k \in 0..9 : zero(k) = d
  BY ZeroIs DEF Digits
<1> QED
  BY <1>1 DEF Digit

Reads(b, n, f) ==
    f = [s \in SUBSET (1..n) |->
            IF s = {} THEN 0 ELSE 10 * f[s \ {Max(s)}] + Digit(b[Max(s)])]

LEMMA ReadsExist ==
    ASSUME NEW b, NEW n \in Nat
    PROVE  \E f : Reads(b, n, f)
<1> DEFINE Good == {k \in Nat : \E f : Reads(b, k, f)}
<1>1. 0 \in Good
  <2>1. SUBSET (1..0) = {{}}
    OBVIOUS
  <2>2. Reads(b, 0, [s \in SUBSET (1..0) |-> 0])
    BY <2>1 DEF Reads
  <2> QED
    BY <2>2
<1>2. ASSUME NEW k \in Nat, k \in Good PROVE k + 1 \in Good
  <2>1. PICK f : Reads(b, k, f)
    BY <1>2
  <2> DEFINE g == [s \in SUBSET (1..(k + 1)) |->
                      IF s \in SUBSET (1..k) THEN f[s]
                      ELSE 10 * f[s \ {k + 1}] + Digit(b[k + 1])]
  <2>2. ASSUME NEW s \in SUBSET (1..(k + 1))
        PROVE  g[s] = IF s = {} THEN 0 ELSE 10 * g[s \ {Max(s)}] + Digit(b[Max(s)])
    <3>1. \A r \in SUBSET (1..k) : r \in SUBSET (1..(k + 1)) /\ g[r] = f[r]
      <4>1. 1..k \subseteq 1..(k + 1)
        OBVIOUS
      <4> QED
        BY <4>1
    <3>2. CASE s \in SUBSET (1..k)
      <4>1. s \ {Max(s)} \in SUBSET (1..k)
        BY <3>2
      <4>2. f[s] = IF s = {} THEN 0 ELSE 10 * f[s \ {Max(s)}] + Digit(b[Max(s)])
        BY <2>1, <3>2, Zenon DEF Reads
      <4> HIDE DEF g
      <4> QED
        BY <3>1, <3>2, <4>1, <4>2
    <3>3. CASE s \notin SUBSET (1..k)
      <4>1. k + 1 \in s /\ \A x \in s : x \in Int /\ k + 1 >= x
        BY <3>3
      <4>2. Max(s) = k + 1
        BY <4>1, MaxIs
      <4>3. s # {} /\ s \ {k + 1} \in SUBSET (1..k)
        BY <4>1
      <4>4. g[s] = 10 * f[s \ {k + 1}] + Digit(b[k + 1])
        BY <3>3
      <4> HIDE DEF g
      <4> QED
        BY <3>1, <4>2, <4>3, <4>4
    <3> QED
      BY <3>2, <3>3
  <2>3. g = [s \in SUBSET (1..(k + 1)) |-> g[s]]
    OBVIOUS
  <2> HIDE DEF g
  <2>4. Reads(b, k + 1, g)
    BY <2>2, <2>3, Zenon DEF Reads
  <2>5. k + 1 \in Nat
    OBVIOUS
  <2> QED
    BY <2>4, <2>5, Zenon
<1> HIDE DEF Good
<1>3. Nat \subseteq Good
  BY <1>1, <1>2, NatInductionBySet
<1> QED
  BY <1>3 DEF Good

(* The values of the beginnings of a number. *)
Values(b, n, f) == f[0] = 0 /\ \A i \in 1..n : f[i] = 10 * f[i - 1] + Digit(b[i])

LEMMA MagnitudeIs ==
    ASSUME NEW b \in Seq(Digits)
    PROVE  \E f \in [0..Len(b) -> Nat] : Values(b, Len(b), f) /\ Magnitude(b) = f[Len(b)]
<1> DEFINE n == Len(b)
           c == CHOOSE f : Reads(b, n, f)
           u == [i \in 0..n |-> c[1..i]]
<1>1. n \in Nat /\ DOMAIN b = 1..n /\ \A i \in 1..n : Digit(b[i]) \in Nat
  BY DigitTyped, ElementOfSeq
<1>2. Reads(b, n, c)
  BY <1>1, ReadsExist
<1>3. Magnitude(b) = c[1..n]
  BY <1>1 DEF Magnitude, Digit, FoldLeft, MapThenFoldSet, Reads
<1> HIDE DEF n, c
<1>4. c[{}] = 0
  BY <1>2 DEF Reads
<1>5. ASSUME NEW i \in 1..n PROVE c[1..i] = 10 * c[1..(i - 1)] + Digit(b[i])
  <2>0. i \in Nat /\ i >= 1 /\ i <= n
    BY <1>1
  <2>1. 1..i \in SUBSET (1..n) /\ 1..i # {}
    <3>1. \A x \in 1..i : x \in 1..n
      BY <1>1, <2>0
    <3>2. i \in 1..i
      BY <2>0
    <3> QED
      BY <3>1, <3>2
  <2>2. Max(1..i) = i
    <3>1. 1..i \in SUBSET Int /\ i \in 1..i /\ \A x \in 1..i : i >= x
      BY <2>0
    <3> QED
      BY <3>1, MaxIs
  <2>3. (1..i) \ {i} = 1..(i - 1)
    BY <1>1
  <2>4. c[1..i] = 10 * c[(1..i) \ {Max(1..i)}] + Digit(b[Max(1..i)])
    BY <1>2, <2>1, Zenon DEF Reads
  <2> QED
    BY <2>2, <2>3, <2>4
<1>6. 1..0 = {}
  OBVIOUS
<1>7. Values(b, n, u)
  BY <1>1, <1>4, <1>5, <1>6 DEF Values
<1>8. u[n] = Magnitude(b)
  BY <1>1, <1>3
<1>9. u \in [0..n -> Nat]
  <2> DEFINE Good == {k \in Nat : k \in 0..n => c[1..k] \in Nat}
  <2>1. 0 \in Good
    BY <1>4, <1>6
  <2>2. ASSUME NEW k \in Nat, k \in Good PROVE k + 1 \in Good
    <3> SUFFICES ASSUME k + 1 \in 0..n PROVE c[1..(k + 1)] \in Nat
      OBVIOUS
    <3>1. k + 1 \in 1..n /\ k \in 0..n /\ (k + 1) - 1 = k
      BY <1>1
    <3>2. c[1..k] \in Nat
      BY <2>2, <3>1
    <3>3. Digit(b[k + 1]) \in Nat
      BY <1>1, <3>1
    <3>4. c[1..(k + 1)] = 10 * c[1..k] + Digit(b[k + 1])
      BY <1>5, <3>1
    <3> QED
      BY <3>2, <3>3, <3>4
  <2>3. Nat \subseteq Good
    BY <2>1, <2>2, NatInductionBySet
  <2> QED
    BY <1>1, <2>3
<1> HIDE DEF u
<1> QED
  BY <1>7, <1>8, <1>9 DEF n

LEMMA MagnitudeEmpty == Magnitude(<<>>) = 0
<1>1. PICK none \in Seq(Digits) : none = <<>> /\ Len(none) = 0
  <2>1. <<>> \in Seq(Digits) /\ Len(<<>>) = 0
    OBVIOUS
  <2> QED
    BY <2>1, Zenon
<1>2. PICK f \in [0..Len(none) -> Nat] :
          Values(none, Len(none), f) /\ Magnitude(none) = f[Len(none)]
  BY MagnitudeIs
<1>3. Magnitude(none) = 0
  BY <1>1, <1>2 DEF Values
<1> QED
  BY <1>1, <1>3

LEMMA MagnitudeAppend ==
    ASSUME NEW b \in Seq(Digits), NEW d \in Digits
    PROVE  Magnitude(Append(b, d)) = 10 * Magnitude(b) + Digit(d)
<1> DEFINE n == Len(b)
<1>1. n \in Nat
  OBVIOUS
<1> DEFINE longer == Append(b, d)
<1>2. /\ longer \in Seq(Digits) /\ Len(longer) = n + 1
      /\ longer[n + 1] = d /\ \A i \in 1..n : longer[i] = b[i]
  BY AppendProperties
<1> HIDE DEF longer
<1>4. PICK f \in [0..n -> Nat] : Values(b, n, f) /\ Magnitude(b) = f[n]
  BY MagnitudeIs
<1>5. PICK g \in [0..Len(longer) -> Nat] :
          Values(longer, Len(longer), g) /\ Magnitude(longer) = g[Len(longer)]
  BY <1>2, MagnitudeIs
<1> HIDE DEF n
<1>6. /\ g[0] = 0 /\ f[0] = 0
      /\ \A i \in 1..n : f[i] = 10 * f[i - 1] + Digit(b[i])
      /\ \A i \in 1..n : g[i] = 10 * g[i - 1] + Digit(b[i])
      /\ g[n + 1] = 10 * g[n] + Digit(d)
  <2>1. \A i \in 1..(n + 1) : g[i] = 10 * g[i - 1] + Digit(longer[i])
    BY <1>1, <1>2, <1>5 DEF Values
  <2>2. n + 1 \in 1..(n + 1) /\ (n + 1) - 1 = n /\ \A i \in 1..n : i \in 1..(n + 1)
    BY <1>1
  <2> QED
    BY <1>2, <1>4, <1>5, <2>1, <2>2 DEF Values
<1> DEFINE Good == {k \in Nat : k \in 0..n => f[k] = g[k]}
<1>7. 0 \in Good
  BY <1>6
<1>8. ASSUME NEW k \in Nat, k \in Good PROVE k + 1 \in Good
  <2> SUFFICES ASSUME k + 1 \in 0..n PROVE f[k + 1] = g[k + 1]
    OBVIOUS
  <2>1. k + 1 \in 1..n /\ k \in 0..n /\ (k + 1) - 1 = k
    BY <1>1
  <2> QED
    BY <1>6, <1>8, <2>1
<1>9. Nat \subseteq Good
  BY <1>7, <1>8, NatInductionBySet
<1>10. f[n] = g[n]
  BY <1>1, <1>9
<1> QED
  BY <1>2, <1>4, <1>5, <1>6, <1>10 DEF longer

LEMMA ReverseTyped ==
    ASSUME NEW S, NEW s \in Seq(S)
    PROVE  Reverse(s) \in Seq(S) /\ Len(Reverse(s)) = Len(s)
<1>1. \A i \in 1..Len(s) : s[(Len(s) - i) + 1] \in S
  BY ElementOfSeq
<1>2. Reverse(s) \in [1..Len(s) -> S]
  BY <1>1 DEF Reverse
<1> QED
  BY <1>2

LEMMA ReverseCons ==
    ASSUME NEW S, NEW d \in S, NEW s \in Seq(S)
    PROVE  Reverse(Join(<<d>>, s)) = Append(Reverse(s), d)
<1> DEFINE all == Join(<<d>>, s)
           n == Len(s)
<1>1. n \in Nat
  OBVIOUS
<1>2. all \in Seq(S) /\ Len(all) = n + 1 /\ all[1] = d /\ \A i \in 1..n : all[i + 1] = s[i]
  BY DEF Join
<1> HIDE DEF all
<1>3. Reverse(s) \in Seq(S) /\ Len(Reverse(s)) = n /\ \A i \in 1..n : Reverse(s)[i] = s[n - i + 1]
  BY ReverseTyped DEF Reverse
<1> HIDE DEF n
<1>4. Reverse(all) \in Seq(S) /\ Len(Reverse(all)) = n + 1
  BY <1>2, ReverseTyped
<1>5. ASSUME NEW i \in 1..(n + 1) PROVE Reverse(all)[i] = IF i = n + 1 THEN d ELSE Reverse(s)[i]
  <2>1. Reverse(all)[i] = all[(n + 1) - i + 1]
    BY <1>2 DEF Reverse
  <2>2. CASE i = n + 1
    BY <1>1, <1>2, <2>1, <2>2
  <2>3. CASE i # n + 1
    <3>1. i \in 1..n /\ n - i + 1 \in 1..n /\ (n + 1) - i + 1 = (n - i + 1) + 1
      BY <1>1, <2>3
    <3> QED
      BY <1>2, <1>3, <2>1, <2>3, <3>1
  <2> QED
    BY <2>2, <2>3
<1> DEFINE longer == Append(Reverse(s), d)
<1>6. /\ longer \in Seq(S) /\ Len(longer) = n + 1 /\ longer[n + 1] = d
      /\ \A i \in 1..n : longer[i] = Reverse(s)[i]
  BY <1>3, AppendProperties
<1> HIDE DEF longer
<1>7. \A i \in 1..(n + 1) : Reverse(all)[i] = longer[i]
  BY <1>1, <1>5, <1>6
<1>8. Reverse(all) = longer
  BY <1>4, <1>6, <1>7, SeqEqual
<1> QED
  BY <1>8 DEF all, longer

(* The digits of a number, read back, give its magnitude. *)
LEMMA LowDigitsRead == \A i \in Ints : Magnitude(Reverse(LowDigits[i])) = Abs(i)
<1> DEFINE Good == {i \in Ints : Magnitude(Reverse(LowDigits[i])) = Abs(i)}
<1>1. ASSUME NEW i \in Ints, Quotient(i) # 0 => Quotient(i) \in Good
      PROVE  i \in Good
  <2> DEFINE d == zero(Remainder(i))
             rest == IF Quotient(i) = 0 THEN <<>> ELSE LowDigits[Quotient(i)]
  <2>0. /\ i \in Int /\ Quotient(i) \in Ints /\ Quotient(i) \in Int
        /\ Abs(Quotient(i)) \in Nat /\ Abs(Remainder(i)) \in Nat
        /\ Abs(i) = 10 * Abs(Quotient(i)) + Abs(Remainder(i))
    <3>1. i \in Int /\ Quotient(i) \in Ints /\ Quotient(i) \in Int
      BY LogStreamAssumption
    <3>2. Remainder(i) \in -9..9 /\ Abs(i) = 10 * Abs(Quotient(i)) + Abs(Remainder(i))
      BY <3>1, DivisionByTen
    <3>3. Abs(Quotient(i)) \in Nat
      BY <3>1, DivisionByTen
    <3>4. Abs(Remainder(i)) \in Nat
      BY <3>2 DEF Abs
    <3> QED
      BY <3>1, <3>2, <3>3, <3>4
  <2>1. d \in Digits /\ Digit(d) = Abs(Remainder(i))
    BY LogStreamAssumption, DivisionByTen, DigitOfZero
  <2>2. rest \in Seq(Digits)
    BY <2>0, LowDigitsTyped, EmptySeq
  <2>3. LowDigits[i] = Join(<<d>>, rest)
    BY LowDigitsIs, Zenon DEF DigitsOf
  <2>4. Magnitude(Reverse(rest)) = Abs(Quotient(i))
    <3>1. CASE Quotient(i) = 0
      <4>1. Reverse(<<>>) = <<>>
        <5>1. <<>> \in Seq(Digits) /\ Len(<<>>) = 0
          OBVIOUS
        <5>2. Reverse(<<>>) \in Seq(Digits) /\ Len(Reverse(<<>>)) = 0
          BY <5>1, ReverseTyped
        <5> QED
          BY <5>2, EmptySeq
      <4>2. rest = <<>> /\ Abs(Quotient(i)) = 0
        BY <3>1 DEF Abs
      <4> QED
        BY <4>1, <4>2, MagnitudeEmpty, Zenon
    <3>2. CASE Quotient(i) # 0
      BY <1>1, <3>2
    <3> QED
      BY <3>1, <3>2
  <2> HIDE DEF d, rest
  <2>5. Reverse(rest) \in Seq(Digits)
    BY <2>2, ReverseTyped
  <2>6. Reverse(LowDigits[i]) = Append(Reverse(rest), d)
    BY <2>1, <2>2, <2>3, ReverseCons
  <2>7. Magnitude(Append(Reverse(rest), d)) = 10 * Magnitude(Reverse(rest)) + Digit(d)
    BY <2>1, <2>5, MagnitudeAppend
  <2> QED
    BY <2>0, <2>1, <2>4, <2>6, <2>7
<1>2. Ints \subseteq Good
  BY <1>1, IntsInduction
<1> QED
  BY <1>2

LEMMA ValueOfIs ==
    ASSUME NEW t
    PROVE  ValueOf(t) = IF t[1] = "-" THEN -Magnitude(Tail(t)) ELSE Magnitude(t)
BY Zenon DEF ValueOf, Magnitude

(* convert() writes a number such that it can be read back: the smallest    *)
(* value, whose magnitude its type cannot hold, included.                   *)
LEMMA ConvertReads ==
    ASSUME NEW v \in Ints
    PROVE  /\ Convert(v) \in Seq(Digits \cup {"-"})
           /\ ValueOf(Convert(v)) = v
<1> DEFINE low == LowDigits[v]
           R == Reverse(low)
<1>1. low \in Seq(Digits) /\ Len(low) \in Nat /\ Len(low) # 0
  BY LowDigitsTyped, EmptySeq
<1>2. R \in Seq(Digits) /\ Len(R) = Len(low) /\ Magnitude(R) = Abs(v)
  BY <1>1, ReverseTyped, LowDigitsRead
<1>3. v \in Int
  BY LogStreamAssumption
<1>4. Digits \subseteq Digits \cup {"-"}
  OBVIOUS
<1>5. CASE v >= 0
  <2>1. ~ (v < 0) /\ Abs(v) = v
    BY <1>3, <1>5 DEF Abs
  <2>2. low \o <<>> = low
    BY <1>1, ConcatEmptySeq
  <2>3. Convert(v) = R
    BY <2>1, <2>2, Zenon DEF Convert
  <2>4. R[1] # "-"
    <3>1. R[1] \in Digits
      BY <1>1, <1>2, ElementOfSeq
    <3> QED
      BY <3>1 DEF Digits
  <2>5. ValueOf(R) = Magnitude(R)
    BY <2>4, ValueOfIs, Zenon
  <2>6. R \in Seq(Digits \cup {"-"})
    BY <1>2, <1>4, SeqMonotonic
  <2> QED
    BY <1>2, <2>1, <2>3, <2>5, <2>6, Zenon
<1>6. CASE v < 0
  <2>1. Abs(v) = -v
    BY <1>3, <1>6 DEF Abs
  <2> DEFINE all == low \o <<"-">>
             n == Len(low)
  <2>2. /\ all \in Seq(Digits \cup {"-"}) /\ Len(all) = n + 1 /\ all[n + 1] = "-"
        /\ \A i \in 1..n : all[i] = low[i]
    <3>1. low \in Seq(Digits \cup {"-"}) /\ <<"-">> \in Seq(Digits \cup {"-"})
      BY <1>1, <1>4, SeqMonotonic
    <3> QED
      BY <1>1, <3>1, ConcatProperties
  <2>3. Convert(v) = Reverse(all)
    BY <1>6, Zenon DEF Convert
  <2> HIDE DEF all
  <2>4. Reverse(all) \in Seq(Digits \cup {"-"}) /\ Len(Reverse(all)) = n + 1
    BY <2>2, ReverseTyped
  <2>5. Reverse(all)[1] = "-" /\ \A i \in 1..n : Reverse(all)[i + 1] = R[i]
    <3>1. \A i \in 1..(n + 1) : Reverse(all)[i] = all[(n + 1) - i + 1]
      BY <2>2 DEF Reverse
    <3>2. \A i \in 1..n : R[i] = low[n - i + 1]
      BY DEF Reverse
    <3>3. Reverse(all)[1] = "-"
      BY <1>1, <2>2, <3>1
    <3>4. ASSUME NEW i \in 1..n PROVE Reverse(all)[i + 1] = R[i]
      <4>1. n - i + 1 \in 1..n /\ i + 1 \in 1..(n + 1) /\ (n + 1) - (i + 1) + 1 = n - i + 1
        BY <1>1
      <4> QED
        BY <2>2, <3>1, <3>2, <4>1
    <3> QED
      BY <3>3, <3>4
  <2>6. Tail(Reverse(all)) = R
    <3> DEFINE T == Tail(Reverse(all))
    <3>1. Reverse(all) # <<>>
      BY <1>1, <2>4, EmptySeq
    <3>2. /\ T \in Seq(Digits \cup {"-"}) /\ Len(T) = n
          /\ \A i \in 1..Len(T) : T[i] = Reverse(all)[i + 1]
      BY <1>1, <2>4, <3>1, HeadTailProperties
    <3>3. R \in Seq(Digits \cup {"-"}) /\ Len(R) = n
      BY <1>2, <1>4, SeqMonotonic
    <3> HIDE DEF T, R, n
    <3>4. \A i \in 1..Len(T) : T[i] = R[i]
      BY <2>5, <3>2
    <3>5. T = R
      BY <3>2, <3>3, <3>4, SeqEqual
    <3> QED
      BY <3>5 DEF T
  <2> HIDE DEF R
  <2>7. ValueOf(Convert(v)) = -Magnitude(R)
    BY <2>3, <2>5, <2>6, ValueOfIs, Zenon
  <2>8. -Magnitude(R) = v
    BY <1>2, <1>3, <2>1
  <2> QED
    BY <2>3, <2>4, <2>7, <2>8, Zenon
<1> QED
  BY <1>3, <1>5, <1>6
-----------------------------------------------------------------------------
(* The text of a line.                                                     *)

Chars == Digits \cup {"-", "*", "\n"}
Fitting == {b \in Seq(Chars) : Len(b) <= kBufferSize}

LEMMA NewLine == \E end \in Seq(Chars) : end = <<"\n">> /\ Len(end) = 1 /\ end[1] = "\n"
<1>1. "\n" \in Chars
  BY DEF Chars
<1>2. <<"\n">> \in Seq(Chars) /\ Len(<<"\n">>) = 1 /\ <<"\n">>[1] = "\n"
  BY <1>1
<1> QED
  BY <1>2, Zenon

LEMMA AppendedFits ==
    ASSUME NEW b \in Fitting, NEW d \in Seq(Chars)
    PROVE  /\ Appended(b, d) \in Fitting
           /\ Len(b) + Len(d) <= kBufferSize => Appended(b, d) = b \o d
           /\ Len(b) + Len(d) > kBufferSize => Appended(b, d) = b
<1>1. b \o d \in Seq(Chars) /\ Len(b \o d) = Len(b) + Len(d)
  BY ConcatProperties DEF Fitting
<1>2. Len(b) \in Nat /\ Len(d) \in Nat /\ kBufferSize \in Nat
  BY LogStreamAssumption DEF Fitting
<1>3. CASE Len(b) + Len(d) <= kBufferSize
  <2>1. ~ (Len(d) > available(b))
    BY <1>2, <1>3 DEF available
  <2>2. Appended(b, d) = b \o d
    BY <2>1, Zenon DEF Appended
  <2> QED
    BY <1>1, <1>2, <1>3, <2>2 DEF Fitting
<1>4. CASE Len(b) + Len(d) > kBufferSize
  <2>1. Len(d) > available(b)
    BY <1>2, <1>4 DEF available
  <2>2. Appended(b, d) = b
    BY <2>1, Zenon DEF Appended
  <2> QED
    BY <1>2, <1>4, <2>2
<1> QED
  BY <1>2, <1>3, <1>4

LEMMA ConvertTyped ==
    ASSUME NEW v \in Ints
    PROVE  Convert(v) \in Seq(Chars) /\ Len(Convert(v)) \in Nat /\ Len(Convert(v)) < kMaxNumericSize
<1>1. Digits \cup {"-"} \subseteq Chars
  BY DEF Chars
<1>2. Convert(v) \in Seq(Digits \cup {"-"})
  BY ConvertReads
<1> QED
  BY <1>1, <1>2, SeqMonotonic, LogStreamAssumption

LEMMA WithIntegerFits ==
    ASSUME NEW b \in Fitting, NEW v \in Ints
    PROVE  /\ WithInteger(b, v) \in Fitting
           /\ Len(b) + kMaxNumericSize <= kBufferSize => WithInteger(b, v) = b \o Convert(v)
<1> DEFINE c == Convert(v)
<1>1. c \in Seq(Chars) /\ Len(c) \in Nat /\ Len(c) < kMaxNumericSize
  BY ConvertTyped
<1>2. WithInteger(b, v) = IF available(b) < kMaxNumericSize THEN b ELSE b \o c
  BY DEF WithInteger
<1> HIDE DEF c
<1>3. Len(b) \in Nat /\ kBufferSize \in Nat /\ kMaxNumericSize \in Nat
  BY LogStreamAssumption DEF Fitting
<1>4. b \o c \in Seq(Chars) /\ Len(b \o c) = Len(b) + Len(c)
  BY <1>1, ConcatProperties DEF Fitting
<1>5. CASE available(b) < kMaxNumericSize
  <2>1. WithInteger(b, v) = b
    BY <1>2, <1>5
  <2>2. ~ (Len(b) + kMaxNumericSize <= kBufferSize)
    BY <1>3, <1>5 DEF available
  <2> QED
    BY <2>1, <2>2
<1>6. CASE ~ (available(b) < kMaxNumericSize)
  <2>1. WithInteger(b, v) = b \o c
    BY <1>2, <1>6
  <2>2. Len(b \o c) <= kBufferSize
    BY <1>1, <1>3, <1>4, <1>6 DEF available
  <2> QED
    BY <1>4, <2>1, <2>2 DEF Fitting, c
<1> QED
  BY <1>5, <1>6

LEMMA TextIs ==
    ASSUME NEW n \in Nat
    PROVE  /\ Text(n) \in Seq(Chars) /\ Len(Text(n)) = n
           /\ \A i \in 1..n : Text(n)[i] = "*"
<1>1. Text(n) \in [1..n -> Chars]
  BY DEF Text, Chars
<1> QED
  BY <1>1 DEF Text

LEMMA ConcatFacts ==
    \A h, e \in Seq(Chars) :
        /\ h \o e \in Seq(Chars) /\ Len(h \o e) = Len(h) + Len(e)
        /\ \A i \in 1..Len(h) : (h \o e)[i] = h[i]
        /\ \A i \in 1..Len(e) : (h \o e)[Len(h) + i] = e[i]
BY ConcatProperties

(* The header ends with a space, unless it fills the whole line.            *)
LEMMA HeaderIs ==
    /\ Header \in Fitting
    /\ Len(Header) < kBufferSize => Header # <<>> /\ Header[Len(Header)] = "*"
<1> DEFINE x == WithInteger(Appended(formatTime(<<>>), Text(2)), 42)
<1>1. x \in Fitting
  <2>1. PICK none \in Fitting : none = <<>>
    <3>1. <<>> \in Seq(Chars) /\ Len(<<>>) = 0
      BY EmptySeq
    <3>2. 0 <= kBufferSize
      BY LogStreamAssumption
    <3>3. <<>> \in Fitting
      BY <3>1, <3>2, Zenon DEF Fitting
    <3> QED
      BY <3>3, Zenon
  <2>2. Text(1) \in Seq(Chars) /\ Text(2) \in Seq(Chars)
    BY TextIs
  <2>3. Appended(none, Text(1)) \in Fitting
    BY <2>2, AppendedFits
  <2>4. Appended(Appended(none, Text(1)), Text(2)) \in Fitting
    BY <2>2, <2>3, AppendedFits
  <2>5. WithInteger(Appended(Appended(none, Text(1)), Text(2)), 42) \in Fitting
    BY <2>4, WithIntegerFits, LogStreamAssumption
  <2> QED
    BY <2>1, <2>5, Zenon DEF formatTime
<1>2. Header = Appended(x, Text(1))
  BY Zenon DEF Header
<1> HIDE DEF x
<1>3. Text(1) \in Seq(Chars) /\ Len(Text(1)) = 1 /\ Text(1)[1] = "*"
  <2>1. 1 \in Nat /\ 1 \in 1..1
    OBVIOUS
  <2> QED
    BY <2>1, TextIs, Zenon
<1>4. Len(x) \in Nat /\ x \in Seq(Chars) /\ kBufferSize \in Nat
  BY <1>1, LogStreamAssumption DEF Fitting
<1>5. CASE Len(x) + 1 <= kBufferSize
  <2>1. Header = x \o Text(1)
    BY <1>1, <1>2, <1>3, <1>5, AppendedFits
  <2>2. Len(x \o Text(1)) = Len(x) + 1 /\ (x \o Text(1))[Len(x) + 1] = "*"
    <3> DEFINE e == Text(1)
    <3> HIDE DEF e
    <3>1. e \in Seq(Chars) /\ Len(e) = 1 /\ e[1] = "*"
      BY <1>3 DEF e
    <3>2. Len(x \o e) = Len(x) + 1 /\ (x \o e)[Len(x) + 1] = "*"
      BY <1>4, <3>1, ConcatProperties
    <3> QED
      BY <3>2 DEF e
  <2>3. x \o Text(1) # <<>>
    BY <1>4, <2>2, EmptySeq
  <2> QED
    BY <1>1, <1>2, <1>3, <2>1, <2>2, <2>3, AppendedFits
<1>6. CASE Len(x) + 1 > kBufferSize
  <2>1. Header = x
    BY <1>1, <1>2, <1>3, <1>6, AppendedFits
  <2> QED
    BY <1>1, <1>4, <1>6, <2>1
<1> QED
  BY <1>4, <1>5, <1>6

LEMMA LineFits ==
    ASSUME NEW n \in Nat, NEW v \in Ints
    PROVE  /\ Line(n, v) \in Fitting
           /\ Len(Header) + n + kMaxNumericSize <= kBufferSize =>
                 Line(n, v) = ((Header \o Text(n)) \o Convert(v)) \o <<"\n">>
<1> DEFINE a == Appended(Header, Text(n))
           b == WithInteger(a, v)
<1>1. Header \in Fitting /\ Text(n) \in Seq(Chars) /\ Len(Text(n)) = n
  BY HeaderIs, TextIs
<1>2. Len(Header) \in Nat /\ Header \in Seq(Chars) /\ kBufferSize \in Nat /\ kMaxNumericSize \in Nat
  BY <1>1, LogStreamAssumption DEF Fitting
<1>3. a \in Fitting /\ (Len(Header) + n <= kBufferSize => a = Header \o Text(n))
  BY <1>1, AppendedFits
<1>4. b \in Fitting /\ (Len(a) + kMaxNumericSize <= kBufferSize => b = a \o Convert(v))
  BY <1>3, WithIntegerFits
<1>5. PICK end \in Seq(Chars) : end = <<"\n">> /\ Len(end) = 1
  BY NewLine
<1>6. Line(n, v) = Appended(b, end)
  BY <1>5, Zenon DEF Line
<1> HIDE DEF a, b
<1>7. /\ Appended(b, end) \in Fitting
      /\ Len(b) + 1 <= kBufferSize => Appended(b, end) = b \o end
  BY <1>4, <1>5, AppendedFits
<1>8. ASSUME Len(Header) + n + kMaxNumericSize <= kBufferSize
      PROVE  Line(n, v) = ((Header \o Text(n)) \o Convert(v)) \o <<"\n">>
  <2>1. a = Header \o Text(n)
    BY <1>2, <1>3, <1>8
  <2>2. Len(a) = Len(Header) + n /\ a \in Seq(Chars)
    BY <1>1, <1>2, <2>1, ConcatProperties
  <2>3. b = a \o Convert(v)
    BY <1>4, <1>8, <2>2
  <2>4. Convert(v) \in Seq(Chars) /\ Len(Convert(v)) \in Nat /\ Len(Convert(v)) < kMaxNumericSize
    BY ConvertTyped
  <2>5. Len(b) = Len(a) + Len(Convert(v))
    BY <2>2, <2>3, <2>4, ConcatProperties
  <2>6. Len(b) + 1 <= kBufferSize
    BY <1>2, <1>8, <2>2, <2>4, <2>5
  <2>7. Line(n, v) = b \o end
    BY <1>6, <1>7, <2>6
  <2> QED
    BY <1>5, <2>1, <2>3, <2>7, Zenon
<1> QED
  BY <1>6, <1>7, <1>8

(* What follows the last character of the text can be found again.          *)
LEMMA NumberFound ==
    ASSUME NEW s \in Seq(Chars), s # <<>>, s[Len(s)] = "*", NEW c \in Seq(Digits \cup {"-"})
    PROVE  LET t == (s \o c) \o <<"\n">>
           IN  /\ Last(t) = "\n"
               /\ Max({k \in 1..Len(t) : t[k] = "*"}) = Len(s)
               /\ SubSeq(t, Len(s) + 1, Len(t) - 1) = c
<1> DEFINE t == (s \o c) \o <<"\n">>
           stars == {k \in 1..Len(t) : t[k] = "*"}
           m == Len(s)
           n == Len(c)
<1>1. m \in Nat /\ n \in Nat /\ m >= 1
  BY EmptySeq
<1>2. c \in Seq(Chars)
  <2>1. Digits \cup {"-"} \subseteq Chars
    BY DEF Chars
  <2> QED
    BY <2>1, SeqMonotonic
<1>3. PICK end \in Seq(Chars) : end = <<"\n">> /\ Len(end) = 1 /\ end[1] = "\n"
  BY NewLine
<1>4. /\ s \o c \in Seq(Chars) /\ Len(s \o c) = m + n
      /\ \A i \in 1..m : (s \o c)[i] = s[i]
      /\ \A i \in 1..n : (s \o c)[m + i] = c[i]
  BY <1>1, <1>2, ConcatProperties
<1>5. /\ t \in Seq(Chars) /\ Len(t) = m + n + 1 /\ t[m + n + 1] = "\n"
      /\ \A i \in 1..(m + n) : t[i] = (s \o c)[i]
  <2>1. /\ (s \o c) \o end \in Seq(Chars) /\ Len((s \o c) \o end) = m + n + 1
        /\ ((s \o c) \o end)[m + n + 1] = "\n"
        /\ \A i \in 1..(m + n) : ((s \o c) \o end)[i] = (s \o c)[i]
    BY <1>1, <1>3, <1>4, ConcatProperties
  <2> QED
    BY <1>3, <2>1
<1>6. /\ t[m] = "*" /\ \A i \in 1..n : t[m + i] = c[i]
  BY <1>1, <1>4, <1>5
<1> HIDE DEF t
<1>7. Last(t) = "\n"
  BY <1>1, <1>5 DEF Last
<1>8. Max(stars) = m
  <2>0. \A i \in 1..n : c[i] \in Digits \cup {"-"}
    BY ElementOfSeq
  <2> HIDE DEF m, n
  <2>1. stars \subseteq Int /\ m \in stars
    BY <1>1, <1>5, <1>6
  <2>2. ASSUME NEW k \in stars PROVE m >= k
    <3>1. k \in 1..(m + n + 1) /\ t[k] = "*"
      BY <1>5
    <3>2. k # m + n + 1
      BY <1>5, <3>1
    <3>3. ASSUME k > m PROVE FALSE
      <4>1. k - m \in 1..n /\ k = m + (k - m)
        <5>1. m \in Nat /\ n \in Nat /\ k \in Nat /\ k <= m + n
          BY <1>1, <3>1, <3>2
        <5> QED
          BY <3>3, <5>1
      <4>2. t[k] = c[k - m] /\ c[k - m] \in Digits \cup {"-"}
        <5>1. t[m + (k - m)] = c[k - m] /\ c[k - m] \in Digits \cup {"-"}
          BY <1>6, <2>0, <4>1
        <5> QED
          BY <4>1, <5>1
      <4> QED
        BY <3>1, <4>2 DEF Digits
    <3> QED
      BY <1>1, <3>1, <3>3
  <2> QED
    BY <2>1, <2>2, MaxIs
<1>9. SubSeq(t, m + 1, Len(t) - 1) = c
  <2> DEFINE u == SubSeq(t, m + 1, m + n)
  <2>1. u \in Seq(Chars) /\ Len(u) = n /\ \A i \in 1..n : u[i] = t[m + i]
    BY <1>1, <1>5, SubSeqProperties
  <2> HIDE DEF u
  <2>2. u = c
    BY <1>2, <1>6, <2>1, SeqEqual
  <2> QED
    BY <1>1, <1>5, <2>2 DEF u
<1> QED
  BY <1>7, <1>8, <1>9 DEF t

(* A line with room for its number gives the number back.                   *)
ReadsBack(t, v) ==
    /\ Last(t) = "\n"
    /\ ValueOf(SubSeq(t, Max({k \in 1..Len(t) : t[k] = "*"}) + 1, Len(t) - 1)) = v

LEMMA LineReads ==
    ASSUME NEW n \in Nat, NEW v \in Ints,
           Len(Header) + n + kMaxNumericSize <= kBufferSize
    PROVE  ReadsBack(Line(n, v), v)
<1> DEFINE s == Header \o Text(n)
           c == Convert(v)
           t == Line(n, v)
<1>1. /\ Header \in Seq(Chars) /\ Len(Header) \in Nat
      /\ kBufferSize \in Nat /\ kMaxNumericSize \in Nat
      /\ Text(n) \in Seq(Chars) /\ Len(Text(n)) = n /\ \A i \in 1..n : Text(n)[i] = "*"
  BY HeaderIs, TextIs, LogStreamAssumption DEF Fitting
<1>2. c \in Seq(Digits \cup {"-"}) /\ ValueOf(c) = v /\ Len(c) \in Nat /\ Len(c) < kMaxNumericSize
  BY ConvertReads, ConvertTyped
<1>3. Header # <<>> /\ Header[Len(Header)] = "*" /\ Len(Header) >= 1
  <2>1. Len(Header) < kBufferSize
    BY <1>1, <1>2
  <2>2. Header # <<>> /\ Header[Len(Header)] = "*"
    BY <2>1, HeaderIs
  <2> QED
    BY <1>1, <2>2, EmptySeq
<1>4. t = (s \o c) \o <<"\n">>
  BY LineFits
<1>5. /\ s \in Seq(Chars) /\ Len(s) = Len(Header) + n
      /\ \A i \in 1..Len(Header) : s[i] = Header[i]
      /\ \A i \in 1..n : s[Len(Header) + i] = Text(n)[i]
  <2> DEFINE h == Header
             e == Text(n)
  <2>1. h \in Seq(Chars) /\ e \in Seq(Chars) /\ Len(e) = n
    BY <1>1
  <2> HIDE DEF h, e
  <2>2. /\ h \o e \in Seq(Chars) /\ Len(h \o e) = Len(h) + Len(e)
        /\ \A i \in 1..Len(h) : (h \o e)[i] = h[i]
        /\ \A i \in 1..Len(e) : (h \o e)[Len(h) + i] = e[i]
    BY <2>1, ConcatFacts
  <2> QED
    BY <2>1, <2>2, Zenon DEF h, e, s
<1> HIDE DEF s, c, t
<1>6. s # <<>> /\ s[Len(s)] = "*"
  <2>1. s # <<>>
    BY <1>1, <1>3, <1>5, EmptySeq
  <2>2. CASE n = 0
    BY <1>1, <1>3, <1>5, <2>2
  <2>3. CASE n # 0
    <3>1. n \in 1..n /\ s[Len(Header) + n] = "*"
      BY <1>1, <1>5, <2>3
    <3> QED
      BY <1>5, <3>1
  <2> QED
    BY <2>1, <2>2, <2>3
<1>7. /\ Last(t) = "\n"
      /\ Max({k \in 1..Len(t) : t[k] = "*"}) = Len(s)
      /\ SubSeq(t, Len(s) + 1, Len(t) - 1) = c
  BY <1>2, <1>4, <1>5, <1>6, NumberFound
<1> QED
  BY <1>2, <1>7, Zenon DEF t, ReadsBack

LEMMA LinesFit == \A line \in Lines : Len(line.text) \in Nat /\ Len(line.text) <= Capacity
<1> SUFFICES ASSUME NEW line \in Lines PROVE Len(line.text) \in Nat /\ Len(line.text) <= Capacity
  OBVIOUS
<1>1. PICK i \in 1..Len(Numbers) : line \in Logged(i)
  BY DEF Lines
<1>2. Numbers[i] \in Ints
  BY AsyncLoggerAssumption, ElementOfSeq
<1>3. CASE \E n \in TextSizes : line.text = Line(n, Numbers[i])
  <2>1. PICK n \in Nat : line.text = Line(n, Numbers[i])
    BY <1>3, AsyncLoggerAssumption
  <2>2. Line(n, Numbers[i]) \in Fitting
    BY <1>2, LineFits
  <2> QED
    BY <2>1, <2>2, AsyncLoggerAssumption, LogStreamAssumption DEF Fitting
<1>4. CASE \E n \in DirectSizes : line.text = Text(n)
  <2>1. PICK n \in DirectSizes : line.text = Text(n)
    BY <1>4
  <2>2. n \in Nat /\ n <= Capacity
    BY AsyncLoggerAssumption
  <2>3. Len(Text(n)) = n
    BY <2>2, TextIs
  <2> QED
    BY <2>1, <2>2, <2>3
<1>5. \/ \E n \in TextSizes : line.text = Line(n, Numbers[i])
      \/ \E n \in DirectSizes : line.text = Text(n)
  BY <1>1 DEF Logged
<1> QED
  BY <1>3, <1>4, <1>5

-----------------------------------------------------------------------------
(* Lines and buffers.                                                      *)

LEMMA BufferFacts ==
    /\ Seq(Lines) = Texts
    /\ Buffers = {b \in Texts : Size(b) <= Capacity}
    /\ <<>> \in Buffers /\ Size(<<>>) = 0
    /\ \A b \in Texts : Size(b) \in Nat
<1>1. ASSUME NEW b \in Seq(Lines) PROVE b \in Texts
  <2>1. \A i \in 1..Len(b) : b[i] \in Lines
    BY ElementOfSeq
  <2> QED
    BY <2>1, LinesFit DEF Texts
<1>2. Seq(Lines) = Texts
  BY <1>1 DEF Texts
<1>3. Buffers = {b \in Texts : Size(b) <= Capacity}
  BY <1>2 DEF Buffers
<1> QED
  BY <1>2, <1>3, SizeEmpty, SizeTyped, AsyncLoggerAssumption

(* A line that fits. *)
LEMMA AppendLine ==
    ASSUME NEW b \in Buffers, NEW line \in Lines, Size(b) + Len(line.text) <= Capacity
    PROVE  Append(b, line) \in Buffers
<1>1. b \in Texts /\ Len(line.text) \in Nat
  BY BufferFacts, LinesFit
<1>2. Append(b, line) \in Texts /\ Size(Append(b, line)) = Size(b) + Len(line.text)
  BY <1>1, SizeAppend
<1> QED
  BY <1>2, BufferFacts

(* One that does not fit was not the buffer's first, and is the next one's. *)
LEMMA RotateLine ==
    ASSUME NEW b \in Buffers, NEW line \in Lines, Size(b) + Len(line.text) > Capacity
    PROVE  b # <<>> /\ Append(<<>>, line) \in Buffers
<1>1. Len(line.text) \in Nat /\ Len(line.text) <= Capacity /\ Capacity \in Nat
  BY LinesFit, AsyncLoggerAssumption
<1>2. <<>> \in Buffers /\ Size(<<>>) = 0
  BY BufferFacts
<1>3. b # <<>>
  <2>1. SUFFICES ASSUME b = <<>> PROVE FALSE
    OBVIOUS
  <2>2. Size(b) = 0
    BY <1>2, <2>1, Zenon
  <2> QED
    BY <1>1, <2>2
<1>4. PICK none \in Buffers : none = <<>> /\ Size(none) = 0
  BY <1>2, Zenon
<1>5. Append(none, line) \in Buffers
  <2>1. Size(none) + Len(line.text) <= Capacity
    BY <1>1, <1>4
  <2> QED
    BY <2>1, AppendLine
<1> QED
  BY <1>3, <1>4, <1>5

(* What a sequence of buffers holds. *)
LEMMA QueueTyped ==
    ASSUME NEW q \in Seq(Buffers \ {<<>>})
    PROVE  q \in Seq(Seq(Lines)) /\ FlattenSeq(q) \in Seq(Lines)
<1>1. Buffers \ {<<>>} \subseteq Seq(Lines)
  BY DEF Buffers
<1>2. q \in Seq(Seq(Lines))
  BY <1>1, SeqMonotonic
<1> QED
  BY <1>2, FlattenTyped

LEMMA QueueAppend ==
    ASSUME NEW q \in Seq(Buffers \ {<<>>}), NEW b \in Buffers \ {<<>>}
    PROVE  /\ Append(q, b) \in Seq(Buffers \ {<<>>})
           /\ FlattenSeq(Append(q, b)) = Join(FlattenSeq(q), b)
           /\ Append(q, b) # <<>>
<1>1. q \in Seq(Seq(Lines)) /\ b \in Seq(Lines)
  BY QueueTyped DEF Buffers
<1>2. Append(q, b) = Join(q, <<b>>)
  BY <1>1, AppendIsConcat DEF Join
<1>3. <<b>> \in Seq(Seq(Lines)) /\ FlattenSeq(<<b>>) = b
  BY <1>1, FlattenOne
<1>4. FlattenSeq(Join(q, <<b>>)) = Join(FlattenSeq(q), FlattenSeq(<<b>>))
  BY <1>1, <1>3, FlattenConcat
<1>5. Append(q, b) \in Seq(Buffers \ {<<>>}) /\ Append(q, b) # <<>>
  BY AppendProperties
<1> QED
  BY <1>2, <1>3, <1>4, <1>5, Zenon

LEMMA QueueHead ==
    ASSUME NEW q \in Seq(Buffers \ {<<>>}), q # <<>>
    PROVE  /\ Head(q) \in Buffers \ {<<>>} /\ Tail(q) \in Seq(Buffers \ {<<>>})
           /\ FlattenSeq(q) = Join(Head(q), FlattenSeq(Tail(q)))
<1>1. /\ Head(q) \in Buffers \ {<<>>} /\ Tail(q) \in Seq(Buffers \ {<<>>})
      /\ q = <<Head(q)>> \o Tail(q)
  BY HeadTailProperties
<1>2. Tail(q) \in Seq(Seq(Lines)) /\ Head(q) \in Seq(Lines)
  BY <1>1, QueueTyped DEF Buffers
<1>3. <<Head(q)>> \in Seq(Seq(Lines)) /\ FlattenSeq(<<Head(q)>>) = Head(q)
  BY <1>2, FlattenOne
<1>4. FlattenSeq(Join(<<Head(q)>>, Tail(q))) =
          Join(FlattenSeq(<<Head(q)>>), FlattenSeq(Tail(q)))
  BY <1>2, <1>3, FlattenConcat
<1>5. q = Join(<<Head(q)>>, Tail(q))
  BY <1>1 DEF Join
<1>6. FlattenSeq(q) = Join(Head(q), FlattenSeq(Tail(q)))
  BY <1>3, <1>4, <1>5, Zenon
<1> QED
  BY <1>1, <1>6

(* What the thread collects. *)
LEMMA QueuedFacts ==
    ASSUME TypeOK
    PROVE  /\ Queued \in Seq(Buffers \ {<<>>})
           /\ FlattenSeq(Queued) = Join(FlattenSeq(buffers), current)
           /\ Queued = <<>> => buffers = <<>> /\ current = <<>>
<1>1. /\ buffers \in Seq(Buffers \ {<<>>}) /\ current \in Buffers
      /\ current \in Seq(Lines) /\ FlattenSeq(buffers) \in Seq(Lines)
  BY QueueTyped DEF TypeOK, Buffers
<1>2. CASE current = <<>>
  <2>1. Queued = buffers
    BY <1>2 DEF Queued
  <2>2. Join(FlattenSeq(buffers), <<>>) = FlattenSeq(buffers)
    BY <1>1, JoinFacts
  <2> QED
    BY <1>1, <1>2, <2>1, <2>2, Zenon
<1>3. CASE current # <<>>
  <2>1. Queued = Append(buffers, current)
    BY <1>3 DEF Queued
  <2> QED
    BY <1>1, <1>3, <2>1, QueueAppend
<1> QED
  BY <1>2, <1>3

-----------------------------------------------------------------------------
(* The inductive invariant, a part at a time.                              *)

LEMMA InitIInv == Init => IInv
<1> SUFFICES ASSUME Init PROVE IInv
  OBVIOUS
<1>1. TypeOK
  <2>1. <<>> \in Buffers /\ <<>> \in Seq(Buffers \ {<<>>}) /\ <<>> \in Seq(Lines)
    BY BufferFacts, EmptySeq
  <2>2. /\ current \in Buffers /\ buffers \in Seq(Buffers \ {<<>>})
        /\ pending \in Seq(Buffers \ {<<>>})
        /\ accepted \in Seq(Lines) /\ written \in Seq(Lines)
    BY <2>1, Zenon DEF Init
  <2>3. {next, spare1, spare2} \subseteq Buffers \cup {NoBuffer}
    BY <2>1, Zenon DEF Init
  <2>4. failures \in 0..MaxFailures /\ running \in BOOLEAN
    <3>1. failures = 0 /\ running \in BOOLEAN
      BY Zenon DEF Init
    <3>2. MaxFailures \in Nat
      BY AsyncLoggerAssumption
    <3>3. 0 \in 0..MaxFailures
      BY <3>2
    <3> QED
      BY <3>1, <3>3, Zenon
  <2> QED
    BY <2>2, <2>3, <2>4 DEF Init, TypeOK
<1>2. NothingLostOrReordered
  <2>1. <<>> \in Seq(Lines)
    BY EmptySeq
  <2>2. Join(<<>>, <<>>) = <<>>
    BY <2>1, JoinFacts
  <2> QED
    BY <2>2, FlattenEmpty, Zenon DEF Init, NothingLostOrReordered, Join
<1>3. SparesEmpty /\ LifeCycle
  BY DEF Init, SparesEmpty, LifeCycle
<1>4. Numbered
  <2>1. accepted = <<>> /\ Len(accepted) = 0 /\ Len(Numbers) \in Nat
    BY AsyncLoggerAssumption, EmptySeq DEF Init
  <2> QED
    BY <2>1 DEF Numbered
<1> QED
  BY <1>1, <1>2, <1>3, <1>4 DEF IInv

LEMMA TypeStep ==
    ASSUME TypeOK, SparesEmpty, [Next]_vars
    PROVE  TypeOK'
<1> USE DEF queues, spares
<1>1. <<>> \in Buffers /\ <<>> \in Seq(Buffers \ {<<>>})
  BY BufferFacts, EmptySeq
<1>2. ASSUME NEW line \in Lines, Log(line) PROVE TypeOK'
  <2>1. Append(current, line) \in Buffers
    BY <1>2, AppendLine DEF TypeOK, Log
  <2>2. Append(accepted, line) \in Seq(Lines)
    BY AppendProperties DEF TypeOK
  <2> QED
    BY <1>2, <2>1, <2>2 DEF TypeOK, Log, Accepting
<1>3. ASSUME NEW line \in Lines, LogRotating(line) PROVE TypeOK'
  <2>1. current # <<>> /\ Append(<<>>, line) \in Buffers
    BY <1>3, RotateLine DEF TypeOK, LogRotating
  <2>2. Append(buffers, current) \in Seq(Buffers \ {<<>>})
    BY <2>1, QueueAppend DEF TypeOK
  <2>3. Append(accepted, line) \in Seq(Lines)
    BY AppendProperties DEF TypeOK
  <2>4. current' = Append(<<>>, line)
    <3>1. (IF next = NoBuffer THEN <<>> ELSE next) = <<>>
      BY Zenon DEF SparesEmpty
    <3> QED
      BY <1>3, <3>1, Zenon DEF LogRotating
  <2>5. pc' \in {"unborn", "check", "waiting", "woken", "write", "exited"}
    BY <1>3 DEF TypeOK, LogRotating
  <2>6. buffers' \in Seq(Buffers \ {<<>>}) /\ current' \in Buffers
    BY <1>3, <2>1, <2>2, <2>4, Zenon DEF LogRotating
  <2>7. {next', spare1', spare2'} \subseteq Buffers \cup {NoBuffer}
    BY <1>3 DEF TypeOK, LogRotating
  <2>8. accepted' \in Seq(Lines)
    BY <1>3, <2>3 DEF LogRotating, Accepting
  <2> QED
    BY <1>3, <2>5, <2>6, <2>7, <2>8 DEF TypeOK, LogRotating
<1>4. CASE Start
  BY <1>4 DEF TypeOK, Start
<1>5. CASE StopRunning
  BY <1>5 DEF TypeOK, StopRunning
<1>6. CASE StopStep
  BY <1>6 DEF TypeOK, StopStep, StopNotify, StopJoin
<1>7. CASE Wait \/ WaitTimeout
  BY <1>7 DEF TypeOK, Wait, WaitTimeout
<1>8. ASSUME TakeBuffers
      PROVE  /\ current' \in Buffers /\ buffers' \in Seq(Buffers \ {<<>>})
             /\ {next', spare1', spare2'} \subseteq Buffers \cup {NoBuffer}
  <2>1. current' \in Buffers
    <3>1. CASE spare1 = NoBuffer
      BY <1>1, <1>8, <3>1, Zenon DEF TakeBuffers
    <3>2. CASE spare1 # NoBuffer
      BY <1>8, <3>2 DEF TakeBuffers, TypeOK
    <3> QED
      BY <3>1, <3>2
  <2>2. buffers' \in Seq(Buffers \ {<<>>})
    BY <1>1, <1>8, Zenon DEF TakeBuffers
  <2>3. {next', spare1', spare2'} \subseteq Buffers \cup {NoBuffer}
    BY <1>8 DEF TakeBuffers, TypeOK
  <2> QED
    BY <2>1, <2>2, <2>3
<1>9. CASE Collect
  <2>1. pending \o Queued \in Seq(Buffers \ {<<>>})
    BY QueuedFacts, ConcatProperties DEF TypeOK
  <2> QED
    BY <1>8, <1>9, <2>1 DEF TypeOK, Collect
<1>10. CASE Exit
  BY <1>8, <1>10 DEF TypeOK, Exit
<1>11. CASE WriteBuffer
  <2>1. /\ Head(pending) \in Buffers /\ Head(pending) \in Seq(Lines)
        /\ Tail(pending) \in Seq(Buffers \ {<<>>})
    BY <1>11, QueueHead DEF TypeOK, WriteBuffer, Buffers
  <2>2. written \o Head(pending) \in Seq(Lines)
    BY <2>1, ConcatProperties DEF TypeOK
  <2>3. {next', spare1', spare2'} \subseteq Buffers \cup {NoBuffer}
    <3>1. next' = next /\ {next, spare1, spare2} \subseteq Buffers \cup {NoBuffer}
      BY <1>11 DEF TypeOK, WriteBuffer
    <3>2. spare1' \in {<<>>, spare1} /\ spare2' \in {<<>>, spare2}
      BY <1>11 DEF WriteBuffer, Recycle
    <3> QED
      BY <1>1, <3>1, <3>2, Zenon
  <2> QED
    BY <1>11, <2>1, <2>2, <2>3 DEF TypeOK, WriteBuffer
<1>12. CASE FailWrite
  <2>1. failures + 1 \in 0..MaxFailures
    BY <1>12, AsyncLoggerAssumption DEF TypeOK, FailWrite
  <2> QED
    BY <1>12, <2>1 DEF TypeOK, FailWrite
<1>13. CASE EndWrite
  BY <1>13 DEF TypeOK, EndWrite
<1>14. CASE UNCHANGED vars
  BY <1>14 DEF TypeOK, vars
<1> QED
  BY <1>2, <1>3, <1>4, <1>5, <1>6, <1>7, <1>9, <1>10, <1>11, <1>12, <1>13, <1>14
  DEF Next, ThreadStep

LEMMA SparesStep ==
    ASSUME SparesEmpty, [Next]_vars
    PROVE  SparesEmpty'
<1> USE DEF queues, spares, SparesEmpty
<1>1. ASSUME TakeBuffers PROVE SparesEmpty'
  BY <1>1 DEF TakeBuffers
<1>2. CASE WriteBuffer
  BY <1>2 DEF WriteBuffer, Recycle
<1>3. CASE \E line \in Lines : Log(line) \/ LogRotating(line)
  BY <1>3 DEF Log, LogRotating
<1>4. CASE Start \/ StopRunning \/ StopStep
  BY <1>4 DEF Start, StopRunning, StopStep, StopNotify, StopJoin
<1>5. CASE ThreadStep
  BY <1>1, <1>2, <1>5
  DEF ThreadStep, Wait, WaitTimeout, Collect, Exit, FailWrite, EndWrite
<1> QED
  BY <1>3, <1>4, <1>5 DEF Next, vars

LEMMA LifeStep ==
    ASSUME TypeOK, SparesEmpty, LifeCycle, [Next]_vars
    PROVE  LifeCycle'
<1> USE DEF queues, spares, LifeCycle
<1>1. CASE \E line \in Lines : Log(line) \/ LogRotating(line)
  BY <1>1 DEF Log, LogRotating, Accepting, TypeOK
<1>2. CASE Start \/ StopRunning \/ StopStep
  BY <1>2 DEF TypeOK, Start, StopRunning, StopStep, StopNotify, StopJoin
<1>3. CASE Exit
  <2>1. Queued = <<>> /\ pending = <<>> /\ ~running /\ TakeBuffers
    BY <1>3 DEF Exit
  <2>2. current' = <<>> /\ buffers' = <<>>
    BY <2>1, Zenon DEF TakeBuffers, SparesEmpty
  <2>3. pending' = <<>> /\ ~running' /\ pc' = "exited" /\ caller' = caller /\ running' = running
    BY <1>3, <2>1 DEF Exit
  <2>4. caller # "start"
    BY <1>3 DEF Exit, MayCollect
  <2> QED
    BY <2>1, <2>2, <2>3, <2>4
<1>4. CASE ThreadStep /\ ~Exit
  <2>1. pc # "unborn" /\ pc # "exited" /\ pc' # "unborn" /\ pc' # "exited" /\ caller' = caller /\ running' = running
    BY <1>4 DEF ThreadStep, Wait, WaitTimeout, Collect, MayCollect, WriteBuffer, FailWrite, EndWrite
  <2> QED
    BY <2>1
<1>5. CASE UNCHANGED vars
  BY <1>5 DEF vars
<1> QED
  BY <1>1, <1>2, <1>3, <1>4, <1>5 DEF Next

(* The buffers in the order in which they are written. *)
LEMMA NumberedStep ==
    ASSUME TypeOK, Numbered, [Next]_vars
    PROVE  Numbered'
<1>1. ASSUME NEW line, Accepting(line) PROVE Numbered'
  <2> DEFINE n == Len(accepted)
             longer == Append(accepted, line)
  <2>1. /\ n \in Nat /\ n < Len(Numbers) /\ Len(Numbers) \in Nat
        /\ line \in Logged(n + 1) /\ accepted' = longer
    BY <1>1, AsyncLoggerAssumption DEF TypeOK, Accepting
  <2>2. line \in Lines
    BY <2>1 DEF Lines
  <2>3. Len(longer) = n + 1 /\ longer[n + 1] = line /\ \A i \in 1..n : longer[i] = accepted[i]
    BY <2>2, AppendProperties DEF TypeOK
  <2> HIDE DEF n, longer
  <2>4. n + 1 <= Len(Numbers)
    BY <2>1
  <2>5. \A i \in 1..n : accepted[i] \in Logged(i)
    BY DEF Numbered, n
  <2>6. ASSUME NEW i \in 1..(n + 1) PROVE longer[i] \in Logged(i)
    BY <2>1, <2>3, <2>5, <2>6
  <2> QED
    BY <2>1, <2>3, <2>4, <2>6 DEF Numbered
<1>2. ASSUME UNCHANGED accepted PROVE Numbered'
  BY <1>2 DEF Numbered
<1>3. CASE \E line \in Lines : Log(line) \/ LogRotating(line)
  BY <1>1, <1>3, Zenon DEF Log, LogRotating
<1>4. CASE Start \/ StopRunning \/ StopStep
  BY <1>2, <1>4 DEF Start, StopRunning, StopStep, StopNotify, StopJoin
<1>5. CASE ThreadStep
  BY <1>2, <1>5 DEF ThreadStep, Wait, WaitTimeout, Collect, Exit, WriteBuffer, FailWrite, EndWrite
<1>6. CASE UNCHANGED vars
  BY <1>2, <1>6 DEF vars
<1> QED
  BY <1>3, <1>4, <1>5, <1>6, Zenon DEF Next

LEMMA OrderTyped ==
    ASSUME TypeOK
    PROVE  /\ written \in Seq(Lines) /\ current \in Seq(Lines)
           /\ FlattenSeq(pending) \in Seq(Lines) /\ FlattenSeq(buffers) \in Seq(Lines)
           /\ NothingLostOrReordered =
                (accepted = Join(Join(Join(written, FlattenSeq(pending)),
                                      FlattenSeq(buffers)), current))
<1>1. written \in Seq(Lines) /\ current \in Seq(Lines)
  BY DEF TypeOK, Buffers
<1>2. FlattenSeq(pending) \in Seq(Lines) /\ FlattenSeq(buffers) \in Seq(Lines)
  BY QueueTyped DEF TypeOK
<1> QED
  BY <1>1, <1>2, Zenon DEF Join, NothingLostOrReordered

LEMMA OrderSuffices ==
    accepted' = Join(Join(Join(written', FlattenSeq(pending')),
                          FlattenSeq(buffers')), current')
    => NothingLostOrReordered'
BY Zenon DEF Join, NothingLostOrReordered

LEMMA JoinLines ==
    /\ \A s, t \in Seq(Lines) : Join(s, t) \in Seq(Lines)
    /\ \A s, t, u \in Seq(Lines) : Join(Join(s, t), u) = Join(s, Join(t, u))
    /\ \A s \in Seq(Lines) : Join(s, <<>>) = s
    /\ <<>> \in Seq(Lines)
<1>1. \A s, t \in Seq(Lines) : Join(s, t) \in Seq(Lines)
  BY JoinFacts
<1>2. \A s, t, u \in Seq(Lines) : Join(Join(s, t), u) = Join(s, Join(t, u))
  BY JoinFacts
<1>3. \A s \in Seq(Lines) : Join(s, <<>>) = s
  BY JoinFacts
<1> QED
  BY <1>1, <1>2, <1>3, EmptySeq

LEMMA OrderStep ==
    ASSUME TypeOK, SparesEmpty, NothingLostOrReordered, [Next]_vars
    PROVE  NothingLostOrReordered'
<1> USE DEF queues, spares
<1> DEFINE P == FlattenSeq(pending)
           B == FlattenSeq(buffers)
<1>1. /\ written \in Seq(Lines) /\ current \in Seq(Lines)
      /\ P \in Seq(Lines) /\ B \in Seq(Lines) /\ accepted \in Seq(Lines)
  BY OrderTyped DEF TypeOK
<1>2. accepted = Join(Join(Join(written, P), B), current)
  BY OrderTyped
<1>3. /\ \A s, t \in Seq(Lines) : Join(s, t) \in Seq(Lines)
      /\ \A s, t, u \in Seq(Lines) : Join(Join(s, t), u) = Join(s, Join(t, u))
      /\ \A s \in Seq(Lines) : Join(s, <<>>) = s
      /\ <<>> \in Seq(Lines)
  BY JoinLines, Zenon
<1>4. ASSUME NEW s \in Seq(Lines), NEW line \in Lines
      PROVE  Append(s, line) = Join(s, <<line>>) /\ <<line>> \in Seq(Lines)
  BY AppendIsConcat DEF Join
<1> HIDE DEF P, B
<1>5. ASSUME NEW line \in Lines, Log(line) PROVE NothingLostOrReordered'
  <2>1. /\ accepted' = Append(accepted, line) /\ current' = Append(current, line)
        /\ written' = written /\ pending' = pending /\ buffers' = buffers
    BY <1>5 DEF Log, Accepting
  <2> DEFINE before == Join(Join(written, P), B)
  <2>2. before \in Seq(Lines)
    BY <1>1, <1>3
  <2>3. accepted = Join(before, current)
    BY <1>2
  <2> HIDE DEF before
  <2>4. accepted' = Join(Join(before, current), <<line>>)
    BY <1>1, <1>4, <2>1, <2>3
  <2>5. Join(Join(before, current), <<line>>) = Join(before, Join(current, <<line>>))
    <3>1. before \in Seq(Lines) /\ current \in Seq(Lines) /\ <<line>> \in Seq(Lines)
      BY <1>1, <1>4, <2>2
    <3> QED
      BY <3>1, JoinLines, ZenonT(30)
  <2>6. accepted' = Join(before, current')
    BY <1>1, <1>4, <2>1, <2>4, <2>5
  <2> QED
    BY <2>1, <2>6, OrderSuffices, Zenon DEF before, P, B
<1>6. ASSUME NEW line \in Lines, LogRotating(line) PROVE NothingLostOrReordered'
  <2>1. /\ accepted' = Append(accepted, line) /\ buffers' = Append(buffers, current)
        /\ written' = written /\ pending' = pending
    BY <1>6 DEF LogRotating, Accepting
  <2>2. current' = Append(<<>>, line)
    <3>1. (IF next = NoBuffer THEN <<>> ELSE next) = <<>>
      BY Zenon DEF SparesEmpty
    <3> QED
      BY <1>6, <3>1, Zenon DEF LogRotating
  <2>3. current' = <<line>>
    <3>1. Append(<<>>, line) = <<line>>
      OBVIOUS
    <3> QED
      BY <2>2, <3>1, Zenon
  <2>4. FlattenSeq(buffers') = Join(B, current)
    <3>1. current # <<>>
      BY <1>6, RotateLine DEF TypeOK, LogRotating
    <3> QED
      BY <2>1, <3>1, QueueAppend DEF TypeOK, B
  <2> DEFINE before == Join(written, P)
  <2>5. before \in Seq(Lines)
    BY <1>1, <1>3
  <2> HIDE DEF before
  <2>6. accepted = Join(before, Join(B, current))
    <3>1. accepted = Join(Join(before, B), current)
      BY <1>2 DEF before
    <3> QED
      BY <1>1, <1>3, <2>5, <3>1
  <2>7. accepted' = Join(Join(before, FlattenSeq(buffers')), current')
    <3>1. accepted' = Join(accepted, <<line>>)
      BY <1>1, <1>4, <2>1
    <3> QED
      BY <2>3, <2>4, <2>6, <3>1, Zenon
  <2> QED
    BY <2>1, <2>7, OrderSuffices, Zenon DEF before, P
<1>7. CASE Collect
  <2>1. /\ pending' = pending \o Queued /\ accepted' = accepted /\ written' = written
        /\ TakeBuffers
    BY <1>7 DEF Collect
  <2>2. buffers' = <<>> /\ current' = <<>>
    BY <2>1, Zenon DEF TakeBuffers, SparesEmpty
  <2>3. FlattenSeq(pending') = Join(P, Join(B, current))
    <3>1. pending \in Seq(Seq(Lines)) /\ Queued \in Seq(Seq(Lines))
      BY QueueTyped, QueuedFacts DEF TypeOK
    <3>2. FlattenSeq(Join(pending, Queued)) = Join(FlattenSeq(pending), FlattenSeq(Queued))
      BY <3>1, FlattenConcat
    <3> QED
      BY <2>1, <3>2, QueuedFacts, Zenon DEF Join, P, B
  <2> DEFINE new == Join(P, Join(B, current))
  <2>4. new \in Seq(Lines) /\ Join(written, new) \in Seq(Lines)
    BY <1>1, <1>3
  <2>5. accepted = Join(written, new)
    <3>1. Join(Join(Join(written, P), B), current) = Join(Join(written, P), Join(B, current))
      BY <1>1, <1>3
    <3>2. Join(Join(written, P), Join(B, current)) = Join(written, Join(P, Join(B, current)))
      BY <1>1, <1>3
    <3> QED
      BY <1>2, <3>1, <3>2
  <2> HIDE DEF new
  <2>6. Join(Join(Join(written, new), <<>>), <<>>) = Join(written, new)
    BY <1>3, <2>4, Zenon
  <2>7. FlattenSeq(pending') = new
    BY <2>3 DEF new
  <2> QED
    BY <2>1, <2>2, <2>5, <2>6, <2>7, OrderSuffices, FlattenEmpty, Zenon
<1>8. CASE Exit
  <2>1. /\ pending' = pending /\ accepted' = accepted /\ written' = written
        /\ TakeBuffers /\ Queued = <<>>
    BY <1>8 DEF Exit
  <2>2. buffers' = <<>> /\ current' = <<>>
    BY <2>1, Zenon DEF TakeBuffers, SparesEmpty
  <2>3. buffers = <<>> /\ current = <<>>
    BY <2>1, QueuedFacts, Zenon
  <2> QED
    BY <1>2, <2>1, <2>2, <2>3, OrderSuffices, Zenon DEF P, B
<1>9. CASE WriteBuffer
  <2>1. /\ accepted' = accepted /\ current' = current /\ buffers' = buffers
        /\ written' = written \o Head(pending) /\ pending' = Tail(pending)
        /\ pending # <<>>
    BY <1>9 DEF WriteBuffer
  <2>2. /\ Head(pending) \in Seq(Lines) /\ FlattenSeq(Tail(pending)) \in Seq(Lines)
        /\ P = Join(Head(pending), FlattenSeq(Tail(pending)))
    BY <2>1, QueueHead, QueueTyped DEF TypeOK, Buffers, P
  <2>3. Join(written, P) = Join(Join(written, Head(pending)), FlattenSeq(Tail(pending)))
    <3>1. written \in Seq(Lines) /\ Head(pending) \in Seq(Lines)
          /\ FlattenSeq(Tail(pending)) \in Seq(Lines)
      BY <1>1, <2>2
    <3>2. Join(Join(written, Head(pending)), FlattenSeq(Tail(pending)))
            = Join(written, Join(Head(pending), FlattenSeq(Tail(pending))))
      BY <3>1, JoinLines, ZenonT(30)
    <3> QED
      BY <2>2, <3>2, Zenon
  <2>4. written' = Join(written, Head(pending))
    BY <2>1 DEF Join
  <2>5. Join(written, P) = Join(written', FlattenSeq(pending'))
    BY <2>1, <2>3, <2>4, Zenon
  <2> QED
    BY <1>2, <2>1, <2>5, OrderSuffices, Zenon DEF B
<1>10. CASE UNCHANGED <<accepted, written, pending, buffers, current>>
  BY <1>2, <1>10, OrderSuffices, Zenon DEF P, B
<1>11. Start \/ StopRunning \/ StopStep \/ Wait \/ WaitTimeout \/ FailWrite \/ EndWrite
       \/ UNCHANGED vars => UNCHANGED <<accepted, written, pending, buffers, current>>
  BY DEF Start, StopRunning, StopStep, StopNotify, StopJoin, Wait, WaitTimeout,
         FailWrite, EndWrite, vars
<1> QED
  BY <1>5, <1>6, <1>7, <1>8, <1>9, <1>10, <1>11 DEF Next, ThreadStep

(* The inductive invariant holds in every reachable state, for any number   *)
(* and lengths of lines, any size of the buffers and any number of failed   *)
(* writes: append() and ThreadFunc() keep buffers within their size, reset  *)
(* before they are used again, and in the order of their lines.             *)
THEOREM Invariance == Spec => []IInv
<1>1. IInv /\ [Next]_vars => IInv'
  BY TypeStep, SparesStep, LifeStep, OrderStep, NumberedStep DEF IInv
<1> QED
  BY <1>1, InitIInv, PTL DEF Spec

(* Every variable keeps its type, and no buffer holds more than it can.     *)
THEOREM TypeCorrect == Spec => []TypeOK
<1>1. IInv => TypeOK
  BY DEF IInv
<1> QED
  BY <1>1, Invariance, PTL

(* Rotation, recycling and retries neither lose, repeat nor reorder a line. *)
THEOREM LinesInOrder == Spec => []NothingLostOrReordered
<1>1. IInv => NothingLostOrReordered
  BY DEF IInv
<1> QED
  BY <1>1, Invariance, PTL

-----------------------------------------------------------------------------
(* The refinement.                                                         *)

LEMMA RestOfJoin ==
    \A w, a, b, c \in Seq(Lines) :
        /\ Join(Join(a, b), c) \in Seq(Lines)
        /\ Join(Join(Join(w, a), b), c) = Join(w, Join(Join(a, b), c))
<1> TAKE w, a, b, c \in Seq(Lines)
<1>1. Join(w, a) \in Seq(Lines) /\ Join(a, b) \in Seq(Lines)
  BY JoinFacts
<1>2. Join(Join(a, b), c) \in Seq(Lines)
  BY <1>1, JoinFacts
<1>3. Join(Join(w, a), b) = Join(w, Join(a, b))
  BY JoinFacts
<1>4. Join(Join(w, Join(a, b)), c) = Join(w, Join(Join(a, b), c))
  BY <1>1, JoinFacts
<1> QED
  BY <1>2, <1>3, <1>4

LEMMA WrittenIsPrefix ==
    TypeOK /\ NothingLostOrReordered =>
        Len(written) <= Len(accepted) /\ written = SubSeq(accepted, 1, Len(written))
<1> SUFFICES ASSUME TypeOK, NothingLostOrReordered
             PROVE  Len(written) <= Len(accepted)
                    /\ written = SubSeq(accepted, 1, Len(written))
  OBVIOUS
<1> DEFINE p == FlattenSeq(pending)
           b == FlattenSeq(buffers)
           rest == Join(Join(p, b), current)
<1>1. /\ written \in Seq(Lines) /\ current \in Seq(Lines)
      /\ p \in Seq(Lines) /\ b \in Seq(Lines)
      /\ accepted = Join(Join(Join(written, p), b), current)
  BY OrderTyped
<1> HIDE DEF p, b
<1>2. rest \in Seq(Lines) /\ accepted = Join(written, rest)
  <2>1. written \in Seq(Lines) /\ p \in Seq(Lines) /\ b \in Seq(Lines) /\ current \in Seq(Lines)
    BY <1>1
  <2>2. /\ Join(Join(p, b), current) \in Seq(Lines)
        /\ Join(Join(Join(written, p), b), current) = Join(written, Join(Join(p, b), current))
    BY <2>1, RestOfJoin
  <2> QED
    BY <1>1, <2>2
<1> HIDE DEF rest
<1> QED
  BY <1>1, <1>2, SubSeqOfConcat1 DEF Join

LEMMA AllWritten ==
    ASSUME TypeOK, NothingLostOrReordered, LifeCycle, pc = "exited"
    PROVE  written = accepted
<1>1. written \in Seq(Lines)
  BY OrderTyped
<1>2. pending = <<>> /\ buffers = <<>> /\ current = <<>>
  BY DEF LifeCycle
<1>3. Join(Join(Join(written, <<>>), <<>>), <<>>) = written
  BY <1>1, JoinLines, Zenon
<1> QED
  BY <1>2, <1>3, OrderTyped, FlattenEmpty, Zenon

LEMMA RefinesInit == Init => LQ!Init
BY DEF Init, LQ!Init

LEMMA RefinesNext ==
    ASSUME IInv, IInv', [Next]_vars
    PROVE  [LQ!Next]_(LQ!vars)
<1> USE DEF queues, spares
<1>1. ASSUME NEW line \in Lines, Log(line) \/ LogRotating(line)
      PROVE  LQ!Accept(line)
  <2>1. running /\ accepted' = Append(accepted, line) /\ written' = written /\ caller' = caller
    BY <1>1 DEF Log, LogRotating, Accepting
  <2>2. caller = "running"
    BY <2>1 DEF IInv, LifeCycle
  <2> QED
    BY <2>1, <2>2 DEF LQ!Accept
<1>2. CASE StopRunning
  BY <1>2 DEF StopRunning, LQ!CallStop, LQ!Next
<1>3. CASE StopJoin
  <2>1. written = accepted
    BY <1>3, AllWritten DEF StopJoin, IInv
  <2> QED
    BY <1>3, <2>1 DEF StopJoin, LQ!Stop, LQ!Next
<1>4. CASE WriteBuffer
  <2>1. /\ pending # <<>> /\ written' = written \o Head(pending)
        /\ UNCHANGED <<accepted, caller>>
    BY <1>4 DEF WriteBuffer
  <2>2. Head(pending) \in Seq(Lines) /\ Head(pending) # <<>> /\ written \in Seq(Lines)
    BY <2>1, QueueHead DEF IInv, TypeOK, Buffers
  <2>3. Len(written) \in Nat /\ Len(written') = Len(written) + Len(Head(pending))
    BY <2>1, <2>2, ConcatProperties
  <2>4. Len(Head(pending)) \in Nat /\ Len(Head(pending)) # 0
    BY <2>2, EmptySeq
  <2>5. (Len(written) <= Len(accepted) /\ written = SubSeq(accepted, 1, Len(written)))'
    <3>1. (TypeOK /\ NothingLostOrReordered)'
      BY DEF IInv
    <3> QED
      BY <3>1, WrittenIsPrefix, PTL
  <2>6. Len(accepted) \in Nat
    BY DEF IInv, TypeOK
  <2>7. Len(written') \in (Len(written) + 1)..Len(accepted)
    BY <2>1, <2>3, <2>4, <2>5, <2>6
  <2> QED
    BY <2>1, <2>5, <2>7 DEF LQ!Write, LQ!Next
<1>5. CASE Start \/ StopNotify \/ Wait \/ WaitTimeout \/ Collect \/ Exit \/ FailWrite
           \/ EndWrite \/ UNCHANGED vars
  <2>1. UNCHANGED <<accepted, written>> /\ \/ UNCHANGED caller
                                           \/ caller = "start" /\ caller' = "running"
                                           \/ caller = "notify" /\ caller' = "join"
    BY <1>5 DEF Start, StopNotify, Wait, WaitTimeout, Collect, Exit, FailWrite, EndWrite, vars
  <2> QED
    BY <2>1 DEF LQ!vars
<1> QED
  BY <1>1, <1>2, <1>3, <1>4, <1>5 DEF Next, StopStep, ThreadStep, LQ!Next

(* The logger implements the safety part of the queue of lines: the file    *)
(* only ever grows by the next lines, append() takes none once stop() has   *)
(* been called, and stop() returns only when all that was taken is written. *)
THEOREM RefinesLogQueue == Spec => LQ!SafeSpec
<1>1. Init => LQ!Init
  BY RefinesInit
<1>2. IInv /\ IInv' /\ [Next]_vars => [LQ!Next]_(LQ!vars)
  BY RefinesNext
<1> QED
  BY <1>1, <1>2, Invariance, PTL DEF Spec, LQ!SafeSpec

-----------------------------------------------------------------------------
(* The file, read back.                                                    *)

(* What stands in the file was taken in its place.                          *)
LEMMA WrittenNumbered ==
    ASSUME IInv, NEW i \in 1..Len(written)
    PROVE  written[i] \in Logged(i) /\ Numbers[i] \in Ints
<1>1. /\ Len(written) <= Len(accepted) /\ written = SubSeq(accepted, 1, Len(written))
      /\ Len(written) \in Nat /\ Len(accepted) \in Nat /\ accepted \in Seq(Lines)
  BY WrittenIsPrefix DEF IInv, TypeOK
<1> DEFINE n == Len(written)
<1>2. SubSeq(accepted, 1, n)[i] = accepted[i]
  BY <1>1, SubSeqProperties
<1>3. written[i] = accepted[i]
  BY <1>1, <1>2, Zenon
<1>4. i \in 1..Len(accepted) /\ i \in 1..Len(Numbers)
  BY <1>1, AsyncLoggerAssumption DEF IInv, Numbered
<1>5. Numbers[i] \in Ints
  BY <1>4, AsyncLoggerAssumption, ElementOfSeq
<1> QED
  BY <1>3, <1>4, <1>5 DEF IInv, Numbered

LEMMA FileReads == IInv => FileReadsBack
<1> SUFFICES ASSUME IInv, NEW i \in 1..Len(written), written[i].room
             PROVE  ReadsBack(written[i].text, Numbers[i])
  BY Zenon DEF FileReadsBack, ReadsBack
<1>1. PICK line \in Logged(i) : line = written[i] /\ line.room
  BY WrittenNumbered, Zenon
<1>2. PICK n \in TextSizes :
         line = [no |-> i, room |-> Len(Header) + n + kMaxNumericSize <= kBufferSize,
                 text |-> Line(n, Numbers[i])]
  <2>1. ASSUME NEW n \in DirectSizes, line = [no |-> i, room |-> FALSE, text |-> Text(n)]
        PROVE  FALSE
    BY <1>1, <2>1
  <2> QED
    BY <1>1, <2>1 DEF Logged
<1>3. n \in Nat /\ Numbers[i] \in Ints
  BY WrittenNumbered, AsyncLoggerAssumption
<1>4. Len(Header) + n + kMaxNumericSize <= kBufferSize
  <2> DEFINE fits == Len(Header) + n + kMaxNumericSize <= kBufferSize
  <2> HIDE DEF fits
  <2>1. line = [no |-> i, room |-> fits, text |-> Line(n, Numbers[i])]
    BY <1>2 DEF fits
  <2>2. line.room = fits
    BY <2>1, Zenon
  <2> QED
    BY <1>1, <2>2, Zenon DEF fits
<1>5. ReadsBack(Line(n, Numbers[i]), Numbers[i])
  BY <1>3, <1>4, LineReads
<1>6. line.text = Line(n, Numbers[i])
  BY <1>2
<1> QED
  BY <1>1, <1>5, <1>6, Zenon

(* Whoever reads the file finds every number that was logged, the smallest  *)
(* value of its type included, unless the text before it left too little    *)
(* room: LogStream's convert() and formatInteger(), and the order of lines. *)
THEOREM NumbersReadBack == Spec => []FileReadsBack
BY Invariance, FileReads, PTL
=============================================================================
