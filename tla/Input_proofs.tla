---------------------------- MODULE Input_proofs ----------------------------
(***************************************************************************)
(* Proofs about a connection's input, for any sizes, bytes and messages.   *)
(*                                                                         *)
(* First Buffer.tla: the indices stay in bounds, the buffer is a queue of  *)
(* bytes, and it only grows when it has to.  Each operation of the buffer  *)
(* has a lemma that says what it does to a well-formed buffer; the         *)
(* theorems put them together.                                             *)
(*                                                                         *)
(* Then HttpInput.tla: with whatever cuts the bytes arrive, the parser     *)
(* stands at one place of one message the client wrote, and what it has    *)
(* kept is what that message says so far.  `Place' names that place; each  *)
(* step of the parser has a lemma that moves it on, and the theorems say   *)
(* that the responses answer the messages, in order, and that an idle      *)
(* server holds back nothing it has read in full.                          *)
(***************************************************************************)
EXTENDS Buffer, HttpInput, FoldLemmas

-----------------------------------------------------------------------------
(* The byte buffer.                                                        *)

(* Appending in two pieces, and taking in two pieces. *)
LEMMA AppendingTwice == \A s, t, u \in Seq(Bytes) : (s \o t) \o u = s \o (t \o u)
BY ConcatAssociative

LEMMA TakingTwice ==
    ASSUME NEW s \in Seq(Bytes), NEW i \in 1..Len(s), NEW j \in 1..Len(s),
           NEW m \in 1..(j - i + 1), NEW n \in 1..(j - i + 1)
    PROVE  SubSeq(SubSeq(s, i, j), m, n) = SubSeq(s, i + m - 1, i + n - 1)
OBVIOUS

(* What std::copy leaves in the vector, if it stays inside. *)
LEMMA CopyIsLocal ==
    ASSUME NEW cells \in Seq(Bytes), NEW at \in Nat, NEW s \in Seq(Bytes),
           at + Len(s) <= Len(cells)
    PROVE  /\ CopyTo(cells, at, s) \in Seq(Bytes)
           /\ Len(CopyTo(cells, at, s)) = Len(cells)
           /\ \A i \in 1..Len(cells) :
                 CopyTo(cells, at, s)[i] =
                    IF at < i /\ i <= at + Len(s) THEN s[i - at] ELSE cells[i]
<1>1. ASSUME NEW i \in 1..Len(cells), at < i, i <= at + Len(s)
      PROVE  s[i - at] \in Bytes
  BY <1>1, ElementOfSeq
<1>2. \A i \in 1..Len(cells) : cells[i] \in Bytes
  BY ElementOfSeq
<1>3. CopyTo(cells, at, s) \in [1..Len(cells) -> Bytes]
  BY <1>1, <1>2 DEF CopyTo
<1>4. Len(cells) \in Nat
  BY LenProperties
<1> QED
  BY <1>3, <1>4 DEF CopyTo

(* A vector that grows keeps its bytes. *)
LEMMA ResizeKeepsBytes ==
    ASSUME NEW cells \in Seq(Bytes), NEW n \in Nat, Len(cells) <= n
    PROVE  /\ Resized(cells, n) \in Seq(Bytes)
           /\ Len(Resized(cells, n)) = n
           /\ \A i \in 1..Len(cells) : Resized(cells, n)[i] = cells[i]
<1>1. \A i \in 1..Len(cells) : cells[i] \in Bytes
  BY ElementOfSeq
<1>2. Len(cells) \in Nat
  BY LenProperties
<1>3. Resized(cells, n) \in [1..n -> Bytes]
  BY <1>1, <1>2, BufferAssumption DEF Resized
<1> QED
  BY <1>2, <1>3 DEF Resized

(* The readable bytes, one by one. *)
LEMMA ContentsByIndex ==
    \A b : WellFormed(b) =>
        /\ Contents(b) \in Seq(Bytes)
        /\ Readable(b) \in Nat
        /\ Len(Contents(b)) = Readable(b)
        /\ \A i \in 1..Readable(b) : Contents(b)[i] = b.cells[b.reader + i]
<1> SUFFICES ASSUME NEW b, WellFormed(b)
             PROVE  /\ Contents(b) \in Seq(Bytes)
                    /\ Readable(b) \in Nat
                    /\ Len(Contents(b)) = Readable(b)
                    /\ \A i \in 1..Readable(b) : Contents(b)[i] = b.cells[b.reader + i]
  OBVIOUS
<1> DEFINE r == b.reader
           w == b.writer
<1>1. /\ b.cells \in Seq(Bytes) /\ r \in Nat /\ w \in Nat
      /\ r <= w /\ w <= Len(b.cells) /\ Len(b.cells) \in Nat
  BY LenProperties DEF WellFormed
<1>2. \A i \in (r + 1)..w : b.cells[i] \in Bytes
  BY <1>1, ElementOfSeq
<1>3. /\ SubSeq(b.cells, r + 1, w) \in Seq(Bytes)
      /\ Len(SubSeq(b.cells, r + 1, w)) = w - r
      /\ \A i \in 1..(w - r) : SubSeq(b.cells, r + 1, w)[i] = b.cells[r + i]
  <2> HIDE DEF r, w
  <2> QED
    BY <1>1, <1>2
<1> QED
  BY <1>1, <1>3 DEF Contents, Readable

(* Moving the readable bytes elsewhere changes nothing visible. *)
LEMMA SameContents ==
    \A b, e : /\ WellFormed(b) /\ WellFormed(e)
              /\ Readable(e) = Readable(b)
              /\ \A i \in 1..Readable(b) : e.cells[e.reader + i] = b.cells[b.reader + i]
              => Contents(e) = Contents(b)
<1> SUFFICES ASSUME NEW b, NEW e, WellFormed(b), WellFormed(e),
                    Readable(e) = Readable(b),
                    \A i \in 1..Readable(b) : e.cells[e.reader + i] = b.cells[b.reader + i]
             PROVE  Contents(e) = Contents(b)
  OBVIOUS
<1>1. /\ Contents(b) \in Seq(Bytes) /\ Contents(e) \in Seq(Bytes)
      /\ Len(Contents(b)) = Readable(b) /\ Len(Contents(e)) = Readable(b)
      /\ \A i \in 1..Readable(b) : Contents(e)[i] = Contents(b)[i]
  BY ContentsByIndex
<1> QED
  BY <1>1, SeqEqual

(* Writing where there is room appends. *)
LEMMA WritingAppends ==
    \A b : \A s \in Seq(Bytes) : WellFormed(b) /\ Len(s) <= Writable(b) =>
        /\ WellFormed(Written(b, s))
        /\ Len(Written(b, s).cells) = Len(b.cells)
        /\ Readable(Written(b, s)) = Readable(b) + Len(s)
        /\ Contents(Written(b, s)) = Contents(b) \o s
<1> SUFFICES ASSUME NEW b, NEW s \in Seq(Bytes), WellFormed(b), Len(s) <= Writable(b)
             PROVE  /\ WellFormed(Written(b, s))
                    /\ Len(Written(b, s).cells) = Len(b.cells)
                    /\ Readable(Written(b, s)) = Readable(b) + Len(s)
                    /\ Contents(Written(b, s)) = Contents(b) \o s
  OBVIOUS
<1> DEFINE w == Written(b, s)
<1>1. /\ b \in [cells : Seq(Bytes), reader : Nat, writer : Nat]
      /\ kCheapPrepend <= b.reader /\ b.reader <= b.writer
      /\ b.writer + Len(s) <= Len(b.cells)
      /\ Len(s) \in Nat /\ Len(b.cells) \in Nat
      /\ kCheapPrepend \in Nat
  BY LenProperties, BufferAssumption DEF WellFormed, Writable
<1>2. /\ CopyTo(b.cells, b.writer, s) \in Seq(Bytes)
      /\ Len(CopyTo(b.cells, b.writer, s)) = Len(b.cells)
      /\ \A i \in 1..Len(b.cells) :
            CopyTo(b.cells, b.writer, s)[i] =
               IF b.writer < i /\ i <= b.writer + Len(s) THEN s[i - b.writer] ELSE b.cells[i]
  BY <1>1, CopyIsLocal
<1>3. /\ w \in [cells : Seq(Bytes), reader : Nat, writer : Nat]
      /\ w.cells = CopyTo(b.cells, b.writer, s)
      /\ w.reader = b.reader /\ w.writer = b.writer + Len(s)
  BY <1>1, <1>2 DEF Written
<1>4. WellFormed(w) /\ Len(w.cells) = Len(b.cells) /\ Readable(w) = Readable(b) + Len(s)
  BY <1>1, <1>2, <1>3 DEF WellFormed, Readable
<1>5. /\ Contents(b) \in Seq(Bytes) /\ Contents(w) \in Seq(Bytes)
      /\ Len(Contents(b)) = Readable(b) /\ Len(Contents(w)) = Readable(b) + Len(s)
      /\ Readable(b) \in Nat
      /\ \A i \in 1..Readable(b) : Contents(b)[i] = b.cells[b.reader + i]
      /\ \A i \in 1..(Readable(b) + Len(s)) : Contents(w)[i] = w.cells[w.reader + i]
  BY <1>4, ContentsByIndex
<1>6. /\ Contents(b) \o s \in Seq(Bytes)
      /\ Len(Contents(b) \o s) = Readable(b) + Len(s)
      /\ \A i \in 1..(Readable(b) + Len(s)) : (Contents(b) \o s)[i] =
            IF i <= Readable(b) THEN Contents(b)[i] ELSE s[i - Readable(b)]
  BY <1>5, ConcatProperties
<1>7. ASSUME NEW i \in 1..(Readable(b) + Len(s))
      PROVE  Contents(w)[i] = (Contents(b) \o s)[i]
  <2>1. Contents(w)[i] = CopyTo(b.cells, b.writer, s)[b.reader + i]
    BY <1>3, <1>5
  <2>2. b.reader + i \in 1..Len(b.cells) /\ b.writer = b.reader + Readable(b)
    BY <1>1, <1>5 DEF Readable
  <2>3. CASE i <= Readable(b)
    <3>1. ~(b.writer < b.reader + i)
      BY <1>1, <1>5, <2>2, <2>3
    <3>2. i \in 1..Readable(b)
      BY <1>5, <2>3
    <3>3. Contents(w)[i] = b.cells[b.reader + i]
      BY <1>2, <2>1, <2>2, <3>1
    <3>4. (Contents(b) \o s)[i] = b.cells[b.reader + i]
      BY <1>5, <1>6, <2>3, <3>2
    <3> QED
      BY <3>3, <3>4
  <2>4. CASE i > Readable(b)
    <3>0. b.reader \in Nat /\ Readable(b) \in Nat /\ Len(s) \in Nat /\ i \in Nat
          /\ i <= Readable(b) + Len(s) /\ b.writer = b.reader + Readable(b)
      BY <1>1, <1>5, <2>2
    <3>1. /\ b.writer < b.reader + i /\ b.reader + i <= b.writer + Len(s)
          /\ b.reader + i - b.writer = i - Readable(b)
          /\ ~(i <= Readable(b))
      BY <2>4, <3>0
    <3>2. PICK j \in 1..Len(b.cells) : j = b.reader + i
      BY <2>2
    <3>3. CopyTo(b.cells, b.writer, s)[j] = s[j - b.writer]
      BY <1>2, <3>1, <3>2
    <3>4. j - b.writer = i - Readable(b)
      BY <1>1, <1>5, <2>2, <3>2
    <3>5. Contents(w)[i] = s[i - Readable(b)]
      BY <2>1, <3>2, <3>3, <3>4
    <3>6. (Contents(b) \o s)[i] = s[i - Readable(b)]
      BY <1>6, <3>1
    <3> QED
      BY <3>5, <3>6
  <2> QED
    BY <2>3, <2>4, <1>5
<1>8. Contents(w) = Contents(b) \o s
  BY <1>5, <1>6, <1>7, SeqEqual
<1> QED
  BY <1>4, <1>8

(* A vector with at least the readable bytes behind the prepend space, where *)
(* they are copied to, is a buffer with the same contents.                  *)
LEMMA MovingKeepsContents ==
    \A b : \A v \in Seq(Bytes) :
        WellFormed(b) /\ kCheapPrepend + Readable(b) <= Len(v) =>
            LET e == [cells |-> CopyTo(v, kCheapPrepend, Contents(b)),
                      reader |-> kCheapPrepend, writer |-> kCheapPrepend + Readable(b)]
            IN  /\ WellFormed(e)
                /\ Len(e.cells) = Len(v)
                /\ Readable(e) = Readable(b)
                /\ Contents(e) = Contents(b)
<1> SUFFICES ASSUME NEW b, NEW v \in Seq(Bytes), WellFormed(b),
                    kCheapPrepend + Readable(b) <= Len(v)
             PROVE  LET e == [cells |-> CopyTo(v, kCheapPrepend, Contents(b)),
                              reader |-> kCheapPrepend, writer |-> kCheapPrepend + Readable(b)]
                    IN  /\ WellFormed(e)
                        /\ Len(e.cells) = Len(v)
                        /\ Readable(e) = Readable(b)
                        /\ Contents(e) = Contents(b)
  OBVIOUS
<1> DEFINE e == [cells |-> CopyTo(v, kCheapPrepend, Contents(b)),
                 reader |-> kCheapPrepend, writer |-> kCheapPrepend + Readable(b)]
<1>1. /\ Contents(b) \in Seq(Bytes) /\ Readable(b) \in Nat
      /\ Len(Contents(b)) = Readable(b) /\ kCheapPrepend \in Nat /\ Len(v) \in Nat
      /\ \A i \in 1..Readable(b) : Contents(b)[i] = b.cells[b.reader + i]
  BY ContentsByIndex, LenProperties, BufferAssumption
<1>2. /\ e.cells \in Seq(Bytes) /\ Len(e.cells) = Len(v)
      /\ \A i \in 1..Len(v) : e.cells[i] =
            IF kCheapPrepend < i /\ i <= kCheapPrepend + Readable(b)
            THEN Contents(b)[i - kCheapPrepend] ELSE v[i]
  BY <1>1, CopyIsLocal
<1>3. WellFormed(e)
  BY <1>1, <1>2 DEF WellFormed
<1>4. Readable(e) = Readable(b)
  BY <1>1 DEF Readable
<1>5. ASSUME NEW i \in 1..Readable(b)
      PROVE  e.cells[e.reader + i] = b.cells[b.reader + i]
  <2>1. /\ kCheapPrepend + i \in 1..Len(v)
        /\ kCheapPrepend < kCheapPrepend + i
        /\ kCheapPrepend + i <= kCheapPrepend + Readable(b)
        /\ kCheapPrepend + i - kCheapPrepend = i
    BY <1>1
  <2>2. PICK j \in 1..Len(v) : j = kCheapPrepend + i
    BY <2>1
  <2>3. e.cells[j] = Contents(b)[i]
    <3> HIDE DEF e
    <3>1. e.cells[j] = Contents(b)[j - kCheapPrepend]
      BY <1>2, <2>1, <2>2
    <3>2. j - kCheapPrepend = i
      BY <1>1, <2>2
    <3> QED
      BY <3>1, <3>2
  <2> QED
    BY <1>1, <2>2, <2>3
<1>6. Contents(e) = Contents(b)
  <2> HIDE DEF e
  <2> QED
    BY <1>3, <1>4, <1>5, SameContents
<1> QED
  BY <1>2, <1>3, <1>4, <1>6

(* ensureWritable makes room, and says when the vector grew for it. *)
LEMMA EnsureWritableMakesRoom ==
    \A b : \A len \in Nat : WellFormed(b) =>
        LET e == EnsureWritable(b, len)
        IN  /\ WellFormed(e)
            /\ len <= Writable(e)
            /\ Readable(e) = Readable(b)
            /\ Contents(e) = Contents(b)
            /\ \/ Len(e.cells) = Len(b.cells)
               \/ Len(e.cells) < kCheapPrepend + Readable(b) + 2 * len - Writable(b)
<1> SUFFICES ASSUME NEW b, NEW len \in Nat, WellFormed(b)
             PROVE  LET e == EnsureWritable(b, len)
                    IN  /\ WellFormed(e)
                        /\ len <= Writable(e)
                        /\ Readable(e) = Readable(b)
                        /\ Contents(e) = Contents(b)
                        /\ \/ Len(e.cells) = Len(b.cells)
                           \/ Len(e.cells) <
                                 kCheapPrepend + Readable(b) + 2 * len - Writable(b)
  OBVIOUS
<1> DEFINE e == EnsureWritable(b, len)
<1>1. /\ b \in [cells : Seq(Bytes), reader : Nat, writer : Nat]
      /\ kCheapPrepend <= b.reader /\ b.reader <= b.writer
      /\ b.writer <= Len(b.cells)
      /\ Len(b.cells) \in Nat /\ kCheapPrepend \in Nat
  BY LenProperties, BufferAssumption DEF WellFormed
<1>2. CASE Writable(b) >= len
  BY <1>1, <1>2 DEF EnsureWritable, Writable
<1>3. CASE ~(Writable(b) >= len) /\ Writable(b) + b.reader - kCheapPrepend >= len
  <2>1. e = Compacted(b)
    BY <1>3 DEF EnsureWritable, MakeSpace
  <2>2. kCheapPrepend + Readable(b) <= Len(b.cells)
    BY <1>1 DEF Readable
  <2>3. /\ WellFormed(e) /\ Len(e.cells) = Len(b.cells)
        /\ Readable(e) = Readable(b) /\ Contents(e) = Contents(b)
    BY <1>1, <2>1, <2>2, MovingKeepsContents DEF Compacted
  <2>4. e.writer = kCheapPrepend + Readable(b)
    BY <2>1 DEF Compacted
  <2> QED
    BY <1>1, <1>3, <2>3, <2>4 DEF Writable, Readable
<1>4. CASE ~(Writable(b) >= len) /\ ~(Writable(b) + b.reader - kCheapPrepend >= len)
  <2>1. e = Grown(b, len)
    BY <1>4 DEF EnsureWritable, MakeSpace
  <2>2. b.writer + len \in Nat /\ Len(b.cells) <= b.writer + len
    BY <1>1, <1>4 DEF Writable
  <2>3. /\ e.cells \in Seq(Bytes) /\ Len(e.cells) = b.writer + len
        /\ \A i \in 1..Len(b.cells) : e.cells[i] = b.cells[i]
        /\ e.reader = b.reader /\ e.writer = b.writer
        /\ e \in [cells : Seq(Bytes), reader : Nat, writer : Nat]
    BY <1>1, <2>1, <2>2, ResizeKeepsBytes DEF Grown
  <2>4. WellFormed(e) /\ Readable(e) = Readable(b) /\ len <= Writable(e)
    BY <1>1, <2>3 DEF WellFormed, Readable, Writable
  <2>5. ASSUME NEW i \in 1..Readable(b)
        PROVE  e.cells[e.reader + i] = b.cells[b.reader + i]
    <3>1. b.reader + i \in 1..Len(b.cells)
      BY <1>1 DEF Readable
    <3> QED
      BY <2>3, <3>1
  <2>6. Contents(e) = Contents(b)
    BY <2>4, <2>5, SameContents
  <2>7. Len(e.cells) < kCheapPrepend + Readable(b) + 2 * len - Writable(b)
    BY <1>1, <1>4, <2>3 DEF Readable, Writable
  <2> QED
    BY <2>4, <2>6, <2>7
<1> QED
  BY <1>2, <1>3, <1>4

(* append, wherever its bytes end up. *)
LEMMA AppendingAppends ==
    \A b : \A s \in Seq(Bytes) : WellFormed(b) =>
        LET e == AppendTo(b, s)
        IN  /\ WellFormed(e)
            /\ Readable(e) = Readable(b) + Len(s)
            /\ Contents(e) = Contents(b) \o s
            /\ \/ Len(e.cells) = Len(b.cells)
               \/ Len(e.cells) < kCheapPrepend + Readable(b) + 2 * Len(s) - Writable(b)
<1> SUFFICES ASSUME NEW b, NEW s \in Seq(Bytes), WellFormed(b)
             PROVE  LET e == AppendTo(b, s)
                    IN  /\ WellFormed(e)
                        /\ Readable(e) = Readable(b) + Len(s)
                        /\ Contents(e) = Contents(b) \o s
                        /\ \/ Len(e.cells) = Len(b.cells)
                           \/ Len(e.cells) <
                                 kCheapPrepend + Readable(b) + 2 * Len(s) - Writable(b)
  OBVIOUS
<1> DEFINE m == EnsureWritable(b, Len(s))
<1>1. Len(s) \in Nat
  BY LenProperties
<1>2. /\ WellFormed(m) /\ Len(s) <= Writable(m)
      /\ Readable(m) = Readable(b) /\ Contents(m) = Contents(b)
      /\ \/ Len(m.cells) = Len(b.cells)
         \/ Len(m.cells) < kCheapPrepend + Readable(b) + 2 * Len(s) - Writable(b)
  BY <1>1, EnsureWritableMakesRoom
<1>3. /\ WellFormed(Written(m, s))
      /\ Len(Written(m, s).cells) = Len(m.cells)
      /\ Readable(Written(m, s)) = Readable(m) + Len(s)
      /\ Contents(Written(m, s)) = Contents(m) \o s
  BY <1>2, WritingAppends
<1> QED
  BY <1>2, <1>3 DEF AppendTo

(* readFd, in one piece or in two. *)
LEMMA ScatteringAppends ==
    \A b : \A s \in Seq(Bytes) : WellFormed(b) =>
        LET e == Scatter(b, s)
        IN  /\ WellFormed(e)
            /\ Readable(e) = Readable(b) + Len(s)
            /\ Contents(e) = Contents(b) \o s
            /\ \/ Len(e.cells) = Len(b.cells)
               \/ Len(e.cells) < kCheapPrepend + Readable(b) + 2 * Len(s)
<1> SUFFICES ASSUME NEW b, NEW s \in Seq(Bytes), WellFormed(b)
             PROVE  LET e == Scatter(b, s)
                    IN  /\ WellFormed(e)
                        /\ Readable(e) = Readable(b) + Len(s)
                        /\ Contents(e) = Contents(b) \o s
                        /\ \/ Len(e.cells) = Len(b.cells)
                           \/ Len(e.cells) < kCheapPrepend + Readable(b) + 2 * Len(s)
  OBVIOUS
<1> DEFINE room == Writable(b)
           fits == SubSeq(s, 1, room)
           rest == SubSeq(s, room + 1, Len(s))
           m == Written(b, fits)
<1>1. /\ Len(s) \in Nat /\ room \in Nat /\ kCheapPrepend \in Nat
      /\ Readable(b) \in Nat /\ Contents(b) \in Seq(Bytes) /\ Len(b.cells) \in Nat
  BY ContentsByIndex, LenProperties, BufferAssumption DEF WellFormed, Writable
<1>2. CASE Len(s) <= room
  BY <1>1, <1>2, WritingAppends DEF Scatter
<1>3. CASE ~(Len(s) <= room)
  <2>1. /\ fits \in Seq(Bytes) /\ rest \in Seq(Bytes)
        /\ Len(fits) = room /\ Len(rest) = Len(s) - room
    <3> HIDE DEF room
    <3> QED
      BY <1>1, <1>3
  <2>2. fits \o rest = s
    <3>1. SubSeq(s, 1, room) \o SubSeq(s, room + 1, Len(s)) = SubSeq(s, 1, Len(s))
      <4> HIDE DEF room
      <4>1. 1 \in 1..(Len(s) + 1) /\ room \in 0..Len(s) /\ Len(s) \in room..Len(s)
            /\ room \in (1 - 1)..Len(s)
        BY <1>1, <1>3
      <4> QED
        BY <4>1, ConcatAdjacentSubSeq
    <3> QED
      BY <3>1, SubSeqFull
  <2>3. /\ WellFormed(m) /\ Len(m.cells) = Len(b.cells)
        /\ Readable(m) = Readable(b) + room
        /\ Contents(m) = Contents(b) \o fits
    <3>1. fits \in Seq(Bytes) /\ Len(fits) = room /\ Len(fits) <= Writable(b)
      <4> HIDE DEF fits
      <4> QED
        BY <1>1, <2>1
    <3> HIDE DEF fits
    <3>2. /\ WellFormed(m) /\ Len(m.cells) = Len(b.cells)
          /\ Readable(m) = Readable(b) + Len(fits)
          /\ Contents(m) = Contents(b) \o fits
      BY <3>1, WritingAppends
    <3> QED
      BY <3>1, <3>2
  <2>4. Scatter(b, s) = AppendTo(m, rest)
    BY <1>3 DEF Scatter
  <2>5. /\ WellFormed(AppendTo(m, rest))
        /\ Readable(AppendTo(m, rest)) = Readable(m) + Len(rest)
        /\ Contents(AppendTo(m, rest)) = Contents(m) \o rest
        /\ \/ Len(AppendTo(m, rest).cells) = Len(m.cells)
           \/ Len(AppendTo(m, rest).cells) <
                 kCheapPrepend + Readable(m) + 2 * Len(rest) - Writable(m)
    BY <2>1, <2>3, AppendingAppends
  <2>6. (Contents(b) \o fits) \o rest = Contents(b) \o s
    <3>1. Contents(b) \in Seq(Bytes) /\ fits \in Seq(Bytes) /\ rest \in Seq(Bytes)
      BY <1>1, <2>1
    <3> HIDE DEF fits, rest
    <3>2. (Contents(b) \o fits) \o rest = Contents(b) \o (fits \o rest)
      BY <3>1, AppendingTwice
    <3> QED
      BY <2>2, <3>2
  <2>7. Writable(m) \in Nat /\ Len(AppendTo(m, rest).cells) \in Nat
    <3> HIDE DEF rest, m
    <3>1. \A e : WellFormed(e) => Writable(e) \in Nat /\ Len(e.cells) \in Nat
      BY LenProperties DEF WellFormed, Writable
    <3> QED
      BY <2>3, <2>5, <3>1
  <2> HIDE DEF room, fits, rest, m
  <2>a. /\ Len(s) \in Nat /\ room \in Nat /\ kCheapPrepend \in Nat
        /\ Readable(b) \in Nat /\ Writable(m) \in Nat
        /\ Len(rest) = Len(s) - room /\ Readable(m) = Readable(b) + room
    BY <1>1, <2>1, <2>3, <2>7, Zenon
  <2>8. Readable(m) + Len(rest) = Readable(b) + Len(s)
    BY <2>a
  <2>9. kCheapPrepend + Readable(m) + 2 * Len(rest) - Writable(m) <=
           kCheapPrepend + Readable(b) + 2 * Len(s)
    BY <2>a
  <2>10. kCheapPrepend + Readable(m) + 2 * Len(rest) - Writable(m) \in Int
         /\ kCheapPrepend + Readable(b) + 2 * Len(s) \in Int
    BY <2>a
  <2>11. \/ Len(AppendTo(m, rest).cells) = Len(b.cells)
         \/ Len(AppendTo(m, rest).cells) < kCheapPrepend + Readable(b) + 2 * Len(s)
    BY <2>3, <2>5, <2>7, <2>9, <2>10
  <2>12. /\ WellFormed(AppendTo(m, rest))
         /\ Readable(AppendTo(m, rest)) = Readable(b) + Len(s)
         /\ Contents(AppendTo(m, rest)) = Contents(b) \o s
    BY <2>3, <2>5, <2>6, <2>8
  <2> QED
    BY <2>4, <2>11, <2>12
<1> QED
  BY <1>2, <1>3

(* retrieve takes bytes from the front. *)
LEMMA RetrievingDrops ==
    \A b : \A n \in Nat : WellFormed(b) =>
        /\ WellFormed(RetrieveFrom(b, n))
        /\ RetrieveFrom(b, n).cells = b.cells
        /\ Contents(RetrieveFrom(b, n)) =
              IF n < Readable(b) THEN SubSeq(Contents(b), n + 1, Readable(b)) ELSE <<>>
<1> SUFFICES ASSUME NEW b, NEW n \in Nat, WellFormed(b)
             PROVE  /\ WellFormed(RetrieveFrom(b, n))
                    /\ RetrieveFrom(b, n).cells = b.cells
                    /\ Contents(RetrieveFrom(b, n)) =
                          IF n < Readable(b)
                          THEN SubSeq(Contents(b), n + 1, Readable(b)) ELSE <<>>
  OBVIOUS
<1>1. /\ b \in [cells : Seq(Bytes), reader : Nat, writer : Nat]
      /\ kCheapPrepend <= b.reader /\ b.reader <= b.writer
      /\ b.writer <= Len(b.cells)
      /\ Len(b.cells) \in Nat /\ kCheapPrepend \in Nat
  BY LenProperties, BufferAssumption DEF WellFormed
<1>2. WellFormed(RetrieveFrom(b, n)) /\ RetrieveFrom(b, n).cells = b.cells
  BY <1>1 DEF RetrieveFrom, WellFormed, Readable
<1>3. CASE n < Readable(b)
  <2>1. Contents(RetrieveFrom(b, n)) = SubSeq(b.cells, b.reader + n + 1, b.writer)
    BY <1>3 DEF RetrieveFrom, Contents
  <2>2. SubSeq(SubSeq(b.cells, b.reader + 1, b.writer), n + 1, Readable(b)) =
        SubSeq(b.cells, b.reader + 1 + (n + 1) - 1, b.reader + 1 + Readable(b) - 1)
    <3>1. /\ b.cells \in Seq(Bytes)
          /\ b.reader + 1 \in 1..Len(b.cells) /\ b.writer \in 1..Len(b.cells)
          /\ n + 1 \in 1..(b.writer - (b.reader + 1) + 1)
          /\ Readable(b) \in 1..(b.writer - (b.reader + 1) + 1)
      BY <1>1, <1>3 DEF Readable
    <3> QED
      BY <3>1, TakingTwice
  <2>3. /\ b.reader + 1 + (n + 1) - 1 = b.reader + n + 1
        /\ b.reader + 1 + Readable(b) - 1 = b.writer
    BY <1>1 DEF Readable
  <2> QED
    BY <1>2, <1>3, <2>1, <2>2, <2>3 DEF Contents
<1>4. CASE ~(n < Readable(b))
  <2>1. Contents(RetrieveFrom(b, n)) = SubSeq(b.cells, kCheapPrepend + 1, kCheapPrepend)
    BY <1>4 DEF RetrieveFrom, Contents
  <2>2. SubSeq(b.cells, kCheapPrepend + 1, kCheapPrepend) = <<>>
    BY <1>1, SubSeqEmpty
  <2> QED
    BY <1>2, <1>4, <2>1, <2>2
<1> QED
  BY <1>3, <1>4

(* shrink keeps the readable bytes and nothing else. *)
LEMMA ShrinkingKeepsContents ==
    \A b : WellFormed(b) =>
        /\ WellFormed(Shrunk(b))
        /\ Len(Shrunk(b).cells) = kCheapPrepend + Readable(b)
        /\ Contents(Shrunk(b)) = Contents(b)
<1> SUFFICES ASSUME NEW b, WellFormed(b)
             PROVE  /\ WellFormed(Shrunk(b))
                    /\ Len(Shrunk(b).cells) = kCheapPrepend + Readable(b)
                    /\ Contents(Shrunk(b)) = Contents(b)
  OBVIOUS
<1> DEFINE v == [i \in 1..(kCheapPrepend + Readable(b)) |-> Zero]
<1>1. kCheapPrepend + Readable(b) \in Nat
  BY ContentsByIndex, BufferAssumption
<1>2. v \in [1..(kCheapPrepend + Readable(b)) -> Bytes]
  BY BufferAssumption
<1>3. v \in Seq(Bytes) /\ Len(v) = kCheapPrepend + Readable(b)
  BY <1>1, <1>2
<1>4. kCheapPrepend + Readable(b) <= Len(v)
  BY <1>1, <1>3
<1>5. Shrunk(b) = [cells |-> CopyTo(v, kCheapPrepend, Contents(b)),
                   reader |-> kCheapPrepend, writer |-> kCheapPrepend + Readable(b)]
  BY DEF Shrunk
<1> HIDE DEF v
<1> QED
  BY <1>3, <1>4, <1>5, MovingKeepsContents

(* The bytes put in at once are a string of bytes that is not empty. *)
LEMMA PiecesAreStrings == \A s \in Pieces : s \in Seq(Bytes) /\ Len(s) \in Nat
<1> SUFFICES ASSUME NEW n \in 1..MaxPiece, NEW s \in [1..n -> Bytes]
             PROVE  s \in Seq(Bytes) /\ Len(s) \in Nat
  BY DEF Pieces
<1> QED
  BY BufferAssumption

-----------------------------------------------------------------------------
(* What one step of the buffer does: it leaves a well-formed buffer, its    *)
(* users see bytes put in at the end or taken from the front, or nothing,   *)
(* and the vector is larger only where GrowsOnlyWhenFull allows it.         *)
GrowthAllowed ==
    Len(buf'.cells) > Len(buf.cells) =>
        Len(buf'.cells) < kCheapPrepend + 2 * Readable(buf') - Readable(buf)

StepKept ==
    /\ WellFormed(buf)'
    /\ BQ!Next \/ UNCHANGED <<Contents(buf), call>>
    /\ GrowthAllowed

LEMMA PuttingIn ==
    ASSUME NEW s \in Pieces, WellFormed(buf), WellFormed(buf'),
           Readable(buf') = Readable(buf) + Len(s),
           Contents(buf') = Contents(buf) \o s, call' = [put |-> s, drop |-> 0],
           \/ Len(buf'.cells) = Len(buf.cells)
           \/ Len(buf'.cells) < kCheapPrepend + Readable(buf) + 2 * Len(s)
    PROVE  StepKept
<1>1. /\ Len(s) \in Nat /\ Readable(buf) \in Nat /\ kCheapPrepend \in Nat
      /\ Len(buf.cells) \in Nat /\ Len(buf'.cells) \in Nat
  BY PiecesAreStrings, ContentsByIndex, LenProperties, BufferAssumption DEF WellFormed
<1>2. GrowthAllowed
  BY <1>1 DEF GrowthAllowed
<1>3. BQ!Next
  BY DEF BQ!Next, BQ!Put
<1> QED
  BY <1>2, <1>3 DEF StepKept

LEMMA StepsKeep == WellFormed(buf) /\ [BufferNext]_bufferVars => StepKept
<1> SUFFICES ASSUME WellFormed(buf), [BufferNext]_bufferVars PROVE StepKept
  OBVIOUS
<1>0. Len(buf.cells) \in Nat /\ Readable(buf) \in Nat /\ kCheapPrepend \in Nat
  BY ContentsByIndex, LenProperties, BufferAssumption DEF WellFormed
<1>1. ASSUME NEW s \in Pieces, AppendBytes(s) PROVE StepKept
  <2>1. /\ s \in Seq(Bytes) /\ Len(s) \in Nat /\ buf' = AppendTo(buf, s)
        /\ call' = [put |-> s, drop |-> 0]
    BY <1>1, PiecesAreStrings DEF AppendBytes
  <2>2. /\ WellFormed(buf') /\ Readable(buf') = Readable(buf) + Len(s)
        /\ Contents(buf') = Contents(buf) \o s
        /\ \/ Len(buf'.cells) = Len(buf.cells)
           \/ Len(buf'.cells) < kCheapPrepend + Readable(buf) + 2 * Len(s) - Writable(buf)
    BY <2>1, AppendingAppends
  <2>3. Writable(buf) \in Nat /\ Len(buf'.cells) \in Nat
    BY <1>0, <2>2, LenProperties DEF WellFormed, Writable
  <2>4. \/ Len(buf'.cells) = Len(buf.cells)
        \/ Len(buf'.cells) < kCheapPrepend + Readable(buf) + 2 * Len(s)
    BY <1>0, <2>1, <2>2, <2>3
  <2> QED
    BY <2>1, <2>2, <2>4, PuttingIn
<1>2. ASSUME NEW s \in Pieces, ReadFd(s) PROVE StepKept
  <2>1. s \in Seq(Bytes) /\ buf' = Scatter(buf, s) /\ call' = [put |-> s, drop |-> 0]
    BY <1>2, PiecesAreStrings DEF ReadFd
  <2>2. /\ WellFormed(buf') /\ Readable(buf') = Readable(buf) + Len(s)
        /\ Contents(buf') = Contents(buf) \o s
        /\ \/ Len(buf'.cells) = Len(buf.cells)
           \/ Len(buf'.cells) < kCheapPrepend + Readable(buf) + 2 * Len(s)
    BY <2>1, ScatteringAppends
  <2> QED
    BY <2>1, <2>2, PuttingIn
<1>3. ASSUME NEW n \in Amounts, Retrieve(n) PROVE StepKept
  <2>1. n \in Nat /\ buf' = RetrieveFrom(buf, n) /\ call' = [put |-> <<>>, drop |-> n]
    BY <1>3, BufferAssumption DEF Retrieve, Amounts
  <2>2. /\ WellFormed(buf') /\ buf'.cells = buf.cells
        /\ Contents(buf') = IF n < Readable(buf)
                            THEN SubSeq(Contents(buf), n + 1, Readable(buf)) ELSE <<>>
    BY <2>1, RetrievingDrops
  <2>3. GrowthAllowed
    BY <1>0, <2>2 DEF GrowthAllowed
  <2>4. Contents(buf) \in Seq(Bytes) /\ Len(Contents(buf)) = Readable(buf)
    BY ContentsByIndex
  <2>5. Contents(buf') = SubSeq(Contents(buf), n + 1, Len(Contents(buf)))
    <3>1. CASE n < Readable(buf)
      BY <2>2, <2>4, <3>1
    <3>2. CASE ~(n < Readable(buf))
      <4>1. SubSeq(Contents(buf), n + 1, Len(Contents(buf))) = <<>>
        BY <1>0, <2>1, <2>4, <3>2, SubSeqEmpty
      <4> QED
        BY <2>2, <3>2, <4>1
    <3> QED
      BY <3>1, <3>2
  <2>6. BQ!Next
    BY <2>1, <2>5 DEF BQ!Next, BQ!Drop
  <2> QED
    BY <2>2, <2>3, <2>6 DEF StepKept
<1>4. ASSUME MaybeShrink PROVE StepKept
  <2>1. /\ WellFormed(buf') /\ Len(buf'.cells) = kCheapPrepend + Readable(buf)
        /\ Contents(buf') = Contents(buf) /\ call' = call
    BY <1>4, ShrinkingKeepsContents DEF MaybeShrink
  <2>2. kCheapPrepend + Readable(buf) <= Len(buf.cells)
    BY BufferAssumption, LenProperties DEF WellFormed, Readable
  <2> QED
    BY <1>0, <2>1, <2>2 DEF StepKept, GrowthAllowed
<1>5. CASE UNCHANGED bufferVars
  BY <1>0, <1>5 DEF bufferVars, StepKept, GrowthAllowed
<1> QED
  BY <1>1, <1>2, <1>3, <1>4, <1>5 DEF BufferNext

LEMMA InitWellFormed == BufferInit => WellFormed(buf) /\ Contents(buf) = <<>>
<1> SUFFICES ASSUME BufferInit PROVE WellFormed(buf) /\ Contents(buf) = <<>>
  OBVIOUS
<1>1. /\ buf = [cells |-> [i \in 1..(kCheapPrepend + InitialSize) |-> Zero],
                reader |-> kCheapPrepend, writer |-> kCheapPrepend]
      /\ kCheapPrepend \in Nat /\ InitialSize \in Nat /\ Zero \in Bytes
  BY BufferAssumption DEF BufferInit
<1>2. buf.cells \in [1..(kCheapPrepend + InitialSize) -> Bytes]
  BY <1>1
<1>3. buf.cells \in Seq(Bytes) /\ Len(buf.cells) = kCheapPrepend + InitialSize
  BY <1>1, <1>2
<1>4. WellFormed(buf)
  BY <1>1, <1>3 DEF WellFormed
<1>5. SubSeq(buf.cells, kCheapPrepend + 1, kCheapPrepend) = <<>>
  BY <1>1, <1>3, SubSeqEmpty
<1> QED
  BY <1>1, <1>4, <1>5 DEF Contents

-----------------------------------------------------------------------------
(* The indices stay in order and inside the vector, whatever is put in and  *)
(* taken out (base/src/Buffer.cpp).                                         *)
THEOREM IndicesStayInBounds == BufferSpec => []IndicesInBounds
<1>1. BufferInit => IndicesInBounds
  BY InitWellFormed DEF IndicesInBounds
<1>2. IndicesInBounds /\ [BufferNext]_bufferVars => IndicesInBounds'
  BY StepsKeep DEF IndicesInBounds, StepKept
<1> QED
  BY <1>1, <1>2, PTL DEF BufferSpec

(* Compaction, growth, the two pieces of readv and shrinking are invisible: *)
(* the buffer implements the queue of bytes of ByteQueue.tla.               *)
THEOREM IsAByteQueue == BufferSpec => ImplementsByteQueue
<1>1. BufferInit => BQ!Init
  BY InitWellFormed DEF BufferInit, BQ!Init
<1>2. IndicesInBounds /\ [BufferNext]_bufferVars => [BQ!Next]_<<Contents(buf), call>>
  BY StepsKeep DEF IndicesInBounds, StepKept
<1> QED
  BY <1>1, <1>2, IndicesStayInBounds, PTL DEF BufferSpec, ImplementsByteQueue, BQ!Spec

(* The vector of a buffer grows only when the space already read could not  *)
(* take what is put in (makeSpace).                                         *)
THEOREM GrowthIsNeeded == BufferSpec => GrowsOnlyWhenFull
<1>1. IndicesInBounds /\ [BufferNext]_bufferVars => [GrowthAllowed]_buf
  BY StepsKeep DEF IndicesInBounds, StepKept
<1> QED
  BY <1>1, IndicesStayInBounds, PTL DEF BufferSpec, GrowsOnlyWhenFull, GrowthAllowed

-----------------------------------------------------------------------------
(* What is left of a sequence of texts.                                    *)

LEMMA AfterTyped ==
    ASSUME NEW S, NEW texts \in Seq(Seq(S)), NEW k \in Nat
    PROVE  After(texts, k) \in Seq(S)
<1>1. SubSeq(texts, k + 1, Len(texts)) \in Seq(Seq(S))
  <2> DEFINE T == Seq(S)
  <2>1. texts \in Seq(T)
    OBVIOUS
  <2> HIDE DEF T
  <2>2. \A i \in (k + 1)..Len(texts) : texts[i] \in T
    BY <2>1, ElementOfSeq
  <2>3. SubSeq(texts, k + 1, Len(texts)) \in Seq(T)
    BY <2>1, <2>2
  <2> QED
    BY <2>3 DEF T
<1> QED
  BY <1>1, FlattenTyped DEF After

LEMMA AfterEnd ==
    ASSUME NEW S, NEW texts \in Seq(Seq(S))
    PROVE  After(texts, Len(texts)) = <<>>
<1> DEFINE rest == SubSeq(texts, Len(texts) + 1, Len(texts))
<1>1. rest = <<>>
  OBVIOUS
<1>2. After(texts, Len(texts)) = FlattenSeq(rest)
  BY DEF After
<1> QED
  BY <1>1, <1>2, FlattenEmpty, Zenon

LEMMA AfterStep ==
    ASSUME NEW S, NEW texts \in Seq(Seq(S)), NEW k \in Nat, k < Len(texts)
    PROVE  /\ texts[k + 1] \in Seq(S)
           /\ After(texts, k) = Join(texts[k + 1], After(texts, k + 1))
<1> DEFINE T == Seq(S)
           rest == SubSeq(texts, k + 2, Len(texts))
<1>0. texts \in Seq(T) /\ Len(texts) \in Nat /\ k + 1 \in 1..Len(texts)
  OBVIOUS
<1> HIDE DEF T
<1>1. texts[k + 1] \in T
  BY <1>0, ElementOfSeq
<1>2. PICK one \in Seq(T) : one = <<texts[k + 1]>> /\ Len(one) = 1 /\ one[1] = texts[k + 1]
  <2>1. <<texts[k + 1]>> \in Seq(T)
    BY <1>1
  <2>2. Len(<<texts[k + 1]>>) = 1 /\ <<texts[k + 1]>>[1] = texts[k + 1]
    OBVIOUS
  <2> QED
    BY <2>1, <2>2, Zenon
<1>3. rest \in Seq(T) /\ Len(rest) = Len(texts) - (k + 1)
  <2>1. \A i \in (k + 2)..Len(texts) : texts[i] \in T
    BY <1>0, ElementOfSeq
  <2> QED
    BY <1>0, <2>1
<1>4. \A i \in 1..Len(rest) : rest[i] = texts[k + 1 + i]
  BY <1>0
<1> DEFINE all == SubSeq(texts, k + 1, Len(texts))
<1>5. all \in Seq(T) /\ Len(all) = Len(texts) - k
  <2>1. \A i \in (k + 1)..Len(texts) : texts[i] \in T
    BY <1>0, ElementOfSeq
  <2> QED
    BY <1>0, <2>1
<1>6. \A i \in 1..Len(all) : all[i] = texts[k + i]
  BY <1>0
<1> HIDE DEF rest, all
<1>7. all = Join(one, rest)
  <2>1. /\ Join(one, rest) \in Seq(T) /\ Len(Join(one, rest)) = Len(all)
        /\ Join(one, rest)[1] = texts[k + 1]
    BY <1>0, <1>2, <1>3, <1>5 DEF Join
  <2>2. \A i \in 1..Len(rest) : Join(one, rest)[1 + i] = texts[k + 1 + i]
    BY <1>2, <1>3, <1>4 DEF Join
  <2>3. ASSUME NEW i \in 1..Len(all) PROVE all[i] = Join(one, rest)[i]
    <3>1. CASE i = 1
      BY <1>0, <1>6, <2>1, <3>1
    <3>2. CASE i # 1
      <4>1. i - 1 \in 1..Len(rest) /\ 1 + (i - 1) = i /\ k + 1 + (i - 1) = k + i
        BY <1>0, <1>3, <1>5, <3>2
      <4>2. Join(one, rest)[1 + (i - 1)] = texts[k + 1 + (i - 1)]
        BY <2>2, <4>1
      <4> QED
        BY <1>6, <4>1, <4>2
    <3> QED
      BY <3>1, <3>2
  <2> QED
    BY <1>5, <2>1, <2>3, SeqEqual
<1>8. After(texts, k) = FlattenSeq(all) /\ After(texts, k + 1) = FlattenSeq(rest)
  <2>1. (k + 1) + 1 = k + 2
    OBVIOUS
  <2> QED
    BY <2>1 DEF After, all, rest
<1> USE DEF T
<1>9. FlattenSeq(Join(one, rest)) = Join(FlattenSeq(one), FlattenSeq(rest))
  BY <1>2, <1>3, FlattenConcat
<1>10. FlattenSeq(one) = texts[k + 1]
  BY <1>1, <1>2, FlattenOne, Zenon
<1> QED
  BY <1>1, <1>7, <1>8, <1>9, <1>10, Zenon

LEMMA AfterAppend ==
    ASSUME NEW S, NEW texts \in Seq(Seq(S)), NEW e \in Seq(S), NEW k \in 0..Len(texts)
    PROVE  After(Append(texts, e), k) = Join(After(texts, k), e)
<1> DEFINE T == Seq(S)
           some == SubSeq(texts, k + 1, Len(texts))
           longer == Append(texts, e)
           all == SubSeq(longer, k + 1, Len(longer))
<1>0. texts \in Seq(T) /\ Len(texts) \in Nat /\ k \in Nat /\ k <= Len(texts) /\ e \in T
  OBVIOUS
<1> HIDE DEF T
<1>1. longer \in Seq(T) /\ Len(longer) = Len(texts) + 1
  BY <1>0
<1>2. \A i \in 1..Len(texts) : texts[i] \in T /\ longer[i] = texts[i]
  BY <1>0, ElementOfSeq
<1>3. longer[Len(texts) + 1] = e
  BY <1>0
<1> HIDE DEF longer
<1>4. /\ some \in Seq(T) /\ Len(some) = Len(texts) - k
      /\ \A i \in 1..Len(some) : some[i] = texts[k + i]
  BY <1>0, <1>2
<1>5. /\ Len(all) = Len(longer) - k
      /\ \A i \in 1..Len(all) : all[i] = longer[k + i]
  BY <1>0, <1>1
<1>6. all \in Seq(T)
  <2>1. ASSUME NEW i \in 1..(Len(texts) + 1) PROVE longer[i] \in T
    <3>1. CASE i = Len(texts) + 1
      BY <1>0, <1>3, <3>1
    <3>2. CASE i # Len(texts) + 1
      <4>1. i \in 1..Len(texts)
        BY <1>0, <3>2
      <4> QED
        BY <1>2, <4>1
    <3> QED
      BY <3>1, <3>2
  <2> QED
    BY <1>0, <1>1, <2>1
<1>7. PICK one \in Seq(T) : one = <<e>> /\ Len(one) = 1 /\ one[1] = e
  <2>1. <<e>> \in Seq(T) /\ Len(<<e>>) = 1 /\ <<e>>[1] = e
    BY <1>0
  <2> QED
    BY <2>1, Zenon
<1>8. After(Append(texts, e), k) = FlattenSeq(all) /\ After(texts, k) = FlattenSeq(some)
  BY <1>1 DEF After, longer
<1> HIDE DEF some, all
<1>9. all = Join(some, one)
  <2>1. Join(some, one) \in Seq(T) /\ Len(Join(some, one)) = Len(some) + 1
    BY <1>0, <1>4, <1>7 DEF Join
  <2>2. /\ \A i \in 1..Len(some) : Join(some, one)[i] = some[i]
        /\ Join(some, one)[Len(some) + 1] = e
    BY <1>0, <1>4, <1>7 DEF Join
  <2>3. Len(some) + 1 = Len(all) /\ k + Len(all) = Len(texts) + 1
    BY <1>0, <1>1, <1>4, <1>5
  <2>4. ASSUME NEW i \in 1..Len(all) PROVE all[i] = Join(some, one)[i]
    <3>1. CASE i = Len(all)
      BY <1>3, <1>5, <2>2, <2>3, <3>1
    <3>2. CASE i # Len(all)
      <4>1. i \in 1..Len(some) /\ k + i \in 1..Len(texts)
        BY <1>0, <1>4, <2>3, <3>2
      <4> QED
        BY <1>2, <1>4, <1>5, <2>2, <4>1
    <3> QED
      BY <3>1, <3>2
  <2> QED
    BY <1>6, <2>1, <2>3, <2>4, SeqEqual
<1> USE DEF T
<1>10. FlattenSeq(Join(some, one)) = Join(FlattenSeq(some), FlattenSeq(one))
  BY <1>4, <1>7, FlattenConcat
<1>11. FlattenSeq(one) = e
  BY <1>0, <1>7, FlattenOne, Zenon
<1> QED
  BY <1>8, <1>9, <1>10, <1>11, Zenon

-----------------------------------------------------------------------------
(* Messages and their encoding.                                            *)

LEMMA SymbolsJoin ==
    \A s, t, u \in Seq(Symbols) :
        /\ Join(s, t) \in Seq(Symbols)
        /\ Join(Join(s, t), u) = Join(s, Join(t, u))
        /\ Join(s, <<>>) = s /\ Join(<<>>, s) = s
BY JoinFacts

LEMMA SymbolsJoinAt ==
    \A s, t \in Seq(Symbols) :
        /\ Len(Join(s, t)) = Len(s) + Len(t)
        /\ \A i \in 1..Len(s) : Join(s, t)[i] = s[i]
        /\ \A i \in 1..Len(t) : Join(s, t)[Len(s) + i] = t[i]
BY JoinIndices

LEMMA MessageTyped ==
    ASSUME NEW m \in Messages
    PROVE  /\ m.before \in Seq(Seq(Symbols)) /\ m.text \in RequestTexts
           /\ m.headers \in Seq(Texts) /\ m.body \in Seq(Symbols)
           /\ \A i \in 1..Len(m.before) :
                 Unbroken(m.before[i]) /\ ~IsRequestLine(m.before[i])
           /\ LengthAmong(m, Len(m.headers)) \in {Len(m.body), NoLength}
<1>1. m \in [before : Seq(Seq(Symbols)), text : RequestTexts,
             headers : Seq(Texts), body : Seq(Symbols)]
  BY HttpInputAssumption
<1>2. /\ \A i \in DOMAIN m.before : Unbroken(m.before[i]) /\ ~IsRequestLine(m.before[i])
      /\ LengthAmong(m, Len(m.headers)) \in {Len(m.body), NoLength}
  BY HttpInputAssumption
<1>3. m.before \in Seq(Seq(Symbols))
  BY <1>1
<1> DEFINE T == Seq(Symbols)
<1>4. m.before \in Seq(T)
  BY <1>3
<1> HIDE DEF T
<1>5. DOMAIN m.before = 1..Len(m.before)
  BY <1>4
<1> QED
  BY <1>1, <1>2, <1>5

LEMMA SymbolsKnown ==
    /\ "CR" \in Symbols /\ "LF" \in Symbols /\ "GET" \in Texts
    /\ Texts \subseteq Symbols /\ RequestTexts \subseteq Texts /\ Headers \subseteq Texts
    /\ \A t \in Texts : t # "CR" /\ t # "LF"
<1>1. Texts \cap {"CR", "LF"} = {}
  BY HttpInputAssumption
<1> QED
  BY <1>1 DEF Symbols, Texts

LEMMA LineFacts ==
    ASSUME NEW text \in Seq(Symbols)
    PROVE  /\ Line(text) \in Seq(Symbols) /\ Len(Line(text)) = Len(text) + 2
           /\ \A i \in 1..Len(text) : Line(text)[i] = text[i]
           /\ Line(text)[Len(text) + 1] = "CR" /\ Line(text)[Len(text) + 2] = "LF"
BY SymbolsKnown DEF Line, EndOfLine

BeforeLines(m) == [i \in DOMAIN m.before |-> Line(m.before[i])]
HeaderLines(m) == [i \in DOMAIN m.headers |-> Line(<<m.headers[i]>>)]

LEMMA BeforeLinesTyped ==
    ASSUME NEW m \in Messages
    PROVE  /\ BeforeLines(m) \in Seq(Seq(Symbols)) /\ Len(BeforeLines(m)) = Len(m.before)
           /\ \A i \in 1..Len(m.before) :
                 m.before[i] \in Seq(Symbols) /\ BeforeLines(m)[i] = Line(m.before[i])
<1> DEFINE T == Seq(Symbols)
<1>1. m.before \in Seq(T) /\ Len(m.before) \in Nat
  BY MessageTyped
<1>2. ASSUME NEW t \in T PROVE Line(t) \in T
  BY LineFacts
<1> HIDE DEF T
<1>3. \A i \in 1..Len(m.before) : m.before[i] \in T
  BY <1>1, ElementOfSeq
<1>4. DOMAIN m.before = 1..Len(m.before)
  BY <1>1
<1>5. BeforeLines(m) = [i \in 1..Len(m.before) |-> Line(m.before[i])]
  BY <1>4 DEF BeforeLines
<1>6. \A i \in 1..Len(m.before) : Line(m.before[i]) \in T
  BY <1>2, <1>3
<1>7. BeforeLines(m) \in Seq(T) /\ Len(BeforeLines(m)) = Len(m.before)
  BY <1>1, <1>5, <1>6
<1> QED
  BY <1>3, <1>5, <1>7 DEF T

LEMMA HeaderLinesTyped ==
    ASSUME NEW m \in Messages
    PROVE  /\ HeaderLines(m) \in Seq(Seq(Symbols)) /\ Len(HeaderLines(m)) = Len(m.headers)
           /\ \A i \in 1..Len(m.headers) :
                 /\ m.headers[i] \in Texts /\ <<m.headers[i]>> \in Seq(Symbols)
                 /\ HeaderLines(m)[i] = Line(<<m.headers[i]>>)
<1> DEFINE T == Seq(Symbols)
<1>1. m.headers \in Seq(Texts) /\ Len(m.headers) \in Nat
  BY MessageTyped
<1>2. ASSUME NEW t \in T PROVE Line(t) \in T
  BY LineFacts
<1>3. ASSUME NEW t \in Texts PROVE <<t>> \in T
  <2>1. t \in Symbols
    BY SymbolsKnown
  <2> QED
    BY <2>1
<1> HIDE DEF T
<1>4. \A i \in 1..Len(m.headers) : m.headers[i] \in Texts
  BY <1>1, ElementOfSeq
<1>5. DOMAIN m.headers = 1..Len(m.headers)
  BY <1>1
<1>6. HeaderLines(m) = [i \in 1..Len(m.headers) |-> Line(<<m.headers[i]>>)]
  BY <1>5 DEF HeaderLines
<1>7. \A i \in 1..Len(m.headers) : <<m.headers[i]>> \in T /\ Line(<<m.headers[i]>>) \in T
  BY <1>2, <1>3, <1>4
<1>8. HeaderLines(m) \in Seq(T) /\ Len(HeaderLines(m)) = Len(m.headers)
  BY <1>1, <1>6, <1>7
<1> QED
  BY <1>4, <1>6, <1>7, <1>8 DEF T

LEMMA FromHeaderSteps ==
    ASSUME NEW m \in Messages, NEW h \in 0..Len(m.headers)
    PROVE  /\ FromHeader(m, h) \in Seq(Symbols)
           /\ h < Len(m.headers) =>
                FromHeader(m, h) = Join(Line(<<m.headers[h + 1]>>), FromHeader(m, h + 1))
           /\ h = Len(m.headers) => FromHeader(m, h) = Join(Line(<<>>), m.body)
<1> DEFINE lines == HeaderLines(m)
           end == Join(Line(<<>>), m.body)
<1>1. lines \in Seq(Seq(Symbols)) /\ Len(lines) = Len(m.headers) /\ Len(lines) \in Nat
  BY HeaderLinesTyped, MessageTyped
<1>2. m.body \in Seq(Symbols) /\ Line(<<>>) \in Seq(Symbols) /\ end \in Seq(Symbols)
  <2>1. <<>> \in Seq(Symbols)
    OBVIOUS
  <2>2. m.body \in Seq(Symbols) /\ Line(<<>>) \in Seq(Symbols)
    BY <2>1, MessageTyped, LineFacts
  <2> QED
    BY <2>2, SymbolsJoin
<1>3. \A i \in Nat : FromHeader(m, i) = Join(After(lines, i), end)
  BY DEF FromHeader, HeaderLines, Join
<1>4. \A i \in Nat : After(lines, i) \in Seq(Symbols)
  BY <1>1, AfterTyped
<1> HIDE DEF end
<1>5. FromHeader(m, h) \in Seq(Symbols)
  BY <1>2, <1>3, <1>4, SymbolsJoin
<1>6. ASSUME h < Len(m.headers)
      PROVE  FromHeader(m, h) = Join(Line(<<m.headers[h + 1]>>), FromHeader(m, h + 1))
  <2>1. /\ lines[h + 1] \in Seq(Symbols)
        /\ After(lines, h) = Join(lines[h + 1], After(lines, h + 1))
    BY <1>1, <1>6, AfterStep
  <2>2. lines[h + 1] = Line(<<m.headers[h + 1]>>)
    BY <1>1, <1>6, HeaderLinesTyped
  <2>3. After(lines, h + 1) \in Seq(Symbols)
    BY <1>4
  <2>4. Join(Join(lines[h + 1], After(lines, h + 1)), end)
          = Join(lines[h + 1], Join(After(lines, h + 1), end))
    <3>1. PICK s \in Seq(Symbols) : s = lines[h + 1]
      BY <2>1, Zenon
    <3>2. PICK t \in Seq(Symbols) : t = After(lines, h + 1)
      BY <2>3, Zenon
    <3>3. Join(Join(s, t), end) = Join(s, Join(t, end))
      BY <1>2, SymbolsJoin
    <3> QED
      BY <3>1, <3>2, <3>3, Zenon
  <2>5. FromHeader(m, h) = Join(After(lines, h), end)
        /\ FromHeader(m, h + 1) = Join(After(lines, h + 1), end)
    BY <1>3
  <2> QED
    BY <2>1, <2>2, <2>4, <2>5, Zenon
<1>7. ASSUME h = Len(m.headers) PROVE FromHeader(m, h) = end
  <2>1. After(lines, h) = <<>>
    BY <1>1, <1>7, AfterEnd
  <2>2. FromHeader(m, h) = Join(<<>>, end)
    BY <1>3, <2>1
  <2>3. Join(<<>>, end) = end
    BY <1>2, SymbolsJoin
  <2> QED
    BY <2>2, <2>3, Zenon
<1> QED
  BY <1>5, <1>6, <1>7 DEF end

LEMMA FromLineSteps ==
    ASSUME NEW m \in Messages, NEW j \in 0..Len(m.before)
    PROVE  /\ FromLine(m, j) \in Seq(Symbols)
           /\ j < Len(m.before) =>
                FromLine(m, j) = Join(Line(m.before[j + 1]), FromLine(m, j + 1))
           /\ j = Len(m.before) =>
                FromLine(m, j) = Join(Line(<<"GET", m.text>>), FromHeader(m, 0))
<1> DEFINE lines == BeforeLines(m)
           end == Join(Line(<<"GET", m.text>>), FromHeader(m, 0))
<1>1. lines \in Seq(Seq(Symbols)) /\ Len(lines) = Len(m.before) /\ Len(lines) \in Nat
  <2>1. Len(m.before) \in Nat
    OBVIOUS
  <2> QED
    BY <2>1, BeforeLinesTyped
<1>2. /\ FromHeader(m, 0) \in Seq(Symbols) /\ Line(<<"GET", m.text>>) \in Seq(Symbols)
      /\ end \in Seq(Symbols)
  <2>1. "GET" \in Symbols /\ m.text \in Symbols
    BY MessageTyped, SymbolsKnown
  <2>2. <<"GET", m.text>> \in Seq(Symbols)
    BY <2>1
  <2>3. Line(<<"GET", m.text>>) \in Seq(Symbols)
    BY <2>2, LineFacts
  <2>4. FromHeader(m, 0) \in Seq(Symbols)
    <3>1. 0 \in 0..Len(m.headers)
      BY MessageTyped
    <3> QED
      BY <3>1, FromHeaderSteps
  <2> QED
    BY <2>3, <2>4, SymbolsJoin
<1>3. \A i \in Nat : FromLine(m, i) = Join(After(lines, i), end)
  BY DEF FromLine, BeforeLines, Join
<1>4. \A i \in Nat : After(lines, i) \in Seq(Symbols)
  BY <1>1, AfterTyped
<1> HIDE DEF end
<1>5. FromLine(m, j) \in Seq(Symbols)
  BY <1>2, <1>3, <1>4, SymbolsJoin
<1>6. ASSUME j < Len(m.before)
      PROVE  FromLine(m, j) = Join(Line(m.before[j + 1]), FromLine(m, j + 1))
  <2>1. /\ lines[j + 1] \in Seq(Symbols)
        /\ After(lines, j) = Join(lines[j + 1], After(lines, j + 1))
    BY <1>1, <1>6, AfterStep
  <2>2. lines[j + 1] = Line(m.before[j + 1])
    BY <1>1, <1>6, BeforeLinesTyped
  <2>3. After(lines, j + 1) \in Seq(Symbols)
    BY <1>4
  <2>4. Join(Join(lines[j + 1], After(lines, j + 1)), end)
          = Join(lines[j + 1], Join(After(lines, j + 1), end))
    <3>1. PICK s \in Seq(Symbols) : s = lines[j + 1]
      BY <2>1, Zenon
    <3>2. PICK t \in Seq(Symbols) : t = After(lines, j + 1)
      BY <2>3, Zenon
    <3>3. Join(Join(s, t), end) = Join(s, Join(t, end))
      BY <1>2, SymbolsJoin
    <3> QED
      BY <3>1, <3>2, <3>3, Zenon
  <2>5. FromLine(m, j) = Join(After(lines, j), end)
        /\ FromLine(m, j + 1) = Join(After(lines, j + 1), end)
    BY <1>3
  <2> QED
    BY <2>1, <2>2, <2>4, <2>5, Zenon
<1>7. ASSUME j = Len(m.before) PROVE FromLine(m, j) = end
  <2>1. After(lines, j) = <<>>
    BY <1>1, <1>7, AfterEnd
  <2>2. FromLine(m, j) = Join(<<>>, end)
    BY <1>3, <2>1
  <2>3. Join(<<>>, end) = end
    BY <1>2, SymbolsJoin
  <2> QED
    BY <2>2, <2>3, Zenon
<1> QED
  BY <1>5, <1>6, <1>7 DEF end

-----------------------------------------------------------------------------
(* Cutting the front off what the buffer and the wire hold together.       *)

LEMMA CutFront ==
    ASSUME NEW s \in Seq(Symbols), NEW w \in Seq(Symbols),
           NEW front \in Seq(Symbols), NEW rest \in Seq(Symbols),
           Join(s, w) = Join(front, rest), Len(s) >= Len(front)
    PROVE  /\ SubSeq(s, 1, Len(front)) = front
           /\ SubSeq(s, Len(front) + 1, Len(s)) \in Seq(Symbols)
           /\ Join(SubSeq(s, Len(front) + 1, Len(s)), w) = rest
<1> DEFINE k == Len(front)
           tail == SubSeq(s, k + 1, Len(s))
<1>1. k \in Nat /\ Len(s) \in Nat /\ Len(w) \in Nat /\ Len(rest) \in Nat /\ k <= Len(s)
  OBVIOUS
<1>2. PICK all \in Seq(Symbols) : all = Join(s, w) /\ all = Join(front, rest)
  BY SymbolsJoin
<1>3. /\ Len(all) = Len(s) + Len(w)
      /\ \A i \in 1..Len(s) : all[i] = s[i]
      /\ \A i \in 1..Len(w) : all[Len(s) + i] = w[i]
  <2>1. /\ Len(Join(s, w)) = Len(s) + Len(w)
        /\ \A i \in 1..Len(s) : Join(s, w)[i] = s[i]
        /\ \A i \in 1..Len(w) : Join(s, w)[Len(s) + i] = w[i]
    BY SymbolsJoinAt
  <2> QED
    BY <1>2, <2>1, Zenon
<1>4. /\ Len(all) = k + Len(rest)
      /\ \A i \in 1..k : all[i] = front[i]
      /\ \A i \in 1..Len(rest) : all[k + i] = rest[i]
  <2>1. /\ Len(Join(front, rest)) = k + Len(rest)
        /\ \A i \in 1..k : Join(front, rest)[i] = front[i]
        /\ \A i \in 1..Len(rest) : Join(front, rest)[k + i] = rest[i]
    BY SymbolsJoinAt
  <2> QED
    BY <1>2, <2>1, Zenon
<1>5. SubSeq(s, 1, k) = front
  <2>1. SubSeq(s, 1, k) \in Seq(Symbols) /\ Len(SubSeq(s, 1, k)) = k
    BY <1>1
  <2>2. \A i \in 1..k : SubSeq(s, 1, k)[i] = s[i]
    BY <1>1
  <2>3. \A i \in 1..k : s[i] = front[i]
    BY <1>1, <1>3, <1>4
  <2> QED
    BY <2>1, <2>2, <2>3, SeqEqual
<1>6. /\ tail \in Seq(Symbols) /\ Len(tail) = Len(s) - k
      /\ \A i \in 1..Len(tail) : tail[i] = s[k + i]
  BY <1>1
<1> HIDE DEF k, tail
<1>7. PICK left \in Seq(Symbols) : left = Join(tail, w)
  BY <1>6, SymbolsJoin
<1>8. /\ Len(left) = Len(tail) + Len(w)
      /\ \A i \in 1..Len(tail) : left[i] = tail[i]
      /\ \A i \in 1..Len(w) : left[Len(tail) + i] = w[i]
  <2>1. /\ Len(Join(tail, w)) = Len(tail) + Len(w)
        /\ \A i \in 1..Len(tail) : Join(tail, w)[i] = tail[i]
        /\ \A i \in 1..Len(w) : Join(tail, w)[Len(tail) + i] = w[i]
    BY <1>6, SymbolsJoinAt
  <2> QED
    BY <1>7, <2>1, Zenon
<1>9. Len(left) = Len(rest)
  <2>1. /\ Len(left) = Len(s) - k + Len(w) /\ Len(s) + Len(w) = k + Len(rest)
    BY <1>3, <1>4, <1>6, <1>8
  <2> QED
    BY <1>1, <2>1
<1>10. ASSUME NEW i \in 1..Len(left) PROVE left[i] = rest[i]
  <2>1. i \in 1..Len(rest) /\ i \in Nat /\ all[k + i] = rest[i]
    BY <1>4, <1>9
  <2>2. CASE i <= Len(tail)
    <3>1. i \in 1..Len(tail) /\ k + i \in 1..Len(s)
      BY <1>1, <1>6, <2>1, <2>2
    <3> QED
      BY <1>3, <1>6, <1>8, <2>1, <3>1
  <2>3. CASE i > Len(tail)
    <3>1. /\ i - Len(tail) \in 1..Len(w) /\ Len(tail) + (i - Len(tail)) = i
          /\ Len(s) + (i - Len(tail)) = k + i
      BY <1>1, <1>6, <1>8, <2>1, <2>3
    <3>2. left[Len(tail) + (i - Len(tail))] = w[i - Len(tail)]
          /\ all[Len(s) + (i - Len(tail))] = w[i - Len(tail)]
      BY <1>3, <1>8, <3>1
    <3> QED
      BY <2>1, <3>1, <3>2
  <2> QED
    BY <1>6, <2>1, <2>2, <2>3
<1>11. left = rest
  BY <1>9, <1>10, SeqEqual
<1> QED
  BY <1>5, <1>6, <1>7, <1>11 DEF k, tail

LEMMA EndsAt ==
    ASSUME NEW s \in Seq(Symbols), NEW i \in 1..(Len(s) - 1)
    PROVE  SubSeq(s, i, i + 1) = EndOfLine <=> s[i] = "CR" /\ s[i + 1] = "LF"
<1>1. i \in 1..Len(s) /\ i + 1 \in 1..Len(s) /\ i \in Nat /\ Len(s) \in Nat
  OBVIOUS
<1>2. PICK two \in Seq(Symbols) : two = SubSeq(s, i, i + 1)
  <2>1. SubSeq(s, i, i + 1) \in Seq(Symbols)
    BY <1>1
  <2> QED
    BY <2>1, Zenon
<1>3. Len(two) = 2 /\ two[1] = s[i] /\ two[2] = s[i + 1]
  BY <1>1, <1>2
<1>4. EndOfLine \in Seq(Symbols) /\ Len(EndOfLine) = 2
      /\ EndOfLine[1] = "CR" /\ EndOfLine[2] = "LF"
  BY SymbolsKnown DEF EndOfLine
<1>5. two = EndOfLine <=> two[1] = EndOfLine[1] /\ two[2] = EndOfLine[2]
  <2>1. ASSUME two[1] = EndOfLine[1], two[2] = EndOfLine[2] PROVE two = EndOfLine
    <3>1. \A j \in 1..Len(two) : two[j] = EndOfLine[j]
      BY <1>3, <2>1
    <3> QED
      BY <1>3, <1>4, <3>1, SeqEqual
  <2> QED
    BY <2>1
<1> QED
  BY <1>2, <1>3, <1>4, <1>5

(* getLine finds the client's next line and takes it, as soon as it is in  *)
(* the buffer.                                                             *)
LEMMA NextLine ==
    ASSUME buffer \in Seq(Symbols), wire \in Seq(Symbols),
           NEW text \in Seq(Symbols), Unbroken(text), NEW rest \in Seq(Symbols),
           Join(buffer, wire) = Join(Line(text), rest)
    PROVE  /\ \A n \in Nat : IsLine(n) =>
                 /\ n = Len(text) /\ SubSeq(buffer, 1, n) = text
                 /\ SubSeq(buffer, n + 3, Len(buffer)) \in Seq(Symbols)
                 /\ Join(SubSeq(buffer, n + 3, Len(buffer)), wire) = rest
           /\ Len(buffer) >= Len(text) + 2 => HasLine
<1> DEFINE k == Len(text)
           line == Line(text)
           ends == {i \in 1..(Len(buffer) - 1) : SubSeq(buffer, i, i + 1) = EndOfLine}
<1>1. k \in Nat /\ Len(buffer) \in Nat
  OBVIOUS
<1>2. /\ line \in Seq(Symbols) /\ Len(line) = k + 2 /\ line[k + 1] = "CR" /\ line[k + 2] = "LF"
      /\ \A i \in 1..k : line[i] = text[i]
  BY LineFacts
<1>3. \A i \in 1..k : ~ (line[i] = "CR" /\ line[i + 1] = "LF")
  <2>1. ASSUME NEW i \in 1..k PROVE ~ (line[i] = "CR" /\ line[i + 1] = "LF")
    <3>1. SubSeq(line, i, i + 1) # EndOfLine
      BY DEF Unbroken
    <3>2. i \in 1..(Len(line) - 1)
      BY <1>1, <1>2
    <3> QED
      BY <1>2, <3>1, <3>2, EndsAt
  <2> QED
    BY <2>1
<1>4. \A i \in 1..(Len(buffer) - 1) : i \in ends <=> buffer[i] = "CR" /\ buffer[i + 1] = "LF"
  BY EndsAt
<1>5. \A n : IsLine(n) <=> n + 1 \in ends /\ \A i \in ends : n + 1 <= i
  BY DEF IsLine
<1>6. PICK all \in Seq(Symbols) : all = Join(buffer, wire) /\ all = Join(line, rest)
  BY SymbolsJoin
<1>7. \A i \in 1..Len(buffer) : all[i] = buffer[i]
  <2>1. \A i \in 1..Len(buffer) : Join(buffer, wire)[i] = buffer[i]
    BY SymbolsJoinAt
  <2> QED
    BY <1>6, <2>1, Zenon
<1>8. \A i \in 1..(k + 2) : all[i] = line[i]
  <2>1. \A i \in 1..Len(line) : Join(line, rest)[i] = line[i]
    BY <1>2, SymbolsJoinAt
  <2> QED
    BY <1>2, <1>6, <2>1, Zenon
<1> HIDE DEF k, line, ends
<1>9. \A i \in 1..(Len(buffer) - 1) : i <= k => i \notin ends
  <2>1. ASSUME NEW i \in 1..(Len(buffer) - 1), i <= k PROVE i \notin ends
    <3>1. /\ i \in 1..k /\ i \in 1..(k + 2) /\ i + 1 \in 1..(k + 2)
          /\ i \in 1..Len(buffer) /\ i + 1 \in 1..Len(buffer)
      BY <1>1, <2>1
    <3>2. buffer[i] = line[i] /\ buffer[i + 1] = line[i + 1]
      BY <1>7, <1>8, <3>1
    <3> QED
      BY <1>3, <1>4, <3>1, <3>2
  <2> QED
    BY <2>1
<1>10. ends \subseteq 1..(Len(buffer) - 1)
  BY DEF ends
<1>11. ASSUME k + 2 <= Len(buffer) PROVE k + 1 \in ends
  <2>1. k + 1 \in 1..(Len(buffer) - 1) /\ (k + 1) + 1 = k + 2
    BY <1>1, <1>11
  <2>2. buffer[k + 1] = "CR" /\ buffer[k + 2] = "LF"
    BY <1>1, <1>2, <1>7, <1>8, <1>11
  <2> QED
    BY <1>4, <2>1, <2>2
<1>12. ASSUME NEW n \in Nat, IsLine(n)
       PROVE  n = k /\ k + 2 <= Len(buffer)
  <2>1. n + 1 \in ends /\ n + 1 \in 1..(Len(buffer) - 1)
    BY <1>5, <1>10, <1>12
  <2>2. ~ (n + 1 <= k)
    BY <1>9, <2>1
  <2>3. k + 2 <= Len(buffer)
    BY <1>1, <2>1, <2>2
  <2>4. n + 1 <= k + 1
    BY <1>5, <1>11, <1>12, <2>3
  <2> QED
    BY <1>1, <2>2, <2>3, <2>4
<1>13. ASSUME k + 2 <= Len(buffer)
       PROVE  /\ SubSeq(buffer, 1, k) = text
              /\ SubSeq(buffer, k + 3, Len(buffer)) \in Seq(Symbols)
              /\ Join(SubSeq(buffer, k + 3, Len(buffer)), wire) = rest
  <2>1. /\ SubSeq(buffer, Len(line) + 1, Len(buffer)) \in Seq(Symbols)
        /\ Join(SubSeq(buffer, Len(line) + 1, Len(buffer)), wire) = rest
    <3>1. Len(buffer) >= Len(line) /\ Join(buffer, wire) = Join(line, rest)
      BY <1>1, <1>2, <1>6, <1>13
    <3> QED
      BY <1>2, <3>1, CutFront
  <2>2. Len(line) + 1 = k + 3
    BY <1>1, <1>2
  <2>3. SubSeq(buffer, 1, k) = text
    <3>1. SubSeq(buffer, 1, k) \in Seq(Symbols) /\ Len(SubSeq(buffer, 1, k)) = k
      BY <1>1, <1>13
    <3>2. ASSUME NEW i \in 1..k PROVE SubSeq(buffer, 1, k)[i] = text[i]
      <4>1. i \in 1..(k + 2) /\ i \in 1..Len(buffer)
        BY <1>1, <1>13
      <4>2. SubSeq(buffer, 1, k)[i] = buffer[i]
        BY <1>1, <1>13, <4>1
      <4> QED
        BY <1>2, <1>7, <1>8, <4>1, <4>2
    <3>3. Len(text) = k
      BY DEF k
    <3> QED
      BY <3>1, <3>2, <3>3, SeqEqual
  <2> QED
    BY <2>1, <2>2, <2>3
<1>14. ASSUME Len(buffer) >= k + 2 PROVE HasLine
  <2>1. k + 1 \in ends
    BY <1>1, <1>11, <1>14
  <2>2. \A i \in ends : k + 1 <= i
    BY <1>1, <1>9, <1>10
  <2>3. k \in 0..Len(buffer)
    BY <1>1, <1>14
  <2> QED
    BY <1>5, <2>1, <2>2, <2>3 DEF HasLine
<1> QED
  BY <1>12, <1>13, <1>14 DEF k

-----------------------------------------------------------------------------
(* What the lines mean.                                                    *)

LEMMA TextsAreUnbroken ==
    ASSUME NEW text \in Seq(Texts)
    PROVE  text \in Seq(Symbols) /\ Unbroken(text)
<1>1. text \in Seq(Symbols) /\ \A i \in 1..Len(text) : text[i] \in Texts /\ text[i] # "CR"
  <2>1. \A i \in 1..Len(text) : text[i] \in Texts
    BY ElementOfSeq
  <2> QED
    BY <2>1, SymbolsKnown
<1>2. ASSUME NEW i \in 1..Len(text) PROVE SubSeq(Line(text), i, i + 1) # EndOfLine
  <2>1. Line(text) \in Seq(Symbols) /\ Line(text)[i] = text[i] /\ Len(Line(text)) = Len(text) + 2
    BY <1>1, LineFacts
  <2>2. i \in 1..(Len(Line(text)) - 1)
    BY <2>1
  <2>3. SubSeq(Line(text), i, i + 1) = EndOfLine =>
          Line(text)[i] = "CR" /\ Line(text)[i + 1] = "LF"
    BY <2>1, <2>2, EndsAt
  <2> QED
    BY <1>1, <2>1, <2>3
<1> QED
  BY <1>1, <1>2 DEF Unbroken

LEMMA RequestLineTyped ==
    ASSUME NEW m \in Messages
    PROVE  /\ <<"GET", m.text>> \in Seq(Symbols) /\ Unbroken(<<"GET", m.text>>)
           /\ Len(<<"GET", m.text>>) = 2 /\ IsRequestLine(<<"GET", m.text>>)
<1>1. "GET" \in Texts /\ m.text \in RequestTexts /\ m.text \in Texts
  BY MessageTyped, SymbolsKnown
<1>2. <<"GET", m.text>> \in Seq(Texts)
  BY <1>1
<1> QED
  BY <1>1, <1>2, TextsAreUnbroken DEF IsRequestLine

LEMMA HeaderTyped ==
    ASSUME NEW m \in Messages, NEW i \in 1..Len(m.headers)
    PROVE  /\ <<m.headers[i]>> \in Seq(Symbols) /\ Unbroken(<<m.headers[i]>>)
           /\ Len(<<m.headers[i]>>) = 1
           /\ IsHeader(<<m.headers[i]>>) <=> m.headers[i] \in Headers
<1>1. m.headers[i] \in Texts
  BY HeaderLinesTyped
<1>2. <<m.headers[i]>> \in Seq(Texts) /\ Len(<<m.headers[i]>>) = 1
  BY <1>1
<1>3. DOMAIN <<m.headers[i]>> = {1} /\ <<m.headers[i]>>[1] = m.headers[i]
  OBVIOUS
<1>4. IsHeader(<<m.headers[i]>>) <=> m.headers[i] \in Headers
  BY <1>3, Zenon DEF IsHeader
<1> QED
  BY <1>2, <1>4, TextsAreUnbroken, Zenon

LEMMA BlankTyped == <<>> \in Seq(Symbols) /\ Unbroken(<<>>) /\ Len(<<>>) = 0
<1>1. <<>> \in Seq(Texts) /\ Len(<<>>) = 0
  OBVIOUS
<1> QED
  BY <1>1, TextsAreUnbroken, Zenon

(* The last of the headers of a kind: of no lines, and one line further. *)
LEMMA LastAmongNone ==
    ASSUME NEW m, NEW value, NEW default
    PROVE  LastAmong(m, 0, value, default) = default
BY DEF LastAmong

LEMMA LastAmongSteps ==
    ASSUME NEW m, NEW h \in Nat, NEW value, NEW default
    PROVE  LastAmong(m, h + 1, value, default) =
             IF m.headers[h + 1] \in DOMAIN value THEN value[m.headers[h + 1]]
             ELSE LastAmong(m, h, value, default)
<1> DEFINE at(k) == {i \in 1..k : m.headers[i] \in DOMAIN value}
<1>2. \A k \in Nat : LastAmong(m, k, value, default) =
          IF at(k) = {} THEN default
          ELSE value[m.headers[CHOOSE i \in at(k) : \A j \in at(k) : j <= i]]
  BY DEF LastAmong
<1>3. CASE m.headers[h + 1] \in DOMAIN value
  <2>1. h + 1 \in at(h + 1) /\ \A j \in at(h + 1) : j <= h + 1
    BY <1>3
  <2>2. \A i \in at(h + 1) : (\A j \in at(h + 1) : j <= i) => i = h + 1
    BY <2>1
  <2> HIDE DEF at
  <2>3. (CHOOSE i \in at(h + 1) : \A j \in at(h + 1) : j <= i) = h + 1
    BY <2>1, <2>2
  <2>4. h + 1 \in Nat /\ at(h + 1) # {}
    BY <2>1
  <2> QED
    BY <1>2, <1>3, <2>3, <2>4
<1>4. CASE m.headers[h + 1] \notin DOMAIN value
  <2>1. at(h + 1) = at(h)
    BY <1>4
  <2> HIDE DEF at
  <2> QED
    BY <1>2, <1>4, <2>1
<1> QED
  BY <1>3, <1>4

LEMMA TwoFields ==
    ASSUME NEW a, NEW b, NEW c, NEW d, NEW n, NEW e, NEW f, NEW q, NEW r,
           q = [path |-> c, version |-> d, length |-> n, connection |-> e, body |-> f],
           r = [q EXCEPT !.path = a, !.version = b]
    PROVE  r = [path |-> a, version |-> b, length |-> n, connection |-> e, body |-> f]
<1>1. PICK p : p = [q EXCEPT !.path = a]
  OBVIOUS
<1>2. p = [path |-> a, version |-> d, length |-> n, connection |-> e, body |-> f]
  BY <1>1
<1>3. r = [p EXCEPT !.version = b]
  BY <1>1
<1> QED
  BY <1>2, <1>3

LEMMA ReadStarts ==
    ASSUME NEW m \in Messages, NEW q, q = NoRequest,
           NEW r, r = [q EXCEPT !.path = PathOf[m.text], !.version = VersionOf[m.text]]
    PROVE  r = ReadSoFar(m, 0)
<1>1. LengthAmong(m, 0) = 0
  BY LastAmongNone, Zenon DEF LengthAmong
<1>2. ConnectionAmong(m, 0) = ""
  BY LastAmongNone, Zenon DEF ConnectionAmong
<1>3. ReadSoFar(m, 0) = [path |-> PathOf[m.text], version |-> VersionOf[m.text],
                        length |-> 0, connection |-> "", body |-> <<>>]
  BY <1>1, <1>2, Zenon DEF ReadSoFar
<1>4. r = [path |-> PathOf[m.text], version |-> VersionOf[m.text],
           length |-> 0, connection |-> "", body |-> <<>>]
  BY TwoFields, Zenon DEF NoRequest
<1> QED
  BY <1>3, <1>4, Zenon

LEMMA ReadSteps ==
    ASSUME NEW m \in Messages, NEW h \in 0..(Len(m.headers) - 1)
    PROVE  ReadSoFar(m, h + 1) =
             IF IsHeader(<<m.headers[h + 1]>>)
             THEN WithHeader(ReadSoFar(m, h), <<m.headers[h + 1]>>)
             ELSE ReadSoFar(m, h)
<1> DEFINE t == m.headers[h + 1]
           both == {CloseText, KeepText}
           value == [c \in both |-> c]
<1>1. h \in Nat /\ h + 1 \in 1..Len(m.headers)
  BY MessageTyped
<1>2. IsHeader(<<t>>) <=> t \in Headers
  BY <1>1, HeaderTyped
<1>3. DOMAIN LengthOf = LengthTexts
  BY HttpInputAssumption
<1>4. DOMAIN value = both /\ \A c \in both : value[c] = c
  OBVIOUS
<1>5. LengthAmong(m, h + 1) = IF t \in LengthTexts THEN LengthOf[t] ELSE LengthAmong(m, h)
  <2>1. LastAmong(m, h + 1, LengthOf, 0) =
          IF t \in DOMAIN LengthOf THEN LengthOf[t] ELSE LastAmong(m, h, LengthOf, 0)
    BY <1>1, LastAmongSteps, Zenon
  <2> QED
    BY <1>3, <2>1, Zenon DEF LengthAmong
<1>6. ConnectionAmong(m, h + 1) = IF t \in both THEN t ELSE ConnectionAmong(m, h)
  <2>1. \A k : ConnectionAmong(m, k) = LastAmong(m, k, value, "")
    BY DEF ConnectionAmong
  <2> HIDE DEF value
  <2>2. LastAmong(m, h + 1, value, "") =
          IF t \in DOMAIN value THEN value[t] ELSE LastAmong(m, h, value, "")
    BY <1>1, LastAmongSteps, Zenon
  <2> QED
    BY <1>4, <2>1, <2>2
<1>7. LengthTexts \cap both = {} /\ LengthTexts \subseteq Headers /\ both \subseteq Headers
  BY HttpInputAssumption DEF Headers
<1>8. <<t>>[1] = t
  OBVIOUS
<1> HIDE DEF t, both, value
<1>9. CASE t \in LengthTexts
  <2>1. t \notin both /\ t \in Headers
    BY <1>7, <1>9
  <2>2. WithHeader(ReadSoFar(m, h), <<t>>) = [ReadSoFar(m, h) EXCEPT !.length = LengthOf[t]]
    BY <1>8, <1>9 DEF WithHeader
  <2>3. LengthAmong(m, h + 1) = LengthOf[t] /\ ConnectionAmong(m, h + 1) = ConnectionAmong(m, h)
    BY <1>5, <1>6, <1>9, <2>1
  <2>4. ReadSoFar(m, h + 1) = WithHeader(ReadSoFar(m, h), <<t>>)
    BY <2>2, <2>3 DEF ReadSoFar
  <2> QED
    BY <1>2, <2>1, <2>4 DEF t
<1>10. CASE t \in both
  <2>1. t \notin LengthTexts /\ t \in Headers
    BY <1>7, <1>10
  <2>2. WithHeader(ReadSoFar(m, h), <<t>>) = [ReadSoFar(m, h) EXCEPT !.connection = t]
    BY <1>8, <1>10, <2>1 DEF WithHeader, both
  <2>3. LengthAmong(m, h + 1) = LengthAmong(m, h) /\ ConnectionAmong(m, h + 1) = t
    BY <1>5, <1>6, <1>10, <2>1
  <2>4. ReadSoFar(m, h + 1) = WithHeader(ReadSoFar(m, h), <<t>>)
    BY <2>2, <2>3 DEF ReadSoFar
  <2> QED
    BY <1>2, <2>1, <2>4 DEF t
<1>11. CASE t \notin LengthTexts /\ t \notin both
  <2>1. WithHeader(ReadSoFar(m, h), <<t>>) = ReadSoFar(m, h)
    BY <1>8, <1>11 DEF WithHeader, both
  <2>2. LengthAmong(m, h + 1) = LengthAmong(m, h)
        /\ ConnectionAmong(m, h + 1) = ConnectionAmong(m, h)
    BY <1>5, <1>6, <1>11
  <2>3. ReadSoFar(m, h + 1) = ReadSoFar(m, h)
    BY <2>2 DEF ReadSoFar
  <2> QED
    BY <2>1, <2>3 DEF t
<1> QED
  BY <1>9, <1>10, <1>11

(* The answer to the request as read is what the client meant. *)
LEMMA AnswerIsMeant ==
    ASSUME NEW m \in Messages
    PROVE  Response([ReadSoFar(m, Len(m.headers)) EXCEPT !.body = m.body]) = Meant(m)
<1> DEFINE n == Len(m.headers)
           c == ConnectionAmong(m, n)
           r == [ReadSoFar(m, n) EXCEPT !.body = m.body]
<1> DEFINE kinds == {CloseText, KeepText, ""}
<1>1. \A k \in Nat : ConnectionAmong(m, k) \in kinds
  <2> DEFINE both == {CloseText, KeepText}
             value == [x \in both |-> x]
             Good == {k \in Nat : ConnectionAmong(m, k) \in kinds}
  <2>0. DOMAIN value = both /\ (\A x \in both : value[x] \in both)
        /\ both \subseteq kinds /\ "" \in kinds
    OBVIOUS
  <2>1. \A k : ConnectionAmong(m, k) = LastAmong(m, k, value, "")
    BY DEF ConnectionAmong
  <2> HIDE DEF value, both, kinds
  <2>2. 0 \in Good
    <3>1. ConnectionAmong(m, 0) = ""
      BY <2>1, LastAmongNone, Zenon
    <3> QED
      BY <2>0, <3>1
  <2>3. ASSUME NEW k \in Nat, k \in Good PROVE k + 1 \in Good
    <3>1. LastAmong(m, k + 1, value, "") =
            IF m.headers[k + 1] \in DOMAIN value THEN value[m.headers[k + 1]]
            ELSE LastAmong(m, k, value, "")
      BY LastAmongSteps, Zenon
    <3>2. ConnectionAmong(m, k + 1) = LastAmong(m, k + 1, value, "")
          /\ ConnectionAmong(m, k) = LastAmong(m, k, value, "")
      BY <2>1
    <3>3. ConnectionAmong(m, k + 1) \in both \/ ConnectionAmong(m, k + 1) = ConnectionAmong(m, k)
      BY <2>0, <3>1, <3>2, Zenon
    <3>4. ConnectionAmong(m, k) \in kinds
      BY <2>3
    <3>5. ConnectionAmong(m, k + 1) \in kinds
      BY <2>0, <3>3, <3>4, Zenon
    <3>6. k + 1 \in Nat
      OBVIOUS
    <3> QED
      BY <3>5, <3>6, Zenon
  <2> HIDE DEF Good
  <2>4. Nat \subseteq Good
    BY <2>2, <2>3, NatInductionBySet
  <2> QED
    BY <2>4 DEF Good
<1>2. n \in Nat
  BY MessageTyped
<1>3. c \in {CloseText, KeepText, ""} /\ "" \notin {CloseText, KeepText}
  BY <1>1, <1>2, HttpInputAssumption
<1>4. /\ r.path = PathOf[m.text] /\ r.version = VersionOf[m.text]
      /\ r.connection = c /\ r.body = m.body
  BY DEF ReadSoFar
<1>5. Meant(m) = [content |-> Content(PathOf[m.text]),
                  keep |-> c = KeepText \/ (c = "" /\ VersionOf[m.text] = "HTTP/1.1"),
                  posted |-> m.body]
  BY DEF Meant
<1>6. Response(r) = [content |-> Content(r.path), keep |-> KeepAlive(r), posted |-> r.body]
  BY DEF Response
<1> HIDE DEF r, c
<1>7. KeepAlive(r) = (c = KeepText \/ (c = "" /\ VersionOf[m.text] = "HTTP/1.1"))
  BY <1>3, <1>4 DEF KeepAlive
<1>8. Response(r) = Meant(m)
  BY <1>4, <1>5, <1>6, <1>7
<1> QED
  BY <1>8 DEF r

-----------------------------------------------------------------------------
(* The messages not yet answered.                                          *)

Encodings(s) == [i \in DOMAIN s |-> Encoded(s[i].msg)]
Sendings == Seq([msg : Messages, end : Nat])
Rest(s, k) == After(Encodings(s), k)

LEMMA LaterIsRest == \A k : Later(k) = Rest(sent, k) /\ Later(k)' = Rest(sent', k)
BY DEF Later, Rest, Encodings

LEMMA EncodedTyped == \A m \in Messages : Encoded(m) \in Seq(Symbols)
<1> SUFFICES ASSUME NEW m \in Messages PROVE Encoded(m) \in Seq(Symbols)
  OBVIOUS
<1>1. 0 \in 0..Len(m.before)
  BY BeforeLinesTyped
<1> QED
  BY <1>1, FromLineSteps DEF Encoded

LEMMA EncodingsTyped ==
    ASSUME NEW s \in Sendings
    PROVE  /\ Encodings(s) \in Seq(Seq(Symbols)) /\ Len(s) \in Nat /\ Len(Encodings(s)) = Len(s)
           /\ DOMAIN s = 1..Len(s)
           /\ \A i \in 1..Len(s) : /\ s[i].msg \in Messages /\ s[i].end \in Nat
                                   /\ Encodings(s)[i] = Encoded(s[i].msg)
<1> DEFINE T == Seq(Symbols)
           R == [msg : Messages, end : Nat]
<1>1. s \in Seq(R) /\ \A x \in R : x.msg \in Messages /\ x.end \in Nat
  BY DEF Sendings
<1>2. \A m \in Messages : Encoded(m) \in T
  BY EncodedTyped
<1> HIDE DEF T, R
<1>3. \A i \in 1..Len(s) : s[i] \in R
  BY <1>1, ElementOfSeq
<1>4. DOMAIN s = 1..Len(s) /\ Len(s) \in Nat
  BY <1>1
<1>5. Encodings(s) = [i \in 1..Len(s) |-> Encoded(s[i].msg)]
  BY <1>4 DEF Encodings
<1>6. \A i \in 1..Len(s) : s[i].msg \in Messages /\ s[i].end \in Nat /\ Encoded(s[i].msg) \in T
  BY <1>1, <1>2, <1>3
<1>7. Encodings(s) \in Seq(T) /\ Len(Encodings(s)) = Len(s)
  BY <1>4, <1>5, <1>6
<1> QED
  BY <1>4, <1>5, <1>6, <1>7 DEF T

LEMMA RestSteps ==
    ASSUME NEW s \in Sendings, NEW k \in 0..Len(s)
    PROVE  /\ Rest(s, k) \in Seq(Symbols)
           /\ k < Len(s) => Rest(s, k) = Join(Encoded(s[k + 1].msg), Rest(s, k + 1))
           /\ k = Len(s) => Rest(s, k) = <<>>
<1>1. /\ Encodings(s) \in Seq(Seq(Symbols)) /\ Len(Encodings(s)) = Len(s)
      /\ k \in Nat /\ Len(s) \in Nat
  BY EncodingsTyped
<1>2. Rest(s, k) \in Seq(Symbols)
  BY <1>1, AfterTyped DEF Rest
<1>3. ASSUME k < Len(s)
      PROVE  Rest(s, k) = Join(Encoded(s[k + 1].msg), Rest(s, k + 1))
  <2>1. After(Encodings(s), k) = Join(Encodings(s)[k + 1], After(Encodings(s), k + 1))
    BY <1>1, <1>3, AfterStep
  <2>2. k + 1 \in 1..Len(s)
    BY <1>1, <1>3
  <2>3. Encodings(s)[k + 1] = Encoded(s[k + 1].msg)
    BY <2>2, EncodingsTyped
  <2> QED
    BY <2>1, <2>3, Zenon DEF Rest
<1>4. ASSUME k = Len(s) PROVE Rest(s, k) = <<>>
  BY <1>1, <1>4, AfterEnd DEF Rest
<1> QED
  BY <1>2, <1>3, <1>4

OneMore(s, t, m, e) ==
    /\ t \in Sendings /\ Len(t) = Len(s) + 1
    /\ \A i \in 1..Len(s) : t[i] = s[i]
    /\ t[Len(s) + 1].msg = m /\ t[Len(s) + 1].end = e
    /\ \A k \in 0..Len(s) : Rest(t, k) = Join(Rest(s, k), Encoded(m))

LEMMA RestGrows ==
    ASSUME NEW s \in Sendings, NEW m \in Messages, NEW e \in Nat
    PROVE  OneMore(s, Append(s, [msg |-> m, end |-> e]), m, e)
<1> DEFINE t == Append(s, [msg |-> m, end |-> e])
<1> DEFINE R == [msg : Messages, end : Nat]
           x == [msg |-> m, end |-> e]
           T == Seq(Symbols)
<1>1. x \in R /\ x.msg = m /\ x.end = e
  OBVIOUS
<1>2. s \in Seq(R) /\ Len(s) \in Nat /\ t = Append(s, x)
  BY DEF Sendings
<1>3. \A q \in Seq(R) : q \in Sendings
  BY DEF Sendings
<1> HIDE DEF R, x, t
<1>4. /\ t \in Seq(R) /\ Len(t) = Len(s) + 1 /\ t[Len(s) + 1] = x
      /\ \A i \in 1..Len(s) : t[i] = s[i]
  BY <1>1, <1>2
<1>5. t \in Sendings
  BY <1>3, <1>4
<1>6. Encodings(s) \in Seq(T) /\ Len(Encodings(s)) = Len(s)
      /\ \A i \in 1..Len(s) : Encodings(s)[i] = Encoded(s[i].msg)
  BY EncodingsTyped
<1>7. Encodings(t) \in Seq(T) /\ Len(Encodings(t)) = Len(t)
      /\ \A i \in 1..Len(t) : Encodings(t)[i] = Encoded(t[i].msg)
  BY <1>5, EncodingsTyped
<1>8. Encoded(m) \in T
  BY EncodedTyped
<1> HIDE DEF T
<1>9. Encodings(t) = Append(Encodings(s), Encoded(m))
  <2> DEFINE a == Append(Encodings(s), Encoded(m))
  <2>1. a \in Seq(T) /\ Len(a) = Len(s) + 1 /\ a[Len(s) + 1] = Encoded(m)
        /\ \A i \in 1..Len(s) : a[i] = Encodings(s)[i]
    BY <1>2, <1>6, <1>8
  <2> HIDE DEF a
  <2>2. ASSUME NEW i \in 1..(Len(s) + 1) PROVE Encodings(t)[i] = a[i]
    <3>1. Encodings(t)[i] = Encoded(t[i].msg)
      BY <1>4, <1>7
    <3>2. CASE i = Len(s) + 1
      BY <1>1, <1>4, <2>1, <3>1, <3>2
    <3>3. CASE i # Len(s) + 1
      <4>1. i \in 1..Len(s)
        BY <1>2, <3>3
      <4> QED
        BY <1>4, <1>6, <2>1, <3>1, <4>1
    <3> QED
      BY <3>2, <3>3
  <2>3. Encodings(t) = a
    BY <1>4, <1>7, <2>1, <2>2, SeqEqual
  <2> QED
    BY <2>3 DEF a
<1> USE DEF T
<1>10. ASSUME NEW k \in 0..Len(s) PROVE Rest(t, k) = Join(Rest(s, k), Encoded(m))
  <2>1. k \in 0..Len(Encodings(s))
    BY <1>6
  <2>2. After(Append(Encodings(s), Encoded(m)), k) = Join(After(Encodings(s), k), Encoded(m))
    BY <1>6, <1>8, <2>1, AfterAppend
  <2> QED
    BY <1>9, <2>2, Zenon DEF Rest
<1>11. OneMore(s, t, m, e)
  BY <1>1, <1>4, <1>5, <1>10 DEF OneMore
<1> QED
  BY <1>11 DEF t

-----------------------------------------------------------------------------
(* The place of the parser: ParserInPlace, for s messages of which n are   *)
(* answered, with input left and the context as given.                     *)

AllRead(m) == ReadSoFar(m, Len(m.headers))

Place(s, n, input, st, r) ==
    IF n = Len(s)
    THEN st = "RequestLine" /\ r = NoRequest /\ input = <<>>
    ELSE \/ /\ st = "RequestLine" /\ r = NoRequest
            /\ \E j \in 0..Len(s[n + 1].msg.before) :
                  input = Join(FromLine(s[n + 1].msg, j), Rest(s, n + 1))
         \/ /\ st = "Headers"
            /\ \E h \in 0..Len(s[n + 1].msg.headers) :
                  /\ input = Join(FromHeader(s[n + 1].msg, h), Rest(s, n + 1))
                  /\ r = ReadSoFar(s[n + 1].msg, h)
         \/ /\ st = "Body" /\ r = AllRead(s[n + 1].msg) /\ r.length \in Nat \ {0}
            /\ input = Join(s[n + 1].msg.body, Rest(s, n + 1))
         \/ /\ st = "Finish"
            /\ r = [AllRead(s[n + 1].msg) EXCEPT !.body = s[n + 1].msg.body]
            /\ input = Rest(s, n + 1)

LEMMA PlaceIsParserInPlace ==
    /\ ParserInPlace <=>
         (pc # "terminated" =>
            Place(sent, Len(responses), Join(buffer, wire), state, request))
    /\ ParserInPlace' <=>
         (pc' # "terminated" =>
            Place(sent', Len(responses'), Join(buffer', wire'), state', request'))
<1>1. ParserInPlace <=>
         (pc # "terminated" =>
            Place(sent, Len(responses), Join(buffer, wire), state, request))
  BY Zenon, LaterIsRest DEF ParserInPlace, Inside, Input, Place, Join, AllRead
<1>2. ParserInPlace' <=>
         (pc' # "terminated" =>
            Place(sent', Len(responses'), Join(buffer', wire'), state', request'))
  BY Zenon, LaterIsRest DEF ParserInPlace, Inside, Input, Place, Join, AllRead
<1> QED
  BY <1>1, <1>2

(* A message more leaves the parser where it is. *)
LEMMA PlaceGrows ==
    ASSUME NEW s \in Sendings, NEW n \in 0..Len(s), NEW input \in Seq(Symbols), NEW st, NEW r,
           Place(s, n, input, st, r),
           NEW m \in Messages, NEW e, NEW t, OneMore(s, t, m, e)
    PROVE  Place(t, n, Join(input, Encoded(m)), st, r)
<1> DEFINE w == Encoded(m)
           c == s[n + 1].msg
<1>1. /\ t \in Sendings /\ Len(t) = Len(s) + 1 /\ t[Len(s) + 1].msg = m
      /\ \A i \in 1..Len(s) : t[i] = s[i]
      /\ \A k \in 0..Len(s) : Rest(t, k) = Join(Rest(s, k), w)
  BY DEF OneMore
<1>2. Len(s) \in Nat /\ n \in Nat /\ n # Len(t) /\ w \in Seq(Symbols)
  BY <1>1, EncodingsTyped, EncodedTyped
<1>3. CASE n = Len(s)
  <2>1. st = "RequestLine" /\ r = NoRequest /\ input = <<>>
    BY <1>3 DEF Place
  <2>2. t[n + 1].msg = m
    BY <1>1, <1>3
  <2>3. Join(input, w) = w /\ w = FromLine(m, 0)
    BY <1>2, <2>1, SymbolsJoin DEF Encoded
  <2>4. Rest(t, n + 1) = <<>>
    <3>1. n + 1 \in 0..Len(t) /\ n + 1 = Len(t)
      BY <1>1, <1>2, <1>3
    <3> QED
      BY <1>1, <3>1, RestSteps
  <2>5. Join(w, <<>>) = w
    BY <1>2, SymbolsJoin
  <2>6. 0 \in 0..Len(m.before)
    BY BeforeLinesTyped
  <2>7. Join(input, w) = Join(FromLine(m, 0), Rest(t, n + 1))
    BY <2>3, <2>4, <2>5, Zenon
  <2> QED
    BY <1>2, <2>1, <2>2, <2>6, <2>7, Zenon DEF Place
<1>4. CASE n # Len(s)
  <2>1. n + 1 \in 1..Len(s) /\ n + 1 \in 0..Len(s)
    BY <1>2, <1>4
  <2>2. t[n + 1].msg = c /\ c \in Messages
    BY <1>1, <2>1, EncodingsTyped
  <2>3. Rest(s, n + 1) \in Seq(Symbols) /\ Rest(t, n + 1) = Join(Rest(s, n + 1), w)
    BY <1>1, <2>1, RestSteps
  <2>4. ASSUME NEW f \in Seq(Symbols), input = Join(f, Rest(s, n + 1))
        PROVE  Join(input, w) = Join(f, Rest(t, n + 1))
    <3>1. PICK q \in Seq(Symbols) : q = Rest(s, n + 1)
      BY <2>3, Zenon
    <3>2. Join(Join(f, q), w) = Join(f, Join(q, w))
      BY <1>2, SymbolsJoin
    <3> QED
      BY <2>3, <2>4, <3>1, <3>2, Zenon
  <2> HIDE DEF c, w
  <2>5. CASE st = "RequestLine" /\ r = NoRequest
             /\ \E j \in 0..Len(c.before) : input = Join(FromLine(c, j), Rest(s, n + 1))
    <3>1. PICK j \in 0..Len(c.before) : input = Join(FromLine(c, j), Rest(s, n + 1))
      BY <2>5
    <3>2. FromLine(c, j) \in Seq(Symbols)
      BY <2>2, FromLineSteps
    <3>3. Join(input, w) = Join(FromLine(c, j), Rest(t, n + 1))
      BY <2>4, <3>1, <3>2
    <3> QED
      BY <1>2, <2>2, <2>5, <3>3, Zenon DEF Place, w
  <2>6. CASE /\ st = "Headers"
             /\ \E h \in 0..Len(c.headers) :
                   input = Join(FromHeader(c, h), Rest(s, n + 1)) /\ r = ReadSoFar(c, h)
    <3>1. PICK h \in 0..Len(c.headers) :
             input = Join(FromHeader(c, h), Rest(s, n + 1)) /\ r = ReadSoFar(c, h)
      BY <2>6
    <3>2. FromHeader(c, h) \in Seq(Symbols)
      BY <2>2, FromHeaderSteps
    <3>3. Join(input, w) = Join(FromHeader(c, h), Rest(t, n + 1))
      BY <2>4, <3>1, <3>2
    <3> QED
      BY <1>2, <2>2, <2>6, <3>1, <3>3, Zenon DEF Place, w
  <2>7. CASE st = "Body" /\ r = AllRead(c) /\ r.length \in Nat \ {0}
             /\ input = Join(c.body, Rest(s, n + 1))
    <3>1. c.body \in Seq(Symbols)
      BY <2>2, MessageTyped
    <3>2. Join(input, w) = Join(c.body, Rest(t, n + 1))
      BY <2>4, <2>7, <3>1
    <3> QED
      BY <1>2, <2>2, <2>7, <3>2, Zenon DEF Place, w
  <2>8. CASE st = "Finish" /\ r = [AllRead(c) EXCEPT !.body = c.body]
             /\ input = Rest(s, n + 1)
    <3>1. Join(input, w) = Rest(t, n + 1)
      BY <2>3, <2>8
    <3> QED
      BY <1>2, <2>2, <2>8, <3>1, Zenon DEF Place, w
  <2> QED
    BY <1>4, <2>5, <2>6, <2>7, <2>8, Zenon DEF Place, c
<1> QED
  BY <1>3, <1>4

LEMMA JoinThree ==
    \A b, u, v \in Seq(Symbols) : Join(Join(b, u), v) = Join(b, Join(u, v))
BY SymbolsJoin

(* Reading cuts the wire in two. *)
OneRead(b, w, n, c, v) ==
    /\ c \in Seq(Symbols) /\ Len(c) = Len(b) + n
    /\ \A i \in 1..Len(b) : c[i] = b[i]
    /\ v \in Seq(Symbols) /\ Len(v) = Len(w) - n
    /\ Join(c, v) = Join(b, w)

LEMMA CutWire ==
    ASSUME NEW b \in Seq(Symbols), NEW w \in Seq(Symbols), NEW n \in 1..Len(w)
    PROVE  OneRead(b, w, n, b \o SubSeq(w, 1, n), SubSeq(w, n + 1, Len(w)))
<1> DEFINE u == SubSeq(w, 1, n)
           v == SubSeq(w, n + 1, Len(w))
           c == b \o u
<1>1. n \in Nat /\ Len(w) \in Nat /\ n <= Len(w)
  OBVIOUS
<1>2. /\ u \in Seq(Symbols) /\ Len(u) = n
      /\ \A i \in 1..n : u[i] = w[i]
  BY <1>1
<1>3. /\ v \in Seq(Symbols) /\ Len(v) = Len(w) - n
      /\ \A i \in 1..Len(v) : v[i] = w[n + i]
  BY <1>1
<1>4. c = Join(b, u)
  BY DEF Join
<1> HIDE DEF u, v, c
<1>5. /\ c \in Seq(Symbols) /\ Len(c) = Len(b) + n
      /\ \A i \in 1..Len(b) : c[i] = b[i]
  <2>1. /\ Join(b, u) \in Seq(Symbols) /\ Len(Join(b, u)) = Len(b) + Len(u)
        /\ \A i \in 1..Len(b) : Join(b, u)[i] = b[i]
    BY <1>2, SymbolsJoin, SymbolsJoinAt
  <2> QED
    BY <1>2, <1>4, <2>1, Zenon
<1>6. Join(u, v) = w
  <2>1. /\ Join(u, v) \in Seq(Symbols) /\ Len(Join(u, v)) = n + Len(v)
        /\ \A i \in 1..n : Join(u, v)[i] = u[i]
        /\ \A i \in 1..Len(v) : Join(u, v)[n + i] = v[i]
    <3>1. /\ Len(Join(u, v)) = Len(u) + Len(v)
          /\ \A i \in 1..Len(u) : Join(u, v)[i] = u[i]
          /\ \A i \in 1..Len(v) : Join(u, v)[Len(u) + i] = v[i]
      BY <1>2, <1>3, SymbolsJoinAt
    <3>2. Join(u, v) \in Seq(Symbols)
      BY <1>2, <1>3, SymbolsJoin
    <3> QED
      BY <1>2, <3>1, <3>2
  <2>2. Len(Join(u, v)) = Len(w)
    BY <1>1, <1>3, <2>1
  <2>3. ASSUME NEW i \in 1..Len(w) PROVE Join(u, v)[i] = w[i]
    <3>1. CASE i <= n
      <4>1. i \in 1..n
        BY <3>1
      <4> QED
        BY <1>2, <2>1, <4>1
    <3>2. CASE i > n
      <4>1. i - n \in 1..Len(v) /\ n + (i - n) = i
        <5>1. Len(v) = Len(w) - n
          BY <1>3
        <5> QED
          BY <1>1, <3>2, <5>1
      <4>2. Join(u, v)[n + (i - n)] = v[i - n] /\ v[i - n] = w[n + (i - n)]
        BY <1>3, <2>1, <4>1
      <4> QED
        BY <4>1, <4>2
    <3> QED
      BY <1>1, <3>1, <3>2
  <2> QED
    BY <2>1, <2>2, <2>3, SeqEqual
<1>7. u \in Seq(Symbols) /\ v \in Seq(Symbols)
  BY <1>2, <1>3
<1>8. Join(c, v) = Join(b, w)
  <2>1. Join(Join(b, u), v) = Join(b, Join(u, v))
    BY <1>7, JoinThree, Zenon
  <2> QED
    BY <1>4, <1>6, <2>1, Zenon
<1>9. OneRead(b, w, n, c, v)
  BY <1>3, <1>5, <1>8 DEF OneRead
<1> QED
  BY <1>9 DEF c, u, v

-----------------------------------------------------------------------------
(* The client writes, the server reads and chooses the handler.            *)

LEMMA Known ==
    ASSUME IInv
    PROVE  /\ sent \in Sendings /\ Len(sent) \in Nat /\ DOMAIN sent = 1..Len(sent)
           /\ wire \in Seq(Symbols) /\ Len(wire) \in Nat
           /\ buffer \in Seq(Symbols) /\ Len(buffer) \in Nat
           /\ Join(buffer, wire) \in Seq(Symbols)
           /\ Len(Join(buffer, wire)) = Len(buffer) + Len(wire)
           /\ arrived \in Nat
           /\ Len(responses) \in 0..Len(sent) /\ DOMAIN responses = 1..Len(responses)
<1>1. /\ sent \in Sendings /\ wire \in Seq(Symbols) /\ buffer \in Seq(Symbols)
      /\ arrived \in Nat
  BY DEF IInv, TypeOK, Sendings
<1>2. Len(responses) \in Nat /\ DOMAIN responses = 1..Len(responses)
  BY DEF IInv, TypeOK
<1>3. Len(responses) <= Len(sent)
  BY DEF IInv, ResponsesAnswerMessages
<1>4. Len(sent) \in Nat /\ DOMAIN sent = 1..Len(sent)
  BY <1>1, EncodingsTyped
<1>5. Len(wire) \in Nat /\ Len(buffer) \in Nat
  BY <1>1
<1>6. Join(buffer, wire) \in Seq(Symbols) /\ Len(Join(buffer, wire)) = Len(buffer) + Len(wire)
  BY <1>1, SymbolsJoin, SymbolsJoinAt
<1> QED
  BY <1>1, <1>2, <1>3, <1>4, <1>5, <1>6

LEMMA SendStep ==
    ASSUME IInv, NEW m \in Messages, Send(m)
    PROVE  IInv'
<1> DEFINE e == arrived + Len(wire) + Len(Encoded(m))
<1>1. /\ wire' = wire \o Encoded(m) /\ sent' = Append(sent, [msg |-> m, end |-> e])
      /\ arrived' = arrived /\ buffer' = buffer /\ handler' = handler
      /\ state' = state /\ request' = request
      /\ responses' = responses /\ pc' = pc /\ stalled' = stalled
  BY DEF Send, context
<1>2. Encoded(m) \in Seq(Symbols) /\ Len(Encoded(m)) \in Nat
  BY EncodedTyped
<1>3. e \in Nat
  BY <1>2, Known
<1> HIDE DEF e
<1>4. OneMore(sent, sent', m, e)
  BY <1>1, <1>3, Known, RestGrows
<1>5. /\ sent' \in Sendings /\ Len(sent') = Len(sent) + 1
      /\ \A i \in 1..Len(sent) : sent'[i] = sent[i]
      /\ sent'[Len(sent) + 1].end = e
      /\ \A k \in 0..Len(sent) : Rest(sent', k) = Join(Rest(sent, k), Encoded(m))
  BY <1>4 DEF OneMore
<1>6. DOMAIN sent' = 1..(Len(sent) + 1) /\ Len(sent) \in Nat
  BY <1>5, EncodingsTyped, Known
<1>7. wire' = Join(wire, Encoded(m)) /\ wire' \in Seq(Symbols)
      /\ Len(wire') = Len(wire) + Len(Encoded(m))
  BY <1>1, <1>2, Known, SymbolsJoin, SymbolsJoinAt DEF Join
<1>8. Join(buffer', wire') = Join(Join(buffer, wire), Encoded(m))
  <2>1. Join(Join(buffer, wire), Encoded(m)) = Join(buffer, Join(wire, Encoded(m)))
    BY <1>2, Known, JoinThree
  <2> QED
    BY <1>1, <1>7, <2>1, Zenon
<1>9. TypeOK'
  <2>1. sent' \in Seq([msg : Messages, end : Nat])
    BY <1>5 DEF Sendings
  <2> QED
    BY <1>1, <1>7, <2>1 DEF IInv, TypeOK
<1>10. ResponsesAnswerMessages'
  <2>1. ASSUME NEW i \in DOMAIN responses
        PROVE  responses[i] = Meant(sent'[i].msg) /\ sent'[i].end <= arrived
    <3>1. i \in 1..Len(sent) /\ i \in DOMAIN sent
      BY Known
    <3>2. responses[i] = Meant(sent[i].msg) /\ sent[i].end <= arrived
      BY <3>1 DEF IInv, ResponsesAnswerMessages
    <3> QED
      BY <1>5, <3>1, <3>2
  <2>2. Len(responses) <= Len(sent')
    BY <1>5, Known
  <2> QED
    BY <1>1, <2>1, <2>2 DEF ResponsesAnswerMessages
<1>11. ParserInPlace'
  <2>1. ASSUME pc # "terminated"
        PROVE  Place(sent', Len(responses), Join(Join(buffer, wire), Encoded(m)), state, request)
    <3>1. Place(sent, Len(responses), Join(buffer, wire), state, request)
      BY <2>1, PlaceIsParserInPlace DEF IInv
    <3> QED
      BY <1>4, <3>1, Known, PlaceGrows
  <2> QED
    BY <1>1, <1>8, <2>1, PlaceIsParserInPlace
<1>12. HandlerInPlace'
  <2>1. ASSUME handler # "http"
        PROVE  /\ responses = <<>> /\ state = "RequestLine"
               /\ Join(buffer', wire') = Rest(sent', 0)
    <3>1. responses = <<>> /\ state = "RequestLine" /\ Join(buffer, wire) = Rest(sent, 0)
      BY <2>1, LaterIsRest DEF IInv, HandlerInPlace, Input, Join
    <3>2. Rest(sent', 0) = Join(Rest(sent, 0), Encoded(m))
      BY <1>5, <1>6
    <3> QED
      BY <1>8, <3>1, <3>2
  <2>2. (handler # "http" => responses = <<>> /\ state = "RequestLine" /\ Input = Later(0))'
    BY <1>1, <2>1, LaterIsRest DEF Input, Join
  <2>3. WantsMore' <=> WantsMore
    BY <1>1 DEF WantsMore, HasLine, IsLine
  <2> QED
    BY <1>1, <2>2, <2>3 DEF IInv, HandlerInPlace
<1>13. EndsCounted'
  <2>1. ASSUME NEW i \in 1..(Len(sent) + 1)
        PROVE  sent'[i].end + Len(Rest(sent', i)) = arrived + Len(wire')
    <3>1. CASE i = Len(sent) + 1
      <4>1. Rest(sent', i) = <<>>
        BY <1>5, <1>6, <3>1, RestSteps
      <4>2. Len(Rest(sent', i)) = 0
        BY <4>1
      <4> QED
        BY <1>2, <1>3, <1>5, <1>7, <3>1, <4>2, Known DEF e
    <3>2. CASE i # Len(sent) + 1
      <4>1. i \in 1..Len(sent) /\ i \in 0..Len(sent) /\ i \in DOMAIN sent
        BY <1>6, <3>2, Known
      <4>2. sent[i].end + Len(Rest(sent, i)) = arrived + Len(wire)
        BY <4>1, LaterIsRest DEF IInv, EndsCounted
      <4>3. Rest(sent, i) \in Seq(Symbols) /\ Len(Rest(sent, i)) \in Nat
        BY <4>1, Known, RestSteps
      <4>4. Len(Join(Rest(sent, i), Encoded(m))) = Len(Rest(sent, i)) + Len(Encoded(m))
        BY <1>2, <4>3, SymbolsJoinAt
      <4>5. Len(Rest(sent', i)) = Len(Rest(sent, i)) + Len(Encoded(m))
        BY <1>5, <4>1, <4>4
      <4>6. sent'[i].end = sent[i].end /\ sent[i].end \in Nat
        BY <1>5, <4>1, Known, EncodingsTyped
      <4>7. sent[i].end + (Len(Rest(sent, i)) + Len(Encoded(m)))
              = arrived + (Len(wire) + Len(Encoded(m)))
        <5>1. /\ arrived \in Nat /\ Len(wire) \in Nat /\ sent[i].end \in Nat
              /\ Len(Rest(sent, i)) \in Nat /\ Len(Encoded(m)) \in Nat
          BY <1>2, <4>3, <4>6, Known
        <5> QED
          BY <4>2, <5>1
      <4> QED
        BY <1>7, <4>5, <4>6, <4>7, Zenon
    <3> QED
      BY <3>1, <3>2
  <2> QED
    BY <1>1, <1>6, <2>1, LaterIsRest DEF EndsCounted
<1> QED
  BY <1>9, <1>10, <1>11, <1>12, <1>13 DEF IInv

LEMMA ReceiveStep ==
    ASSUME IInv, NEW n \in 1..Len(wire), Receive(n)
    PROVE  IInv'
<1>1. /\ buffer' = buffer \o SubSeq(wire, 1, n) /\ wire' = SubSeq(wire, n + 1, Len(wire))
      /\ arrived' = arrived + n /\ pc' = "dispatch" /\ stalled' = FALSE
      /\ sent' = sent /\ handler' = handler /\ state' = state /\ request' = request
      /\ responses' = responses /\ pc = "idle"
  BY DEF Receive, context
<1>2. /\ buffer' \in Seq(Symbols) /\ Len(buffer') = Len(buffer) + n
      /\ \A i \in 1..Len(buffer) : buffer'[i] = buffer[i]
      /\ wire' \in Seq(Symbols) /\ Len(wire') = Len(wire) - n
      /\ Join(buffer', wire') = Join(buffer, wire)
  <2>1. OneRead(buffer, wire, n, buffer', wire')
    <3>1. OneRead(buffer, wire, n, buffer \o SubSeq(wire, 1, n), SubSeq(wire, n + 1, Len(wire)))
      BY Known, CutWire
    <3> QED
      BY <1>1, <3>1, Zenon
  <2> QED
    BY <2>1 DEF OneRead
<1>3. n \in Nat /\ n >= 1
  BY Known
<1>4. TypeOK'
  <2>1. arrived' \in Nat
    BY <1>1, <1>3, Known
  <2> QED
    BY <1>1, <1>2, <2>1 DEF IInv, TypeOK
<1>5. ResponsesAnswerMessages'
  <2>1. ASSUME NEW i \in DOMAIN responses
        PROVE  responses[i] = Meant(sent[i].msg) /\ sent[i].end <= arrived + n
    <3>1. responses[i] = Meant(sent[i].msg) /\ sent[i].end <= arrived
      BY DEF IInv, ResponsesAnswerMessages
    <3>2. i \in 1..Len(sent)
      BY Known
    <3>3. sent[i].end \in Nat
      BY <3>2, Known, EncodingsTyped
    <3> QED
      BY <1>3, <3>1, <3>3, Known
  <2> QED
    BY <1>1, <2>1 DEF IInv, ResponsesAnswerMessages
<1>6. ParserInPlace'
  <2>1. Place(sent, Len(responses), Join(buffer, wire), state, request)
    BY <1>1, PlaceIsParserInPlace DEF IInv
  <2>2. Place(sent', Len(responses'), Join(buffer', wire'), state', request')
    BY <1>1, <1>2, <2>1, Zenon
  <2> QED
    BY <2>2, PlaceIsParserInPlace
<1>7. HandlerInPlace'
  <2>1. ASSUME handler # "http"
        PROVE  /\ responses = <<>> /\ state = "RequestLine"
               /\ Join(buffer', wire') = Rest(sent, 0)
    BY <1>2, <2>1, LaterIsRest DEF IInv, HandlerInPlace, Input, Join
  <2>2. (handler # "http" => responses = <<>> /\ state = "RequestLine" /\ Input = Later(0))'
    BY <1>1, <2>1, LaterIsRest DEF Input, Join
  <2>3. Len(buffer') # 0
    BY <1>2, <1>3, Known
  <2>4. buffer' # <<>>
    BY <2>3
  <2>5. ASSUME handler = "redis" PROVE buffer'[1] = "*"
    <3>1. buffer # <<>> /\ buffer[1] = "*"
      BY <2>5 DEF IInv, HandlerInPlace, IsRedis
    <3>2. 1 \in 1..Len(buffer)
      BY <3>1, Known, EmptySeq
    <3> QED
      BY <1>2, <3>1, <3>2
  <2> QED
    BY <1>1, <2>2, <2>4, <2>5 DEF HandlerInPlace, IsRedis
<1>8. EndsCounted'
  <2>1. ASSUME NEW i \in DOMAIN sent
        PROVE  sent[i].end + Len(Later(i)) = (arrived + n) + Len(wire')
    <3>1. sent[i].end + Len(Later(i)) = arrived + Len(wire)
      BY DEF IInv, EndsCounted
    <3>2. arrived + Len(wire) = (arrived + n) + Len(wire')
      BY <1>2, <1>3, Known
    <3> QED
      BY <3>1, <3>2
  <2> QED
    BY <1>1, <2>1, LaterIsRest DEF EndsCounted
<1> QED
  BY <1>4, <1>5, <1>6, <1>7, <1>8 DEF IInv

LEMMA DispatchStep ==
    ASSUME IInv, Dispatch
    PROVE  IInv'
<1>1. /\ sent' = sent /\ wire' = wire /\ arrived' = arrived /\ buffer' = buffer
      /\ state' = state /\ request' = request
      /\ responses' = responses /\ stalled' = stalled /\ pc = "dispatch"
  BY DEF Dispatch, client, context
<1>2. /\ handler' = IF handler # "none" THEN handler
                    ELSE IF IsHttp(buffer) THEN "http"
                    ELSE IF IsRedis(buffer) THEN "redis" ELSE "none"
      /\ pc' = IF handler' = "http" THEN "message" ELSE "idle"
  BY DEF Dispatch
<1>3. handler \in {"none", "http", "redis"}
  BY DEF IInv, TypeOK
<1>4. TypeOK'
  <2>1. handler' \in {"none", "http", "redis"} /\ pc' \in {"idle", "dispatch", "message", "terminated"}
    BY <1>2, <1>3
  <2> QED
    BY <1>1, <2>1 DEF IInv, TypeOK
<1>5. ResponsesAnswerMessages'
  BY <1>1 DEF IInv, ResponsesAnswerMessages
<1>6. ParserInPlace'
  <2>1. Place(sent, Len(responses), Join(buffer, wire), state, request)
    BY <1>1, PlaceIsParserInPlace DEF IInv
  <2>2. Place(sent', Len(responses'), Join(buffer', wire'), state', request')
    BY <1>1, <2>1, Zenon
  <2> QED
    BY <2>2, PlaceIsParserInPlace
<1>7. HandlerInPlace'
  <2>1. (Input = Later(0))' <=> Input = Later(0)
    BY <1>1, LaterIsRest DEF Input
  <2>2. buffer # <<>>
    BY <1>1 DEF IInv, HandlerInPlace
  <2>3. handler = "redis" => IsRedis(buffer)
    BY DEF IInv, HandlerInPlace
  <2>4. handler # "http" => responses = <<>> /\ state = "RequestLine" /\ Input = Later(0)
    BY DEF IInv, HandlerInPlace
  <2>5. handler' = "http" => pc' = "message"
    BY <1>2
  <2>6. handler' # "http" => pc' = "idle" /\ handler # "http"
    BY <1>2, <1>3
  <2>7. handler' = "redis" => IsRedis(buffer)
    BY <1>2, <1>3, <2>3
  <2>8. handler' = "none" => ~IsHttp(buffer)
    BY <1>2, <1>3
  <2>9. (IsRedis(buffer))' <=> IsRedis(buffer)
    BY <1>1 DEF IsRedis
  <2>10. (IsHttp(buffer))' <=> IsHttp(buffer)
    BY <1>1 DEF IsHttp
  <2>11. pc' \in {"message", "terminated"} => handler' = "http"
    BY <1>2
  <2>12. pc' # "dispatch" /\ (handler' = "http" => pc' # "idle")
    BY <1>2
  <2> QED
    BY <1>1, <2>1, <2>2, <2>4, <2>6, <2>7, <2>8, <2>9, <2>10, <2>11, <2>12, Zenon
       DEF HandlerInPlace
<1>8. EndsCounted'
  BY <1>1, LaterIsRest DEF IInv, EndsCounted
<1> QED
  BY <1>4, <1>5, <1>6, <1>7, <1>8 DEF IInv

-----------------------------------------------------------------------------
(* The parser.                                                             *)

(* What is left of a message begins with its next line. *)
LEMMA NextOfBefore ==
    ASSUME NEW m \in Messages, NEW j \in 0..Len(m.before), NEW rest \in Seq(Symbols)
    PROVE  /\ j < Len(m.before) =>
                /\ m.before[j + 1] \in Seq(Symbols) /\ Unbroken(m.before[j + 1])
                /\ ~IsRequestLine(m.before[j + 1])
                /\ Join(FromLine(m, j + 1), rest) \in Seq(Symbols)
                /\ Join(FromLine(m, j), rest) =
                     Join(Line(m.before[j + 1]), Join(FromLine(m, j + 1), rest))
           /\ j = Len(m.before) =>
                /\ Join(FromHeader(m, 0), rest) \in Seq(Symbols)
                /\ Join(FromLine(m, j), rest) =
                     Join(Line(<<"GET", m.text>>), Join(FromHeader(m, 0), rest))
<1>1. ASSUME j < Len(m.before)
      PROVE  /\ m.before[j + 1] \in Seq(Symbols) /\ Unbroken(m.before[j + 1])
             /\ ~IsRequestLine(m.before[j + 1])
             /\ Join(FromLine(m, j + 1), rest) \in Seq(Symbols)
             /\ Join(FromLine(m, j), rest) =
                  Join(Line(m.before[j + 1]), Join(FromLine(m, j + 1), rest))
  <2>1. j + 1 \in 1..Len(m.before) /\ j + 1 \in 0..Len(m.before)
    BY <1>1, BeforeLinesTyped
  <2>2. m.before[j + 1] \in Seq(Symbols)
    BY <2>1, BeforeLinesTyped
  <2>3. Unbroken(m.before[j + 1]) /\ ~IsRequestLine(m.before[j + 1])
    BY <2>1, MessageTyped
  <2>4. Line(m.before[j + 1]) \in Seq(Symbols) /\ FromLine(m, j + 1) \in Seq(Symbols)
    BY <2>1, <2>2, LineFacts, FromLineSteps
  <2>5. FromLine(m, j) = Join(Line(m.before[j + 1]), FromLine(m, j + 1))
    BY <1>1, FromLineSteps
  <2>6. Join(Join(Line(m.before[j + 1]), FromLine(m, j + 1)), rest)
          = Join(Line(m.before[j + 1]), Join(FromLine(m, j + 1), rest))
    BY <2>4, JoinThree, Zenon
  <2>7. Join(FromLine(m, j + 1), rest) \in Seq(Symbols)
    BY <2>4, SymbolsJoin
  <2>8. Join(FromLine(m, j), rest) =
          Join(Line(m.before[j + 1]), Join(FromLine(m, j + 1), rest))
    BY <2>5, <2>6, Zenon
  <2> QED
    BY <2>2, <2>3, <2>7, <2>8
<1>2. ASSUME j = Len(m.before)
      PROVE  /\ Join(FromHeader(m, 0), rest) \in Seq(Symbols)
             /\ Join(FromLine(m, j), rest) =
                  Join(Line(<<"GET", m.text>>), Join(FromHeader(m, 0), rest))
  <2>1. Line(<<"GET", m.text>>) \in Seq(Symbols)
    BY RequestLineTyped, LineFacts
  <2>2. FromHeader(m, 0) \in Seq(Symbols)
    <3>1. 0 \in 0..Len(m.headers)
      BY MessageTyped
    <3> QED
      BY <3>1, FromHeaderSteps
  <2>3. FromLine(m, j) = Join(Line(<<"GET", m.text>>), FromHeader(m, 0))
    BY <1>2, FromLineSteps
  <2>4. Join(Join(Line(<<"GET", m.text>>), FromHeader(m, 0)), rest)
          = Join(Line(<<"GET", m.text>>), Join(FromHeader(m, 0), rest))
    BY <2>1, <2>2, JoinThree, Zenon
  <2>5. Join(FromHeader(m, 0), rest) \in Seq(Symbols)
    BY <2>2, SymbolsJoin
  <2>6. Join(FromLine(m, j), rest) =
          Join(Line(<<"GET", m.text>>), Join(FromHeader(m, 0), rest))
    BY <2>3, <2>4, Zenon
  <2> QED
    BY <2>5, <2>6
<1> QED
  BY <1>1, <1>2

LEMMA NextOfHeaders ==
    ASSUME NEW m \in Messages, NEW h \in 0..Len(m.headers), NEW rest \in Seq(Symbols)
    PROVE  /\ h < Len(m.headers) =>
                /\ Join(FromHeader(m, h + 1), rest) \in Seq(Symbols)
                /\ Join(FromHeader(m, h), rest) =
                     Join(Line(<<m.headers[h + 1]>>), Join(FromHeader(m, h + 1), rest))
           /\ h = Len(m.headers) =>
                /\ Join(m.body, rest) \in Seq(Symbols)
                /\ Join(FromHeader(m, h), rest) = Join(Line(<<>>), Join(m.body, rest))
<1>1. ASSUME h < Len(m.headers)
      PROVE  /\ Join(FromHeader(m, h + 1), rest) \in Seq(Symbols)
             /\ Join(FromHeader(m, h), rest) =
                  Join(Line(<<m.headers[h + 1]>>), Join(FromHeader(m, h + 1), rest))
  <2>1. h + 1 \in 1..Len(m.headers) /\ h + 1 \in 0..Len(m.headers)
    BY <1>1, MessageTyped
  <2>2. <<m.headers[h + 1]>> \in Seq(Symbols)
    BY <2>1, HeaderTyped
  <2>3. Line(<<m.headers[h + 1]>>) \in Seq(Symbols) /\ FromHeader(m, h + 1) \in Seq(Symbols)
    BY <2>1, <2>2, LineFacts, FromHeaderSteps
  <2>4. FromHeader(m, h) = Join(Line(<<m.headers[h + 1]>>), FromHeader(m, h + 1))
    BY <1>1, FromHeaderSteps
  <2>5. Join(Join(Line(<<m.headers[h + 1]>>), FromHeader(m, h + 1)), rest)
          = Join(Line(<<m.headers[h + 1]>>), Join(FromHeader(m, h + 1), rest))
    BY <2>3, JoinThree, Zenon
  <2>6. Join(FromHeader(m, h + 1), rest) \in Seq(Symbols)
    BY <2>3, SymbolsJoin
  <2>7. Join(FromHeader(m, h), rest) =
          Join(Line(<<m.headers[h + 1]>>), Join(FromHeader(m, h + 1), rest))
    BY <2>4, <2>5, Zenon
  <2> QED
    BY <2>6, <2>7
<1>2. ASSUME h = Len(m.headers)
      PROVE  /\ Join(m.body, rest) \in Seq(Symbols)
             /\ Join(FromHeader(m, h), rest) = Join(Line(<<>>), Join(m.body, rest))
  <2>1. Line(<<>>) \in Seq(Symbols) /\ m.body \in Seq(Symbols)
    BY BlankTyped, LineFacts, MessageTyped
  <2>2. FromHeader(m, h) = Join(Line(<<>>), m.body)
    BY <1>2, FromHeaderSteps
  <2>3. Join(Join(Line(<<>>), m.body), rest) = Join(Line(<<>>), Join(m.body, rest))
    BY <2>1, JoinThree, Zenon
  <2>4. Join(m.body, rest) \in Seq(Symbols)
    BY <2>1, SymbolsJoin
  <2>5. Join(FromHeader(m, h), rest) = Join(Line(<<>>), Join(m.body, rest))
    BY <2>2, <2>3, Zenon
  <2> QED
    BY <2>4, <2>5
<1> QED
  BY <1>1, <1>2

(* The message the parser is in, when there is one. *)
LEMMA CurrentMessage ==
    ASSUME IInv, Len(responses) # Len(sent)
    PROVE  /\ sent[Len(responses) + 1].msg \in Messages
           /\ Rest(sent, Len(responses) + 1) \in Seq(Symbols)
           /\ Len(responses) + 1 \in 1..Len(sent)
<1>1. Len(responses) + 1 \in 1..Len(sent) /\ Len(responses) + 1 \in 0..Len(sent)
  <2>1. Len(responses) \in 0..Len(sent) /\ Len(sent) \in Nat
    BY Known
  <2> QED
    BY <2>1
<1> QED
  BY <1>1, Known, EncodingsTyped, RestSteps

LEMMA LineIsInMessage ==
    ASSUME IInv, pc = "message", NEW n \in Nat, IsLine(n)
    PROVE  Len(responses) # Len(sent)
<1>1. n + 1 \in 1..(Len(buffer) - 1)
  BY DEF IsLine
<1>2. Len(Join(buffer, wire)) # 0
  BY <1>1, Known
<1>3. Join(buffer, wire) # <<>>
  BY <1>2
<1>4. Place(sent, Len(responses), Join(buffer, wire), state, request)
  BY PlaceIsParserInPlace DEF IInv
<1> QED
  BY <1>3, <1>4, Zenon DEF Place

(* What a step of the parser has to do. *)
LEMMA ParserStep ==
    ASSUME IInv, pc = "message",
           sent' = sent, wire' = wire, arrived' = arrived,
           handler' = handler, responses' = responses,
           buffer' \in Seq(Symbols), state' \in {"RequestLine", "Headers", "Body", "Finish"},
           pc' \in {"message", "idle", "terminated"}, stalled' \in BOOLEAN,
           pc' # "terminated" =>
              Place(sent, Len(responses), Join(buffer', wire), state', request'),
           pc' = "idle" /\ ~stalled' => WantsMore'
    PROVE  IInv'
<1>1. handler = "http"
  BY DEF IInv, HandlerInPlace
<1>2. TypeOK'
  BY DEF IInv, TypeOK
<1>3. ResponsesAnswerMessages'
  BY DEF IInv, ResponsesAnswerMessages
<1>4. ParserInPlace'
  BY PlaceIsParserInPlace, Zenon
<1>5. HandlerInPlace'
  BY <1>1 DEF HandlerInPlace
<1>6. EndsCounted'
  BY LaterIsRest DEF IInv, EndsCounted
<1> QED
  BY <1>2, <1>3, <1>4, <1>5, <1>6 DEF IInv

LEMMA ParseRequestLineStep ==
    ASSUME IInv, ParseRequestLine
    PROVE  IInv'
<1> DEFINE n == Len(responses)
           m == sent[n + 1].msg
           rest == Rest(sent, n + 1)
<1>1. /\ pc = "message" /\ state = "RequestLine"
      /\ sent' = sent /\ wire' = wire /\ arrived' = arrived /\ handler' = handler
      /\ responses' = responses
  BY DEF ParseRequestLine, client
<1>2. PICK k \in 0..Len(buffer) :
          LET line == SubSeq(buffer, 1, k) IN
          /\ IsLine(k) /\ TakeLine(k)
          /\ IF IsRequestLine(line)
             THEN /\ request' = [request EXCEPT !.path = PathOf[line[2]],
                                                !.version = VersionOf[line[2]]]
                  /\ state' = "Headers"
                  /\ UNCHANGED <<pc, stalled>>
             ELSE Reject
  BY DEF ParseRequestLine
<1>3. k \in Nat /\ IsLine(k) /\ buffer' = SubSeq(buffer, k + 3, Len(buffer))
  BY <1>2 DEF TakeLine
<1>4. n # Len(sent)
  BY <1>1, <1>3, LineIsInMessage
<1>5. m \in Messages /\ rest \in Seq(Symbols)
  BY <1>4, CurrentMessage
<1>6. stalled \in BOOLEAN
  BY DEF IInv, TypeOK
<1>7. Place(sent, n, Join(buffer, wire), state, request)
  BY <1>1, PlaceIsParserInPlace DEF IInv
<1> HIDE DEF n, m, rest
<1>8. request = NoRequest
      /\ \E j \in 0..Len(m.before) : Join(buffer, wire) = Join(FromLine(m, j), rest)
  BY <1>1, <1>4, <1>7, Zenon DEF Place, m, rest
<1>9. PICK j \in 0..Len(m.before) : Join(buffer, wire) = Join(FromLine(m, j), rest)
  BY <1>8
<1>10. j \in Nat /\ Len(m.before) \in Nat /\ j <= Len(m.before)
  BY <1>5, BeforeLinesTyped
<1>11. ASSUME NEW text \in Seq(Symbols), Unbroken(text), NEW left \in Seq(Symbols),
              Join(FromLine(m, j), rest) = Join(Line(text), left)
       PROVE  /\ SubSeq(buffer, 1, k) = text
              /\ buffer' \in Seq(Symbols) /\ Join(buffer', wire) = left
  <2>1. Join(buffer, wire) = Join(Line(text), left)
    BY <1>9, <1>11, Zenon
  <2>2. /\ SubSeq(buffer, 1, k) = text
        /\ SubSeq(buffer, k + 3, Len(buffer)) \in Seq(Symbols)
        /\ Join(SubSeq(buffer, k + 3, Len(buffer)), wire) = left
    BY <1>3, <1>11, <2>1, Known, NextLine
  <2> QED
    BY <1>3, <2>2, Zenon
<1>12. CASE j < Len(m.before)
  <2> DEFINE text == m.before[j + 1]
             left == Join(FromLine(m, j + 1), rest)
  <2>1. /\ text \in Seq(Symbols) /\ Unbroken(text) /\ ~IsRequestLine(text)
        /\ left \in Seq(Symbols)
        /\ Join(FromLine(m, j), rest) = Join(Line(text), left)
    BY <1>5, <1>12, NextOfBefore
  <2> HIDE DEF text
  <2>2. SubSeq(buffer, 1, k) = text /\ buffer' \in Seq(Symbols) /\ Join(buffer', wire) = left
    BY <1>11, <2>1, Zenon
  <2>3. Reject
    BY <1>2, <2>1, <2>2
  <2>4. stalled' = TRUE /\ pc' = "idle" /\ state' = state /\ request' = request
    BY <2>3 DEF Reject, context
  <2>5. j + 1 \in 0..Len(m.before)
    BY <1>10, <1>12
  <2>6. Place(sent, n, Join(buffer', wire), "RequestLine", NoRequest)
    BY <1>4, <2>2, <2>5, Zenon DEF Place, m, rest
  <2>7. Place(sent, n, Join(buffer', wire), state', request')
    BY <1>1, <1>8, <2>4, <2>6, Zenon
  <2> QED
    BY <1>1, <2>2, <2>4, <2>7, ParserStep DEF n
<1>13. CASE j = Len(m.before)
  <2> DEFINE text == <<"GET", m.text>>
             left == Join(FromHeader(m, 0), rest)
  <2>1. text \in Seq(Symbols) /\ Unbroken(text) /\ IsRequestLine(text) /\ text[2] = m.text
    BY <1>5, RequestLineTyped
  <2>2. left \in Seq(Symbols) /\ Join(FromLine(m, j), rest) = Join(Line(text), left)
    BY <1>5, <1>13, NextOfBefore
  <2> HIDE DEF text
  <2>3. SubSeq(buffer, 1, k) = text /\ buffer' \in Seq(Symbols) /\ Join(buffer', wire) = left
    BY <1>11, <2>1, <2>2, Zenon
  <2>4. /\ request' = [request EXCEPT !.path = PathOf[text[2]], !.version = VersionOf[text[2]]]
        /\ state' = "Headers" /\ pc' = pc /\ stalled' = stalled
    BY <1>2, <2>1, <2>3
  <2>5. request' = ReadSoFar(m, 0)
    <3>1. request' = [request EXCEPT !.path = PathOf[m.text], !.version = VersionOf[m.text]]
      BY <2>1, <2>4
    <3> QED
      BY <1>5, <1>8, <3>1, ReadStarts
  <2>6. 0 \in 0..Len(m.headers)
    BY <1>5, MessageTyped
  <2>7. Place(sent, n, Join(buffer', wire), "Headers", request')
    BY <1>4, <2>3, <2>5, <2>6, Zenon DEF Place, m, rest
  <2> QED
    BY <1>1, <1>6, <2>3, <2>4, <2>7, ParserStep DEF n
<1> QED
  BY <1>10, <1>12, <1>13

LEMMA ParseHeaderStep ==
    ASSUME IInv, ParseHeader
    PROVE  IInv'
<1> DEFINE n == Len(responses)
           m == sent[n + 1].msg
           rest == Rest(sent, n + 1)
<1>1. /\ pc = "message" /\ state = "Headers"
      /\ sent' = sent /\ wire' = wire /\ arrived' = arrived /\ handler' = handler
      /\ responses' = responses
  BY DEF ParseHeader, client
<1>2. PICK k \in 1..Len(buffer) :
          LET line == SubSeq(buffer, 1, k) IN
          /\ IsLine(k) /\ TakeLine(k)
          /\ IF IsHeader(line)
             THEN /\ request' = WithHeader(request, line)
                  /\ UNCHANGED <<state, pc, stalled>>
             ELSE Reject
  BY DEF ParseHeader
<1>3. k \in Nat /\ k # 0 /\ IsLine(k) /\ buffer' = SubSeq(buffer, k + 3, Len(buffer))
  BY <1>2 DEF TakeLine
<1>4. n # Len(sent)
  BY <1>1, <1>3, LineIsInMessage
<1>5. m \in Messages /\ rest \in Seq(Symbols)
  BY <1>4, CurrentMessage
<1>6. stalled \in BOOLEAN
  BY DEF IInv, TypeOK
<1>7. Place(sent, n, Join(buffer, wire), state, request)
  BY <1>1, PlaceIsParserInPlace DEF IInv
<1> HIDE DEF n, m, rest
<1>8. \E h \in 0..Len(m.headers) :
          Join(buffer, wire) = Join(FromHeader(m, h), rest) /\ request = ReadSoFar(m, h)
  BY <1>1, <1>4, <1>7, Zenon DEF Place, m, rest
<1>9. PICK h \in 0..Len(m.headers) :
          Join(buffer, wire) = Join(FromHeader(m, h), rest) /\ request = ReadSoFar(m, h)
  BY <1>8
<1>10. h \in Nat /\ Len(m.headers) \in Nat /\ h <= Len(m.headers)
  BY <1>5, MessageTyped
<1>11. ASSUME NEW text \in Seq(Symbols), Unbroken(text), NEW left \in Seq(Symbols),
              Join(FromHeader(m, h), rest) = Join(Line(text), left)
       PROVE  /\ k = Len(text) /\ SubSeq(buffer, 1, k) = text
              /\ buffer' \in Seq(Symbols) /\ Join(buffer', wire) = left
  <2>1. Join(buffer, wire) = Join(Line(text), left)
    BY <1>9, <1>11, Zenon
  <2>2. /\ k = Len(text) /\ SubSeq(buffer, 1, k) = text
        /\ SubSeq(buffer, k + 3, Len(buffer)) \in Seq(Symbols)
        /\ Join(SubSeq(buffer, k + 3, Len(buffer)), wire) = left
    BY <1>3, <1>11, <2>1, Known, NextLine
  <2> QED
    BY <1>3, <2>2, Zenon
<1>12. h < Len(m.headers)
  <2> SUFFICES ASSUME h = Len(m.headers) PROVE FALSE
    BY <1>10
  <2> DEFINE left == Join(m.body, rest)
             blank == <<>>
  <2>1. left \in Seq(Symbols) /\ Join(FromHeader(m, h), rest) = Join(Line(blank), left)
    BY <1>5, NextOfHeaders
  <2>2. blank \in Seq(Symbols) /\ Unbroken(blank) /\ Len(blank) = 0
    BY BlankTyped
  <2> HIDE DEF left, blank
  <2>3. k = Len(blank)
    BY <1>11, <2>1, <2>2, Zenon
  <2> QED
    BY <1>3, <2>2, <2>3
<1> DEFINE text == <<m.headers[h + 1]>>
           left == Join(FromHeader(m, h + 1), rest)
<1>13. h + 1 \in 1..Len(m.headers) /\ h + 1 \in 0..Len(m.headers) /\ h \in 0..(Len(m.headers) - 1)
  BY <1>10, <1>12
<1>14. text \in Seq(Symbols) /\ Unbroken(text)
  BY <1>5, <1>13, HeaderTyped
<1>15. left \in Seq(Symbols) /\ Join(FromHeader(m, h), rest) = Join(Line(text), left)
  BY <1>5, <1>12, NextOfHeaders
<1>16. ReadSoFar(m, h + 1) =
          IF IsHeader(text) THEN WithHeader(ReadSoFar(m, h), text) ELSE ReadSoFar(m, h)
  BY <1>5, <1>13, ReadSteps
<1> HIDE DEF text
<1>17. SubSeq(buffer, 1, k) = text /\ buffer' \in Seq(Symbols) /\ Join(buffer', wire) = left
  BY <1>11, <1>14, <1>15, Zenon
<1>18. Place(sent, n, Join(buffer', wire), "Headers", ReadSoFar(m, h + 1))
  BY <1>4, <1>13, <1>17, Zenon DEF Place, m, rest
<1>19. CASE IsHeader(text)
  <2>1. request' = WithHeader(request, text) /\ state' = state /\ pc' = pc /\ stalled' = stalled
    BY <1>2, <1>17, <1>19
  <2>2. request' = ReadSoFar(m, h + 1)
    BY <1>9, <1>16, <1>19, <2>1
  <2>3. Place(sent, n, Join(buffer', wire), state', request')
    BY <1>1, <1>18, <2>1, <2>2, Zenon
  <2> QED
    BY <1>1, <1>6, <1>17, <2>1, <2>3, ParserStep DEF n
<1>20. CASE ~IsHeader(text)
  <2>1. Reject
    BY <1>2, <1>17, <1>20
  <2>2. stalled' = TRUE /\ pc' = "idle" /\ state' = state /\ request' = request
    BY <2>1 DEF Reject, context
  <2>3. request' = ReadSoFar(m, h + 1)
    BY <1>9, <1>16, <1>20, <2>2
  <2>4. Place(sent, n, Join(buffer', wire), state', request')
    BY <1>1, <1>18, <2>2, <2>3, Zenon
  <2> QED
    BY <1>1, <1>17, <2>2, <2>4, ParserStep DEF n
<1> QED
  BY <1>19, <1>20

LEMMA EndHeadersStep ==
    ASSUME IInv, EndHeaders
    PROVE  IInv'
<1> DEFINE n == Len(responses)
           m == sent[n + 1].msg
           rest == Rest(sent, n + 1)
           left == Join(m.body, rest)
           blank == <<>>
<1>1. /\ pc = "message" /\ state = "Headers" /\ IsLine(0)
      /\ buffer' = SubSeq(buffer, 3, Len(buffer))
      /\ sent' = sent /\ wire' = wire /\ arrived' = arrived /\ handler' = handler
      /\ request' = request /\ responses' = responses /\ stalled' = stalled
  BY DEF EndHeaders, TakeLine, client
<1>2. IF request.length = NoLength
      THEN pc' = "terminated" /\ state' = state
      ELSE /\ state' = IF request.length > 0 THEN "Body" ELSE "Finish"
           /\ pc' = pc
  BY DEF EndHeaders
<1>3. n # Len(sent)
  BY <1>1, LineIsInMessage
<1>4. m \in Messages /\ rest \in Seq(Symbols)
  BY <1>3, CurrentMessage
<1>5. stalled \in BOOLEAN
  BY DEF IInv, TypeOK
<1>6. Place(sent, n, Join(buffer, wire), state, request)
  BY <1>1, PlaceIsParserInPlace DEF IInv
<1> HIDE DEF n, m, rest
<1>7. \E h \in 0..Len(m.headers) :
          Join(buffer, wire) = Join(FromHeader(m, h), rest) /\ request = ReadSoFar(m, h)
  BY <1>1, <1>3, <1>6, Zenon DEF Place, m, rest
<1>8. PICK h \in 0..Len(m.headers) :
          Join(buffer, wire) = Join(FromHeader(m, h), rest) /\ request = ReadSoFar(m, h)
  BY <1>7
<1>9. h \in Nat /\ Len(m.headers) \in Nat /\ h <= Len(m.headers)
  BY <1>4, MessageTyped
<1>10. h = Len(m.headers)
  <2> SUFFICES ASSUME h < Len(m.headers) PROVE FALSE
    BY <1>9
  <2> DEFINE text == <<m.headers[h + 1]>>
             next == Join(FromHeader(m, h + 1), rest)
  <2>1. next \in Seq(Symbols) /\ Join(FromHeader(m, h), rest) = Join(Line(text), next)
    BY <1>4, NextOfHeaders
  <2>2. h + 1 \in 1..Len(m.headers)
    BY <1>9
  <2>3. text \in Seq(Symbols) /\ Unbroken(text) /\ Len(text) = 1
    BY <1>4, <2>2, HeaderTyped
  <2> HIDE DEF text, next
  <2>4. Join(buffer, wire) = Join(Line(text), next)
    BY <1>8, <2>1, Zenon
  <2>5. 0 = Len(text)
    BY <1>1, <2>1, <2>3, <2>4, Known, NextLine
  <2> QED
    BY <2>3, <2>5
<1>11. left \in Seq(Symbols) /\ Join(FromHeader(m, h), rest) = Join(Line(blank), left)
  BY <1>4, <1>10, NextOfHeaders
<1>12. blank \in Seq(Symbols) /\ Unbroken(blank)
  BY BlankTyped
<1> HIDE DEF blank
<1>13. buffer' \in Seq(Symbols) /\ Join(buffer', wire) = left
  <2> HIDE DEF left
  <2>1. Join(buffer, wire) = Join(Line(blank), left)
    BY <1>8, <1>11, Zenon
  <2>2. /\ SubSeq(buffer, 0 + 3, Len(buffer)) \in Seq(Symbols)
        /\ Join(SubSeq(buffer, 0 + 3, Len(buffer)), wire) = left
    BY <1>1, <1>11, <1>12, <2>1, Known, NextLine
  <2>3. 0 + 3 = 3
    OBVIOUS
  <2> QED
    BY <1>1, <2>2, <2>3
<1>14. request' = AllRead(m) /\ request.length = LengthAmong(m, Len(m.headers))
  <2>1. request = ReadSoFar(m, Len(m.headers))
    BY <1>8, <1>10
  <2> QED
    BY <1>1, <2>1 DEF AllRead, ReadSoFar
<1>15. LengthAmong(m, Len(m.headers)) \in {Len(m.body), NoLength}
       /\ m.body \in Seq(Symbols) /\ Len(m.body) \in Nat
  BY <1>4, MessageTyped
<1>16. CASE request.length = NoLength
  <2>1. pc' = "terminated" /\ state' = state
    BY <1>2, <1>16
  <2> QED
    BY <1>1, <1>5, <1>13, <2>1, ParserStep
<1>17. CASE request.length # NoLength
  <2>1. request.length = Len(m.body) /\ request'.length = Len(m.body)
    BY <1>1, <1>14, <1>15, <1>17
  <2>2. pc' = "message" /\ state' = IF Len(m.body) > 0 THEN "Body" ELSE "Finish"
    BY <1>1, <1>2, <1>17, <2>1
  <2>3. CASE Len(m.body) > 0
    <3>1. state' = "Body" /\ request'.length \in Nat \ {0}
      BY <1>15, <2>1, <2>2, <2>3
    <3>2. Place(sent, n, Join(buffer', wire), state', request')
      BY <1>3, <1>13, <1>14, <3>1, Zenon DEF Place, m, rest
    <3> QED
      BY <1>1, <1>5, <1>13, <2>2, <3>1, <3>2, ParserStep DEF n
  <2>4. CASE ~ (Len(m.body) > 0)
    <3>1. state' = "Finish"
      BY <2>2, <2>4
    <3>2. m.body = <<>>
      BY <1>15, <2>4, EmptySeq
    <3>3. Join(buffer', wire) = rest
      <4>1. Join(<<>>, rest) = rest
        BY <1>4, SymbolsJoin
      <4> QED
        BY <1>13, <3>2, <4>1, Zenon
    <3>4. request' = [AllRead(m) EXCEPT !.body = m.body]
      <4>1. request' = [path |-> PathOf[m.text], version |-> VersionOf[m.text],
                        length |-> LengthAmong(m, Len(m.headers)),
                        connection |-> ConnectionAmong(m, Len(m.headers)), body |-> <<>>]
        BY <1>14, Zenon DEF AllRead, ReadSoFar
      <4>2. PICK r : r = [request' EXCEPT !.body = m.body]
        OBVIOUS
      <4>3. r = request'
        BY <3>2, <4>1, <4>2
      <4> QED
        BY <1>14, <4>2, <4>3, Zenon
    <3>5. Place(sent, n, Join(buffer', wire), state', request')
      BY <1>3, <3>1, <3>3, <3>4, Zenon DEF Place, m, rest
    <3> QED
      BY <1>1, <1>5, <1>13, <2>2, <3>1, <3>5, ParserStep DEF n
  <2> QED
    BY <2>3, <2>4
<1> QED
  BY <1>16, <1>17

LEMMA ParseBodyStep ==
    ASSUME IInv, ParseBody
    PROVE  IInv'
<1> DEFINE n == Len(responses)
           m == sent[n + 1].msg
           rest == Rest(sent, n + 1)
<1>1. /\ pc = "message" /\ state = "Body" /\ Len(buffer) >= request.length
      /\ request' = [request EXCEPT !.body = SubSeq(buffer, 1, request.length)]
      /\ buffer' = SubSeq(buffer, request.length + 1, Len(buffer))
      /\ state' = "Finish"
      /\ sent' = sent /\ wire' = wire /\ arrived' = arrived /\ handler' = handler
      /\ responses' = responses /\ pc' = pc /\ stalled' = stalled
  BY DEF ParseBody, client
<1>2. Place(sent, n, Join(buffer, wire), state, request)
  BY <1>1, PlaceIsParserInPlace DEF IInv
<1>3. n # Len(sent)
  BY <1>1, <1>2, Zenon DEF Place
<1>4. m \in Messages /\ rest \in Seq(Symbols)
  BY <1>3, CurrentMessage
<1>5. stalled \in BOOLEAN
  BY DEF IInv, TypeOK
<1> HIDE DEF n, m, rest
<1>6. /\ request = AllRead(m) /\ request.length \in Nat \ {0}
      /\ Join(buffer, wire) = Join(m.body, rest)
  BY <1>1, <1>2, <1>3, Zenon DEF Place, m, rest
<1>7. request.length = Len(m.body) /\ m.body \in Seq(Symbols)
  <2>1. request.length = LengthAmong(m, Len(m.headers))
    BY <1>6 DEF AllRead, ReadSoFar
  <2>2. LengthAmong(m, Len(m.headers)) \in {Len(m.body), NoLength} /\ m.body \in Seq(Symbols)
    BY <1>4, MessageTyped
  <2>3. NoLength \notin Nat
    BY HttpInputAssumption
  <2> QED
    BY <1>6, <2>1, <2>2, <2>3
<1>8. /\ SubSeq(buffer, 1, Len(m.body)) = m.body
      /\ SubSeq(buffer, Len(m.body) + 1, Len(buffer)) \in Seq(Symbols)
      /\ Join(SubSeq(buffer, Len(m.body) + 1, Len(buffer)), wire) = rest
  <2>1. Len(buffer) >= Len(m.body)
    BY <1>1, <1>7
  <2> QED
    BY <1>4, <1>6, <1>7, <2>1, Known, CutFront
<1>9. buffer' \in Seq(Symbols) /\ Join(buffer', wire) = rest
  BY <1>1, <1>7, <1>8, Zenon
<1>10. request' = [AllRead(m) EXCEPT !.body = m.body]
  BY <1>1, <1>6, <1>7, <1>8, Zenon
<1>11. Place(sent, n, Join(buffer', wire), "Finish", request')
  BY <1>3, <1>9, <1>10, Zenon DEF Place, m, rest
<1> QED
  BY <1>1, <1>5, <1>9, <1>11, ParserStep DEF n

LEMMA NeedMoreStep ==
    ASSUME IInv, NeedMore
    PROVE  IInv'
<1>1. /\ pc = "message" /\ WantsMore /\ pc' = "idle"
      /\ sent' = sent /\ wire' = wire /\ arrived' = arrived /\ handler' = handler
      /\ buffer' = buffer /\ state' = state /\ request' = request
      /\ responses' = responses /\ stalled' = stalled
  BY DEF NeedMore, client, context
<1>2. WantsMore'
  BY <1>1 DEF WantsMore, HasLine, IsLine
<1>3. Place(sent, Len(responses), Join(buffer, wire), state, request)
  BY <1>1, PlaceIsParserInPlace DEF IInv
<1>4. Place(sent, Len(responses), Join(buffer', wire), state', request')
  BY <1>1, <1>3, Zenon
<1>5. /\ buffer' \in Seq(Symbols) /\ stalled' \in BOOLEAN
      /\ state' \in {"RequestLine", "Headers", "Body", "Finish"}
  BY <1>1 DEF IInv, TypeOK
<1> QED
  BY <1>1, <1>2, <1>4, <1>5, ParserStep

LEMMA AnswerStep ==
    ASSUME IInv, Answer
    PROVE  IInv'
<1> DEFINE n == Len(responses)
           m == sent[n + 1].msg
           rest == Rest(sent, n + 1)
<1>1. /\ pc = "message" /\ state = "Finish"
      /\ responses' = Append(responses, Response(request))
      /\ state' = "RequestLine" /\ request' = NoRequest
      /\ pc' = IF buffer = <<>> THEN "idle" ELSE "message"
      /\ sent' = sent /\ wire' = wire /\ arrived' = arrived /\ handler' = handler
      /\ buffer' = buffer /\ stalled' = stalled
  BY DEF Answer, Reset, client
<1>2. Place(sent, n, Join(buffer, wire), state, request)
  BY <1>1, PlaceIsParserInPlace DEF IInv
<1>3. n # Len(sent)
  BY <1>1, <1>2, Zenon DEF Place
<1>4. m \in Messages /\ rest \in Seq(Symbols) /\ n + 1 \in 1..Len(sent)
  BY <1>3, CurrentMessage
<1>5. n \in Nat
  BY Known
<1> HIDE DEF m, rest
<1>6. request = [AllRead(m) EXCEPT !.body = m.body] /\ Join(buffer, wire) = rest
  BY <1>1, <1>2, <1>3, Zenon DEF Place, m, rest
<1>7. Response(request) = Meant(m)
  BY <1>4, <1>6, AnswerIsMeant, Zenon DEF AllRead
<1>8. handler = "http"
  BY <1>1 DEF IInv, HandlerInPlace
<1> DEFINE Answers == {Meant(x) : x \in Messages}
<1>9. responses \in Seq(Answers) /\ Response(request) \in Answers
  BY <1>4, <1>7 DEF IInv, TypeOK
<1> HIDE DEF Answers
<1>10. /\ responses' \in Seq(Answers) /\ Len(responses') = n + 1
       /\ \A i \in 1..n : responses'[i] = responses[i]
       /\ responses'[n + 1] = Response(request)
       /\ DOMAIN responses' = 1..(n + 1)
  BY <1>1, <1>5, <1>9
<1>11. TypeOK'
  <2>1. pc' \in {"idle", "dispatch", "message", "terminated"}
        /\ state' \in {"RequestLine", "Headers", "Body", "Finish"}
    BY <1>1
  <2> QED
    BY <1>1, <1>10, <2>1 DEF IInv, TypeOK, Answers
<1>12. sent[n + 1].end <= arrived
  <2>1. sent[n + 1].end + Len(rest) = arrived + Len(wire)
    BY <1>4, Known, LaterIsRest DEF IInv, EndsCounted, rest
  <2>2. Len(rest) = Len(buffer) + Len(wire)
    BY <1>6, Known
  <2>3. sent[n + 1].end \in Nat
    BY <1>4, Known, EncodingsTyped
  <2>4. Len(buffer) \in Nat /\ Len(wire) \in Nat /\ arrived \in Nat
    BY Known
  <2> QED
    BY <2>1, <2>2, <2>3, <2>4
<1>13. ResponsesAnswerMessages'
  <2>1. ASSUME NEW i \in 1..(n + 1)
        PROVE  responses'[i] = Meant(sent[i].msg) /\ sent[i].end <= arrived
    <3>1. CASE i = n + 1
      BY <1>7, <1>10, <1>12, <3>1 DEF m
    <3>2. CASE i # n + 1
      <4>1. i \in 1..n /\ i \in DOMAIN responses
        BY <1>5, <3>2, Known
      <4> QED
        BY <1>10, <4>1 DEF IInv, ResponsesAnswerMessages
    <3> QED
      BY <3>1, <3>2
  <2>2. n + 1 <= Len(sent)
    BY <1>4
  <2> QED
    BY <1>1, <1>10, <2>1, <2>2 DEF ResponsesAnswerMessages
<1>14. ParserInPlace'
  <2>1. Place(sent, n + 1, rest, "RequestLine", NoRequest)
    <3>1. CASE n + 1 = Len(sent)
      <4>1. rest = <<>>
        <5>1. n + 1 \in 0..Len(sent)
          BY <1>4
        <5> QED
          BY <3>1, <5>1, Known, RestSteps DEF rest
      <4> QED
        BY <3>1, <4>1, Zenon DEF Place
    <3>2. CASE n + 1 # Len(sent)
      <4> DEFINE next == sent[(n + 1) + 1].msg
                 then == Rest(sent, (n + 1) + 1)
      <4>1. n + 1 \in 0..Len(sent) /\ n + 1 < Len(sent) /\ (n + 1) + 1 \in 1..Len(sent)
        <5>1. Len(sent) \in Nat
          BY Known
        <5> HIDE DEF n
        <5> QED
          BY <1>4, <1>5, <3>2, <5>1
      <4>2. rest = Join(Encoded(next), then)
        BY <4>1, Known, RestSteps DEF rest
      <4>3. next \in Messages
        BY <4>1, Known, EncodingsTyped
      <4>4. Encoded(next) = FromLine(next, 0) /\ 0 \in 0..Len(next.before)
        BY <4>3, BeforeLinesTyped DEF Encoded
      <4>5. rest = Join(FromLine(next, 0), then)
        BY <4>2, <4>4, Zenon
      <4> QED
        BY <3>2, <4>4, <4>5, Zenon DEF Place
    <3> QED
      BY <3>1, <3>2
  <2>2. Place(sent', Len(responses'), Join(buffer', wire'), state', request')
    BY <1>1, <1>6, <1>10, <2>1, Zenon
  <2> QED
    BY <2>2, PlaceIsParserInPlace
<1>15. HandlerInPlace'
  <2>1. ASSUME buffer = <<>> PROVE WantsMore'
    <3>1. Len(buffer') = 0
      BY <1>1, <2>1
    <3>2. ~ HasLine'
      BY <3>1 DEF HasLine, IsLine
    <3> QED
      BY <1>1, <3>2 DEF WantsMore
  <2> QED
    BY <1>1, <1>8, <2>1 DEF HandlerInPlace
<1>16. EndsCounted'
  BY <1>1, LaterIsRest DEF IInv, EndsCounted
<1> QED
  BY <1>11, <1>13, <1>14, <1>15, <1>16 DEF IInv

LEMMA IInvInit == Init => IInv
<1> SUFFICES ASSUME Init PROVE IInv
  OBVIOUS
<1>1. /\ sent = <<>> /\ wire = <<>> /\ arrived = 0 /\ buffer = <<>> /\ handler = "none"
      /\ state = "RequestLine" /\ request = NoRequest
      /\ responses = <<>> /\ pc = "idle" /\ stalled = FALSE
  BY DEF Init
<1>2. TypeOK
  <2> DEFINE Recorded == [msg : Messages, end : Nat]
             Answers == {Meant(m) : m \in Messages}
  <2>1. \A S : <<>> \in Seq(S)
    OBVIOUS
  <2>2. sent \in Seq(Recorded) /\ responses \in Seq(Answers)
    <3> HIDE DEF Recorded, Answers
    <3> QED
      BY <1>1, <2>1, Zenon
  <2>3. wire \in Seq(Symbols) /\ buffer \in Seq(Symbols)
    BY <1>1, <2>1, Zenon
  <2>4. arrived \in Nat
    BY <1>1
  <2>5. /\ handler \in {"none", "http", "redis"}
        /\ state \in {"RequestLine", "Headers", "Body", "Finish"}
        /\ pc \in {"idle", "dispatch", "message", "terminated"}
        /\ stalled \in BOOLEAN
    BY <1>1
  <2> QED
    BY <2>2, <2>3, <2>4, <2>5, Zenon DEF TypeOK
<1>3. ResponsesAnswerMessages /\ EndsCounted
  BY <1>1 DEF ResponsesAnswerMessages, EndsCounted
<1>4. sent \in Sendings /\ Len(sent) = 0 /\ Len(responses) = 0 /\ Len(buffer) = 0
  BY <1>1, <1>2 DEF TypeOK, Sendings
<1>5. Join(buffer, wire) = <<>>
  <2>1. <<>> \in Seq(Symbols)
    OBVIOUS
  <2> QED
    BY <1>1, <2>1, SymbolsJoin
<1>6. ParserInPlace
  <2>1. Place(sent, Len(responses), Join(buffer, wire), state, request)
    BY <1>1, <1>4, <1>5, Zenon DEF Place
  <2> QED
    BY <2>1, PlaceIsParserInPlace
<1>7. HandlerInPlace
  <2>1. Later(0) = <<>>
    <3>1. 0 \in 0..Len(sent)
      BY <1>4
    <3>2. Rest(sent, 0) = <<>>
      BY <1>4, <3>1, RestSteps
    <3> QED
      BY <3>2, LaterIsRest
  <2>2. Input = Later(0)
    BY <1>5, <2>1 DEF Input, Join
  <2>3. ~ IsHttp(buffer)
    BY <1>4 DEF IsHttp
  <2> QED
    BY <1>1, <2>2, <2>3 DEF HandlerInPlace
<1> QED
  BY <1>2, <1>3, <1>6, <1>7 DEF IInv

LEMMA IInvStep == IInv /\ [Next]_vars => IInv'
<1> SUFFICES ASSUME IInv, [Next]_vars PROVE IInv'
  OBVIOUS
<1>1. ASSUME NEW m \in Messages, Send(m) PROVE IInv'
  BY <1>1, SendStep
<1>2. ASSUME NEW n \in 1..Len(wire), Receive(n) PROVE IInv'
  BY <1>2, ReceiveStep
<1>3. CASE Dispatch
  BY <1>3, DispatchStep
<1>4. CASE OnMessage
  BY <1>4, ParseRequestLineStep, ParseHeaderStep, EndHeadersStep, ParseBodyStep,
     NeedMoreStep, AnswerStep DEF OnMessage
<1>5. CASE UNCHANGED vars
  <2>1. /\ sent' = sent /\ wire' = wire /\ arrived' = arrived /\ buffer' = buffer
        /\ handler' = handler /\ state' = state /\ request' = request
        /\ responses' = responses /\ pc' = pc /\ stalled' = stalled
    BY <1>5 DEF vars
  <2>2. TypeOK'
    BY <2>1 DEF IInv, TypeOK
  <2>3. ResponsesAnswerMessages' /\ EndsCounted'
    BY <2>1, LaterIsRest DEF IInv, ResponsesAnswerMessages, EndsCounted
  <2>4. ParserInPlace'
    BY <2>1, PlaceIsParserInPlace, Zenon DEF IInv
  <2>5. HandlerInPlace'
    <3>1. WantsMore' <=> WantsMore
      BY <2>1 DEF WantsMore, HasLine, IsLine
    <3>2. (Input = Later(0))' <=> Input = Later(0)
      BY <2>1, LaterIsRest DEF Input
    <3> QED
      BY <2>1, <3>1, <3>2 DEF IInv, HandlerInPlace, IsRedis, IsHttp
  <2> QED
    BY <2>2, <2>3, <2>4, <2>5 DEF IInv
<1> QED
  BY <1>1, <1>2, <1>3, <1>4, <1>5 DEF Next

-----------------------------------------------------------------------------
(* The inductive invariant holds in every reachable state, for any messages, *)
(* cut into reads anywhere: the variables have their types, and the context *)
(* of HttpContext.cpp is at a place inside the message it reads.            *)
THEOREM Invariance == Spec => []IInv
<1>1. Init => IInv
  BY IInvInit
<1>2. IInv /\ [Next]_vars => IInv'
  BY IInvStep
<1> QED
  BY <1>1, <1>2, PTL DEF Spec

(* Each response is the answer to the client's message of its number, and   *)
(* that message has arrived: HttpHandler::onMessage neither mixes nor skips *)
(* requests, and HttpContext::reset leaves nothing of one to the next.      *)
THEOREM AnswersMatch == Spec => []ResponsesAnswerMessages
<1>1. IInv => ResponsesAnswerMessages
  BY DEF IInv
<1> QED
  BY <1>1, Invariance, PTL

LEMMA RestShrinks ==
    ASSUME NEW s \in Sendings, NEW k \in 0..Len(s), NEW i \in 0..Len(s), k <= i
    PROVE  Len(Rest(s, i)) <= Len(Rest(s, k))
<1> DEFINE Good == {d \in Nat : k + d <= Len(s) => Len(Rest(s, k + d)) <= Len(Rest(s, k))}
<1>1. k \in Nat /\ i \in Nat /\ Len(s) \in Nat /\ i <= Len(s)
  BY EncodingsTyped
<1>2. \A j \in 0..Len(s) : Rest(s, j) \in Seq(Symbols) /\ Len(Rest(s, j)) \in Nat
  BY RestSteps
<1>3. 0 \in Good
  <2>1. k + 0 = k /\ Len(Rest(s, k)) <= Len(Rest(s, k))
    BY <1>1, <1>2
  <2> QED
    BY <2>1
<1>4. ASSUME NEW d \in Nat, d \in Good PROVE d + 1 \in Good
  <2> SUFFICES ASSUME k + (d + 1) <= Len(s)
               PROVE  Len(Rest(s, k + (d + 1))) <= Len(Rest(s, k))
    OBVIOUS
  <2> DEFINE j == k + d
  <2>1. j \in 0..Len(s) /\ j < Len(s) /\ j + 1 \in 1..Len(s) /\ j + 1 \in 0..Len(s)
        /\ k + (d + 1) = j + 1
    BY <1>1
  <2>2. Len(Rest(s, j)) <= Len(Rest(s, k))
    BY <1>4, <2>1
  <2> HIDE DEF j
  <2>3. Rest(s, j) = Join(Encoded(s[j + 1].msg), Rest(s, j + 1))
    BY <2>1, RestSteps
  <2>4. Encoded(s[j + 1].msg) \in Seq(Symbols)
    BY <2>1, EncodingsTyped, EncodedTyped
  <2>5. Len(Rest(s, j)) = Len(Encoded(s[j + 1].msg)) + Len(Rest(s, j + 1))
    <3>1. Rest(s, j + 1) \in Seq(Symbols)
      BY <1>2, <2>1
    <3>2. Len(Join(Encoded(s[j + 1].msg), Rest(s, j + 1)))
            = Len(Encoded(s[j + 1].msg)) + Len(Rest(s, j + 1))
      BY <2>4, <3>1, SymbolsJoinAt
    <3> QED
      BY <2>3, <3>2, Zenon
  <2>6. /\ Len(Encoded(s[j + 1].msg)) \in Nat /\ Len(Rest(s, j + 1)) \in Nat
        /\ Len(Rest(s, k)) \in Nat
    BY <1>2, <2>1, <2>4
  <2>7. Len(Rest(s, j + 1)) <= Len(Rest(s, k))
    BY <2>2, <2>5, <2>6
  <2> QED
    BY <2>1, <2>7
<1> HIDE DEF Good
<1>5. Nat \subseteq Good
  BY <1>3, <1>4, NatInductionBySet
<1>6. i - k \in Nat /\ k + (i - k) = i
  BY <1>1
<1>7. i - k \in Good
  BY <1>5, <1>6
<1> QED
  BY <1>1, <1>6, <1>7 DEF Good

(* A line of which all has been read is found. *)
LEMMA LineIsThere ==
    ASSUME IInv, NEW text \in Seq(Symbols), Unbroken(text),
           NEW more \in Seq(Symbols), NEW rest \in Seq(Symbols), Len(wire) <= Len(rest),
           Join(buffer, wire) = Join(Line(text), Join(more, rest))
    PROVE  HasLine
<1>1. Join(more, rest) \in Seq(Symbols) /\ Len(Join(more, rest)) = Len(more) + Len(rest)
  BY SymbolsJoin, SymbolsJoinAt
<1>2. Line(text) \in Seq(Symbols) /\ Len(Line(text)) = Len(text) + 2
  BY LineFacts
<1>3. Len(Join(Line(text), Join(more, rest))) = Len(Line(text)) + Len(Join(more, rest))
  BY <1>1, <1>2, SymbolsJoinAt
<1>4. Len(buffer) + Len(wire) = (Len(text) + 2) + (Len(more) + Len(rest))
  BY <1>1, <1>2, <1>3, Known
<1>5. Len(buffer) >= Len(text) + 2
  <2>1. /\ Len(buffer) \in Nat /\ Len(wire) \in Nat /\ Len(text) \in Nat
        /\ Len(more) \in Nat /\ Len(rest) \in Nat
    BY Known
  <2> QED
    BY <1>4, <2>1
<1> QED
  BY <1>1, <1>5, Known, NextLine

LEMMA AnsweredWhenIdle == IInv => NothingHeldBack
<1> SUFFICES ASSUME IInv, pc = "idle", ~stalled, StartsAsHttp,
                    NEW i \in DOMAIN sent, sent[i].end <= arrived, ~ (i <= Len(responses))
             PROVE  FALSE
  BY DEF NothingHeldBack
<1> DEFINE n == Len(responses)
           m == sent[n + 1].msg
           rest == Rest(sent, n + 1)
<1>1. i \in 1..Len(sent) /\ n # Len(sent) /\ n \in Nat /\ n + 1 <= i
  <2>1. i \in 1..Len(sent) /\ Len(sent) \in Nat /\ n \in 0..Len(sent)
    BY Known
  <2> QED
    BY <2>1
<1>2. m \in Messages /\ rest \in Seq(Symbols) /\ n + 1 \in 1..Len(sent)
  BY <1>1, CurrentMessage
<1>3. Len(wire) <= Len(rest)
  <2>1. sent[i].end + Len(Rest(sent, i)) = arrived + Len(wire)
    BY LaterIsRest DEF IInv, EndsCounted
  <2>2. sent[i].end \in Nat
    BY <1>1, Known, EncodingsTyped
  <2>3. i \in 0..Len(sent) /\ n + 1 \in 0..Len(sent)
    BY <1>1, <1>2
  <2>4. Len(Rest(sent, i)) <= Len(rest)
    BY <1>1, <2>3, Known, RestShrinks
  <2>5. Rest(sent, i) \in Seq(Symbols)
    BY <2>3, Known, RestSteps
  <2>6. /\ Len(Rest(sent, i)) \in Nat /\ Len(rest) \in Nat /\ Len(wire) \in Nat
        /\ arrived \in Nat
    BY <1>2, <2>5, Known
  <2> QED
    BY <2>1, <2>2, <2>4, <2>6
<1>4. Place(sent, n, Join(buffer, wire), state, request)
  BY PlaceIsParserInPlace DEF IInv
<1> HIDE DEF n, m, rest
<1>5. CASE handler = "http"
  <2>1. WantsMore
    BY <1>5 DEF IInv, HandlerInPlace
  <2>2. CASE state = "RequestLine"
             /\ \E j \in 0..Len(m.before) : Join(buffer, wire) = Join(FromLine(m, j), rest)
    <3>1. ~ HasLine
      BY <2>1, <2>2 DEF WantsMore
    <3>2. PICK j \in 0..Len(m.before) : Join(buffer, wire) = Join(FromLine(m, j), rest)
      BY <2>2
    <3>3. j \in Nat /\ Len(m.before) \in Nat /\ j <= Len(m.before)
      BY <1>2, BeforeLinesTyped
    <3>4. CASE j < Len(m.before)
      <4> DEFINE text == m.before[j + 1]
                 more == FromLine(m, j + 1)
      <4>1. /\ text \in Seq(Symbols) /\ Unbroken(text)
            /\ Join(FromLine(m, j), rest) = Join(Line(text), Join(more, rest))
        BY <1>2, <3>4, NextOfBefore
      <4>2. more \in Seq(Symbols)
        <5>1. j + 1 \in 0..Len(m.before)
          BY <3>3, <3>4
        <5> QED
          BY <1>2, <5>1, FromLineSteps
      <4> HIDE DEF text, more
      <4>3. Join(buffer, wire) = Join(Line(text), Join(more, rest))
        BY <3>2, <4>1, Zenon
      <4> QED
        BY <1>2, <1>3, <3>1, <4>1, <4>2, <4>3, LineIsThere
    <3>5. CASE j = Len(m.before)
      <4> DEFINE text == <<"GET", m.text>>
                 more == FromHeader(m, 0)
      <4>1. Join(FromLine(m, j), rest) = Join(Line(text), Join(more, rest))
        BY <1>2, <3>5, NextOfBefore
      <4>2. text \in Seq(Symbols) /\ Unbroken(text)
        BY <1>2, RequestLineTyped
      <4>3. more \in Seq(Symbols)
        <5>1. 0 \in 0..Len(m.headers)
          BY <1>2, MessageTyped
        <5> QED
          BY <1>2, <5>1, FromHeaderSteps
      <4> HIDE DEF text, more
      <4>4. Join(buffer, wire) = Join(Line(text), Join(more, rest))
        BY <3>2, <4>1, Zenon
      <4> QED
        BY <1>2, <1>3, <3>1, <4>2, <4>3, <4>4, LineIsThere
    <3> QED
      BY <3>3, <3>4, <3>5
  <2>3. CASE state = "Headers"
             /\ \E h \in 0..Len(m.headers) : Join(buffer, wire) = Join(FromHeader(m, h), rest)
    <3>1. ~ HasLine
      BY <2>1, <2>3 DEF WantsMore
    <3>2. PICK h \in 0..Len(m.headers) : Join(buffer, wire) = Join(FromHeader(m, h), rest)
      BY <2>3
    <3>3. h \in Nat /\ Len(m.headers) \in Nat /\ h <= Len(m.headers)
      BY <1>2, MessageTyped
    <3>4. CASE h < Len(m.headers)
      <4> DEFINE text == <<m.headers[h + 1]>>
                 more == FromHeader(m, h + 1)
      <4>1. Join(FromHeader(m, h), rest) = Join(Line(text), Join(more, rest))
        BY <1>2, <3>4, NextOfHeaders
      <4>2. h + 1 \in 1..Len(m.headers) /\ h + 1 \in 0..Len(m.headers)
        BY <3>3, <3>4
      <4>3. text \in Seq(Symbols) /\ Unbroken(text) /\ more \in Seq(Symbols)
        BY <1>2, <4>2, HeaderTyped, FromHeaderSteps
      <4> HIDE DEF text, more
      <4>4. Join(buffer, wire) = Join(Line(text), Join(more, rest))
        BY <3>2, <4>1, Zenon
      <4> QED
        BY <1>2, <1>3, <3>1, <4>3, <4>4, LineIsThere
    <3>5. CASE h = Len(m.headers)
      <4> DEFINE blank == <<>>
                 more == m.body
      <4>1. Join(FromHeader(m, h), rest) = Join(Line(blank), Join(more, rest))
        BY <1>2, <3>5, NextOfHeaders
      <4>2. blank \in Seq(Symbols) /\ Unbroken(blank) /\ more \in Seq(Symbols)
        BY <1>2, BlankTyped, MessageTyped
      <4> HIDE DEF blank, more
      <4>3. Join(buffer, wire) = Join(Line(blank), Join(more, rest))
        BY <3>2, <4>1, Zenon
      <4> QED
        BY <1>2, <1>3, <3>1, <4>2, <4>3, LineIsThere
    <3> QED
      BY <3>3, <3>4, <3>5
  <2>4. CASE state = "Body" /\ request = AllRead(m) /\ request.length \in Nat \ {0}
             /\ Join(buffer, wire) = Join(m.body, rest)
    <3>1. request.length = Len(m.body) /\ m.body \in Seq(Symbols)
      <4>1. request.length = LengthAmong(m, Len(m.headers))
        BY <2>4 DEF AllRead, ReadSoFar
      <4>2. LengthAmong(m, Len(m.headers)) \in {Len(m.body), NoLength}
            /\ m.body \in Seq(Symbols)
        BY <1>2, MessageTyped
      <4>3. NoLength \notin Nat
        BY HttpInputAssumption
      <4> QED
        BY <2>4, <4>1, <4>2, <4>3
    <3>2. Len(buffer) < Len(m.body)
      BY <2>1, <2>4, <3>1 DEF WantsMore
    <3>3. Len(Join(m.body, rest)) = Len(m.body) + Len(rest)
      BY <1>2, <3>1, SymbolsJoinAt
    <3>4. Len(buffer) + Len(wire) = Len(m.body) + Len(rest)
      BY <2>4, <3>3, Known
    <3>5. /\ Len(buffer) \in Nat /\ Len(wire) \in Nat /\ Len(m.body) \in Nat
          /\ Len(rest) \in Nat
      BY <1>2, <3>1, Known
    <3> QED
      BY <1>3, <3>2, <3>4, <3>5
  <2>5. CASE state = "Finish"
    BY <2>1, <2>5 DEF WantsMore
  <2> QED
    BY <1>1, <1>4, <2>2, <2>3, <2>4, <2>5, Zenon DEF Place, n, m, rest
<1>6. CASE handler # "http"
  <2>1. responses = <<>> /\ Join(buffer, wire) = Rest(sent, 0)
    BY <1>6, LaterIsRest DEF IInv, HandlerInPlace, Input, Join
  <2>2. n = 0 /\ n + 1 = 1
    BY <2>1 DEF n
  <2> DEFINE first == Encoded(m)
  <2>3. first \in Seq(Symbols) /\ Len(first) \in Nat /\ IsHttp(first)
    <3>1. IsHttp(first)
      BY <2>2 DEF StartsAsHttp, m
    <3>2. first \in Seq(Symbols)
      BY <1>2, EncodedTyped
    <3> QED
      BY <3>1, <3>2
  <2>4. Rest(sent, 0) = Join(first, rest)
    <3>1. 0 \in 0..Len(sent) /\ 0 < Len(sent)
      BY <1>1, <2>2
    <3>2. Rest(sent, 0) = Join(Encoded(sent[0 + 1].msg), Rest(sent, 0 + 1))
      BY <3>1, Known, RestSteps
    <3>3. 0 + 1 = n + 1
      BY <2>2
    <3> QED
      BY <3>2, <3>3, Zenon DEF m, rest
  <2> HIDE DEF first
  <2>5. Join(buffer, wire) = Join(first, rest)
    BY <2>1, <2>4, Zenon
  <2>6. Len(buffer) >= Len(first)
    <3>1. Len(Join(first, rest)) = Len(first) + Len(rest)
      BY <1>2, <2>3, SymbolsJoinAt
    <3>2. Len(buffer) + Len(wire) = Len(first) + Len(rest)
      BY <2>5, <3>1, Known
    <3>3. Len(buffer) \in Nat /\ Len(wire) \in Nat /\ Len(rest) \in Nat
      BY <1>2, Known
    <3> QED
      BY <1>3, <2>3, <3>2, <3>3
  <2>7. SubSeq(buffer, 1, Len(first)) = first
    BY <1>2, <2>3, <2>5, <2>6, Known, CutFront
  <2>8. /\ Len(first) >= 2 /\ first[1] = "GET" /\ first[2] \in RequestTexts \cup {Junk}
    BY <2>3 DEF IsHttp
  <2>9. buffer[1] = first[1] /\ buffer[2] = first[2]
    <3>1. \A j \in 1..Len(first) : SubSeq(buffer, 1, Len(first))[j] = buffer[j]
      BY <2>3, <2>6, Known
    <3>2. 1 \in 1..Len(first) /\ 2 \in 1..Len(first)
      BY <2>3, <2>8
    <3> QED
      BY <2>7, <3>1, <3>2
  <2>10. IsHttp(buffer)
    <3>1. Len(buffer) >= 2
      BY <2>3, <2>6, <2>8, Known
    <3> QED
      BY <2>8, <2>9, <3>1 DEF IsHttp
  <2>11. handler \in {"none", "redis"}
    BY <1>6 DEF IInv, TypeOK
  <2>12. handler = "redis" => buffer[1] = "*"
    BY DEF IInv, HandlerInPlace, IsRedis
  <2>13. handler = "none" => ~ IsHttp(buffer)
    BY DEF IInv, HandlerInPlace
  <2> QED
    BY <2>8, <2>9, <2>10, <2>11, <2>12, <2>13
<1> QED
  BY <1>5, <1>6

(* A server that waits for input has answered every message it has received *)
(* in full, unless its last read met a line HttpParser rejects: the parser  *)
(* of HttpContext::parseRequest asks for more only when more is needed.     *)
THEOREM AllAnswered == Spec => []NothingHeldBack
BY Invariance, AnsweredWhenIdle, PTL
=============================================================================
