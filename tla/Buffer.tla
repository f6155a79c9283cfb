------------------------------- MODULE Buffer -------------------------------
(***************************************************************************)
(* base/src/Buffer.cpp: a vector of bytes with a read and a write index,   *)
(*                                                                         *)
(*      | prepend | read before |  readable  |  writable  |                *)
(*      0                     reader       writer       size               *)
(*                                                                         *)
(* Byte i of the vector is cells[i + 1].  Nothing is ever erased: bytes    *)
(* already read stay in the vector until they are overwritten.             *)
(***************************************************************************)
EXTENDS Integers, Sequences

CONSTANTS Bytes,
          Zero,             \* the byte a new element of the vector holds
          kCheapPrepend,
          InitialSize,
          ShrinkSize,       \* 1024 * 1024 in maybeShrinkBuffer
          LowWater,         \* 4096 in maybeShrinkBuffer
          MaxPiece,         \* bound: bytes put in at once
          MaxReadable       \* bound: bytes the buffer holds

ASSUME BufferAssumption ==
    /\ Zero \in Bytes
    /\ {kCheapPrepend, InitialSize, ShrinkSize, LowWater, MaxPiece, MaxReadable} \subseteq Nat

VARIABLES buf,          \* [cells, reader, writer]: buffer_, readerIndex_, writerIndex_
          call          \* the arguments of the last call

bufferVars == <<buf, call>>

Pieces == UNION {[1..n -> Bytes] : n \in 1..MaxPiece}
Amounts == 0..(MaxReadable + 1)

(* readableBytes, writableBytes, and what peek() points at. *)
Readable(b) == b.writer - b.reader
Writable(b) == Len(b.cells) - b.writer
Contents(b) == SubSeq(b.cells, b.reader + 1, b.writer)

(* std::copy of s to index at, and resize to n elements. *)
CopyTo(cells, at, s) ==
    [i \in 1..Len(cells) |->
        IF at < i /\ i <= at + Len(s) THEN s[i - at] ELSE cells[i]]

Resized(cells, n) == [i \in 1..n |-> IF i <= Len(cells) THEN cells[i] ELSE Zero]

(* The readable bytes moved to the front of the vector. *)
Compacted(b) ==
    [cells |-> CopyTo(b.cells, kCheapPrepend, Contents(b)),
     reader |-> kCheapPrepend, writer |-> kCheapPrepend + Readable(b)]

BufferInit ==
    /\ buf = [cells |-> [i \in 1..(kCheapPrepend + InitialSize) |-> Zero],
              reader |-> kCheapPrepend, writer |-> kCheapPrepend]
    /\ call = [put |-> <<>>, drop |-> 0]

-----------------------------------------------------------------------------
(* resize: room for len more bytes behind the readable ones. *)
Grown(b, len) ==
    [cells |-> Resized(b.cells, b.writer + len), reader |-> b.reader, writer |-> b.writer]

(* A mutant of MakeSpace: the space in front of reader is never used. *)
MakeSpaceGrowing(b, len) == Grown(b, len)

(* makeSpace: the space already read is used before the vector grows. *)
MakeSpace(b, len) ==
    IF Writable(b) + b.reader - kCheapPrepend >= len
    THEN Compacted(b)
    ELSE Grown(b, len)

EnsureWritable(b, len) == IF Writable(b) >= len THEN b ELSE MakeSpace(b, len)

(* The bytes of s behind the readable ones, where there is room for them. *)
Written(b, s) ==
    [cells |-> CopyTo(b.cells, b.writer, s), reader |-> b.reader,
     writer |-> b.writer + Len(s)]

AppendTo(b, s) == Written(EnsureWritable(b, Len(s)), s)

(* A mutant of RetrieveFrom: nothing keeps reader from passing writer. *)
RetrieveFromUnchecked(b, n) ==
    [cells |-> b.cells, reader |-> b.reader + n, writer |-> b.writer]

(* retrieve, and retrieveAll when it takes everything. *)
RetrieveFrom(b, n) ==
    IF n < Readable(b)
    THEN [cells |-> b.cells, reader |-> b.reader + n, writer |-> b.writer]
    ELSE [cells |-> b.cells, reader |-> kCheapPrepend, writer |-> kCheapPrepend]

(* A mutant of Scatter: the bytes that did not fit are appended, but        *)
(* writerIndex_ is not moved past those that did.                           *)
ScatterForgetful(b, s) ==
    IF Len(s) <= Writable(b)
    THEN Written(b, s)
    ELSE AppendTo(b, SubSeq(s, Writable(b) + 1, Len(s)))

(* readFd: readv fills the vector and puts the rest into extrabuf, which is *)
(* then appended.                                                           *)
Scatter(b, s) ==
    IF Len(s) <= Writable(b)
    THEN Written(b, s)
    ELSE AppendTo(Written(b, SubSeq(s, 1, Writable(b))),
                  SubSeq(s, Writable(b) + 1, Len(s)))

Shrunk(b) ==
    [cells |-> CopyTo([i \in 1..(kCheapPrepend + Readable(b)) |-> Zero],
                      kCheapPrepend, Contents(b)),
     reader |-> kCheapPrepend, writer |-> kCheapPrepend + Readable(b)]

-----------------------------------------------------------------------------
HasRoomFor(s) == Readable(buf) + Len(s) <= MaxReadable

AppendBytes(s) ==
    /\ HasRoomFor(s)
    /\ buf' = AppendTo(buf, s)
    /\ call' = [put |-> s, drop |-> 0]

ReadFd(s) ==
    /\ HasRoomFor(s)
    /\ buf' = Scatter(buf, s)
    /\ call' = [put |-> s, drop |-> 0]

Retrieve(n) ==
    /\ buf' = RetrieveFrom(buf, n)
    /\ call' = [put |-> <<>>, drop |-> n]

(* TcpConnection::maybeShrinkBuffer *)
MaybeShrink ==
    /\ Len(buf.cells) > ShrinkSize
    /\ Readable(buf) < LowWater
    /\ buf' = Shrunk(buf)
    /\ UNCHANGED call

BufferNext ==
    \/ \E s \in Pieces : AppendBytes(s) \/ ReadFd(s)
    \/ \E n \in Amounts : Retrieve(n)
    \/ MaybeShrink

BufferSpec == BufferInit /\ [][BufferNext]_bufferVars

-----------------------------------------------------------------------------
(* Properties.                                                             *)

(* The indices are in order and inside the vector, so that neither the      *)
(* unsigned differences of readableBytes, writableBytes and makeSpace wrap  *)
(* nor a copy leaves the vector.                                            *)
WellFormed(b) ==
    /\ b \in [cells : Seq(Bytes), reader : Nat, writer : Nat]
    /\ kCheapPrepend <= b.reader
    /\ b.reader <= b.writer
    /\ b.writer <= Len(b.cells)

IndicesInBounds == WellFormed(buf)

(* The buffer is a queue of bytes: growing, moving to the front, reading in *)
(* two pieces and shrinking change nothing its users can see; what a call   *)
(* puts in is there, and what it takes out is gone.                         *)
BQ == INSTANCE ByteQueue WITH content <- Contents(buf)
ImplementsByteQueue == BQ!Spec

(* The vector only grows when the space in front could not take what is put *)
(* in: what it wastes then is less than what was put in.  Traffic that is   *)
(* read as it comes therefore cannot make it grow for ever.                 *)
GrowsOnlyWhenFull ==
    [][Len(buf'.cells) > Len(buf.cells) =>
          Len(buf'.cells) < kCheapPrepend + 2 * Readable(buf') - Readable(buf)]_buf
=============================================================================
