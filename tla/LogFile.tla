------------------------------ MODULE LogFile ------------------------------
(***************************************************************************)
(* logging/LogFile.cpp: a ring of MaxFiles files of which one is written,  *)
(* its index kept in logger.state.  One thread at a time uses the object;  *)
(* what meets here is the program, its next start and the file system.     *)
(* The process may end before any step, and any system call may fail.      *)
(*                                                                         *)
(* A line is what one call of append() is given.  A stream keeps what is   *)
(* written to it until it is flushed or chooses to write; a stream that    *)
(* failed once stays failed, for nothing clears it.  A line is written     *)
(* whole or not at all.                                                    *)
(***************************************************************************)
EXTENDS Naturals, Sequences, SequencesExt

CONSTANTS MaxFiles,     \* options_.maxFiles
          RollSize,     \* options_.rollSize
          Lens,         \* the lengths of lines
          FailCount,    \* failCount_, which Main sets to try the retries out
          Torn,         \* logger.state does not hold a number
          MaxStarts,    \* bound: how often the program is started
          MaxLines,     \* bound: lines appended after each start
          MaxFailures   \* bound: how many system calls fail

(* The buffers of the logger are not longer than a file may get. *)
ASSUME LogFileAssumption ==
    /\ MaxFiles \in Nat \ {0} /\ RollSize \in Nat
    /\ Lens \subseteq 1..RollSize
    /\ {FailCount, MaxStarts, MaxLines, MaxFailures} \subseteq Nat
    /\ Torn \notin Nat

VARIABLES files,        \* on disk: the lines of each file of the ring
          saved,        \* on disk: logger.state, which may not exist: Torn too
          index,        \* currentFileIndex_
          written,      \* writtenBytes_
          open, good,   \* file_: is it open, has nothing failed?
          held,         \* what file_ holds back
          failCount,    \* failCount_
          pc,           \* where the constructor or append() stands
          line,         \* the line that append() was given
          start,        \* how often the program has been started
          appended,     \* history: how many lines this start has appended
          failures      \* how many system calls have failed

disk == <<files, saved>>
stream == <<open, good, held>>
vars == <<files, saved, index, written, open, good, held, failCount, pc, line, start,
          appended, failures>>

Indices == 0..(MaxFiles - 1)
NoLine == [start |-> 0, n |-> 0, len |-> 0]

(* A mutant of After: the ring does not close. *)
AfterLast(i) == i + 1

(* The next file of the ring. *)
After(i) == (i + 1) % MaxFiles

Bytes(lines) == FoldLeft(LAMBDA sum, l : sum + l.len, 0, lines)

Init ==
    /\ files = [i \in Indices |-> <<>>] /\ saved = Torn
    /\ index = 0 /\ written = 0
    /\ open = FALSE /\ good = FALSE /\ held = <<>> /\ failCount = 0
    /\ pc = "down" /\ line = NoLine
    /\ start = 0 /\ appended = 0 /\ failures = 0

Fails == failures < MaxFailures /\ failures' = failures + 1

-----------------------------------------------------------------------------
(* The process ends, by itself or not, and is started again.               *)
Crash ==
    /\ pc # "down"
    /\ pc' = "down"
    /\ index' = 0 /\ written' = 0 /\ line' = NoLine /\ failCount' = 0
    /\ open' = FALSE /\ good' = FALSE /\ held' = <<>>
    /\ UNCHANGED <<disk, start, appended, failures>>

(* The constructor: loadState, with its three ways to fail. *)
Start ==
    /\ pc = "down" /\ start < MaxStarts
    /\ start' = start + 1 /\ appended' = 0 /\ failCount' = FailCount
    /\ index' = IF saved \in Indices THEN After(saved) ELSE After(MaxFiles - 1)
    /\ pc' = "open"
    /\ UNCHANGED <<disk, written, stream, line, failures>>

(* A mutant of OpenFile: the length the file has already is not asked for. *)
OpenFileFresh ==
    /\ pc = "open"
    /\ open' = TRUE /\ good' = TRUE
    /\ written' = 0
    /\ pc' = "saveState"
    /\ UNCHANGED <<disk, index, held, failCount, line, start, appended, failures>>

(* openFile appends to what the file of that index holds. *)
OpenFile ==
    /\ pc = "open"
    /\ open' = TRUE /\ good' = TRUE
    /\ written' = Bytes(files[index])
    /\ pc' = "saveState"
    /\ UNCHANGED <<disk, index, held, failCount, line, start, appended, failures>>

(* An exception ends the program if openFile or saveState fails there. *)
StartFails ==
    /\ pc \in {"open", "saveState"} /\ line = NoLine
    /\ Fails
    /\ pc' = "down"
    /\ index' = 0 /\ written' = 0 /\ failCount' = 0
    /\ open' = FALSE /\ good' = FALSE /\ held' = <<>>
    /\ UNCHANGED <<disk, line, start, appended>>

-----------------------------------------------------------------------------
(* saveState, in the constructor and in rollFile.                          *)

(* The state file is opened and with that emptied. *)
TruncateState ==
    /\ pc = "saveState"
    /\ saved' = Torn
    /\ pc' = "writeState"
    /\ UNCHANGED <<files, index, written, stream, failCount, line, start, appended, failures>>

Saved == IF line = NoLine THEN "idle" ELSE "write"

WriteState ==
    /\ pc = "writeState"
    /\ saved' = index
    /\ pc' = Saved
    /\ UNCHANGED <<files, index, written, stream, failCount, line, start, appended, failures>>

(* The number is written when the stream is destroyed, after good() was     *)
(* asked: saveState does not see it fail.                                   *)
WriteStateFails ==
    /\ pc = "writeState"
    /\ Fails
    /\ pc' = Saved
    /\ UNCHANGED <<disk, index, written, stream, failCount, line, start, appended>>

(* Opening it failed: append() returns false, the next call goes on with    *)
(* the file already rolled.                                                 *)
SaveStateFails ==
    /\ pc = "saveState" /\ line # NoLine
    /\ Fails
    /\ pc' = "idle" /\ line' = NoLine
    /\ UNCHANGED <<disk, index, written, stream, failCount, start, appended>>

-----------------------------------------------------------------------------
(* append().                                                               *)

(* It fails as it has been told to. *)
AppendRefused ==
    /\ pc = "idle" /\ failCount > 0
    /\ failCount' = failCount - 1
    /\ UNCHANGED <<disk, index, written, stream, pc, line, start, appended, failures>>

(* A mutant of MustRoll: a line that just fits does not. *)
MustRollEarly(len) == written > 0 /\ written <= RollSize /\ len >= RollSize - written

(* A file longer than RollSize is not rolled. *)
MustRoll(len) == written > 0 /\ written <= RollSize /\ len > RollSize - written

AppendLine(len) ==
    /\ pc = "idle" /\ failCount = 0 /\ open /\ good
    /\ appended < MaxLines
    /\ line' = [start |-> start, n |-> appended + 1, len |-> len]
    /\ pc' = IF MustRoll(len) THEN "roll" ELSE "write"
    /\ UNCHANGED <<disk, index, written, stream, failCount, start, appended, failures>>

(* The stream takes the line; it may write some of what it holds. *)
Write ==
    /\ pc = "write"
    /\ \E n \in 0..(Len(held) + 1) :
          LET all == Append(held, line) IN
          /\ files' = [files EXCEPT ![index] = @ \o SubSeq(all, 1, n)]
          /\ held' = SubSeq(all, n + 1, Len(all))
    /\ written' = written + line.len
    /\ appended' = appended + 1
    /\ pc' = "idle" /\ line' = NoLine
    /\ UNCHANGED <<saved, index, open, good, failCount, start, failures>>

(* Some of what the stream holds is written, or none, and the line is not.  *)
WriteFails ==
    /\ pc = "write"
    /\ Fails
    /\ \E n \in 0..Len(held) : files' = [files EXCEPT ![index] = @ \o SubSeq(held, 1, n)]
    /\ good' = FALSE /\ held' = <<>>
    /\ pc' = "idle" /\ line' = NoLine
    /\ UNCHANGED <<saved, index, written, open, failCount, start, appended>>

(* flush(), between two calls of append(), and in the destructor. *)
Flush ==
    /\ pc = "idle" /\ open /\ good /\ held # <<>>
    /\ files' = [files EXCEPT ![index] = @ \o held] /\ held' = <<>>
    /\ UNCHANGED <<saved, index, written, open, good, failCount, pc, line, start, appended,
                   failures>>

(* flush() fails, and so does every append() after it; in rollFile, the     *)
(* append() that called it does.                                            *)
FlushFails ==
    /\ pc \in {"idle", "roll"} /\ open /\ good /\ held # <<>>
    /\ Fails
    /\ \E n \in 0..(Len(held) - 1) : files' = [files EXCEPT ![index] = @ \o SubSeq(held, 1, n)]
    /\ good' = FALSE /\ held' = <<>>
    /\ pc' = "idle" /\ line' = NoLine
    /\ UNCHANGED <<saved, index, written, open, failCount, start, appended>>

-----------------------------------------------------------------------------
(* rollFile().                                                             *)

CloseFile ==
    /\ pc = "roll"
    /\ files' = [files EXCEPT ![index] = @ \o held] /\ held' = <<>>
    /\ open' = FALSE
    /\ pc' = "next"
    /\ UNCHANGED <<saved, index, written, good, failCount, line, start, appended, failures>>

(* A mutant of OpenNext: the index runs the other way. *)
OpenNextBackwards ==
    /\ pc = "next"
    /\ index' = (index + MaxFiles - 1) % MaxFiles
    /\ files' = [files EXCEPT ![index'] = <<>>]
    /\ open' = TRUE /\ written' = 0
    /\ pc' = "saveState"
    /\ UNCHANGED <<saved, good, held, failCount, line, start, appended, failures>>

(* The file after this one loses what it had. *)
OpenNext ==
    /\ pc = "next"
    /\ index' = After(index)
    /\ files' = [files EXCEPT ![After(index)] = <<>>]
    /\ open' = TRUE /\ written' = 0
    /\ pc' = "saveState"
    /\ UNCHANGED <<saved, good, held, failCount, line, start, appended, failures>>

(* The index has moved on although no file is open: every append() fails    *)
(* from now on.                                                             *)
OpenNextFails ==
    /\ pc = "next"
    /\ Fails
    /\ index' = After(index)
    /\ good' = FALSE
    /\ pc' = "idle" /\ line' = NoLine
    /\ UNCHANGED <<disk, written, open, held, failCount, start, appended>>

-----------------------------------------------------------------------------
Next ==
    \/ Crash \/ Start \/ OpenFile \/ StartFails
    \/ TruncateState \/ WriteState \/ WriteStateFails \/ SaveStateFails
    \/ AppendRefused \/ Write \/ WriteFails \/ Flush \/ FlushFails
    \/ CloseFile \/ OpenNext \/ OpenNextFails
    \/ \E len \in Lens : AppendLine(len)

Spec == Init /\ [][Next]_vars

-----------------------------------------------------------------------------
(* Properties.                                                             *)

Lines == [start : 1..MaxStarts, n : 1..MaxLines, len : Lens]

(* Every variable has its type. *)
TypeOK ==
    /\ files \in [Indices -> Seq(Lines)] /\ held \in Seq(Lines)
    /\ saved \in Indices \cup {Torn} /\ index \in Indices /\ written \in Nat
    /\ open \in BOOLEAN /\ good \in BOOLEAN
    /\ pc \in {"down", "open", "saveState", "writeState", "idle", "roll", "next", "write"}
    /\ line \in Lines \cup {NoLine}
    /\ failCount \in 0..FailCount /\ start \in 0..MaxStarts
    /\ appended \in 0..MaxLines /\ failures \in 0..MaxFailures

(* No file gets longer than RollSize, whatever earlier starts have left in  *)
(* it and wherever they ended: writtenBytes_ counts that and what the       *)
(* stream still holds.  It is what keeps a file from becoming one of those  *)
(* that are never rolled.                                                   *)
FilesBounded ==
    \A i \in Indices : Bytes(files[i]) + (IF i = index THEN Bytes(held) ELSE 0) <= RollSize

(* All that is kept: the ring from its oldest file to its newest, and what   *)
(* the stream holds.                                                       *)
Kept == FlattenSeq([i \in 1..MaxFiles |-> files[(index + i) % MaxFiles]]) \o held

(* The lines of this start are the newest of all, one after the other with  *)
(* none missing, up to the given one.                                      *)
NewestUpTo(last) ==
    \E old \in 0..Len(Kept) :
        /\ \A k \in 1..old : Kept[k].start # start
        /\ \A k \in (old + 1)..Len(Kept) :
              Kept[k].start = start /\ Kept[k].n + (Len(Kept) - k) = last

(* Rolling only ever drops the oldest lines, and no line is lost between    *)
(* two that are kept; the newest are all there until something fails.       *)
KeepsNewestLines ==
    open => \E last \in 0..appended : NewestUpTo(last) /\ (good => last = appended)

HasOwn(i) == \E k \in 1..Len(files[i]) : files[i][k].start = start
Full(i) == \E len \in Lens : Bytes(files[i]) + len > RollSize

(* A file is only left for the next when no line of any length would have   *)
(* been sure to fit: the ring keeps as much as its files can hold.          *)
RolledFilesAreFull ==
    open => \A i \in Indices \ {index} : HasOwn(i) => Full(i)

-----------------------------------------------------------------------------
(* The inductive invariant.                                                *)

(* Where the program stands, whether a file is open and what it has at      *)
(* hand go together.                                                       *)
StagesAgree ==
    /\ pc \in {"down", "open"} => ~open /\ ~good
    /\ pc \in {"saveState", "writeState", "roll", "write"} => open /\ good
    /\ pc = "next" => ~open /\ good
    /\ held # <<>> => open /\ good /\ pc \in {"idle", "roll", "write"}
    /\ pc \in {"down", "open", "idle"} => line = NoLine
    /\ pc \in {"roll", "next", "write"} => line # NoLine
    /\ line # NoLine => line.start = start /\ line.n = appended + 1
    /\ pc # "down" => start > 0
    /\ pc = "open" => appended = 0

(* writtenBytes_ is what the file will have when the stream is flushed.     *)
Counted == open /\ good => written = Bytes(files[index]) + Bytes(held)

(* A line that is about to be written fits.                                 *)
LineFits ==
    pc \in {"saveState", "writeState", "write"} /\ line # NoLine => written + line.len <= RollSize

(* A line says of which start it is.                                        *)
NothingFromLater ==
    /\ \A i \in Indices : \A k \in 1..Len(files[i]) : files[i][k].start <= start
    /\ \A k \in 1..Len(held) : held[k].start <= start
    /\ pc = "open" => \A i \in Indices : ~HasOwn(i)

(* KeepsNewestLines and RolledFilesAreFull hold while a file is opened, too: *)
(* the ring has not moved then, and the file just left is full.             *)
Opening == pc \in {"open", "next"}
RingInOrder ==
    open \/ Opening =>
        \E last \in 0..appended : NewestUpTo(last) /\ (good => last = appended)
RingIsFull ==
    /\ pc = "roll" => Bytes(files[index]) + Bytes(held) + line.len > RollSize
    /\ open \/ Opening => \A i \in Indices : (i # index \/ pc = "next") /\ HasOwn(i) => Full(i)

IInv ==
    /\ TypeOK /\ FilesBounded
    /\ StagesAgree /\ Counted /\ LineFits /\ NothingFromLater
    /\ RingInOrder /\ RingIsFull
=============================================================================
