----------------------------- MODULE AsyncLogger -----------------------------
(***************************************************************************)
(* logging/AsyncLogger.cpp: threads append lines to a buffer under mutex_; *)
(* a full buffer is queued and replaced; the logging thread takes the      *)
(* queue, writes it to the file and hands the emptied buffers back.  A     *)
(* buffer whose write fails stays at the head and is tried again in the    *)
(* next round.  stop() waits until the thread has nothing left.            *)
(*                                                                         *)
(* A buffer is the sequence of its lines.  Most are Logger's, put together *)
(* by LogStream.tla and always shorter than a buffer; main() appends some  *)
(* directly, and of these some are just as long as one.  LogFile::append   *)
(* writes a whole buffer or fails; MaxFailures bounds how often it fails.  *)
(***************************************************************************)
EXTENDS LogStream

CONSTANTS Numbers,      \* bound: the lines logged; the i-th says Numbers[i]
          TextSizes,    \* how long the text before the number may be
          DirectSizes,  \* how long a line that main() appends may be
          Capacity,     \* characters a buffer holds
          MaxFailures,  \* bound: how many writes fail
          NoBuffer      \* a null BufferPtr

ASSUME AsyncLoggerAssumption ==
    /\ Numbers \in Seq(Ints) /\ MaxFailures \in Nat
    /\ Capacity \in Nat /\ kBufferSize < Capacity
    /\ TextSizes \subseteq Nat /\ DirectSizes \subseteq 1..Capacity

VARIABLES running,      \* running_
          current,      \* currentBuffer_
          next,         \* nextBuffer_
          buffers,      \* buffers_
          spare1, spare2,   \* newBuffer1, newBuffer2 of the thread
          pending,      \* pendingBuffers of the thread
          pc,           \* where the logging thread stands
          caller,       \* where the thread that starts and stops it stands
          failures,     \* how many writes have failed
          accepted,     \* history: the lines append() took
          written       \* history: the lines in the file

vars == <<running, current, next, buffers, spare1, spare2, pending, pc, caller,
          failures, accepted, written>>
spares == <<spare1, spare2>>
queues == <<current, next, buffers, spares, pending>>

Init ==
    /\ running = FALSE
    /\ current = <<>> /\ next = <<>> /\ buffers = <<>>
    /\ spare1 = <<>> /\ spare2 = <<>> /\ pending = <<>>
    /\ pc = "unborn" /\ caller = "start" /\ failures = 0
    /\ accepted = <<>> /\ written = <<>>

(* What may be logged next. *)
Logged(i) ==
    {[no |-> i, room |-> Len(Header) + n + kMaxNumericSize <= kBufferSize,
      text |-> Line(n, Numbers[i])] : n \in TextSizes}
    \cup {[no |-> i, room |-> FALSE, text |-> Text(n)] : n \in DirectSizes}

Lines == UNION {Logged(i) : i \in 1..Len(Numbers)}

Size(buffer) == FoldLeft(LAMBDA n, line : n + Len(line.text), 0, buffer)

-----------------------------------------------------------------------------
(* append(), by any thread, all of it under mutex_.                        *)

Accepting(line) ==
    /\ running /\ Len(accepted) < Len(Numbers)
    /\ line \in Logged(Len(accepted) + 1)
    /\ accepted' = Append(accepted, line)

(* A mutant of Log: the test for room is off by one. *)
LogOverflowing(line) ==
    /\ Accepting(line) /\ Size(current) + Len(line.text) <= Capacity + 1
    /\ current' = Append(current, line)
    /\ UNCHANGED <<running, next, buffers, spares, pending, pc, caller, failures, written>>

(* The line fits the current buffer. *)
Log(line) ==
    /\ Accepting(line) /\ Size(current) + Len(line.text) <= Capacity
    /\ current' = Append(current, line)
    /\ UNCHANGED <<running, next, buffers, spares, pending, pc, caller, failures, written>>

(* It does not: the buffer is queued, nextBuffer_ or a new one takes its    *)
(* place, and the thread is notified.                                      *)
LogRotating(line) ==
    /\ Accepting(line) /\ Size(current) + Len(line.text) > Capacity
    /\ buffers' = Append(buffers, current)
    /\ current' = Append(IF next = NoBuffer THEN <<>> ELSE next, line)
    /\ next' = NoBuffer
    /\ pc' = IF pc = "waiting" THEN "woken" ELSE pc
    /\ UNCHANGED <<running, spares, pending, caller, failures, written>>

-----------------------------------------------------------------------------
(* start() and stop().                                                     *)

Start ==
    /\ caller = "start"
    /\ running' = TRUE /\ pc' = "check" /\ caller' = "running"
    /\ UNCHANGED <<queues, failures, accepted, written>>

(* stop() clears running_ under the mutex ... *)
StopRunning ==
    /\ caller = "running"
    /\ running' = FALSE /\ caller' = "notify"
    /\ UNCHANGED <<queues, pc, failures, accepted, written>>

(* ... and notifies without it: the thread may not be waiting. *)
StopNotify ==
    /\ caller = "notify"
    /\ caller' = "join"
    /\ pc' = IF pc = "waiting" THEN "woken" ELSE pc
    /\ UNCHANGED <<running, queues, failures, accepted, written>>

StopJoin ==
    /\ caller = "join" /\ pc = "exited"
    /\ caller' = "stopped"
    /\ UNCHANGED <<running, queues, pc, failures, accepted, written>>

-----------------------------------------------------------------------------
(* ThreadFunc().                                                           *)

(* Nothing is queued: wait, releasing the mutex. *)
Wait ==
    /\ pc = "check" /\ running /\ buffers = <<>>
    /\ pc' = "waiting"
    /\ UNCHANGED <<running, queues, caller, failures, accepted, written>>

(* flushInterval_ passes, or the wait ends for no reason. *)
WaitTimeout ==
    /\ pc = "waiting"
    /\ pc' = "woken"
    /\ UNCHANGED <<running, queues, caller, failures, accepted, written>>

(* Under the mutex: from the return of the wait, or right from the check    *)
(* when there was something to do.                                         *)
MayCollect == pc = "woken" \/ (pc = "check" /\ ~(running /\ buffers = <<>>))

Queued == IF current = <<>> THEN buffers ELSE Append(buffers, current)

(* currentBuffer_ is queued if it holds anything and replaced by a spare;   *)
(* the queue is taken; nextBuffer_ is refilled.                             *)
TakeBuffers ==
    /\ current' = IF spare1 = NoBuffer THEN <<>> ELSE spare1
    /\ spare1' = NoBuffer
    /\ buffers' = <<>>
    /\ IF next = NoBuffer
       THEN next' = spare2 /\ spare2' = NoBuffer
       ELSE UNCHANGED <<next, spare2>>

Collect ==
    /\ MayCollect
    /\ running \/ Queued # <<>> \/ pending # <<>>
    /\ TakeBuffers
    /\ pending' = pending \o Queued
    /\ pc' = "write"
    /\ UNCHANGED <<running, caller, failures, accepted, written>>

(* A mutant of Exit: buffers whose write failed are given up. *)
ExitWithPending ==
    /\ MayCollect
    /\ ~running /\ Queued = <<>>
    /\ TakeBuffers
    /\ pc' = "exited"
    /\ UNCHANGED <<running, pending, caller, failures, accepted, written>>

Exit ==
    /\ MayCollect
    /\ ~running /\ Queued = <<>> /\ pending = <<>>
    /\ TakeBuffers
    /\ pc' = "exited"
    /\ UNCHANGED <<running, pending, caller, failures, accepted, written>>

(* A mutant of Recycle: the buffer is handed back without reset(). *)
RecycleDirty(buffer) ==
    IF spare1 = NoBuffer THEN spare1' = buffer /\ UNCHANGED spare2
    ELSE IF spare2 = NoBuffer THEN spare2' = buffer /\ UNCHANGED spare1
    ELSE UNCHANGED spares

(* A written buffer is reset and kept as a spare if one is missing. *)
Recycle(buffer) ==
    IF spare1 = NoBuffer THEN spare1' = <<>> /\ UNCHANGED spare2
    ELSE IF spare2 = NoBuffer THEN spare2' = <<>> /\ UNCHANGED spare1
    ELSE UNCHANGED spares

WriteBuffer ==
    /\ pc = "write" /\ pending # <<>>
    /\ written' = written \o Head(pending)
    /\ pending' = Tail(pending)
    /\ Recycle(Head(pending))
    /\ UNCHANGED <<running, current, next, buffers, pc, caller, failures, accepted>>

(* LogFile::append returned false: the buffer stays where it is. *)
FailWrite ==
    /\ pc = "write" /\ pending # <<>> /\ failures < MaxFailures
    /\ failures' = failures + 1
    /\ pc' = "check"
    /\ UNCHANGED <<running, queues, caller, accepted, written>>

EndWrite ==
    /\ pc = "write" /\ pending = <<>>
    /\ pc' = "check"
    /\ UNCHANGED <<running, queues, caller, failures, accepted, written>>

ThreadStep == Wait \/ WaitTimeout \/ Collect \/ Exit \/ WriteBuffer \/ FailWrite \/ EndWrite
StopStep == StopNotify \/ StopJoin

Next == (\E line \in Lines : Log(line) \/ LogRotating(line)) \/ Start \/ StopRunning \/ StopStep \/ ThreadStep

Spec == Init /\ [][Next]_vars

(* The logging thread runs, and its wait has a timeout; stop() goes on once *)
(* it is called.                                                           *)
FairSpec == Spec /\ WF_vars(ThreadStep) /\ WF_vars(StopStep)

-----------------------------------------------------------------------------
(* Properties.                                                             *)

Buffers == {b \in Seq(Lines) : Size(b) <= Capacity}

TypeOK ==
    /\ running \in BOOLEAN
    /\ current \in Buffers /\ {next, spare1, spare2} \subseteq Buffers \cup {NoBuffer}
    /\ buffers \in Seq(Buffers \ {<<>>}) /\ pending \in Seq(Buffers \ {<<>>})
    /\ pc \in {"unborn", "check", "waiting", "woken", "write", "exited"}
    /\ caller \in {"start", "running", "notify", "join", "stopped"}
    /\ failures \in 0..MaxFailures
    /\ accepted \in Seq(Lines) /\ written \in Seq(Lines)

(* Rotation, recycling and retries neither lose, repeat nor reorder a line: *)
(* the file, the buffers waiting to be written, the queue and the current   *)
(* buffer hold, in this order, all that append() took.                      *)
NothingLostOrReordered ==
    accepted = written \o FlattenSeq(pending) \o FlattenSeq(buffers) \o current

(* A buffer at hand is empty: what is put into it starts at its beginning. *)
SparesEmpty == {next, spare1, spare2} \subseteq {<<>>, NoBuffer}

(* Lines are taken only between start() and stop(), and a thread that has   *)
(* ended has left nothing, nor can anything come after it.                  *)
LifeCycle ==
    /\ (caller = "start") = (pc = "unborn")
    /\ (caller = "running") = running
    /\ caller = "stopped" => pc = "exited"
    /\ pc = "exited" =>
          ~running /\ current = <<>> /\ buffers = <<>> /\ pending = <<>>

(* The i-th line taken is one that says the i-th number.                    *)
Numbered ==
    /\ Len(accepted) <= Len(Numbers)
    /\ \A i \in 1..Len(accepted) : accepted[i] \in Logged(i)

(* The inductive invariant: the buffers keep to their size, and their order *)
(* rests on recycled ones being empty and on nothing coming after the end.  *)
IInv == TypeOK /\ NothingLostOrReordered /\ SparesEmpty /\ LifeCycle /\ Numbered

(* Whoever reads the file finds every number that was logged, the smallest  *)
(* value of its type included, at the end of a line of its own, unless the  *)
(* text before it left less room than a number may need.                    *)
FileReadsBack ==
    \A i \in 1..Len(written) : written[i].room =>
        LET t == written[i].text
        IN  /\ Last(t) = "\n"
            /\ ValueOf(SubSeq(t, Max({k \in 1..Len(t) : t[k] = "*"}) + 1, Len(t) - 1)) = Numbers[i]

(* The logger implements a queue of lines: in particular stop() returns     *)
(* only when all is written, although append() races with it and the last   *)
(* writes may fail; and it does return, if writes do not fail for ever,     *)
(* although its notification may come before the thread waits.              *)
LQ == INSTANCE LogQueue WITH stopping <- caller \in {"notify", "join"}, stopped <- caller = "stopped"
ImplementsLogQueue == LQ!Spec
=============================================================================
