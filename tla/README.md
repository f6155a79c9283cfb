# A TLA+ model of the web server

This directory holds the formal model of the server: TLA+ modules for its event loop,
the threads that run it, its connections, timers, buffers, HTTP input and logger, and
for the pool of workers that puts them together, the TLC configurations that check them
on small instances, and proofs, checked by TLAPS, of what matters most for instances of
any size. `PROJECT.json` is the index: which definition models which lines, what each
run checks, which mutation of the model each property detects, the findings and the list
of hazards.

    tlc -workers 2 -config WorkerPool.cfg MCWorkerPool     # one run
    tlapm WorkerPool_proofs.tla                            # one module of proofs

## 1. The system

A main thread accepts connections and deals them to workers, round robin. Each
worker has one thread, which runs one `EventLoop` (epoll) and owns the
connections it was dealt. Log lines from every thread go to one logging thread.

| part | source | state | operations | talks to |
|---|---|---|---|---|
| Event loop | `net/src/EventLoop.cpp`, `net/src/Epoll.cpp` | `pendingFunctors_` under `mutex_`, the eventfd, `quit_`, `timers_` | `loop`, `runInLoop`, `queueInLoop`, `wakeup`, `handleRead`, `doPendingFunctors`, `quit`, `addTimer`, `getTimeout` | other threads (queue and eventfd), channels and timers (callbacks) |
| Loop thread | `net/src/EventLoopThread.cpp`, `base/src/Thread.cpp`, `Condition.cpp`, `server/src/Worker.cpp` | `loop_` under `mutex_`, the thread | `startLoop`, `threadFunc`, `addConnection`, `shutdown`, `join`, destructor | its owner's thread, by pointer and condition variable |
| Connection | `net/src/TcpConnection.cpp`, `Channel.cpp` | `state_`, `closeReason_`, two buffers, `events_`, `revents_`, `closed_` | `handleEvents`, `handleRead`, `handleWrite`, `handleClose`, `handleError`, `startDisconnect`, `forceClose`, `shutdown`, `connectEstablished` | epoll, its timers, its protocol handler |
| Connection timers | `net/src/ConnectionTimerManager.cpp`, `base/src/Timer.cpp` | a heap of timers per loop, two current timers per connection | create, refresh, cancel, `getNextExpire`, `handleExpired` | the loop's timeout, `forceClose` |
| Byte buffer | `base/src/Buffer.cpp` | a vector and two indices | `append`, `readFd`, `retrieve`, `shrink` | connection, parser |
| Dispatcher and HTTP | `protocol/` | per connection: the chosen handler, `HttpContext` (parser state and request) | `getHandler`, `onMessage`, `parseRequest`, `reset` | the connection's buffers and `startDisconnect` |
| Logger | `logging/AsyncLogger.cpp` | two buffers, a queue, `running_` under `mutex_`; spare buffers and a batch of the thread | `append`, `start`, `stop`, `ThreadFunc` | all threads, `LogFile` |
| Log files | `logging/LogFile.cpp` | the open file, the ring index, `logger.state` on disk | `append`, `roll`, `loadState`, `saveState` | the file system |
| Acceptor, pool, server | `net/src/Acceptor.cpp`, `server/` | the listening socket, the workers, the next one, each worker's `connections_` | accept, `dispatch`, `start`, `shutdown`, destructor | workers, by their loops' queues |
| HTTP handler, shared | `protocol/http/src/HttpHandler.cpp` | `contexts_`: one map for all workers, keyed by the address of a connection | `onMessage`, `onClose` | every worker's thread, with no lock |
| Log lines | `base/src/Logger.cpp`, `LogStream.cpp` | one buffer of fixed size per line | header, text, numbers, newline | the logger |
| Utilities, stubs | `Socket.cpp`, `Util.cpp`, `BlockingQueue.h`, Redis and Echo handlers | | system calls | |

What is hard here, and what each part must get right:

* **Threads meet in `queueInLoop`.** The push is under the mutex, the eventfd is
  written after it is released, and the loop drains the eventfd before it takes
  the queue. No functor may be lost, repeated or overtaken, and the loop may not
  sleep on a queued one. `quit()` is itself a functor.
* **The loop lives on the stack of another thread.** `startLoop` must not miss
  the notification; the pointer may not survive the loop; `join` must return.
* **Callbacks that change what is being iterated.** A handler, a timer or an
  error closes a connection while it, or a neighbour in the same batch, is being
  handled. Its registration, timers, buffers and lifetime must stay consistent
  whatever the peer does and in whatever order events come.
* **Partial writes and pipelining.** `EPOLLOUT` must be asked for exactly while
  there is output; responses may not be lost or reordered.
* **Time.** Timers are cancelled by flag and stay in a heap; the timeout given to
  epoll is cut to milliseconds. No connection may be closed early, late or never.
* **Bytes cut anywhere.** A request may end in the middle of CR LF; state kept
  from one request must not reach the next.
* **Indices.** `Buffer` computes with unsigned differences and moves bytes inside
  its vector.
* **Names that are used again.** A descriptor is the key of a worker's table and an
  address the key of `contexts_`; both come back as soon as a connection is gone,
  perhaps in another worker. An entry must leave with its owner.
* **Shutting down while connections come in.** What was dealt to a worker must get
  into its hands before its loop ends, every worker must be asked to quit, and the
  pool may not be destroyed under a running thread.
* **Hand-over of log buffers**, with writes that fail and are tried again, and a
  `stop()` that must wait for all of it.

Section `hazards` of `PROJECT.json` has these one by one, at their lines.

## 2. Modules

| module | models | proofs |
|---|---|---|
| `TaskQueue` | abstract: what `runInLoop`, `queueInLoop` and `quit` promise | |
| `EventLoop` | the functor queue, the eventfd and `loop()`; implements `TaskQueue` | `EventLoopThread_proofs` |
| `EventLoopThread` | extends `EventLoop` with its thread, its owner and the condition variable; implements `TaskQueue`, liveness included | `EventLoopThread_proofs` |
| `WorkerPool` | the whole server: main thread, pool, workers' tables, descriptors, addresses, `contexts_` | `WorkerPool_proofs` |
| `WorkerLoop` | one worker: `loop()`, channels, connections, HTTP handler, kernel, peers | `WorkerLoop_proofs` |
| `ConnectionTimers` | the timer heap, current timers and `loop()`'s timeout against a clock | `ConnectionTimers_proofs` |
| `ByteQueue` | abstract: what a `Buffer` is to its users | |
| `Buffer` | the vector and its indices; implements `ByteQueue` | `Input_proofs` |
| `HttpInput` | bytes, reads, dispatcher, `HttpContext`'s parser, `onMessage` | `Input_proofs` |
| `LogQueue` | abstract: what the logger promises | |
| `LogStream` | operators: a line put together in `FixedBuffer`, the conversion of integers | `AsyncLogger_proofs` |
| `AsyncLogger` | extends `LogStream` with `append`, `stop` and the logging thread; implements `LogQueue` | `AsyncLogger_proofs` |
| `LogFile` | the ring of log files and `logger.state`, with failures, crashes and restarts | `LogFile_proofs` |
| `FoldLemmas` | what sums and concatenations of sequences of any length are, by induction | itself |

The levels meet as follows. `EventLoopThread` is checked and proved to implement
`TaskQueue`, so `WorkerPool` has a worker's loop as a sequence of functors, each run
in one step, and takes the fairness of running them from `TaskQueue`'s. What
`WorkerPool` shows as the time a handler takes is `WorkerLoop`'s one worker; what is
one token there is bytes in `HttpInput`; its timers, which only become due, have a
clock in `ConnectionTimers`.

`MC...` modules give the constants of a run their values. The definitions whose
comment says "A mutant of ..." are what a plausible bug would make of the
definition that follows; no specification uses them. Substituted for the
original they make the property named in `PROJECT.json` fail.

**EventLoop.** `pending` is `pendingFunctors_`, `functors` what is left of the
local vector of `doPendingFunctors`, `wakeups` the eventfd's counter, `posting[p]`
the functor that thread `p` has pushed and not yet signalled: `queueInLoop` is
two steps, `PushFunctor` (the critical section) and `Wakeup` (the write). The
loop thread goes `check` (`while(!quit_)`), `poll`, `wake`, `swap`, `run` and
back. A functor is a fresh closure and is posted once. `PollOther` is every
return of `epoll_wait` that the eventfd did not cause. `posted` and `executed`
are histories. Of a functor only its place in the queue and whether it is the
quit functor matter; functors that queue functors (on the loop's own thread
`runInLoop` runs them at once, and nothing in the program calls `queueInLoop`
there) are left out.

**EventLoopThread.** `own` is where the owner stands in `startLoop`, `shutdown`,
`join` or the destructor, `th` where the thread stands in `threadFunc`. The loop
exists from `Construct` to `Destroy`. The condition variable wakes spuriously,
and a notification that nobody waits for is lost. `Signal` writes to the eventfd
of a loop that may be gone.

**WorkerPool.** `main` is where `main()` stands: it starts the workers one by one,
makes the Acceptor (`Listen`; when it fails the server is `deaf`), runs the main
loop, and, when that returns, asks all workers to quit, joins them one after another
and destroys them. `turn` is the position of those loops over `workers_`, `next_`
the round robin. Per worker there is its thread, its queue of functors (the numbers
of connections, and `Quit`), where its thread stands in a handler and with which
connection, and `connections_`. `accept()` returns any descriptor that is not open,
`make_shared` any address at which no connection lives. A handler is taken apart
where other threads can notice: entering `contexts_`, the rest of `onMessage`, and in
`handleClose` the erase from `contexts_`, the erase from `connections_` and the
destruction. `contexts_` maps an address to the connection that made the context,
which is a ghost: the code has only the address. Two threads in `contexts_` at once
are undefined behaviour, since it has no lock: `Race` then leads to
`main = "undefined"`, where the model ends. A pool destroyed with connections still
open fails the assertion of `~TcpConnection` and ends in `aborted`. Nothing in the
program calls `quit()` on the main loop; `LoopEnds` lets somebody do it.

**WorkerLoop.** One step per stage of `loop()` and of `handleEvents`: `poll`,
`dispatch` (the next active channel, in any order), `events`, `message`,
`afterRead`, `write`, `after`, `timers`, `functors`. Between any two of them the
peers send, read, close their side or reset, and timers become due. A request is
one token; a response is its number. Descriptors are accepted once (`WorkerPool` has
their reuse). `enableWriting`, `disableWriting`, `disableAll` and epoll's `add`, `modify`
and `remove` are operators of those names. The accepted sockets are blocking, as the code
leaves them: in `send()` the loop has no step until the peer makes room. After a
handler destroyed its own channel, `handleEvents` and `loop()` read it all the
same; what that does is undefined, and the model lets it be harmless or end the
process (`UseDestroyed`), and likewise for the timer of a destroyed connection
(`RunOrphanTimer`). After `crashed` nothing happens.

**ConnectionTimers.** A clock with ticks; `Ms` ticks are a millisecond, `Slack`
is the most time `loop()` takes per iteration outside its computed sleep. The
heap is a set; `getNextExpire` and `handleExpired` see its earliest element, any
of several equal ones. A cancelled timer stays until it is on top. The callback
of a timer whose connection is gone does nothing here (it is `WorkerLoop`'s
`RunOrphanTimer`).

**Buffer.** `cells`, `reader`, `writer` are the members; `AppendBytes`, `ReadFd`
(one or two pieces, as `readv` scatters them), `Retrieve` and `MaybeShrink` are the
calls. `retrieveAll` is a `Retrieve` of everything. `call` records the arguments
for the refinement.

**HttpInput.** The input is a sequence of symbols cut into reads anywhere; "CR"
and "LF" are separate symbols, and so are the two parts of the bytes the
dispatcher looks at. Each action is one parser step with all its early returns.
`Content-Length` counts symbols. POST is not told from GET, as the handler does not
either beyond the body. `stoi` throwing for a length that is no number ends in the
state `terminated`.

**LogStream.** A line is a sequence of characters, of which only digits, the sign and
the newline have an identity; a text is so many `*`. `Appended` is
`FixedBuffer::append`, which drops what does not fit; `Convert` takes digits from the
remainder that C's division leaves, negative for negative values, through the table
with zero in its middle. `Line` is a line of the log from its header to its newline.

**AsyncLogger.** `current`, `next`, `buffers` are the members, `spare1`, `spare2`,
`pending` the thread's locals. `append` is one step (it holds `mutex_`
throughout), `Collect` is the critical section of the thread, and each write of a
buffer is a step that succeeds (`WriteBuffer`) or fails (`FailWrite`) and leaves
the buffer at the head of `pending`. A buffer is the sequence of its lines, and its
size the sum of their lengths. A logged line is one that `LogStream` makes of a text
and a number, or one that `main()` appends without it. `room` records whether the
text left the room for its number that `formatInteger` asks for.

**LogFile.** `files` and `saved` are on disk and survive `Crash`; the rest is the
object and its stream. Each system call of the constructor, `append`, `rollFile` and
`saveState` is a step, may fail, and may be the last before a crash. `held` is what
the stream has taken and not yet written. `saveState` truncates the state file and
writes it when its stream is destroyed, so that it never sees that write fail. A
failed write leaves the stream's state bad for good, as in the code; only the
failures injected through `failCount_` (`Main` injects two) pass.

## 3. Runs

| run | instance | shows | states |
|---|---|---|---|
| `EventLoopThread` | 1 owner, 1 other thread, 3 functors and quit | no lost wakeup; quit drains; loop pointer and loop agree; a joined loop has run everything; the inductive invariant; `startLoop`, `join` and the destructor return; implements `TaskQueue` with its fairness | 50 thousand |
| `WorkerPool` | 2 workers, 3 connections over 2 descriptors and 2 addresses | every descriptor has one owner and one table entry; contexts go with their connections; every accepted connection is made; the shutdown returns | 87 thousand |
| `WorkerLoop_safety` | 2 connections, 2 requests each, send buffer of 1 | registrations, write interest, order of responses, lifetimes; what each step may leave of a closed connection's timers; the inductive invariant | 2.7 million (symmetry) |
| `WorkerLoop_live` | 1 connection, 3 tokens of all four kinds | if peers read, every connection is closed in the end; no complete request is forgotten | 41 thousand |
| `WorkerLoop_stall` | 1 connection, peers owe nothing | the same property fails: finding | |
| `WorkerLoop_closeafterwrite`, `_deadchannel` | 1 connection | findings | |
| `ConnectionTimers` | 2 connections, 4 timers, 9 ticks | closed neither early nor late; one current timer each; the heap forgets; the right sleep; the inductive invariant | 3.7 million (symmetry) |
| `Buffer` | 3 byte values, 4 readable bytes, pieces of up to 3 | indices in bounds; a byte queue; grows only when full | 69 thousand |
| `HttpInput` | 8 kinds of message, 3 of them | responses answer their messages; nothing held back; the inductive invariant | 204 thousand |
| `AsyncLogger` | 4 lines of up to 17 characters, or of 20, in buffers of 20; numbers of 8 bits; 2 failures | nothing lost or reordered; the file reads back; the inductive invariant; implements `LogQueue` with its fairness | 327 thousand |
| `LogFile` | 3 files of 3 bytes, lines of 1 or 2, 2 starts of 6 lines, 1 failure | files bounded; rolling drops the oldest lines of a start and none in between; rolled files are full; the inductive invariant | 158 thousand |

Deadlock is not checked where the system really stops: a loop that has returned, a
destroyed thread, peers that have nothing more to send, a crashed process, a
bound that is reached. `ConnectionTimers` checks it: `loop()` always has a step.

**Why the bounds are enough.** `EventLoopThread`: the hazards need one functor in each
of the places a functor can be (pushed and not signalled, queued, in the batch) and
another thread signalling meanwhile; three and quit from two threads give all of
them, and the proofs cover any number. `WorkerPool`: three connections over two
descriptors, two addresses and two workers make a descriptor and an address come
back in the same and in the other worker, while the old owner is anywhere in its
handlers, and wrap the round robin; the proofs cover any number. `WorkerLoop_safety`: two connections give
one being handled while the other waits in the batch or has a timer due; two
requests and room for one unit give partial writes, pipelining and a close behind
unsent output; the proofs cover any number of them. Partial and rejected input (`part`, `bad`) do not interact across
connections and are in `WorkerLoop_live`, with one connection and three tokens.
`ConnectionTimers`: idle time 3, close time 4 and 2 ticks per millisecond give all
orders of the two timers, rounding, and a refresh of a refreshed timer within the
four timers of the bound; every deadline including slack falls within the nine
ticks for a connection made at the start; the proofs cover any times and numbers. `Buffer`: the vector of the instance can
be full at the front, at the back, grown, compacted with overlap and shrunk; the
proofs cover any size. `HttpInput`: three messages put a body, a rejected line and
a request on each side of every cut; the proofs cover any number, any texts and any
bodies. `AsyncLogger`: a buffer holds one line or two, so that
four lines rotate while a batch is being written and all of the spare buffers and
the null `nextBuffer_` occur; lines fit exactly, by one too little and fill a buffer
alone; a text of 11 leaves too little room for a number, and the numbers include the
smallest and the largest of the type; the proofs cover lines, buffers and integers of any size. `LogFile`: six lines go round a ring of three files and
four come from a second start, with a crash or failure at any call; the proofs cover any
number of files, starts and failures.

**Fairness.** Only threads that can continue are assumed to: weak fairness of the
loop's steps, of the write a thread makes after its push, of the logging thread
(whose wait has a timeout), of a `stop()` already called, and of the owner's calls
already begun. `WorkerPool` has strong fairness of running a queued functor, because
a round of `loop()` comes to its functors however much input there is: that is the
fairness of `TaskQueue`, which `EventLoopThread` implements from weak fairness of the
loop's steps alone. A handler in `WorkerPool` ends, which assumes that peers read: `ShutdownReturns` and
`EveryAcceptServed` hold as far as that does, and a worker blocked in `send()` holds up
the join of the pool.
`Expire` is fair: time passes. Nothing is assumed of `PollOther` (no event but the eventfd ends
`epoll_wait`), of callers (nobody has to queue, start or stop anything) or of
spurious wakeups. That a peer reads what it is sent is assumed only in
`ReadingSpec`, the specification of `WorkerLoop_live`, and `WorkerLoop_stall` shows
that without it the property fails. `AsyncLogger` assumes that writes do not fail
for ever (`MaxFailures`): true of the failures `Main` injects, not of real ones, which
`LogFile` never gets over.

## 4. What is proved

All proofs hold for every value of the constants, from the assumptions named in
the modules (`EventLoopAssumption`: quit is a functor and `NoTask` is none;
`BufferAssumption`: sizes are naturals and `Zero` is a byte; `OwnerAssumption`: the
owner is one of the threads; `WorkerPoolAssumption`: at least one worker, and `Quit`
and `None` are neither connections nor each other's values;
`ConnectionTimersAssumption`: times and bounds are naturals and a millisecond has at
least one tick; `WorkerLoopAssumption`: the tokens are among the four kinds, the send
buffer holds at least one unit, and `NoConn` is no connection;
`LogStreamAssumption`: the integers of a type are closed under the division by ten,
and no number needs as much room as `kMaxNumericSize`; `AsyncLoggerAssumption`: what is
logged are such integers, and a line, be it `LogStream`'s or `main()`'s, is not longer
than a buffer of the logger; `LogFileAssumption`: there is a file, no line is longer
than `rollSize`, and a torn `logger.state` holds no number; `HttpInputAssumption`: the
texts are not "CR" or "LF", the headers of a length are none of `Connection`, and what
`stoi` throws for is no number; of the messages, that a line the server is to reject is one
line and no request line, that the lines before a request have at most two words (the
parser takes any three for a request line, `HttpInput` those of its own messages), and
that a body is as long as the last `Content-Length` says, if that is a number). The last of these is about the client: with a body of another length the
server's notion of where the next message begins is another than the client's, and no
parser could do better. Lines that are rejected, headers that are none, repeated and
contradicting headers, and lengths that are no numbers are all among the messages.

**`EventLoopThread_proofs`, the loop alone.** The safety properties are not inductive: that a loop about
to sleep has a wakeup pending (`NoLostWakeup`) needs to be known at every other
point of the loop, but between draining the eventfd and taking the queue it is
false. The invariant

    IInv == TypeOK /\ ExactlyOnceInOrder /\ PostedOnce /\ WakeupPending /\ StopsForQuit

states it everywhere else (`WakeupPending`), and adds that the quit functor has
one place in the history (`PostedOnce`) and that the loop stops only for a quit
functor that has run, with no batch half done (`StopsForQuit`). There is a lemma
for each action that disturbs a conjunct; `NextInv` collects them. `TypeCorrect`,
`NothingLostOrReordered`, `WakeupNeverLost` and `QuitDrainsTheQueue` follow, and
`RefinesTaskQueue` shows that every step is a step of `TaskQueue` or a stutter.

**`EventLoopThread_proofs`, the loop in its thread.** A step of the composition is a step of the loop or its
posters, or leaves the loop alone, with one exception: a signal that comes when the
loop does not exist takes back the promise `WakeupPending` may rest on. It is
harmless only because the loop has then returned, or was never used, which takes an
invariant of the owner and the thread together:

    ThreadIInv == IInv /\ ThreadsAgree

`ThreadsAgree` says when `loop_` is set, that the loop is untouched before it exists
and has returned before it is destroyed, and that only an owner that waits for the
thread, or has waited, has queued quit. The last makes `StartedLoopLives` inductive:
the loop returns only for a quit functor that has run (`StopsForQuit`), that was
queued (`ExecutedWasPosted`), hence by an owner no longer using it. The lemmas on the
loop alone do the rest: `NextInv` for every other step,
`IInvDrains` for `JoinedLoopDrained`, `NextImplementsNext` for the refinement.

**`WorkerPool_proofs`.** `Inv` is inductive as it stands: each of its conjuncts needs
the others. That two connections never share a descriptor (`NothingShared`) keeps a
table's entries apart (`TableHoldsTheLiving`); that a connection is in one queue once
(`QueuedOnce`) keeps one from being made twice; that a handler works on a connection of
its own worker (`HandledByItsWorker`) keeps the erase of one from taking another's
entry; and that quit is the last functor of a queue (`LoopsInUseLive`) keeps a loop
from ending with connections queued. `ContextsOfTheLiving` is inductive relative to
`Inv`. There is one lemma per action and disturbed conjunct.

**`Input_proofs`, the buffer.** `WellFormed` (0 <= prepend <= reader <= writer <= size) is
inductive. Each operation has a lemma: from a well-formed buffer it makes one
whose contents are what the operation promises. The lemmas work on bytes by index
(`ContentsByIndex`, `SameContents`), since compaction copies a range over itself.
`StepsKeep` puts them together: a step keeps `WellFormed`, is a step of `ByteQueue`
or a stutter, and lets the vector grow only when the space in front would not do.

**`Input_proofs`, the parser.** That responses answer messages says nothing of a request
half read, so the invariant says where in which message the parser is:

    IInv == /\ TypeOK /\ ResponsesAnswerMessages
            /\ ParserInPlace /\ HandlerInPlace /\ EndsCounted

`ParserInPlace`: what is in the buffer and on the wire together is the rest of the first
message not answered, from the parser's line on, and the messages after it; and the
context holds what the lines before have said, the last header of a kind winning
(`ReadSoFar`). It does not mention where the reads cut the bytes, which is why `Receive`
keeps it, and `Send` adds a message at the end. Each parser step cuts one line, or the
body, off the front: `NextLine` proves that the first end of line in a buffer holding a
beginning of the client's bytes is the end of the client's line, and no byte of it was
taken before it was all there, also when a read ends between CR and LF. `ReadSteps` says
what one header more changes, `AnswerIsMeant` that a request read to the end is answered as the
client meant. `HandlerInPlace` is for the time before the handler is known: the
dispatcher may be asked many times, and nothing is consumed meanwhile. `EndsCounted` ties the bytes
counted to the bytes left. `AllAnswered` needs one step more: if an idle server had all
of a message, the next line or the body would be in the buffer (`LineIsThere`), and then
`NeedMore` could not have let it stop. The concatenations are `FoldLemmas`'.

**`ConnectionTimers_proofs`.** What bounds the time of a connection is spread over the
whole of `loop()`, so the invariant follows it round:

    IInv == TypeOK /\ CurrentTimers /\ TimersOwned /\ OnSchedule

`CurrentTimers` is inductive only with `TimersOwned`: that ids are given once, that a
slot names no timer of another connection, and that a connection not being closed has
no close timer that could still fire. `OnSchedule` says how late a timer may be in
each place of the loop. `handleExpired` leaves no timer that was due when it read the
clock (`NothingDue`, by a least element, as the times are well-founded); from then on
each is late by no more than the loop has spent since, and asleep it spends nothing
before the next timer's time, since `getTimeout` rounds down. `OneConnection` reduces
a step to the connection it is about; `CreateInvariance` and `CloseInvariance` do the
steps that make a timer and those that close. `AlwaysClosedInTime`,
`HeapAlwaysForgets` and `AlwaysSleepsForNextTimer` follow from the invariant and
`NeverEarly` from `OnlyDueTimersClose`, for any number of connections, any idle and
close times, any slack, and any length of the millisecond. The bounds `MaxTime` and
`MaxTimers` may be any naturals.

**`WorkerLoop_proofs`.** While a handler runs, `events_` and epoll's interest set differ,
the output buffer is empty with EPOLLOUT enabled, a closed connection still exists and
input waits: none of the properties is inductive, because none says what holds then.

    IInv == TypeOK /\ BatchExists /\ \A c \in Conns : ConnectionInv(c)

`ConnectionInv` states, for one connection and each place of the loop, how far object
and state (`Lifetime`), timers (`TimersFollow`), interest set and output
(`InterestFollows`), input and counters (`InputRead`) and the order of responses
(`InOrder`) may be apart; `BatchExists` is about the whole: no handler destroys a
channel of the batch, since it touches only its own, which has left the batch.
`HandlerStep` and `OtherStep` reduce a step to the connection it is about, and the
`...Facts` lemmas say what each operation makes of its record; `CloseStep`,
`AnswerStep`, `EndStep` and `SocketStep` do the steps that share a shape. `InOrder`
rests on `MoveInThree` (moving a unit from one buffer to the next leaves their
concatenation as it is) and `NextNumber`. The properties follow from `IInv`, those of
`WorkerLoop_safety` and `NoRequestForgotten` of `WorkerLoop_live`. What a step may leave
of a connection's timers (`TimersDieWithConnection`) is about two states, so it is proved
of every step from `IInv` (`OnlyItsTimers`, `ClosingTimers`, `AnswerTimers`): that a
connection that is read from or sent to is open (`OpenHere`) is why refreshing the
idle timer arms none of a closed one.

**`FoldLemmas`.** The logger's models are built from folds: the size of a buffer, the
bytes of a file, the lines of a queue of buffers. The library's induction rules take an
operator as a parameter, which the provers cannot instantiate; here induction goes by
sets instead. A set of naturals that is not empty has a least element (`LeastNat`, from
the well-foundedness of `<`), so a set that has 0 and, with each number, the next is all
of them (`NatInductionBySet`). From it follow that `FlattenSeq` concatenates
(`FlattenConcat`), that a fold of sums exists (`FoldsExist`) and is the `Total` of its
sequence, and that the total of two sequences joined is the sum of theirs
(`TotalConcat`). Concatenation is `Join` there, an operator the provers do not look into.

**`AsyncLogger_proofs`.** The order of lines is a statement about all places a line can
be in at once, and is inductive with what makes moving a whole buffer safe:

    IInv == TypeOK /\ NothingLostOrReordered /\ SparesEmpty /\ LifeCycle /\ Numbered

A recycled buffer is put into service without being looked at, hence `SparesEmpty`; a
line may not be taken after the thread's last look at the queue, hence `LifeCycle`.
`AppendLine`, `RotateLine`, `QueueAppend` and `QueueHead` say what one operation does to
the concatenation, and `OrderStep` puts them together. `RefinesLogQueue` follows: what is
in the file is a beginning of what was accepted (`WrittenIsPrefix`), and all of it when
`stop()` has returned (`AllWritten`). The second part is about what the lines say.
`ConvertReads` proves that `convert()` and the table of digits with zero in its middle
give text that reads as the number, negative remainders and the smallest value of the
type included, by induction over integers that a division by ten makes smaller. `LineReads` carries it
through `FixedBuffer::append`, which drops what does not fit, and `Numbered` to the file
(`NumbersReadBack`).

**`LogFile_proofs`.** The bound on files, the order of lines and the fullness of files
are properties of an open file. Between two system calls no file is open, so

    IInv == /\ TypeOK /\ FilesBounded
            /\ StagesAgree /\ Counted /\ LineFits /\ NothingFromLater
            /\ RingInOrder /\ RingIsFull

states them while a file is being opened, too. `Counted` (`writtenBytes_` is what the
file will have when its stream is flushed) with `LineFits` bounds the files; it holds
whatever part of the stream is on disk, for all writes have one shape (`Emits`): some of
what is held goes to the file, the rest stays or is lost. `EmitsKept` says what that makes
of all that is kept, `RingMoves` that rolling drops the oldest file from the front of it, so
that the order of lines is a matter of a sequence that grows at its end (`InOrderAppend`)
and loses a part at its beginning (`InOrderSuffix`) or, when a write fails, at its end
(`InOrderPrefix`). `NothingFromLater` (no line says a start that is still to come) is why a
new start finds none of its lines in the ring. There is one lemma per conjunct
(`TypeStep`, `StagesStep`, `BytesStep`, `LaterStep`, `OrderStep`, `FullStep`).

Every safety property a run checks is proved. Only model-checked: liveness, and with it
the fairness part of the refinements of `TaskQueue` and `LogQueue`, which is beyond the
prover: `CallsReturn`, `IdleConnectionsClose`, `EveryAcceptServed`, `ShutdownReturns`.

## 5. Findings

* **Close before write** (`WorkerLoop_closeafterwrite`). `onMessage` calls
  `startDisconnect` before it appends the response. With nothing left to send,
  `startDisconnect` closes at once, and the response to a `Connection: close`
  request is never sent.
* **Channel used after its connection** (`WorkerLoop_deadchannel`). A handler that
  closes its connection destroys the `Channel` that `handleEvents` and `loop()` look
  at next.
* **A slow reader stops a worker** (`WorkerLoop_stall`). The documents speak of
  non-blocking I/O; no accepted socket is set non-blocking, and a response that the
  peer does not read blocks the loop in `send()`, idle timers included.

More that the models show and no run states as a property:

* On the path of the first finding `startDisconnect` also arms the close timer after
  `handleClose` has cancelled all timers; its callback writes to the
  `ConnectionTimerManager` of a connection that is gone (`RunOrphanTimer`, which may
  end the process). No document speaks of it, so no run refutes it.
  `TimersDieWithConnection` exempts this one step, the close timer armed while
  `onMessage` closes a Connected connection with nothing to send, and shows that there
  is no other way to it: every other closing, that of a connection with output left and
  its close timer armed included, takes all timers with it, and none is armed later.
* The eventfd write of `queueInLoop` may come after the loop is gone (`Signal` with
  `~Exists`; harmless for the queue, since the loop has run all that was queued).
* After a rejected line `onMessage` returns with what follows it unread until more
  input arrives (`stalled` in `HttpInput`, `rejected` in `WorkerLoop`).
* A log write that really fails is never got over: `AsyncLogger`'s retries, and a
  `stop()` that waits for them, go on for ever.
* Two workers may be in `contexts_` at the same time, since it has no lock (`Race` in
  `WorkerPool`). From there on nothing can be said; all properties of `WorkerPool` are
  about what comes before.
* Destroying the pool with connections open fails the assertion of `~TcpConnection`
  (`aborted`). `main()` never gets there, because nothing ends the main loop.
* When `bind()` or `listen()` fails the server starts and never accepts (`deaf`).
* A line whose text fills the buffer of its `LogStream` loses its number, its newline
  or both, and the next line follows on it (`FileReadsBack` asks for `room`).
* A crash while `logger.state` is being written makes the next start go on at file 0,
  and starts that log nothing move the ring on: lines of earlier starts are then
  dropped out of order. `KeepsNewestLines` speaks of one start for this reason.

## 6. Not modelled

* Of `LogStream`: hexadecimal pointers and floating point, which is `snprintf`'s; of
  `Logger`: levels and the digits of a time stamp.
* `MimeType`, the joining of paths, reading a file, the text of responses: I/O and
  formatting. Where a message's text carries meaning (keep-alive, length) `HttpInput`
  has it.
* `BlockingQueue`, `Util`'s loops on strings, the Echo handler, `sendMsg`,
  `startHeartbeatTimer`, `onConnection`: nothing in the program calls them.
* `Socket`'s one system call per function, and the parsing of `main()`'s arguments.
* `EINTR` and the end of descriptors or memory, except that `accept()` fails when no
  descriptor is free.
* Starting a pool again after `shutdown()`: the second `start()` throws, and nothing in
  the program calls it.

## 7. Plan

Done: the loop and its thread, one worker's connections, timers, buffers, HTTP input, the
logger, its lines and its files, and the pool, all of them with proofs of their safety
properties. What is left:

1. that the tokens of `WorkerLoop` are the bytes of `HttpInput`: a refinement between
   the two, for which `HttpInput` would have to say when its peer closes;
2. that `WorkerPool`'s connections are those of `WorkerLoop`, at least the part of a
   connection's life both have: made, closed, destroyed.
