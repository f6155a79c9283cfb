------------------------------ MODULE EventLoop ------------------------------
(***************************************************************************)
(* The cross-thread half of net/src/EventLoop.cpp: other threads queue     *)
(* functors under mutex_ and then write to the eventfd; the loop thread    *)
(* sleeps in epoll_wait, drains the eventfd, swaps the queue out and runs  *)
(* what it got.  The push (under the mutex) and the write to the eventfd   *)
(* are two steps, as they are in queueInLoop: everything can happen in     *)
(* between.  I/O on connections and timers only show as PollOther, a       *)
(* return of epoll_wait that the eventfd did not cause; WorkerLoop.tla     *)
(* models what they do.                                                    *)
(***************************************************************************)
EXTENDS Integers, Sequences

CONSTANTS Posters,      \* the threads other than the loop's own
          Tasks,        \* the functors they may queue, Quit among them
          Quit,         \* the functor quit() queues: quit_ = true
          NoTask

ASSUME EventLoopAssumption == Quit \in Tasks /\ NoTask \notin Tasks

VARIABLES pending,      \* pendingFunctors_
          functors,     \* what is left of doPendingFunctors' local vector
          wakeups,      \* the counter of the eventfd wakeupFd_
          quit,         \* quit_
          pc,           \* where the loop thread stands in loop()
          posting,      \* per poster: the functor pushed but not yet signalled
          posted,       \* history: every functor pushed, in mutex order
          executed      \* history: every functor run, in order

postVars == <<pending, posting, posted>>
vars == <<pending, functors, wakeups, quit, pc, posting, posted, executed>>

Init ==
    /\ pending = <<>> /\ functors = <<>>
    /\ wakeups = 0 /\ quit = FALSE
    /\ pc = "check"
    /\ posting = [p \in Posters |-> NoTask]
    /\ posted = <<>> /\ executed = <<>>

Posted(t) == \E i \in 1..Len(posted) : posted[i] = t
Executed(t) == \E i \in 1..Len(executed) : executed[i] = t

-----------------------------------------------------------------------------
(* queueInLoop, called by another thread.                                  *)

(* A mutant of PushFunctor: quit() sets quit_ from the calling thread       *)
(* instead of queueing the functor that sets it.                            *)
PushFunctorQuitNow(p, t) ==
    /\ posting[p] = NoTask
    /\ ~Posted(t)
    /\ pending' = Append(pending, t)
    /\ posted' = Append(posted, t)
    /\ posting' = [posting EXCEPT ![p] = t]
    /\ quit' = (quit \/ t = Quit)
    /\ UNCHANGED <<functors, wakeups, pc, executed>>

(* The critical section: the functor enters the queue.  A functor is a     *)
(* fresh closure, so it is posted once; Tasks bounds how many there are.    *)
PushFunctor(p, t) ==
    /\ posting[p] = NoTask
    /\ ~Posted(t)
    /\ pending' = Append(pending, t)
    /\ posted' = Append(posted, t)
    /\ posting' = [posting EXCEPT ![p] = t]
    /\ UNCHANGED <<functors, wakeups, quit, pc, executed>>

(* A mutant of Wakeup: the write to the eventfd is forgotten. *)
WakeupForgotten(p) ==
    /\ posting[p] # NoTask
    /\ posting' = [posting EXCEPT ![p] = NoTask]
    /\ UNCHANGED <<pending, functors, wakeups, quit, pc, posted, executed>>

(* After the mutex is released: add one to the eventfd. *)
Wakeup(p) ==
    /\ posting[p] # NoTask
    /\ wakeups' = wakeups + 1
    /\ posting' = [posting EXCEPT ![p] = NoTask]
    /\ UNCHANGED <<pending, functors, quit, pc, posted, executed>>

-----------------------------------------------------------------------------
(* loop(), run by the loop thread.                                         *)

(* while(!quit_) *)
CheckQuit ==
    /\ pc = "check"
    /\ pc' = IF quit THEN "exited" ELSE "poll"
    /\ UNCHANGED <<postVars, functors, wakeups, quit, executed>>

(* epoll_wait returns with the eventfd readable among the active channels. *)
PollWake ==
    /\ pc = "poll" /\ wakeups > 0
    /\ pc' = "wake"
    /\ UNCHANGED <<postVars, functors, wakeups, quit, executed>>

(* epoll_wait returns for another channel, a timeout or a signal. *)
PollOther ==
    /\ pc = "poll" /\ wakeups = 0
    /\ pc' = "swap"
    /\ UNCHANGED <<postVars, functors, wakeups, quit, executed>>

(* handleRead of the wakeup channel: one read resets the counter. *)
DrainWakeup ==
    /\ pc = "wake"
    /\ wakeups' = 0
    /\ pc' = "swap"
    /\ UNCHANGED <<postVars, functors, quit, executed>>

(* A mutant of SwapFunctors: the queue is copied, not swapped. *)
SwapFunctorsCopy ==
    /\ pc = "swap"
    /\ functors' = pending
    /\ pc' = "run"
    /\ UNCHANGED <<pending, wakeups, quit, posting, posted, executed>>

(* doPendingFunctors takes the whole queue under the mutex. *)
SwapFunctors ==
    /\ pc = "swap"
    /\ functors' = pending
    /\ pending' = <<>>
    /\ pc' = "run"
    /\ UNCHANGED <<wakeups, quit, posting, posted, executed>>

(* ... and runs the functors one by one, without the mutex. *)
RunFunctor ==
    /\ pc = "run" /\ functors # <<>>
    /\ executed' = Append(executed, Head(functors))
    /\ functors' = Tail(functors)
    /\ quit' = (quit \/ Head(functors) = Quit)
    /\ UNCHANGED <<postVars, wakeups, pc>>

(* A mutant of EndFunctors: the eventfd is drained once the batch is done. *)
EndFunctorsDrain ==
    /\ pc = "run" /\ functors = <<>>
    /\ wakeups' = 0
    /\ pc' = "check"
    /\ UNCHANGED <<postVars, functors, quit, executed>>

EndFunctors ==
    /\ pc = "run" /\ functors = <<>>
    /\ pc' = "check"
    /\ UNCHANGED <<postVars, functors, wakeups, quit, executed>>

LoopStep == CheckQuit \/ PollWake \/ DrainWakeup \/ SwapFunctors
            \/ RunFunctor \/ EndFunctors

Next ==
    \/ \E p \in Posters : \/ \E t \in Tasks : PushFunctor(p, t)
                          \/ Wakeup(p)
    \/ LoopStep
    \/ PollOther

Spec == Init /\ [][Next]_vars

-----------------------------------------------------------------------------
(* Properties.                                                             *)

(* Every variable holds a value of its C++ type. *)
TypeOK ==
    /\ pending \in Seq(Tasks) /\ functors \in Seq(Tasks)
    /\ posted \in Seq(Tasks) /\ executed \in Seq(Tasks)
    /\ wakeups \in Nat /\ quit \in BOOLEAN
    /\ pc \in {"check", "poll", "wake", "swap", "run", "exited"}
    /\ posting \in [Posters -> Tasks \cup {NoTask}]

(* No functor is lost, run twice or overtaken: what has run, what is left   *)
(* of the batch and what is queued is exactly what was posted, in order.    *)
ExactlyOnceInOrder == posted = executed \o functors \o pending

(* queueInLoop's wakeup is never lost: a loop about to sleep on a nonempty  *)
(* queue will find the eventfd readable, or a poster is about to write it.  *)
NoLostWakeup ==
    pc = "poll" /\ pending # <<>> =>
        wakeups > 0 \/ \E p \in Posters : posting[p] # NoTask

(* quit() does not cut the queue short: when loop() returns, every functor  *)
(* queued before the one quit() queued has been run, on whatever thread.    *)
QuitDrains ==
    pc = "exited" =>
        \A i, j \in 1..Len(posted) :
            i <= j /\ posted[j] = Quit => i <= Len(executed)

(* The queue with its eventfd implements the plain task queue, its fairness *)
(* included: although epoll_wait may sleep without a timeout, the eventfd    *)
(* alone gets every functor run and has quit() end loop().                  *)
TQ == INSTANCE TaskQueue WITH stopped <- pc = "exited"
ImplementsTaskQueue == TQ!Spec

-----------------------------------------------------------------------------
(* The inductive invariant behind the safety properties.                   *)

(* A functor is queued at most once, so the quit functor has one place. *)
PostedOnce ==
    \A i, j \in 1..Len(posted) : posted[i] = posted[j] => i = j

(* What NoLostWakeup says of the loop about to sleep holds everywhere but   *)
(* between draining the eventfd and taking the queue, until loop() returns.  *)
WakeupPending ==
    pending # <<>> /\ pc \notin {"swap", "exited"} =>
        wakeups > 0 \/ \E p \in Posters : posting[p] # NoTask

(* The loop only stops for a quit functor that has run, and with no batch   *)
(* half done.                                                              *)
StopsForQuit ==
    /\ quit => Executed(Quit)
    /\ pc = "exited" => quit
    /\ pc # "run" => functors = <<>>

(* A queued functor is signalled or about to be, and is accounted for once. *)
IInv == TypeOK /\ ExactlyOnceInOrder /\ PostedOnce /\ WakeupPending /\ StopsForQuit
=============================================================================
