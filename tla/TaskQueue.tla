------------------------------ MODULE TaskQueue ------------------------------
(***************************************************************************)
(* What EventLoop::runInLoop, queueInLoop and quit promise to a thread     *)
(* that is not the loop's own: functors run once each, in the order in     *)
(* which they entered the queue; every one of them does run, unless the    *)
(* loop is told to stop, and those queued before the one that stops it     *)
(* still do.  How the queue, the eventfd and epoll_wait bring that about   *)
(* is the business of EventLoop.tla, which implements this module.         *)
(***************************************************************************)
EXTENDS Naturals, Sequences

CONSTANTS Tasks,        \* the functors threads hand over
          Quit          \* the one of them that stops the loop

VARIABLES posted,       \* the functors in the order they were queued
          executed,     \* the functors the loop thread has run, oldest first
          stopped       \* loop() has returned

vars == <<posted, executed, stopped>>

Init == posted = <<>> /\ executed = <<>> /\ stopped = FALSE

Post(t) ==
    /\ posted' = Append(posted, t)
    /\ UNCHANGED <<executed, stopped>>

Run ==
    /\ ~stopped
    /\ Len(executed) < Len(posted)
    /\ executed' = Append(executed, posted[Len(executed) + 1])
    /\ UNCHANGED <<posted, stopped>>

Stop ==
    /\ \E i \in 1..Len(executed) : executed[i] = Quit
    /\ stopped' = TRUE
    /\ UNCHANGED <<posted, executed>>

Next == Run \/ Stop \/ \E t \in Tasks : Post(t)

SafeSpec == Init /\ [][Next]_vars

Spec == SafeSpec /\ WF_vars(Run) /\ WF_vars(Stop)
=============================================================================
