--------------------------- MODULE EventLoopThread ---------------------------
(***************************************************************************)
(* net/src/EventLoopThread.cpp and server/src/Worker.cpp: the thread that  *)
(* owns a Worker starts the loop's thread, waits on a condition variable   *)
(* for the loop to exist, queues functors on it, asks it to quit, joins    *)
(* the thread and destroys the object.  The EventLoop lives on the stack   *)
(* of the other thread: it exists from Construct to Destroy, whoever still *)
(* holds a pointer to it.  Other threads may queue functors, too, as long  *)
(* as the loop exists; only the owner asks it to quit.  The loop itself is *)
(* EventLoop.tla, every property of which is checked of this composition.  *)
(***************************************************************************)
EXTENDS EventLoop

CONSTANT owner          \* the thread that owns the EventLoopThread

ASSUME OwnerAssumption == owner \in Posters

VARIABLES loop_,        \* EventLoopThread::loop_: does it point to the loop?
          th,           \* where the loop's thread stands in threadFunc()
          own           \* where the owner stands

thVars == <<loop_, th, own>>
allVars == <<vars, thVars>>

ThreadInit == Init /\ loop_ = FALSE /\ th = "unborn" /\ own = "idle"

(* The EventLoop object exists. *)
Exists == th \in {"publish", "notify", "looping", "unpublish", "destroy"}

(* The owner is between two calls, and not inside queueInLoop. *)
Idle(where) == own = where /\ posting[owner] = NoTask

-----------------------------------------------------------------------------
(* startLoop().                                                            *)

(* thread_.start() *)
StartThread ==
    /\ own = "idle" /\ th = "unborn"
    /\ own' = "locked" /\ th' = "construct"
    /\ UNCHANGED <<vars, loop_>>

(* A mutant of LookAtLoop: if instead of while around the wait. *)
LookAtLoopOnce ==
    /\ own \in {"locked", "woken"}
    /\ own' = IF loop_ \/ own = "woken" THEN "running" ELSE "waiting"
    /\ UNCHANGED <<vars, loop_, th>>

(* while(loop_==nullptr) cond_.wait(): the test and the start of the wait   *)
(* are one step, under mutex_, as are the return of wait and the next test. *)
LookAtLoop ==
    /\ own \in {"locked", "woken"}
    /\ own' = IF loop_ THEN "running" ELSE "waiting"
    /\ UNCHANGED <<vars, loop_, th>>

(* cond_.wait() may return without a notification. *)
WakeSpuriously ==
    /\ own = "waiting"
    /\ own' = "woken"
    /\ UNCHANGED <<vars, loop_, th>>

-----------------------------------------------------------------------------
(* threadFunc().                                                           *)

Construct ==
    /\ th = "construct"
    /\ th' = "publish"
    /\ UNCHANGED <<vars, loop_, own>>

Publish ==
    /\ th = "publish"
    /\ loop_' = TRUE
    /\ th' = "notify"
    /\ UNCHANGED <<vars, own>>

(* A mutant of Notify: the notification is sent before loop_ is set, so     *)
(* that here there is none left to send.                                    *)
NotifyTooEarly ==
    /\ th = "notify"
    /\ th' = "looping"
    /\ UNCHANGED <<vars, loop_, own>>

(* cond_.notify(), without the mutex: lost when the owner does not wait. *)
Notify ==
    /\ th = "notify"
    /\ th' = "looping"
    /\ own' = IF own = "waiting" THEN "woken" ELSE own
    /\ UNCHANGED <<vars, loop_>>

Looping ==
    /\ th = "looping"
    /\ LoopStep
    /\ UNCHANGED thVars

(* epoll_wait returns for something else than the eventfd. *)
LoopingOther ==
    /\ th = "looping"
    /\ PollOther
    /\ UNCHANGED thVars

LoopReturns ==
    /\ th = "looping" /\ pc = "exited"
    /\ th' = "unpublish"
    /\ UNCHANGED <<vars, loop_, own>>

Unpublish ==
    /\ th = "unpublish"
    /\ loop_' = FALSE
    /\ th' = "destroy"
    /\ UNCHANGED <<vars, own>>

(* ~EventLoop closes the eventfd; the functors still queued die with it. *)
Destroy ==
    /\ th = "destroy"
    /\ th' = "dead"
    /\ UNCHANGED <<vars, loop_, own>>

-----------------------------------------------------------------------------
(* The owner, once startLoop() has returned: Worker::addConnection,         *)
(* Worker::shutdown, Worker::join and ~EventLoopThread.                     *)

AddConnection(t) ==
    /\ Idle("running") /\ t # Quit
    /\ PushFunctor(owner, t)
    /\ UNCHANGED thVars

(* Another thread that knows the loop to exist uses it. *)
QueueInLoop(p, t) ==
    /\ p # owner /\ Exists /\ loop_ /\ t # Quit
    /\ PushFunctor(p, t)
    /\ UNCHANGED thVars

(* The second half of queueInLoop.  When the loop is gone the write goes to *)
(* a closed descriptor and nothing of the loop changes.                     *)
Signal(p) ==
    /\ \/ Exists /\ Wakeup(p)
       \/ /\ ~Exists /\ posting[p] # NoTask
          /\ posting' = [posting EXCEPT ![p] = NoTask]
          /\ UNCHANGED <<pending, functors, wakeups, quit, pc, posted, executed>>
    /\ UNCHANGED thVars

(* Worker::shutdown *)
Shutdown ==
    /\ Idle("running")
    /\ PushFunctor(owner, Quit)
    /\ own' = "joining"
    /\ UNCHANGED <<loop_, th>>

(* A mutant of Join: the owner goes on before the thread is gone. *)
JoinNotWaiting ==
    /\ Idle("joining") \/ Idle("destroying")
    /\ own' = IF own = "joining" THEN "joined" ELSE "gone"
    /\ UNCHANGED <<vars, loop_, th>>

(* Worker::join, and the join in the destructor. *)
Join ==
    /\ Idle("joining") \/ Idle("destroying")
    /\ th = "dead"
    /\ own' = IF own = "joining" THEN "joined" ELSE "gone"
    /\ UNCHANGED <<vars, loop_, th>>

(* ~EventLoopThread reads loop_ under the mutex; a thread never started or  *)
(* already joined is not joinable.                                          *)
DestructorLook ==
    /\ own \in {"idle", "running", "joined"} /\ posting[owner] = NoTask
    /\ own' = IF loop_ THEN "quitting" ELSE "gone"
    /\ UNCHANGED <<vars, loop_, th>>

DestructorQuit ==
    /\ Idle("quitting")
    /\ PushFunctor(owner, Quit)
    /\ own' = "destroying"
    /\ UNCHANGED <<loop_, th>>

ThreadStep == Construct \/ Publish \/ Notify \/ LoopReturns \/ Unpublish \/ Destroy
OwnerStep == LookAtLoop \/ Signal(owner) \/ Join \/ DestructorQuit

ThreadNext ==
    \/ StartThread \/ WakeSpuriously \/ Shutdown \/ DestructorLook
    \/ \E t \in Tasks : AddConnection(t) \/ \E p \in Posters : QueueInLoop(p, t)
    \/ \E p \in Posters : Signal(p)
    \/ OwnerStep \/ ThreadStep \/ Looping \/ LoopingOther

ThreadSpec == ThreadInit /\ [][ThreadNext]_allVars

(* A thread that can go on does; nothing makes the owner call anything, but *)
(* it finishes the calls it makes, and so do the others.  No spurious       *)
(* wakeup is relied upon, nor anything but the eventfd to end epoll_wait.   *)
FairThreadSpec ==
    /\ ThreadSpec /\ WF_allVars(ThreadStep) /\ WF_allVars(Looping) /\ WF_allVars(OwnerStep)
    /\ \A p \in Posters : WF_allVars(Signal(p))

-----------------------------------------------------------------------------
(* Properties.                                                             *)

(* startLoop() returns a loop that exists, and it goes on existing until    *)
(* the owner asks it to quit: no functor is queued on a loop that is not    *)
(* there, neither in the first moments of the thread nor later.  And the    *)
(* destructor, whenever it looks, only sees the pointer while the loop      *)
(* exists.                                                                  *)
StartedLoopLives ==
    /\ loop_ => Exists
    /\ own \in {"running", "quitting"} => loop_

(* When shutdown and join have returned the thread is gone, and all the     *)
(* connections dispatched before are in the worker's hands: the loop has    *)
(* run every functor queued before the one that made it quit.               *)
JoinedLoopDrained ==
    own \in {"joined", "gone"} /\ Posted(Quit) =>
        /\ th = "dead"
        /\ \A i, j \in 1..Len(posted) : i <= j /\ posted[j] = Quit => Executed(posted[i])

(* The calls of the owner return: startLoop(), although the notification    *)
(* may come before the wait; Worker::join after Worker::shutdown, and the   *)
(* destructor, although the loop sleeps without a timeout.                  *)
CallsReturn ==
    /\ own = "locked" ~> own \notin {"locked", "waiting", "woken"}
    /\ own \in {"joining", "destroying"} ~> own \in {"joined", "gone"}

-----------------------------------------------------------------------------
(* The inductive invariant behind the safety properties.                   *)

(* Owner and loop thread keep step: loop_ is set while the loop can be used, *)
(* the loop is untouched before it exists and has returned before it is     *)
(* destroyed, and only an owner that waits for the thread, or is done with   *)
(* it, has queued Quit.                                                     *)
ThreadsAgree ==
    /\ own \in {"idle", "locked", "waiting", "woken", "running", "quitting",
                "joining", "destroying", "joined", "gone"}
    /\ th \in {"unborn", "construct", "publish", "notify", "looping", "unpublish",
               "destroy", "dead"}
    /\ loop_ \in BOOLEAN /\ (loop_ <=> th \in {"notify", "looping", "unpublish"})
    /\ th \in {"unborn", "construct"} => pending = <<>>
    /\ th \in {"unpublish", "destroy", "dead"} => pc = "exited"
    /\ own \notin {"joining", "destroying", "joined", "gone"} => ~Posted(Quit)
    /\ own = "idle" => th = "unborn"
    /\ own \in {"running", "quitting"} => th \in {"notify", "looping"}
    /\ own = "joined" => th = "dead"
    /\ own = "gone" => th = "dead" \/ (th = "unborn" /\ ~Posted(Quit))

ThreadIInv == IInv /\ ThreadsAgree
=============================================================================
