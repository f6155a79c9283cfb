------------------------ MODULE EventLoopThread_proofs ------------------------
(***************************************************************************)
(* EventLoop is correct for any threads and any functors: the invariant    *)
(* IInv is inductive, the safety properties follow from it, and every step *)
(* of the loop and its posters is a step of TaskQueue or a stutter.        *)
(* ThreadIInv is inductive in turn, and with it what is proved of the loop *)
(* alone holds while its thread is started, used, stopped, joined and      *)
(* destroyed.                                                              *)
(***************************************************************************)
EXTENDS EventLoopThread, SequenceTheorems, TLAPS

(* Appending to the end of a concatenation appends to its last part. *)
LEMMA AppendToConcat ==
    \A s, u \in Seq(Tasks) : \A e \in Tasks : Append(s \o u, e) = s \o Append(u, e)
<1> SUFFICES ASSUME NEW s \in Seq(Tasks), NEW u \in Seq(Tasks), NEW e \in Tasks
             PROVE  Append(s \o u, e) = s \o Append(u, e)
  BY Zenon
<1>1. <<e>> \in Seq(Tasks) /\ s \o u \in Seq(Tasks)
  BY ConcatProperties
<1>2. Append(s \o u, e) = (s \o u) \o <<e>> /\ Append(u, e) = u \o <<e>>
  BY <1>1, AppendIsConcat
<1>3. (s \o u) \o <<e>> = s \o (u \o <<e>>)
  BY <1>1, ConcatAssociative
<1> QED BY <1>2, <1>3

(* Moving the head of one sequence to the end of another keeps their        *)
(* concatenation.                                                          *)
LEMMA MoveHead ==
    ASSUME NEW S, NEW s \in Seq(S), NEW u \in Seq(S), u # <<>>
    PROVE  /\ Append(s, Head(u)) \in Seq(S) /\ Tail(u) \in Seq(S)
           /\ Append(s, Head(u)) \o Tail(u) = s \o u
<1>1. Head(u) \in S /\ Tail(u) \in Seq(S) /\ u = <<Head(u)>> \o Tail(u)
  BY HeadTailProperties, ConcatProperties, SMT
<1>2. Append(s, Head(u)) = s \o <<Head(u)>> /\ Append(s, Head(u)) \in Seq(S)
  BY <1>1, AppendIsConcat, AppendProperties
<1>3. <<Head(u)>> \in Seq(S)
  BY <1>1
<1>4. (s \o <<Head(u)>>) \o Tail(u) = s \o (<<Head(u)>> \o Tail(u))
  BY <1>1, <1>3, ConcatAssociative
<1> QED BY <1>1, <1>2, <1>4

(* What was executed stays executed when one more functor is. *)
LEMMA ExecutedGrows ==
    ASSUME NEW s \in Seq(Tasks), NEW e \in Tasks, NEW t
    PROVE  (\E i \in 1..Len(s) : s[i] = t) \/ t = e =>
               \E i \in 1..Len(Append(s, e)) : Append(s, e)[i] = t
<1>1. /\ Len(Append(s, e)) = Len(s) + 1
      /\ Append(s, e)[Len(s) + 1] = e
      /\ \A i \in 1..Len(s) : Append(s, e)[i] = s[i]
  BY AppendProperties
<1>2. Len(s) \in Nat
  OBVIOUS
<1> QED BY <1>1, <1>2

-----------------------------------------------------------------------------
(* IInv is inductive. *)

(* The program starts with the invariant true. *)
LEMMA InitInv == Init => IInv
<1> SUFFICES ASSUME Init PROVE IInv
  OBVIOUS
<1> USE EventLoopAssumption DEF Init
<1>1. TypeOK
  <2>1. <<>> \in Seq(Tasks)
    OBVIOUS
  <2>2. posting \in [Posters -> Tasks \cup {NoTask}]
    BY Zenon
  <2> QED BY <2>1, <2>2 DEF TypeOK
<1>2. ExactlyOnceInOrder
  BY DEF ExactlyOnceInOrder
<1>3. PostedOnce /\ WakeupPending /\ StopsForQuit
  BY DEF PostedOnce, WakeupPending, StopsForQuit
<1> QED BY <1>1, <1>2, <1>3 DEF IInv

(* Queueing a functor keeps the invariant: its poster is about to signal. *)
LEMMA PushKeepsInv ==
    ASSUME IInv, NEW p \in Posters, NEW t \in Tasks, PushFunctor(p, t)
    PROVE  IInv'
<1> USE EventLoopAssumption DEF IInv
<1>1. TypeOK'
  BY AppendProperties DEF TypeOK, PushFunctor
<1>2. ExactlyOnceInOrder'
  <2>1. PICK done \in Seq(Tasks) : done = executed \o functors
    BY ConcatProperties DEF TypeOK
  <2>2. pending \in Seq(Tasks)
    BY DEF TypeOK
  <2>3. Append(done \o pending, t) = done \o Append(pending, t)
    BY <2>2, AppendToConcat, Zenon
  <2> QED BY <2>1, <2>3 DEF ExactlyOnceInOrder, PushFunctor
<1>3. PostedOnce'
  <2>1. /\ posted \in Seq(Tasks) /\ Len(posted) \in Nat
        /\ posted' = Append(posted, t) /\ Len(posted') = Len(posted) + 1
        /\ posted'[Len(posted) + 1] = t
        /\ \A i \in 1..Len(posted) : posted'[i] = posted[i]
    BY AppendProperties DEF PushFunctor, TypeOK
  <2> QED BY <2>1 DEF PostedOnce, PushFunctor, Posted
<1>4. WakeupPending'
  BY DEF WakeupPending, PushFunctor, TypeOK
<1>5. StopsForQuit'
  BY DEF StopsForQuit, PushFunctor, Executed
<1> QED BY <1>1, <1>2, <1>3, <1>4, <1>5

(* Signalling keeps the invariant: what the poster promised is now in the   *)
(* eventfd.                                                                *)
LEMMA WakeupKeepsInv ==
    ASSUME IInv, NEW p \in Posters, Wakeup(p)
    PROVE  IInv'
<1> USE EventLoopAssumption DEF IInv
<1>1. TypeOK'
  BY DEF TypeOK, Wakeup
<1>2. ExactlyOnceInOrder' /\ PostedOnce'
  BY DEF ExactlyOnceInOrder, PostedOnce, Wakeup
<1>3. WakeupPending'
  BY DEF WakeupPending, Wakeup, TypeOK
<1>4. StopsForQuit'
  BY DEF StopsForQuit, Wakeup, Executed
<1> QED BY <1>1, <1>2, <1>3, <1>4

(* So does running a functor: it leaves the batch for the history. *)
LEMMA RunKeepsInv ==
    ASSUME IInv, RunFunctor
    PROVE  IInv'
<1> USE EventLoopAssumption DEF IInv
<1>1. /\ executed \in Seq(Tasks) /\ functors \in Seq(Tasks) /\ pending \in Seq(Tasks)
      /\ functors # <<>> /\ Head(functors) \in Tasks
  BY HeadTailProperties DEF TypeOK, RunFunctor
<1>2. /\ Append(executed, Head(functors)) \in Seq(Tasks)
      /\ Tail(functors) \in Seq(Tasks)
      /\ Append(executed, Head(functors)) \o Tail(functors) = executed \o functors
  BY <1>1, MoveHead
<1>3. TypeOK'
  BY <1>1, <1>2 DEF TypeOK, RunFunctor, postVars
<1>4. ExactlyOnceInOrder'
  BY <1>1, <1>2 DEF ExactlyOnceInOrder, RunFunctor, postVars
<1>5. PostedOnce' /\ WakeupPending'
  BY DEF PostedOnce, WakeupPending, RunFunctor, postVars
<1>6. StopsForQuit'
  <2>1. Executed(Quit) \/ Head(functors) = Quit => Executed(Quit)'
    <3>1. executed' = Append(executed, Head(functors))
      BY DEF RunFunctor
    <3> QED
      BY <1>1, <3>1, ExecutedGrows DEF Executed
  <2> QED BY <2>1 DEF StopsForQuit, RunFunctor, postVars
<1> QED BY <1>3, <1>4, <1>5, <1>6

(* Taking the queue keeps the invariant: the batch was empty. *)
LEMMA SwapKeepsInv ==
    ASSUME IInv, SwapFunctors
    PROVE  IInv'
<1> USE EventLoopAssumption DEF IInv
<1>1. /\ executed \in Seq(Tasks) /\ pending \in Seq(Tasks) /\ functors = <<>>
  BY DEF TypeOK, StopsForQuit, SwapFunctors
<1>2. TypeOK'
  BY <1>1 DEF TypeOK, SwapFunctors
<1>3. ExactlyOnceInOrder'
  BY <1>1, ConcatEmptySeq, ConcatProperties DEF ExactlyOnceInOrder, SwapFunctors
<1>4. PostedOnce' /\ WakeupPending'
  BY DEF PostedOnce, WakeupPending, SwapFunctors
<1>5. StopsForQuit'
  BY DEF StopsForQuit, SwapFunctors, Executed
<1> QED BY <1>2, <1>3, <1>4, <1>5

(* Every step of the system keeps the invariant. *)
LEMMA NextInv == IInv /\ [Next]_vars => IInv'
<1> SUFFICES ASSUME IInv, [Next]_vars PROVE IInv'
  OBVIOUS
<1>1. ASSUME NEW p \in Posters, NEW t \in Tasks, PushFunctor(p, t) PROVE IInv'
  BY <1>1, PushKeepsInv
<1>2. ASSUME NEW p \in Posters, Wakeup(p) PROVE IInv'
  BY <1>2, WakeupKeepsInv
<1>3. CASE SwapFunctors
  BY <1>3, SwapKeepsInv
<1>4. CASE RunFunctor
  BY <1>4, RunKeepsInv
<1>5. CASE CheckQuit \/ PollWake \/ PollOther \/ EndFunctors
  <2>1. /\ UNCHANGED <<pending, functors, wakeups, quit, posting, posted, executed>>
        /\ pc # "swap" /\ pc # "exited"
        /\ pc' \in {"check", "poll", "wake", "swap", "exited"}
        /\ pc' = "exited" => quit
        /\ pc = "run" => functors = <<>>
    BY <1>5 DEF CheckQuit, PollWake, PollOther, EndFunctors, postVars
  <2>2. TypeOK' /\ ExactlyOnceInOrder' /\ PostedOnce'
    BY <2>1 DEF IInv, TypeOK, ExactlyOnceInOrder, PostedOnce
  <2>3. WakeupPending' /\ StopsForQuit'
    BY <2>1 DEF IInv, WakeupPending, StopsForQuit, Executed
  <2> QED BY <2>2, <2>3 DEF IInv
<1>6. CASE DrainWakeup
  BY <1>6 DEF IInv, TypeOK, ExactlyOnceInOrder, PostedOnce, WakeupPending,
     StopsForQuit, Executed, DrainWakeup, postVars
<1>7. CASE UNCHANGED vars
  BY <1>7 DEF IInv, TypeOK, ExactlyOnceInOrder, PostedOnce, WakeupPending,
     StopsForQuit, Executed, vars
<1> QED BY <1>1, <1>2, <1>3, <1>4, <1>5, <1>6, <1>7 DEF Next, LoopStep

(* IInv is an invariant of the event loop. *)
THEOREM Invariance == Spec => []IInv
BY InitInv, NextInv, PTL DEF Spec

-----------------------------------------------------------------------------
(* The safety properties, for every set of threads and of functors.        *)

(* Every variable of the event loop keeps its type. *)
THEOREM TypeCorrect == Spec => []TypeOK
<1>1. IInv => TypeOK
  BY DEF IInv
<1> QED BY <1>1, Invariance, PTL

(* No functor queued with queueInLoop is lost, run twice or overtaken. *)
THEOREM NothingLostOrReordered == Spec => []ExactlyOnceInOrder
<1>1. IInv => ExactlyOnceInOrder
  BY DEF IInv
<1> QED BY <1>1, Invariance, PTL

(* NoLostWakeup is WakeupPending where the loop is about to sleep. *)
LEMMA IInvLosesNoWakeup == IInv => NoLostWakeup
BY DEF IInv, WakeupPending, NoLostWakeup

(* The loop never sleeps on a nonempty queue without a signal on its way. *)
THEOREM WakeupNeverLost == Spec => []NoLostWakeup
BY IInvLosesNoWakeup, Invariance, PTL

(* A loop that has returned has run the functor of quit(), which has one    *)
(* place in the queue, and so all that came before it.                      *)
LEMMA IInvDrains == IInv => QuitDrains
<1> SUFFICES ASSUME IInv, pc = "exited",
                    NEW i \in 1..Len(posted), NEW j \in 1..Len(posted),
                    i <= j, posted[j] = Quit
             PROVE  i <= Len(executed)
  BY DEF QuitDrains
<1>1. /\ posted = executed \o pending
      /\ executed \in Seq(Tasks) /\ pending \in Seq(Tasks)
  BY ConcatEmptySeq DEF IInv, ExactlyOnceInOrder, StopsForQuit, TypeOK
<1>2. PICK k \in 1..Len(executed) : executed[k] = Quit
  BY DEF IInv, StopsForQuit, Executed
<1>3. k \in 1..Len(posted) /\ posted[k] = Quit
  BY <1>1, <1>2, ConcatProperties
<1>4. j = k
  BY <1>3 DEF IInv, PostedOnce
<1> QED BY <1>1, <1>2, <1>4

(* When loop() returns after quit(), all that was queued before has run. *)
THEOREM QuitDrainsTheQueue == Spec => []QuitDrains
BY IInvDrains, Invariance, PTL

-----------------------------------------------------------------------------
(* The refinement of the task queue, without its fairness.                 *)

(* Running the head of the batch runs the oldest functor not yet run. *)
LEMMA RunImplementsRun ==
    ASSUME IInv, RunFunctor
    PROVE  TQ!Run
<1>1. /\ executed \in Seq(Tasks) /\ functors \in Seq(Tasks) /\ pending \in Seq(Tasks)
      /\ functors # <<>> /\ posted = executed \o (functors \o pending)
  BY ConcatAssociative DEF IInv, TypeOK, RunFunctor, ExactlyOnceInOrder
<1> DEFINE rest == functors \o pending
<1>2. /\ rest \in Seq(Tasks) /\ Len(rest) = Len(functors) + Len(pending)
      /\ rest[1] = functors[1]
  BY <1>1, ConcatProperties, EmptySeq
<1>3. Len(functors) \in Nat /\ Len(functors) > 0 /\ Head(functors) = functors[1]
  BY <1>1, EmptySeq, HeadTailProperties
<1>4. /\ Len(posted) = Len(executed) + Len(rest)
      /\ posted[Len(executed) + 1] = rest[1]
  <2> HIDE DEF rest
  <2> QED BY <1>1, <1>2, <1>3, ConcatProperties DEF rest
<1>5. Len(executed) < Len(posted) /\ posted[Len(executed) + 1] = Head(functors)
  BY <1>1, <1>2, <1>3, <1>4
<1> QED BY <1>5 DEF TQ!Run, RunFunctor, postVars

(* Every step of the event loop is a step of the task queue or a stutter. *)
LEMMA NextImplementsNext ==
    IInv /\ [Next]_vars => [TQ!Next]_TQ!vars
<1> SUFFICES ASSUME IInv, [Next]_vars PROVE [TQ!Next]_TQ!vars
  OBVIOUS
<1>1. ASSUME NEW p \in Posters, NEW t \in Tasks, PushFunctor(p, t)
      PROVE  [TQ!Next]_TQ!vars
  BY <1>1 DEF PushFunctor, TQ!Next, TQ!Post, TQ!vars
<1>2. CASE RunFunctor
  BY <1>2, RunImplementsRun DEF TQ!Next
<1>3. CASE CheckQuit
  <2>1. CASE quit
    BY <1>3, <2>1 DEF CheckQuit, TQ!Next, TQ!Stop, IInv, StopsForQuit, Executed, postVars
  <2>2. CASE ~quit
    BY <1>3, <2>2 DEF CheckQuit, TQ!vars, postVars
  <2> QED BY <2>1, <2>2
<1>4. ASSUME \/ \E p \in Posters : Wakeup(p)
             \/ PollWake \/ PollOther \/ DrainWakeup \/ SwapFunctors \/ EndFunctors
             \/ UNCHANGED vars
      PROVE  UNCHANGED TQ!vars
  BY <1>4 DEF Wakeup, PollWake, PollOther, DrainWakeup, SwapFunctors, EndFunctors,
     vars, TQ!vars, postVars
<1> QED BY <1>1, <1>2, <1>3, <1>4 DEF Next, LoopStep

(* The queue, the mutex and the eventfd together implement TaskQueue. *)
THEOREM RefinesTaskQueue == Spec => TQ!SafeSpec
<1>1. Init => TQ!Init
  BY DEF Init, TQ!Init
<1> QED BY <1>1, NextImplementsNext, Invariance, PTL DEF Spec, TQ!SafeSpec

-----------------------------------------------------------------------------
(* The thread of the loop and its owner.                                   *)

(* Queueing one more functor only adds to what was queued. *)
LEMMA PushPosts ==
    ASSUME IInv, NEW p \in Posters, NEW t \in Tasks, PushFunctor(p, t), t # Quit, ~Posted(Quit)
    PROVE  ~Posted(Quit)'
<1>1. /\ posted \in Seq(Tasks) /\ Len(posted) \in Nat
      /\ posted' = Append(posted, t) /\ Len(posted') = Len(posted) + 1
      /\ posted'[Len(posted) + 1] = t
      /\ \A i \in 1..Len(posted) : posted'[i] = posted[i]
  BY AppendProperties DEF PushFunctor, IInv, TypeOK
<1> QED BY <1>1 DEF Posted

(* What has run was queued. *)
LEMMA ExecutedWasPosted ==
    ASSUME IInv
    PROVE  /\ Len(executed) <= Len(posted)
           /\ \A i \in 1..Len(executed) : posted[i] = executed[i]
           /\ Executed(Quit) => Posted(Quit)
<1>1. /\ executed \in Seq(Tasks) /\ functors \in Seq(Tasks) /\ pending \in Seq(Tasks)
      /\ posted = executed \o (functors \o pending)
  BY ConcatAssociative DEF IInv, TypeOK, ExactlyOnceInOrder
<1>2. PICK rest \in Seq(Tasks) : posted = executed \o rest
  BY <1>1, ConcatProperties
<1>3. /\ Len(posted) = Len(executed) + Len(rest)
      /\ Len(executed) \in Nat /\ Len(rest) \in Nat
      /\ \A i \in 1..Len(executed) : posted[i] = executed[i]
  BY <1>1, <1>2, ConcatProperties
<1> QED BY <1>3 DEF Executed, Posted

-----------------------------------------------------------------------------
(* ThreadIInv is inductive. *)

(* The owner and the thread start in agreement. *)
LEMMA ThreadInitInv == ThreadInit => ThreadIInv
<1> SUFFICES ASSUME ThreadInit PROVE ThreadIInv
  OBVIOUS
<1>1. IInv
  BY InitInv DEF ThreadInit
<1>2. ~Posted(Quit)
  BY DEF ThreadInit, Init, Posted
<1>3. ThreadsAgree
  BY <1>2 DEF ThreadsAgree, ThreadInit, Init
<1> QED BY <1>1, <1>3 DEF ThreadIInv

(* A signal that comes too late for the loop keeps the loop's invariant:    *)
(* the loop has returned, or was never used.                                *)
LEMMA LateSignalKeepsInv ==
    ASSUME ThreadIInv, NEW p \in Posters, ~Exists,
           posting' = [posting EXCEPT ![p] = NoTask],
           UNCHANGED <<pending, functors, wakeups, quit, pc, posted, executed>>
    PROVE  IInv'
<1> USE DEF ThreadIInv, IInv
<1>1. TypeOK'
  BY DEF TypeOK
<1>2. ExactlyOnceInOrder' /\ PostedOnce' /\ StopsForQuit'
  BY DEF ExactlyOnceInOrder, PostedOnce, StopsForQuit, Executed
<1>3. pc = "exited" \/ pending = <<>>
  BY DEF ThreadsAgree, Exists
<1>4. WakeupPending'
  BY <1>3 DEF WakeupPending
<1> QED BY <1>1, <1>2, <1>4

(* The loop's own state changes by its own steps, or by such a signal. *)
LEMMA LoopSteps ==
    ASSUME ThreadIInv, [ThreadNext]_allVars
    PROVE  /\ [Next]_vars \/ \E p \in Posters :
                  /\ ~Exists /\ posting' = [posting EXCEPT ![p] = NoTask]
                  /\ UNCHANGED <<pending, functors, wakeups, quit, pc, posted, executed>>
<1> USE OwnerAssumption, EventLoopAssumption
<1>1. ASSUME NEW p \in Posters, Signal(p)
      PROVE  \/ Wakeup(p)
             \/ /\ ~Exists /\ posting' = [posting EXCEPT ![p] = NoTask]
                /\ UNCHANGED <<pending, functors, wakeups, quit, pc, posted, executed>>
  BY <1>1 DEF Signal
<1>2. ASSUME NEW t \in Tasks, AddConnection(t) \/ \E p \in Posters : QueueInLoop(p, t)
      PROVE  \E p \in Posters : PushFunctor(p, t)
  BY <1>2 DEF AddConnection, QueueInLoop
<1>3. CASE Shutdown \/ DestructorQuit
  BY <1>3 DEF Shutdown, DestructorQuit, Next
<1>4. CASE StartThread \/ WakeSpuriously \/ DestructorLook \/ LookAtLoop \/ Join
           \/ ThreadStep \/ UNCHANGED allVars
  BY <1>4 DEF StartThread, WakeSpuriously, DestructorLook, LookAtLoop, Join, ThreadStep,
     Construct, Publish, Notify, LoopReturns, Unpublish, Destroy, allVars
<1>5. CASE Looping \/ LoopingOther
  BY <1>5 DEF Looping, LoopingOther, Next
<1> QED BY <1>1, <1>2, <1>3, <1>4, <1>5 DEF ThreadNext, OwnerStep, Next

(* Every step of the composition keeps the loop's invariant. *)
LEMMA ThreadNextKeepsIInv == ThreadIInv /\ [ThreadNext]_allVars => IInv'
BY LoopSteps, LateSignalKeepsInv, NextInv DEF ThreadIInv

(* Quit in hand, the owner waits for the thread. *)
LEMMA OwnerKeepsAgreement ==
    ASSUME ThreadIInv,
           StartThread \/ WakeSpuriously \/ LookAtLoop \/ Shutdown \/ Join
               \/ DestructorLook \/ DestructorQuit
    PROVE  ThreadsAgree'
<1> USE DEF ThreadIInv
<1>1. CASE StartThread
  BY <1>1 DEF StartThread, ThreadsAgree, Posted, vars
<1>2. CASE WakeSpuriously
  BY <1>2 DEF WakeSpuriously, ThreadsAgree, Posted, vars
<1>3. CASE LookAtLoop
  <2>1. loop_ => th \in {"notify", "looping"}
    <3>1. pc = "exited" => Posted(Quit)
      BY ExecutedWasPosted DEF IInv, StopsForQuit
    <3> QED BY <1>3, <3>1 DEF LookAtLoop, ThreadsAgree
  <2> QED BY <1>3, <2>1 DEF LookAtLoop, ThreadsAgree, Posted, vars
<1>4. CASE Shutdown \/ DestructorQuit
  BY <1>4 DEF Shutdown, DestructorQuit, Idle, PushFunctor, ThreadsAgree
<1>5. CASE Join
  BY <1>5 DEF Join, Idle, ThreadsAgree, Posted, vars
<1>6. CASE DestructorLook
  BY <1>6 DEF DestructorLook, ThreadsAgree, Posted, vars
<1> QED BY <1>1, <1>2, <1>3, <1>4, <1>5, <1>6

(* The thread publishes a loop that exists, and returns only after Quit. *)
LEMMA ThreadKeepsAgreement ==
    ASSUME ThreadIInv, ThreadStep
    PROVE  ThreadsAgree'
<1> USE DEF ThreadIInv
<1>1. CASE Construct
  BY <1>1 DEF Construct, ThreadsAgree, Posted, vars
<1>2. CASE Publish
  BY <1>2 DEF Publish, ThreadsAgree, Posted, vars
<1>3. CASE Notify
  BY <1>3 DEF Notify, ThreadsAgree, Posted, vars
<1>4. CASE LoopReturns
  <2>1. Posted(Quit)
    BY <1>4, ExecutedWasPosted DEF LoopReturns, IInv, StopsForQuit
  <2> QED BY <1>4, <2>1 DEF LoopReturns, ThreadsAgree, Posted, vars
<1>5. CASE Unpublish
  <2>1. Posted(Quit)
    BY <1>5, ExecutedWasPosted DEF Unpublish, ThreadsAgree, IInv, StopsForQuit
  <2> QED BY <1>5, <2>1 DEF Unpublish, ThreadsAgree, Posted, vars
<1>6. CASE Destroy
  BY <1>6 DEF Destroy, ThreadsAgree, Posted, vars
<1> QED BY <1>1, <1>2, <1>3, <1>4, <1>5, <1>6 DEF ThreadStep

(* Functors are only queued while the loop exists. *)
LEMMA CallsKeepAgreement ==
    ASSUME ThreadIInv, NEW p \in Posters, NEW t \in Tasks, t # Quit,
           AddConnection(t) \/ QueueInLoop(p, t)
    PROVE  ThreadsAgree'
<1> USE OwnerAssumption
<1>1. PICK q \in Posters : PushFunctor(q, t)
  BY DEF AddConnection, QueueInLoop
<1>2. ~Posted(Quit) => ~Posted(Quit)'
  BY <1>1, PushPosts DEF ThreadIInv
<1>3. th \notin {"unborn", "construct"}
  BY DEF AddConnection, QueueInLoop, Idle, Exists, ThreadIInv, ThreadsAgree
<1>4. UNCHANGED <<own, th, loop_, pc>>
  BY <1>1 DEF AddConnection, QueueInLoop, thVars, PushFunctor
<1> QED BY <1>2, <1>3, <1>4 DEF ThreadIInv, ThreadsAgree

(* Neither signals nor the loop's steps disturb the agreement. *)
LEMMA LoopKeepsAgreement ==
    ASSUME ThreadIInv, Looping \/ LoopingOther \/ \E p \in Posters : Signal(p)
    PROVE  ThreadsAgree'
<1>1. UNCHANGED <<own, th, loop_, posted>>
  BY DEF Looping, LoopingOther, Signal, thVars, LoopStep, PollOther, Wakeup, CheckQuit,
     PollWake, DrainWakeup, SwapFunctors, RunFunctor, EndFunctors, postVars
<1>2. \/ th = "looping"
      \/ UNCHANGED <<pc, pending>>
  BY DEF Looping, LoopingOther, Signal, Wakeup
<1> QED BY <1>1, <1>2 DEF ThreadIInv, ThreadsAgree, Posted

(* Every step of the composition keeps the invariant. *)
LEMMA ThreadNextInv == ThreadIInv /\ [ThreadNext]_allVars => ThreadIInv'
<1> SUFFICES ASSUME ThreadIInv, [ThreadNext]_allVars PROVE ThreadsAgree'
  BY ThreadNextKeepsIInv DEF ThreadIInv
<1> USE OwnerAssumption
<1>1. CASE UNCHANGED allVars
  BY <1>1 DEF allVars, thVars, vars, ThreadIInv, ThreadsAgree, Posted
<1>2. ASSUME NEW t \in Tasks, AddConnection(t) \/ \E p \in Posters : QueueInLoop(p, t)
      PROVE  ThreadsAgree'
  BY <1>2, CallsKeepAgreement DEF AddConnection, QueueInLoop
<1>3. CASE OwnerStep
  BY <1>3, OwnerKeepsAgreement, LoopKeepsAgreement DEF OwnerStep
<1> QED BY <1>1, <1>2, <1>3, OwnerKeepsAgreement, ThreadKeepsAgreement, LoopKeepsAgreement
     DEF ThreadNext

(* The invariant of the thread and its loop holds from start to end. *)
THEOREM ThreadInvariance == ThreadSpec => []ThreadIInv
BY ThreadInitInv, ThreadNextInv, PTL DEF ThreadSpec

-----------------------------------------------------------------------------
(* What follows from it. *)

(* No wakeup is lost and quit drains the queue, whoever uses the loop and   *)
(* however its thread is started and stopped.                               *)
THEOREM ThreadLosesNoWakeup == ThreadSpec => [](NoLostWakeup /\ QuitDrains)
<1>1. ThreadIInv => NoLostWakeup /\ QuitDrains
  BY IInvLosesNoWakeup, IInvDrains DEF ThreadIInv
<1> QED BY <1>1, ThreadInvariance, PTL

(* startLoop() returns a loop that exists until its owner has it quit. *)
THEOREM StartedLoopAlwaysLives == ThreadSpec => []StartedLoopLives
<1>1. ThreadIInv => StartedLoopLives
  BY DEF ThreadIInv, ThreadsAgree, StartedLoopLives, Exists
<1> QED BY <1>1, ThreadInvariance, PTL

(* After shutdown and join everything queued before has run. *)
THEOREM JoinedLoopAlwaysDrained == ThreadSpec => []JoinedLoopDrained
<1>1. ThreadIInv => JoinedLoopDrained
  <2> SUFFICES ASSUME ThreadIInv, own \in {"joined", "gone"}, Posted(Quit)
               PROVE  /\ th = "dead"
                      /\ \A i, j \in 1..Len(posted) :
                             i <= j /\ posted[j] = Quit => Executed(posted[i])
    BY DEF JoinedLoopDrained
  <2>1. th = "dead" /\ pc = "exited"
    BY DEF ThreadIInv, ThreadsAgree
  <2>2. ASSUME NEW i \in 1..Len(posted), NEW j \in 1..Len(posted), i <= j, posted[j] = Quit
        PROVE  Executed(posted[i])
    <3>1. i <= Len(executed)
      BY <2>1, <2>2, IInvDrains DEF ThreadIInv, QuitDrains
    <3>2. Len(executed) \in Nat /\ Len(posted) \in Nat /\ i \in Nat /\ i >= 1
      BY DEF ThreadIInv, IInv, TypeOK
    <3>3. i \in 1..Len(executed) /\ executed[i] = posted[i]
      BY <3>1, <3>2, ExecutedWasPosted DEF ThreadIInv
    <3> QED BY <3>3 DEF Executed
  <2> QED BY <2>1, <2>2
<1> QED BY <1>1, ThreadInvariance, PTL

(* The worker's thread, its loop, the mutex and the eventfd implement the   *)
(* plain task queue; a signal that finds the loop gone is a stutter.        *)
THEOREM ThreadRefinesTaskQueue == ThreadSpec => TQ!SafeSpec
<1>1. ThreadInit => TQ!Init
  BY DEF ThreadInit, Init, TQ!Init
<1>2. ThreadIInv /\ [ThreadNext]_allVars => [TQ!Next]_TQ!vars
  <2> SUFFICES ASSUME ThreadIInv, [ThreadNext]_allVars PROVE [TQ!Next]_TQ!vars
    OBVIOUS
  <2>1. CASE [Next]_vars
    BY <2>1, NextImplementsNext DEF ThreadIInv
  <2>2. CASE UNCHANGED <<pending, functors, wakeups, quit, pc, posted, executed>>
    BY <2>2 DEF TQ!vars
  <2> QED BY <2>1, <2>2, LoopSteps
<1> QED BY <1>1, <1>2, ThreadInvariance, PTL DEF ThreadSpec, TQ!SafeSpec
=============================================================================
