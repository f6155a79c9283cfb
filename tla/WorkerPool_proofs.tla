------------------------- MODULE WorkerPool_proofs -------------------------
(***************************************************************************)
(* Proofs about WorkerPool.tla, for any number of workers, connections,    *)
(* descriptors and addresses: Inv is inductive as it stands.               *)
(***************************************************************************)
EXTENDS WorkerPool, TLAPS

(* What the proofs use of the constants. *)
LEMMA Constants ==
    /\ NumWorkers \in Nat \ {0} /\ Workers \subseteq Nat /\ 1 \in Workers
    /\ Quit \notin Conns /\ None \notin Conns \cup Fds \cup Addrs
BY WorkerPoolAssumption DEF Workers, Conns

-----------------------------------------------------------------------------
(* Queues.  Waiting(q, cn, w) is QueuedOnce for one worker.                *)

Queues == Seq(Conns \cup {Quit})

Waiting(q, cn, w) ==
    /\ \A i \in 1..Len(q) : q[i] # Quit =>
          /\ cn[q[i]].state = "queued" /\ cn[q[i]].worker = w
          /\ \A j \in 1..Len(q) : q[j] = q[i] => j = i
    /\ \A c \in Conns : cn[c].state = "queued" /\ cn[c].worker = w =>
          \E i \in 1..Len(q) : q[i] = c

(* Append puts one element behind the others. *)
LEMMA AppendFacts ==
  ASSUME NEW q \in Queues, NEW e \in Conns \cup {Quit}
  PROVE  /\ Append(q, e) \in Queues /\ Len(q) \in Nat /\ Len(Append(q, e)) = Len(q) + 1
         /\ \A i \in 1..Len(q) : Append(q, e)[i] = q[i]
         /\ Append(q, e)[Len(q) + 1] = e
BY DEF Queues

(* Tail drops the first element and moves the others up. *)
LEMMA TailFacts ==
  ASSUME NEW q \in Queues, q # <<>>
  PROVE  /\ Tail(q) \in Queues /\ Len(q) \in Nat \ {0} /\ Len(Tail(q)) = Len(q) - 1
         /\ Head(q) = q[1] /\ Head(q) \in Conns \cup {Quit}
         /\ \A i \in 1..(Len(q) - 1) : Tail(q)[i] = q[i + 1]
BY DEF Queues

(* What Tail leaves of one element. *)
LEMMA SingleFacts ==
  ASSUME NEW q \in Queues, Len(q) = 1
  PROVE  Tail(q) = <<>> /\ \A i \in 1..Len(q) : q[i] = Head(q)
<1>1. Tail(q) \in Seq(Conns \cup {Quit}) /\ Len(Tail(q)) = 0
  BY DEF Queues
<1>2. \A s \in Seq(Conns \cup {Quit}) : Len(s) = 0 => s = <<>>
  OBVIOUS
<1>3. \A i \in 1..Len(q) : q[i] = Head(q)
  BY DEF Queues
<1> QED BY <1>1, <1>2, <1>3

(* Connections that neither wait nor come to wait may change. *)
LEMMA SameQueue ==
  ASSUME NEW q \in Queues, NEW cn, NEW cn2, NEW w \in Workers, Waiting(q, cn, w),
         \A c \in Conns : cn2[c] = cn[c] \/ (cn[c].state # "queued" /\ cn2[c].state # "queued")
  PROVE  Waiting(q, cn2, w)
<1>1. \A i \in 1..Len(q) : q[i] \in Conns \cup {Quit}
  BY DEF Queues
<1> QED BY <1>1 DEF Waiting

(* A connection that did not wait does when it is put into the queue. *)
LEMMA PushConnection ==
  ASSUME NEW q \in Queues, NEW cn, NEW cn2, NEW w \in Workers, Waiting(q, cn, w),
         NEW c \in Conns, cn[c].state # "queued", cn2[c].state = "queued", cn2[c].worker = w,
         \A d \in Conns \ {c} : cn2[d] = cn[d]
  PROVE  Waiting(Append(q, c), cn2, w)
<1>1. /\ Len(q) \in Nat /\ Len(Append(q, c)) = Len(q) + 1
      /\ \A i \in 1..Len(q) : Append(q, c)[i] = q[i]
      /\ Append(q, c)[Len(q) + 1] = c
  BY AppendFacts
<1>2. \A i \in 1..Len(q) : q[i] \in Conns \cup {Quit}
  BY DEF Queues
<1>3. \A i \in 1..Len(q) : q[i] # c
  BY Constants DEF Waiting
<1>4. \A i \in 1..Len(q) : q[i] # Quit =>
          /\ cn2[q[i]].state = "queued" /\ cn2[q[i]].worker = w
          /\ \A j \in 1..Len(q) : q[j] = q[i] => j = i
  BY <1>2, <1>3 DEF Waiting
<1>5. \A d \in Conns : cn2[d].state = "queued" /\ cn2[d].worker = w /\ d # c =>
          \E i \in 1..Len(q) : q[i] = d
  BY DEF Waiting
<1> QED BY <1>1, <1>3, <1>4, <1>5 DEF Waiting

(* A queue is not concerned with a connection that is not in it and does    *)
(* not wait for this worker.                                               *)
LEMMA NotConcerned ==
  ASSUME NEW q \in Queues, NEW cn, NEW cn2, NEW w \in Workers, Waiting(q, cn, w),
         NEW c \in Conns, \A i \in 1..Len(q) : q[i] # c,
         ~(cn2[c].state = "queued" /\ cn2[c].worker = w),
         \A d \in Conns \ {c} : cn2[d] = cn[d]
  PROVE  Waiting(q, cn2, w)
<1>1. \A i \in 1..Len(q) : q[i] # Quit => q[i] \in Conns \ {c}
  BY DEF Queues
<1>2. \A i \in 1..Len(q) : q[i] # Quit => cn2[q[i]] = cn[q[i]]
  BY <1>1
<1>3. \A i \in 1..Len(q) : q[i] # Quit =>
          /\ cn2[q[i]].state = "queued" /\ cn2[q[i]].worker = w
          /\ \A j \in 1..Len(q) : q[j] = q[i] => j = i
  BY <1>2 DEF Waiting
<1>4. \A d \in Conns : cn2[d].state = "queued" /\ cn2[d].worker = w =>
          \E i \in 1..Len(q) : q[i] = d
  BY DEF Waiting
<1> QED BY <1>3, <1>4 DEF Waiting

(* Quit takes nothing from the others. *)
LEMMA PushQuit ==
  ASSUME NEW q \in Queues, NEW cn, NEW w \in Workers, Waiting(q, cn, w)
  PROVE  Waiting(Append(q, Quit), cn, w)
BY AppendFacts DEF Waiting

(* The first waits no more when it is taken out. *)
LEMMA PopConnection ==
  ASSUME NEW q \in Queues, q # <<>>, NEW cn, NEW cn2, NEW w \in Workers, Waiting(q, cn, w),
         Head(q) # Quit, cn2[Head(q)].state # "queued",
         \A d \in Conns \ {Head(q)} : cn2[d] = cn[d]
  PROVE  Waiting(Tail(q), cn2, w)
<1> DEFINE c == Head(q)
<1>1. /\ Len(q) \in Nat \ {0} /\ Len(Tail(q)) = Len(q) - 1 /\ c = q[1] /\ c \in Conns
      /\ \A i \in 1..(Len(q) - 1) : Tail(q)[i] = q[i + 1]
  BY TailFacts
<1>2. \A i \in 1..Len(q) : q[i] \in Conns \cup {Quit}
  BY DEF Queues
<1>3. \A i \in 1..Len(q) : q[i] = c => i = 1
  BY <1>1 DEF Waiting
<1> HIDE DEF c
<1>4. ASSUME NEW i \in 1..Len(Tail(q)), Tail(q)[i] # Quit
      PROVE  /\ cn2[Tail(q)[i]].state = "queued" /\ cn2[Tail(q)[i]].worker = w
             /\ \A j \in 1..Len(Tail(q)) : Tail(q)[j] = Tail(q)[i] => j = i
  <2>1. i + 1 \in 1..Len(q) /\ Tail(q)[i] = q[i + 1] /\ q[i + 1] \in Conns \ {c}
    BY <1>1, <1>2, <1>3, <1>4
  <2>2. ASSUME NEW j \in 1..Len(Tail(q)), Tail(q)[j] = Tail(q)[i] PROVE j = i
    <3>1. j + 1 \in 1..Len(q) /\ q[j + 1] = q[i + 1]
      BY <1>1, <2>1, <2>2
    <3>2. j + 1 = i + 1
      BY <1>4, <2>1, <3>1 DEF Waiting
    <3> QED BY <3>2, <1>1
  <2>3. cn2[q[i + 1]] = cn[q[i + 1]]
    BY <2>1 DEF c
  <2> QED BY <1>4, <2>1, <2>2, <2>3 DEF Waiting
<1>5. ASSUME NEW d \in Conns, cn2[d].state = "queued", cn2[d].worker = w
      PROVE  \E i \in 1..Len(Tail(q)) : Tail(q)[i] = d
  <2>1. d # c /\ cn2[d] = cn[d]
    BY <1>5 DEF c
  <2>2. PICK k \in 1..Len(q) : q[k] = d
    BY <1>5, <2>1 DEF Waiting
  <2>3. k - 1 \in 1..(Len(q) - 1) /\ Tail(q)[k - 1] = q[k]
    BY <1>1, <2>1, <2>2
  <2> QED BY <1>1, <2>2, <2>3
<1> QED BY <1>4, <1>5 DEF Waiting

(* QueuedOnce and the type of the queues in terms of these. *)
LEMMA QueuedIsWaiting ==
    /\ QueuedOnce <=> \A w \in Workers : Waiting(queue[w], conn, w)
    /\ QueuedOnce' <=> \A w \in Workers : Waiting(queue'[w], conn', w)
BY DEF QueuedOnce, Waiting

-----------------------------------------------------------------------------
(* The main thread.                                                        *)

(* Starting one worker after the other. *)
LEMMA StartWorkerKeeps == ASSUME Inv, StartWorker PROVE Inv'
<1>1. TypeOK'
  BY Constants DEF StartWorker, ForEachWorker, Inv, TypeOK, Workers
<1>2. (NothingShared /\ QueuedOnce /\ TableHoldsTheLiving)'
  BY DEF StartWorker, Inv, NothingShared, QueuedOnce, TableHoldsTheLiving, Open, Lives
<1>3. HandledByItsWorker'
  BY DEF StartWorker, ForEachWorker, Inv, TypeOK, HandledByItsWorker
<1>4. LoopsInUseLive'
  BY Constants DEF StartWorker, ForEachWorker, Inv, TypeOK, LoopsInUseLive, Started, Asked, Joined, Workers
<1> QED BY <1>1, <1>2, <1>3, <1>4 DEF Inv

(* The steps that only change where the main thread stands. *)
LEMMA MainOnlyKeeps ==
  ASSUME Inv, Listen \/ LoopEnds \/ JoinWorker \/ DestroyPool \/ \E v, w \in Workers : Race(v, w)
  PROVE  Inv'
<1>1. UNCHANGED <<next_, workerVars, conn, connections_, contexts_>>
  BY DEF Listen, LoopEnds, JoinWorker, ForEachWorker, DestroyPool, Race
<1>2. TypeOK'
  BY <1>1, Constants DEF Listen, LoopEnds, JoinWorker, ForEachWorker, DestroyPool, Race, Inv, TypeOK, Workers, workerVars
<1>3. (NothingShared /\ QueuedOnce /\ TableHoldsTheLiving /\ HandledByItsWorker)'
  BY <1>1 DEF Inv, NothingShared, QueuedOnce, TableHoldsTheLiving, HandledByItsWorker, Open, Lives, workerVars
<1>4. LoopsInUseLive'
  <2>1. \A w \in Workers : w \in Nat /\ 1 <= w /\ w <= NumWorkers
    BY DEF Workers
  <2>2. CASE Listen
    BY <1>1, <2>1, <2>2 DEF Listen, Inv, LoopsInUseLive, Started, Asked, Joined, workerVars
  <2>3. CASE LoopEnds
    <3>1. \A w \in Workers : Started(w) /\ ~Asked(w) /\ ~Asked(w)' /\ ~Joined(w)'
      BY <2>1, <2>3 DEF LoopEnds, Inv, LoopsInUseLive, Started, Asked, Joined
    <3> QED BY <1>1, <2>3, <3>1 DEF LoopEnds, Inv, LoopsInUseLive, workerVars
  <2>4. CASE JoinWorker
    <3>1. turn \in Workers /\ main = "join" /\ thread[turn] = "dead" /\ main' \in {"join", "destroy"}
          /\ (main' = "destroy" => turn = NumWorkers /\ turn' = 1) /\ (main' = "join" => turn' = turn + 1)
      BY <2>4 DEF JoinWorker, ForEachWorker, Inv, TypeOK
    <3>2. \A w \in Workers : Asked(w) /\ Asked(w)' /\ (Joined(w)' => Joined(w) \/ w = turn)
      BY <2>1, <3>1 DEF Asked, Joined
    <3> QED BY <1>1, <3>1, <3>2 DEF Inv, LoopsInUseLive, workerVars
  <2>5. CASE DestroyPool
    BY <1>1, <2>1, <2>5 DEF DestroyPool, Inv, LoopsInUseLive, Started, Asked, Joined, workerVars
  <2>6. CASE \E v, w \in Workers : Race(v, w)
    <3>1. main' = "undefined" /\ \A w \in Workers : Asked(w)' /\ ~Joined(w)'
      BY <2>6 DEF Race, Asked, Joined
    <3> QED BY <1>1, <3>1 DEF Inv, LoopsInUseLive, workerVars
  <2> QED BY <2>2, <2>3, <2>4, <2>5, <2>6
<1> QED BY <1>2, <1>3, <1>4 DEF Inv

(* Asking a worker to quit. *)
LEMMA ShutdownWorkerKeeps == ASSUME Inv, ShutdownWorker PROVE Inv'
<1>1. /\ turn \in Workers /\ queue \in [Workers -> Queues]
      /\ queue' = [queue EXCEPT ![turn] = Append(queue[turn], Quit)]
      /\ UNCHANGED <<next_, thread, at, cur, conn, connections_, contexts_>>
  BY DEF ShutdownWorker, Inv, TypeOK, Queues
<1>2. TypeOK'
  <2>1. queue' \in [Workers -> Queues]
    BY <1>1, AppendFacts
  <2> QED BY <1>1, <2>1, Constants DEF ShutdownWorker, ForEachWorker, Inv, TypeOK, Workers, Queues
<1>3. (NothingShared /\ TableHoldsTheLiving /\ HandledByItsWorker)'
  BY <1>1 DEF Inv, NothingShared, TableHoldsTheLiving, HandledByItsWorker, Open, Lives
<1>4. QueuedOnce'
  BY <1>1, PushQuit, QueuedIsWaiting DEF Inv
<1>5. LoopsInUseLive'
  <2>1. \A w \in Workers : w \in Nat /\ 1 <= w /\ w <= NumWorkers
    BY DEF Workers
  <2>2. /\ main = "quit" /\ main' \in {"quit", "join"}
        /\ (main' = "join" => turn = NumWorkers /\ turn' = 1) /\ (main' = "quit" => turn' = turn + 1)
    BY DEF ShutdownWorker, ForEachWorker
  <2>3. \A w \in Workers : /\ Started(w) /\ Started(w)' /\ ~Joined(w)'
                           /\ Asked(w)' <=> Asked(w) \/ w = turn
    BY <1>1, <2>1, <2>2 DEF Started, Asked, Joined
  <2>4. ~Asked(turn) /\ thread[turn] = "looping"
    BY <1>1, <2>1, <2>2, <2>3 DEF Asked, Inv, LoopsInUseLive
  <2>5. /\ Len(queue'[turn]) = Len(queue[turn]) + 1 /\ Len(queue[turn]) \in Nat
        /\ \A i \in 1..Len(queue[turn]) : queue'[turn][i] # Quit
    BY <1>1, <2>4, AppendFacts DEF Inv, LoopsInUseLive
  <2>6. \A w \in Workers : \A i \in 1..Len(queue'[w]) : queue'[w][i] = Quit => Asked(w)' /\ i = Len(queue'[w])
    BY <1>1, <2>3, <2>5 DEF Inv, LoopsInUseLive
  <2> QED BY <1>1, <2>2, <2>3, <2>4, <2>6 DEF Inv, LoopsInUseLive
<1> QED BY <1>2, <1>3, <1>4, <1>5 DEF Inv

(* Accepting a connection and giving it to the next worker. *)
LEMMA AcceptKeeps ==
  ASSUME Inv, NEW c \in Conns, NEW f \in Fds, Accept(c, f) PROVE Inv'
<1> DEFINE w == next_ + 1
<1>1. /\ w \in Workers /\ queue \in [Workers -> Queues]
      /\ queue' = [queue EXCEPT ![w] = Append(queue[w], c)]
      /\ main = "accept" /\ conn[c].state = "none"
      /\ UNCHANGED <<main, turn, thread, at, cur, connections_, contexts_>>
  BY Constants DEF Accept, Dispatch, Inv, TypeOK, Queues, Workers
<1>2. /\ conn' \in [Conns -> Connection]
      /\ conn'[c].state = "queued" /\ conn'[c].fd = f /\ conn'[c].worker = w
      /\ \A d \in Conns \ {c} : conn'[d] = conn[d]
  <2>1. conn[c] \in Connection /\ conn \in [Conns -> Connection]
    BY DEF Inv, TypeOK
  <2>2. conn' = [conn EXCEPT ![c] = [conn[c] EXCEPT !.state = "queued", !.fd = f, !.worker = w]]
    BY DEF Accept
  <2> HIDE DEF w
  <2> QED BY <1>1, <2>1, <2>2 DEF Connection
<1>3. TypeOK'
  <2>1. queue' \in [Workers -> Queues]
    BY <1>1, AppendFacts
  <2>2. next_' \in 0..(NumWorkers - 1)
    BY Constants DEF Accept, Dispatch, Inv, TypeOK
  <2> QED BY <1>1, <1>2, <2>1, <2>2 DEF Inv, TypeOK, Queues
<1> HIDE DEF w
<1>4. NothingShared'
  BY <1>2 DEF Accept, Inv, NothingShared, Open, Lives
<1>5. QueuedOnce'
  <2>1. \A v \in Workers : Waiting(queue[v], conn, v)
    BY QueuedIsWaiting DEF Inv
  <2>2. Waiting(queue'[w], conn', w)
    BY <1>1, <1>2, <2>1, PushConnection
  <2>3. ASSUME NEW v \in Workers \ {w} PROVE Waiting(queue'[v], conn', v)
    <3>1. queue'[v] = queue[v] /\ queue[v] \in Queues
      BY <1>1
    <3>2. \A i \in 1..Len(queue[v]) : queue[v][i] # c
      BY <1>1, <2>1, Constants DEF Waiting
    <3>3. conn'[c].worker # v
      BY <1>2
    <3> QED BY <1>2, <2>1, <3>1, <3>2, <3>3, NotConcerned
  <2> QED BY <2>2, <2>3, QueuedIsWaiting
<1>6. TableHoldsTheLiving'
  <2>1. ASSUME NEW v \in Workers, NEW g \in Fds, connections_[v][g] # None
        PROVE  connections_[v][g] \in Conns \ {c}
    <3>1. connections_[v][g] \in Conns
      BY <2>1 DEF Inv, TypeOK
    <3>2. conn[connections_[v][g]].state \in {"Connected", "Disconnected"}
      BY <2>1 DEF Inv, TableHoldsTheLiving
    <3> QED BY <1>1, <3>1, <3>2
  <2>2. \A d \in Conns : Lives(d)' => d # c /\ Lives(d)
    BY <1>2 DEF Lives
  <2> QED BY <1>1, <1>2, <2>1, <2>2 DEF Inv, TableHoldsTheLiving
<1>7. HandledByItsWorker'
  <2>1. ASSUME NEW v \in Workers, at[v] # "loop" PROVE cur[v] \in Conns \ {c}
    <3>1. cur[v] \in Conns
      BY <2>1 DEF Inv, TypeOK, HandledByItsWorker
    <3>2. conn[cur[v]].state \in {"Connected", "Disconnected"}
      BY <2>1 DEF Inv, HandledByItsWorker
    <3> QED BY <1>1, <3>1, <3>2
  <2>2. \A d \in Conns : conn'[d].state = "Disconnected" => d # c
    BY <1>2
  <2> QED BY <1>1, <1>2, <2>1, <2>2 DEF Inv, HandledByItsWorker
<1>8. LoopsInUseLive'
  <2>1. thread[w] = "looping"
    BY <1>1 DEF Inv, LoopsInUseLive, Started, Asked
  <2>2. /\ Len(queue'[w]) = Len(queue[w]) + 1 /\ Len(queue[w]) \in Nat
        /\ \A i \in 1..Len(queue[w]) : queue'[w][i] = queue[w][i] /\ queue[w][i] # Quit
        /\ queue'[w][Len(queue[w]) + 1] # Quit
    <3>1. ~Asked(w)
      BY <1>1 DEF Asked
    <3>2. queue[w] \in Queues
      BY <1>1
    <3>3. \A i \in 1..Len(queue[w]) : queue[w][i] # Quit
      BY <1>1, <3>1 DEF Inv, LoopsInUseLive
    <3>4. queue'[w] = Append(queue[w], c)
      BY <1>1
    <3>5. /\ Len(queue[w]) \in Nat /\ Len(Append(queue[w], c)) = Len(queue[w]) + 1
          /\ \A i \in 1..Len(queue[w]) : Append(queue[w], c)[i] = queue[w][i]
          /\ Append(queue[w], c)[Len(queue[w]) + 1] = c
      BY <3>2, AppendFacts
    <3>6. c # Quit
      BY Constants
    <3> QED BY <3>3, <3>4, <3>5, <3>6
  <2>3. \A v \in Workers : \A i \in 1..Len(queue'[v]) : queue'[v][i] = Quit => Asked(v) /\ i = Len(queue'[v])
    BY <1>1, <2>2 DEF Inv, LoopsInUseLive
  <2> QED BY <1>1, <2>1, <2>3 DEF Inv, LoopsInUseLive, Started, Asked, Joined
<1> QED BY <1>3, <1>4, <1>5, <1>6, <1>7, <1>8 DEF Inv

-----------------------------------------------------------------------------
(* A worker's thread.                                                      *)

(* Making the connection that waits first. *)
LEMMA AddConnectionKeeps == ASSUME Inv, NEW w \in Workers, AddConnection(w) PROVE Inv'
<1> DEFINE q == queue[w]
           c == Head(q)
<1>1. /\ q \in Queues /\ q # <<>> /\ c # Quit /\ queue \in [Workers -> Queues]
      /\ queue' = [queue EXCEPT ![w] = Tail(q)]
      /\ thread[w] = "looping" /\ at[w] = "loop"
      /\ UNCHANGED <<main, turn, next_, thread, at, cur, contexts_>>
  BY DEF AddConnection, InLoop, mainVars, Inv, TypeOK, Queues
<1>2. /\ Tail(q) \in Queues /\ Len(Tail(q)) = Len(q) - 1 /\ Len(q) \in Nat \ {0}
      /\ c = q[1] /\ c \in Conns
      /\ \A i \in 1..(Len(q) - 1) : Tail(q)[i] = q[i + 1]
  BY <1>1, TailFacts
<1>3. /\ conn[c].state = "queued" /\ conn[c].worker = w /\ conn[c].fd \in Fds
      /\ \A d \in Conns \ {c} : Open(d) => conn[d].fd # conn[c].fd
  BY <1>1, <1>2 DEF Inv, QueuedOnce, NothingShared, Open
<1>made. PICK a \in Addrs :
         /\ \A d \in Conns : Lives(d) => conn[d].addr # a
         /\ conn' = [conn EXCEPT ![c].state = "Connected", ![c].addr = a]
         /\ connections_' = [connections_ EXCEPT ![w][conn[c].fd] = c]
  BY DEF AddConnection
<1>4. /\ conn' \in [Conns -> Connection]
      /\ conn'[c].state = "Connected" /\ conn'[c].addr = a
      /\ conn'[c].fd = conn[c].fd /\ conn'[c].worker = w
      /\ \A d \in Conns \ {c} : conn'[d] = conn[d]
  <2>1. conn[c] \in Connection /\ conn \in [Conns -> Connection]
    BY <1>2 DEF Inv, TypeOK
  <2>2. conn' = [conn EXCEPT ![c] = [conn[c] EXCEPT !.state = "Connected", !.addr = a]]
    BY <1>made
  <2> HIDE DEF c, q
  <2> QED BY <1>2, <1>3, <2>1, <2>2 DEF Connection
<1>5. /\ connections_' \in [Workers -> [Fds -> Conns \cup {None}]]
      /\ \A v \in Workers, g \in Fds :
            connections_'[v][g] = IF v = w /\ g = conn[c].fd THEN c ELSE connections_[v][g]
  BY <1>made, <1>2, <1>3 DEF Inv, TypeOK
<1>6. TypeOK'
  <2>1. queue' \in [Workers -> Queues]
    BY <1>1, <1>2
  <2> QED BY <1>1, <1>4, <1>5, <2>1 DEF Inv, TypeOK, Queues
<1>7. QueuedOnce'
  <2>1. \A v \in Workers : Waiting(queue[v], conn, v)
    BY QueuedIsWaiting DEF Inv
  <2>2. Waiting(queue'[w], conn', w)
    BY <1>1, <1>4, <2>1, PopConnection
  <2>3. ASSUME NEW v \in Workers \ {w} PROVE Waiting(queue'[v], conn', v)
    <3>1. queue'[v] = queue[v] /\ queue[v] \in Queues
      BY <1>1
    <3>2. \A i \in 1..Len(queue[v]) : queue[v][i] # c
      BY <1>1, <1>2, <1>3, <2>1 DEF Waiting
    <3>3. ~(conn'[c].state = "queued" /\ conn'[c].worker = v)
      BY <1>4
    <3>4. c \in Conns /\ Waiting(queue[v], conn, v)
      BY <1>2, <2>1
    <3>5. \A d \in Conns \ {c} : conn'[d] = conn[d]
      BY <1>4
    <3> HIDE DEF c, q
    <3>6. Waiting(queue[v], conn', v)
      BY <3>1, <3>2, <3>3, <3>4, <3>5, NotConcerned
    <3> QED BY <3>1, <3>6
  <2> QED BY <2>2, <2>3, QueuedIsWaiting
<1>8. LoopsInUseLive'
  <2>1. \A v \in Workers : queue'[v] # <<>> => thread[v] = "looping"
    BY <1>1 DEF Inv, LoopsInUseLive
  <2>2. \A i \in 1..Len(q) : q[i] = Quit => Asked(w) /\ i = Len(q)
    BY DEF Inv, LoopsInUseLive
  <2> HIDE DEF c, q
  <2>3. ASSUME NEW v \in Workers, NEW i \in 1..Len(queue'[v]), queue'[v][i] = Quit
        PROVE  Asked(v) /\ i = Len(queue'[v])
    <3>1. CASE v = w
      <4>1. queue'[w] = Tail(q)
        BY <1>1
      <4>2. i + 1 \in 1..Len(q) /\ q[i + 1] = Quit
        BY <1>2, <2>3, <3>1, <4>1
      <4>3. Asked(w) /\ i + 1 = Len(q)
        BY <2>2, <4>2
      <4>4. i = Len(queue'[v])
        BY <1>2, <3>1, <4>1, <4>3
      <4> QED BY <3>1, <4>3, <4>4, Zenon
    <3>2. CASE v # w
      <4>1. queue'[v] = queue[v]
        BY <1>1, <3>2
      <4>2. \A u \in Workers : \A j \in 1..Len(queue[u]) :
               queue[u][j] = Quit => Asked(u) /\ j = Len(queue[u])
        BY DEF Inv, LoopsInUseLive
      <4> QED BY <2>3, <4>1, <4>2
    <3> QED BY <3>1, <3>2
  <2> QED BY <1>1, <2>1, <2>3 DEF Inv, LoopsInUseLive, Started, Asked, Joined
<1> HIDE DEF c, q
<1>9. NothingShared'
  <2>1. \A d \in Conns \ {c} : (Open(d)' <=> Open(d)) /\ (Lives(d)' <=> Lives(d))
    BY <1>4 DEF Open, Lives
  <2>2. \A d \in Conns \ {c} : Lives(d)' => conn'[d].addr # conn'[c].addr
    BY <1>made, <1>4, <2>1
  <2>3. \A d \in Conns \ {c} : Open(d)' => conn'[d].fd # conn'[c].fd
    BY <1>3, <1>4, <2>1
  <2>4. conn'[c].fd \in Fds /\ conn'[c].addr \in Addrs
    BY <1>3, <1>4
  <2> QED BY <1>4, <2>1, <2>2, <2>3, <2>4 DEF Inv, NothingShared
<1>10. TableHoldsTheLiving'
  <2>1. \A d \in Conns \ {c} : Lives(d) => conn[d].fd # conn[c].fd
    BY <1>3 DEF Open, Lives
  <2>2. \A v \in Workers, f \in Fds : connections_'[v][f] # None =>
          LET r == conn'[connections_'[v][f]]
          IN  r.state \in {"Connected", "Disconnected"} /\ r.worker = v /\ r.fd = f
    <3> SUFFICES ASSUME NEW v \in Workers, NEW f \in Fds, connections_'[v][f] # None
                 PROVE  LET r == conn'[connections_'[v][f]]
                        IN  r.state \in {"Connected", "Disconnected"} /\ r.worker = v /\ r.fd = f
      OBVIOUS
    <3>1. CASE v = w /\ f = conn[c].fd
      BY <1>3, <1>4, <1>5, <3>1
    <3>2. CASE ~(v = w /\ f = conn[c].fd)
      <4>1. connections_'[v][f] = connections_[v][f]
        BY <1>5, <3>2
      <4>2. connections_[v][f] \in Conns
        BY <4>1 DEF Inv, TypeOK
      <4>3. LET r == conn[connections_[v][f]]
            IN  r.state \in {"Connected", "Disconnected"} /\ r.worker = v /\ r.fd = f
        BY <4>1 DEF Inv, TableHoldsTheLiving
      <4> QED BY <1>3, <1>4, <4>1, <4>2, <4>3
    <3> QED BY <3>1, <3>2
  <2>3. \A d \in Conns : Lives(d)' =>
          connections_'[conn'[d].worker][conn'[d].fd] =
              IF at'[conn'[d].worker] = "release" /\ cur'[conn'[d].worker] = d THEN None ELSE d
    <3> SUFFICES ASSUME NEW d \in Conns, Lives(d)'
                 PROVE  connections_'[conn'[d].worker][conn'[d].fd] =
                            IF at'[conn'[d].worker] = "release" /\ cur'[conn'[d].worker] = d
                            THEN None ELSE d
      OBVIOUS
    <3>1. CASE d = c
      BY <1>1, <1>3, <1>4, <1>5, <3>1
    <3>2. CASE d # c
      <4>1. conn'[d] = conn[d] /\ Lives(d)
        BY <1>4, <3>2 DEF Lives
      <4>2. conn[d].worker \in Workers /\ conn[d].fd \in Fds
        BY <4>1 DEF Inv, TypeOK, Connection, NothingShared, Lives, Open
      <4>3. connections_'[conn[d].worker][conn[d].fd] = connections_[conn[d].worker][conn[d].fd]
        BY <1>5, <2>1, <3>2, <4>1, <4>2
      <4>4. connections_[conn[d].worker][conn[d].fd] =
                IF at[conn[d].worker] = "release" /\ cur[conn[d].worker] = d THEN None ELSE d
        BY <4>1 DEF Inv, TableHoldsTheLiving
      <4> QED BY <1>1, <4>1, <4>3, <4>4
    <3> QED BY <3>1, <3>2
  <2> QED BY <2>2, <2>3 DEF TableHoldsTheLiving
<1>11. HandledByItsWorker'
  <2>1. ASSUME NEW v \in Workers, at[v] # "loop" PROVE cur[v] \in Conns \ {c}
    <3>1. cur[v] \in Conns
      BY <2>1 DEF Inv, TypeOK, HandledByItsWorker
    <3>2. conn[cur[v]].state \in {"Connected", "Disconnected"}
      BY <2>1 DEF Inv, HandledByItsWorker
    <3> QED BY <1>3, <3>1, <3>2
  <2>2. \A d \in Conns : conn'[d].state = "Disconnected" => conn'[d] = conn[d]
    BY <1>4
  <2> QED BY <1>1, <1>4, <2>1, <2>2 DEF Inv, HandledByItsWorker
<1> QED BY <1>6, <1>7, <1>8, <1>9, <1>10, <1>11 DEF Inv

(* Quit is the last in its queue, so nothing is left behind. *)
LEMMA RunQuitKeeps == ASSUME Inv, NEW w \in Workers, RunQuit(w) PROVE Inv'
<1> DEFINE q == queue[w]
<1>1. /\ q \in Queues /\ q # <<>> /\ Head(q) = Quit /\ queue \in [Workers -> Queues]
      /\ queue' = [queue EXCEPT ![w] = Tail(q)]
      /\ thread[w] = "looping" /\ at[w] = "loop"
      /\ thread' = [thread EXCEPT ![w] = "quitting"]
      /\ UNCHANGED <<main, turn, next_, at, cur, conn, connections_, contexts_>>
  BY DEF RunQuit, InLoop, mainVars, Inv, TypeOK, Queues
<1>2. Asked(w) /\ Tail(q) = <<>> /\ \A i \in 1..Len(q) : q[i] = Quit
  <2>1. q[1] = Quit /\ 1 \in 1..Len(q)
    BY <1>1, TailFacts
  <2>2. Asked(w) /\ Len(q) = 1
    BY <2>1 DEF Inv, LoopsInUseLive
  <2> QED BY <1>1, <2>2, SingleFacts
<1>3. queue' \in [Workers -> Queues] /\ queue'[w] = <<>> /\ \A v \in Workers \ {w} : queue'[v] = queue[v]
  BY <1>1, <1>2 DEF Queues
<1>4. TypeOK'
  BY <1>1, <1>3 DEF Inv, TypeOK, Queues
<1>5. (NothingShared /\ TableHoldsTheLiving)'
  BY <1>1 DEF Inv, NothingShared, TableHoldsTheLiving, Open, Lives
<1>6. QueuedOnce'
  <2>1. \A c \in Conns : ~(conn[c].state = "queued" /\ conn[c].worker = w)
    BY <1>2, Constants DEF Inv, QueuedOnce
  <2> QED BY <1>1, <1>3, <2>1 DEF Inv, QueuedOnce
<1>7. HandledByItsWorker'
  BY <1>1 DEF Inv, TypeOK, HandledByItsWorker
<1>8. LoopsInUseLive'
  <2>1. \A v \in Workers : (Started(v)' <=> Started(v)) /\ (Asked(v)' <=> Asked(v)) /\ (Joined(v)' <=> Joined(v))
    BY <1>1 DEF Started, Asked, Joined
  <2> QED BY <1>1, <1>2, <1>3, <2>1 DEF Inv, TypeOK, LoopsInUseLive
<1> QED BY <1>4, <1>5, <1>6, <1>7, <1>8 DEF Inv

(* The end of a thread that has been told to quit. *)
LEMMA EndThreadKeeps == ASSUME Inv, NEW w \in Workers, EndThread(w) PROVE Inv'
<1>1. /\ thread[w] = "quitting" /\ thread' = [thread EXCEPT ![w] = "dead"]
      /\ UNCHANGED <<main, turn, next_, queue, at, cur, conn, connections_, contexts_>>
  BY DEF EndThread, mainVars
<1>2. TypeOK'
  BY <1>1 DEF Inv, TypeOK
<1>3. (NothingShared /\ QueuedOnce /\ TableHoldsTheLiving)'
  BY <1>1 DEF Inv, NothingShared, QueuedOnce, TableHoldsTheLiving, Open, Lives
<1>4. HandledByItsWorker'
  BY <1>1 DEF Inv, TypeOK, HandledByItsWorker
<1>5. LoopsInUseLive'
  <2>1. \A v \in Workers : (Started(v)' <=> Started(v)) /\ (Asked(v)' <=> Asked(v)) /\ (Joined(v)' <=> Joined(v))
    BY <1>1 DEF Started, Asked, Joined
  <2> QED BY <1>1, <2>1 DEF Inv, TypeOK, LoopsInUseLive
<1> QED BY <1>2, <1>3, <1>4, <1>5 DEF Inv

(* A handler's steps that change neither table, queue nor thread: of the    *)
(* connection they change, if anything, only what no invariant speaks of.   *)
LEMMA HandlerKeeps ==
  ASSUME Inv, NEW w \in Workers,
         (\E c \in Conns : OnMessage(w, c)) \/ Emplace(w) \/ Handled(w) \/ Erase(w)
  PROVE  Inv'
<1>1. /\ UNCHANGED <<main, turn, next_, thread, queue, connections_>>
      /\ thread[w] = "looping"
  BY DEF OnMessage, InLoop, Emplace, Handled, Erase, mainVars, Inv, HandledByItsWorker
<1>2. /\ conn' \in [Conns -> Connection]
      /\ \A d \in Conns : /\ conn'[d].state = conn[d].state /\ conn'[d].worker = conn[d].worker
                          /\ conn'[d].fd = conn[d].fd /\ conn'[d].addr = conn[d].addr
  <2>1. CASE \E c \in Conns : OnMessage(w, c)
    <3>1. PICK c \in Conns : conn' = [conn EXCEPT ![c] = [conn[c] EXCEPT !.handler = TRUE]]
      BY <2>1 DEF OnMessage
    <3>2. conn \in [Conns -> Connection]
      BY DEF Inv, TypeOK
    <3> QED BY <3>1, <3>2 DEF Connection
  <2>2. CASE Emplace(w) \/ Handled(w) \/ Erase(w)
    <3>1. UNCHANGED conn
      BY <2>2 DEF Emplace, Handled, Erase
    <3> QED BY <3>1 DEF Inv, TypeOK
  <2> QED BY <2>1, <2>2
<1>3. contexts_' \in [Addrs -> Conns \cup {None}]
  <2>1. CASE Emplace(w)
    <3>1. cur[w] \in Conns
      BY <2>1 DEF Emplace, Inv, TypeOK, HandledByItsWorker
    <3> QED BY <2>1, <3>1 DEF Emplace, Inv, TypeOK
  <2>2. CASE Erase(w)
    BY <2>2 DEF Erase, Inv, TypeOK
  <2>3. CASE (\E c \in Conns : OnMessage(w, c)) \/ Handled(w)
    BY <2>3 DEF OnMessage, Handled, Inv, TypeOK
  <2> QED BY <2>1, <2>2, <2>3
<1>4. PICK where \in {"loop", "emplace", "handle", "remove"}, c \in Conns \cup {None} :
         /\ Goto(w, where, c) /\ (where = "loop" <=> c = None)
         /\ c # None => /\ conn[c].worker = w
                        /\ conn[c].state = IF where \in {"emplace", "handle"} THEN "Connected" ELSE "Disconnected"
         /\ c = None => at[w] = "handle"
         /\ c # None /\ at[w] # "loop" => cur[w] = c
         /\ at[w] \in {"loop", "emplace", "handle", "erase"}
  <2> DEFINE Moves(where, c) ==
         /\ Goto(w, where, c) /\ (where = "loop" <=> c = None)
         /\ c # None => /\ conn[c].worker = w
                        /\ conn[c].state = IF where \in {"emplace", "handle"} THEN "Connected" ELSE "Disconnected"
         /\ c = None => at[w] = "handle"
         /\ c # None /\ at[w] # "loop" => cur[w] = c
         /\ at[w] \in {"loop", "emplace", "handle", "erase"}
  <2>1. ASSUME NEW c \in Conns, OnMessage(w, c) PROVE Moves("emplace", c)
    BY <2>1, Constants DEF OnMessage, InLoop
  <2>2. ASSUME at[w] # "loop"
        PROVE  /\ cur[w] \in Conns /\ cur[w] # None /\ conn[cur[w]].worker = w
               /\ conn[cur[w]].state = IF at[w] \in {"emplace", "handle"} THEN "Connected" ELSE "Disconnected"
    BY <2>2 DEF Inv, TypeOK, HandledByItsWorker
  <2>3. ASSUME Emplace(w) PROVE cur[w] \in Conns /\ Moves("handle", cur[w])
    BY <2>2, <2>3 DEF Emplace
  <2>4. ASSUME Handled(w) PROVE Moves("loop", None)
    BY <2>4 DEF Handled
  <2>5. ASSUME Erase(w) PROVE cur[w] \in Conns /\ Moves("remove", cur[w])
    BY <2>2, <2>5 DEF Erase
  <2> HIDE DEF Moves
  <2>6. \E where \in {"loop", "emplace", "handle", "remove"}, c \in Conns \cup {None} : Moves(where, c)
    BY <2>1, <2>3, <2>4, <2>5
  <2> QED BY <2>6 DEF Moves
<1>5. /\ at' \in [Workers -> {"loop", "emplace", "handle", "erase", "remove", "release"}]
      /\ cur' \in [Workers -> Conns \cup {None}]
      /\ at'[w] = where /\ cur'[w] = c
      /\ \A v \in Workers \ {w} : at'[v] = at[v] /\ cur'[v] = cur[v]
  BY <1>4 DEF Goto, Inv, TypeOK
<1>6. TypeOK'
  BY <1>1, <1>2, <1>3, <1>5 DEF Inv, TypeOK
<1>7. NothingShared'
  BY <1>2 DEF Inv, NothingShared, Open, Lives
<1>8. QueuedOnce'
  <2>1. ASSUME NEW v \in Workers, NEW i \in 1..Len(queue[v]) PROVE queue[v][i] \in Conns \cup {Quit}
    BY DEF Inv, TypeOK
  <2> QED BY <1>1, <1>2, <2>1 DEF Inv, QueuedOnce
<1>9. TableHoldsTheLiving'
  <2>1. \A d \in Conns : conn[d].worker \in Workers /\ (Lives(d)' <=> Lives(d))
    BY <1>2 DEF Lives, Inv, TypeOK, Connection
  <2>2. \A v \in Workers : at'[v] = "release" <=> at[v] = "release"
    BY <1>4, <1>5
  <2>3. \A v \in Workers : at'[v] = "release" => cur'[v] = cur[v]
    BY <1>4, <1>5
  <2>4. \A v \in Workers, g \in Fds : connections_[v][g] # None => connections_[v][g] \in Conns
    BY DEF Inv, TypeOK
  <2> QED BY <1>1, <1>2, <2>1, <2>2, <2>3, <2>4 DEF Inv, TableHoldsTheLiving
<1>10. HandledByItsWorker'
  <2>1. \A v \in Workers : at[v] # "loop" => cur[v] \in Conns
    BY DEF Inv, TypeOK, HandledByItsWorker
  <2>2. ASSUME NEW d \in Conns, conn[d].state = "Disconnected" PROVE cur'[conn[d].worker] = d
    <3>1. conn[d].worker \in Workers /\ cur[conn[d].worker] = d
      BY <2>2 DEF Inv, TypeOK, Connection, HandledByItsWorker
    <3>2. at[conn[d].worker] # "loop"
      <4>1. \A v \in Workers : at[v] = "loop" <=> cur[v] = None
        BY DEF Inv, HandledByItsWorker
      <4>2. d # None
        BY Constants
      <4> QED BY <3>1, <4>1, <4>2
    <3>3. at[conn[d].worker] \notin {"emplace", "handle"}
      BY <2>2, <3>1, <3>2 DEF Inv, HandledByItsWorker
    <3> QED BY <1>4, <1>5, <3>1, <3>2, <3>3
  <2>3. \A v \in Workers :
          /\ at'[v] = "loop" <=> cur'[v] = None
          /\ at'[v] # "loop" => /\ thread[v] = "looping" /\ conn[cur'[v]].worker = v
                                /\ conn[cur'[v]].state = IF at'[v] \in {"emplace", "handle"}
                                                         THEN "Connected" ELSE "Disconnected"
    BY <1>1, <1>4, <1>5 DEF Inv, HandledByItsWorker
  <2>4. \A v \in Workers : at'[v] # "loop" => cur'[v] \in Conns
    BY <1>4, <1>5, <2>1
  <2> QED BY <1>1, <1>2, <2>2, <2>3, <2>4 DEF HandledByItsWorker
<1>11. LoopsInUseLive'
  BY <1>1 DEF Inv, LoopsInUseLive, Started, Asked, Joined
<1> QED BY <1>6, <1>7, <1>8, <1>9, <1>10, <1>11 DEF Inv

(* Beginning to close a connection. *)
LEMMA HandleCloseKeeps ==
  ASSUME Inv, NEW w \in Workers, NEW c \in Conns, HandleClose(w, c) PROVE Inv'
<1> PICK where \in {"erase", "remove"} : Goto(w, where, c)
  BY DEF HandleClose
<1>1. /\ UNCHANGED <<main, turn, next_, thread, queue, connections_, contexts_>>
      /\ conn[c].state = "Connected" /\ conn[c].worker = w
      /\ at[w] = "loop" \/ (at[w] = "handle" /\ cur[w] = c)
      /\ thread[w] = "looping"
  BY DEF HandleClose, InLoop, mainVars, Inv, HandledByItsWorker
<1>2. /\ conn' \in [Conns -> Connection]
      /\ conn'[c].state = "Disconnected" /\ conn'[c].worker = w
      /\ conn'[c].fd = conn[c].fd /\ conn'[c].addr = conn[c].addr
      /\ \A d \in Conns \ {c} : conn'[d] = conn[d]
  <2>1. conn' = [conn EXCEPT ![c] = [conn[c] EXCEPT !.state = "Disconnected"]]
    BY DEF HandleClose
  <2> QED BY <1>1, <2>1 DEF Inv, TypeOK, Connection
<1>3. /\ at' \in [Workers -> {"loop", "emplace", "handle", "erase", "remove", "release"}]
      /\ cur' \in [Workers -> Conns \cup {None}]
      /\ at'[w] = where /\ cur'[w] = c
      /\ \A v \in Workers \ {w} : at'[v] = at[v] /\ cur'[v] = cur[v]
  BY DEF Goto, Inv, TypeOK
<1>4. TypeOK'
  BY <1>1, <1>2, <1>3 DEF Inv, TypeOK
<1>5. NothingShared'
  BY <1>1, <1>2 DEF Inv, NothingShared, Open, Lives
<1>6. QueuedOnce'
  <2>1. \A v \in Workers : queue[v] \in Queues /\ Waiting(queue[v], conn, v)
    BY QueuedIsWaiting DEF Inv, TypeOK, Queues
  <2>2. \A d \in Conns : conn'[d] = conn[d] \/ (conn[d].state # "queued" /\ conn'[d].state # "queued")
    BY <1>1, <1>2
  <2>3. \A v \in Workers : Waiting(queue[v], conn', v)
    BY <2>1, <2>2, SameQueue
  <2> QED BY <1>1, <2>3, QueuedIsWaiting
<1>7. TableHoldsTheLiving'
  <2>1. \A v \in Workers, g \in Fds : connections_[v][g] # None => connections_[v][g] \in Conns
    BY DEF Inv, TypeOK
  <2>2. \A d \in Conns : conn'[d].worker = conn[d].worker /\ conn'[d].fd = conn[d].fd /\ (Lives(d)' <=> Lives(d))
    BY <1>1, <1>2 DEF Lives
  <2>3. \A v \in Workers : /\ at'[v] = "release" <=> at[v] = "release"
                           /\ at[v] = "release" => cur'[v] = cur[v]
    BY <1>1, <1>3
  <2>4. \A d \in Conns : conn[d].worker \in Workers
    BY DEF Inv, TypeOK, Connection
  <2>5. \A v \in Workers, g \in Fds : connections_'[v][g] # None =>
          LET r == conn'[connections_'[v][g]]
          IN  r.state \in {"Connected", "Disconnected"} /\ r.worker = v /\ r.fd = g
    BY <1>1, <1>2, <2>1, <2>2 DEF Inv, TableHoldsTheLiving
  <2> QED BY <1>1, <2>2, <2>3, <2>4, <2>5 DEF Inv, TableHoldsTheLiving
<1>8. HandledByItsWorker'
  <2>1. ASSUME NEW v \in Workers \ {w}, at[v] # "loop" PROVE cur[v] \in Conns \ {c}
    <3>1. cur[v] \in Conns
      BY <2>1 DEF Inv, TypeOK, HandledByItsWorker
    <3>2. conn[cur[v]].worker = v
      BY <2>1 DEF Inv, HandledByItsWorker
    <3> QED BY <1>1, <3>1, <3>2
  <2>2. ASSUME NEW v \in Workers
        PROVE  /\ at'[v] = "loop" <=> cur'[v] = None
               /\ at'[v] # "loop" => /\ thread'[v] = "looping" /\ conn'[cur'[v]].worker = v
                                     /\ conn'[cur'[v]].state = IF at'[v] \in {"emplace", "handle"}
                                                               THEN "Connected" ELSE "Disconnected"
    <3>1. CASE v = w
      BY <1>1, <1>2, <1>3, <3>1, Constants
    <3>2. CASE v # w
      <4>1. at'[v] = at[v] /\ cur'[v] = cur[v] /\ thread'[v] = thread[v]
        BY <1>1, <1>3, <3>2
      <4>2. at[v] # "loop" => conn'[cur[v]] = conn[cur[v]]
        BY <1>2, <2>1, <3>2
      <4> QED BY <4>1, <4>2 DEF Inv, HandledByItsWorker
    <3> QED BY <3>1, <3>2
  <2>3. ASSUME NEW d \in Conns \ {c}, conn[d].state = "Disconnected" PROVE conn[d].worker # w
    <3>1. cur[conn[d].worker] = d
      BY <2>3 DEF Inv, HandledByItsWorker
    <3> QED BY <1>1, <2>3, <3>1, Constants DEF Inv, HandledByItsWorker
  <2>4. ASSUME NEW d \in Conns, conn'[d].state = "Disconnected" PROVE cur'[conn'[d].worker] = d
    <3>1. CASE d = c
      BY <1>2, <1>3, <3>1
    <3>2. CASE d # c
      <4>1. conn'[d] = conn[d] /\ conn[d].worker \in Workers \ {w}
        BY <1>2, <2>3, <2>4, <3>2 DEF Inv, TypeOK, Connection
      <4> QED BY <1>3, <2>4, <4>1 DEF Inv, HandledByItsWorker
    <3> QED BY <3>1, <3>2
  <2> QED BY <2>2, <2>4 DEF HandledByItsWorker
<1>9. LoopsInUseLive'
  BY <1>1 DEF Inv, LoopsInUseLive, Started, Asked, Joined
<1> QED BY <1>4, <1>5, <1>6, <1>7, <1>8, <1>9 DEF Inv

(* Taking a closed connection out of the table. *)
LEMMA RemoveConnectionKeeps == ASSUME Inv, NEW w \in Workers, RemoveConnection(w) PROVE Inv'
<1> DEFINE c == cur[w]
           f == conn[c].fd
<1>1. /\ UNCHANGED <<main, turn, next_, thread, queue, conn, contexts_>>
      /\ at[w] = "remove" /\ thread[w] = "looping" /\ c \in Conns
      /\ conn[c].state = "Disconnected" /\ conn[c].worker = w
  <2>1. at[w] = "remove" /\ UNCHANGED <<main, turn, next_, thread, queue, conn, contexts_>>
    BY DEF RemoveConnection, mainVars
  <2> QED BY <2>1 DEF Inv, TypeOK, HandledByItsWorker
<1>2. f \in Fds
  BY <1>1 DEF Inv, NothingShared, Open
<1>3. /\ at' = [at EXCEPT ![w] = "release"] /\ UNCHANGED cur
      /\ connections_' = [connections_ EXCEPT ![w][f] = None]
  BY DEF RemoveConnection, Goto, Inv, TypeOK
<1>4. /\ connections_' \in [Workers -> [Fds -> Conns \cup {None}]]
      /\ \A v \in Workers, g \in Fds :
            connections_'[v][g] = IF v = w /\ g = f THEN None ELSE connections_[v][g]
  BY <1>2, <1>3 DEF Inv, TypeOK
<1> HIDE DEF c, f
<1>5. TypeOK'
  BY <1>1, <1>3, <1>4 DEF Inv, TypeOK
<1>6. (NothingShared /\ QueuedOnce)'
  BY <1>1 DEF Inv, NothingShared, QueuedOnce, Open, Lives
<1>7. TableHoldsTheLiving'
  <2>1. \A d \in Conns : Lives(d) => conn[d].worker \in Workers /\ conn[d].fd \in Fds
    BY DEF Inv, TypeOK, Connection, NothingShared, Open, Lives
  <2>2. \A d \in Conns \ {c} : Lives(d) => conn[d].fd # f
    BY <1>1 DEF Inv, NothingShared, Open, Lives, f
  <2>3. ASSUME NEW d \in Conns, Lives(d)
        PROVE  connections_'[conn[d].worker][conn[d].fd] =
                 IF at'[conn[d].worker] = "release" /\ cur[conn[d].worker] = d THEN None ELSE d
    <3>1. CASE d = c
      <4>1. conn[d].worker = w /\ conn[d].fd = f /\ cur[w] = d /\ at'[w] = "release"
        BY <1>1, <1>3, <3>1 DEF c, f, Inv, TypeOK
      <4> QED BY <1>2, <1>4, <4>1
    <3>2. CASE d # c
      <4>1. connections_'[conn[d].worker][conn[d].fd] = connections_[conn[d].worker][conn[d].fd]
        BY <1>4, <2>1, <2>2, <2>3, <3>2
      <4>2. at'[conn[d].worker] = "release" /\ cur[conn[d].worker] = d <=>
            at[conn[d].worker] = "release" /\ cur[conn[d].worker] = d
        BY <1>3, <2>1, <2>3, <3>2 DEF c, Inv, TypeOK
      <4> QED BY <2>3, <4>1, <4>2 DEF Inv, TableHoldsTheLiving
    <3> QED BY <3>1, <3>2
  <2>4. \A v \in Workers, g \in Fds : connections_'[v][g] # None =>
          LET r == conn[connections_'[v][g]]
          IN  r.state \in {"Connected", "Disconnected"} /\ r.worker = v /\ r.fd = g
    BY <1>4 DEF Inv, TableHoldsTheLiving
  <2> QED BY <1>1, <1>3, <2>3, <2>4 DEF TableHoldsTheLiving, Lives
<1>8. HandledByItsWorker'
  BY <1>1, <1>3, Constants DEF Inv, TypeOK, HandledByItsWorker, c
<1>9. LoopsInUseLive'
  BY <1>1 DEF Inv, LoopsInUseLive, Started, Asked, Joined
<1> QED BY <1>5, <1>6, <1>7, <1>8, <1>9 DEF Inv

(* Destroying a connection that no table holds. *)
LEMMA ReleaseKeeps == ASSUME Inv, NEW w \in Workers, Release(w) PROVE Inv'
<1> DEFINE c == cur[w]
<1>1. /\ UNCHANGED <<main, turn, next_, thread, queue, connections_, contexts_>>
      /\ at[w] = "release" /\ c \in Conns
      /\ conn[c].state = "Disconnected" /\ conn[c].worker = w
  <2>1. at[w] = "release" /\ UNCHANGED <<main, turn, next_, thread, queue, connections_, contexts_>>
    BY DEF Release, mainVars
  <2> QED BY <2>1 DEF Inv, TypeOK, HandledByItsWorker
<1>2. /\ conn' \in [Conns -> Connection] /\ conn'[c].state = "destroyed"
      /\ \A d \in Conns \ {c} : conn'[d] = conn[d]
  <2>1. conn[c] \in Connection /\ conn \in [Conns -> Connection]
    BY <1>1 DEF Inv, TypeOK
  <2>2. conn' = [conn EXCEPT ![c] = [conn[c] EXCEPT !.state = "destroyed"]]
    BY DEF Release
  <2> HIDE DEF c
  <2> QED BY <1>1, <2>1, <2>2 DEF Connection
<1>3. /\ at' \in [Workers -> {"loop", "emplace", "handle", "erase", "remove", "release"}]
      /\ cur' \in [Workers -> Conns \cup {None}]
      /\ at'[w] = "loop" /\ cur'[w] = None
      /\ \A v \in Workers \ {w} : at'[v] = at[v] /\ cur'[v] = cur[v]
  BY DEF Release, Goto, Inv, TypeOK
<1>4. connections_[w][conn[c].fd] = None
  BY <1>1 DEF Inv, TableHoldsTheLiving, Lives
<1> HIDE DEF c
<1>5. TypeOK'
  BY <1>1, <1>2, <1>3 DEF Inv, TypeOK
<1>6. NothingShared'
  BY <1>2 DEF Inv, NothingShared, Open, Lives
<1>7. QueuedOnce'
  <2>1. \A v \in Workers : queue[v] \in Queues /\ Waiting(queue[v], conn, v)
    BY QueuedIsWaiting DEF Inv, TypeOK, Queues
  <2>2. \A d \in Conns : conn'[d] = conn[d] \/ (conn[d].state # "queued" /\ conn'[d].state # "queued")
    BY <1>1, <1>2
  <2>3. \A v \in Workers : Waiting(queue[v], conn', v)
    BY <2>1, <2>2, SameQueue
  <2> QED BY <1>1, <2>3, QueuedIsWaiting
<1>8. TableHoldsTheLiving'
  <2>1. ASSUME NEW v \in Workers, NEW g \in Fds, connections_[v][g] # None
        PROVE  connections_[v][g] \in Conns \ {c}
    <3>1. connections_[v][g] \in Conns
      BY <2>1 DEF Inv, TypeOK
    <3>2. conn[connections_[v][g]].worker = v /\ conn[connections_[v][g]].fd = g
      BY <2>1 DEF Inv, TableHoldsTheLiving
    <3> QED BY <1>1, <1>4, <2>1, <3>1, <3>2
  <2>2. \A v \in Workers, g \in Fds : connections_'[v][g] # None =>
          LET r == conn'[connections_'[v][g]]
          IN  r.state \in {"Connected", "Disconnected"} /\ r.worker = v /\ r.fd = g
    BY <1>1, <1>2, <2>1 DEF Inv, TableHoldsTheLiving
  <2>3. ASSUME NEW d \in Conns, Lives(d)'
        PROVE  connections_[conn'[d].worker][conn'[d].fd] =
                 IF at'[conn'[d].worker] = "release" /\ cur'[conn'[d].worker] = d THEN None ELSE d
    <3>1. d # c /\ conn'[d] = conn[d] /\ Lives(d) /\ conn[d].worker \in Workers
      BY <1>2, <2>3 DEF Lives, Inv, TypeOK, Connection
    <3>2. at'[conn[d].worker] = "release" /\ cur'[conn[d].worker] = d <=>
          at[conn[d].worker] = "release" /\ cur[conn[d].worker] = d
      BY <1>3, <3>1 DEF c
    <3> QED BY <3>1, <3>2 DEF Inv, TableHoldsTheLiving
  <2> QED BY <1>1, <2>2, <2>3 DEF TableHoldsTheLiving
<1>9. HandledByItsWorker'
  <2>1. ASSUME NEW v \in Workers \ {w}, at[v] # "loop" PROVE cur[v] \in Conns \ {c}
    <3>1. cur[v] \in Conns
      BY <2>1 DEF Inv, TypeOK, HandledByItsWorker
    <3>2. conn[cur[v]].worker = v
      BY <2>1 DEF Inv, HandledByItsWorker
    <3> QED BY <1>1, <3>1, <3>2
  <2>2. ASSUME NEW v \in Workers
        PROVE  /\ at'[v] = "loop" <=> cur'[v] = None
               /\ at'[v] # "loop" => /\ thread'[v] = "looping" /\ conn'[cur'[v]].worker = v
                                     /\ conn'[cur'[v]].state = IF at'[v] \in {"emplace", "handle"}
                                                               THEN "Connected" ELSE "Disconnected"
    <3>1. CASE v = w
      BY <1>3, <3>1
    <3>2. CASE v # w
      <4>1. at'[v] = at[v] /\ cur'[v] = cur[v] /\ thread'[v] = thread[v]
        BY <1>1, <1>3, <3>2
      <4>2. at[v] # "loop" => conn'[cur[v]] = conn[cur[v]]
        BY <1>2, <2>1, <3>2
      <4> QED BY <4>1, <4>2 DEF Inv, HandledByItsWorker
    <3> QED BY <3>1, <3>2
  <2>3. ASSUME NEW d \in Conns, conn'[d].state = "Disconnected" PROVE cur'[conn'[d].worker] = d
    <3>1. d # c /\ conn'[d] = conn[d] /\ conn[d].worker \in Workers
      BY <1>2, <2>3 DEF Inv, TypeOK, Connection
    <3>2. cur[conn[d].worker] = d
      BY <2>3, <3>1 DEF Inv, HandledByItsWorker
    <3> QED BY <1>3, <3>1, <3>2 DEF c
  <2> QED BY <2>2, <2>3 DEF HandledByItsWorker
<1>10. LoopsInUseLive'
  BY <1>1 DEF Inv, LoopsInUseLive, Started, Asked, Joined
<1> QED BY <1>5, <1>6, <1>7, <1>8, <1>9, <1>10 DEF Inv

-----------------------------------------------------------------------------
(* The whole.                                                              *)

(* Nothing is open before the first worker is started. *)
LEMMA InitEstablishes == Init => Inv
<1> SUFFICES ASSUME Init PROVE Inv
  OBVIOUS
<1>1. TypeOK
  BY Constants DEF Init, TypeOK, NoConnection, Connection, Workers
<1>2. NothingShared /\ QueuedOnce /\ TableHoldsTheLiving
  BY DEF Init, NothingShared, QueuedOnce, TableHoldsTheLiving, NoConnection, Open, Lives
<1>3. HandledByItsWorker
  BY DEF Init, HandledByItsWorker, NoConnection
<1>4. LoopsInUseLive
  BY DEF Init, LoopsInUseLive, Started, Asked, Joined, Workers
<1> QED BY <1>1, <1>2, <1>3, <1>4 DEF Inv

LEMMA NextKeeps == Inv /\ [Next]_vars => Inv'
<1> SUFFICES ASSUME Inv, [Next]_vars PROVE Inv'
  OBVIOUS
<1>1. CASE MainStep \/ LoopEnds
  BY <1>1, StartWorkerKeeps, MainOnlyKeeps, ShutdownWorkerKeeps DEF MainStep
<1>2. ASSUME NEW c \in Conns, NEW f \in Fds, Accept(c, f) PROVE Inv'
  BY <1>2, AcceptKeeps
<1>3. ASSUME NEW w \in Workers, RunFunctor(w) PROVE Inv'
  BY <1>3, AddConnectionKeeps, RunQuitKeeps DEF RunFunctor
<1>4. ASSUME NEW w \in Workers, ThreadStep(w) PROVE Inv'
  BY <1>4, EndThreadKeeps, HandlerKeeps, RemoveConnectionKeeps, ReleaseKeeps DEF ThreadStep
<1>5. ASSUME NEW w \in Workers, NEW c \in Conns, OnMessage(w, c) \/ HandleClose(w, c) PROVE Inv'
  BY <1>5, HandlerKeeps, HandleCloseKeeps
<1>6. ASSUME NEW v \in Workers, NEW w \in Workers, Race(v, w) PROVE Inv'
  BY <1>6, MainOnlyKeeps
<1>7. CASE UNCHANGED vars
  BY <1>7 DEF vars, mainVars, workerVars, Inv, TypeOK, NothingShared, QueuedOnce, TableHoldsTheLiving,
     HandledByItsWorker, LoopsInUseLive, Open, Lives, Started, Asked, Joined
<1> QED BY <1>1, <1>2, <1>3, <1>4, <1>5, <1>6, <1>7 DEF Next

(* Descriptors, objects, queues and tables agree in every reachable state,   *)
(* for any number of workers and connections: no descriptor is dealt out to *)
(* two, none is lost in a queue, no table keeps a closed one, and no loop   *)
(* is used before it is started or after it has been told to quit.          *)
THEOREM Invariance == Spec => []Inv
BY InitEstablishes, NextKeeps, PTL DEF Spec

-----------------------------------------------------------------------------
(* The contexts of HttpHandler.                                            *)

(* A connection whose handler is at work has no context under another key. *)
LEMMA ContextFacts ==
  ASSUME Inv, ContextsOfTheLiving
  PROVE  /\ \A a \in Addrs : contexts_[a] # None =>
               /\ contexts_[a] \in Conns /\ Lives(contexts_[a])
               /\ conn[contexts_[a]].addr = a /\ conn[contexts_[a]].handler
         /\ \A w \in Workers : at[w] # "loop" =>
               /\ cur[w] \in Conns /\ Lives(cur[w]) /\ conn[cur[w]].addr \in Addrs
               /\ \A a \in Addrs : contexts_[a] = cur[w] => a = conn[cur[w]].addr
         /\ \A w \in Workers : \A v \in Workers \ {w} : at[w] # "loop" /\ at[v] # "loop" =>
               cur[w] # cur[v] /\ conn[cur[w]].addr # conn[cur[v]].addr
<1>1. \A a \in Addrs : contexts_[a] # None => contexts_[a] \in Conns
  BY DEF Inv, TypeOK
<1>2. \A w \in Workers : at[w] # "loop" => cur[w] \in Conns /\ conn[cur[w]].worker = w /\ Lives(cur[w])
  BY DEF Inv, TypeOK, HandledByItsWorker, Lives
<1>3. /\ \A c \in Conns : Lives(c) => conn[c].addr \in Addrs
      /\ \A c, d \in Conns : c # d /\ Lives(c) /\ Lives(d) => conn[c].addr # conn[d].addr
  BY DEF Inv, NothingShared
<1> QED BY <1>1, <1>2, <1>3, Constants DEF ContextsOfTheLiving

(* Steps that leave the contexts, the handlers' places and the connections  *)
(* that live as they are.                                                   *)
LEMMA ContextsUntouched ==
  ASSUME Inv, ContextsOfTheLiving, UNCHANGED <<at, cur, contexts_>>,
         \A c \in Conns : Lives(c) => conn'[c] = conn[c]
  PROVE  ContextsOfTheLiving'
BY ContextFacts DEF ContextsOfTheLiving, Lives

(* The steps of one handler, with the connection it works on. *)
LEMMA HandlerKeepsContexts ==
  ASSUME Inv, Inv', ContextsOfTheLiving, NEW w \in Workers,
         \/ \E c \in Conns : OnMessage(w, c) \/ HandleClose(w, c)
         \/ Emplace(w) \/ Handled(w) \/ Erase(w) \/ RemoveConnection(w) \/ Release(w)
  PROVE  ContextsOfTheLiving'
<1> USE ContextFacts
<1>0. at \in [Workers -> {"loop", "emplace", "handle", "erase", "remove", "release"}]
      /\ cur \in [Workers -> Conns \cup {None}] /\ conn \in [Conns -> Connection]
      /\ contexts_ \in [Addrs -> Conns \cup {None}]
  BY DEF Inv, TypeOK
<1>1. ASSUME NEW c \in Conns, OnMessage(w, c) PROVE ContextsOfTheLiving'
  <2>1. /\ conn' = [conn EXCEPT ![c] = [conn[c] EXCEPT !.handler = TRUE]]
        /\ at' = [at EXCEPT ![w] = "emplace"] /\ cur' = [cur EXCEPT ![w] = c] /\ UNCHANGED contexts_
    BY <1>1 DEF OnMessage, Goto
  <2>2. /\ conn'[c].handler /\ \A d \in Conns : /\ conn'[d].state = conn[d].state /\ conn'[d].addr = conn[d].addr
                                                /\ conn[d].handler => conn'[d].handler
    BY <1>0, <2>1 DEF Connection
  <2> QED BY <1>0, <2>1, <2>2 DEF ContextsOfTheLiving, Lives
<1>2. ASSUME NEW c \in Conns, HandleClose(w, c) PROVE ContextsOfTheLiving'
  <2>1. /\ conn' = [conn EXCEPT ![c] = [conn[c] EXCEPT !.state = "Disconnected"]]
        /\ at' = [at EXCEPT ![w] = IF conn[c].handler THEN "erase" ELSE "remove"]
        /\ cur' = [cur EXCEPT ![w] = c] /\ UNCHANGED contexts_ /\ Lives(c)
    BY <1>2 DEF HandleClose, Goto, Lives
  <2>2. \A d \in Conns : /\ Lives(d) => Lives(d)' /\ conn'[d].addr = conn[d].addr
                         /\ conn'[d].handler = conn[d].handler
    BY <1>0, <2>1 DEF Connection, Lives
  <2> QED BY <1>0, <2>1, <2>2, Constants DEF ContextsOfTheLiving
<1>3. CASE Emplace(w)
  <2>1. /\ at[w] = "emplace" /\ at' = [at EXCEPT ![w] = "handle"] /\ UNCHANGED <<cur, conn>>
        /\ contexts_' = [contexts_ EXCEPT ![conn[cur[w]].addr] = IF @ = None THEN cur[w] ELSE @]
    BY <1>0, <1>3 DEF Emplace, Goto
  <2>2. contexts_[conn[cur[w]].addr] \in {None, cur[w]}
    BY <2>1 DEF Inv, NothingShared
  <2>3. \A a \in Addrs : contexts_'[a] = IF a = conn[cur[w]].addr THEN cur[w] ELSE contexts_[a]
    BY <1>0, <2>1, <2>2
  <2>4. conn[cur[w]].handler /\ Lives(cur[w]) /\ at[w] # "loop"
    BY <2>1 DEF ContextsOfTheLiving
  <2>5. ASSUME NEW a \in Addrs, contexts_'[a] # None
        PROVE  Lives(contexts_'[a]) /\ conn[contexts_'[a]].addr = a /\ conn[contexts_'[a]].handler
    BY <2>3, <2>4, <2>5
  <2>6. ASSUME NEW v \in Workers
        PROVE  /\ at'[v] \in {"emplace", "handle", "erase"} => conn[cur[v]].handler
               /\ at'[v] = "handle" => contexts_'[conn[cur[v]].addr] = cur[v]
               /\ at'[v] \in {"remove", "release"} => \A a \in Addrs : contexts_'[a] # cur[v]
    <3>1. CASE v = w
      BY <1>0, <2>1, <2>3, <2>4, <3>1
    <3>2. CASE v # w
      <4>1. at'[v] = at[v]
        BY <1>0, <2>1, <3>2
      <4>2. at[v] # "loop" => cur[v] # cur[w] /\ conn[cur[v]].addr # conn[cur[w]].addr
                              /\ conn[cur[v]].addr \in Addrs
        BY <2>4, <3>2
      <4> QED BY <2>3, <4>1, <4>2 DEF ContextsOfTheLiving
    <3> QED BY <3>1, <3>2
  <2>7. conn' = conn /\ cur' = cur
    BY <2>1
  <2> QED BY <2>5, <2>6, <2>7 DEF ContextsOfTheLiving, Lives
<1>4. CASE Handled(w)
  BY <1>0, <1>4 DEF Handled, Goto, ContextsOfTheLiving, Lives
<1>5. CASE Erase(w)
  <2>1. /\ at[w] = "erase" /\ at' = [at EXCEPT ![w] = "remove"] /\ UNCHANGED <<cur, conn>>
        /\ contexts_' = [contexts_ EXCEPT ![conn[cur[w]].addr] = None]
    BY <1>0, <1>5 DEF Erase, Goto
  <2>2. \A a \in Addrs : contexts_'[a] = IF a = conn[cur[w]].addr THEN None ELSE contexts_[a]
    BY <1>0, <2>1
  <2> QED BY <1>0, <2>1, <2>2, Constants DEF ContextsOfTheLiving, Lives
<1>6. CASE RemoveConnection(w)
  <2>1. at[w] = "remove" /\ at' = [at EXCEPT ![w] = "release"] /\ UNCHANGED <<cur, conn, contexts_>>
    BY <1>0, <1>6 DEF RemoveConnection, Goto
  <2> QED BY <1>0, <2>1 DEF ContextsOfTheLiving, Lives
<1>7. CASE Release(w)
  <2>1. /\ at[w] = "release" /\ UNCHANGED contexts_
        /\ conn' = [conn EXCEPT ![cur[w]] = [conn[cur[w]] EXCEPT !.state = "destroyed"]]
        /\ at' = [at EXCEPT ![w] = "loop"] /\ cur' = [cur EXCEPT ![w] = None]
    BY <1>7 DEF Release, Goto
  <2>2. \A a \in Addrs : contexts_[a] # cur[w]
    BY <2>1 DEF ContextsOfTheLiving
  <2>3. \A d \in Conns \ {cur[w]} : conn'[d] = conn[d]
    BY <1>0, <2>1
  <2> QED BY <1>0, <2>1, <2>2, <2>3 DEF ContextsOfTheLiving, Lives
<1> QED BY <1>1, <1>2, <1>3, <1>4, <1>5, <1>6, <1>7

LEMMA NextKeepsContexts == Inv /\ Inv' /\ ContextsOfTheLiving /\ [Next]_vars => ContextsOfTheLiving'
<1> SUFFICES ASSUME Inv, Inv', ContextsOfTheLiving, [Next]_vars PROVE ContextsOfTheLiving'
  OBVIOUS
<1>1. CASE MainStep \/ LoopEnds \/ (\E w \in Workers : RunQuit(w) \/ EndThread(w) \/ \E v \in Workers : Race(v, w))
           \/ UNCHANGED vars
  <2>1. UNCHANGED <<at, cur, conn, contexts_>>
    BY <1>1 DEF MainStep, StartWorker, Listen, ShutdownWorker, JoinWorker, DestroyPool, LoopEnds,
       RunQuit, EndThread, Race, vars, mainVars, workerVars
  <2> QED BY <2>1, ContextsUntouched
<1>2. ASSUME NEW c \in Conns, NEW f \in Fds, Accept(c, f) PROVE ContextsOfTheLiving'
  <2>1. ~Lives(c) /\ UNCHANGED <<at, cur, contexts_>> /\ \A d \in Conns \ {c} : conn'[d] = conn[d]
    BY <1>2 DEF Accept, Lives, Inv, TypeOK
  <2> QED BY <2>1, ContextsUntouched
<1>3. ASSUME NEW w \in Workers, AddConnection(w) PROVE ContextsOfTheLiving'
  <2> DEFINE c == Head(queue[w])
  <2>1. queue[w] \in Queues /\ queue[w] # <<>> /\ c # Quit
    BY <1>3 DEF AddConnection, Inv, TypeOK, Queues
  <2>2. c \in Conns /\ ~Lives(c)
    BY <2>1, TailFacts DEF Inv, QueuedOnce, Lives
  <2>3. UNCHANGED <<at, cur, contexts_>> /\ \A d \in Conns \ {c} : conn'[d] = conn[d]
    BY <1>3, <2>2 DEF AddConnection, Inv, TypeOK
  <2> QED BY <2>2, <2>3, ContextsUntouched
<1> QED BY <1>1, <1>2, <1>3, HandlerKeepsContexts DEF Next, RunFunctor, ThreadStep

(* A context goes with the connection it was made for, for any number of    *)
(* workers, connections and addresses, however early an address is used     *)
(* again: no connection goes on with what another has sent.                 *)
THEOREM ContextsFollowConnections == Spec => []ContextsOfTheLiving
<1>1. Init => ContextsOfTheLiving
  BY DEF Init, ContextsOfTheLiving
<1> QED BY <1>1, Invariance, NextKeepsContexts, PTL DEF Spec
=============================================================================
