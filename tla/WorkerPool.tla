----------------------------- MODULE WorkerPool -----------------------------
(***************************************************************************)
(* The whole server: main() starts the workers of server/src/WorkerPool.cpp *)
(* one by one, opens the listening socket, and deals the connections its   *)
(* Acceptor accepts out to them; each worker's thread makes, serves and    *)
(* closes its own connections; at last the pool is shut down and           *)
(* destroyed.  Between them the workers share the descriptors of the       *)
(* process, the heap and the map contexts_ of the one HttpHandler.         *)
(*                                                                         *)
(* A worker's queue of functors is the TaskQueue that EventLoop.tla         *)
(* implements, and its thread is started and joined as EventLoopThread.tla *)
(* says; what a connection does between its first request and its end is   *)
(* WorkerLoop.tla's.  Here it shows as the time a handler takes.           *)
(***************************************************************************)
EXTENDS Naturals, Sequences, FiniteSets

CONSTANTS NumWorkers,   \* main's -t
          NumConns,     \* bound: how many connections are accepted
          Fds,          \* the descriptors accept() may return
          Addrs,        \* the addresses make_shared<TcpConnection> may return
          Quit,         \* the functor quit() queues
          None

ASSUME WorkerPoolAssumption ==
    /\ NumWorkers \in Nat \ {0} /\ NumConns \in Nat
    /\ Quit \notin Nat
    /\ None \notin Nat \cup Fds \cup Addrs

Workers == 1..NumWorkers
Conns == 1..NumConns    \* numbered as they are accepted

VARIABLES main,         \* where the main thread stands
          turn,         \* the worker its loops over workers_ come to next
          next_,        \* WorkerPool::next_
          thread,       \* per worker: its loop's thread
          queue,        \* per worker: the functors queued and not yet run
          at, cur,      \* per worker: where its thread stands, with which connection
          conn,         \* per connection: descriptor, worker and TcpConnection
          connections_, \* per worker: Worker::connections_
          contexts_     \* HttpHandler::contexts_: the connection that made the context

mainVars == <<main, turn, next_>>
workerVars == <<thread, queue, at, cur>>
vars == <<mainVars, workerVars, conn, connections_, contexts_>>

(* state: "none", "queued" while only a functor knows the descriptor, then  *)
(* the TcpConnection's own state (Disconnecting counts as Connected), then  *)
(* "destroyed"; addr: where the object lives; handler: is handler_ set?     *)
NoConnection ==
    [state |-> "none", fd |-> None, worker |-> 1, addr |-> None, handler |-> FALSE]

Open(c) == conn[c].state \in {"queued", "Connected", "Disconnected"}
Lives(c) == conn[c].state \in {"Connected", "Disconnected"}

Init ==
    /\ main = "start" /\ turn = 1 /\ next_ = 0
    /\ thread = [w \in Workers |-> "unborn"]
    /\ queue = [w \in Workers |-> <<>>]
    /\ at = [w \in Workers |-> "loop"] /\ cur = [w \in Workers |-> None]
    /\ conn = [c \in Conns |-> NoConnection]
    /\ connections_ = [w \in Workers |-> [f \in Fds |-> None]]
    /\ contexts_ = [a \in Addrs |-> None]

-----------------------------------------------------------------------------
(* The main thread.                                                        *)

(* The loops over workers_: the next worker, or the next thing to do. *)
ForEachWorker(here, next) ==
    /\ main = here
    /\ turn' = IF turn = NumWorkers THEN 1 ELSE turn + 1
    /\ main' = IF turn = NumWorkers THEN next ELSE here

(* WorkerPool::start: startLoop() returns when the worker's loop exists. *)
StartWorker ==
    /\ ForEachWorker("start", "listen")
    /\ thread' = [thread EXCEPT ![turn] = "looping"]
    /\ UNCHANGED <<next_, queue, at, cur, conn, connections_, contexts_>>

(* The Acceptor's socket.  When one of createListenSocket's calls fails the *)
(* descriptor is -1, epoll refuses it and the main loop runs for nothing.   *)
Listen ==
    /\ main = "listen"
    /\ main' \in {"accept", "deaf"}
    /\ UNCHANGED <<turn, next_, workerVars, conn, connections_, contexts_>>

(* A mutant of Dispatch: next_ is not set back to 0. *)
DispatchNoWrap(c) ==
    /\ queue' = [queue EXCEPT ![next_ + 1] = Append(@, c)]
    /\ next_' = next_ + 1

(* WorkerPool::dispatch: round robin. *)
Dispatch(c) ==
    /\ queue' = [queue EXCEPT ![next_ + 1] = Append(@, c)]
    /\ next_' = IF next_ + 1 >= NumWorkers THEN 0 ELSE next_ + 1

(* Acceptor::handleRead: the connection accepted is given to the next       *)
(* worker.  Without a free descriptor accept() fails and nothing changes.   *)
Accept(c, f) ==
    /\ main = "accept"
    /\ conn[c].state = "none" /\ \A d \in Conns : d < c => conn[d].state # "none"
    /\ \A d \in Conns : Open(d) => conn[d].fd # f
    /\ conn' = [conn EXCEPT ![c].state = "queued", ![c].fd = f, ![c].worker = next_ + 1]
    /\ Dispatch(c)
    /\ UNCHANGED <<main, turn, thread, at, cur, connections_, contexts_>>

(* mainLoop.loop() returns, if somebody calls quit() on the main loop, and  *)
(* main() goes on to the destructors: the Acceptor is gone.                 *)
LoopEnds ==
    /\ main \in {"accept", "deaf"}
    /\ main' = "quit"
    /\ UNCHANGED <<turn, next_, workerVars, conn, connections_, contexts_>>

(* A mutant of ShutdownWorker: the last worker is not asked to quit. *)
ShutdownWorkerButLast ==
    /\ ForEachWorker("quit", "join")
    /\ queue' = [queue EXCEPT ![turn] = IF turn = NumWorkers THEN @ ELSE Append(@, Quit)]
    /\ UNCHANGED <<next_, thread, at, cur, conn, connections_, contexts_>>

(* WorkerPool::shutdown, called by the destructor, asks every worker ... *)
ShutdownWorker ==
    /\ ForEachWorker("quit", "join")
    /\ queue' = [queue EXCEPT ![turn] = Append(@, Quit)]
    /\ UNCHANGED <<next_, thread, at, cur, conn, connections_, contexts_>>

(* ... and then waits for every worker. *)
JoinWorker ==
    /\ thread[turn] = "dead"
    /\ ForEachWorker("join", "destroy")
    /\ UNCHANGED <<next_, workerVars, conn, connections_, contexts_>>

(* The workers' connections_ are destroyed: ~TcpConnection asserts that the *)
(* connection is Disconnected.                                              *)
DestroyPool ==
    /\ main = "destroy"
    /\ main' = IF \E c \in Conns : Lives(c) THEN "aborted" ELSE "returned"
    /\ UNCHANGED <<turn, next_, workerVars, conn, connections_, contexts_>>

-----------------------------------------------------------------------------
(* A worker's thread.                                                      *)

(* In loop(), between two handlers. *)
InLoop(w) == thread[w] = "looping" /\ at[w] = "loop"

Goto(w, where, c) ==
    /\ at' = [at EXCEPT ![w] = where]
    /\ cur' = [cur EXCEPT ![w] = c]

(* Worker::addConnection's functor: the TcpConnection is allocated where    *)
(* there is room, entered under its descriptor and established.             *)
AddConnection(w) ==
    /\ InLoop(w) /\ queue[w] # <<>> /\ Head(queue[w]) # Quit
    /\ LET c == Head(queue[w]) IN
       \E a \in Addrs :
         /\ \A d \in Conns : Lives(d) => conn[d].addr # a
         /\ conn' = [conn EXCEPT ![c].state = "Connected", ![c].addr = a]
         /\ connections_' = [connections_ EXCEPT ![w][conn[c].fd] = c]
    /\ queue' = [queue EXCEPT ![w] = Tail(@)]
    /\ UNCHANGED <<mainVars, thread, at, cur, contexts_>>

(* Quit's functor sets quit_; nothing was queued after it, and loop()       *)
(* returns.                                                                 *)
RunQuit(w) ==
    /\ InLoop(w) /\ queue[w] # <<>> /\ Head(queue[w]) = Quit
    /\ queue' = [queue EXCEPT ![w] = Tail(@)]
    /\ thread' = [thread EXCEPT ![w] = "quitting"]
    /\ UNCHANGED <<mainVars, at, cur, conn, connections_, contexts_>>

(* A mutant of EndThread: quit() sets quit_ at once, so loop() returns as   *)
(* soon as quit() was called.                                               *)
EndThreadEarly(w) ==
    /\ InLoop(w) /\ \E i \in 1..Len(queue[w]) : queue[w][i] = Quit
    /\ thread' = [thread EXCEPT ![w] = "dead"]
    /\ UNCHANGED <<mainVars, queue, at, cur, conn, connections_, contexts_>>

EndThread(w) ==
    /\ thread[w] = "quitting"
    /\ thread' = [thread EXCEPT ![w] = "dead"]
    /\ UNCHANGED <<mainVars, queue, at, cur, conn, connections_, contexts_>>

(* The first input of a connection: its handler is chosen, and onMessage    *)
(* goes into contexts_; later input finds its entry there.                  *)
OnMessage(w, c) ==
    /\ InLoop(w) /\ conn[c].worker = w /\ conn[c].state = "Connected"
    /\ conn' = [conn EXCEPT ![c].handler = TRUE]
    /\ Goto(w, "emplace", c)
    /\ UNCHANGED <<mainVars, thread, queue, connections_, contexts_>>

(* contexts_.emplace leaves an entry that is there as it is. *)
Emplace(w) ==
    /\ at[w] = "emplace"
    /\ contexts_' = [contexts_ EXCEPT ![conn[cur[w]].addr] = IF @ = None THEN cur[w] ELSE @]
    /\ Goto(w, "handle", cur[w])
    /\ UNCHANGED <<mainVars, thread, queue, conn, connections_>>

(* The responses are made and sent, for as long as send() blocks. *)
Handled(w) ==
    /\ at[w] = "handle"
    /\ Goto(w, "loop", None)
    /\ UNCHANGED <<mainVars, thread, queue, conn, connections_, contexts_>>

(* handleClose, for whatever reason, once per connection. *)
HandleClose(w, c) ==
    /\ \/ InLoop(w) /\ conn[c].worker = w
       \/ at[w] = "handle" /\ cur[w] = c
    /\ conn[c].state = "Connected"
    /\ conn' = [conn EXCEPT ![c].state = "Disconnected"]
    /\ Goto(w, IF conn[c].handler THEN "erase" ELSE "remove", c)
    /\ UNCHANGED <<mainVars, thread, queue, connections_, contexts_>>

(* A mutant of Erase: onClose leaves the context behind. *)
EraseForgotten(w) ==
    /\ at[w] = "erase"
    /\ Goto(w, "remove", cur[w])
    /\ UNCHANGED <<mainVars, thread, queue, conn, connections_, contexts_>>

(* HttpHandler::onClose *)
Erase(w) ==
    /\ at[w] = "erase"
    /\ contexts_' = [contexts_ EXCEPT ![conn[cur[w]].addr] = None]
    /\ Goto(w, "remove", cur[w])
    /\ UNCHANGED <<mainVars, thread, queue, conn, connections_>>

(* The close callback: Worker::removeConnection. *)
RemoveConnection(w) ==
    /\ at[w] = "remove"
    /\ connections_' = [connections_ EXCEPT ![w][conn[cur[w]].fd] = None]
    /\ Goto(w, "release", cur[w])
    /\ UNCHANGED <<mainVars, thread, queue, conn, contexts_>>

(* The last reference goes: the object is destroyed, its Socket closed.     *)
Release(w) ==
    /\ at[w] = "release"
    /\ conn' = [conn EXCEPT ![cur[w]].state = "destroyed"]
    /\ Goto(w, "loop", None)
    /\ UNCHANGED <<mainVars, thread, queue, connections_, contexts_>>

(* Two threads inside contexts_, which has no lock: one may find the other's *)
(* change half done.  From there on anything may happen; the model goes no  *)
(* further.                                                                 *)
InContexts(w) == at[w] \in {"emplace", "erase"}

Race(v, w) ==
    /\ v # w /\ InContexts(v) /\ InContexts(w)
    /\ main' = "undefined"
    /\ UNCHANGED <<turn, next_, workerVars, conn, connections_, contexts_>>

-----------------------------------------------------------------------------
Running == main \notin {"returned", "aborted", "undefined"}

MainStep ==
    StartWorker \/ Listen \/ ShutdownWorker \/ JoinWorker \/ DestroyPool

(* doPendingFunctors *)
RunFunctor(w) == Running /\ (AddConnection(w) \/ RunQuit(w))

(* What a handler, or loop() when it has been told to quit, does next. *)
ThreadStep(w) ==
    /\ Running
    /\ EndThread(w) \/ Emplace(w) \/ Handled(w) \/ Erase(w) \/ RemoveConnection(w) \/ Release(w)

Next ==
    \/ MainStep \/ LoopEnds
    \/ \E c \in Conns, f \in Fds : Accept(c, f)
    \/ \E w \in Workers :
         \/ RunFunctor(w) \/ ThreadStep(w)
         \/ Running /\ \E c \in Conns : OnMessage(w, c) \/ HandleClose(w, c)
         \/ Running /\ \E v \in Workers : Race(v, w)

Spec == Init /\ [][Next]_vars

(* Every thread goes on when it can, and a handler comes to its end: peers  *)
(* read what they are sent.  Every round of loop() comes to its functors,   *)
(* however much input there is (EventLoop implements the fair TaskQueue),   *)
(* hence the strong fairness.  Nothing makes peers connect, send or close,  *)
(* or ends the main loop.                                                   *)
FairSpec ==
    /\ Spec /\ WF_vars(MainStep)
    /\ \A w \in Workers : WF_vars(ThreadStep(w)) /\ SF_vars(RunFunctor(w))

-----------------------------------------------------------------------------
(* Properties.                                                             *)

Connection ==
    [state : {"none", "queued", "Connected", "Disconnected", "destroyed"},
     fd : Fds \cup {None}, worker : Workers, addr : Addrs \cup {None}, handler : BOOLEAN]

TypeOK ==
    /\ main \in {"start", "listen", "accept", "deaf", "quit", "join", "destroy",
                  "returned", "aborted", "undefined"}
    /\ turn \in Workers /\ next_ \in 0..(NumWorkers - 1)
    /\ thread \in [Workers -> {"unborn", "looping", "quitting", "dead"}]
    /\ queue \in [Workers -> Seq(Conns \cup {Quit})]
    /\ at \in [Workers -> {"loop", "emplace", "handle", "erase", "remove", "release"}]
    /\ cur \in [Workers -> Conns \cup {None}]
    /\ conn \in [Conns -> Connection]
    /\ connections_ \in [Workers -> [Fds -> Conns \cup {None}]]
    /\ contexts_ \in [Addrs -> Conns \cup {None}]

(* An open connection has a descriptor and a live object its memory, and no *)
(* two have the same.                                                       *)
NothingShared ==
    /\ \A c \in Conns : (Open(c) => conn[c].fd \in Fds) /\ (Lives(c) => conn[c].addr \in Addrs)
    /\ \A c, d \in Conns : c # d =>
          /\ Open(c) /\ Open(d) => conn[c].fd # conn[d].fd
          /\ Lives(c) /\ Lives(d) => conn[c].addr # conn[d].addr

(* Until its object exists a descriptor is in the queue of one live worker, *)
(* once, and what is in a queue waits for its object.                       *)
QueuedOnce ==
    \A w \in Workers :
        /\ \A i \in 1..Len(queue[w]) : queue[w][i] # Quit =>
              /\ conn[queue[w][i]].state = "queued" /\ conn[queue[w][i]].worker = w
              /\ \A j \in 1..Len(queue[w]) : queue[w][j] = queue[w][i] => j = i
        /\ \A c \in Conns : conn[c].state = "queued" /\ conn[c].worker = w =>
              \E i \in 1..Len(queue[w]) : queue[w][i] = c

(* A worker's table holds exactly the live connections of this worker, each *)
(* under its descriptor, but for the one just being released: an entry is   *)
(* never overwritten, and no closed descriptor stays in a table.            *)
TableHoldsTheLiving ==
    /\ \A w \in Workers, f \in Fds : connections_[w][f] # None =>
          LET r == conn[connections_[w][f]]
          IN  r.state \in {"Connected", "Disconnected"} /\ r.worker = w /\ r.fd = f
    /\ \A c \in Conns : Lives(c) =>
          connections_[conn[c].worker][conn[c].fd] =
              IF at[conn[c].worker] = "release" /\ cur[conn[c].worker] = c THEN None ELSE c

(* A closed connection is only found in the handler that closes it, and a   *)
(* handler at work has a connection of its own worker.                      *)
HandledByItsWorker ==
    /\ \A w \in Workers :
          /\ at[w] = "loop" <=> cur[w] = None
          /\ at[w] # "loop" => /\ thread[w] = "looping" /\ conn[cur[w]].worker = w
                               /\ conn[cur[w]].state = IF at[w] \in {"emplace", "handle"}
                                                       THEN "Connected" ELSE "Disconnected"
    /\ \A c \in Conns : conn[c].state = "Disconnected" => cur[conn[c].worker] = c

(* Has the worker been started, told to quit, waited for? *)
Started(w) == main # "start" \/ w < turn
Asked(w) == \/ main \in {"join", "destroy", "returned", "aborted", "undefined"}
            \/ main = "quit" /\ w < turn
Joined(w) == \/ main \in {"destroy", "returned", "aborted"}
             \/ main = "join" /\ w < turn

(* Loops are used as long as they live: a worker has one before the first   *)
(* connection is dealt out and until the pool has asked it to quit, which   *)
(* is the last it is asked; what is dealt out by then is in its hands       *)
(* before its thread ends; no thread is left when the pool is destroyed.    *)
LoopsInUseLive ==
    /\ main \in {"listen", "accept", "deaf", "destroy", "returned", "aborted"} => turn = 1
    /\ \A w \in Workers :
          /\ Started(w) /\ ~Asked(w) => thread[w] = "looping"
          /\ queue[w] # <<>> => thread[w] = "looping"
          /\ \A i \in 1..Len(queue[w]) : queue[w][i] = Quit => Asked(w) /\ i = Len(queue[w])
          /\ Joined(w) => thread[w] = "dead"

(* A context belongs to the connection that lives where its key points, and *)
(* goes when this one is closed: a connection allocated where another was   *)
(* never goes on with the request the other began, and one that has been    *)
(* served finds its own again.                                              *)
ContextsOfTheLiving ==
    /\ \A a \in Addrs : contexts_[a] # None =>
          LET c == contexts_[a] IN Lives(c) /\ conn[c].addr = a /\ conn[c].handler
    /\ \A w \in Workers :
          /\ at[w] \in {"emplace", "handle", "erase"} => conn[cur[w]].handler
          /\ at[w] = "handle" => contexts_[conn[cur[w]].addr] = cur[w]
          /\ at[w] \in {"remove", "release"} => \A a \in Addrs : contexts_[a] # cur[w]

Inv == TypeOK /\ NothingShared /\ QueuedOnce /\ TableHoldsTheLiving
       /\ HandledByItsWorker /\ LoopsInUseLive

(* Every connection accepted gets its TcpConnection, even when the pool is  *)
(* shut down meanwhile: no descriptor is left in the queue of a dead loop.  *)
EveryAcceptServed ==
    \A c \in Conns : conn[c].state = "queued" ~>
        conn[c].state # "queued" \/ main = "undefined"

(* Shutting the pool down ends, whichever handlers its workers are in, as   *)
(* long as handlers end (WorkerPool's fairness), and every handler that has *)
(* begun to close a connection destroys it.                                 *)
ShutdownReturns ==
    /\ main = "quit" ~> ~Running
    /\ \A c \in Conns : conn[c].state = "Disconnected" ~> ~Lives(c) \/ ~Running
=============================================================================
