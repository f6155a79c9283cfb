----------------------------- MODULE WorkerLoop -----------------------------
(***************************************************************************)
(* One worker: the thread in EventLoop::loop() and the TcpConnections it   *)
(* owns, with their Channel, buffers, timers and HTTP handler, the kernel  *)
(* (epoll's interest sets, socket buffers) and the peers.  Everything on   *)
(* the server's side happens in the loop's thread, one step of loop() or   *)
(* of a handler at a time; the kernel and the peers move in between.       *)
(*                                                                         *)
(* A request is one token, "keep" or "close" after HttpRequest::keepAlive; *)
(* "part" is input the parser takes without completing a request, "bad" a  *)
(* line it takes and rejects.  A response is the number of its request,    *)
(* and one unit of the socket's send buffer.  The clock is left out: an    *)
(* armed timer becomes due at any time and is handled when loop() reaches  *)
(* handleExpired.                                                          *)
(***************************************************************************)
EXTENDS Naturals, Sequences

CONSTANTS Conns,        \* the descriptors this worker is given
          Tokens,       \* what the peers may send, in {"keep", "close", "part", "bad"}
          MaxTokens,    \* bound: how many tokens a peer sends on a connection
          Room,         \* units the socket's send buffer holds
          NoConn

ASSUME WorkerLoopAssumption ==
    /\ Tokens \subseteq {"keep", "close", "part", "bad"}
    /\ MaxTokens \in Nat /\ Room \in Nat \ {0} /\ NoConn \notin Conns

VARIABLES conn,         \* per descriptor: the TcpConnection and its Channel
          timers,       \* per descriptor: its timers in the TimerQueue
          mask,         \* per descriptor: the interest set epoll holds
          sock,         \* per descriptor: the socket and what the peer did
          pc, cur,      \* where loop() stands, and on which channel
          batch,        \* the active channels still to be handled
          revents       \* Channel::revents_

serverVars == <<conn, timers, mask, pc, cur, batch, revents>>
vars == <<conn, timers, mask, sock, pc, cur, batch, revents>>

(* state: "none" before the connection exists; exists: the object is not    *)
(* destroyed; inbuf, outbuf: the buffers; events: Channel::events_; reason: *)
(* closeReason_; served: how many requests have been answered so far;       *)
(* rejected: has the parser refused input so far?                           *)
NoConnection ==
    [state |-> "none", exists |-> FALSE, inbuf |-> <<>>, outbuf |-> <<>>,
     events |-> {}, reason |-> "None", served |-> 0, rejected |-> FALSE]

(* open: accepted; rx, tx: the kernel's buffers; got: what the peer read;   *)
(* fin, rst: the peer closed or reset; shut: the server's SHUT_WR.          *)
NoSocket ==
    [open |-> FALSE, rx |-> <<>>, tx |-> <<>>, got |-> <<>>, sent |-> 0,
     fin |-> FALSE, rst |-> FALSE, shut |-> FALSE]

Kinds == {"Idle", "Close"}
NoTimers == [k \in Kinds |-> "off"]

Init ==
    /\ conn = [c \in Conns |-> NoConnection]
    /\ timers = [c \in Conns |-> NoTimers]
    /\ mask = [c \in Conns |-> {}]
    /\ sock = [c \in Conns |-> NoSocket]
    /\ pc = "poll" /\ cur = NoConn /\ batch = {}
    /\ revents = [c \in Conns |-> {}]

-----------------------------------------------------------------------------
(* The peers, the clock and the acceptor.                                  *)

(* The main thread accepts a connection and queues addConnection. *)
Accept(c) ==
    /\ ~sock[c].open
    /\ sock' = [sock EXCEPT ![c].open = TRUE]
    /\ UNCHANGED serverVars

PeerOpen(c) == sock[c].open /\ ~sock[c].fin /\ ~sock[c].rst

PeerSend(c, t) ==
    /\ PeerOpen(c) /\ conn[c].state # "Disconnected"
    /\ sock[c].sent < MaxTokens
    /\ sock' = [sock EXCEPT ![c].rx = Append(@, t), ![c].sent = @ + 1]
    /\ UNCHANGED serverVars

PeerRead(c) ==
    /\ sock[c].open /\ ~sock[c].rst /\ sock[c].tx # <<>>
    /\ sock' = [sock EXCEPT ![c].got = Append(@, Head(sock[c].tx)),
                            ![c].tx = Tail(@)]
    /\ UNCHANGED serverVars

(* The peer will not send any more; it may still read. *)
PeerFin(c) ==
    /\ PeerOpen(c) /\ conn[c].state # "Disconnected"
    /\ sock' = [sock EXCEPT ![c].fin = TRUE]
    /\ UNCHANGED serverVars

(* A reset drops what either kernel buffer holds. *)
PeerReset(c) ==
    /\ sock[c].open /\ ~sock[c].rst /\ conn[c].state # "Disconnected"
    /\ sock' = [sock EXCEPT ![c].rst = TRUE, ![c].rx = <<>>, ![c].tx = <<>>]
    /\ UNCHANGED serverVars

Expire(c, k) ==
    /\ timers[c][k] = "armed"
    /\ timers' = [timers EXCEPT ![c][k] = "due"]
    /\ UNCHANGED <<conn, mask, sock, pc, cur, batch, revents>>

-----------------------------------------------------------------------------
(* TcpConnection: opening, closing, timers.                                *)

(* Channel: what the connection asks epoll for. *)
enableWriting(r) == [r EXCEPT !.events = @ \cup {"out"}]
disableWriting(r) == [r EXCEPT !.events = @ \ {"out"}]
disableAll(r) == [r EXCEPT !.events = {}]

(* Epoll: what the kernel is told of it. *)
add(c) == mask' = [mask EXCEPT ![c] = conn'[c].events]
modify(c) == mask' = [mask EXCEPT ![c] = conn[c].events]
remove(c) == mask' = [mask EXCEPT ![c] = {}]

(* Worker::addConnection's functor: the TcpConnection registers its channel *)
(* and becomes Connected with its idle timer armed.                         *)
AddConnection(c) ==
    /\ pc = "functors"
    /\ sock[c].open /\ conn[c].state = "none"
    /\ conn' = [conn EXCEPT ![c].state = "Connected", ![c].exists = TRUE,
                            ![c].events = {"in"}]
    /\ add(c)
    /\ timers' = [timers EXCEPT ![c].Idle = "armed"]
    /\ UNCHANGED <<sock, pc, cur, batch, revents>>

Disconnected(r, reason) ==
    [disableAll(r) EXCEPT !.state = "Disconnected", !.reason = reason]

(* A mutant of HandleClose: the channel stays registered with epoll. *)
HandleCloseRegistered(c, reason) ==
    /\ conn' = [conn EXCEPT ![c] = [Disconnected(@, reason) EXCEPT !.exists = FALSE]]
    /\ timers' = [timers EXCEPT ![c] = NoTimers]
    /\ UNCHANGED mask

(* A mutant of HandleClose: only the idle timer is cancelled. *)
HandleCloseOneTimer(c, reason) ==
    /\ conn' = [conn EXCEPT ![c] = [Disconnected(@, reason) EXCEPT !.exists = FALSE]]
    /\ timers' = [timers EXCEPT ![c].Idle = "off"]
    /\ remove(c)

(* handleClose, where the reference in connections_ is the last one: timers *)
(* cancelled, channel removed from epoll, connection erased and destroyed.  *)
HandleClose(c, reason) ==
    /\ conn' = [conn EXCEPT ![c] = [Disconnected(@, reason) EXCEPT !.exists = FALSE]]
    /\ timers' = [timers EXCEPT ![c] = NoTimers]
    /\ remove(c)

(* forceClose *)
ForceClose(c, reason) == HandleClose(c, reason)

(* A mutant of RefreshedIdle: the old timer is cancelled and none started. *)
RefreshedIdleCancel(c) == [timers EXCEPT ![c].Idle = "off"]

(* refreshIdleTimer: cancel and start again. *)
RefreshedIdle(c) == [timers EXCEPT ![c].Idle = "armed"]

-----------------------------------------------------------------------------
(* epoll_wait.                                                             *)

(* The events epoll would report: EPOLLERR and EPOLLHUP are not asked for,  *)
(* EPOLLRDHUP neither is nor reported.                                      *)
Ready(c) ==
    LET s == sock[c] IN
    {e \in {"err", "in", "hup", "out"} :
        /\ mask[c] # {}
        /\ \/ e = "err" /\ s.rst
           \/ e = "in" /\ (s.rx # <<>> \/ s.fin \/ s.rst)
           \/ e = "hup" /\ (s.rst \/ (s.fin /\ s.shut))
           \/ e = "out" /\ "out" \in mask[c]
                /\ (Len(s.tx) < Room \/ s.shut \/ s.rst)}

Due(c, k) == timers[c][k] = "due"
Waiting(c) == sock[c].open /\ conn[c].state = "none"

(* epoll_wait returns with every ready channel, or because a timer is due,  *)
(* or because the main thread queued a functor and wrote to the eventfd.    *)
Poll ==
    /\ pc = "poll"
    /\ \E c \in Conns : Ready(c) # {} \/ Waiting(c) \/ \E k \in Kinds : Due(c, k)
    /\ batch' = {c \in Conns : Ready(c) # {}}
    /\ revents' = [c \in Conns |-> Ready(c)]
    /\ pc' = "dispatch"
    /\ UNCHANGED <<conn, timers, mask, sock, cur>>

(* The next channel, in whatever order epoll reported them. *)
NextChannel(c) ==
    /\ pc = "dispatch" /\ c \in batch
    /\ batch' = batch \ {c}
    /\ cur' = c
    /\ pc' = "events"
    /\ UNCHANGED <<conn, timers, mask, sock, revents>>

EndBatch ==
    /\ pc = "dispatch" /\ batch = {}
    /\ pc' = "timers"
    /\ UNCHANGED <<conn, timers, mask, sock, cur, batch, revents>>

-----------------------------------------------------------------------------
(* Channel::handleEvents and the handlers it calls.                        *)

At(where, event) == pc = where /\ event \in revents[cur]
Without(event) == event \notin revents[cur]

Goto(where) ==
    /\ pc' = where
    /\ UNCHANGED <<cur, batch, revents>>

HandleError ==
    /\ At("events", "err")
    /\ ForceClose(cur, "Error")
    /\ UNCHANGED sock
    /\ Goto("after")

(* handleRead got data: the idle timer is refreshed before the message is   *)
(* handled.                                                                 *)
ReadData ==
    /\ At("events", "in") /\ Without("err")
    /\ sock[cur].rx # <<>>
    /\ conn' = [conn EXCEPT ![cur].inbuf = @ \o sock[cur].rx]
    /\ sock' = [sock EXCEPT ![cur].rx = <<>>]
    /\ timers' = RefreshedIdle(cur)
    /\ UNCHANGED mask
    /\ Goto("message")

(* readv returned 0, or failed because the peer reset meanwhile. *)
ReadNothing ==
    /\ At("events", "in") /\ Without("err")
    /\ sock[cur].rx = <<>>
    /\ \/ sock[cur].rst /\ ForceClose(cur, "Error")
       \/ ~sock[cur].rst /\ sock[cur].fin /\ HandleClose(cur, conn[cur].reason)
    /\ UNCHANGED sock
    /\ Goto("afterRead")

SkipRead ==
    /\ pc = "events" /\ Without("err") /\ Without("in")
    /\ UNCHANGED <<conn, timers, mask, sock>>
    /\ Goto("afterRead")

-----------------------------------------------------------------------------
(* HttpHandler::onMessage, one request of the input buffer after another.   *)

(* What the parser completes or rejects next, if the input holds it. *)
IsNext(i) ==
    LET in == conn[cur].inbuf
    IN  /\ i \in DOMAIN in /\ in[i] # "part"
        /\ \A j \in 1..(i - 1) : in[j] = "part"

IsRequest(i) == IsNext(i) /\ conn[cur].inbuf[i] # "bad"

(* A mutant of Answered: the request is not taken from the buffer. *)
AnsweredKept(r, i) ==
    [enableWriting(r) EXCEPT !.outbuf = Append(@, r.served + 1), !.served = @ + 1]

(* appendTo and enableOutput, whatever state the connection is in. *)
Answered(r, i) ==
    [enableWriting(r) EXCEPT !.inbuf = SubSeq(@, i + 1, Len(@)),
                             !.outbuf = Append(@, r.served + 1),
                             !.served = @ + 1]

(* A mutant of AnswerRequest: onMessage handles one request and returns. *)
AnswerRequestOnce ==
    /\ pc = "message"
    /\ \E i \in 1..Len(conn[cur].inbuf) :
          /\ IsRequest(i)
          /\ conn[cur].inbuf[i] = "keep" \/ conn[cur].state # "Connected"
          /\ conn' = [conn EXCEPT ![cur] = Answered(@, i)]
    /\ UNCHANGED <<timers, mask, sock>>
    /\ Goto("afterRead")

(* A request that keeps the connection, or any request on a connection that *)
(* is closing already (startDisconnect returns at once).                    *)
AnswerRequest ==
    /\ pc = "message"
    /\ \E i \in 1..Len(conn[cur].inbuf) :
          /\ IsRequest(i)
          /\ conn[cur].inbuf[i] = "keep" \/ conn[cur].state # "Connected"
          /\ conn' = [conn EXCEPT ![cur] = Answered(@, i)]
    /\ UNCHANGED <<timers, mask, sock, pc, cur, batch, revents>>

(* "close" with output still to be sent: startDisconnect leaves the rest to *)
(* handleWrite, with the close timer as a limit.                            *)
AnswerThenDisconnect ==
    /\ pc = "message" /\ conn[cur].state = "Connected" /\ conn[cur].outbuf # <<>>
    /\ \E i \in 1..Len(conn[cur].inbuf) :
          /\ IsRequest(i) /\ conn[cur].inbuf[i] = "close"
          /\ conn' = [conn EXCEPT ![cur] =
                 Answered([@ EXCEPT !.state = "Disconnecting", !.reason = "ServerClose"], i)]
    /\ timers' = [timers EXCEPT ![cur].Close = "armed"]
    /\ UNCHANGED <<mask, sock, pc, cur, batch, revents>>

(* "close" with nothing to be sent: startDisconnect calls handleClose, then *)
(* arms the close timer; only then is the response put in the buffer.  The  *)
(* connection lives on until onMessage drops its reference.                 *)
AnswerAfterClose ==
    /\ pc = "message" /\ conn[cur].state = "Connected" /\ conn[cur].outbuf = <<>>
    /\ \E i \in 1..Len(conn[cur].inbuf) :
          /\ IsRequest(i) /\ conn[cur].inbuf[i] = "close"
          /\ conn' = [conn EXCEPT ![cur] = Answered(Disconnected(@, "ServerClose"), i)]
    /\ timers' = [timers EXCEPT ![cur] = [NoTimers EXCEPT !.Close = "armed"]]
    /\ remove(cur)
    /\ UNCHANGED <<sock, pc, cur, batch, revents>>

(* A connection closed by the handler itself goes when onMessage returns. *)
Released(r) == [r EXCEPT !.exists = @ /\ r.state # "Disconnected"]

(* A mutant of EndMessage: somebody keeps a reference to the connection. *)
EndMessageKept ==
    /\ pc = "message"
    /\ \A i \in 1..Len(conn[cur].inbuf) : ~IsNext(i)
    /\ conn' = [conn EXCEPT ![cur].inbuf = <<>>]
    /\ UNCHANGED <<timers, mask, sock>>
    /\ Goto("afterRead")

(* parseRequest wants more: onMessage returns. *)
EndMessage ==
    /\ pc = "message"
    /\ \A i \in 1..Len(conn[cur].inbuf) : ~IsNext(i)
    /\ conn' = [conn EXCEPT ![cur] = Released([@ EXCEPT !.inbuf = <<>>])]
    /\ UNCHANGED <<timers, mask, sock>>
    /\ Goto("afterRead")

(* parseRequest rejects a line, which is consumed. *)
Rejected(r, i) == [r EXCEPT !.inbuf = SubSeq(@, i + 1, Len(@)), !.rejected = TRUE]

(* onMessage returns with whatever follows the rejected line in the buffer. *)
RejectRequest ==
    /\ pc = "message"
    /\ \E i \in 1..Len(conn[cur].inbuf) :
          /\ IsNext(i) /\ conn[cur].inbuf[i] = "bad"
          /\ conn' = [conn EXCEPT ![cur] = Released(Rejected(@, i))]
    /\ UNCHANGED <<timers, mask, sock>>
    /\ Goto("afterRead")

-----------------------------------------------------------------------------
(* After the read handler: maybeShrinkBuffer and closed_ are read, even of  *)
(* an object that is gone; what its memory holds then may end the process.  *)

(* The channel was destroyed under handleEvents or under loop(). *)
UseDestroyed(where, next) ==
    /\ pc = where /\ ~conn[cur].exists
    /\ pc' \in {next, "crashed"}
    /\ UNCHANGED <<conn, timers, mask, sock, cur, batch, revents>>

HandleHup ==
    /\ At("afterRead", "hup") /\ conn[cur].exists
    /\ HandleClose(cur, conn[cur].reason)
    /\ UNCHANGED sock
    /\ Goto("after")

ToWrite ==
    /\ pc = "afterRead" /\ Without("hup") /\ conn[cur].exists
    /\ UNCHANGED <<conn, timers, mask, sock>>
    /\ Goto(IF "out" \in revents[cur] THEN "write" ELSE "after")

-----------------------------------------------------------------------------
(* TcpConnection::handleWrite.                                             *)

Broken(c) == sock[c].rst \/ sock[c].shut

(* A mutant of SendSome: the sent unit is not retrieved from the buffer. *)
SendSomeKept ==
    /\ pc = "write" /\ conn[cur].outbuf # <<>> /\ ~Broken(cur)
    /\ Len(sock[cur].tx) < Room
    /\ sock' = [sock EXCEPT ![cur].tx = Append(@, Head(conn[cur].outbuf))]
    /\ timers' = RefreshedIdle(cur)
    /\ UNCHANGED <<conn, mask, pc, cur, batch, revents>>

(* One unit goes into the socket.  No socket is ever set non-blocking:      *)
(* send() returns when all units have gone, and until then this is the only *)
(* step the loop can take (handleWrite's EAGAIN branch is never reached).   *)
SendSome ==
    /\ pc = "write" /\ conn[cur].outbuf # <<>> /\ ~Broken(cur)
    /\ Len(sock[cur].tx) < Room
    /\ sock' = [sock EXCEPT ![cur].tx = Append(@, Head(conn[cur].outbuf))]
    /\ conn' = [conn EXCEPT ![cur].outbuf = Tail(@)]
    /\ timers' = RefreshedIdle(cur)
    /\ UNCHANGED <<mask, pc, cur, batch, revents>>

(* EPIPE or ECONNRESET. *)
SendFails ==
    /\ pc = "write" /\ conn[cur].outbuf # <<>> /\ Broken(cur)
    /\ ForceClose(cur, "Error")
    /\ UNCHANGED sock
    /\ Goto("after")

(* A mutant of EndWrite: EPOLLOUT stays enabled. *)
EndWriteEnabled ==
    /\ pc = "write" /\ conn[cur].outbuf = <<>>
    /\ sock' = [sock EXCEPT ![cur].shut = @ \/ conn[cur].state = "Disconnecting"]
    /\ UNCHANGED <<conn, timers, mask>>
    /\ Goto("after")

(* All is sent: no more EPOLLOUT, and SHUT_WR if the connection is closing. *)
EndWrite ==
    /\ pc = "write" /\ conn[cur].outbuf = <<>>
    /\ conn' = [conn EXCEPT ![cur] = disableWriting(@)]
    /\ sock' = [sock EXCEPT ![cur].shut = @ \/ conn[cur].state = "Disconnecting"]
    /\ UNCHANGED <<timers, mask>>
    /\ Goto("after")

-----------------------------------------------------------------------------
(* The rest of loop().                                                     *)

(* epoll_.modify for the channel just handled, when its events changed. *)
UpdateInterest ==
    /\ pc = "after" /\ conn[cur].exists
    /\ modify(cur)
    /\ UNCHANGED <<conn, timers, sock>>
    /\ Goto("dispatch")

(* handleExpired runs a timer that is due: its connection is closed. *)
RunTimer(c, k) ==
    /\ pc = "timers" /\ Due(c, k) /\ conn[c].exists
    /\ ForceClose(c, "Timeout")
    /\ UNCHANGED <<sock, pc, cur, batch, revents>>

(* The timer of a connection that is gone still writes its slot in the      *)
(* destroyed ConnectionTimerManager.                                        *)
RunOrphanTimer(c, k) ==
    /\ pc = "timers" /\ Due(c, k) /\ ~conn[c].exists
    /\ timers' = [timers EXCEPT ![c][k] = "off"]
    /\ pc' \in {"timers", "crashed"}
    /\ UNCHANGED <<conn, mask, sock, cur, batch, revents>>

EndTimers ==
    /\ pc = "timers" /\ \A c \in Conns, k \in Kinds : ~Due(c, k)
    /\ pc' = "functors"
    /\ UNCHANGED <<conn, timers, mask, sock, cur, batch, revents>>

EndFunctors ==
    /\ pc = "functors" /\ \A c \in Conns : ~Waiting(c)
    /\ pc' = "poll"
    /\ cur' = NoConn
    /\ revents' = [c \in Conns |-> {}]
    /\ UNCHANGED <<conn, timers, mask, sock, batch>>

Handle ==
    \/ HandleError \/ ReadData \/ ReadNothing \/ SkipRead
    \/ AnswerRequest \/ AnswerThenDisconnect \/ AnswerAfterClose
    \/ EndMessage \/ RejectRequest
    \/ UseDestroyed("afterRead", "after") \/ UseDestroyed("after", "dispatch")
    \/ HandleHup \/ ToWrite
    \/ SendSome \/ SendFails \/ EndWrite
    \/ UpdateInterest

LoopStep ==
    \/ Poll \/ EndBatch \/ EndTimers \/ EndFunctors \/ Handle
    \/ \E c \in Conns : \/ NextChannel(c) \/ AddConnection(c)
                        \/ \E k \in Kinds : RunTimer(c, k) \/ RunOrphanTimer(c, k)

PeerStep(c) ==
    Accept(c) \/ PeerFin(c) \/ PeerReset(c) \/ \E t \in Tokens : PeerSend(c, t)

Next ==
    \/ LoopStep
    \/ \E c \in Conns : \/ PeerStep(c) \/ PeerRead(c)
                        \/ \E k \in Kinds : Expire(c, k)

Spec == Init /\ [][Next]_vars

(* The loop's thread runs and time passes; a peer owes nothing.             *)
FairSpec ==
    /\ Spec /\ WF_vars(LoopStep)
    /\ \A c \in Conns, k \in Kinds : WF_vars(Expire(c, k))

(* Peers that read what they are sent. *)
ReadingSpec == FairSpec /\ \A c \in Conns : WF_vars(PeerRead(c))

-----------------------------------------------------------------------------
(* Properties.                                                             *)

TypeOK ==
    /\ conn \in [Conns -> [state : {"none", "Connected", "Disconnecting", "Disconnected"},
                           exists : BOOLEAN, inbuf : Seq(Tokens), outbuf : Seq(Nat),
                           events : SUBSET {"in", "out"},
                           reason : {"None", "ServerClose", "Timeout", "Error"},
                           served : 0..MaxTokens, rejected : BOOLEAN]]
    /\ timers \in [Conns -> [Kinds -> {"off", "armed", "due"}]]
    /\ mask \in [Conns -> SUBSET {"in", "out"}]
    /\ sock \in [Conns -> [open : BOOLEAN, rx : Seq(Tokens), tx : Seq(Nat), got : Seq(Nat),
                           sent : 0..MaxTokens, fin : BOOLEAN, rst : BOOLEAN, shut : BOOLEAN]]
    /\ pc \in {"poll", "dispatch", "events", "message", "afterRead", "write", "after",
               "timers", "functors", "crashed"}
    /\ cur \in Conns \cup {NoConn} /\ batch \subseteq Conns
    /\ revents \in [Conns -> SUBSET {"err", "in", "hup", "out"}]

(* epoll never holds the raw pointer of a channel that is destroyed, and no *)
(* handler destroys a channel that waits later in the same batch.           *)
RegisteredChannelsExist ==
    /\ \A c \in Conns : mask[c] # {} => conn[c].exists
    /\ \A c \in batch : conn[c].exists

(* When the loop sleeps, epoll watches for output on exactly the            *)
(* connections that have some: no response is forgotten in a buffer and no  *)
(* writable socket keeps the loop spinning.                                 *)
WriteInterestMatchesOutput ==
    pc = "poll" => \A c \in Conns :
        conn[c].exists => ("out" \in mask[c] <=> conn[c].outbuf # <<>>)

(* No request waits in an input buffer while the loop sleeps, unless a line *)
(* was rejected before it: those are only looked at with the next input.    *)
NoRequestForgotten ==
    pc = "poll" => \A c \in Conns :
        conn[c].exists /\ ~conn[c].rejected => conn[c].inbuf = <<>>

(* No open connection is without a timer that will close it, a closing one  *)
(* not even without its close timer.                                        *)
NoImmortalConnection ==
    \A c \in Conns :
        /\ conn[c].state \in {"Connected", "Disconnecting"} => timers[c].Idle # "off"
        /\ conn[c].state = "Disconnecting" => timers[c].Close # "off"

(* Partial writes, closes and pipelining neither lose, repeat nor reorder a *)
(* response while the connection lasts.                                     *)
ResponsesInOrder ==
    \A c \in Conns : conn[c].exists /\ ~sock[c].rst =>
        sock[c].got \o sock[c].tx \o conn[c].outbuf = [i \in 1..conn[c].served |-> i]

(* The destructor's assertion: a TcpConnection is only destroyed            *)
(* Disconnected.  The other way round, a Disconnected one goes as soon as   *)
(* its handler returns.                                                     *)
DestroyedIffDisconnected ==
    \A c \in Conns :
        /\ ~conn[c].exists => conn[c].state \in {"none", "Disconnected"}
        /\ conn[c].state = "Disconnected" /\ conn[c].exists => pc = "message" /\ cur = c

(* An idle connection is closed, whatever its peer does. *)
IdleConnectionsClose ==
    \A c \in Conns : conn[c].exists ~> ~conn[c].exists \/ pc = "crashed"

(* A connection the server closes by itself has sent all its responses. *)
CloseAfterWrite ==
    \A c \in Conns : conn[c].state = "Disconnected" /\ conn[c].reason = "ServerClose" =>
        conn[c].outbuf = <<>>

(* Where startDisconnect arms the close timer behind handleClose: onMessage *)
(* closes a connection that has nothing left to send.                       *)
ClosesInMessage(c) ==
    pc = "message" /\ cur = c /\ conn[c].state = "Connected" /\ conn[c].outbuf = <<>>

(* Whatever closes a connection, and with output left or not, handleClose   *)
(* leaves no timer of it, and no later step arms one, whichever handler it  *)
(* is in.  ClosesInMessage is the only way to leave one: also a connection  *)
(* that was Disconnecting, with its close timer, takes that one with it.    *)
TimersDieWithConnection ==
    [][\A c \in Conns : conn'[c].state = "Disconnected" =>
          \A k \in Kinds : timers'[c][k] # "off" =>
              \/ conn[c].state = "Disconnected" /\ timers[c][k] # "off"
              \/ k = "Close" /\ ClosesInMessage(c)]_vars

(* loop() and handleEvents only look at channels that exist. *)
HandledChannelExists == pc \in {"events", "message", "afterRead", "write", "after"} =>
    conn[cur].exists

-----------------------------------------------------------------------------
(* The inductive invariant behind the safety properties.                   *)

Handled(c) == cur = c /\ pc \in {"events", "message", "afterRead", "write", "after"}

(* A batch is handled to its end before loop() goes on; what is still in it *)
(* exists and is not the channel being handled.                            *)
BatchExists ==
    /\ pc \in {"events", "message", "afterRead", "write", "after"} => cur \in Conns
    /\ pc \in {"poll", "timers", "functors"} => batch = {}
    /\ \A c \in batch : conn[c].exists /\ ~Handled(c)

(* Nothing has happened to a connection before it is made; it exists until  *)
(* it is Disconnected, or until onMessage lets it go, and is watched by     *)
(* epoll only before that.                                                 *)
Lifetime(c) ==
    /\ conn[c].state = "none" =>
          /\ conn[c].inbuf = <<>> /\ conn[c].outbuf = <<>> /\ conn[c].served = 0
          /\ sock[c].tx = <<>> /\ sock[c].got = <<>>
    /\ conn[c].exists \/ conn[c].state \in {"none", "Disconnected"}
    /\ conn[c].exists /\ conn[c].state \in {"none", "Disconnected"} =>
          conn[c].state = "Disconnected" /\ pc = "message" /\ cur = c
    /\ mask[c] # {} => conn[c].state \in {"Connected", "Disconnecting"}
    /\ cur = c /\ pc \in {"events", "message", "write"} => conn[c].exists

TimersFollow(c) ==
    /\ conn[c].state \in {"Connected", "Disconnecting"} => timers[c].Idle # "off"
    /\ conn[c].state = "Disconnecting" => timers[c].Close # "off"
    /\ conn[c].state = "Disconnected" =>
          timers[c].Idle = "off" /\ (timers[c].Close # "off" => conn[c].reason = "ServerClose")

(* epoll is told of a change of events_ when the handlers have returned,    *)
(* and events_ follows the output buffer but while it is being sent.       *)
InterestFollows(c) ==
    conn[c].state \in {"Connected", "Disconnecting"} =>
        /\ mask[c] = conn[c].events \/ Handled(c)
        /\ conn[c].outbuf # <<>> => "out" \in conn[c].events
        /\ "out" \in conn[c].events => conn[c].outbuf # <<>> \/ (pc = "write" /\ cur = c)

(* onMessage leaves no input behind but after a rejected line, and takes no *)
(* more than was sent.                                                     *)
InputRead(c) ==
    /\ conn[c].exists /\ ~conn[c].rejected /\ ~(pc = "message" /\ cur = c) => conn[c].inbuf = <<>>
    /\ conn[c].served + Len(conn[c].inbuf) + Len(sock[c].rx) <= sock[c].sent

InOrder(c) ==
    conn[c].exists /\ ~sock[c].rst =>
        sock[c].got \o sock[c].tx \o conn[c].outbuf = [i \in 1..conn[c].served |-> i]

ConnectionInv(c) ==
    Lifetime(c) /\ TimersFollow(c) /\ InterestFollows(c) /\ InputRead(c) /\ InOrder(c)

IInv == TypeOK /\ BatchExists /\ \A c \in Conns : ConnectionInv(c)
=============================================================================
