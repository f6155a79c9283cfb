-------------------------- MODULE ConnectionTimers --------------------------
(***************************************************************************)
(* The timers of a worker's connections against a clock: TimerQueue (a     *)
(* heap whose cancelled timers stay until they reach the top),             *)
(* ConnectionTimerManager (which of a connection's timers is current) and  *)
(* the timeout that EventLoop::loop() gives to epoll_wait, cut to whole    *)
(* milliseconds.  Of the connections only what touches their timers is     *)
(* kept; WorkerLoop has the rest, and what the callback of a timer does    *)
(* whose connection is gone.                                               *)
(***************************************************************************)
EXTENDS Integers, FiniteSets

CONSTANTS Conns,
          IdleTime,     \* 5 s of refreshIdleTimer, in ticks of the clock
          CloseTime,    \* 10 s of startCloseTimer
          Ms,           \* ticks in a millisecond
          Slack,        \* the time loop() takes, asleep or not, beyond its sleep
          MaxTime,      \* bound: ticks of the clock
          MaxTimers     \* bound: timers created

ASSUME ConnectionTimersAssumption ==
    /\ {IdleTime, CloseTime, Slack, MaxTime, MaxTimers} \subseteq Nat
    /\ Ms \in Nat \ {0}

VARIABLES now,          \* the steady clock
          queue,        \* TimerQueue::timers_, a set of timers
          made,         \* timers created so far
          slot,         \* ConnectionTimerManager::timers_, an id or NoTimer
          conn,         \* the connections' states and their last activity
          pc,           \* where loop() stands
          expire,       \* loop()'s local: the time of the next timer
          wakeAt,       \* when epoll_wait gives up
          sampled,      \* handleExpired's local: the time it began
          spent         \* time loop() has taken since handleExpired began

vars == <<now, queue, made, slot, conn, pc, expire, wakeAt, sampled, spent>>

Kinds == {"Idle", "Close"}
Lasts(k) == IF k = "Idle" THEN IdleTime ELSE CloseTime
NoTimer == 0
Never == -1             \* TimePoint::max(), and the timeout -1

Open(c) == conn[c].state \in {"connected", "disconnecting"}
Live == {t \in queue : ~t.canceled}
Earliest(S) == {t \in S : \A u \in S : t.expire <= u.expire}

Init ==
    /\ now = 0 /\ queue = {} /\ made = 0
    /\ slot = [c \in Conns |-> [k \in Kinds |-> NoTimer]]
    /\ conn = [c \in Conns |-> [state |-> "none", active |-> 0, since |-> 0]]
    /\ pc = "poll" /\ expire = Never /\ wakeAt = Never /\ sampled = 0 /\ spent = 0

Goto(where) == pc' = where /\ UNCHANGED <<now, expire, wakeAt, sampled, spent>>

-----------------------------------------------------------------------------
(* Time passes while loop() sleeps, and up to Slack in the rest of each     *)
(* iteration, where epoll_wait returning late is counted too.               *)
Asleep == pc = "sleep" /\ (wakeAt = Never \/ now < wakeAt)

Tick ==
    /\ now < MaxTime
    /\ \/ Asleep /\ UNCHANGED spent
       \/ ~Asleep /\ spent < Slack /\ spent' = spent + 1
    /\ now' = now + 1
    /\ UNCHANGED <<queue, made, slot, conn, pc, expire, wakeAt, sampled>>

-----------------------------------------------------------------------------
(* loop(): how long to sleep.                                               *)

(* A mutant of NextExpire: the top of the heap counts, cancelled or not. *)
NextExpireAny ==
    /\ pc = "poll"
    /\ expire' = IF queue = {} THEN Never
                 ELSE (CHOOSE t \in Earliest(queue) : TRUE).expire
    /\ pc' = "timeout"
    /\ UNCHANGED <<now, queue, made, slot, conn, wakeAt, sampled, spent>>

(* A mutant of NextExpire: cancelled timers are passed over, not dropped. *)
NextExpireKeeping ==
    /\ pc = "poll"
    /\ expire' = IF Live = {} THEN Never ELSE (CHOOSE t \in Earliest(Live) : TRUE).expire
    /\ pc' = "timeout"
    /\ UNCHANGED <<now, queue, made, slot, conn, wakeAt, sampled, spent>>

(* getNextExpire drops the cancelled timers above the first that is not     *)
(* cancelled; of those with its time, any may be above it.                  *)
NextExpire ==
    /\ pc = "poll"
    /\ IF Live = {}
       THEN queue' = {} /\ expire' = Never
       ELSE \E first \in Earliest(Live) :
              /\ expire' = first.expire
              /\ \E below \in SUBSET {t \in queue : t.canceled /\ t.expire = first.expire} :
                    queue' = Live \cup below \cup
                             {t \in queue : t.canceled /\ t.expire > first.expire}
    /\ pc' = "timeout"
    /\ UNCHANGED <<now, made, slot, conn, wakeAt, sampled, spent>>

(* A mutant of Timeout: whole milliseconds, rounded up. *)
TimeoutRoundedUp(e) ==
    IF e = Never THEN Never ELSE IF e <= now THEN 0 ELSE ((e - now + Ms - 1) \div Ms) * Ms

(* A mutant of Timeout: a time that has passed is not looked at. *)
TimeoutNegative(e) == IF e = Never THEN Never ELSE ((e - now) \div Ms) * Ms

(* getTimeout: duration_cast cuts the rest of the time to milliseconds. *)
Timeout(e) ==
    IF e = Never THEN Never ELSE IF e <= now THEN 0 ELSE ((e - now) \div Ms) * Ms

(* The timeout, kept in wakeAt until epoll_wait is entered. *)
GetTimeout ==
    /\ pc = "timeout"
    /\ wakeAt' = Timeout(expire) /\ expire' = Never
    /\ pc' = "wait"
    /\ UNCHANGED <<now, queue, made, slot, conn, sampled, spent>>

EnterWait ==
    /\ pc = "wait"
    /\ wakeAt' = IF wakeAt = Never THEN Never ELSE now + wakeAt
    /\ pc' = "sleep"
    /\ UNCHANGED <<now, queue, made, slot, conn, expire, sampled, spent>>

(* epoll_wait returns: with an event at any time, or at its timeout. *)
Wake ==
    /\ pc = "sleep"
    /\ wakeAt' = Never
    /\ pc' = "events"
    /\ UNCHANGED <<now, queue, made, slot, conn, expire, sampled, spent>>

-----------------------------------------------------------------------------
(* ConnectionTimerManager.  TimerId holds a weak_ptr: cancelling a timer    *)
(* that has left the queue does nothing.                                    *)

(* A mutant of Cancelled: the timer is forgotten, but not cancelled. *)
CancelledNot(q, c, kinds) == q

Cancelled(q, c, kinds) ==
    {IF \E k \in kinds : slot[c][k] = t.id THEN [t EXCEPT !.canceled = TRUE] ELSE t : t \in q}

NewTimer(c, k) ==
    [id |-> made + 1, conn |-> c, kind |-> k, expire |-> now + Lasts(k), canceled |-> FALSE]

(* createTimer, on a queue in which the timers before it are cancelled. *)
CreateTimer(q, s, c, k) ==
    /\ made < MaxTimers
    /\ made' = made + 1
    /\ queue' = q \cup {NewTimer(c, k)}
    /\ slot' = [slot EXCEPT ![c] = [s EXCEPT ![k] = made + 1]]

NoTimers == [k \in Kinds |-> NoTimer]

(* connectEstablished, in the functor of addConnection. *)
Connect(c) ==
    /\ pc = "functors" /\ conn[c].state = "none"
    /\ conn' = [conn EXCEPT ![c] = [state |-> "connected", active |-> now, since |-> now]]
    /\ CreateTimer(queue, slot[c], c, "Idle")
    /\ Goto("functors")

(* handleRead got data or send() took some: refreshIdleTimer. *)
Activity(c) ==
    /\ pc = "events" /\ Open(c)
    /\ conn' = [conn EXCEPT ![c].active = now]
    /\ CreateTimer(Cancelled(queue, c, {"Idle"}), slot[c], c, "Idle")
    /\ Goto("events")

(* handleClose: cancelAll, and the connection is gone. *)
Close(c) ==
    /\ pc = "events" /\ Open(c)
    /\ conn' = [conn EXCEPT ![c].state = "closed"]
    /\ queue' = Cancelled(queue, c, Kinds)
    /\ slot' = [slot EXCEPT ![c] = NoTimers]
    /\ UNCHANGED made
    /\ Goto("events")

(* A mutant of StartDisconnect: closing also ends the idle timer. *)
StartDisconnectNotIdle(c) ==
    /\ pc = "events" /\ conn[c].state = "connected"
    /\ conn' = [conn EXCEPT ![c].state = "disconnecting", ![c].since = now]
    /\ CreateTimer(Cancelled(queue, c, {"Idle"}),
                   [slot[c] EXCEPT !.Idle = NoTimer], c, "Close")
    /\ Goto("events")

(* startDisconnect with output left to send: the close timer runs beside    *)
(* the idle timer.                                                          *)
StartDisconnect(c) ==
    /\ pc = "events" /\ conn[c].state = "connected"
    /\ conn' = [conn EXCEPT ![c].state = "disconnecting", ![c].since = now]
    /\ CreateTimer(queue, slot[c], c, "Close")
    /\ Goto("events")

(* startDisconnect with nothing to send: handleClose, then the close timer  *)
(* all the same.                                                            *)
DisconnectAtOnce(c) ==
    /\ pc = "events" /\ conn[c].state = "connected"
    /\ conn' = [conn EXCEPT ![c].state = "closed"]
    /\ CreateTimer(Cancelled(queue, c, Kinds), NoTimers, c, "Close")
    /\ Goto("events")

EndEvents ==
    /\ pc = "events"
    /\ UNCHANGED <<queue, made, slot, conn>>
    /\ Goto("timers")

-----------------------------------------------------------------------------
(* TimerQueue::handleExpired: the clock is read once, at the beginning.     *)
SampleNow ==
    /\ pc = "timers"
    /\ sampled' = now /\ spent' = 0
    /\ pc' = "expired"
    /\ UNCHANGED <<now, queue, made, slot, conn, expire, wakeAt>>

(* The top of the heap is due. *)
Due(t) == t \in Earliest(queue) /\ t.expire <= sampled

DropCancelled(t) ==
    /\ pc = "expired" /\ Due(t) /\ t.canceled
    /\ queue' = queue \ {t}
    /\ UNCHANGED <<made, slot, conn>>
    /\ Goto("expired")

(* The callback: the slot is cleared, then forceClose closes a connection   *)
(* that is still there, and cancels its other timer.                        *)
RunTimer(t) ==
    /\ pc = "expired" /\ Due(t) /\ ~t.canceled
    /\ IF Open(t.conn)
       THEN /\ conn' = [conn EXCEPT ![t.conn].state = "closed"]
            /\ queue' = Cancelled(queue \ {t}, t.conn, Kinds \ {t.kind})
            /\ slot' = [slot EXCEPT ![t.conn] = NoTimers]
       ELSE /\ queue' = queue \ {t}
            /\ UNCHANGED <<conn, slot>>
    /\ UNCHANGED made
    /\ Goto("expired")

EndExpired ==
    /\ pc = "expired" /\ \A t \in queue : ~Due(t)
    /\ sampled' = 0
    /\ pc' = "functors"
    /\ UNCHANGED <<now, queue, made, slot, conn, expire, wakeAt, spent>>

EndFunctors ==
    /\ pc = "functors"
    /\ UNCHANGED <<queue, made, slot, conn>>
    /\ Goto("poll")

LoopStep ==
    \/ NextExpire \/ GetTimeout \/ EnterWait \/ Wake
    \/ EndEvents \/ SampleNow \/ EndExpired \/ EndFunctors
    \/ \E t \in queue : DropCancelled(t) \/ RunTimer(t)

Next ==
    \/ Tick
    \/ LoopStep
    \/ \E c \in Conns : Connect(c) \/ Activity(c) \/ Close(c)
                        \/ StartDisconnect(c) \/ DisconnectAtOnce(c)

Spec == Init /\ [][Next]_vars
-----------------------------------------------------------------------------
(* Properties.                                                             *)

Timers == [id : 1..made, conn : Conns, kind : Kinds, expire : Nat, canceled : BOOLEAN]

(* Every variable has its type. *)
TypeOK ==
    /\ {now, made, sampled, spent} \subseteq Nat
    /\ queue \subseteq Timers
    /\ slot \in [Conns -> [Kinds -> 0..made]]
    /\ conn \in [Conns -> [state : {"none", "connected", "disconnecting", "closed"},
                           active : Nat, since : Nat]]
    /\ pc \in {"poll", "timeout", "wait", "sleep", "events", "timers", "expired", "functors"}
    /\ {expire, wakeAt} \subseteq Nat \cup {Never}

(* What refreshIdleTimer, startCloseTimer, cancelAll and the callbacks keep *)
(* between them: the timer a connection would cancel is the only one that   *)
(* could still close it, it measures from the last activity or the decision *)
(* to close, and none of the two is missing.                                *)
CurrentTimers ==
    \A c \in Conns : Open(c) =>
        /\ \A t \in Live : t.conn = c => slot[c][t.kind] = t.id
        /\ \E t \in Live : t.conn = c /\ t.kind = "Idle" /\ t.expire = conn[c].active + IdleTime
        /\ conn[c].state = "disconnecting" =>
              \E t \in Live : t.conn = c /\ t.kind = "Close"
                              /\ t.expire = conn[c].since + CloseTime

(* A timer closes a connection only after IdleTime without any activity, or *)
(* CloseTime after the server decided to close it: no cancelled timer and   *)
(* none of an earlier activity does.                                        *)
NeverClosedEarly ==
    [][\A c \in Conns : pc = "expired" /\ Open(c) /\ ~Open(c)' =>
          \/ now >= conn[c].active + IdleTime
          \/ conn[c].state = "disconnecting" /\ now >= conn[c].since + CloseTime]_vars

(* And none outlives those limits by more than what loop() itself takes:    *)
(* once to reach handleExpired and once inside it.  Activity does not put   *)
(* off the limit of a connection that is being closed.                      *)
ClosedInTime ==
    \A c \in Conns : Open(c) =>
        /\ now <= conn[c].active + IdleTime + 2 * Slack
        /\ conn[c].state = "disconnecting" => now <= conn[c].since + CloseTime + 2 * Slack

(* No timer stays in the heap for long after its time, cancelled ones       *)
(* included: a busy connection cannot fill it for ever.                     *)
HeapForgets == \A t \in queue : now <= t.expire + 2 * Slack

(* epoll_wait sleeps for the first timer that is not cancelled and for no   *)
(* other: not past it but for the time between reading the clock and        *)
(* sleeping, and not shorter than a millisecond before it.                  *)
SleepsForNextTimer ==
    pc = "sleep" =>
        IF wakeAt = Never THEN Live = {}
        ELSE /\ \A t \in Live : wakeAt <= t.expire + Slack
             /\ \E t \in Live : t.expire - Ms < wakeAt

-----------------------------------------------------------------------------
(* The inductive invariant behind the properties.                          *)

(* Ids are given once; a slot names no timer but one of its connection and  *)
(* kind; only connections that were made have timers, and only one being    *)
(* closed has a close timer that could still close it.                      *)
TimersOwned ==
    /\ \A t, u \in queue : t.id = u.id => t = u
    /\ \A c \in Conns, k \in Kinds : \A t \in queue :
          slot[c][k] = t.id => t.conn = c /\ t.kind = k
    /\ \A t \in queue : conn[t.conn].state # "none"
    /\ \A t \in Live : Open(t.conn) /\ t.kind = "Close" => conn[t.conn].state = "disconnecting"

(* handleExpired leaves no timer behind that was due when it began, and     *)
(* getTimeout looks at the first of the others: outside handleExpired each  *)
(* timer is late by no more than loop() has spent since handleExpired.      *)
OnSchedule ==
    /\ spent <= Slack /\ sampled <= now
    /\ pc # "expired" => \A t \in queue : now <= t.expire + spent
    /\ pc = "expired" => now <= sampled + spent /\ \A t \in queue : sampled <= t.expire + Slack
    /\ pc = "timeout" =>
          IF expire = Never THEN queue = {}
          ELSE (\A t \in queue : expire <= t.expire) /\ \E t \in Live : t.expire = expire
    /\ pc = "wait" =>
          IF wakeAt = Never THEN queue = {}
          ELSE /\ \A t \in queue : now + wakeAt <= t.expire + spent
               /\ \E t \in Live : t.expire - Ms < now + wakeAt
    /\ pc = "sleep" =>
          IF wakeAt = Never THEN queue = {}
          ELSE /\ \A t \in queue : wakeAt <= t.expire + spent
               /\ \E t \in Live : t.expire - Ms < wakeAt

IInv == TypeOK /\ CurrentTimers /\ TimersOwned /\ OnSchedule
=============================================================================
