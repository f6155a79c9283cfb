----------------------- MODULE ConnectionTimers_proofs -----------------------
(***************************************************************************)
(* The timers are right for any number of connections and any times: IInv  *)
(* is inductive, and every property that ConnectionTimers.cfg checks       *)
(* follows from it, the bounds in real time included.                      *)
(***************************************************************************)
EXTENDS ConnectionTimers, WellFoundedInduction, TLAPS

(* The assumption, one constant at a time. *)
LEMMA Constants ==
    /\ IdleTime \in Nat /\ CloseTime \in Nat /\ Slack \in Nat /\ Ms \in Nat \ {0}
    /\ \A k \in Kinds : Lasts(k) \in Nat
    /\ Kinds = {"Idle", "Close"} /\ NoTimer = 0 /\ Never = -1
BY ConnectionTimersAssumption DEF Kinds, Lasts, NoTimer, Never

(* So are the numbers of a state. *)
LEMMA Numbers ==
    ASSUME TypeOK
    PROVE  /\ now \in Nat /\ made \in Nat /\ sampled \in Nat /\ spent \in Nat
           /\ expire \in Nat \cup {Never} /\ wakeAt \in Nat \cup {Never}
BY DEF TypeOK

(* The fields of a timer, and of one that has been cancelled. *)
LEMMA TimerFields ==
    ASSUME TypeOK, NEW t \in Timers
    PROVE  /\ t.id \in Nat /\ 1 <= t.id /\ t.id <= made /\ t.conn \in Conns /\ t.kind \in Kinds
           /\ t.expire \in Nat /\ t.canceled \in BOOLEAN
           /\ LET u == [t EXCEPT !.canceled = TRUE]
              IN  /\ u \in Timers /\ u.canceled /\ u.id = t.id /\ u.conn = t.conn
                  /\ u.kind = t.kind /\ u.expire = t.expire
<1> DEFINE u == [t EXCEPT !.canceled = TRUE]
<1>1. /\ t.id \in 1..made /\ t.conn \in Conns /\ t.kind \in Kinds
      /\ t.expire \in Nat /\ t.canceled \in BOOLEAN
  BY DEF Timers
<1>2. t.id \in Nat /\ 1 <= t.id /\ t.id <= made
  BY <1>1, Numbers
<1>3. u \in Timers
  BY DEF Timers
<1>4. u.canceled /\ u.id = t.id /\ u.conn = t.conn /\ u.kind = t.kind /\ u.expire = t.expire
  BY DEF Timers
<1> QED BY <1>1, <1>2, <1>3, <1>4

(* What TypeOK says of a connection. *)
Connections == [state : {"none", "connected", "disconnecting", "closed"}, active : Nat, since : Nat]

(* A new timer has an id of its own and is not due before now. *)
LEMMA NewTimerFields ==
    ASSUME TypeOK, NEW c \in Conns, NEW k \in Kinds, made' = made + 1
    PROVE  /\ NewTimer(c, k) \in Timers'
           /\ NewTimer(c, k).id = made + 1 /\ NewTimer(c, k).conn = c /\ NewTimer(c, k).kind = k
           /\ NewTimer(c, k).expire = now + Lasts(k) /\ ~NewTimer(c, k).canceled
           /\ Timers \subseteq Timers'
<1>1. now + Lasts(k) \in Nat /\ made \in Nat /\ made + 1 \in 1..(made + 1)
  BY Constants, Numbers
<1>2. 1..made \subseteq 1..(made + 1)
  BY <1>1
<1> QED BY <1>1, <1>2 DEF NewTimer, Timers

(* Cancelling touches only the timers in the connection's own slots. *)
LEMMA CancelledFacts ==
    ASSUME IInv, NEW c \in Conns, NEW kinds \in SUBSET Kinds, NEW q \in SUBSET queue
    PROVE  /\ Cancelled(q, c, kinds) \subseteq Timers
           /\ \A t \in Cancelled(q, c, kinds) :
                 /\ \E u \in q : u.id = t.id /\ u.conn = t.conn /\ u.kind = t.kind /\ u.expire = t.expire
                 /\ ~t.canceled => t \in q /\ \A k \in kinds : slot[c][k] # t.id
                 /\ t.conn # c => t \in q
           /\ \A t \in q : (\A k \in kinds : slot[c][k] # t.id) => t \in Cancelled(q, c, kinds)
           /\ \A t \in q : t.conn # c => t \in Cancelled(q, c, kinds)
           /\ \A t, u \in Cancelled(q, c, kinds) : t.id = u.id => t = u
<1> DEFINE C(t) == IF \E k \in kinds : slot[c][k] = t.id THEN [t EXCEPT !.canceled = TRUE] ELSE t
           Q == Cancelled(q, c, kinds)
<1>1. Q = {C(t) : t \in q}
  BY DEF Cancelled
<1>2. \A t \in q : t \in Timers /\ t \in queue
  BY DEF IInv, TypeOK
<1>3. \A t \in q : /\ C(t) \in Timers /\ C(t).id = t.id /\ C(t).conn = t.conn
                   /\ C(t).kind = t.kind /\ C(t).expire = t.expire
                   /\ ~C(t).canceled => C(t) = t /\ \A k \in kinds : slot[c][k] # t.id
                   /\ (\A k \in kinds : slot[c][k] # t.id) => C(t) = t
  BY <1>2, TimerFields DEF IInv
<1>4. \A t \in q : t.conn # c => C(t) = t
  BY <1>2, <1>3 DEF IInv, TimersOwned
<1>5. \A t, u \in q : t.id = u.id => t = u
  BY <1>2 DEF IInv, TimersOwned
<1>6. \A t \in Q : \E u \in q : t = C(u)
  BY <1>1
<1>7. \A t \in q : C(t) \in Q
  BY <1>1
<1> HIDE DEF C, Q
<1>8. Q \subseteq Timers
  BY <1>3, <1>6
<1>9. ASSUME NEW t \in Q
      PROVE  /\ \E u \in q : u.id = t.id /\ u.conn = t.conn /\ u.kind = t.kind /\ u.expire = t.expire
             /\ ~t.canceled => t \in q /\ \A k \in kinds : slot[c][k] # t.id
             /\ t.conn # c => t \in q
  <2>1. PICK u \in q : t = C(u)
    BY <1>6
  <2> QED BY <2>1, <1>3, <1>4
<1>10. \A t \in q : (\A k \in kinds : slot[c][k] # t.id) \/ t.conn # c => t \in Q
  BY <1>3, <1>4, <1>7
<1>11. \A t, u \in Q : t.id = u.id => t = u
  BY <1>3, <1>5, <1>6
<1> QED BY <1>8, <1>9, <1>10, <1>11 DEF Q

-----------------------------------------------------------------------------
(* Steps that create and cancel timers of one connection.                  *)

(* Only c's state, slots and timers change, c's timers are those it had or   *)
(* new, and ids stay unique.                                               *)
OthersKept(c) ==
    /\ \A d \in Conns \ {c} : conn'[d] = conn[d] /\ slot'[d] = slot[d]
    /\ \A t \in queue' : t.conn # c => t \in queue
    /\ \A t \in queue : t.conn # c => t \in queue'
    /\ \A t \in queue' : t.conn = c =>
          t.id = made + 1 \/ \E u \in queue : u.id = t.id /\ u.conn = c /\ u.kind = t.kind
    /\ \A t, u \in queue' : t.id = u.id => t = u

(* What CurrentTimers and TimersOwned say of c alone. *)
Current(c) ==
    Open(c) =>
        /\ \A t \in Live : t.conn = c => slot[c][t.kind] = t.id
        /\ \E t \in Live : t.conn = c /\ t.kind = "Idle" /\ t.expire = conn[c].active + IdleTime
        /\ conn[c].state = "disconnecting" =>
              \E t \in Live : t.conn = c /\ t.kind = "Close"
                              /\ t.expire = conn[c].since + CloseTime

Owned(c) ==
    /\ \A k \in Kinds : \A t \in queue : slot[c][k] = t.id => t.conn = c /\ t.kind = k
    /\ conn[c].state # "none"
    /\ \A t \in Live : t.conn = c /\ Open(c) /\ t.kind = "Close" => conn[c].state = "disconnecting"

(* It is enough to look at the connection the step is about. *)
LEMMA OneConnection ==
    ASSUME IInv, TypeOK', NEW c \in Conns, OthersKept(c), Current(c)', Owned(c)'
    PROVE  CurrentTimers' /\ TimersOwned'
<1>1. \A t \in queue \cup queue' : t.conn \in Conns /\ t.kind \in Kinds
  BY DEF IInv, TypeOK, Timers
<1>2. \A t \in queue : t.id \in Nat /\ t.id <= made
  BY TimerFields DEF IInv, TypeOK
<1>3. \A d \in Conns, k \in Kinds : slot[d][k] \in Nat /\ slot[d][k] <= made
  BY Numbers DEF IInv, TypeOK
<1>4. \A d \in Conns \ {c} : Open(d)' <=> Open(d)
  BY DEF OthersKept, Open
<1>5. \A t : t.conn # c => (t \in Live' <=> t \in Live)
  BY DEF OthersKept, Live
<1>6. CurrentTimers'
  <2> SUFFICES ASSUME NEW d \in Conns \ {c}, Open(d)
               PROVE  /\ \A t \in Live' : t.conn = d => slot'[d][t.kind] = t.id
                      /\ \E t \in Live' : t.conn = d /\ t.kind = "Idle"
                                          /\ t.expire = conn'[d].active + IdleTime
                      /\ conn'[d].state = "disconnecting" =>
                            \E t \in Live' : t.conn = d /\ t.kind = "Close"
                                             /\ t.expire = conn'[d].since + CloseTime
    BY <1>4 DEF CurrentTimers, Current
  <2>1. conn'[d] = conn[d] /\ slot'[d] = slot[d]
    BY DEF OthersKept
  <2>2. /\ \A t \in Live : t.conn = d => slot[d][t.kind] = t.id
        /\ \E t \in Live : t.conn = d /\ t.kind = "Idle" /\ t.expire = conn[d].active + IdleTime
        /\ conn[d].state = "disconnecting" =>
              \E t \in Live : t.conn = d /\ t.kind = "Close" /\ t.expire = conn[d].since + CloseTime
    BY DEF IInv, CurrentTimers
  <2>3. \A t : t.conn = d => (t \in Live' <=> t \in Live)
    BY <1>5
  <2> QED BY <2>1, <2>2, <2>3
<1>7. TimersOwned'
  <2>1. ASSUME NEW d \in Conns \ {c}, NEW k \in Kinds, NEW t \in queue', slot'[d][k] = t.id
        PROVE  t.conn = d /\ t.kind = k
    <3>1. slot[d][k] = t.id
      BY <2>1 DEF OthersKept
    <3>2. CASE t.conn # c
      <4>1. t \in queue
        BY <3>2 DEF OthersKept
      <4> QED BY <3>1, <4>1 DEF IInv, TimersOwned
    <3>3. CASE t.conn = c
      <4>1. t.id # made + 1
        BY <1>3, <3>1, Numbers DEF IInv
      <4>2. PICK u \in queue : u.id = t.id /\ u.conn = c
        BY <3>3, <4>1 DEF OthersKept
      <4>3. u.conn = d
        BY <3>1, <4>2 DEF IInv, TimersOwned
      <4> QED BY <4>2, <4>3
    <3> QED BY <3>2, <3>3
  <2>2. \A d \in Conns, k \in Kinds : \A t \in queue' : slot'[d][k] = t.id => t.conn = d /\ t.kind = k
    BY <2>1 DEF Owned
  <2>3. ASSUME NEW t \in queue' PROVE conn'[t.conn].state # "none"
    <3>1. CASE t.conn = c
      BY <3>1 DEF Owned
    <3>2. CASE t.conn # c
      BY <1>1, <3>2 DEF OthersKept, IInv, TimersOwned
    <3> QED BY <3>1, <3>2
  <2>4. ASSUME NEW t \in Live', Open(t.conn)', t.kind = "Close"
        PROVE  conn'[t.conn].state = "disconnecting"
    <3>1. CASE t.conn = c
      BY <2>4, <3>1 DEF Owned
    <3>2. CASE t.conn # c
      <4>1. t \in Live /\ t \in queue'
        BY <1>5, <3>2 DEF Live
      <4>2. t.conn \in Conns \ {c} /\ conn'[t.conn] = conn[t.conn] /\ Open(t.conn)
        BY <1>1, <1>4, <2>4, <3>2, <4>1 DEF OthersKept
      <4> QED BY <2>4, <4>1, <4>2 DEF IInv, TimersOwned
    <3> QED BY <3>1, <3>2
  <2>5. \A t, u \in queue' : t.id = u.id => t = u
    BY DEF OthersKept
  <2> QED BY <2>2, <2>3, <2>4, <2>5 DEF TimersOwned
<1> QED BY <1>6, <1>7

(* Timers that leave the queue, or change in it, do not disturb its times,  *)
(* nor do new ones.                                                        *)
LEMMA ScheduleKept ==
    ASSUME IInv, TypeOK', UNCHANGED <<now, sampled, spent, pc>>,
           pc \in {"functors", "events", "expired"},
           \A t \in queue' : now <= t.expire \/ \E u \in queue : u.expire = t.expire
    PROVE  OnSchedule'
<1>1. \A t \in queue \cup queue' : t.expire \in Nat
  BY DEF IInv, TypeOK, Timers
<1>2. now \in Nat /\ sampled \in Nat /\ spent \in Nat /\ Slack \in Nat
  BY Constants, Numbers DEF IInv
<1>3. spent <= Slack /\ sampled <= now
  BY DEF IInv, OnSchedule
<1>4. CASE pc = "expired"
  <2>1. now <= sampled + spent /\ \A u \in queue : sampled <= u.expire + Slack
    BY <1>4 DEF IInv, OnSchedule
  <2>2. \A t \in queue' : sampled <= t.expire + Slack
    BY <1>1, <1>2, <1>3, <2>1
  <2> QED BY <1>3, <1>4, <2>1, <2>2 DEF OnSchedule
<1>5. CASE pc # "expired"
  <2>1. \A u \in queue : now <= u.expire + spent
    BY <1>5 DEF IInv, OnSchedule
  <2>2. \A t \in queue' : now <= t.expire + spent
    BY <1>1, <1>2, <2>1
  <2> QED BY <1>3, <1>5, <2>2 DEF OnSchedule
<1> QED BY <1>4, <1>5

(* A queue q of c's timers, some cancelled, and a new one. *)
LEMMA CreateKeepsOthers ==
    ASSUME IInv, NEW c \in Conns, NEW k \in Kinds, NEW kinds \in SUBSET Kinds, NEW s \in [Kinds -> 0..made],
           CreateTimer(Cancelled(queue, c, kinds), s, c, k),
           \A d \in Conns \ {c} : conn'[d] = conn[d]
    PROVE  /\ OthersKept(c) /\ queue' \subseteq Timers' /\ made' \in Nat
           /\ slot' \in [Conns -> [Kinds -> 0..made']]
           /\ slot'[c][k] = made + 1 /\ \A l \in Kinds \ {k} : slot'[c][l] = s[l]
           /\ NewTimer(c, k) \in Live' /\ NewTimer(c, k).id = made + 1
           /\ NewTimer(c, k).conn = c /\ NewTimer(c, k).kind = k /\ NewTimer(c, k).expire = now + Lasts(k)
           /\ \A t \in queue' : now <= t.expire \/ \E u \in queue : u.expire = t.expire
           /\ \A t \in queue' : t = NewTimer(c, k) \/ t.id <= made
           /\ \A t \in Live' : t = NewTimer(c, k) \/ (t \in Live /\ \A l \in kinds : slot[c][l] # t.id)
           /\ \A t \in Live : (\A l \in kinds : slot[c][l] # t.id) => t \in Live'
           /\ \A t \in queue' : t = NewTimer(c, k) \/
                 \E u \in queue : u.id = t.id /\ u.conn = t.conn /\ u.kind = t.kind
<1> DEFINE Q == Cancelled(queue, c, kinds)
           n == NewTimer(c, k)
<1>1. /\ made' = made + 1 /\ queue' = Q \cup {n}
      /\ slot' = [slot EXCEPT ![c] = [s EXCEPT ![k] = made + 1]]
  BY DEF CreateTimer
<1>2. /\ Q \subseteq Timers
      /\ \A t \in Q : /\ \E u \in queue : u.id = t.id /\ u.conn = t.conn /\ u.kind = t.kind /\ u.expire = t.expire
                      /\ ~t.canceled => t \in queue /\ \A l \in kinds : slot[c][l] # t.id
                      /\ t.conn # c => t \in queue
      /\ \A t \in queue : (\A l \in kinds : slot[c][l] # t.id) => t \in Q
      /\ \A t \in queue : t.conn # c => t \in Q
      /\ \A t, u \in Q : t.id = u.id => t = u
  BY CancelledFacts
<1>3. /\ n \in Timers' /\ n.id = made + 1 /\ n.conn = c /\ n.kind = k
      /\ n.expire = now + Lasts(k) /\ ~n.canceled /\ Timers \subseteq Timers'
  BY <1>1, NewTimerFields DEF IInv
<1>4. made \in Nat /\ now \in Nat /\ Lasts(k) \in Nat
  BY Constants, Numbers DEF IInv
<1>5. \A t \in Q : t.id \in Nat /\ t.id <= made
  BY <1>2, TimerFields DEF IInv
<1>6. /\ slot' \in [Conns -> [Kinds -> 0..made']]
      /\ slot'[c][k] = made + 1 /\ \A l \in Kinds \ {k} : slot'[c][l] = s[l]
      /\ \A d \in Conns \ {c} : slot'[d] = slot[d]
  <2>1. slot \in [Conns -> [Kinds -> 0..made]]
    BY DEF IInv, TypeOK
  <2>2. 0..made \subseteq 0..(made + 1) /\ made + 1 \in 0..(made + 1)
    BY <1>4
  <2>3. slot \in [Conns -> [Kinds -> 0..(made + 1)]] /\ s \in [Kinds -> 0..(made + 1)]
    BY <2>1, <2>2
  <2> QED BY <1>1, <2>1, <2>2, <2>3
<1> HIDE DEF Q, n
<1>7. OthersKept(c)
  <2>1. \A t \in queue' : t.conn # c => t \in queue
    BY <1>1, <1>2, <1>3
  <2>2. \A t \in queue : t.conn # c => t \in queue'
    BY <1>1, <1>2
  <2>3. \A t \in queue' : t.conn = c =>
           t.id = made + 1 \/ \E u \in queue : u.id = t.id /\ u.conn = c /\ u.kind = t.kind
    BY <1>1, <1>2, <1>3
  <2>4. \A t, u \in queue' : t.id = u.id => t = u
    BY <1>1, <1>2, <1>3, <1>4, <1>5
  <2> QED BY <1>6, <2>1, <2>2, <2>3, <2>4 DEF OthersKept
<1>8. \A t \in queue' : now <= t.expire \/ \E u \in queue : u.expire = t.expire
  BY <1>1, <1>2, <1>3, <1>4
<1>9. /\ \A t \in queue' : t = n \/ t.id <= made
      /\ \A t \in queue' : t = n \/ \E u \in queue : u.id = t.id /\ u.conn = t.conn /\ u.kind = t.kind
  BY <1>1, <1>2, <1>5
<1>10. /\ n \in Live'
       /\ \A t \in Live' : t = n \/ (t \in Live /\ \A l \in kinds : slot[c][l] # t.id)
       /\ \A t \in Live : (\A l \in kinds : slot[c][l] # t.id) => t \in Live'
  BY <1>1, <1>2, <1>3 DEF Live
<1>11. queue' \subseteq Timers' /\ made' \in Nat
  BY <1>1, <1>2, <1>3, <1>4
<1> QED BY <1>3, <1>6, <1>7, <1>8, <1>9, <1>10, <1>11 DEF n

(* With no kinds to cancel, nothing is cancelled. *)
LEMMA CancelNothing == ASSUME NEW c PROVE Cancelled(queue, c, {}) = queue
BY DEF Cancelled

(* What a slot holds is 0, or the id of a timer made before. *)
LEMMA SlotFacts ==
    ASSUME TypeOK, NEW c \in Conns
    PROVE  /\ slot[c] \in [Kinds -> 0..made]
           /\ \A k \in Kinds : slot[c][k] \in Nat /\ slot[c][k] <= made
           /\ conn[c] \in Connections
BY Numbers DEF TypeOK, Connections

(* A connection c in a new state r with a new timer: only c's own part of   *)
(* the invariant is left to see to.                                        *)
LEMMA CreateInvariance ==
    ASSUME IInv, NEW c \in Conns, NEW k \in Kinds, NEW kinds \in SUBSET Kinds,
           NEW s \in [Kinds -> 0..made], \A l \in Kinds : s[l] = slot[c][l] \/ s[l] = NoTimer,
           CreateTimer(Cancelled(queue, c, kinds), s, c, k),
           NEW r \in Connections, r.state # "none", conn' = [conn EXCEPT ![c] = r],
           pc \in {"functors", "events"}, Goto(pc), Current(c)',
           \A t \in Live' : t.conn = c /\ Open(c)' /\ t.kind = "Close" => r.state = "disconnecting"
    PROVE  IInv'
<1> DEFINE n == NewTimer(c, k)
<1>1. conn \in [Conns -> Connections]
  BY DEF IInv, TypeOK, Connections
<1>2. conn'[c] = r /\ (\A d \in Conns \ {c} : conn'[d] = conn[d]) /\ conn' \in [Conns -> Connections]
  BY <1>1
<1>3. /\ OthersKept(c) /\ queue' \subseteq Timers' /\ made' \in Nat
      /\ slot' \in [Conns -> [Kinds -> 0..made']]
      /\ slot'[c][k] = made + 1 /\ \A l \in Kinds \ {k} : slot'[c][l] = s[l]
      /\ n.id = made + 1 /\ n.conn = c /\ n.kind = k
      /\ \A t \in queue' : now <= t.expire \/ \E u \in queue : u.expire = t.expire
      /\ \A t \in queue' : t = n \/ t.id <= made
      /\ \A t \in queue' : t = n \/ \E u \in queue : u.id = t.id /\ u.conn = t.conn /\ u.kind = t.kind
  BY <1>2, CreateKeepsOthers
<1> HIDE DEF n
<1>4. UNCHANGED <<now, pc, expire, wakeAt, sampled, spent>>
  BY DEF Goto
<1>5. TypeOK'
  BY <1>2, <1>3, <1>4 DEF IInv, TypeOK, Connections
<1>6. OnSchedule'
  BY <1>3, <1>4, <1>5, ScheduleKept
<1>7. ASSUME NEW l \in Kinds, NEW t \in queue', slot'[c][l] = t.id
      PROVE  t.conn = c /\ t.kind = l
  <2>1. made \in Nat /\ t.id \in Nat /\ 1 <= t.id /\ slot[c][l] \in Nat /\ slot[c][l] <= made
    <3>1. t \in Timers'
      BY <1>3
    <3>2. t.id \in 1..made'
      BY <3>1 DEF Timers
    <3> QED BY <1>3, <3>2, Numbers, SlotFacts DEF IInv
  <2>2. CASE l = k
    <3>1. t.id = made + 1
      BY <1>3, <1>7, <2>2
    <3>2. t = n
      BY <1>3, <2>1, <3>1
    <3> QED BY <1>3, <2>2, <3>2
  <2>3. CASE l # k
    <3>1. slot[c][l] = t.id
      BY <1>3, <1>7, <2>1, <2>3 DEF NoTimer
    <3>2. t # n
      BY <1>3, <2>1, <3>1
    <3>3. PICK u \in queue : u.id = t.id /\ u.conn = t.conn /\ u.kind = t.kind
      BY <1>3, <3>2
    <3> QED BY <3>1, <3>3 DEF IInv, TimersOwned
  <2> QED BY <2>2, <2>3
<1>8. Owned(c)'
  BY <1>2, <1>7 DEF Owned
<1>9. CurrentTimers' /\ TimersOwned'
  BY <1>3, <1>5, <1>8, OneConnection
<1> QED BY <1>5, <1>6, <1>9 DEF IInv

(* connectEstablished: the connection has no timer before. *)
LEMMA ConnectInvariance == ASSUME IInv, NEW c \in Conns, Connect(c) PROVE IInv'
<1> DEFINE r == [state |-> "connected", active |-> now, since |-> now]
           n == NewTimer(c, "Idle")
<1>1. r \in Connections /\ r.state = "connected" /\ r.active = now
  BY Numbers DEF IInv, Connections
<1>2. /\ pc = "functors" /\ conn[c].state = "none" /\ conn' = [conn EXCEPT ![c] = r]
      /\ CreateTimer(queue, slot[c], c, "Idle") /\ Goto("functors")
  BY DEF Connect
<1>3. conn'[c] = r /\ \A d \in Conns \ {c} : conn'[d] = conn[d]
  BY <1>2 DEF IInv, TypeOK
<1> HIDE DEF r
<1>4. CreateTimer(Cancelled(queue, c, {}), slot[c], c, "Idle")
  BY <1>2, CancelNothing
<1>5. "Idle" \in Kinds /\ {} \in SUBSET Kinds /\ slot[c] \in [Kinds -> 0..made]
  BY SlotFacts DEF IInv, Kinds
<1>6. /\ slot'[c]["Idle"] = made + 1 /\ n \in Live'
      /\ n.id = made + 1 /\ n.conn = c /\ n.kind = "Idle" /\ n.expire = now + Lasts("Idle")
      /\ \A t \in Live' : t = n \/ t \in Live
  BY <1>3, <1>4, <1>5, CreateKeepsOthers
<1> HIDE DEF n
<1>7. \A t \in Live : t.conn # c
  BY <1>2 DEF IInv, TimersOwned, Live
<1>8. \A t \in Live' : t.conn = c => t = n
  BY <1>6, <1>7
<1>9. Current(c)'
  BY <1>1, <1>3, <1>6, <1>8 DEF Current, Lasts
<1> QED BY <1>1, <1>2, <1>4, <1>5, <1>6, <1>8, <1>9, CreateInvariance

(* refreshIdleTimer: the close timer stays, the idle timer is replaced. *)
LEMMA ActivityInvariance == ASSUME IInv, NEW c \in Conns, Activity(c) PROVE IInv'
<1> DEFINE r == [conn[c] EXCEPT !.active = now]
           n == NewTimer(c, "Idle")
<1>1. /\ pc = "events" /\ Open(c) /\ conn' = [conn EXCEPT ![c] = r]
      /\ CreateTimer(Cancelled(queue, c, {"Idle"}), slot[c], c, "Idle") /\ Goto("events")
  BY DEF Activity
<1>2. r \in Connections /\ r.state = conn[c].state /\ r.active = now /\ r.since = conn[c].since
  BY SlotFacts, Numbers DEF IInv, Connections
<1>3. conn'[c] = r /\ \A d \in Conns \ {c} : conn'[d] = conn[d]
  BY <1>1 DEF IInv, TypeOK
<1> HIDE DEF r
<1>4. "Idle" \in Kinds /\ {"Idle"} \in SUBSET Kinds /\ slot[c] \in [Kinds -> 0..made]
  BY SlotFacts DEF IInv, Kinds
<1>5. /\ slot'[c]["Idle"] = made + 1 /\ (\A l \in Kinds \ {"Idle"} : slot'[c][l] = slot[c][l])
      /\ n \in Live' /\ n.id = made + 1 /\ n.conn = c /\ n.kind = "Idle"
      /\ n.expire = now + Lasts("Idle")
      /\ \A t \in Live' : t = n \/ (t \in Live /\ slot[c]["Idle"] # t.id)
      /\ \A t \in Live : slot[c]["Idle"] # t.id => t \in Live'
  BY <1>1, <1>3, <1>4, CreateKeepsOthers
<1> HIDE DEF n
<1>6. /\ \A t \in Live : t \in queue /\ t.kind \in {"Idle", "Close"}
      /\ \A t \in Live : t.conn = c => slot[c][t.kind] = t.id
      /\ \A t \in Live : slot[c]["Idle"] = t.id => t.kind = "Idle"
      /\ conn[c].state = "disconnecting" =>
            \E t \in Live : t.conn = c /\ t.kind = "Close" /\ t.expire = conn[c].since + CloseTime
      /\ \A t \in Live : t.conn = c /\ t.kind = "Close" => conn[c].state = "disconnecting"
  BY <1>1, <1>4 DEF IInv, TypeOK, Timers, CurrentTimers, TimersOwned, Live, Kinds
<1>7. \A t \in Live' : t.conn = c => slot'[c][t.kind] = t.id
  BY <1>5, <1>6 DEF Kinds
<1>8. conn'[c].state = "disconnecting" =>
         \E t \in Live' : t.conn = c /\ t.kind = "Close" /\ t.expire = conn'[c].since + CloseTime
  <2> SUFFICES ASSUME conn[c].state = "disconnecting"
               PROVE  \E t \in Live' : t.conn = c /\ t.kind = "Close" /\ t.expire = conn[c].since + CloseTime
    BY <1>2, <1>3
  <2>1. PICK t \in Live : t.conn = c /\ t.kind = "Close" /\ t.expire = conn[c].since + CloseTime
    BY <1>6
  <2>2. t \in Live'
    BY <1>5, <1>6, <2>1
  <2> QED BY <2>1, <2>2
<1>9. \E t \in Live' : t.conn = c /\ t.kind = "Idle" /\ t.expire = conn'[c].active + IdleTime
  BY <1>2, <1>3, <1>5 DEF Lasts
<1>10. Current(c)'
  BY <1>7, <1>8, <1>9 DEF Current
<1>11. \A t \in Live' : t.conn = c /\ t.kind = "Close" => r.state = "disconnecting"
  BY <1>2, <1>5, <1>6
<1>12. r.state # "none"
  BY <1>1, <1>2 DEF Open
<1> QED BY <1>1, <1>2, <1>4, <1>10, <1>11, <1>12, CreateInvariance

(* startDisconnect with output left: the idle timer stays, and there was no *)
(* close timer that could still fire.                                      *)
LEMMA StartDisconnectInvariance == ASSUME IInv, NEW c \in Conns, StartDisconnect(c) PROVE IInv'
<1> DEFINE r == [conn[c] EXCEPT !.state = "disconnecting", !.since = now]
           n == NewTimer(c, "Close")
<1>1. /\ pc = "events" /\ conn[c].state = "connected" /\ conn' = [conn EXCEPT ![c] = r]
      /\ CreateTimer(queue, slot[c], c, "Close") /\ Goto("events")
  BY DEF StartDisconnect
<1>2. r \in Connections /\ r.state = "disconnecting" /\ r.active = conn[c].active /\ r.since = now
  BY SlotFacts, Numbers DEF IInv, Connections
<1>3. conn'[c] = r /\ \A d \in Conns \ {c} : conn'[d] = conn[d]
  BY <1>1 DEF IInv, TypeOK
<1> HIDE DEF r
<1>4. "Close" \in Kinds /\ {} \in SUBSET Kinds /\ slot[c] \in [Kinds -> 0..made]
  BY SlotFacts DEF IInv, Kinds
<1>5. CreateTimer(Cancelled(queue, c, {}), slot[c], c, "Close")
  BY <1>1, CancelNothing
<1>6. /\ slot'[c]["Close"] = made + 1 /\ (\A l \in Kinds \ {"Close"} : slot'[c][l] = slot[c][l])
      /\ n \in Live' /\ n.id = made + 1 /\ n.conn = c /\ n.kind = "Close"
      /\ n.expire = now + Lasts("Close")
      /\ \A t \in Live' : t = n \/ t \in Live
      /\ \A t \in Live : t \in Live'
  BY <1>3, <1>4, <1>5, CreateKeepsOthers
<1> HIDE DEF n
<1>7. /\ \A t \in Live : t.kind \in {"Idle", "Close"}
      /\ \A t \in Live : t.conn = c => slot[c][t.kind] = t.id
      /\ \E t \in Live : t.conn = c /\ t.kind = "Idle" /\ t.expire = conn[c].active + IdleTime
      /\ \A t \in Live : t.conn = c => t.kind # "Close"
  BY <1>1 DEF IInv, TypeOK, Timers, CurrentTimers, TimersOwned, Live, Kinds, Open
<1>8. \A t \in Live' : t.conn = c => slot'[c][t.kind] = t.id
  BY <1>6, <1>7 DEF Kinds
<1>9. \E t \in Live' : t.conn = c /\ t.kind = "Idle" /\ t.expire = conn'[c].active + IdleTime
  BY <1>2, <1>3, <1>6, <1>7
<1>10. \E t \in Live' : t.conn = c /\ t.kind = "Close" /\ t.expire = conn'[c].since + CloseTime
  BY <1>2, <1>3, <1>6 DEF Lasts
<1>11. Current(c)'
  BY <1>8, <1>9, <1>10 DEF Current
<1> QED BY <1>1, <1>2, <1>4, <1>5, <1>11, CreateInvariance

(* startDisconnect with nothing to send: the connection is closed, and what *)
(* timers it has no longer matters.                                        *)
LEMMA DisconnectAtOnceInvariance == ASSUME IInv, NEW c \in Conns, DisconnectAtOnce(c) PROVE IInv'
<1> DEFINE r == [conn[c] EXCEPT !.state = "closed"]
<1>1. /\ pc = "events" /\ conn' = [conn EXCEPT ![c] = r]
      /\ CreateTimer(Cancelled(queue, c, Kinds), NoTimers, c, "Close") /\ Goto("events")
  BY DEF DisconnectAtOnce
<1>2. r \in Connections /\ r.state = "closed"
  BY SlotFacts DEF IInv, Connections
<1>3. conn'[c] = r
  BY <1>1 DEF IInv, TypeOK
<1> HIDE DEF r
<1>4. "Close" \in Kinds /\ NoTimers \in [Kinds -> 0..made] /\ \A l \in Kinds : NoTimers[l] = NoTimer
  BY Numbers DEF IInv, Kinds, NoTimers, NoTimer
<1>5. ~Open(c)'
  BY <1>2, <1>3 DEF Open
<1>6. Current(c)'
  BY <1>5 DEF Current
<1> QED BY <1>1, <1>2, <1>4, <1>5, <1>6, CreateInvariance

(* A connection that closes: its timers in q are cancelled or forgotten.    *)
LEMMA CloseInvariance ==
    ASSUME IInv, NEW c \in Conns, NEW kinds \in SUBSET Kinds, NEW q \in SUBSET queue,
           \A t \in queue : t.conn # c => t \in q,
           conn' = [conn EXCEPT ![c].state = "closed"], queue' = Cancelled(q, c, kinds),
           slot' = [slot EXCEPT ![c] = NoTimers], UNCHANGED made,
           pc \in {"events", "expired"}, Goto(pc)
    PROVE  IInv'
<1>1. UNCHANGED <<now, pc, expire, wakeAt, sampled, spent>>
  BY DEF Goto
<1>2. /\ queue' \subseteq Timers
      /\ \A t \in queue' :
            /\ \E u \in q : u.id = t.id /\ u.conn = t.conn /\ u.kind = t.kind /\ u.expire = t.expire
            /\ t.conn # c => t \in q
      /\ \A t \in q : t.conn # c => t \in queue'
      /\ \A t, u \in queue' : t.id = u.id => t = u
  BY CancelledFacts
<1>3. /\ conn' \in [Conns -> Connections] /\ conn'[c].state = "closed"
      /\ \A d \in Conns \ {c} : conn'[d] = conn[d]
  <2>1. conn \in [Conns -> Connections]
    BY DEF IInv, TypeOK, Connections
  <2>2. conn' = [conn EXCEPT ![c] = [conn[c] EXCEPT !.state = "closed"]]
    OBVIOUS
  <2>3. /\ [conn[c] EXCEPT !.state = "closed"] \in Connections
        /\ [conn[c] EXCEPT !.state = "closed"].state = "closed"
    BY <2>1 DEF Connections
  <2> QED BY <2>1, <2>2, <2>3
<1>4. /\ slot' \in [Conns -> [Kinds -> 0..made]] /\ \A k \in Kinds : slot'[c][k] = 0
      /\ \A d \in Conns \ {c} : slot'[d] = slot[d]
  <2>1. slot \in [Conns -> [Kinds -> 0..made]]
    BY DEF IInv, TypeOK
  <2>2. NoTimers \in [Kinds -> 0..made] /\ \A k \in Kinds : NoTimers[k] = 0
    BY Numbers DEF IInv, NoTimers, NoTimer
  <2> QED BY <2>1, <2>2
<1>5. TypeOK'
  BY <1>1, <1>2, <1>3, <1>4 DEF IInv, TypeOK, Connections, Timers
<1>6. OthersKept(c)
  BY <1>2, <1>3, <1>4 DEF OthersKept
<1>7. \A t \in queue' : t.id # 0
  <2>1. \A t \in Timers : t.id \in Nat /\ 1 <= t.id
    BY TimerFields DEF IInv
  <2> QED BY <1>2, <2>1
<1>8. ~Open(c)'
  BY <1>3 DEF Open
<1>9. Current(c)' /\ Owned(c)'
  BY <1>3, <1>4, <1>7, <1>8 DEF Current, Owned
<1>10. CurrentTimers' /\ TimersOwned'
  BY <1>5, <1>6, <1>9, OneConnection
<1>11. OnSchedule'
  BY <1>1, <1>2, <1>5, ScheduleKept
<1> QED BY <1>5, <1>10, <1>11 DEF IInv

-----------------------------------------------------------------------------
(* Steps that only drop timers, and those that leave them alone.           *)

(* As long as the live timers of open connections stay. *)
LEMMA DropKeeps ==
    ASSUME IInv, queue' \subseteq queue, UNCHANGED <<made, slot, conn>>,
           \A t \in Live : Open(t.conn) => t \in queue'
    PROVE  queue' \subseteq Timers' /\ CurrentTimers' /\ TimersOwned'
<1>1. queue' \subseteq Timers' /\ \A c : Open(c)' <=> Open(c)
  BY DEF IInv, TypeOK, Timers, Open
<1>2. Live' \subseteq Live /\ \A t \in Live : Open(t.conn) => t \in Live'
  BY DEF Live
<1>3. CurrentTimers'
  <2> SUFFICES ASSUME NEW c \in Conns, Open(c)
               PROVE  /\ \A t \in Live' : t.conn = c => slot[c][t.kind] = t.id
                      /\ \E t \in Live' : t.conn = c /\ t.kind = "Idle"
                                          /\ t.expire = conn[c].active + IdleTime
                      /\ conn[c].state = "disconnecting" =>
                            \E t \in Live' : t.conn = c /\ t.kind = "Close"
                                             /\ t.expire = conn[c].since + CloseTime
    BY <1>1 DEF CurrentTimers
  <2>1. /\ \A t \in Live : t.conn = c => slot[c][t.kind] = t.id
        /\ \E t \in Live : t.conn = c /\ t.kind = "Idle" /\ t.expire = conn[c].active + IdleTime
        /\ conn[c].state = "disconnecting" =>
              \E t \in Live : t.conn = c /\ t.kind = "Close" /\ t.expire = conn[c].since + CloseTime
    BY DEF IInv, CurrentTimers
  <2>2. \A t : t.conn = c => (t \in Live' <=> t \in Live)
    BY <1>2
  <2> QED BY <2>1, <2>2
<1>4. TimersOwned'
  BY <1>1, <1>2 DEF IInv, TimersOwned
<1> QED BY <1>1, <1>3, <1>4

(* getNextExpire: the first live timer becomes the top of the heap. *)
LEMMA NextExpireInvariance == ASSUME IInv, NextExpire PROVE IInv'
<1>1. /\ pc = "poll" /\ pc' = "timeout"
      /\ UNCHANGED <<now, made, slot, conn, wakeAt, sampled, spent>>
  BY DEF NextExpire
<1>2. \A t \in queue : t.expire \in Nat /\ now <= t.expire + spent
  BY <1>1 DEF IInv, TypeOK, Timers, OnSchedule
<1>3. /\ queue' \subseteq queue /\ Live \subseteq queue' /\ expire' \in Nat \cup {Never}
      /\ IF expire' = Never THEN queue' = {}
         ELSE (\A t \in queue' : expire' <= t.expire) /\ \E t \in Live : t.expire = expire'
  <2>1. CASE Live = {}
    BY <2>1 DEF NextExpire
  <2>2. CASE Live # {}
    <3>1. PICK first \in Earliest(Live) :
            /\ expire' = first.expire
            /\ \E below \in SUBSET {t \in queue : t.canceled /\ t.expire = first.expire} :
                  queue' = Live \cup below \cup {t \in queue : t.canceled /\ t.expire > first.expire}
      BY <2>2 DEF NextExpire
    <3>2. PICK below \in SUBSET {t \in queue : t.canceled /\ t.expire = first.expire} :
            queue' = Live \cup below \cup {t \in queue : t.canceled /\ t.expire > first.expire}
      BY <3>1
    <3>3. first \in Live /\ (\A t \in Live : first.expire <= t.expire) /\ Live \subseteq queue
      BY DEF Earliest, Live
    <3>4. first.expire \in Nat /\ first.expire # Never
      BY <1>2, <3>3, Constants
    <3>5. queue' \subseteq queue /\ Live \subseteq queue'
      BY <3>2, <3>3
    <3>6. \A t \in queue' : first.expire <= t.expire
      BY <1>2, <3>2, <3>3, <3>4
    <3> QED BY <3>1, <3>3, <3>4, <3>5, <3>6
  <2> QED BY <2>1, <2>2
<1>4. queue' \subseteq Timers' /\ CurrentTimers' /\ TimersOwned'
  BY <1>1, <1>3, DropKeeps
<1>5. TypeOK'
  BY <1>1, <1>3, <1>4 DEF IInv, TypeOK
<1>6. Live \subseteq Live'
  BY <1>3 DEF Live
<1>7. OnSchedule'
  BY <1>1, <1>2, <1>3, <1>6 DEF IInv, OnSchedule
<1> QED BY <1>4, <1>5, <1>7 DEF IInv

(* handleExpired drops a cancelled timer, or runs one. *)
LEMMA ExpiredInvariance ==
    ASSUME IInv, NEW t \in queue, DropCancelled(t) \/ RunTimer(t)
    PROVE  IInv'
<1>1. pc = "expired" /\ Goto(pc) /\ UNCHANGED made
  BY DEF DropCancelled, RunTimer
<1>2. CASE queue' = queue \ {t} /\ UNCHANGED <<slot, conn>> /\ (t \in Live => ~Open(t.conn))
  <2>1. UNCHANGED <<now, pc, expire, wakeAt, sampled, spent>>
    BY <1>1 DEF Goto
  <2>2. queue' \subseteq queue /\ \A u \in Live : Open(u.conn) => u \in queue'
    BY <1>2 DEF Live
  <2>3. queue' \subseteq Timers' /\ CurrentTimers' /\ TimersOwned'
    BY <1>1, <1>2, <2>2, DropKeeps
  <2>4. TypeOK'
    BY <1>1, <1>2, <2>1, <2>3 DEF IInv, TypeOK
  <2>5. OnSchedule'
    BY <1>1, <2>1, <2>2, <2>4, ScheduleKept
  <2> QED BY <2>3, <2>4, <2>5 DEF IInv
<1>3. CASE RunTimer(t) /\ Open(t.conn)
  <2>1. /\ conn' = [conn EXCEPT ![t.conn].state = "closed"]
        /\ queue' = Cancelled(queue \ {t}, t.conn, Kinds \ {t.kind})
        /\ slot' = [slot EXCEPT ![t.conn] = NoTimers]
    BY <1>3 DEF RunTimer
  <2>2. t.conn \in Conns
    BY DEF IInv, TypeOK, Timers
  <2>3. /\ queue \ {t} \in SUBSET queue /\ Kinds \ {t.kind} \in SUBSET Kinds
        /\ \A u \in queue : u.conn # t.conn => u \in queue \ {t}
    OBVIOUS
  <2> QED BY <1>1, <2>1, <2>2, <2>3, CloseInvariance
<1> QED BY <1>2, <1>3 DEF DropCancelled, RunTimer, Live

(* Of any set of times there is a least one. *)
LEMMA LeastTime ==
    ASSUME NEW T \in SUBSET Nat, T # {}
    PROVE  \E x \in T : \A y \in T : x <= y
<1> DEFINE R == OpToRel(<, Nat)
<1>1. IsWellFoundedOn(R, Nat)
  BY NatLessThanWellFounded
<1>2. \A x, y \in Nat : <<x, y>> \in R <=> x < y
  BY DEF OpToRel
<1> HIDE DEF R
<1>3. PICK x \in T : \A y \in T : ~(<<y, x>> \in R)
  BY <1>1, WFMin
<1>4. \A y \in T : y \in Nat /\ x \in Nat /\ ~(y < x)
  BY <1>2, <1>3
<1>5. \A y \in T : x <= y
  BY <1>4
<1> QED BY <1>5

(* handleExpired ends when the top of the heap is not due; then no timer is, *)
(* and each is later than the time handleExpired began.                    *)
LEMMA NothingDue ==
    ASSUME IInv, pc = "expired", \A t \in queue : ~Due(t)
    PROVE  \A t \in queue : now <= t.expire + spent
<1>1. \A t \in queue : t.expire \in Nat
  BY DEF IInv, TypeOK, Timers
<1>2. now \in Nat /\ sampled \in Nat /\ spent \in Nat /\ now <= sampled + spent
  BY Numbers DEF IInv, OnSchedule
<1>3. SUFFICES ASSUME queue # {} PROVE \A t \in queue : sampled < t.expire
  BY <1>1, <1>2
<1>4. PICK x \in {t.expire : t \in queue} : \A y \in {t.expire : t \in queue} : x <= y
  BY <1>1, <1>3, LeastTime
<1>5. PICK first \in queue : first.expire = x
  BY <1>4
<1>6. \A t \in queue : first.expire <= t.expire
  BY <1>4, <1>5
<1>7. ~(first.expire <= sampled)
  BY <1>6 DEF Due, Earliest
<1> QED BY <1>1, <1>2, <1>6, <1>7

(* Where the timers stay as they are, times and pc decide. *)
LEMMA OtherStepInvariance ==
    ASSUME IInv, Tick \/ GetTimeout \/ EnterWait \/ Wake
                 \/ EndEvents \/ SampleNow \/ EndExpired \/ EndFunctors
    PROVE  IInv'
<1>1. UNCHANGED <<queue, made, slot, conn>>
  BY DEF Tick, GetTimeout, EnterWait, Wake, EndEvents, SampleNow, EndExpired, EndFunctors, Goto
<1>2. CurrentTimers' /\ TimersOwned' /\ Live' = Live /\ Timers' = Timers
  BY <1>1 DEF IInv, CurrentTimers, TimersOwned, Live, Open, Timers
<1>3. /\ now \in Nat /\ sampled \in Nat /\ spent \in Nat /\ Slack \in Nat /\ Ms \in Nat \ {0}
      /\ expire \in Nat \cup {Never} /\ wakeAt \in Nat \cup {Never} /\ Never = -1
      /\ (\A t \in queue : t.expire \in Nat) /\ Live \subseteq queue
  BY Constants, Numbers DEF IInv, TypeOK, Timers, Live
<1>4. /\ {now', sampled', spent'} \subseteq Nat /\ {expire', wakeAt'} \subseteq Nat \cup {Never}
      /\ pc' \in {"poll", "timeout", "wait", "sleep", "events", "timers", "expired", "functors"}
      /\ OnSchedule'
  <2>1. CASE Tick
    <3>1. now' = now + 1 /\ UNCHANGED <<pc, expire, wakeAt, sampled>>
      BY <2>1 DEF Tick
    <3>2. CASE Asleep /\ UNCHANGED spent
      <4>1. pc = "sleep" /\ (wakeAt = Never \/ now < wakeAt)
        BY <3>2 DEF Asleep
      <4>2. \A t \in queue : now + 1 <= t.expire + spent
        BY <1>3, <4>1 DEF IInv, OnSchedule
      <4> QED BY <1>1, <1>2, <1>3, <3>1, <3>2, <4>1, <4>2 DEF IInv, OnSchedule
    <3>3. CASE spent < Slack /\ spent' = spent + 1
      <4>1. pc # "expired" => \A t \in queue : now + 1 <= t.expire + (spent + 1)
        BY <1>3 DEF IInv, OnSchedule
      <4>2. pc = "expired" => /\ now + 1 <= sampled + (spent + 1)
                              /\ \A t \in queue : sampled <= t.expire + Slack
        BY <1>3 DEF IInv, OnSchedule
      <4>3. pc = "timeout" =>
               IF expire = Never THEN queue = {}
               ELSE (\A t \in queue : expire <= t.expire) /\ \E t \in Live : t.expire = expire
        BY DEF IInv, OnSchedule
      <4>4. pc = "wait" =>
               IF wakeAt = Never THEN queue = {}
               ELSE /\ \A t \in queue : (now + 1) + wakeAt <= t.expire + (spent + 1)
                    /\ \E t \in Live : t.expire - Ms < (now + 1) + wakeAt
        BY <1>3 DEF IInv, OnSchedule
      <4>5. pc = "sleep" =>
               IF wakeAt = Never THEN queue = {}
               ELSE /\ \A t \in queue : wakeAt <= t.expire + (spent + 1)
                    /\ \E t \in Live : t.expire - Ms < wakeAt
        BY <1>3 DEF IInv, OnSchedule
      <4>6. sampled <= now + 1 /\ spent + 1 <= Slack /\ now + 1 \in Nat /\ spent + 1 \in Nat
        BY <1>3, <3>3 DEF IInv, OnSchedule
      <4>7. OnSchedule'
        BY <1>1, <1>2, <3>1, <3>3, <4>1, <4>2, <4>3, <4>4, <4>5, <4>6 DEF OnSchedule
      <4> QED BY <1>3, <3>1, <3>3, <4>6, <4>7 DEF IInv, TypeOK
    <3> QED BY <2>1, <3>2, <3>3 DEF Tick
  <2>2. CASE GetTimeout
    <3>1. /\ pc = "timeout" /\ pc' = "wait" /\ wakeAt' = Timeout(expire) /\ expire' = Never
          /\ UNCHANGED <<now, sampled, spent>>
      BY <2>2 DEF GetTimeout
    <3>2. \A t \in queue : now <= t.expire + spent
      BY <3>1 DEF IInv, OnSchedule
    <3>3. /\ wakeAt' \in Nat \cup {Never}
          /\ IF wakeAt' = Never THEN queue = {}
             ELSE /\ \A t \in queue : now + wakeAt' <= t.expire + spent
                  /\ \E t \in Live : t.expire - Ms < now + wakeAt'
      <4>1. CASE expire = Never
        BY <3>1, <4>1 DEF IInv, OnSchedule, Timeout
      <4>2. ASSUME expire # Never
            PROVE  (\A t \in queue : expire <= t.expire) /\ \E t \in Live : t.expire = expire
        BY <3>1, <4>2 DEF IInv, OnSchedule
      <4>3. CASE expire # Never /\ expire <= now
        <5>1. wakeAt' = 0
          BY <3>1, <4>3 DEF Timeout
        <5>2. \E t \in Live : t.expire - Ms < now
          BY <1>3, <4>2, <4>3
        <5> QED BY <1>3, <3>2, <5>1, <5>2
      <4>4. CASE expire # Never /\ ~(expire <= now)
        <5> DEFINE x == expire - now
                   w == (x \div Ms) * Ms
        <5>1. wakeAt' = w
          BY <3>1, <4>4 DEF Timeout
        <5>2. x \in Nat /\ expire \in Nat /\ expire = now + x
          BY <1>3, <4>4
        <5> HIDE DEF x
        <5>3. x \div Ms \in Nat
          BY <1>3, <5>2
        <5>4. w \in Nat /\ w <= x /\ x - Ms < w
          BY <1>3, <5>2, <5>3
        <5> HIDE DEF w
        <5>5. \A t \in queue : now + w <= t.expire + spent
          BY <1>3, <4>2, <4>4, <5>2, <5>4
        <5>6. \E t \in Live : t.expire - Ms < now + w
          BY <1>3, <4>2, <4>4, <5>2, <5>4
        <5> QED BY <1>3, <5>1, <5>4, <5>5, <5>6
      <4> QED BY <4>1, <4>3, <4>4
    <3>4. OnSchedule'
      BY <1>1, <1>2, <3>1, <3>2, <3>3 DEF IInv, OnSchedule
    <3> QED BY <1>3, <3>1, <3>3, <3>4
  <2>3. CASE EnterWait
    <3>1. /\ pc = "wait" /\ pc' = "sleep" /\ UNCHANGED <<now, expire, sampled, spent>>
          /\ wakeAt' = IF wakeAt = Never THEN Never ELSE now + wakeAt
      BY <2>3 DEF EnterWait
    <3>2. wakeAt' \in Nat \cup {Never} /\ (wakeAt' = Never <=> wakeAt = Never)
      BY <1>3, <3>1
    <3>3. IF wakeAt' = Never THEN queue = {}
          ELSE /\ \A t \in queue : wakeAt' <= t.expire + spent
               /\ \E t \in Live : t.expire - Ms < wakeAt'
      BY <3>1, <3>2 DEF IInv, OnSchedule
    <3>4. OnSchedule'
      BY <1>1, <1>2, <3>1, <3>3 DEF IInv, OnSchedule
    <3> QED BY <1>3, <3>1, <3>2, <3>4
  <2>4. CASE Wake
    BY <1>1, <1>2, <1>3, <2>4 DEF IInv, OnSchedule, Wake
  <2>5. CASE EndEvents
    BY <1>1, <1>2, <1>3, <2>5 DEF IInv, OnSchedule, EndEvents, Goto
  <2>6. CASE SampleNow
    <3>1. pc = "timers" /\ pc' = "expired" /\ sampled' = now /\ spent' = 0 /\ UNCHANGED <<now, expire, wakeAt>>
      BY <2>6 DEF SampleNow
    <3>2. \A t \in queue : now <= t.expire + Slack
      BY <1>3, <3>1 DEF IInv, OnSchedule
    <3>3. OnSchedule'
      BY <1>1, <1>3, <3>1, <3>2 DEF OnSchedule
    <3> QED BY <1>3, <3>1, <3>3
  <2>7. CASE EndExpired
    <3>1. /\ pc = "expired" /\ pc' = "functors" /\ sampled' = 0
          /\ UNCHANGED <<now, expire, wakeAt, spent>>
      BY <2>7 DEF EndExpired
    <3>2. \A t \in queue : now <= t.expire + spent
      BY <2>7, <3>1, NothingDue DEF EndExpired
    <3>3. OnSchedule'
      BY <1>1, <1>3, <3>1, <3>2 DEF IInv, OnSchedule
    <3> QED BY <1>3, <3>1, <3>3
  <2>8. CASE EndFunctors
    BY <1>1, <1>2, <1>3, <2>8 DEF IInv, OnSchedule, EndFunctors, Goto
  <2> QED BY <2>1, <2>2, <2>3, <2>4, <2>5, <2>6, <2>7, <2>8
<1>5. TypeOK'
  BY <1>1, <1>2, <1>4 DEF IInv, TypeOK
<1> QED BY <1>2, <1>4, <1>5 DEF IInv

-----------------------------------------------------------------------------
(* The theorems.                                                           *)

(* TypeOK, CurrentTimers, TimersOwned and OnSchedule always hold: whatever  *)
(* refreshes, closes, timeouts and late wakeups there are.                 *)
THEOREM Invariance == Spec => []IInv
<1>1. Init => IInv
  <2> SUFFICES ASSUME Init PROVE IInv
    OBVIOUS
  <2>1. queue = {} /\ Live = {} /\ made = 0 /\ pc = "poll" /\ ~\E c \in Conns : Open(c)
    BY DEF Init, Live, Open
  <2>2. TypeOK
    BY <2>1 DEF Init, TypeOK, NoTimer
  <2>3. CurrentTimers /\ TimersOwned
    BY <2>1 DEF CurrentTimers, TimersOwned
  <2>4. OnSchedule
    BY <2>1, Constants DEF Init, OnSchedule
  <2> QED BY <2>2, <2>3, <2>4 DEF IInv
<1>2. IInv /\ [Next]_vars => IInv'
  <2> SUFFICES ASSUME IInv, [Next]_vars PROVE IInv'
    OBVIOUS
  <2>1. CASE UNCHANGED vars
    BY <2>1 DEF vars, IInv, TypeOK, Timers, CurrentTimers, TimersOwned, OnSchedule, Live, Open
  <2>2. CASE Tick
    BY <2>2, OtherStepInvariance
  <2>3. CASE LoopStep
    <3>1. CASE NextExpire
      BY <3>1, NextExpireInvariance
    <3>2. CASE \E t \in queue : DropCancelled(t) \/ RunTimer(t)
      BY <3>2, ExpiredInvariance
    <3>3. CASE GetTimeout \/ EnterWait \/ Wake \/ EndEvents \/ SampleNow \/ EndExpired \/ EndFunctors
      BY <3>3, OtherStepInvariance
    <3> QED BY <2>3, <3>1, <3>2, <3>3 DEF LoopStep
  <2>4. ASSUME NEW c \in Conns, Connect(c) PROVE IInv'
    BY <2>4, ConnectInvariance
  <2>5. ASSUME NEW c \in Conns, Activity(c) PROVE IInv'
    BY <2>5, ActivityInvariance
  <2>6. ASSUME NEW c \in Conns, Close(c) PROVE IInv'
    <3>1. /\ pc = "events" /\ Goto(pc) /\ UNCHANGED made
          /\ conn' = [conn EXCEPT ![c].state = "closed"] /\ queue' = Cancelled(queue, c, Kinds)
          /\ slot' = [slot EXCEPT ![c] = NoTimers]
      BY <2>6 DEF Close
    <3>2. queue \in SUBSET queue /\ Kinds \in SUBSET Kinds
      OBVIOUS
    <3> QED BY <3>1, <3>2, CloseInvariance
  <2>7. ASSUME NEW c \in Conns, StartDisconnect(c) PROVE IInv'
    BY <2>7, StartDisconnectInvariance
  <2>8. ASSUME NEW c \in Conns, DisconnectAtOnce(c) PROVE IInv'
    BY <2>8, DisconnectAtOnceInvariance
  <2> QED BY <2>1, <2>2, <2>3, <2>4, <2>5, <2>6, <2>7, <2>8 DEF Next
<1> QED BY <1>1, <1>2, PTL DEF Spec

(* The timers that could still close a connection are the current ones, and *)
(* none is missing.                                                        *)
THEOREM TimersAreCurrent == Spec => []CurrentTimers
<1>1. IInv => CurrentTimers
  BY DEF IInv
<1> QED BY <1>1, Invariance, PTL

(* A timer leaves the heap at most twice the loop's own time late. *)
LEMMA IInvHeapForgets == IInv => HeapForgets
<1> SUFFICES ASSUME IInv, NEW t \in queue PROVE now <= t.expire + 2 * Slack
  BY DEF HeapForgets
<1>1. /\ now \in Nat /\ sampled \in Nat /\ spent \in Nat /\ Slack \in Nat /\ t.expire \in Nat
      /\ spent <= Slack
  BY Constants, Numbers DEF IInv, TypeOK, Timers, OnSchedule
<1>2. \/ now <= t.expire + spent
      \/ now <= sampled + spent /\ sampled <= t.expire + Slack
  BY DEF IInv, OnSchedule
<1> QED BY <1>1, <1>2

THEOREM HeapAlwaysForgets == Spec => []HeapForgets
BY IInvHeapForgets, Invariance, PTL

(* No connection outlives its idle or close time by more than that. *)
THEOREM AlwaysClosedInTime == Spec => []ClosedInTime
<1>1. IInv => ClosedInTime
  <2> SUFFICES ASSUME IInv, NEW c \in Conns, Open(c)
               PROVE  /\ now <= conn[c].active + IdleTime + 2 * Slack
                      /\ conn[c].state = "disconnecting" => now <= conn[c].since + CloseTime + 2 * Slack
    BY DEF ClosedInTime
  <2>1. \A t \in queue : now <= t.expire + 2 * Slack
    BY IInvHeapForgets DEF HeapForgets
  <2>2. /\ \E t \in queue : t.expire = conn[c].active + IdleTime
        /\ conn[c].state = "disconnecting" => \E t \in queue : t.expire = conn[c].since + CloseTime
    BY DEF IInv, CurrentTimers, Live
  <2> QED BY <2>1, <2>2
<1> QED BY <1>1, Invariance, PTL

(* loop() sleeps neither past the next timer nor a millisecond too short. *)
THEOREM AlwaysSleepsForNextTimer == Spec => []SleepsForNextTimer
<1>1. IInv => SleepsForNextTimer
  <2> SUFFICES ASSUME IInv, pc = "sleep"
               PROVE  IF wakeAt = Never THEN Live = {}
                      ELSE /\ \A t \in Live : wakeAt <= t.expire + Slack
                           /\ \E t \in Live : t.expire - Ms < wakeAt
    BY DEF SleepsForNextTimer
  <2>1. IF wakeAt = Never THEN queue = {}
        ELSE /\ \A t \in queue : wakeAt <= t.expire + spent
             /\ \E t \in Live : t.expire - Ms < wakeAt
    BY DEF IInv, OnSchedule
  <2>2. /\ Live \subseteq queue /\ (\A t \in queue : t.expire \in Nat) /\ spent \in Nat /\ Slack \in Nat
        /\ spent <= Slack /\ wakeAt \in Nat \cup {Never} /\ Never = -1
    BY Constants, Numbers DEF IInv, TypeOK, Timers, Live, OnSchedule
  <2> QED BY <2>1, <2>2
<1> QED BY <1>1, Invariance, PTL

(* handleExpired closes no connection before its idle or close time: the    *)
(* timer it runs is the current one.                                       *)
LEMMA OnlyDueTimersClose ==
    ASSUME IInv, NEW t \in queue, RunTimer(t), NEW c \in Conns, Open(c), ~Open(c)'
    PROVE  \/ now >= conn[c].active + IdleTime
           \/ conn[c].state = "disconnecting" /\ now >= conn[c].since + CloseTime
<1>1. t \in Live /\ t.expire <= sampled
  BY DEF RunTimer, Live, Due
<1>2. t.conn = c
  BY DEF RunTimer, Open, IInv, TypeOK
<1>3. /\ now \in Nat /\ sampled \in Nat /\ sampled <= now /\ t.expire \in Nat
      /\ conn[c].active \in Nat /\ conn[c].since \in Nat /\ IdleTime \in Nat /\ CloseTime \in Nat
      /\ t.kind \in {"Idle", "Close"}
  BY Constants, Numbers DEF IInv, TypeOK, Timers, OnSchedule, Kinds
<1>4. /\ \A u \in Live : u.conn = c => slot[c][u.kind] = u.id
      /\ \E u \in Live : u.conn = c /\ u.kind = "Idle" /\ u.expire = conn[c].active + IdleTime
      /\ conn[c].state = "disconnecting" =>
            \E u \in Live : u.conn = c /\ u.kind = "Close" /\ u.expire = conn[c].since + CloseTime
      /\ \A u, v \in Live : u.id = v.id => u = v
      /\ \A u \in Live : u.conn = c /\ u.kind = "Close" => conn[c].state = "disconnecting"
  BY DEF IInv, CurrentTimers, TimersOwned, Live
<1>5. \A u \in Live : u.conn = c /\ u.kind = t.kind => u = t
  BY <1>1, <1>2, <1>4
<1>6. CASE t.kind = "Idle"
  <2>1. t.expire = conn[c].active + IdleTime
    BY <1>4, <1>5, <1>6
  <2> QED BY <1>1, <1>3, <2>1
<1>7. CASE t.kind = "Close"
  <2>1. conn[c].state = "disconnecting"
    BY <1>1, <1>2, <1>4, <1>7
  <2>2. t.expire = conn[c].since + CloseTime
    BY <1>4, <1>5, <1>7, <2>1
  <2> QED BY <1>1, <1>3, <2>1, <2>2
<1> QED BY <1>3, <1>6, <1>7

THEOREM NeverEarly == Spec => NeverClosedEarly
<1>1. IInv /\ [Next]_vars =>
        [\A c \in Conns : pc = "expired" /\ Open(c) /\ ~Open(c)' =>
            \/ now >= conn[c].active + IdleTime
            \/ conn[c].state = "disconnecting" /\ now >= conn[c].since + CloseTime]_vars
  <2> SUFFICES ASSUME IInv, Next, pc = "expired", NEW c \in Conns, Open(c), ~Open(c)'
               PROVE  \/ now >= conn[c].active + IdleTime
                      \/ conn[c].state = "disconnecting" /\ now >= conn[c].since + CloseTime
    BY DEF vars
  <2>1. conn' # conn
    BY DEF Open
  <2>2. PICK t \in queue : RunTimer(t)
    BY <2>1 DEF Next, LoopStep, Tick, NextExpire, GetTimeout, EnterWait, Wake, EndEvents, SampleNow,
                EndExpired, EndFunctors, DropCancelled, Connect, Activity, Close, StartDisconnect,
                DisconnectAtOnce
  <2> QED BY <2>2, OnlyDueTimersClose
<1> QED BY <1>1, Invariance, PTL DEF Spec, NeverClosedEarly
=============================================================================
