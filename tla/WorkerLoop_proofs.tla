-------------------------- MODULE WorkerLoop_proofs --------------------------
(***************************************************************************)
(* Proofs about WorkerLoop.tla, for any number of connections and tokens   *)
(* and any send buffer: IInv is inductive, and all that the safety runs    *)
(* check follows from it.                                                  *)
(***************************************************************************)
EXTENDS WorkerLoop, SequenceTheorems, TLAPS

(* What TypeOK says of a connection and of a socket. *)
Connections == [state : {"none", "Connected", "Disconnecting", "Disconnected"},
                exists : BOOLEAN, inbuf : Seq(Tokens), outbuf : Seq(Nat),
                events : SUBSET {"in", "out"},
                reason : {"None", "ServerClose", "Timeout", "Error"},
                served : 0..MaxTokens, rejected : BOOLEAN]
Sockets == [open : BOOLEAN, rx : Seq(Tokens), tx : Seq(Nat), got : Seq(Nat),
            sent : 0..MaxTokens, fin : BOOLEAN, rst : BOOLEAN, shut : BOOLEAN]
Timers == [Kinds -> {"off", "armed", "due"}]
Handling == {"events", "message", "afterRead", "write", "after"}

LEMMA Types ==
    ASSUME TypeOK
    PROVE  /\ conn \in [Conns -> Connections] /\ sock \in [Conns -> Sockets]
           /\ timers \in [Conns -> Timers] /\ mask \in [Conns -> SUBSET {"in", "out"}]
           /\ pc \in Handling \cup {"poll", "dispatch", "timers", "functors", "crashed"}
           /\ cur \in Conns \cup {NoConn} /\ batch \subseteq Conns
           /\ revents \in [Conns -> SUBSET {"err", "in", "hup", "out"}]
BY DEF TypeOK, Connections, Sockets, Timers, Handling

LEMMA TypesSuffice ==
    ASSUME conn' \in [Conns -> Connections], sock' \in [Conns -> Sockets],
           timers' \in [Conns -> Timers], mask' \in [Conns -> SUBSET {"in", "out"}],
           pc' \in Handling \cup {"poll", "dispatch", "timers", "functors", "crashed"},
           cur' \in Conns \cup {NoConn}, batch' \subseteq Conns,
           revents' \in [Conns -> SUBSET {"err", "in", "hup", "out"}]
    PROVE  TypeOK'
BY DEF TypeOK, Connections, Sockets, Timers, Handling

(* The fields of a connection, of a socket, and the two timers. *)
LEMMA Fields ==
    /\ MaxTokens \in Nat
    /\ \A r \in Connections :
          /\ r.state \in {"none", "Connected", "Disconnecting", "Disconnected"} /\ r.exists \in BOOLEAN
          /\ r.inbuf \in Seq(Tokens) /\ r.outbuf \in Seq(Nat) /\ r.events \in SUBSET {"in", "out"}
          /\ r.reason \in {"None", "ServerClose", "Timeout", "Error"}
          /\ r.served \in Nat /\ r.served <= MaxTokens /\ r.rejected \in BOOLEAN
    /\ \A s \in Sockets :
          /\ s.open \in BOOLEAN /\ s.rx \in Seq(Tokens) /\ s.tx \in Seq(Nat) /\ s.got \in Seq(Nat)
          /\ s.sent \in Nat /\ s.sent <= MaxTokens /\ s.fin \in BOOLEAN /\ s.rst \in BOOLEAN
          /\ s.shut \in BOOLEAN
<1>1. MaxTokens \in Nat
  BY WorkerLoopAssumption
<1>2. \A n \in 0..MaxTokens : n \in Nat /\ n <= MaxTokens
  BY <1>1
<1>3. ASSUME NEW r \in Connections
      PROVE  /\ r.state \in {"none", "Connected", "Disconnecting", "Disconnected"} /\ r.exists \in BOOLEAN
             /\ r.inbuf \in Seq(Tokens) /\ r.outbuf \in Seq(Nat) /\ r.events \in SUBSET {"in", "out"}
             /\ r.reason \in {"None", "ServerClose", "Timeout", "Error"}
             /\ r.served \in 0..MaxTokens /\ r.rejected \in BOOLEAN
  BY DEF Connections
<1>4. ASSUME NEW s \in Sockets
      PROVE  /\ s.open \in BOOLEAN /\ s.rx \in Seq(Tokens) /\ s.tx \in Seq(Nat) /\ s.got \in Seq(Nat)
             /\ s.sent \in 0..MaxTokens /\ s.fin \in BOOLEAN /\ s.rst \in BOOLEAN /\ s.shut \in BOOLEAN
  BY DEF Sockets
<1> QED BY <1>1, <1>2, <1>3, <1>4

-----------------------------------------------------------------------------
(* Sequences.                                                              *)

LEMMA Associative == \A a, b, d \in Seq(Nat) : (a \o b) \o d = a \o (b \o d)
BY ConcatAssociative, SMTT(30)

(* Moving the head of one sequence to the end of the one before it. *)
LEMMA MoveHead ==
    ASSUME NEW a \in Seq(Nat), NEW b \in Seq(Nat), b # <<>>
    PROVE  /\ Append(a, Head(b)) \in Seq(Nat) /\ Tail(b) \in Seq(Nat)
           /\ Append(a, Head(b)) \o Tail(b) = a \o b
<1>1. Head(b) \in Nat /\ Tail(b) \in Seq(Nat)
  BY HeadTailProperties
<1>2. Append(a, Head(b)) = a \o <<Head(b)>>
  BY <1>1, AppendIsConcat
<1>3. <<Head(b)>> \in Seq(Nat)
  BY <1>1
<1>4. <<Head(b)>> \o Tail(b) = b
  BY <1>1
<1>5. (a \o <<Head(b)>>) \o Tail(b) = a \o (<<Head(b)>> \o Tail(b))
  BY <1>1, <1>3, Associative
<1> QED BY <1>1, <1>2, <1>3, <1>4, <1>5, AppendProperties

(* The same of three sequences: the peer reads, and the server sends. *)
LEMMA MoveInThree ==
    ASSUME NEW a \in Seq(Nat), NEW b \in Seq(Nat), NEW d \in Seq(Nat)
    PROVE  /\ b # <<>> => (Append(a, Head(b)) \o Tail(b)) \o d = (a \o b) \o d
           /\ d # <<>> => (a \o Append(b, Head(d))) \o Tail(d) = (a \o b) \o d
<1>1. b # <<>> => (Append(a, Head(b)) \o Tail(b)) \o d = (a \o b) \o d
  BY MoveHead
<1>2. ASSUME d # <<>> PROVE (a \o Append(b, Head(d))) \o Tail(d) = (a \o b) \o d
  <2> DEFINE e == Append(b, Head(d))
  <2>1. /\ e \in Seq(Nat) /\ Tail(d) \in Seq(Nat)
        /\ e \o Tail(d) = b \o d
    BY <1>2, MoveHead
  <2> HIDE DEF e
  <2>2. (a \o e) \o Tail(d) = a \o (e \o Tail(d))
    BY <2>1, Associative
  <2>3. (a \o b) \o d = a \o (b \o d)
    BY Associative
  <2> QED BY <2>1, <2>2, <2>3 DEF e
<1> QED BY <1>1, <1>2

(* The numbers up to n, and one more. *)
LEMMA NextNumber ==
    ASSUME NEW a \in Seq(Nat), NEW b \in Seq(Nat), NEW n \in Nat,
           a \o b = [i \in 1..n |-> i]
    PROVE  a \o Append(b, n + 1) = [i \in 1..(n + 1) |-> i]
<1> DEFINE last == <<n + 1>>
<1>1. last \in Seq(Nat) /\ Append(b, n + 1) = b \o last
  BY AppendIsConcat
<1>2. Append(a \o b, n + 1) = (a \o b) \o last
  <2>1. a \o b \in Seq(Nat)
    BY ConcatProperties
  <2> QED BY <2>1, AppendIsConcat
<1> HIDE DEF last
<1>3. a \o (b \o last) = (a \o b) \o last
  BY <1>1, Associative
<1>4. a \o b \in Seq(Nat) /\ Len(a \o b) = n
  BY ConcatProperties
<1>5. Append(a \o b, n + 1) = [i \in 1..(n + 1) |-> i]
  <2> DEFINE s == Append(a \o b, n + 1)
  <2>1. /\ s \in Seq(Nat) /\ Len(s) = n + 1
        /\ (\A i \in 1..n : s[i] = (a \o b)[i]) /\ s[n + 1] = n + 1
    BY <1>4, AppendProperties
  <2>2. \A i \in 1..n : s[i] = i
    BY <2>1
  <2>3. s \in [1..(n + 1) -> Nat]
    BY <2>1, LenProperties
  <2> HIDE DEF s
  <2>4. \A i \in 1..(n + 1) : s[i] = i
    <3>1. \A i \in 1..(n + 1) : i \in 1..n \/ i = n + 1
      OBVIOUS
    <3> QED BY <2>1, <2>2, <3>1
  <2>5. s = [i \in 1..(n + 1) |-> i]
    BY <2>3, <2>4
  <2> QED BY <2>5 DEF s
<1> QED BY <1>1, <1>3, <1>2, <1>5

(* What is left behind the i-th token. *)
LEMMA RestFacts ==
    ASSUME NEW q \in Seq(Tokens), NEW i \in 1..Len(q)
    PROVE  /\ SubSeq(q, i + 1, Len(q)) \in Seq(Tokens)
           /\ Len(SubSeq(q, i + 1, Len(q))) <= Len(q) - 1
           /\ Len(q) \in Nat /\ Len(SubSeq(q, i + 1, Len(q))) \in Nat
<1>1. Len(q) \in Nat /\ i \in Nat /\ 1 <= i /\ i <= Len(q)
  OBVIOUS
<1>2. \A j \in (i + 1)..Len(q) : q[j] \in Tokens
  BY <1>1
<1>3. /\ SubSeq(q, i + 1, Len(q)) \in Seq(Tokens)
      /\ Len(SubSeq(q, i + 1, Len(q))) = IF i + 1 <= Len(q) THEN Len(q) - (i + 1) + 1 ELSE 0
  BY <1>1, <1>2, SubSeqProperties
<1> QED BY <1>1, <1>3

-----------------------------------------------------------------------------
(* Steps and the connections they are about.                               *)

Same(c) == conn'[c] = conn[c] /\ timers'[c] = timers[c] /\ mask'[c] = mask[c] /\ sock'[c] = sock[c]

LEMMA Parts ==
    ASSUME IInv
    PROVE  TypeOK /\ BatchExists /\ \A c \in Conns : ConnectionInv(c)
BY DEF IInv

LEMMA PartsSuffice ==
    ASSUME TypeOK', BatchExists', \A c \in Conns : ConnectionInv(c)'
    PROVE  IInv'
BY DEF IInv

(* Responses stay in order while none is made, sent or read. *)
LEMMA OrderKept ==
    ASSUME NEW c \in Conns, InOrder(c),
           conn'[c].exists => conn[c].exists, sock[c].rst => sock'[c].rst,
           conn'[c].outbuf = conn[c].outbuf, conn'[c].served = conn[c].served,
           sock'[c].tx = sock[c].tx, sock'[c].got = sock[c].got
    PROVE  InOrder(c)'
<1> DEFINE Upto(n) == [i \in 1..n |-> i]
<1>1. conn[c].exists /\ ~sock[c].rst =>
        sock[c].got \o sock[c].tx \o conn[c].outbuf = Upto(conn[c].served)
  BY DEF InOrder
<1> HIDE DEF Upto
<1>2. conn'[c].exists /\ ~sock'[c].rst =>
        sock'[c].got \o sock'[c].tx \o conn'[c].outbuf = Upto(conn'[c].served)
  BY <1>1
<1> QED BY <1>2 DEF InOrder, Upto

(* A connection that is not being handled keeps its invariant as long as    *)
(* nothing of its own changes, wherever loop() goes.                       *)
LEMMA SameKept ==
    ASSUME NEW c \in Conns, ConnectionInv(c), Same(c), ~Handled(c), Handled(c)' => conn[c].exists
    PROVE  ConnectionInv(c)'
<1>1. Lifetime(c)'
  BY DEF ConnectionInv, Lifetime, Same, Handled
<1>2. TimersFollow(c)'
  BY DEF ConnectionInv, TimersFollow, Same
<1>3. InterestFollows(c)'
  BY DEF ConnectionInv, InterestFollows, Same, Handled
<1>4. InputRead(c)'
  BY DEF ConnectionInv, InputRead, Same, Handled
<1>5. InOrder(c)'
  BY OrderKept DEF ConnectionInv, Same
<1> QED BY <1>1, <1>2, <1>3, <1>4, <1>5 DEF ConnectionInv

(* A handler's step: only what belongs to the channel it is about changes.  *)
LEMMA HandlerStep ==
    ASSUME IInv, NEW c \in Conns, Handled(c), UNCHANGED <<cur, batch, revents>>,
           pc' \in Handling \cup {"dispatch", "crashed"},
           NEW r \in Connections, conn' = [conn EXCEPT ![c] = r],
           NEW tm \in Timers, timers' = [timers EXCEPT ![c] = tm],
           NEW mk \in SUBSET {"in", "out"}, mask' = [mask EXCEPT ![c] = mk],
           NEW sk \in Sockets, sock' = [sock EXCEPT ![c] = sk],
           ConnectionInv(c)'
    PROVE  IInv'
<1>1. TypeOK
  BY Parts
<1>2. TypeOK'
  <2>1. /\ conn' \in [Conns -> Connections] /\ sock' \in [Conns -> Sockets]
        /\ timers' \in [Conns -> Timers] /\ mask' \in [Conns -> SUBSET {"in", "out"}]
    BY <1>1, Types
  <2>2. /\ pc' \in Handling \cup {"poll", "dispatch", "timers", "functors", "crashed"}
        /\ cur' \in Conns \cup {NoConn} /\ batch' \subseteq Conns
        /\ revents' \in [Conns -> SUBSET {"err", "in", "hup", "out"}]
    BY <1>1, Types
  <2> QED BY <2>1, <2>2, TypesSuffice
<1>3. \A d \in Conns \ {c} : Same(d) /\ ~Handled(d) /\ ~Handled(d)'
  BY <1>1, Types DEF Same, Handled
<1>4. cur = c /\ c \notin batch /\ \A d \in batch : d \in Conns /\ conn[d].exists
  BY <1>1, Types DEF IInv, BatchExists, Handled
<1>5. BatchExists'
  BY <1>3, <1>4 DEF BatchExists, Handling, Same
<1>6. \A d \in Conns : ConnectionInv(d)'
  <2> SUFFICES ASSUME NEW d \in Conns \ {c} PROVE ConnectionInv(d)'
    OBVIOUS
  <2>1. ConnectionInv(d)
    BY Parts
  <2> QED BY <1>3, <2>1, SameKept
<1> QED BY <1>2, <1>5, <1>6, PartsSuffice

(* A step of a peer, of the clock, or of loop() outside of the handlers,    *)
(* that is about one connection.                                           *)
LEMMA OtherStep ==
    ASSUME IInv, NEW c \in Conns, UNCHANGED <<cur, batch, revents>>,
           pc' = pc \/ (pc = "timers" /\ pc' = "crashed"),
           NEW r \in Connections, conn' = [conn EXCEPT ![c] = r], conn[c].exists => r.exists \/ batch = {},
           NEW tm \in Timers, timers' = [timers EXCEPT ![c] = tm],
           NEW mk \in SUBSET {"in", "out"}, mask' = [mask EXCEPT ![c] = mk],
           NEW sk \in Sockets, sock' = [sock EXCEPT ![c] = sk],
           ConnectionInv(c)'
    PROVE  IInv'
<1>1. TypeOK
  BY Parts
<1>2. TypeOK'
  <2>1. /\ conn' \in [Conns -> Connections] /\ sock' \in [Conns -> Sockets]
        /\ timers' \in [Conns -> Timers] /\ mask' \in [Conns -> SUBSET {"in", "out"}]
    BY <1>1, Types
  <2>2. /\ pc' \in Handling \cup {"poll", "dispatch", "timers", "functors", "crashed"}
        /\ cur' \in Conns \cup {NoConn} /\ batch' \subseteq Conns
        /\ revents' \in [Conns -> SUBSET {"err", "in", "hup", "out"}]
    BY <1>1, Types
  <2> QED BY <2>1, <2>2, TypesSuffice
<1>3. conn'[c] = r /\ \A d \in Conns \ {c} : Same(d)
  BY <1>1, Types DEF Same
<1>4. \A d \in Conns : Handled(d)' <=> Handled(d)
  BY DEF Handled
<1>5. BatchExists'
  BY <1>1, <1>3, <1>4, Types DEF IInv, BatchExists, Same
<1>6. \A d \in Conns : ConnectionInv(d)'
  <2> SUFFICES ASSUME NEW d \in Conns \ {c} PROVE ConnectionInv(d)'
    OBVIOUS
  <2>1. ConnectionInv(d) /\ Same(d)
    BY <1>3, Parts
  <2>2. CASE ~Handled(d)
    BY <1>4, <2>1, <2>2, SameKept
  <2>3. CASE Handled(d)
    <3>1. UNCHANGED <<pc, cur>>
      BY <2>3 DEF Handled
    <3>2. InOrder(d)'
      BY <2>1, OrderKept DEF ConnectionInv, Same
    <3>3. Lifetime(d)' /\ TimersFollow(d)'
      BY <2>1, <3>1 DEF ConnectionInv, Lifetime, TimersFollow, Same
    <3>4. InterestFollows(d)' /\ InputRead(d)'
      BY <2>1, <3>1 DEF ConnectionInv, InterestFollows, InputRead, Same, Handled
    <3> QED BY <3>2, <3>3, <3>4 DEF ConnectionInv
  <2> QED BY <2>2, <2>3
<1> QED BY <1>2, <1>5, <1>6, PartsSuffice

(* A connection with what belongs to it. *)
LEMMA OwnTypes ==
    ASSUME IInv, NEW c \in Conns
    PROVE  /\ conn[c] \in Connections /\ sock[c] \in Sockets /\ timers[c] \in Timers
           /\ mask[c] \in SUBSET {"in", "out"}
           /\ conn \in [Conns -> Connections] /\ sock \in [Conns -> Sockets]
           /\ timers \in [Conns -> Timers] /\ mask \in [Conns -> SUBSET {"in", "out"}]
<1>1. /\ conn \in [Conns -> Connections] /\ sock \in [Conns -> Sockets]
      /\ timers \in [Conns -> Timers] /\ mask \in [Conns -> SUBSET {"in", "out"}]
  BY Parts, Types
<1> QED BY <1>1

LEMMA OwnInv ==
    ASSUME IInv, NEW c \in Conns
    PROVE  Lifetime(c) /\ TimersFollow(c) /\ InterestFollows(c) /\ InputRead(c) /\ InOrder(c)
BY DEF IInv, ConnectionInv

LEMMA OwnFields ==
    ASSUME IInv, NEW c \in Conns
    PROVE  /\ conn[c].state \in {"none", "Connected", "Disconnecting", "Disconnected"}
           /\ conn[c].exists \in BOOLEAN /\ conn[c].inbuf \in Seq(Tokens) /\ conn[c].outbuf \in Seq(Nat)
           /\ conn[c].reason \in {"None", "ServerClose", "Timeout", "Error"}
           /\ conn[c].served \in Nat /\ sock[c].rx \in Seq(Tokens) /\ sock[c].tx \in Seq(Nat)
           /\ sock[c].got \in Seq(Nat) /\ sock[c].sent \in Nat /\ sock[c].sent <= MaxTokens
           /\ MaxTokens \in Nat /\ Len(conn[c].inbuf) \in Nat /\ Len(sock[c].rx) \in Nat
<1>1. conn[c] \in Connections /\ sock[c] \in Sockets
  BY OwnTypes
<1>2. /\ conn[c].state \in {"none", "Connected", "Disconnecting", "Disconnected"}
      /\ conn[c].exists \in BOOLEAN /\ conn[c].inbuf \in Seq(Tokens) /\ conn[c].outbuf \in Seq(Nat)
      /\ conn[c].reason \in {"None", "ServerClose", "Timeout", "Error"} /\ conn[c].served \in Nat
  BY <1>1, Fields
<1>3. /\ sock[c].rx \in Seq(Tokens) /\ sock[c].tx \in Seq(Nat) /\ sock[c].got \in Seq(Nat)
      /\ sock[c].sent \in Nat /\ sock[c].sent <= MaxTokens /\ MaxTokens \in Nat
  BY <1>1, Fields
<1>4. Len(conn[c].inbuf) \in Nat /\ Len(sock[c].rx) \in Nat
  BY <1>2, <1>3
<1> QED BY <1>2, <1>3, <1>4

LEMMA OwnSame ==
    ASSUME IInv, NEW c \in Conns
    PROVE  /\ conn = [conn EXCEPT ![c] = conn[c]] /\ sock = [sock EXCEPT ![c] = sock[c]]
           /\ timers = [timers EXCEPT ![c] = timers[c]] /\ mask = [mask EXCEPT ![c] = mask[c]]
BY OwnTypes

-----------------------------------------------------------------------------
(* The records that the handlers make of a connection.                     *)

LEMMA DisconnectedFacts ==
    ASSUME NEW r \in Connections, NEW reason \in {"None", "ServerClose", "Timeout", "Error"},
           NEW d, d = Disconnected(r, reason)
    PROVE  /\ d \in Connections /\ d.state = "Disconnected" /\ d.reason = reason
           /\ d.exists = r.exists /\ d.inbuf = r.inbuf /\ d.outbuf = r.outbuf
           /\ d.served = r.served /\ d.rejected = r.rejected
<1> DEFINE e == disableAll(r)
<1>1. /\ e \in Connections /\ e.exists = r.exists /\ e.inbuf = r.inbuf /\ e.outbuf = r.outbuf
      /\ e.served = r.served /\ e.rejected = r.rejected
  BY DEF disableAll, Connections
<1> DEFINE f == [e EXCEPT !.state = "Disconnected"]
<1>2. d = [f EXCEPT !.reason = reason]
  BY DEF Disconnected
<1> HIDE DEF e
<1>3. /\ f \in Connections /\ f.state = "Disconnected" /\ f.exists = r.exists /\ f.inbuf = r.inbuf
      /\ f.outbuf = r.outbuf /\ f.served = r.served /\ f.rejected = r.rejected
  BY <1>1 DEF Connections
<1> HIDE DEF f
<1> QED BY <1>2, <1>3 DEF Connections

LEMMA DestroyedFacts ==
    ASSUME NEW r \in Connections, NEW e, e = [r EXCEPT !.exists = FALSE]
    PROVE  /\ e \in Connections /\ ~e.exists /\ e.state = r.state /\ e.reason = r.reason
           /\ e.inbuf = r.inbuf /\ e.served = r.served
BY DEF Connections

LEMMA AnsweredFacts ==
    ASSUME NEW r \in Connections, NEW i \in 1..Len(r.inbuf), r.served + 1 <= MaxTokens
    PROVE  LET a == Answered(r, i)
           IN  /\ a \in Connections /\ a.state = r.state /\ a.exists = r.exists /\ a.reason = r.reason
               /\ a.rejected = r.rejected /\ a.inbuf = SubSeq(r.inbuf, i + 1, Len(r.inbuf))
               /\ a.outbuf = Append(r.outbuf, r.served + 1) /\ a.outbuf # <<>>
               /\ a.served = r.served + 1 /\ "out" \in a.events
<1> PICK a : a = Answered(r, i)
  OBVIOUS
<1> DEFINE e == enableWriting(r)
           rest == SubSeq(r.inbuf, i + 1, Len(r.inbuf))
           out == Append(r.outbuf, r.served + 1)
<1>1. /\ e \in Connections /\ "out" \in e.events /\ e.state = r.state /\ e.exists = r.exists
      /\ e.reason = r.reason /\ e.inbuf = r.inbuf /\ e.outbuf = r.outbuf
      /\ e.served = r.served /\ e.rejected = r.rejected
  BY DEF enableWriting, Connections
<1>2. rest \in Seq(Tokens)
  BY Fields, RestFacts
<1>3. r.served \in Nat /\ r.outbuf \in Seq(Nat) /\ MaxTokens \in Nat
  BY Fields
<1>4. out \in Seq(Nat) /\ out # <<>> /\ r.served + 1 \in 0..MaxTokens
  <2>1. r.served + 1 \in Nat /\ r.served + 1 \in 0..MaxTokens
    BY <1>3
  <2> QED BY <1>3, <2>1, AppendProperties
<1>5. a = [e EXCEPT !.inbuf = SubSeq(e.inbuf, i + 1, Len(e.inbuf)),
                    !.outbuf = Append(e.outbuf, r.served + 1), !.served = e.served + 1]
  BY DEF Answered
<1>6. a = [e EXCEPT !.inbuf = rest, !.outbuf = out, !.served = r.served + 1]
  BY <1>1, <1>5
<1> HIDE DEF e, rest, out
<1>7. /\ a \in Connections /\ a.state = e.state /\ a.exists = e.exists /\ a.reason = e.reason
      /\ a.rejected = e.rejected /\ a.inbuf = rest /\ a.outbuf = out
      /\ a.served = r.served + 1 /\ a.events = e.events
  BY <1>1, <1>2, <1>4, <1>6 DEF Connections
<1>8. /\ a.inbuf = SubSeq(r.inbuf, i + 1, Len(r.inbuf)) /\ a.outbuf = Append(r.outbuf, r.served + 1)
      /\ a.outbuf # <<>> /\ "out" \in a.events
  BY <1>1, <1>4, <1>7 DEF rest, out
<1> QED BY <1>1, <1>7, <1>8

LEMMA ReleasedFacts ==
    ASSUME NEW r \in Connections, NEW e, e = Released(r)
    PROVE  /\ e \in Connections /\ e.state = r.state /\ e.reason = r.reason
           /\ e.exists \in BOOLEAN /\ (e.exists <=> r.exists /\ r.state # "Disconnected")
           /\ e.inbuf = r.inbuf /\ e.outbuf = r.outbuf /\ e.events = r.events
           /\ e.served = r.served /\ e.rejected = r.rejected
<1>1. r.exists \in BOOLEAN
  BY Fields
<1>2. CASE r.state # "Disconnected"
  <2>1. (r.exists /\ r.state # "Disconnected") = r.exists
    BY <1>1, <1>2
  <2>2. e = [r EXCEPT !.exists = r.exists]
    BY <2>1 DEF Released
  <2> QED BY <1>1, <1>2, <2>2 DEF Connections
<1>3. CASE r.state = "Disconnected"
  <2>1. (r.exists /\ r.state # "Disconnected") = FALSE
    BY <1>1, <1>3
  <2>2. e = [r EXCEPT !.exists = FALSE]
    BY <2>1 DEF Released
  <2> QED BY <1>1, <1>3, <2>2 DEF Connections
<1> QED BY <1>2, <1>3

LEMMA InbufFacts ==
    ASSUME NEW r \in Connections, NEW in \in Seq(Tokens), NEW e, e = [r EXCEPT !.inbuf = in]
    PROVE  /\ e \in Connections /\ e.inbuf = in /\ e.state = r.state /\ e.exists = r.exists
           /\ e.outbuf = r.outbuf /\ e.events = r.events /\ e.reason = r.reason /\ e.served = r.served
BY DEF Connections

LEMMA SocketFacts ==
    ASSUME NEW s \in Sockets, NEW rx \in Seq(Tokens), NEW e, e = [s EXCEPT !.rx = rx]
    PROVE  /\ e \in Sockets /\ e.rx = rx /\ e.tx = s.tx /\ e.got = s.got /\ e.sent = s.sent
           /\ e.rst = s.rst
BY DEF Sockets

(* refreshIdleTimer and startDisconnect arm timers. *)
LEMMA ArmedFacts ==
    ASSUME NEW t \in Timers
    PROVE  /\ [t EXCEPT !["Idle"] = "armed"] \in Timers
           /\ [t EXCEPT !["Idle"] = "armed"].Idle = "armed"
           /\ [t EXCEPT !["Idle"] = "armed"].Close = t.Close
           /\ [t EXCEPT !["Close"] = "armed"] \in Timers
           /\ [t EXCEPT !["Close"] = "armed"].Close = "armed"
           /\ [t EXCEPT !["Close"] = "armed"].Idle = t.Idle
BY DEF Timers, Kinds

-----------------------------------------------------------------------------
(* Closing.                                                                *)

(* handleClose leaves nothing behind, wherever it is called. *)
LEMMA CloseStep ==
    ASSUME IInv, NEW c \in Conns, NEW reason \in {"None", "ServerClose", "Timeout", "Error"},
           HandleClose(c, reason), UNCHANGED <<sock, cur, batch, revents>>,
           \/ Handled(c) /\ pc' \in {"afterRead", "after"}
           \/ pc = "timers" /\ pc' = pc
    PROVE  IInv'
<1> DEFINE d == Disconnected(conn[c], reason)
           r == [d EXCEPT !.exists = FALSE]
<1>1. /\ conn' = [conn EXCEPT ![c] = r] /\ timers' = [timers EXCEPT ![c] = NoTimers]
      /\ mask' = [mask EXCEPT ![c] = {}] /\ sock' = [sock EXCEPT ![c] = sock[c]]
  BY OwnSame DEF HandleClose, remove
<1>2. /\ r \in Connections /\ r.state = "Disconnected" /\ ~r.exists
      /\ r.inbuf = conn[c].inbuf /\ r.served = conn[c].served
  <2>1. /\ d \in Connections /\ d.state = "Disconnected"
        /\ d.inbuf = conn[c].inbuf /\ d.served = conn[c].served
    BY OwnTypes, DisconnectedFacts
  <2> HIDE DEF d
  <2> QED BY <2>1, DestroyedFacts
<1> HIDE DEF d, r
<1>3. NoTimers \in Timers /\ NoTimers.Idle = "off" /\ NoTimers.Close = "off"
  BY DEF NoTimers, Timers, Kinds
<1>4. conn'[c] = r /\ timers'[c] = NoTimers /\ mask'[c] = {} /\ sock'[c] = sock[c]
  BY <1>1, OwnTypes
<1>5. ConnectionInv(c)'
  <2>1. ~(cur' = c /\ pc' \in {"events", "message", "write"})
    BY DEF Handled
  <2>2. Lifetime(c)' /\ TimersFollow(c)' /\ InterestFollows(c)' /\ InOrder(c)'
    BY <1>2, <1>3, <1>4, <2>1 DEF Lifetime, TimersFollow, InterestFollows, InOrder
  <2>3. InputRead(c)'
    BY <1>2, <1>4, OwnInv DEF InputRead
  <2> QED BY <2>2, <2>3 DEF ConnectionInv
<1>6. CASE Handled(c) /\ pc' \in {"afterRead", "after"}
  BY <1>1, <1>2, <1>3, <1>5, <1>6, OwnTypes, HandlerStep DEF Handling
<1>7. CASE pc = "timers" /\ pc' = pc
  <2>1. batch = {}
    BY <1>7 DEF IInv, BatchExists
  <2> QED BY <1>1, <1>2, <1>3, <1>5, <1>7, <2>1, OwnTypes, OtherStep
<1> QED BY <1>6, <1>7

(* So do the handlers and the timer that call it. *)
LEMMA ClosingSteps ==
    ASSUME IInv, NEW c \in Conns,
           \/ cur = c /\ (HandleError \/ HandleHup \/ SendFails)
           \/ cur = c /\ ReadNothing
           \/ \E k \in Kinds : RunTimer(c, k)
    PROVE  IInv'
<1>1. conn[c].reason \in {"None", "ServerClose", "Timeout", "Error"}
  BY OwnFields
<1>2. CASE cur = c /\ (HandleError \/ HandleHup \/ SendFails)
  <2>1. Handled(c) /\ pc' = "after" /\ UNCHANGED <<sock, cur, batch, revents>>
    BY <1>2 DEF HandleError, HandleHup, SendFails, At, Goto, Handled
  <2>2. HandleClose(c, "Error") \/ HandleClose(c, conn[c].reason)
    BY <1>2 DEF HandleError, HandleHup, SendFails, ForceClose
  <2> QED BY <1>1, <2>1, <2>2, CloseStep
<1>3. CASE cur = c /\ ReadNothing
  <2>1. Handled(c) /\ pc' = "afterRead" /\ UNCHANGED <<sock, cur, batch, revents>>
    BY <1>3 DEF ReadNothing, At, Goto, Handled
  <2>2. HandleClose(c, "Error") \/ HandleClose(c, conn[c].reason)
    BY <1>3 DEF ReadNothing, ForceClose
  <2> QED BY <1>1, <2>1, <2>2, CloseStep
<1>4. ASSUME NEW k \in Kinds, RunTimer(c, k) PROVE IInv'
  <2>1. pc = "timers" /\ HandleClose(c, "Timeout") /\ UNCHANGED <<sock, pc, cur, batch, revents>>
    BY <1>4 DEF RunTimer, ForceClose
  <2> QED BY <2>1, CloseStep
<1> QED BY <1>2, <1>3, <1>4

-----------------------------------------------------------------------------
(* Reading and the message handler.                                        *)

(* At these places of a handler the connection is open. *)
LEMMA OpenHere ==
    ASSUME IInv, NEW c \in Conns, cur = c,
           pc \in {"events", "write"} \/ (pc \in {"afterRead", "after"} /\ conn[c].exists)
    PROVE  conn[c].exists /\ conn[c].state \in {"Connected", "Disconnecting"} /\ Handled(c)
BY OwnInv, OwnFields DEF Lifetime, Handled

LEMMA Regrouped == \A a, b, d, e \in Nat : a + b + d <= e => a + (b + d) + 0 <= e
OBVIOUS

(* The peer's buffer, read into the connection's. *)
LEMMA ReadDataInvariance == ASSUME IInv, NEW c \in Conns, cur = c, ReadData PROVE IInv'
<1>1. pc = "events" /\ pc' = "message" /\ UNCHANGED <<mask, cur, batch, revents>>
  BY DEF ReadData, At, Goto
<1>2. PICK in \in Seq(Tokens) :
        /\ in = conn[c].inbuf \o sock[c].rx
        /\ Len(in) = Len(conn[c].inbuf) + Len(sock[c].rx)
  <2>1. /\ conn[c].inbuf \o sock[c].rx \in Seq(Tokens)
        /\ Len(conn[c].inbuf \o sock[c].rx) = Len(conn[c].inbuf) + Len(sock[c].rx)
    BY OwnFields, ConcatProperties
  <2> QED BY <2>1
<1>3. PICK none \in Seq(Tokens) : none = <<>> /\ Len(none) = 0
  <2>1. <<>> \in Seq(Tokens) /\ Len(<<>>) = 0
    OBVIOUS
  <2> QED BY <2>1, Zenon
<1>4. PICK r :
        /\ r = [conn[c] EXCEPT !.inbuf = in]
        /\ r \in Connections /\ r.state = conn[c].state /\ r.exists = conn[c].exists
        /\ r.inbuf = in /\ r.outbuf = conn[c].outbuf /\ r.events = conn[c].events
        /\ r.reason = conn[c].reason /\ r.served = conn[c].served
  <2> DEFINE x == [conn[c] EXCEPT !.inbuf = in]
  <2>1. /\ x \in Connections /\ x.state = conn[c].state /\ x.exists = conn[c].exists
        /\ x.inbuf = in /\ x.outbuf = conn[c].outbuf /\ x.events = conn[c].events
        /\ x.reason = conn[c].reason /\ x.served = conn[c].served
    BY OwnTypes, InbufFacts
  <2> QED BY <2>1
<1>5. PICK sk :
        /\ sk = [sock[c] EXCEPT !.rx = none]
        /\ sk \in Sockets /\ sk.rx = none /\ sk.tx = sock[c].tx /\ sk.got = sock[c].got
        /\ sk.sent = sock[c].sent /\ sk.rst = sock[c].rst
  <2> DEFINE x == [sock[c] EXCEPT !.rx = none]
  <2>1. /\ x \in Sockets /\ x.rx = none /\ x.tx = sock[c].tx /\ x.got = sock[c].got
        /\ x.sent = sock[c].sent /\ x.rst = sock[c].rst
    BY OwnTypes, SocketFacts
  <2> QED BY <2>1
<1>6. PICK tm :
        /\ tm = [timers[c] EXCEPT !["Idle"] = "armed"]
        /\ tm \in Timers /\ tm.Idle = "armed" /\ tm.Close = timers[c].Close
  <2> DEFINE x == [timers[c] EXCEPT !["Idle"] = "armed"]
  <2>1. x \in Timers /\ x.Idle = "armed" /\ x.Close = timers[c].Close
    BY OwnTypes, ArmedFacts
  <2> QED BY <2>1
<1>7. /\ conn' = [conn EXCEPT ![c] = r] /\ sock' = [sock EXCEPT ![c] = sk]
      /\ timers' = [timers EXCEPT ![c] = tm] /\ mask' = [mask EXCEPT ![c] = mask[c]]
  BY <1>1, <1>2, <1>3, <1>4, <1>5, <1>6, OwnSame DEF ReadData, RefreshedIdle
<1>8. /\ conn'[c] = r /\ sock'[c] = sk /\ timers'[c] = tm /\ mask'[c] = mask[c]
  BY <1>7, OwnTypes
<1>9. conn[c].exists /\ conn[c].state \in {"Connected", "Disconnecting"} /\ Handled(c)
  BY <1>1, OpenHere
<1>10. ConnectionInv(c)'
  <2>1. Lifetime(c)'
    BY <1>1, <1>4, <1>8, <1>9 DEF Lifetime
  <2>2. TimersFollow(c)'
    BY <1>4, <1>6, <1>8, <1>9, OwnInv DEF TimersFollow
  <2>3. InterestFollows(c)'
    BY <1>1, <1>4, <1>8, <1>9, OwnInv DEF InterestFollows, Handled
  <2>4. InputRead(c)'
    <3>1. conn[c].served + Len(conn[c].inbuf) + Len(sock[c].rx) <= sock[c].sent
      BY OwnInv DEF InputRead
    <3>2. /\ conn[c].served \in Nat /\ Len(conn[c].inbuf) \in Nat /\ Len(sock[c].rx) \in Nat
          /\ sock[c].sent \in Nat
      BY OwnFields
    <3>3. conn[c].served + (Len(conn[c].inbuf) + Len(sock[c].rx)) + 0 <= sock[c].sent
      BY <3>1, <3>2, Regrouped
    <3>4. Len(r.inbuf) = Len(conn[c].inbuf) + Len(sock[c].rx) /\ Len(sk.rx) = 0
      BY <1>2, <1>3, <1>4, <1>5
    <3> QED BY <1>1, <1>4, <1>5, <1>8, <3>3, <3>4 DEF InputRead
  <2>5. InOrder(c)'
    BY <1>4, <1>5, <1>8, OwnInv, OrderKept
  <2> QED BY <2>1, <2>2, <2>3, <2>4, <2>5 DEF ConnectionInv
<1> QED BY <1>1, <1>4, <1>5, <1>6, <1>7, <1>9, <1>10, OwnTypes, HandlerStep DEF Handling

(* A request taken from the input leaves room to count it. *)
LEMMA OneTaken ==
    ASSUME IInv, NEW c \in Conns, NEW i \in 1..Len(conn[c].inbuf),
           NEW rest, rest = SubSeq(conn[c].inbuf, i + 1, Len(conn[c].inbuf))
    PROVE  /\ rest \in Seq(Tokens) /\ conn[c].served + 1 <= MaxTokens
           /\ conn[c].served + 1 + Len(rest) + Len(sock[c].rx) <= sock[c].sent
           /\ Len(rest) \in Nat /\ Len(rest) <= Len(conn[c].inbuf)
<1> DEFINE n == conn[c].served
           k == Len(conn[c].inbuf)
           l == Len(sock[c].rx)
           m == sock[c].sent
           q == Len(rest)
<1>1. conn[c].inbuf \in Seq(Tokens)
  BY OwnFields
<1>2. rest \in Seq(Tokens) /\ q <= k - 1 /\ q \in Nat
  BY <1>1, RestFacts
<1>3. n \in Nat /\ k \in Nat /\ l \in Nat /\ m \in Nat /\ MaxTokens \in Nat /\ m <= MaxTokens
  BY OwnFields
<1>4. n + k + l <= m
  BY OwnInv DEF InputRead
<1> HIDE DEF n, k, l, m, q
<1>5. n + 1 <= MaxTokens /\ n + 1 + q + l <= m /\ q <= k
  BY <1>2, <1>3, <1>4
<1> QED BY <1>2, <1>5 DEF n, k, l, m, q

(* onMessage answers a request: c, become r before, is a after it.          *)
LEMMA AnswerRecord ==
    ASSUME IInv, NEW c \in Conns, NEW i \in 1..Len(conn[c].inbuf),
           NEW r \in Connections, r.inbuf = conn[c].inbuf, r.outbuf = conn[c].outbuf,
           r.served = conn[c].served, NEW a, a = Answered(r, i)
    PROVE  /\ a \in Connections /\ a.state = r.state /\ a.exists = r.exists /\ a.reason = r.reason
           /\ a.outbuf = Append(conn[c].outbuf, conn[c].served + 1) /\ a.outbuf # <<>>
           /\ a.served = conn[c].served + 1 /\ "out" \in a.events
           /\ a.served + Len(a.inbuf) + Len(sock[c].rx) <= sock[c].sent
<1>1. PICK rest : rest = SubSeq(conn[c].inbuf, i + 1, Len(conn[c].inbuf))
  OBVIOUS
<1>2. /\ conn[c].served + 1 <= MaxTokens
      /\ conn[c].served + 1 + Len(rest) + Len(sock[c].rx) <= sock[c].sent
  BY <1>1, OneTaken
<1>3. i \in 1..Len(r.inbuf) /\ r.served + 1 <= MaxTokens
  BY <1>2
<1>4. /\ a \in Connections /\ a.state = r.state /\ a.exists = r.exists /\ a.reason = r.reason
      /\ a.inbuf = SubSeq(r.inbuf, i + 1, Len(r.inbuf))
      /\ a.outbuf = Append(r.outbuf, r.served + 1) /\ a.outbuf # <<>>
      /\ a.served = r.served + 1 /\ "out" \in a.events
  BY <1>3, AnsweredFacts
<1> QED BY <1>1, <1>2, <1>4

LEMMA AnswerStep ==
    ASSUME IInv, NEW c \in Conns, cur = c, pc = "message",
           NEW a \in Connections, conn' = [conn EXCEPT ![c] = a], a.exists = conn[c].exists,
           a.outbuf = Append(conn[c].outbuf, conn[c].served + 1), a.outbuf # <<>>,
           a.served = conn[c].served + 1, "out" \in a.events,
           a.served + Len(a.inbuf) + Len(sock[c].rx) <= sock[c].sent,
           NEW tm \in Timers, timers' = [timers EXCEPT ![c] = tm],
           NEW mk \in SUBSET {"in", "out"}, mask' = [mask EXCEPT ![c] = mk],
           UNCHANGED <<sock, pc, cur, batch, revents>>,
           \/ a.state = conn[c].state /\ a.reason = conn[c].reason /\ tm = timers[c] /\ mk = mask[c]
           \/ /\ a.state = "Disconnecting" /\ conn[c].state = "Connected" /\ mk = mask[c]
              /\ tm.Idle = timers[c].Idle /\ tm.Close # "off"
           \/ a.state = "Disconnected" /\ a.reason = "ServerClose" /\ tm.Idle = "off" /\ mk = {}
    PROVE  IInv'
<1>1. Handled(c) /\ conn[c].exists /\ conn[c].state # "none" /\ a.state # "none"
  BY OwnInv DEF Lifetime, Handled
<1>2. sock' = [sock EXCEPT ![c] = sock[c]]
  BY OwnSame
<1>3. conn'[c] = a /\ sock'[c] = sock[c] /\ timers'[c] = tm /\ mask'[c] = mk
  BY <1>2, OwnTypes
<1>4. Lifetime(c)'
  <2>1. mk # {} => a.state \in {"Connected", "Disconnecting"}
    <3>1. mask[c] # {} => conn[c].state \in {"Connected", "Disconnecting"}
      BY OwnInv DEF Lifetime
    <3> QED BY <3>1
  <2> QED BY <1>1, <1>3, <2>1 DEF Lifetime
<1>5. TimersFollow(c)'
  BY <1>1, <1>3, OwnInv DEF TimersFollow
<1>6. InterestFollows(c)'
  BY <1>1, <1>3 DEF InterestFollows, Handled
<1>7. InputRead(c)'
  BY <1>3 DEF InputRead
<1>8. InOrder(c)'
  <2> DEFINE Upto(n) == [j \in 1..n |-> j]
             p == sock[c].got \o sock[c].tx
             q == conn[c].outbuf
             n == conn[c].served
  <2>1. p \in Seq(Nat) /\ q \in Seq(Nat) /\ n \in Nat
    BY OwnFields, ConcatProperties
  <2>2. ~sock[c].rst => p \o q = Upto(n)
    BY <1>1, OwnInv DEF InOrder
  <2>3. ~sock'[c].rst => sock'[c].got \o sock'[c].tx \o conn'[c].outbuf = p \o Append(q, n + 1)
    BY <1>3
  <2> HIDE DEF p, q, n
  <2>4. ~sock[c].rst => p \o Append(q, n + 1) = Upto(n + 1)
    BY <2>1, <2>2, NextNumber
  <2> HIDE DEF Upto
  <2>5. ~sock'[c].rst => sock'[c].got \o sock'[c].tx \o conn'[c].outbuf = Upto(conn'[c].served)
    BY <1>3, <2>3, <2>4 DEF n
  <2> QED BY <2>5 DEF InOrder, Upto
<1>9. ConnectionInv(c)'
  BY <1>4, <1>5, <1>6, <1>7, <1>8 DEF ConnectionInv
<1> QED BY <1>1, <1>2, <1>9, OwnTypes, HandlerStep DEF Handling

LEMMA AnswerInvariance ==
    ASSUME IInv, NEW c \in Conns, cur = c, AnswerRequest \/ AnswerThenDisconnect \/ AnswerAfterClose
    PROVE  IInv'
<1>1. pc = "message" /\ UNCHANGED <<sock, pc, cur, batch, revents>>
  BY DEF AnswerRequest, AnswerThenDisconnect, AnswerAfterClose
<1>2. CASE AnswerRequest
  <2>1. PICK i \in 1..Len(conn[c].inbuf) : conn' = [conn EXCEPT ![c] = Answered(conn[c], i)]
    BY <1>2 DEF AnswerRequest
  <2>2. timers' = [timers EXCEPT ![c] = timers[c]] /\ mask' = [mask EXCEPT ![c] = mask[c]]
    BY <1>2, OwnSame DEF AnswerRequest
  <2>3. PICK a : a = Answered(conn[c], i)
    OBVIOUS
  <2>4. /\ a \in Connections /\ a.state = conn[c].state /\ a.exists = conn[c].exists
        /\ a.reason = conn[c].reason
        /\ a.outbuf = Append(conn[c].outbuf, conn[c].served + 1) /\ a.outbuf # <<>>
        /\ a.served = conn[c].served + 1 /\ "out" \in a.events
        /\ a.served + Len(a.inbuf) + Len(sock[c].rx) <= sock[c].sent
    BY <2>3, OwnTypes, AnswerRecord
  <2> QED BY <1>1, <2>1, <2>2, <2>3, <2>4, OwnTypes, AnswerStep
<1>3. CASE AnswerThenDisconnect
  <2>1. PICK r : r = [conn[c] EXCEPT !.state = "Disconnecting", !.reason = "ServerClose"]
    OBVIOUS
  <2>2. PICK i \in 1..Len(conn[c].inbuf) : conn' = [conn EXCEPT ![c] = Answered(r, i)]
    BY <1>3, <2>1 DEF AnswerThenDisconnect
  <2>3. PICK tm : tm = [timers[c] EXCEPT !["Close"] = "armed"]
    OBVIOUS
  <2>4. /\ timers' = [timers EXCEPT ![c] = tm] /\ mask' = [mask EXCEPT ![c] = mask[c]]
        /\ conn[c].state = "Connected"
    BY <1>3, <2>3, OwnSame DEF AnswerThenDisconnect
  <2>5. /\ r \in Connections /\ r.state = "Disconnecting" /\ r.exists = conn[c].exists
        /\ r.inbuf = conn[c].inbuf /\ r.outbuf = conn[c].outbuf /\ r.served = conn[c].served
    <3>1. conn[c] \in Connections
      BY OwnTypes
    <3> QED BY <2>1, <3>1 DEF Connections
  <2>6. tm \in Timers /\ tm.Idle = timers[c].Idle /\ tm.Close = "armed"
    BY <2>3, OwnTypes, ArmedFacts
  <2>7. PICK a : a = Answered(r, i)
    OBVIOUS
  <2>8. /\ a \in Connections /\ a.state = r.state /\ a.exists = r.exists
        /\ a.outbuf = Append(conn[c].outbuf, conn[c].served + 1) /\ a.outbuf # <<>>
        /\ a.served = conn[c].served + 1 /\ "out" \in a.events
        /\ a.served + Len(a.inbuf) + Len(sock[c].rx) <= sock[c].sent
    BY <2>5, <2>7, AnswerRecord
  <2>9. a.state = "Disconnecting" /\ a.exists = conn[c].exists /\ conn' = [conn EXCEPT ![c] = a]
    BY <2>2, <2>5, <2>7, <2>8
  <2>10. mask[c] \in SUBSET {"in", "out"} /\ tm.Close # "off"
    BY <2>6, OwnTypes
  <2> QED BY <1>1, <2>4, <2>6, <2>8, <2>9, <2>10, AnswerStep
<1>4. CASE AnswerAfterClose
  <2>1. PICK r : r = Disconnected(conn[c], "ServerClose")
    OBVIOUS
  <2>2. PICK i \in 1..Len(conn[c].inbuf) : conn' = [conn EXCEPT ![c] = Answered(r, i)]
    BY <1>4, <2>1 DEF AnswerAfterClose
  <2>3. PICK tm : tm = [NoTimers EXCEPT !["Close"] = "armed"]
    OBVIOUS
  <2>4. timers' = [timers EXCEPT ![c] = tm] /\ mask' = [mask EXCEPT ![c] = {}]
    BY <1>4, <2>3 DEF AnswerAfterClose, remove
  <2>5. /\ r \in Connections /\ r.state = "Disconnected" /\ r.exists = conn[c].exists
        /\ r.reason = "ServerClose" /\ r.inbuf = conn[c].inbuf /\ r.outbuf = conn[c].outbuf
        /\ r.served = conn[c].served
    BY <2>1, OwnTypes, DisconnectedFacts
  <2>6. tm \in Timers /\ tm.Idle = "off"
    BY <2>3 DEF NoTimers, Timers, Kinds
  <2>7. PICK a : a = Answered(r, i)
    OBVIOUS
  <2>8. /\ a \in Connections /\ a.state = r.state /\ a.exists = r.exists /\ a.reason = r.reason
        /\ a.outbuf = Append(conn[c].outbuf, conn[c].served + 1) /\ a.outbuf # <<>>
        /\ a.served = conn[c].served + 1 /\ "out" \in a.events
        /\ a.served + Len(a.inbuf) + Len(sock[c].rx) <= sock[c].sent
    BY <2>5, <2>7, AnswerRecord
  <2>9. /\ a.state = "Disconnected" /\ a.reason = "ServerClose" /\ a.exists = conn[c].exists
        /\ conn' = [conn EXCEPT ![c] = a]
    BY <2>2, <2>5, <2>7, <2>8
  <2>10. {} \in SUBSET {"in", "out"}
    OBVIOUS
  <2> QED BY <1>1, <2>4, <2>6, <2>8, <2>9, <2>10, AnswerStep
<1> QED BY <1>2, <1>3, <1>4

(* onMessage returns with c's input become b's: a connection it has closed  *)
(* goes.                                                                   *)
LEMMA EndStep ==
    ASSUME IInv, NEW c \in Conns, cur = c, pc = "message", pc' = "afterRead",
           NEW b \in Connections, b.state = conn[c].state, b.exists = conn[c].exists,
           b.reason = conn[c].reason, b.outbuf = conn[c].outbuf, b.events = conn[c].events,
           b.served = conn[c].served, b.inbuf = <<>> \/ b.rejected,
           b.served + Len(b.inbuf) + Len(sock[c].rx) <= sock[c].sent,
           conn' = [conn EXCEPT ![c] = Released(b)],
           UNCHANGED <<timers, mask, sock, cur, batch, revents>>
    PROVE  IInv'
<1>1. PICK r : r = Released(b)
  OBVIOUS
<1>2. /\ r \in Connections /\ r.state = conn[c].state /\ r.reason = conn[c].reason
      /\ r.exists \in BOOLEAN /\ (r.exists <=> conn[c].exists /\ conn[c].state # "Disconnected")
      /\ r.inbuf = b.inbuf /\ r.outbuf = conn[c].outbuf /\ r.events = conn[c].events
      /\ r.served = conn[c].served /\ r.rejected = b.rejected
  <2>1. /\ r \in Connections /\ r.state = b.state /\ r.reason = b.reason
        /\ r.exists \in BOOLEAN /\ (r.exists <=> b.exists /\ b.state # "Disconnected")
        /\ r.inbuf = b.inbuf /\ r.outbuf = b.outbuf /\ r.events = b.events
        /\ r.served = b.served /\ r.rejected = b.rejected
    BY <1>1, ReleasedFacts
  <2> QED BY <2>1
<1>3. /\ conn' = [conn EXCEPT ![c] = r] /\ sock' = [sock EXCEPT ![c] = sock[c]]
      /\ timers' = [timers EXCEPT ![c] = timers[c]] /\ mask' = [mask EXCEPT ![c] = mask[c]]
  BY <1>1, OwnSame
<1>4. conn'[c] = r /\ sock'[c] = sock[c] /\ timers'[c] = timers[c] /\ mask'[c] = mask[c]
  BY <1>3, OwnTypes
<1>5. conn[c].exists /\ conn[c].state # "none" /\ Handled(c)
  BY OwnInv DEF Lifetime, Handled
<1>6. Lifetime(c)'
  BY <1>2, <1>4, <1>5, OwnInv DEF Lifetime
<1>7. TimersFollow(c)'
  BY <1>2, <1>4, OwnInv DEF TimersFollow
<1>8. InterestFollows(c)'
  BY <1>2, <1>4, OwnInv DEF InterestFollows, Handled
<1>9. InputRead(c)'
  BY <1>2, <1>4 DEF InputRead
<1>10. InOrder(c)'
  BY <1>2, <1>4, <1>5, OwnInv, OrderKept
<1>11. ConnectionInv(c)'
  BY <1>6, <1>7, <1>8, <1>9, <1>10 DEF ConnectionInv
<1> QED BY <1>2, <1>3, <1>5, <1>11, OwnTypes, HandlerStep DEF Handling

LEMMA EndMessageInvariance ==
    ASSUME IInv, NEW c \in Conns, cur = c, EndMessage \/ RejectRequest
    PROVE  IInv'
<1>1. /\ pc = "message" /\ pc' = "afterRead"
      /\ UNCHANGED <<timers, mask, sock, cur, batch, revents>>
  BY DEF EndMessage, RejectRequest, Goto
<1>2. conn[c] \in Connections
  BY OwnTypes
<1>3. CASE EndMessage
  <2>1. PICK none \in Seq(Tokens) : none = <<>> /\ Len(none) = 0
    <3>1. <<>> \in Seq(Tokens) /\ Len(<<>>) = 0
      OBVIOUS
    <3> QED BY <3>1, Zenon
  <2>2. PICK b : b = [conn[c] EXCEPT !.inbuf = none]
    OBVIOUS
  <2>3. conn' = [conn EXCEPT ![c] = Released(b)]
    BY <1>3, <2>1, <2>2 DEF EndMessage
  <2>4. /\ b \in Connections /\ b.state = conn[c].state /\ b.exists = conn[c].exists
        /\ b.reason = conn[c].reason /\ b.outbuf = conn[c].outbuf /\ b.events = conn[c].events
        /\ b.served = conn[c].served /\ b.inbuf = none
    BY <1>2, <2>2, InbufFacts
  <2>5. conn[c].served + 0 + Len(sock[c].rx) <= sock[c].sent
    <3> DEFINE n == conn[c].served
               k == Len(conn[c].inbuf)
               l == Len(sock[c].rx)
               m == sock[c].sent
    <3>1. n \in Nat /\ k \in Nat /\ l \in Nat /\ m \in Nat
      BY OwnFields
    <3>2. n + k + l <= m
      BY OwnInv DEF InputRead
    <3> HIDE DEF n, k, l, m
    <3>3. n + 0 + l <= m
      BY <3>1, <3>2
    <3> QED BY <3>3 DEF n, l, m
  <2>6. b.served + Len(b.inbuf) + Len(sock[c].rx) <= sock[c].sent /\ b.inbuf = <<>>
    BY <2>1, <2>4, <2>5
  <2> QED BY <1>1, <2>3, <2>4, <2>6, EndStep
<1>4. CASE RejectRequest
  <2>1. PICK i \in 1..Len(conn[c].inbuf) :
          conn' = [conn EXCEPT ![c] = Released(Rejected(conn[c], i))]
    BY <1>4 DEF RejectRequest
  <2>2. PICK rest : rest = SubSeq(conn[c].inbuf, i + 1, Len(conn[c].inbuf))
    OBVIOUS
  <2>3. PICK b : b = Rejected(conn[c], i)
    OBVIOUS
  <2>4. conn' = [conn EXCEPT ![c] = Released(b)]
    BY <2>1, <2>3
  <2>5. rest \in Seq(Tokens) /\ conn[c].served + Len(rest) + Len(sock[c].rx) <= sock[c].sent
    <3>1. /\ rest \in Seq(Tokens) /\ Len(rest) \in Nat
          /\ conn[c].served + 1 + Len(rest) + Len(sock[c].rx) <= sock[c].sent
      BY <2>2, OneTaken
    <3> DEFINE n == conn[c].served
               k == Len(rest)
               l == Len(sock[c].rx)
               m == sock[c].sent
    <3>2. n \in Nat /\ k \in Nat /\ l \in Nat /\ m \in Nat /\ n + 1 + k + l <= m
      BY <3>1, OwnFields
    <3> HIDE DEF n, k, l, m
    <3>3. n + k + l <= m
      BY <3>2
    <3> QED BY <3>1, <3>3 DEF n, k, l, m
  <2>6. /\ b \in Connections /\ b.state = conn[c].state /\ b.exists = conn[c].exists
        /\ b.reason = conn[c].reason /\ b.outbuf = conn[c].outbuf /\ b.events = conn[c].events
        /\ b.served = conn[c].served /\ b.inbuf = rest /\ b.rejected = TRUE
    <3>1. b = [conn[c] EXCEPT !.inbuf = rest, !.rejected = TRUE]
      BY <2>2, <2>3 DEF Rejected
    <3>2. rest \in Seq(Tokens)
      BY <2>5
    <3> QED BY <1>2, <3>1, <3>2 DEF Connections
  <2>7. b.served + Len(b.inbuf) + Len(sock[c].rx) <= sock[c].sent
    BY <2>5, <2>6
  <2> QED BY <1>1, <2>4, <2>6, <2>7, EndStep
<1> QED BY <1>3, <1>4

-----------------------------------------------------------------------------
(* Between the handlers, and handleWrite.                                  *)

(* SkipRead, ToWrite, and a step on a channel that is gone: only pc moves.  *)
LEMMA MoveInvariance ==
    ASSUME IInv, NEW c \in Conns, cur = c,
           SkipRead \/ ToWrite \/ UseDestroyed("afterRead", "after") \/ UseDestroyed("after", "dispatch")
    PROVE  IInv'
<1>1. /\ pc \in {"events", "afterRead", "after"}
      /\ pc' \in {"afterRead", "write", "after", "dispatch", "crashed"}
      /\ UNCHANGED <<conn, timers, mask, sock, cur, batch, revents>>
      /\ pc' = "write" => conn[c].exists
      /\ pc' \in {"dispatch", "crashed"} => ~conn[c].exists
  BY DEF SkipRead, ToWrite, UseDestroyed, Goto
<1>2. Handled(c)
  BY <1>1 DEF Handled
<1>3. conn[c].exists \/ conn[c].state \in {"none", "Disconnected"}
  BY OwnInv DEF Lifetime
<1>4. Same(c)
  BY <1>1 DEF Same
<1>5. Lifetime(c)'
  BY <1>1, <1>4, OwnInv DEF Lifetime, Same
<1>6. TimersFollow(c)'
  BY <1>4, OwnInv DEF TimersFollow, Same
<1>7. InterestFollows(c)'
  <2>1. conn[c].exists => pc' \in Handling
    BY <1>1 DEF Handling
  <2>2. conn[c].state \in {"Connected", "Disconnecting"} => Handled(c)'
    BY <1>1, <1>3, <1>4, <2>1 DEF Handling, Handled
  <2> QED BY <1>1, <1>4, <2>2, OwnInv DEF InterestFollows, Same
<1>8. InputRead(c)'
  BY <1>1, <1>4, OwnInv DEF InputRead, Same
<1>9. InOrder(c)'
  BY <1>4, OwnInv, OrderKept DEF Same
<1>10. ConnectionInv(c)'
  BY <1>5, <1>6, <1>7, <1>8, <1>9 DEF ConnectionInv
<1>11. /\ conn' = [conn EXCEPT ![c] = conn[c]] /\ sock' = [sock EXCEPT ![c] = sock[c]]
       /\ timers' = [timers EXCEPT ![c] = timers[c]] /\ mask' = [mask EXCEPT ![c] = mask[c]]
  BY <1>1, OwnSame
<1> QED BY <1>1, <1>2, <1>10, <1>11, OwnTypes, HandlerStep DEF Handling

(* One unit from the output buffer into the socket. *)
LEMMA SendSomeInvariance == ASSUME IInv, NEW c \in Conns, cur = c, SendSome PROVE IInv'
<1>1. /\ pc = "write" /\ UNCHANGED <<mask, pc, cur, batch, revents>>
      /\ conn[c].outbuf # <<>>
  BY DEF SendSome
<1>2. conn[c].exists /\ conn[c].state \in {"Connected", "Disconnecting"} /\ Handled(c)
  BY <1>1, OpenHere
<1>3. PICK r : r = [conn[c] EXCEPT !.outbuf = Tail(conn[c].outbuf)]
  OBVIOUS
<1>4. PICK sk : sk = [sock[c] EXCEPT !.tx = Append(sock[c].tx, Head(conn[c].outbuf))]
  OBVIOUS
<1>5. PICK tm : tm = [timers[c] EXCEPT !["Idle"] = "armed"]
  OBVIOUS
<1>6. conn[c].outbuf \in Seq(Nat) /\ sock[c].tx \in Seq(Nat) /\ sock[c].got \in Seq(Nat)
  BY OwnFields
<1>7. /\ Append(sock[c].tx, Head(conn[c].outbuf)) \in Seq(Nat) /\ Tail(conn[c].outbuf) \in Seq(Nat)
      /\ (sock[c].got \o Append(sock[c].tx, Head(conn[c].outbuf))) \o Tail(conn[c].outbuf)
         = (sock[c].got \o sock[c].tx) \o conn[c].outbuf
  <2> DEFINE g == sock[c].got
             t == sock[c].tx
             o == conn[c].outbuf
  <2>1. g \in Seq(Nat) /\ t \in Seq(Nat) /\ o \in Seq(Nat) /\ o # <<>>
    BY <1>1, <1>6
  <2> HIDE DEF g, t, o
  <2>2. Append(t, Head(o)) \in Seq(Nat) /\ Tail(o) \in Seq(Nat)
    BY <2>1, MoveHead
  <2>3. (g \o Append(t, Head(o))) \o Tail(o) = (g \o t) \o o
    BY <2>1, MoveInThree
  <2> QED BY <2>2, <2>3 DEF g, t, o
<1>8. /\ r \in Connections /\ r.outbuf = Tail(conn[c].outbuf) /\ r.inbuf = conn[c].inbuf
      /\ r.state = conn[c].state /\ r.exists = conn[c].exists /\ r.events = conn[c].events
      /\ r.served = conn[c].served /\ r.rejected = conn[c].rejected
  <2>1. conn[c] \in Connections
    BY OwnTypes
  <2> QED BY <1>3, <1>7, <2>1 DEF Connections
<1>9. /\ sk \in Sockets /\ sk.tx = Append(sock[c].tx, Head(conn[c].outbuf)) /\ sk.got = sock[c].got
      /\ sk.rx = sock[c].rx /\ sk.sent = sock[c].sent /\ sk.rst = sock[c].rst
  <2>1. sock[c] \in Sockets
    BY OwnTypes
  <2> QED BY <1>4, <1>7, <2>1 DEF Sockets
<1>10. tm \in Timers /\ tm.Idle = "armed" /\ tm.Close = timers[c].Close
  BY <1>5, OwnTypes, ArmedFacts
<1>11. /\ conn' = [conn EXCEPT ![c] = r] /\ sock' = [sock EXCEPT ![c] = sk]
       /\ timers' = [timers EXCEPT ![c] = tm] /\ mask' = [mask EXCEPT ![c] = mask[c]]
  BY <1>1, <1>3, <1>4, <1>5, OwnSame DEF SendSome, RefreshedIdle
<1>12. conn'[c] = r /\ sock'[c] = sk /\ timers'[c] = tm /\ mask'[c] = mask[c]
  BY <1>11, OwnTypes
<1>13. Lifetime(c)'
  BY <1>2, <1>8, <1>12 DEF Lifetime
<1>14. TimersFollow(c)'
  BY <1>2, <1>8, <1>10, <1>12, OwnInv DEF TimersFollow
<1>15. InterestFollows(c)'
  <2>1. "out" \in conn[c].events
    BY <1>1, <1>2, OwnInv DEF InterestFollows
  <2> QED BY <1>1, <1>2, <1>8, <1>12, <2>1 DEF InterestFollows, Handled
<1>16. InputRead(c)'
  BY <1>1, <1>8, <1>9, <1>12, OwnInv DEF InputRead
<1>17. InOrder(c)'
  <2> DEFINE Upto(n) == [j \in 1..n |-> j]
  <2>1. ~sock[c].rst => (sock[c].got \o sock[c].tx) \o conn[c].outbuf = Upto(conn[c].served)
    BY <1>2, OwnInv DEF InOrder
  <2> HIDE DEF Upto
  <2>2. ~sock'[c].rst => (sock'[c].got \o sock'[c].tx) \o conn'[c].outbuf = Upto(conn'[c].served)
    BY <1>7, <1>8, <1>9, <1>12, <2>1
  <2> QED BY <2>2 DEF InOrder, Upto
<1>18. ConnectionInv(c)'
  BY <1>13, <1>14, <1>15, <1>16, <1>17 DEF ConnectionInv
<1> QED BY <1>1, <1>2, <1>8, <1>9, <1>10, <1>11, <1>18, OwnTypes, HandlerStep DEF Handling

(* All is sent. *)
LEMMA EndWriteInvariance == ASSUME IInv, NEW c \in Conns, cur = c, EndWrite PROVE IInv'
<1>1. /\ pc = "write" /\ pc' = "after" /\ UNCHANGED <<timers, mask, cur, batch, revents>>
      /\ conn[c].outbuf = <<>>
  BY DEF EndWrite, Goto
<1>2. conn[c].exists /\ conn[c].state \in {"Connected", "Disconnecting"} /\ Handled(c)
  BY <1>1, OpenHere
<1>3. PICK r : r = disableWriting(conn[c])
  OBVIOUS
<1>4. /\ r \in Connections /\ "out" \notin r.events /\ r.outbuf = conn[c].outbuf
      /\ r.inbuf = conn[c].inbuf /\ r.state = conn[c].state /\ r.exists = conn[c].exists
      /\ r.served = conn[c].served /\ r.rejected = conn[c].rejected
  <2>1. conn[c] \in Connections
    BY OwnTypes
  <2> QED BY <1>3, <2>1 DEF disableWriting, Connections
<1>5. PICK sk : sk = [sock[c] EXCEPT !.shut = sock[c].shut \/ conn[c].state = "Disconnecting"]
  OBVIOUS
<1>6. /\ sk \in Sockets /\ sk.tx = sock[c].tx /\ sk.got = sock[c].got
      /\ sk.rx = sock[c].rx /\ sk.sent = sock[c].sent /\ sk.rst = sock[c].rst
  <2>1. sock[c] \in Sockets
    BY OwnTypes
  <2>2. PICK b \in BOOLEAN : b = (sock[c].shut \/ conn[c].state = "Disconnecting")
    OBVIOUS
  <2>3. sk = [sock[c] EXCEPT !.shut = b]
    BY <1>5, <2>2
  <2> QED BY <2>1, <2>3 DEF Sockets
<1>7. /\ conn' = [conn EXCEPT ![c] = r] /\ sock' = [sock EXCEPT ![c] = sk]
      /\ timers' = [timers EXCEPT ![c] = timers[c]] /\ mask' = [mask EXCEPT ![c] = mask[c]]
  <2>1. sock' = [sock EXCEPT ![c] = sk]
    BY <1>5 DEF EndWrite
  <2> QED BY <1>1, <1>3, <2>1, OwnSame DEF EndWrite
<1>8. conn'[c] = r /\ sock'[c] = sk /\ timers'[c] = timers[c] /\ mask'[c] = mask[c]
  BY <1>7, OwnTypes
<1>9. Lifetime(c)'
  BY <1>1, <1>2, <1>4, <1>8 DEF Lifetime
<1>10. TimersFollow(c)'
  BY <1>2, <1>4, <1>8, OwnInv DEF TimersFollow
<1>11. InterestFollows(c)'
  BY <1>1, <1>4, <1>8 DEF InterestFollows, Handled
<1>12. InputRead(c)'
  BY <1>1, <1>4, <1>6, <1>8, OwnInv DEF InputRead
<1>13. InOrder(c)'
  BY <1>4, <1>6, <1>8, OwnInv, OrderKept
<1>14. ConnectionInv(c)'
  BY <1>9, <1>10, <1>11, <1>12, <1>13 DEF ConnectionInv
<1> QED BY <1>1, <1>2, <1>4, <1>6, <1>7, <1>14, OwnTypes, HandlerStep DEF Handling

(* epoll_.modify after the handlers. *)
LEMMA UpdateInterestInvariance == ASSUME IInv, NEW c \in Conns, cur = c, UpdateInterest PROVE IInv'
<1>1. /\ pc = "after" /\ pc' = "dispatch" /\ UNCHANGED <<conn, timers, sock, cur, batch, revents>>
      /\ mask' = [mask EXCEPT ![c] = conn[c].events] /\ conn[c].exists
  BY DEF UpdateInterest, Goto, modify
<1>2. conn[c].state \in {"Connected", "Disconnecting"} /\ Handled(c)
  BY <1>1, OpenHere
<1>3. /\ conn[c].events \in SUBSET {"in", "out"}
      /\ mask'[c] = conn[c].events
  <2>1. conn[c] \in Connections
    BY OwnTypes
  <2> QED BY <1>1, <2>1, OwnTypes, Fields
<1>4. Lifetime(c)'
  BY <1>1, <1>2, OwnInv DEF Lifetime
<1>5. TimersFollow(c)'
  BY <1>1, OwnInv DEF TimersFollow
<1>6. InterestFollows(c)'
  BY <1>1, <1>3, OwnInv DEF InterestFollows, Handled
<1>7. InputRead(c)'
  BY <1>1, OwnInv DEF InputRead
<1>8. InOrder(c)'
  BY <1>1, OwnInv, OrderKept
<1>9. ConnectionInv(c)'
  BY <1>4, <1>5, <1>6, <1>7, <1>8 DEF ConnectionInv
<1>10. /\ conn' = [conn EXCEPT ![c] = conn[c]] /\ sock' = [sock EXCEPT ![c] = sock[c]]
       /\ timers' = [timers EXCEPT ![c] = timers[c]]
  BY <1>1, OwnSame
<1> QED BY <1>1, <1>2, <1>3, <1>9, <1>10, OwnTypes, HandlerStep DEF Handling

-----------------------------------------------------------------------------
(* The rest of loop().                                                     *)

(* Steps outside of the handlers that change no connection. *)
LEMMA LoopKept ==
    ASSUME IInv, UNCHANGED <<conn, timers, mask, sock>>, pc \notin Handling,
           pc' \in Handling \cup {"poll", "dispatch", "timers", "functors"},
           cur' \in Conns \cup {NoConn}, batch' \subseteq Conns,
           revents' \in [Conns -> SUBSET {"err", "in", "hup", "out"}],
           BatchExists', \A c \in Conns : Handled(c)' => conn[c].exists
    PROVE  IInv'
<1>1. TypeOK'
  <2>1. TypeOK
    BY Parts
  <2>2. /\ conn \in [Conns -> Connections] /\ sock \in [Conns -> Sockets]
        /\ timers \in [Conns -> Timers] /\ mask \in [Conns -> SUBSET {"in", "out"}]
    BY <2>1, Types
  <2>3. /\ conn' \in [Conns -> Connections] /\ sock' \in [Conns -> Sockets]
        /\ timers' \in [Conns -> Timers] /\ mask' \in [Conns -> SUBSET {"in", "out"}]
    BY <2>2
  <2>4. pc' \in Handling \cup {"poll", "dispatch", "timers", "functors", "crashed"}
    OBVIOUS
  <2> QED BY <2>3, <2>4, TypesSuffice
<1>2. ASSUME NEW c \in Conns PROVE ConnectionInv(c)'
  <2>1. ConnectionInv(c) /\ Same(c) /\ ~Handled(c)
    BY Parts DEF Same, Handled, Handling
  <2> QED BY <2>1, SameKept
<1> QED BY <1>1, <1>2, PartsSuffice

LEMMA LoopInvariance ==
    ASSUME IInv, Poll \/ EndBatch \/ EndTimers \/ EndFunctors \/ \E c \in Conns : NextChannel(c)
    PROVE  IInv'
<1>1. /\ cur \in Conns \cup {NoConn} /\ batch \subseteq Conns
      /\ revents \in [Conns -> SUBSET {"err", "in", "hup", "out"}]
  BY Parts, Types
<1>2. BatchExists
  BY Parts
<1>3. CASE Poll
  <2>1. /\ pc = "poll" /\ pc' = "dispatch" /\ UNCHANGED <<conn, timers, mask, sock, cur>>
        /\ batch' = {c \in Conns : Ready(c) # {}} /\ revents' = [c \in Conns |-> Ready(c)]
    BY <1>3 DEF Poll
  <2>2. ASSUME NEW c \in Conns
        PROVE  Ready(c) \in SUBSET {"err", "in", "hup", "out"} /\ (Ready(c) # {} => conn[c].exists)
    <3>1. Ready(c) \in SUBSET {"err", "in", "hup", "out"} /\ (Ready(c) # {} => mask[c] # {})
      BY DEF Ready
    <3> QED BY <3>1, OwnInv DEF Lifetime
  <2>3. revents' \in [Conns -> SUBSET {"err", "in", "hup", "out"}]
    BY <2>1, <2>2
  <2>4. \A c \in Conns : ~Handled(c)'
    BY <2>1 DEF Handled
  <2>5. BatchExists'
    BY <2>1, <2>2, <2>4 DEF BatchExists
  <2> QED BY <1>1, <2>1, <2>3, <2>4, <2>5, LoopKept DEF Handling
<1>4. CASE EndBatch \/ EndTimers
  <2>1. /\ pc \in {"dispatch", "timers"} /\ pc' \in {"timers", "functors"} /\ batch = {}
        /\ UNCHANGED <<conn, timers, mask, sock, cur, batch, revents>>
    BY <1>2, <1>4 DEF EndBatch, EndTimers, BatchExists
  <2>2. \A c \in Conns : ~Handled(c)'
    BY <2>1 DEF Handled
  <2>3. BatchExists'
    BY <2>1, <2>2 DEF BatchExists
  <2> QED BY <1>1, <2>1, <2>2, <2>3, LoopKept DEF Handling
<1>5. CASE EndFunctors
  <2>1. /\ pc = "functors" /\ pc' = "poll" /\ batch = {} /\ cur' = NoConn
        /\ revents' = [c \in Conns |-> {}] /\ UNCHANGED <<conn, timers, mask, sock, batch>>
    BY <1>2, <1>5 DEF EndFunctors, BatchExists
  <2>2. \A c \in Conns : ~Handled(c)'
    BY <2>1 DEF Handled
  <2>3. BatchExists'
    BY <2>1, <2>2 DEF BatchExists
  <2> QED BY <1>1, <2>1, <2>2, <2>3, LoopKept DEF Handling
<1>6. ASSUME NEW c \in Conns, NextChannel(c) PROVE IInv'
  <2>1. /\ pc = "dispatch" /\ pc' = "events" /\ c \in batch /\ cur' = c /\ batch' = batch \ {c}
        /\ UNCHANGED <<conn, timers, mask, sock, revents>>
    BY <1>6 DEF NextChannel
  <2>2. \A d \in batch : conn[d].exists
    BY <1>2 DEF BatchExists
  <2>3. \A d \in Conns : Handled(d)' => d = c
    BY <2>1 DEF Handled
  <2>4. BatchExists'
    BY <1>1, <2>1, <2>2, <2>3 DEF BatchExists
  <2> QED BY <1>1, <2>1, <2>2, <2>3, <2>4, LoopKept DEF Handling
<1> QED BY <1>3, <1>4, <1>5, <1>6

(* addConnection's functor opens the connection. *)
LEMMA AddConnectionInvariance == ASSUME IInv, NEW c \in Conns, AddConnection(c) PROVE IInv'
<1>1. /\ pc = "functors" /\ conn[c].state = "none"
      /\ UNCHANGED <<sock, pc, cur, batch, revents>>
  BY DEF AddConnection
<1>2. PICK r : r = [conn[c] EXCEPT !.state = "Connected", !.exists = TRUE, !.events = {"in"}]
  OBVIOUS
<1>3. /\ r \in Connections /\ r.state = "Connected" /\ r.exists /\ r.events = {"in"}
      /\ r.inbuf = conn[c].inbuf /\ r.outbuf = conn[c].outbuf /\ r.served = conn[c].served
  <2>1. conn[c] \in Connections
    BY OwnTypes
  <2> QED BY <1>2, <2>1 DEF Connections
<1>4. PICK tm : tm = [timers[c] EXCEPT !["Idle"] = "armed"]
  OBVIOUS
<1>5. tm \in Timers /\ tm.Idle = "armed" /\ tm.Close = timers[c].Close
  BY <1>4, OwnTypes, ArmedFacts
<1>6. conn' = [conn EXCEPT ![c] = r]
  BY <1>2 DEF AddConnection
<1>7. conn'[c] = r
  BY <1>6, OwnTypes
<1>8. /\ timers' = [timers EXCEPT ![c] = tm] /\ mask' = [mask EXCEPT ![c] = {"in"}]
      /\ sock' = [sock EXCEPT ![c] = sock[c]]
  BY <1>1, <1>3, <1>4, <1>7, OwnSame DEF AddConnection, add
<1>9. timers'[c] = tm /\ mask'[c] = {"in"} /\ sock'[c] = sock[c]
  BY <1>8, OwnTypes
<1>10. /\ conn[c].inbuf = <<>> /\ conn[c].outbuf = <<>> /\ conn[c].served = 0
       /\ sock[c].tx = <<>> /\ sock[c].got = <<>>
  BY <1>1, OwnInv DEF Lifetime
<1>11. Lifetime(c)'
  BY <1>1, <1>3, <1>7, <1>9 DEF Lifetime
<1>12. TimersFollow(c)'
  BY <1>3, <1>5, <1>7, <1>9 DEF TimersFollow
<1>13. InterestFollows(c)'
  BY <1>1, <1>3, <1>7, <1>9, <1>10 DEF InterestFollows
<1>14. InputRead(c)'
  BY <1>3, <1>7, <1>9, <1>10, OwnInv DEF InputRead
<1>15. InOrder(c)'
  <2>1. sock'[c].got \o sock'[c].tx \o conn'[c].outbuf = <<>>
    BY <1>3, <1>7, <1>9, <1>10
  <2>2. [i \in 1..0 |-> i] = <<>>
    OBVIOUS
  <2>3. conn'[c].served = 0
    BY <1>3, <1>7, <1>10
  <2> QED BY <2>1, <2>2, <2>3 DEF InOrder
<1>16. ConnectionInv(c)'
  BY <1>11, <1>12, <1>13, <1>14, <1>15 DEF ConnectionInv
<1>17. {"in"} \in SUBSET {"in", "out"}
  OBVIOUS
<1> QED BY <1>1, <1>3, <1>5, <1>6, <1>8, <1>16, <1>17, OwnTypes, OtherStep

-----------------------------------------------------------------------------
(* The clock and the peers.                                                *)

LEMMA TimerFacts ==
    ASSUME NEW t \in Timers, NEW k \in Kinds, NEW v \in {"off", "due"},
           NEW u, u = [t EXCEPT ![k] = v]
    PROVE  /\ u \in Timers
           /\ v = "due" /\ t[k] = "armed" =>
                 (u.Idle = "off" <=> t.Idle = "off") /\ (u.Close = "off" <=> t.Close = "off")
           /\ v = "off" => (t.Idle = "off" => u.Idle = "off") /\ (t.Close = "off" => u.Close = "off")
BY DEF Timers, Kinds

(* A timer becomes due, or runs for a connection that is gone. *)
LEMMA TimerInvariance ==
    ASSUME IInv, NEW c \in Conns, NEW k \in Kinds, Expire(c, k) \/ RunOrphanTimer(c, k)
    PROVE  IInv'
<1>1. /\ UNCHANGED <<conn, mask, sock, cur, batch, revents>>
      /\ pc' = pc \/ (pc = "timers" /\ pc' = "crashed")
  BY DEF Expire, RunOrphanTimer
<1>2. PICK v \in {"off", "due"} :
        /\ timers' = [timers EXCEPT ![c] = [timers[c] EXCEPT ![k] = v]]
        /\ v = "due" => timers[c][k] = "armed"
        /\ v = "off" => ~conn[c].exists
  BY DEF Expire, RunOrphanTimer
<1>3. PICK tm : tm = [timers[c] EXCEPT ![k] = v]
  OBVIOUS
<1>4. /\ tm \in Timers
      /\ v = "due" => (tm.Idle = "off" <=> timers[c].Idle = "off")
                      /\ (tm.Close = "off" <=> timers[c].Close = "off")
      /\ v = "off" => (timers[c].Idle = "off" => tm.Idle = "off")
                      /\ (timers[c].Close = "off" => tm.Close = "off")
  BY <1>2, <1>3, OwnTypes, TimerFacts
<1>5. timers' = [timers EXCEPT ![c] = tm]
  BY <1>2, <1>3
<1>6. timers'[c] = tm
  BY <1>5, OwnTypes
<1>7. Lifetime(c)'
  BY <1>1, OwnInv DEF Lifetime
<1>8. TimersFollow(c)'
  <2>1. ~conn[c].exists => conn[c].state \in {"none", "Disconnected"}
    BY OwnInv DEF Lifetime
  <2> QED BY <1>1, <1>2, <1>4, <1>6, <2>1, OwnInv DEF TimersFollow
<1>9. InterestFollows(c)'
  BY <1>1, OwnInv DEF InterestFollows, Handled
<1>10. InputRead(c)'
  BY <1>1, OwnInv DEF InputRead
<1>11. InOrder(c)'
  BY <1>1, OwnInv, OrderKept
<1>12. ConnectionInv(c)'
  BY <1>7, <1>8, <1>9, <1>10, <1>11 DEF ConnectionInv
<1>13. /\ conn' = [conn EXCEPT ![c] = conn[c]] /\ sock' = [sock EXCEPT ![c] = sock[c]]
       /\ mask' = [mask EXCEPT ![c] = mask[c]]
  BY <1>1, OwnSame
<1> QED BY <1>1, <1>4, <1>5, <1>12, <1>13, OwnTypes, OtherStep

(* Whatever a peer does, or the kernel for it, only the socket changes; it  *)
(* holds no input that has not been sent and no response that was not made. *)
LEMMA SocketStep ==
    ASSUME IInv, NEW c \in Conns, UNCHANGED serverVars,
           NEW sk \in Sockets, sock' = [sock EXCEPT ![c] = sk],
           conn[c].state = "none" => sk.tx = sock[c].tx /\ sk.got = sock[c].got,
           conn[c].served + Len(conn[c].inbuf) + Len(sk.rx) <= sk.sent,
           InOrder(c)'
    PROVE  IInv'
<1>1. UNCHANGED <<conn, timers, mask, pc, cur, batch, revents>>
  BY DEF serverVars
<1>2. sock'[c] = sk
  BY OwnTypes
<1>3. Lifetime(c)'
  BY <1>1, <1>2, OwnInv DEF Lifetime
<1>4. TimersFollow(c)'
  BY <1>1, OwnInv DEF TimersFollow
<1>5. InterestFollows(c)'
  BY <1>1, OwnInv DEF InterestFollows, Handled
<1>6. InputRead(c)'
  BY <1>1, <1>2, OwnInv DEF InputRead
<1>7. ConnectionInv(c)'
  BY <1>3, <1>4, <1>5, <1>6 DEF ConnectionInv
<1>8. /\ conn' = [conn EXCEPT ![c] = conn[c]] /\ timers' = [timers EXCEPT ![c] = timers[c]]
      /\ mask' = [mask EXCEPT ![c] = mask[c]]
  BY <1>1, OwnSame
<1> QED BY <1>1, <1>7, <1>8, OwnTypes, OtherStep

LEMMA PeerInvariance ==
    ASSUME IInv, NEW c \in Conns, PeerStep(c) \/ PeerRead(c)
    PROVE  IInv'
<1>1. /\ sock[c] \in Sockets /\ sock \in [Conns -> Sockets] /\ InOrder(c)
      /\ conn[c].served + Len(conn[c].inbuf) + Len(sock[c].rx) <= sock[c].sent
  BY OwnTypes, OwnInv DEF InputRead
<1>2. UNCHANGED serverVars /\ conn' = conn
  BY DEF PeerStep, Accept, PeerFin, PeerReset, PeerSend, PeerRead, serverVars
<1>3. ASSUME NEW sk \in Sockets, sock' = [sock EXCEPT ![c] = sk], sk.rx = sock[c].rx,
             sk.tx = sock[c].tx, sk.got = sock[c].got, sk.sent = sock[c].sent, sk.rst = sock[c].rst
      PROVE  IInv'
  <2>1. sock'[c] = sk
    BY <1>1, <1>3
  <2>2. InOrder(c)'
    BY <1>1, <1>2, <1>3, <2>1, OrderKept
  <2> QED BY <1>1, <1>2, <1>3, <2>2, SocketStep
<1>4. CASE Accept(c) \/ PeerFin(c)
  <2>1. PICK sk : /\ sk = [sock[c] EXCEPT !.open = TRUE] \/ sk = [sock[c] EXCEPT !.fin = TRUE]
                  /\ sock' = [sock EXCEPT ![c] = sk]
    BY <1>4 DEF Accept, PeerFin
  <2>2. /\ sk \in Sockets /\ sk.rx = sock[c].rx /\ sk.tx = sock[c].tx /\ sk.got = sock[c].got
        /\ sk.sent = sock[c].sent /\ sk.rst = sock[c].rst
    BY <1>1, <2>1 DEF Sockets
  <2> QED BY <1>3, <2>1, <2>2
<1>5. CASE PeerReset(c)
  <2>1. PICK none \in Seq(Tokens) : none = <<>> /\ Len(none) = 0
    <3>1. <<>> \in Seq(Tokens) /\ Len(<<>>) = 0
      OBVIOUS
    <3> QED BY <3>1, Zenon
  <2>1a. PICK nil \in Seq(Nat) : nil = <<>>
    <3>1. <<>> \in Seq(Nat)
      OBVIOUS
    <3> QED BY <3>1, Zenon
  <2>2. PICK sk : /\ sk = [sock[c] EXCEPT !.rst = TRUE, !.rx = none, !.tx = nil]
                  /\ sock' = [sock EXCEPT ![c] = sk]
    BY <1>5, <2>1a, <2>1 DEF PeerReset
  <2>3. /\ sk \in Sockets /\ sk.rx = none /\ sk.tx = nil /\ sk.got = sock[c].got
        /\ sk.sent = sock[c].sent /\ sk.rst = TRUE
    BY <1>1, <2>2 DEF Sockets
  <2>4. sock'[c] = sk
    BY <1>1, <2>2
  <2>5. InOrder(c)'
    BY <2>3, <2>4 DEF InOrder
  <2>6. conn[c].state = "none" => sk.tx = sock[c].tx
    BY <2>1a, <2>3, OwnInv DEF Lifetime
  <2>7. conn[c].served + Len(conn[c].inbuf) + Len(sk.rx) <= sk.sent
    <3> DEFINE n == conn[c].served
               k == Len(conn[c].inbuf)
               l == Len(sock[c].rx)
               m == sock[c].sent
    <3>1. n \in Nat /\ k \in Nat /\ l \in Nat /\ m \in Nat /\ n + k + l <= m
      BY <1>1, OwnFields
    <3> HIDE DEF n, k, l, m
    <3>2. n + k + 0 <= m
      BY <3>1
    <3> QED BY <2>1, <2>3, <3>2 DEF n, k, m
  <2> QED BY <1>2, <2>2, <2>3, <2>5, <2>6, <2>7, SocketStep
<1>6. ASSUME NEW t \in Tokens, PeerSend(c, t) PROVE IInv'
  <2>1. PICK in : in = Append(sock[c].rx, t)
    OBVIOUS
  <2>2. sock[c].sent < MaxTokens
    BY <1>6 DEF PeerSend
  <2>3. /\ in \in Seq(Tokens) /\ Len(in) = Len(sock[c].rx) + 1
    BY <2>1, OwnFields, AppendProperties
  <2>4. sock[c].sent + 1 \in 0..MaxTokens
    <3>1. sock[c].sent \in Nat /\ MaxTokens \in Nat
      BY OwnFields
    <3> QED BY <2>2, <3>1
  <2>5. PICK sk : /\ sk = [sock[c] EXCEPT !.rx = in, !.sent = sock[c].sent + 1]
                  /\ sock' = [sock EXCEPT ![c] = sk]
    BY <1>6, <2>1 DEF PeerSend
  <2>6. /\ sk \in Sockets /\ sk.rx = in /\ sk.tx = sock[c].tx /\ sk.got = sock[c].got
        /\ sk.sent = sock[c].sent + 1 /\ sk.rst = sock[c].rst
    BY <1>1, <2>3, <2>4, <2>5 DEF Sockets
  <2>7. sock'[c] = sk
    BY <1>1, <2>5
  <2>8. InOrder(c)'
    BY <1>1, <1>2, <2>6, <2>7, OrderKept
  <2>9. conn[c].served + Len(conn[c].inbuf) + Len(sk.rx) <= sk.sent
    <3> DEFINE n == conn[c].served
               k == Len(conn[c].inbuf)
               l == Len(sock[c].rx)
               m == sock[c].sent
    <3>1. n \in Nat /\ k \in Nat /\ l \in Nat /\ m \in Nat /\ n + k + l <= m
      BY <1>1, OwnFields
    <3> HIDE DEF n, k, l, m
    <3>2. n + k + (l + 1) <= m + 1
      BY <3>1
    <3> QED BY <2>3, <2>6, <3>2 DEF n, k, l, m
  <2> QED BY <1>2, <2>5, <2>6, <2>8, <2>9, SocketStep
<1>7. CASE PeerRead(c)
  <2>1. PICK sk : /\ sk = [sock[c] EXCEPT !.got = Append(sock[c].got, Head(sock[c].tx)),
                                          !.tx = Tail(sock[c].tx)]
                  /\ sock' = [sock EXCEPT ![c] = sk] /\ sock[c].tx # <<>>
    BY <1>7 DEF PeerRead
  <2>2. sock[c].got \in Seq(Nat) /\ sock[c].tx \in Seq(Nat) /\ conn[c].outbuf \in Seq(Nat)
    BY OwnFields
  <2>3. /\ Append(sock[c].got, Head(sock[c].tx)) \in Seq(Nat) /\ Tail(sock[c].tx) \in Seq(Nat)
        /\ (Append(sock[c].got, Head(sock[c].tx)) \o Tail(sock[c].tx)) \o conn[c].outbuf
           = (sock[c].got \o sock[c].tx) \o conn[c].outbuf
    BY <2>1, <2>2, MoveHead, MoveInThree
  <2>4. /\ sk \in Sockets /\ sk.rx = sock[c].rx /\ sk.sent = sock[c].sent /\ sk.rst = sock[c].rst
        /\ sk.got = Append(sock[c].got, Head(sock[c].tx)) /\ sk.tx = Tail(sock[c].tx)
    BY <1>1, <2>1, <2>3 DEF Sockets
  <2>5. sock'[c] = sk
    BY <1>1, <2>1
  <2>6. InOrder(c)'
    <3> DEFINE Upto(n) == [j \in 1..n |-> j]
    <3>1. conn[c].exists /\ ~sock[c].rst =>
            (sock[c].got \o sock[c].tx) \o conn[c].outbuf = Upto(conn[c].served)
      BY <1>1 DEF InOrder
    <3> HIDE DEF Upto
    <3>2. conn'[c].exists /\ ~sock'[c].rst =>
            (sock'[c].got \o sock'[c].tx) \o conn'[c].outbuf = Upto(conn'[c].served)
      BY <1>2, <2>3, <2>4, <2>5, <3>1
    <3> QED BY <3>2 DEF InOrder, Upto
  <2>7. conn[c].state # "none"
    BY <2>1, OwnInv DEF Lifetime
  <2>8. conn[c].served + Len(conn[c].inbuf) + Len(sk.rx) <= sk.sent
    BY <1>1, <2>4
  <2> QED BY <1>2, <2>1, <2>4, <2>6, <2>7, <2>8, SocketStep
<1> QED BY <1>4, <1>5, <1>6, <1>7 DEF PeerStep

-----------------------------------------------------------------------------
(* The theorems.                                                           *)

LEMMA InitInvariance == Init => IInv
<1> SUFFICES ASSUME Init PROVE IInv
  OBVIOUS
<1>1. /\ <<>> \in Seq(Tokens) /\ <<>> \in Seq(Nat) /\ Len(<<>>) = 0 /\ 0 \in 0..MaxTokens
  BY WorkerLoopAssumption
<1>2. NoConnection \in Connections
  BY <1>1 DEF NoConnection, Connections
<1>3. NoSocket \in Sockets
  BY <1>1 DEF NoSocket, Sockets
<1>4. NoTimers \in Timers
  BY DEF NoTimers, Timers
<1>5. TypeOK
  <2>1. /\ conn \in [Conns -> Connections] /\ sock \in [Conns -> Sockets]
        /\ timers \in [Conns -> Timers] /\ mask \in [Conns -> SUBSET {"in", "out"}]
        /\ revents \in [Conns -> SUBSET {"err", "in", "hup", "out"}]
    BY <1>2, <1>3, <1>4 DEF Init
  <2>2. pc = "poll" /\ cur = NoConn /\ batch = {}
    BY DEF Init
  <2> QED BY <2>1, <2>2 DEF TypeOK, Connections, Sockets, Timers
<1>6. BatchExists
  BY DEF Init, BatchExists
<1>7. ASSUME NEW c \in Conns PROVE ConnectionInv(c)
  <2>1. conn[c] = NoConnection /\ sock[c] = NoSocket /\ timers[c] = NoTimers /\ mask[c] = {}
    BY DEF Init
  <2>2. pc = "poll"
    BY DEF Init
  <2>3. /\ conn[c].state = "none" /\ ~conn[c].exists /\ conn[c].inbuf = <<>> /\ conn[c].outbuf = <<>>
        /\ conn[c].served = 0
    BY <2>1 DEF NoConnection
  <2>4. sock[c].tx = <<>> /\ sock[c].got = <<>> /\ sock[c].rx = <<>> /\ sock[c].sent = 0
    BY <2>1 DEF NoSocket
  <2>5. InputRead(c)
    <3>1. Len(conn[c].inbuf) = 0 /\ Len(sock[c].rx) = 0
      BY <1>1, <2>3, <2>4
    <3> QED BY <2>3, <2>4, <3>1 DEF InputRead
  <2> QED BY <2>1, <2>2, <2>3, <2>4, <2>5
          DEF ConnectionInv, Lifetime, TimersFollow, InterestFollows, InOrder
<1> QED BY <1>5, <1>6, <1>7 DEF IInv

LEMMA HandleInvariance == ASSUME IInv, Handle PROVE IInv'
<1>1. pc \in Handling
  BY DEF Handle, HandleError, ReadData, ReadNothing, SkipRead, AnswerRequest, AnswerThenDisconnect,
         AnswerAfterClose, EndMessage, RejectRequest, UseDestroyed, HandleHup, ToWrite, SendSome,
         SendFails, EndWrite, UpdateInterest, At, Handling
<1>2. cur \in Conns
  BY <1>1, Parts DEF BatchExists, Handling
<1>3. PICK c \in Conns : cur = c
  BY <1>2
<1>4. CASE HandleError \/ HandleHup \/ SendFails \/ ReadNothing
  BY <1>3, <1>4, ClosingSteps
<1>5. CASE ReadData
  BY <1>3, <1>5, ReadDataInvariance
<1>6. CASE AnswerRequest \/ AnswerThenDisconnect \/ AnswerAfterClose
  BY <1>3, <1>6, AnswerInvariance
<1>7. CASE EndMessage \/ RejectRequest
  BY <1>3, <1>7, EndMessageInvariance
<1>8. CASE SkipRead \/ ToWrite \/ UseDestroyed("afterRead", "after") \/ UseDestroyed("after", "dispatch")
  BY <1>3, <1>8, MoveInvariance
<1>9. CASE SendSome
  BY <1>3, <1>9, SendSomeInvariance
<1>10. CASE EndWrite
  BY <1>3, <1>10, EndWriteInvariance
<1>11. CASE UpdateInterest
  BY <1>3, <1>11, UpdateInterestInvariance
<1> QED BY <1>4, <1>5, <1>6, <1>7, <1>8, <1>9, <1>10, <1>11 DEF Handle

LEMMA NextInvariance == IInv /\ [Next]_vars => IInv'
<1> SUFFICES ASSUME IInv, [Next]_vars PROVE IInv'
  OBVIOUS
<1>1. CASE UNCHANGED vars
  <2>1. UNCHANGED <<conn, timers, mask, sock, pc, cur, batch, revents>>
    BY <1>1 DEF vars
  <2>2. TypeOK'
    BY <2>1, Parts DEF TypeOK
  <2>3. BatchExists'
    BY <2>1, Parts DEF BatchExists, Handled
  <2>4. ASSUME NEW c \in Conns PROVE ConnectionInv(c)'
    <3>1. InOrder(c)'
      BY <2>1, OwnInv, OrderKept
    <3>2. Lifetime(c)' /\ TimersFollow(c)' /\ InterestFollows(c)' /\ InputRead(c)'
      BY <2>1, OwnInv DEF Lifetime, TimersFollow, InterestFollows, InputRead, Handled
    <3> QED BY <3>1, <3>2 DEF ConnectionInv
  <2> QED BY <2>2, <2>3, <2>4, PartsSuffice
<1>2. CASE Poll \/ EndBatch \/ EndTimers \/ EndFunctors \/ \E c \in Conns : NextChannel(c)
  BY <1>2, LoopInvariance
<1>3. CASE Handle
  BY <1>3, HandleInvariance
<1>4. ASSUME NEW c \in Conns, AddConnection(c) PROVE IInv'
  BY <1>4, AddConnectionInvariance
<1>5. ASSUME NEW c \in Conns, NEW k \in Kinds, RunTimer(c, k) PROVE IInv'
  BY <1>5, ClosingSteps
<1>6. ASSUME NEW c \in Conns, NEW k \in Kinds, Expire(c, k) \/ RunOrphanTimer(c, k) PROVE IInv'
  BY <1>6, TimerInvariance
<1>7. ASSUME NEW c \in Conns, PeerStep(c) \/ PeerRead(c) PROVE IInv'
  BY <1>7, PeerInvariance
<1> QED BY <1>1, <1>2, <1>3, <1>4, <1>5, <1>6, <1>7 DEF Next, LoopStep

(* The invariant of the worker's connections holds for any number of them,  *)
(* of tokens they send and of units the kernel holds.                      *)
THEOREM Invariance == Spec => []IInv
<1>1. Init => IInv
  BY InitInvariance
<1>2. IInv /\ [Next]_vars => IInv'
  BY NextInvariance
<1> QED BY <1>1, <1>2, PTL DEF Spec

(* epoll never reports a channel that handleClose has destroyed, nor does   *)
(* a handler destroy one that waits in the batch.                          *)
THEOREM ChannelsExist == Spec => []RegisteredChannelsExist
<1>1. IInv => RegisteredChannelsExist
  <2> SUFFICES ASSUME IInv PROVE RegisteredChannelsExist
    OBVIOUS
  <2>1. ASSUME NEW c \in Conns, mask[c] # {} PROVE conn[c].exists
    BY <2>1, OwnInv DEF Lifetime
  <2>2. \A c \in batch : conn[c].exists
    BY Parts DEF BatchExists
  <2> QED BY <2>1, <2>2 DEF RegisteredChannelsExist
<1> QED BY <1>1, Invariance, PTL

(* A TcpConnection is destroyed when it is Disconnected and by then only,   *)
(* as its destructor asserts.                                              *)
THEOREM DestructorAssertion == Spec => []DestroyedIffDisconnected
<1>1. IInv => DestroyedIffDisconnected
  <2> SUFFICES ASSUME IInv, NEW c \in Conns
               PROVE  /\ ~conn[c].exists => conn[c].state \in {"none", "Disconnected"}
                      /\ conn[c].state = "Disconnected" /\ conn[c].exists => pc = "message" /\ cur = c
    BY DEF DestroyedIffDisconnected
  <2> QED BY OwnInv DEF Lifetime
<1> QED BY <1>1, Invariance, PTL

(* Whatever order refreshes, closes and expirations come in, an open        *)
(* connection has a timer that will close it.                              *)
THEOREM NobodyImmortal == Spec => []NoImmortalConnection
<1>1. IInv => NoImmortalConnection
  <2> SUFFICES ASSUME IInv, NEW c \in Conns
               PROVE  /\ conn[c].state \in {"Connected", "Disconnecting"} => timers[c].Idle # "off"
                      /\ conn[c].state = "Disconnecting" => timers[c].Close # "off"
    BY DEF NoImmortalConnection
  <2> QED BY OwnInv DEF TimersFollow
<1> QED BY <1>1, Invariance, PTL

(* loop() never sleeps with a response in a buffer that epoll does not wait *)
(* to send, nor with EPOLLOUT enabled for nothing.                         *)
THEOREM WriteInterest == Spec => []WriteInterestMatchesOutput
<1>1. IInv => WriteInterestMatchesOutput
  <2> SUFFICES ASSUME IInv, pc = "poll", NEW c \in Conns, conn[c].exists
               PROVE  "out" \in mask[c] <=> conn[c].outbuf # <<>>
    BY DEF WriteInterestMatchesOutput
  <2>1. conn[c].state \in {"Connected", "Disconnecting"}
    BY OwnInv, OwnFields DEF Lifetime
  <2> QED BY <2>1, OwnInv DEF InterestFollows, Handled
<1> QED BY <1>1, Invariance, PTL

(* No response is lost, repeated or reordered on its way through            *)
(* outputBuffer_, partial writes and the kernel to the peer.               *)
THEOREM InOrderAlways == Spec => []ResponsesInOrder
<1>1. IInv => ResponsesInOrder
  <2> SUFFICES ASSUME IInv PROVE ResponsesInOrder
    OBVIOUS
  <2>1. \A c \in Conns : InOrder(c)
    BY OwnInv
  <2> QED BY <2>1 DEF ResponsesInOrder, InOrder
<1> QED BY <1>1, Invariance, PTL

(* onMessage answers every complete request before loop() sleeps, unless    *)
(* the parser has rejected a line of that connection.                      *)
THEOREM RequestsAnswered == Spec => []NoRequestForgotten
<1>1. IInv => NoRequestForgotten
  <2> SUFFICES ASSUME IInv, pc = "poll", NEW c \in Conns, conn[c].exists, ~conn[c].rejected
               PROVE  conn[c].inbuf = <<>>
    BY DEF NoRequestForgotten
  <2> QED BY OwnInv DEF InputRead
<1> QED BY <1>1, Invariance, PTL

-----------------------------------------------------------------------------
(* What closing leaves of the timers.                                      *)

NoTimerOutlives(c) ==
    conn'[c].state = "Disconnected" =>
        \A k \in Kinds : timers'[c][k] # "off" =>
            \/ conn[c].state = "Disconnected" /\ timers[c][k] # "off"
            \/ k = "Close" /\ ClosesInMessage(c)

(* A step about one connection: that one is all there is to look at. *)
LEMMA OnlyItsTimers ==
    ASSUME IInv, NEW d \in Conns, NEW r, conn' = [conn EXCEPT ![d] = r],
           NEW t, timers' = [timers EXCEPT ![d] = t],
           r.state = "Disconnected" =>
               \A k \in Kinds : t[k] # "off" =>
                   \/ conn[d].state = "Disconnected" /\ timers[d][k] # "off"
                   \/ k = "Close" /\ ClosesInMessage(d)
    PROVE  \A c \in Conns : NoTimerOutlives(c)
<1> SUFFICES ASSUME NEW c \in Conns PROVE NoTimerOutlives(c)
  OBVIOUS
<1>1. CASE c = d
  <2>1. conn'[c] = r /\ timers'[c] = t
    BY <1>1, OwnTypes
  <2> QED BY <1>1, <2>1 DEF NoTimerOutlives
<1>2. CASE c # d
  <2>1. conn'[c] = conn[c] /\ timers'[c] = timers[c]
    BY <1>2, OwnTypes
  <2> QED BY <2>1 DEF NoTimerOutlives
<1> QED BY <1>1, <1>2

LEMMA ClosingTimers ==
    ASSUME IInv, NEW d \in Conns, NEW reason, HandleClose(d, reason)
    PROVE  \A c \in Conns : NoTimerOutlives(c)
<1>1. PICK r : r = [Disconnected(conn[d], reason) EXCEPT !.exists = FALSE]
  OBVIOUS
<1>2. conn' = [conn EXCEPT ![d] = r] /\ timers' = [timers EXCEPT ![d] = NoTimers]
  BY <1>1 DEF HandleClose
<1>3. \A k \in Kinds : NoTimers[k] = "off"
  BY DEF NoTimers
<1> QED BY <1>2, <1>3, OnlyItsTimers

(* onMessage: "close" takes the timers, or arms the one behind handleClose. *)
LEMMA AnswerTimers ==
    ASSUME IInv, NEW d \in Conns, cur = d, AnswerThenDisconnect \/ AnswerAfterClose
    PROVE  \A c \in Conns : NoTimerOutlives(c)
<1>1. conn[d] \in Connections
  BY OwnTypes
<1>2. CASE AnswerThenDisconnect
  <2>1. PICK r : r = [conn[d] EXCEPT !.state = "Disconnecting", !.reason = "ServerClose"]
    OBVIOUS
  <2>2. /\ r \in Connections /\ r.state = "Disconnecting" /\ r.inbuf = conn[d].inbuf
        /\ r.outbuf = conn[d].outbuf /\ r.served = conn[d].served
    BY <1>1, <2>1 DEF Connections
  <2>3. PICK i \in 1..Len(conn[d].inbuf) : conn' = [conn EXCEPT ![d] = Answered(r, i)]
    BY <1>2, <2>1 DEF AnswerThenDisconnect
  <2>4. PICK a : a = Answered(r, i)
    OBVIOUS
  <2>5. a.state = "Disconnecting"
    BY <2>2, <2>4, AnswerRecord
  <2>6. PICK t : t = [timers[d] EXCEPT !["Close"] = "armed"]
    OBVIOUS
  <2>7. conn' = [conn EXCEPT ![d] = a] /\ timers' = [timers EXCEPT ![d] = t]
    BY <1>2, <2>3, <2>4, <2>6 DEF AnswerThenDisconnect
  <2> QED BY <2>5, <2>7, OnlyItsTimers
<1>3. CASE AnswerAfterClose
  <2>1. PICK i \in 1..Len(conn[d].inbuf) :
          conn' = [conn EXCEPT ![d] = Answered(Disconnected(conn[d], "ServerClose"), i)]
    BY <1>3 DEF AnswerAfterClose
  <2>2. PICK a : a = Answered(Disconnected(conn[d], "ServerClose"), i)
    OBVIOUS
  <2>3. PICK t : t = [NoTimers EXCEPT !["Close"] = "armed"]
    OBVIOUS
  <2>4. conn' = [conn EXCEPT ![d] = a] /\ timers' = [timers EXCEPT ![d] = t]
    BY <1>3, <2>1, <2>2, <2>3 DEF AnswerAfterClose
  <2>5. \A k \in Kinds : t[k] # "off" => k = "Close"
    BY <2>3 DEF NoTimers, Kinds
  <2>6. ClosesInMessage(d)
    BY <1>3 DEF AnswerAfterClose, ClosesInMessage
  <2> QED BY <2>4, <2>5, <2>6, OnlyItsTimers
<1> QED BY <1>2, <1>3

(* What the other steps of a handler do to the state: nothing. *)
LEMMA HandlerTimers ==
    ASSUME IInv, NEW d \in Conns, cur = d,
           ReadData \/ SendSome \/ EndWrite \/ AnswerRequest \/ EndMessage \/ RejectRequest
    PROVE  \A c \in Conns : NoTimerOutlives(c)
<1>1. conn[d] \in Connections /\ conn[d].inbuf \in Seq(Tokens) /\ conn[d].outbuf \in Seq(Nat)
  BY OwnTypes, OwnFields
<1>2. CASE ReadData \/ SendSome
  <2>1. pc \in {"events", "write"} /\ timers' = RefreshedIdle(d)
    BY <1>2 DEF ReadData, SendSome, At
  <2>2. PICK t : timers' = [timers EXCEPT ![d] = t]
    BY <2>1 DEF RefreshedIdle
  <2>3. PICK r : conn' = [conn EXCEPT ![d] = r] /\ r.state = conn[d].state
    <3>1. CASE ReadData
      <4>1. PICK r : r = [conn[d] EXCEPT !.inbuf = conn[d].inbuf \o sock[d].rx]
        OBVIOUS
      <4>2. conn' = [conn EXCEPT ![d] = r]
        BY <3>1, <4>1 DEF ReadData
      <4>3. r.state = conn[d].state
        BY <1>1, <4>1 DEF Connections
      <4> QED BY <4>2, <4>3
    <3>2. CASE SendSome
      <4>1. PICK r : r = [conn[d] EXCEPT !.outbuf = Tail(conn[d].outbuf)]
        OBVIOUS
      <4>2. conn' = [conn EXCEPT ![d] = r]
        BY <3>2, <4>1 DEF SendSome
      <4>3. r.state = conn[d].state
        BY <1>1, <4>1 DEF Connections
      <4> QED BY <4>2, <4>3
    <3> QED BY <1>2, <3>1, <3>2
  <2>4. r.state # "Disconnected"
    BY <2>1, <2>3, OpenHere
  <2> QED BY <2>2, <2>3, <2>4, OnlyItsTimers
<1>3. ASSUME NEW r, conn' = [conn EXCEPT ![d] = r], r.state = conn[d].state, timers' = timers
      PROVE  \A c \in Conns : NoTimerOutlives(c)
  <2>1. timers' = [timers EXCEPT ![d] = timers[d]]
    BY <1>3, OwnSame
  <2> QED BY <1>3, <2>1, OnlyItsTimers
<1>4. CASE EndWrite
  <2>1. PICK r : r = disableWriting(conn[d])
    OBVIOUS
  <2>2. r.state = conn[d].state
    BY <1>1, <2>1 DEF disableWriting, Connections
  <2>3. conn' = [conn EXCEPT ![d] = r] /\ timers' = timers
    BY <1>4, <2>1 DEF EndWrite
  <2> QED BY <1>3, <2>2, <2>3
<1>5. CASE AnswerRequest
  <2>1. PICK i \in 1..Len(conn[d].inbuf) : conn' = [conn EXCEPT ![d] = Answered(conn[d], i)]
    BY <1>5 DEF AnswerRequest
  <2>2. PICK r : r = Answered(conn[d], i)
    OBVIOUS
  <2>3. r.state = conn[d].state
    BY <1>1, <2>2, AnswerRecord
  <2>4. conn' = [conn EXCEPT ![d] = r] /\ timers' = timers
    BY <1>5, <2>1, <2>2 DEF AnswerRequest
  <2> QED BY <1>3, <2>3, <2>4
<1>6. CASE EndMessage
  <2>1. PICK none \in Seq(Tokens) : none = <<>>
    <3>1. <<>> \in Seq(Tokens)
      OBVIOUS
    <3> QED BY <3>1, Zenon
  <2>2. PICK b : b = [conn[d] EXCEPT !.inbuf = none]
    OBVIOUS
  <2>3. PICK r : r = Released(b)
    OBVIOUS
  <2>4. b \in Connections /\ b.state = conn[d].state
    BY <1>1, <2>2, InbufFacts
  <2>5. r.state = conn[d].state
    BY <2>3, <2>4, ReleasedFacts
  <2>6. conn' = [conn EXCEPT ![d] = r] /\ timers' = timers
    BY <1>6, <2>1, <2>2, <2>3 DEF EndMessage
  <2> QED BY <1>3, <2>5, <2>6
<1>7. CASE RejectRequest
  <2>1. PICK i \in 1..Len(conn[d].inbuf) :
          conn' = [conn EXCEPT ![d] = Released(Rejected(conn[d], i))]
    BY <1>7 DEF RejectRequest
  <2>2. PICK b : b = Rejected(conn[d], i)
    OBVIOUS
  <2>3. PICK r : r = Released(b)
    OBVIOUS
  <2>4. b \in Connections /\ b.state = conn[d].state
    <3>1. PICK rest : rest = SubSeq(conn[d].inbuf, i + 1, Len(conn[d].inbuf))
      OBVIOUS
    <3>2. rest \in Seq(Tokens)
      BY <1>1, <3>1, RestFacts
    <3>3. b = [conn[d] EXCEPT !.inbuf = rest, !.rejected = TRUE]
      BY <2>2, <3>1 DEF Rejected
    <3> QED BY <1>1, <3>2, <3>3 DEF Connections
  <2>5. r.state = conn[d].state
    BY <2>3, <2>4, ReleasedFacts
  <2>6. conn' = [conn EXCEPT ![d] = r] /\ timers' = timers
    BY <1>7, <2>1, <2>2, <2>3 DEF RejectRequest
  <2> QED BY <1>3, <2>5, <2>6
<1> QED BY <1>2, <1>4, <1>5, <1>6, <1>7

(* The clock: a timer that becomes due was armed, one that ran is off. *)
LEMMA ClockTimers ==
    ASSUME IInv, NEW d \in Conns, NEW k \in Kinds, Expire(d, k) \/ RunOrphanTimer(d, k)
    PROVE  \A c \in Conns : NoTimerOutlives(c)
<1>1. PICK v : /\ timers' = [timers EXCEPT ![d] = [timers[d] EXCEPT ![k] = v]]
               /\ v # "off" => timers[d][k] = "armed"
  BY DEF Expire, RunOrphanTimer
<1>2. PICK t : t = [timers[d] EXCEPT ![k] = v]
  OBVIOUS
<1>3. \A j \in Kinds : t[j] # "off" => timers[d][j] # "off"
  BY <1>1, <1>2, OwnTypes DEF Timers
<1>4. conn' = [conn EXCEPT ![d] = conn[d]]
  BY OwnSame DEF Expire, RunOrphanTimer
<1> QED BY <1>1, <1>2, <1>3, <1>4, OnlyItsTimers

LEMMA OpeningTimers ==
    ASSUME IInv, NEW d \in Conns, AddConnection(d)
    PROVE  \A c \in Conns : NoTimerOutlives(c)
<1>1. PICK r : r = [conn[d] EXCEPT !.state = "Connected", !.exists = TRUE, !.events = {"in"}]
  OBVIOUS
<1>2. r.state = "Connected"
  BY <1>1, OwnTypes DEF Connections
<1>3. PICK t : t = [timers[d] EXCEPT !["Idle"] = "armed"]
  OBVIOUS
<1>4. conn' = [conn EXCEPT ![d] = r] /\ timers' = [timers EXCEPT ![d] = t]
  BY <1>1, <1>3 DEF AddConnection
<1> QED BY <1>2, <1>4, OnlyItsTimers

LEMMA HandleTimers == ASSUME IInv, Handle PROVE \A c \in Conns : NoTimerOutlives(c)
<1>1. pc \in Handling
  BY DEF Handle, HandleError, ReadData, ReadNothing, SkipRead, AnswerRequest, AnswerThenDisconnect,
         AnswerAfterClose, EndMessage, RejectRequest, UseDestroyed, HandleHup, ToWrite, SendSome,
         SendFails, EndWrite, UpdateInterest, At, Handling
<1>2. PICK d \in Conns : cur = d
  BY <1>1, Parts DEF BatchExists, Handling
<1>3. CASE HandleError \/ HandleHup \/ SendFails \/ ReadNothing
  <2>1. \E reason : HandleClose(d, reason)
    BY <1>2, <1>3 DEF HandleError, HandleHup, SendFails, ReadNothing, ForceClose
  <2> QED BY <2>1, ClosingTimers
<1>4. CASE AnswerThenDisconnect \/ AnswerAfterClose
  BY <1>2, <1>4, AnswerTimers
<1>5. CASE ReadData \/ SendSome \/ EndWrite \/ AnswerRequest \/ EndMessage \/ RejectRequest
  BY <1>2, <1>5, HandlerTimers
<1>6. CASE \/ SkipRead \/ ToWrite \/ UpdateInterest
           \/ UseDestroyed("afterRead", "after") \/ UseDestroyed("after", "dispatch")
  BY <1>6 DEF SkipRead, ToWrite, UpdateInterest, UseDestroyed, NoTimerOutlives
<1> QED BY <1>3, <1>4, <1>5, <1>6 DEF Handle

(* handleClose, called from wherever, leaves no timer of its connection, and *)
(* no handler arms one afterwards.  The close timer that startDisconnect     *)
(* arms behind handleClose, when onMessage closes a connection with nothing  *)
(* left to send, is the only one: not even a connection that was already     *)
(* closing, with output left and its close timer armed, leaves another.      *)
THEOREM OrphanTimers == Spec => TimersDieWithConnection
<1>1. IInv /\ [Next]_vars => [\A c \in Conns : NoTimerOutlives(c)]_vars
  <2> SUFFICES ASSUME IInv, Next PROVE \A c \in Conns : NoTimerOutlives(c)
    OBVIOUS
  <2>1. CASE Poll \/ EndBatch \/ EndTimers \/ EndFunctors \/ \E c \in Conns : NextChannel(c)
    BY <2>1 DEF Poll, EndBatch, EndTimers, EndFunctors, NextChannel, NoTimerOutlives
  <2>2. CASE Handle
    BY <2>2, HandleTimers
  <2>3. ASSUME NEW d \in Conns, AddConnection(d) PROVE \A c \in Conns : NoTimerOutlives(c)
    BY <2>3, OpeningTimers
  <2>4. ASSUME NEW d \in Conns, NEW k \in Kinds, RunTimer(d, k)
        PROVE  \A c \in Conns : NoTimerOutlives(c)
    BY <2>4, ClosingTimers DEF RunTimer, ForceClose
  <2>5. ASSUME NEW d \in Conns, NEW k \in Kinds, Expire(d, k) \/ RunOrphanTimer(d, k)
        PROVE  \A c \in Conns : NoTimerOutlives(c)
    BY <2>5, ClockTimers
  <2>6. ASSUME NEW d \in Conns, PeerStep(d) \/ PeerRead(d)
        PROVE  \A c \in Conns : NoTimerOutlives(c)
    BY <2>6 DEF PeerStep, PeerRead, Accept, PeerFin, PeerReset, PeerSend, serverVars, NoTimerOutlives
  <2> QED BY <2>1, <2>2, <2>3, <2>4, <2>5, <2>6 DEF Next, LoopStep
<1>2. Spec => [][\A c \in Conns : NoTimerOutlives(c)]_vars
  BY <1>1, Invariance, PTL DEF Spec
<1> QED BY <1>2 DEF TimersDieWithConnection, NoTimerOutlives
=============================================================================
