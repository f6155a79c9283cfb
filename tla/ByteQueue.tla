------------------------------ MODULE ByteQueue ------------------------------
(***************************************************************************)
(* What a Buffer is to its users: a queue of bytes.  The socket or a       *)
(* response puts bytes in at the end, the parser or send() takes bytes out *)
(* at the front, and nothing else ever changes what it holds.              *)
(***************************************************************************)
EXTENDS Naturals, Sequences

CONSTANTS Pieces,       \* the byte strings that may be put in at once
          Amounts       \* the numbers of bytes that may be asked for

VARIABLES content,      \* the bytes put in and not yet taken out
          call          \* what the last call put in, and how much it took out

Init == content = <<>> /\ call = [put |-> <<>>, drop |-> 0]

Put(s) ==
    /\ content' = content \o s
    /\ call' = [put |-> s, drop |-> 0]

(* Taking more than there is takes everything. *)
Drop(n) ==
    /\ content' = SubSeq(content, n + 1, Len(content))
    /\ call' = [put |-> <<>>, drop |-> n]

Next == (\E s \in Pieces : Put(s)) \/ (\E n \in Amounts : Drop(n))

Spec == Init /\ [][Next]_<<content, call>>
=============================================================================
