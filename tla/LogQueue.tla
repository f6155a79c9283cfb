------------------------------ MODULE LogQueue ------------------------------
(***************************************************************************)
(* What the asynchronous logger promises to the threads that log: the      *)
(* lines it accepts reach the file in the order in which append() took     *)
(* them, each once; none stays behind, and after stop() nothing is left.   *)
(***************************************************************************)
EXTENDS Naturals, Sequences

CONSTANT Lines          \* what threads may log

VARIABLES accepted,     \* the lines append() took, oldest first
          written,      \* the lines in the file
          stopping,     \* stop() has been called and takes no more lines
          stopped       \* stop() has returned

vars == <<accepted, written, stopping, stopped>>

Init == accepted = <<>> /\ written = <<>> /\ stopping = FALSE /\ stopped = FALSE

Accept(l) ==
    /\ ~stopping /\ ~stopped
    /\ accepted' = Append(accepted, l)
    /\ UNCHANGED <<written, stopping, stopped>>

(* Some of the lines not yet written, all in one go. *)
Write ==
    /\ \E n \in (Len(written) + 1)..Len(accepted) :
          written' = SubSeq(accepted, 1, n)
    /\ UNCHANGED <<accepted, stopping, stopped>>

CallStop ==
    /\ ~stopping /\ ~stopped
    /\ stopping' = TRUE
    /\ UNCHANGED <<accepted, written, stopped>>

Stop ==
    /\ stopping /\ written = accepted
    /\ stopping' = FALSE /\ stopped' = TRUE
    /\ UNCHANGED <<accepted, written>>

Next == Write \/ CallStop \/ Stop \/ \E l \in Lines : Accept(l)

SafeSpec == Init /\ [][Next]_vars

Spec == SafeSpec /\ WF_vars(Write) /\ WF_vars(Stop)
=============================================================================
