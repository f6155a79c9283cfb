-------------------------- MODULE MCEventLoopThread --------------------------
(* The instance of EventLoopThread that TLC explores. *)
EXTENDS EventLoopThread

CONSTANTS main, other, t1, t2, t3, quitF

MCPosters == {main, other}
MCTasks == {t1, t2, t3, quitF}
=============================================================================
