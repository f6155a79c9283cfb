---------------------------- MODULE MCWorkerLoop ----------------------------
(* The instances of WorkerLoop that TLC explores. *)
EXTENDS WorkerLoop, TLC

CONSTANTS a, b

MCConns == {a, b}
OneConn == {a}
MCSymmetry == Permutations({a, b})
=============================================================================
