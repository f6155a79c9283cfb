---------------------------- MODULE MCWorkerPool ----------------------------
(* The instance of WorkerPool that TLC explores: two workers, and fewer      *)
(* descriptors and addresses than connections, so that both are used again.  *)
EXTENDS WorkerPool

CONSTANTS f1, f2, a1, a2

MCFds == {f1, f2}
MCAddrs == {a1, a2}
=============================================================================
