---------------------------- MODULE MCWorkerPool ----------------------------
(***************************************************************************)
(* Instances of WorkerPool: all keys in one shard, the worst case.         *)
(***************************************************************************)
EXTENDS WorkerPool

OneShard == [t \in Tasks |-> 1]

=============================================================================
