-------------------------- MODULE WorkerPool_proofs --------------------------
(***************************************************************************)
(* The types of the pool, for any number of tasks, workers and shards.     *)
(***************************************************************************)
EXTENDS WorkerPool, TLAPS

\* A task is in one place, and only tasks have permits.
THEOREM PoolTypes == Spec => []TypeOK
<1>1. Init => TypeOK
  BY DEF Init, TypeOK
<1>2. TypeOK /\ [Next]_vars => TypeOK'
  <2>. SUFFICES ASSUME TypeOK, [Next]_vars PROVE TypeOK'
    OBVIOUS
  <2>1. ASSUME NEW t \in Tasks, Poll(t) PROVE TypeOK'
    BY <2>1 DEF TypeOK, Poll, Start, ConnectOk, ConnectFailed, Woken, Goto
  <2>2. ASSUME NEW t \in Tasks, Locked(t) PROVE TypeOK'
    BY <2>2 DEF TypeOK, Locked, Insert, Remove, Goto
  <2>3. ASSUME NEW t \in Tasks, Notify(t) PROVE TypeOK'
    BY <2>3 DEF TypeOK, Notify
  <2>4. CASE UNCHANGED vars
    BY <2>4 DEF TypeOK, vars
  <2>. QED
    BY <2>1, <2>2, <2>3, <2>4 DEF Next
<1>. QED
  BY <1>1, <1>2, PTL DEF Spec

=============================================================================
