----------------------------- MODULE WorkerPool -----------------------------
(***************************************************************************)
(* The threads under the connection handlers: the tokio runtime main.rs    *)
(* builds with four workers, and the shards of the DashMap the handlers    *)
(* lock.  insert and remove block the calling thread; a handler that waits *)
(* for the injector keeps a Ref, and with it its shard's read lock, across *)
(* the await.  Bypass.tla has one thread per handler; this module asks     *)
(* what the four really are enough for.                                    *)
(***************************************************************************)
EXTENDS Naturals, FiniteSets

CONSTANTS
  Tasks,     \* the spawned handle_connection tasks
  Workers,   \* worker_threads
  Shards,    \* the shards of the map (external)
  ShardOf    \* the shard each task's key hashes to (external)

ASSUME WorkerPoolAssumption ==
  /\ IsFiniteSet(Tasks)
  /\ Workers \in Nat \ {0}
  /\ ShardOf \in [Tasks -> Shards]

VARIABLES
  pc,       \* where each task is
  permit    \* the tasks whose t2a_notify holds a permit

vars == <<pc, permit>>

Init ==
  /\ pc = [t \in Tasks |-> "spawned"]
  /\ permit = {}

\* A task inside insert or remove has a worker, running or blocked.
OnWorker == {t \in Tasks : pc[t] \in {"inserting", "removing"}}

FreeWorker == Cardinality(OnWorker) < Workers

\* The tasks whose Ref holds the shard's read lock.
Readers(s) == {t \in Tasks : pc[t] = "waiting" /\ ShardOf[t] = s}

Goto(t, l) == pc' = [pc EXCEPT ![t] = l]

\* A worker polls the new task up to connections.insert.
Start(t) ==
  /\ pc[t] = "spawned" /\ FreeWorker
  /\ Goto(t, "inserting")
  /\ UNCHANGED permit

\* insert gets the shard's write lock; the task then awaits connect.
Insert(t) ==
  /\ pc[t] = "inserting" /\ Readers(ShardOf[t]) = {}
  /\ Goto(t, "connecting")
  /\ UNCHANGED permit

\* connect returned: the task gets its Ref and awaits the injector's answer.
ConnectOk(t) ==
  /\ pc[t] = "connecting" /\ FreeWorker
  /\ Goto(t, "waiting")
  /\ UNCHANGED permit

ConnectFailedMutant(t) ==
  /\ pc[t] = "connecting" /\ FreeWorker
  /\ Goto(t, "returned")
  /\ UNCHANGED permit

\* connect failed or timed out.
ConnectFailed(t) ==
  /\ pc[t] = "connecting" /\ FreeWorker
  /\ Goto(t, "removing")
  /\ UNCHANGED permit

\* The injector has an outcome for the connection: notify_one.
Notify(t) ==
  /\ pc[t] \in {"connecting", "waiting"} /\ t \notin permit
  /\ permit' = permit \cup {t}
  /\ UNCHANGED pc

WokenMutant(t) ==
  /\ pc[t] = "waiting" /\ FreeWorker
  /\ t \in permit
  /\ Goto(t, "removing")
  /\ permit' = permit \ {t}

\* A permit or the five seconds make the task ready; a worker polls it, and
\* the same poll drops the Ref and goes on to remove.
Woken(t) ==
  /\ pc[t] = "waiting" /\ FreeWorker
  /\ Goto(t, "removing")
  /\ permit' = permit \ {t}

\* remove gets the write lock; what follows is relaying or returning.
Remove(t) ==
  /\ pc[t] = "removing" /\ Readers(ShardOf[t]) = {}
  /\ Goto(t, "done")
  /\ UNCHANGED permit

Poll(t) == Start(t) \/ ConnectOk(t) \/ ConnectFailed(t) \/ Woken(t)

Locked(t) == Insert(t) \/ Remove(t)

Next == \E t \in Tasks : Poll(t) \/ Locked(t) \/ Notify(t)

\* A ready task is polled again and again as workers come free, and a free
\* lock is taken.  The injector need not answer: Poll includes the timeouts.
Fairness == \A t \in Tasks : SF_vars(Poll(t)) /\ WF_vars(Locked(t))

Spec == Init /\ [][Next]_vars /\ Fairness

-----------------------------------------------------------------------------

\* Types: the program counters, and permits only of tasks.
TypeOK ==
  /\ pc \in [Tasks -> {"spawned", "inserting", "connecting", "waiting",
                       "removing", "done"}]
  /\ permit \subseteq Tasks

\* t2a_notify wakes the handler when the injection completes.
NotifyWakes == \A t \in Tasks : (t \in permit /\ pc[t] = "waiting") ~> pc[t] = "done"

\* Every accepted client is decided: whoever waits with a lock in its hands is
\* woken and run again, and lets those go on that are blocked on the lock.
EveryTaskEnds == \A t \in Tasks : <>(pc[t] = "done")

=============================================================================
