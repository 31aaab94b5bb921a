----------------------------- MODULE Relay_proofs -----------------------------
(***************************************************************************)
(* The relay's safety, for any buffer and any amount of data.              *)
(***************************************************************************)
EXTENDS Relay, TLAPS

\* Everything the peer of s sent was passed on, and no more will come.
Complete(s) == peerFin[s] /\ put[Other(s)] = peerSent[s]

\* Where the bytes read from s are: all written, or partly in the buffer, or
\* partly lost after a failed write to a socket that was reset.
Accounted(s) ==
  /\ got[s] <= peerSent[s]
  /\ pc[s] = "read" => put[Other(s)] = got[s]
  /\ pc[s] = "write" => put[Other(s)] + buf[s] = got[s]
  /\ pc[s] \in {"shutdown", "done"} =>
       /\ put[Other(s)] <= got[s]
       /\ reset[s] \/ reset[Other(s)] \/ Complete(s)
  /\ fin[Other(s)] => pc[s] = "done" /\ (reset[s] \/ Complete(s))

IInv == TypeOK /\ \A s \in Sockets : Accounted(s)

\* Each socket has one other.
LEMMA TwoSockets ==
  \A s \in Sockets : /\ Other(s) \in Sockets /\ Other(Other(s)) = s
                     /\ Other(s) # s
                     /\ \A t \in Sockets : t = s \/ t = Other(s)
  BY DEF Sockets, Other

\* The first state has nothing to account for.
LEMMA InitIInv == Init => IInv
<1>. SUFFICES ASSUME Init PROVE IInv
  OBVIOUS
<1>1. TypeOK
  BY DEF Init, TypeOK
<1>2. \A s \in Sockets : Accounted(s)
  BY TwoSockets DEF Init, Accounted
<1>. QED
  BY <1>1, <1>2 DEF IInv

\* A step of the task of s, or of its peer, keeps the account of s.  The other
\* socket's account reads only variables this step leaves alone, and resets.
LEMMA TaskKeepsIInv ==
  ASSUME IInv, NEW s \in Sockets, Task(s)
  PROVE  IInv'
<1>1. TypeOK /\ Accounted(s) /\ Accounted(Other(s)) /\ Other(s) \in Sockets
      /\ Other(Other(s)) = s /\ Other(s) # s
      /\ \A t \in Sockets : t = s \/ t = Other(s)
  BY TwoSockets DEF IInv
<1>2. TypeOK'
  <2>1. CASE ReadSome(s)
    BY <1>1, <2>1, RelayAssumption DEF TypeOK, ReadSome, Goto, peers
  <2>2. CASE ReadEnd(s)
    BY <1>1, <2>2 DEF TypeOK, ReadEnd, Goto, peers
  <2>3. CASE WriteAll(s)
    BY <1>1, <2>3, RelayAssumption DEF TypeOK, WriteAll, Goto, peers
  <2>4. CASE WriteFails(s)
    BY <1>1, <2>4 DEF TypeOK, WriteFails, Goto, peers
  <2>5. CASE Shutdown(s)
    BY <1>1, <2>5 DEF TypeOK, Shutdown, Goto, peers
  <2>. QED
    BY <2>1, <2>2, <2>3, <2>4, <2>5 DEF Task
<1>3. Accounted(s)'
  <2>1. CASE ReadSome(s)
    BY <1>1, <2>1, RelayAssumption
       DEF TypeOK, Accounted, Complete, ReadSome, Goto, peers
  <2>2. CASE ReadEnd(s)
    BY <1>1, <2>2 DEF TypeOK, Accounted, Complete, ReadEnd, Goto, peers
  <2>3. CASE WriteAll(s)
    BY <1>1, <2>3, RelayAssumption
       DEF TypeOK, Accounted, Complete, WriteAll, Goto, peers
  <2>4. CASE WriteFails(s)
    BY <1>1, <2>4 DEF TypeOK, Accounted, Complete, WriteFails, Goto, peers
  <2>5. CASE Shutdown(s)
    BY <1>1, <2>5 DEF TypeOK, Accounted, Complete, Shutdown, Goto, peers
  <2>. QED
    BY <2>1, <2>2, <2>3, <2>4, <2>5 DEF Task
<1>4. Accounted(Other(s))'
  <2>1. UNCHANGED peers
    BY DEF Task, ReadSome, ReadEnd, WriteAll, WriteFails, Shutdown
  <2>2. /\ got'[Other(s)] = got[Other(s)] /\ buf'[Other(s)] = buf[Other(s)]
        /\ put'[s] = put[s] /\ fin'[s] = fin[s] /\ pc'[Other(s)] = pc[Other(s)]
    BY <1>1 DEF TypeOK, Task, ReadSome, ReadEnd, WriteAll, WriteFails,
                Shutdown, Goto
  <2>. QED
    BY <1>1, <2>1, <2>2 DEF Accounted, Complete, peers
<1>. QED
  BY <1>1, <1>2, <1>3, <1>4 DEF IInv

\* A peer only adds to what is to be read, finishes, or resets.
LEMMA PeerKeepsIInv ==
  ASSUME IInv, NEW s \in Sockets, Peer(s)
  PROVE  IInv'
<1>1. CASE PeerSends(s)
  BY <1>1, TwoSockets DEF IInv, TypeOK, Accounted, Complete, PeerSends
<1>2. CASE PeerFinishes(s)
  BY <1>2, TwoSockets DEF IInv, TypeOK, Accounted, Complete, PeerFinishes
<1>3. CASE PeerResets(s)
  BY <1>3, TwoSockets DEF IInv, TypeOK, Accounted, Complete, PeerResets
<1>4. CASE PeerTakes(s)
  BY <1>4, TwoSockets DEF IInv, TypeOK, Accounted, Complete, PeerTakes
<1>. QED
  BY <1>1, <1>2, <1>3, <1>4 DEF Peer

\* IInv is inductive.
LEMMA NextIInv == IInv /\ [Next]_vars => IInv'
<1>. SUFFICES ASSUME IInv, [Next]_vars PROVE IInv'
  OBVIOUS
<1>1. ASSUME NEW s \in Sockets, Task(s) PROVE IInv'
  BY <1>1, TaskKeepsIInv
<1>2. ASSUME NEW s \in Sockets, Peer(s) PROVE IInv'
  BY <1>2, PeerKeepsIInv
<1>3. CASE UNCHANGED vars
  BY <1>3 DEF vars, IInv, TypeOK, Accounted, Complete
<1>. QED
  BY <1>1, <1>2, <1>3 DEF Next, Finished

LEMMA Invariance == Spec => []IInv
  BY InitIInv, NextIInv, PTL DEF Spec

\* The counts of bytes never leave the naturals: no write takes more than is held.
THEOREM RelayTypes == Spec => []TypeOK
<1>1. IInv => TypeOK
  BY DEF IInv
<1>. QED
  BY <1>1, Invariance, PTL

\* The relay makes no byte up.
THEOREM NothingIsAdded == Spec => []NothingAdded
<1>1. IInv => NothingAdded
  BY TwoSockets DEF IInv, TypeOK, Accounted, Complete, NothingAdded
<1>. QED
  BY <1>1, Invariance, PTL

\* A FIN passed on from a connection that was not reset ends a whole stream.
THEOREM FinEndsStream == Spec => []FinIsTheEnd
<1>1. IInv => FinIsTheEnd
  BY DEF IInv, Accounted, Complete, FinIsTheEnd
<1>. QED
  BY <1>1, Invariance, PTL

\* Nothing follows a FIN on the socket it was sent on.
THEOREM NothingAfterFin == Spec => FinIsFinal
<1>1. IInv /\ [Next]_vars
        => [\A s \in Sockets : fin[s] => put'[s] = put[s]]_vars
  <2>. SUFFICES ASSUME IInv, Next, NEW t \in Sockets, fin[t]
                PROVE  put'[t] = put[t]
    OBVIOUS
  <2>1. PICK s \in Sockets : t = Other(s) /\ pc[s] = "done"
    BY TwoSockets DEF IInv, Accounted
  <2>2. \A u \in Sockets : Task(u) => u # s
    BY <2>1 DEF Task, ReadSome, ReadEnd, WriteAll, WriteFails, Shutdown
  <2>3. \A u \in Sockets : Task(u) => put'[t] = put[t]
    BY <2>1, <2>2, TwoSockets DEF IInv, TypeOK, Task, ReadSome, ReadEnd,
       WriteAll, WriteFails, Shutdown
  <2>4. \A u \in Sockets : Peer(u) => put'[t] = put[t]
    BY DEF Peer, PeerSends, PeerTakes, PeerFinishes, PeerResets
  <2>. QED
    BY <2>3, <2>4 DEF Next, Finished, vars
<1>. QED
  BY <1>1, Invariance, PTL DEF Spec, FinIsFinal

=============================================================================
