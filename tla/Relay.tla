------------------------------- MODULE Relay -------------------------------
(***************************************************************************)
(* The bidirectional relay at the end of handle_connection in              *)
(* src/src/main.rs: two tasks, each copying one direction until its reader *)
(* ends, and a handler that joins them.  Bytes are counted, not named: the *)
(* tasks never look at them.  The two peers and the sockets' kernel sides  *)
(* are external; a write waits while what the kernels and the peer hold    *)
(* unread fills the window.                                                *)
(***************************************************************************)
EXTENDS Integers

CONSTANTS
  BufLen,     \* the tasks' buffer: 65535 bytes
  Window,     \* how many written bytes a socket holds that its peer has not read
  MaxBytes    \* bound: bytes each peer sends

ASSUME RelayAssumption ==
  BufLen \in Nat \ {0} /\ Window \in Nat \ {0} /\ MaxBytes \in Nat

\* The two sockets: the browser's and the one to the server.
Sockets == {"incoming", "outgoing"}

Other(s) == IF s = "incoming" THEN "outgoing" ELSE "incoming"

VARIABLES
  peerSent,   \* bytes the socket's peer has sent
  peerFin,    \* the peer has finished sending
  reset,      \* the connection was reset: every call on the socket fails
  got,        \* bytes read from the socket by the task of its direction
  buf,        \* bytes that task holds, still to be written
  put,        \* bytes written to the socket
  taken,      \* bytes of these that its peer has read
  fin,        \* shutdown was called on the socket
  pc          \* of the task that reads the socket and writes the other

vars == <<peerSent, peerFin, reset, taken, got, buf, put, fin, pc>>

Init ==
  /\ peerSent = [s \in Sockets |-> 0]
  /\ peerFin = [s \in Sockets |-> FALSE]
  /\ reset = [s \in Sockets |-> FALSE]
  /\ got = [s \in Sockets |-> 0]
  /\ buf = [s \in Sockets |-> 0]
  /\ put = [s \in Sockets |-> 0]
  /\ taken = [s \in Sockets |-> 0]
  /\ fin = [s \in Sockets |-> FALSE]
  /\ pc = [s \in Sockets |-> "read"]

Goto(s, l) == pc' = [pc EXCEPT ![s] = l]

peers == <<peerSent, peerFin, reset, taken>>

\* How much a write to s can add now.
Room(s) == Window - (put[s] - taken[s])

-----------------------------------------------------------------------------
(* The task that relays from socket s.                                     *)

\* read returned n > 0 bytes.
ReadSome(s) ==
  /\ pc[s] = "read" /\ ~reset[s]
  /\ \E n \in 1 .. BufLen :
       /\ n <= peerSent[s] - got[s]
       /\ got' = [got EXCEPT ![s] = @ + n]
       /\ buf' = [buf EXCEPT ![s] = n]
  /\ Goto(s, "write")
  /\ UNCHANGED <<peers, put, fin>>

ReadEndMutant(s) ==
  /\ pc[s] = "read"
  /\ peerFin[s] \/ reset[s]
  /\ Goto(s, "shutdown")
  /\ UNCHANGED <<peers, got, buf, put, fin>>

\* read returned 0, once everything was read, or an error.
ReadEnd(s) ==
  /\ pc[s] = "read"
  /\ (peerFin[s] /\ got[s] = peerSent[s]) \/ reset[s]
  /\ Goto(s, "shutdown")
  /\ UNCHANGED <<peers, got, buf, put, fin>>

WriteAllMutant(s) ==
  /\ pc[s] = "write" /\ ~reset[Other(s)]
  /\ \E n \in 1 .. BufLen :
       /\ n <= Room(Other(s))
       /\ put' = [put EXCEPT ![Other(s)] = @ + n]
       /\ buf' = [buf EXCEPT ![s] = @ - n]
       /\ Goto(s, IF n < buf[s] THEN "write" ELSE "read")
  /\ UNCHANGED <<peers, got, fin>>

\* One turn of write_all, which writes the n bytes read and not the whole buffer:
\* as much as there is room for.  Without room the task waits here.
WriteAll(s) ==
  /\ pc[s] = "write" /\ ~reset[Other(s)]
  /\ \E n \in 1 .. BufLen :
       /\ n <= buf[s] /\ n <= Room(Other(s))
       /\ put' = [put EXCEPT ![Other(s)] = @ + n]
       /\ buf' = [buf EXCEPT ![s] = @ - n]
       /\ Goto(s, IF n < buf[s] THEN "write" ELSE "read")
  /\ UNCHANGED <<peers, got, fin>>

\* write_all failed: what is left in the buffer is lost.
WriteFails(s) ==
  /\ pc[s] = "write" /\ reset[Other(s)]
  /\ Goto(s, "shutdown")
  /\ UNCHANGED <<peers, got, buf, put, fin>>

ShutdownMutant(s) ==
  /\ pc[s] = "shutdown"
  /\ Goto(s, "done")
  /\ UNCHANGED <<peers, got, buf, put, fin>>

ShutdownOwnMutant(s) ==
  /\ pc[s] = "shutdown"
  /\ fin' = [fin EXCEPT ![s] = ~reset[s] \/ @]
  /\ Goto(s, "done")
  /\ UNCHANGED <<peers, got, buf, put>>

\* shutdown of the writing half, its error ignored; the task ends.
Shutdown(s) ==
  /\ pc[s] = "shutdown"
  /\ fin' = [fin EXCEPT ![Other(s)] = ~reset[Other(s)] \/ @]
  /\ Goto(s, "done")
  /\ UNCHANGED <<peers, got, buf, put>>

Task(s) ==
  ReadSome(s) \/ ReadEnd(s) \/ WriteAll(s) \/ WriteFails(s) \/ Shutdown(s)

-----------------------------------------------------------------------------
(* External: the peer of socket s.                                         *)

PeerSends(s) ==
  /\ ~peerFin[s] /\ ~reset[s] /\ peerSent[s] < MaxBytes
  /\ peerSent' = [peerSent EXCEPT ![s] = @ + 1]
  /\ UNCHANGED <<peerFin, reset, taken, got, buf, put, fin, pc>>

PeerTakes(s) ==
  /\ taken[s] < put[s] /\ ~reset[s]
  /\ taken' = [taken EXCEPT ![s] = @ + 1]
  /\ UNCHANGED <<peerSent, peerFin, reset, got, buf, put, fin, pc>>

PeerFinishes(s) ==
  /\ ~peerFin[s] /\ ~reset[s]
  /\ peerFin' = [peerFin EXCEPT ![s] = TRUE]
  /\ UNCHANGED <<peerSent, reset, taken, got, buf, put, fin, pc>>

PeerResets(s) ==
  /\ ~reset[s]
  /\ reset' = [reset EXCEPT ![s] = TRUE]
  /\ UNCHANGED <<peerSent, peerFin, taken, got, buf, put, fin, pc>>

\* A peer that has read to the end of what it was sent finishes too.
PeerAnswersFin(s) == fin[s] /\ taken[s] = put[s] /\ PeerFinishes(s)

Peer(s) == PeerSends(s) \/ PeerTakes(s) \/ PeerFinishes(s) \/ PeerResets(s)

\* join! returned and both sockets were dropped.
Joined == \A s \in Sockets : pc[s] = "done"

Finished == Joined /\ UNCHANGED vars

Next == Finished \/ \E s \in Sockets : Task(s) \/ Peer(s)

Spec == Init /\ [][Next]_vars

\* The tasks are polled when their socket is ready.  That the peers go on reading,
\* and answer a FIN, is assumed of them: nothing in the code times them out.
FairSpec ==
  /\ Spec
  /\ \A s \in Sockets :
       WF_vars(Task(s)) /\ WF_vars(PeerTakes(s)) /\ WF_vars(PeerAnswersFin(s))

-----------------------------------------------------------------------------

\* Counters are natural numbers and the tasks at one of their four places.
TypeOK ==
  /\ peerSent \in [Sockets -> Nat]
  /\ peerFin \in [Sockets -> BOOLEAN]
  /\ reset \in [Sockets -> BOOLEAN]
  /\ got \in [Sockets -> Nat]
  /\ buf \in [Sockets -> Nat]
  /\ put \in [Sockets -> Nat]
  /\ taken \in [Sockets -> Nat]
  /\ fin \in [Sockets -> BOOLEAN]
  /\ pc \in [Sockets -> {"read", "write", "shutdown", "done"}]

\* Nothing is made up: what one peer is sent, the other one sent before.
NothingAdded == \A s \in Sockets : put[Other(s)] <= peerSent[s]

\* A FIN that is passed on from a connection that ended in order stands after
\* the last byte: the receiver may take it for the end of the stream.
FinIsTheEnd ==
  \A s \in Sockets :
    fin[Other(s)] /\ ~reset[s] => peerFin[s] /\ put[Other(s)] = peerSent[s]

\* Nothing follows a FIN on a socket.
FinIsFinal == [][\A s \in Sockets : fin[s] => put'[s] = put[s]]_vars

\* The handler ends once either side ended, in order or by a reset, if the peers
\* keep reading and answer a FIN: the task of the idle direction is not left
\* reading for ever, nor are the two left waiting for each other.  A peer that
\* stops reading while its window is full keeps its task, and the handler.
HandlerEnds == (\E s \in Sockets : peerFin[s] \/ reset[s]) ~> Joined

=============================================================================
