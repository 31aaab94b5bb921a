----------------------------- MODULE MCPyBypass -----------------------------
(***************************************************************************)
(* An instance of PyBypass: two clients that may get the same port, and    *)
(* for every number one segment that has it right and one that has not.    *)
(***************************************************************************)
EXTENDS PyBypass

CONSTANTS fake, none, noPacket, p1, r

MCPayloads    == {fake}
MCRemotePorts == {r}

Seg(inbound, flags, seq, ackNum) ==
  [inbound |-> inbound, local |-> p1, remote |-> r, flags |-> flags,
   seq_num |-> seq, ack_num |-> ackNum, payload |-> Empty]

\* The client's initial number is 2, the last one; the server's is 0.
MCTraffic ==
  {Seg(FALSE, Syn, 2, 0), Seg(TRUE, SynAck, 0, 0), Seg(FALSE, Ack, 0, 1),
   Seg(TRUE, Ack, 1, 0)}
    \cup {Seg(FALSE, Syn, 1, 0), Seg(TRUE, SynAck, 1, 0), Seg(TRUE, SynAck, 0, 1),
          Seg(FALSE, Ack, 0, 2), Seg(TRUE, Ack, 2, 0), Seg(TRUE, Rst, 0, 0),
          Seg(FALSE, FinAck, 0, 1)}

\* A server that refuses the connection.
MCRefusedTraffic == {Seg(FALSE, Syn, 2, 0), Seg(TRUE, Rst, 0, 0)}

=============================================================================
