------------------------------ MODULE Tracking ------------------------------
(***************************************************************************)
(* What the bypass knows of a tracked connection and what it expects of a  *)
(* packet: FakeInjectiveConnection and the conditions of handle_outbound   *)
(* and handle_inbound in src/src/injector.rs.  fake_tcp.py has the same    *)
(* record and the same conditions, so that Injector.tla and PyBypass.tla   *)
(* share this module; what they do with a packet, and when, they do not    *)
(* share.                                                                  *)
(***************************************************************************)
EXTENDS SeqNum, Sequences

CONSTANTS
  LocalPorts,    \* ports of interface_ipv4
  RemotePorts,   \* ports of connect_ip
  Payloads,      \* the byte strings a segment may carry, compared only by =
  FakeLen,       \* the length of a fake ClientHello: 517 bytes
  Empty,         \* a segment without payload (payload_len == 0)
  Methods,       \* the values a node's bypass_method may have
  NoConn,        \* the key is not in the map
  NoPacket       \* the receive buffer before the first packet

ASSUME InjectorAssumption ==
  /\ Empty \notin Payloads
  /\ FakeLen \in SeqNums \ {0}

\* (src_ip, src_port, dst_ip, dst_port): both addresses are fixed by the filter.
ConnKey == LocalPorts \X RemotePorts

\* The flag combinations the handlers tell apart; the last two stand for all
\* the segments no branch expects.
Syn    == {"syn"}
SynAck == {"syn", "ack"}
Ack    == {"ack"}
Rst    == {"rst"}
FinAck == {"fin", "ack"}
Flags  == {Syn, SynAck, Ack, Rst, FinAck}

\* PacketInfo: what extract_packet_info keeps of a packet, and its payload.
Packet == [inbound : BOOLEAN, local : LocalPorts, remote : RemotePorts,
           flags : Flags, seq_num : SeqNums, ack_num : SeqNums,
           payload : Payloads \cup {Empty}]

NotSeen == -1    \* the i64 that stands for "no sequence number yet"

\* FakeInjectiveConnection.  permit is the one permit t2a_notify stores.
Conn == [monitor : BOOLEAN, syn_seq : SeqNums \cup {NotSeen},
         syn_ack_seq : SeqNums \cup {NotSeen}, fake_data : Payloads,
         sch_fake_sent : BOOLEAN, fake_sent : BOOLEAN, permit : BOOLEAN,
         t2a_msg : {"", "unexpected_close", "fake_data_ack_recv"},
         bypass_method : Methods]

ASSUME NoConnAssumption == NoConn \notin Conn /\ NoPacket \notin Packet

\* FakeInjectiveConnection::new
NewConn(fake_data, method) ==
  [monitor |-> TRUE, syn_seq |-> NotSeen, syn_ack_seq |-> NotSeen,
   fake_data |-> fake_data, sch_fake_sent |-> FALSE, fake_sent |-> FALSE,
   permit |-> FALSE, t2a_msg |-> "", bypass_method |-> method]

\* The key a packet belongs to, whichever way it goes.
Key(p) == <<p.local, p.remote>>

-----------------------------------------------------------------------------
(* What the two handlers expect of a packet p of a connection c.           *)

NoPayload(p) == p.payload = Empty

SynExpectedMutant(c, p) ==
  p.flags = Syn /\ NoPayload(p) /\ p.ack_num = 0

\* A SYN, or the retransmission of the SYN already seen.
SynExpected(c, p) ==
  /\ p.flags = Syn /\ NoPayload(p)
  /\ p.ack_num = 0
  /\ c.syn_seq \in {NotSeen, p.seq_num}

HandshakeAckExpectedMutant(c, p) ==
  /\ p.flags = Ack /\ NoPayload(p)
  /\ c.syn_seq # NotSeen /\ p.seq_num = NextSeq(c.syn_seq)
  /\ c.syn_ack_seq = NotSeen \/ p.ack_num = NextSeq(c.syn_ack_seq)

\* The ACK that completes the three-way handshake.
HandshakeAckExpected(c, p) ==
  /\ p.flags = Ack /\ NoPayload(p)
  /\ c.syn_seq # NotSeen /\ p.seq_num = NextSeq(c.syn_seq)
  /\ c.syn_ack_seq # NotSeen /\ p.ack_num = NextSeq(c.syn_ack_seq)

OutboundExpectedMutant(c, p) == SynExpected(c, p) \/ HandshakeAckExpected(c, p)

\* Nothing may leave once the fake is scheduled.
OutboundExpected(c, p) ==
  /\ ~c.sch_fake_sent
  /\ SynExpected(c, p) \/ HandshakeAckExpected(c, p)

\* The SYN-ACK, or its retransmission.
SynAckExpected(c, p) ==
  /\ p.flags = SynAck /\ NoPayload(p)
  /\ c.syn_ack_seq \in {NotSeen, p.seq_num}
  /\ p.ack_num = NextSeq(c.syn_seq)

\* The ACK taken for the server's answer to the fake: the numbers of the
\* handshake, after the fake was sent.
FakeAckExpected(c, p) ==
  /\ p.flags = Ack /\ NoPayload(p)
  /\ c.fake_sent
  /\ c.syn_ack_seq # NotSeen /\ p.seq_num = NextSeq(c.syn_ack_seq)
  /\ p.ack_num = NextSeq(c.syn_seq)

InboundExpected(c, p) ==
  /\ c.syn_seq # NotSeen
  /\ SynAckExpected(c, p) \/ FakeAckExpected(c, p)

Expected(c, p) ==
  IF p.inbound THEN InboundExpected(c, p) ELSE OutboundExpected(c, p)

=============================================================================
