---------------------------- MODULE MCFakePacket ----------------------------
(***************************************************************************)
(* Instance of FakePacket: every length of a name, on ACKs with and        *)
(* without options in either header, next to segments of other kinds.      *)
(***************************************************************************)
EXTENDS FakePacket

Seg(ihl, doff, ident, flags, len) ==
  [ihl |-> ihl, doff |-> doff, ident |-> ident, flags |-> flags, len |-> len,
   src_addr |-> <<192, 168, 1, 100>>, dst_addr |-> <<188, 114, 98, 0>>,
   src_port |-> 50123, dst_port |-> 443,
   seq_num |-> <<18, 52, 86, 120>>, ack_num |-> <<255, 255, 255, 254>>]

MCSegments ==
  {Seg(5, 5, 7, {"ack"}, 0), Seg(5, 8, 65535, {"ack"}, 0),
   Seg(6, 5, 255, {"ack"}, 0), Seg(15, 15, 0, {"ack", "psh"}, 0)}
    \cup {Seg(5, 13, 1, {"syn"}, 0), Seg(7, 11, 2, {"syn", "ack"}, 0),
          Seg(5, 5, 3, {"ack", "psh"}, 1), Seg(6, 8, 4, {"ack"}, 21),
          Seg(5, 5, 5, {"rst", "ack"}, 0), Seg(5, 6, 6, {"fin", "ack"}, 0)}

MCSniLengths == 0 .. 219
MCWrongSeq   == <<18, 52, 84, 116>>

=============================================================================
