----------------------------- MODULE FakePacket -----------------------------
(***************************************************************************)
(* A segment from the stack that sends it to the one who reads it: the     *)
(* sender writes it, the injector extracts what it tracks and, if it is    *)
(* the ACK of a handshake, sends a copy rewritten to carry a ClientHello,  *)
(* and a reader on the path takes that apart, header by header, down to    *)
(* the name.  Sender and reader are external: they follow RFC 791 and 9293 *)
(* where the injector has offsets.                                         *)
(***************************************************************************)
EXTENDS Headers, ClientHello

CONSTANTS
  Segments,    \* what is sent
  WrongSeq     \* the four bytes of the wrong sequence number

FourBytes   == [1 .. 4 -> 0 .. 255]
TwoBytes    == 0 .. 65535
HeaderWords == 5 .. 15
Flags       == DOMAIN FlagBits

\* What the fields of the two headers can hold: the header lengths in words of
\* four bytes, options included.
Segment ==
  [ihl : HeaderWords, doff : HeaderWords, ident : TwoBytes, flags : SUBSET Flags,
   len : Nat, src_addr : FourBytes, dst_addr : FourBytes,
   src_port : TwoBytes, dst_port : TwoBytes,
   seq_num : FourBytes, ack_num : FourBytes]

ASSUME FakePacketAssumption == Segments \subseteq Segment /\ WrongSeq \in FourBytes

VARIABLES
  segment,   \* what the sender meant
  captured,  \* the bytes of it
  fake,      \* the bytes of the fake packet, once it is sent
  read       \* what the reader has understood of that packet

fakeVars == <<vars, segment, captured, fake, read>>

\* External.  Options are padded to the length their header claims.
Options(words) == [i \in 1 .. 4 * (words - 5) |-> 1]

\* External: the byte of a set of flags.
BitsOf(flags) ==
  LET bit(f) == IF f \in flags THEN FlagBits[f] ELSE 0 IN
  bit("fin") + bit("syn") + bit("rst") + bit("psh") + bit("ack")

\* External: the bytes of a segment.
Written(s) ==
  LET tcp == ToU16(s.src_port) \o ToU16(s.dst_port) \o s.seq_num \o s.ack_num
               \o <<16 * s.doff, BitsOf(s.flags), 113, 16, 0, 0, 0, 0>>
               \o Options(s.doff) \o Zeros(s.len) IN
  <<64 + s.ihl, 0>> \o ToU16(4 * s.ihl + Len(tcp)) \o ToU16(s.ident)
    \o <<64, 0, 64, 6, 0, 0>> \o s.src_addr \o s.dst_addr \o Options(s.ihl) \o tcp

FInit ==
  /\ sni \in SniLengths /\ hello = build_client_hello(sni)
  /\ pos = 0 /\ phase = "captured" /\ names = <<>>
  /\ segment \in Segments /\ captured = Written(segment)
  /\ fake = <<>> /\ read = {}

\* The bare ACK of the handshake, as the injector sees it.
Inject ==
  /\ phase = "captured"
  /\ \E i \in extract_packet_info(captured) :
       i.flags = {"ack"} /\ i.payload_len = 0
  /\ fake' \in inject_fake_packet(captured, hello, WrongSeq)
  /\ phase' = "headers"
  /\ UNCHANGED <<sni, hello, pos, names, segment, captured, read>>

\* External.  The reader goes by the lengths in the headers, and finds its TLS
\* bytes between them and the end of the packet.
ReadHeaders ==
  /\ phase = "headers"
  /\ LET ihl   == 4 * (Octet(fake, 0) % 16)
         start == ihl + 4 * (Octet(fake, ihl + 12) \div 16)
         total == Word16(fake, 2) IN
     IF total = Len(fake) /\ start <= total
       THEN /\ hello' = SubSeq(fake, start + 1, total)
            /\ read' = {[addrs |-> Octets(fake, 12, 8), ports |-> Octets(fake, ihl, 4),
                         seq_num |-> Octets(fake, ihl + 4, 4),
                         ack_num |-> Octets(fake, ihl + 8, 4),
                         flags |-> Octet(fake, ihl + 13), ident |-> Word16(fake, 4)]}
            /\ phase' = "record"
       ELSE phase' = "bad" /\ UNCHANGED <<hello, read>>
  /\ UNCHANGED <<sni, pos, names, segment, captured, fake>>

ReadHello ==
  /\ ReadRecord \/ ReadHandshake \/ ReadExtension
  /\ UNCHANGED <<segment, captured, fake, read>>

FNext == Inject \/ ReadHeaders \/ ReadHello

FSpec == FInit /\ [][FNext]_fakeVars

-----------------------------------------------------------------------------
(* Properties.                                                             *)

\* What the sender meant, in the injector's terms.
Meant(s) ==
  [flags |-> s.flags \ {"psh"}, seq_num |-> s.seq_num, ack_num |-> s.ack_num,
   payload_len |-> s.len, src_addr |-> s.src_addr, dst_addr |-> s.dst_addr,
   src_port |-> s.src_port, dst_port |-> s.dst_port,
   ip_header_len |-> 4 * s.ihl, tcp_header_len |-> 4 * s.doff]

\* Whatever options the two headers carry, the injector sees the segment that
\* was sent; and of a truncated packet it sees nothing or, the payload apart,
\* the same, but never a byte of an option or of payload in a field's place.
SeesWhatWasSent ==
  phase = "captured" =>
    /\ extract_packet_info(captured) = {Meant(segment)}
    /\ \A n \in 0 .. Len(captured) :
         \A i \in extract_packet_info(SubSeq(captured, 1, n)) :
           /\ [i EXCEPT !.payload_len = 0] = [Meant(segment) EXCEPT !.payload_len = 0]
           /\ i.payload_len <= segment.len

\* A fake's headers next to those of the ACK s: the same addresses, ports and
\* acknowledgment, the flags with PSH, the wrong number, and the identification
\* that follows, also after 65535.
IsCopyOf(r, s) ==
  /\ r.addrs = s.src_addr \o s.dst_addr
  /\ r.ports = ToU16(s.src_port) \o ToU16(s.dst_port)
  /\ r.seq_num = WrongSeq /\ r.ack_num = s.ack_num
  /\ r.flags = BitsOf(s.flags \cup {"psh"})
  /\ r.ident = (s.ident + 1) % 65536

\* On the wire the fake belongs to the connection of the ACK it copies.
FakeCopiesAck == \A r \in read : IsCopyOf(r, segment)

=============================================================================
