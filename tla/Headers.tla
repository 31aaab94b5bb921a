------------------------------- MODULE Headers -------------------------------
(***************************************************************************)
(* The IPv4 and TCP headers as src/src/injector.rs reads and rewrites them *)
(* in the raw bytes WinDivert hands over.  A parser that may return None   *)
(* is a set of at most one result.  Addresses, sequence and acknowledgment *)
(* numbers are the four bytes they occupy: SeqNum.tla has the arithmetic.  *)
(***************************************************************************)
EXTENDS Integers, Sequences

\* data[i], and the n bytes from there.
Octet(data, i) == data[i + 1]
Octets(data, i, n) == SubSeq(data, i + 1, i + n)

Word16(data, i) == 256 * Octet(data, i) + Octet(data, i + 1)

\* u16::to_be_bytes of a number cast to u16.
ToU16(n) == <<(n \div 256) % 256, n % 256>>

HasBit(b, bit) == (b \div bit) % 2 = 1

FlagBits == [fin |-> 1, syn |-> 2, rst |-> 4, psh |-> 8, ack |-> 16]

-----------------------------------------------------------------------------
(* Reading.                                                                *)

parse_ipv4(data) ==
  IF Len(data) < 20 THEN {}
  ELSE LET header_length == (Octet(data, 0) % 16) * 4 IN
       IF /\ Octet(data, 0) \div 16 = 4
          /\ Len(data) >= header_length /\ Octet(data, 9) = 6
         THEN {[src_addr |-> Octets(data, 12, 4), dst_addr |-> Octets(data, 16, 4),
                ident |-> Word16(data, 4), header_length |-> header_length]}
         ELSE {}

ParseTcpMutant(data, start) ==
  IF Len(data) < start + 20 THEN {}
  ELSE LET flags == Octet(data, start + 13) IN
       {[src_port |-> Word16(data, start), dst_port |-> Word16(data, start + 2),
         seq_num |-> Octets(data, start + 4, 4),
         ack_num |-> Octets(data, start + 8, 4), data_offset |-> 20,
         flags |-> {f \in DOMAIN FlagBits : HasBit(flags, FlagBits[f])}]}

parse_tcp(data, start) ==
  IF Len(data) < start + 20 THEN {}
  ELSE LET data_offset == (Octet(data, start + 12) \div 16) * 4
           flags == Octet(data, start + 13) IN
       IF Len(data) < start + data_offset THEN {}
       ELSE {[src_port |-> Word16(data, start), dst_port |-> Word16(data, start + 2),
              seq_num |-> Octets(data, start + 4, 4),
              ack_num |-> Octets(data, start + 8, 4), data_offset |-> data_offset,
              flags |-> {f \in DOMAIN FlagBits : HasBit(flags, FlagBits[f])}]}

\* The payload is what the buffer holds behind the headers, saturating; PSH is
\* parsed and not kept.  is_inbound is not read from the bytes.
PacketInfo(data, ip, tcp) ==
  LET headers == ip.header_length + tcp.data_offset IN
  [flags |-> tcp.flags \ {"psh"}, seq_num |-> tcp.seq_num, ack_num |-> tcp.ack_num,
   payload_len |-> IF Len(data) < headers THEN 0 ELSE Len(data) - headers,
   src_addr |-> ip.src_addr, dst_addr |-> ip.dst_addr,
   src_port |-> tcp.src_port, dst_port |-> tcp.dst_port,
   ip_header_len |-> ip.header_length, tcp_header_len |-> tcp.data_offset]

extract_packet_info(data) ==
  UNION {{PacketInfo(data, ip, tcp) : tcp \in parse_tcp(data, ip.header_length)} :
           ip \in parse_ipv4(data)}

-----------------------------------------------------------------------------
(* Rewriting.                                                              *)

\* data with the given bytes from offset i on.
Overwrite(data, i, bytes) ==
  [j \in DOMAIN data |-> IF j \in i + 1 .. i + Len(bytes) THEN bytes[j - i] ELSE data[j]]

InjectMutant(data, fake_data, seq_bytes) ==
  {LET flags == Octet(data, ip.header_length + 13)
       psh   == IF HasBit(flags, FlagBits.psh) THEN flags ELSE flags + FlagBits.psh
       whole == Overwrite(data, ip.header_length + 13, <<psh>>) \o fake_data
       sized == Overwrite(whole, 2, ToU16(Len(whole)))
       named == Overwrite(sized, 4, ToU16(ip.ident + 1)) IN
   Overwrite(named, 24, seq_bytes) :
     ip \in {i \in parse_ipv4(data) : i.header_length + 13 < Len(data)}}

\* inject_fake_packet up to the checksums: PSH, the payload, total length,
\* identification and sequence number.
inject_fake_packet(data, fake_data, seq_bytes) ==
  {LET flags == Octet(data, ip.header_length + 13)
       psh   == IF HasBit(flags, FlagBits.psh) THEN flags ELSE flags + FlagBits.psh
       whole == Overwrite(data, ip.header_length + 13, <<psh>>) \o fake_data
       sized == Overwrite(whole, 2, ToU16(Len(whole)))
       named == Overwrite(sized, 4, ToU16(ip.ident + 1)) IN
   Overwrite(named, ip.header_length + 4, seq_bytes) :
     ip \in {i \in parse_ipv4(data) : i.header_length + 13 < Len(data)}}

=============================================================================
