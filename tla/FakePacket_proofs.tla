------------------------- MODULE FakePacket_proofs -------------------------
(***************************************************************************)
(* What the injector reads of a packet, what it writes into the copy, and  *)
(* what a reader finds in that: proved for every segment, every wrong      *)
(* sequence number and every name the template has room for.  All of it is *)
(* bookkeeping of positions: Holds says which bytes stand where, and the   *)
(* lemmas say what appending, cutting and overwriting do to that.          *)
(***************************************************************************)
EXTENDS FakePacket, TLAPS, SequenceTheorems

-----------------------------------------------------------------------------
(* Bytes in a buffer.                                                      *)

Bytes == Seq(Nat)

\* Len, under a name the provers do not rewrite into a fact about domains.
Size(d) == Len(d)

\* The buffer d holds the bytes w from offset i on.
Holds(d, i, w) == i + Size(w) <= Size(d) /\ \A j \in 1 .. Size(w) : d[i + j] = w[j]

\* A buffer has a length.
LEMMA SizeNat ==
  ASSUME NEW d \in Bytes
  PROVE  Size(d) \in Nat
  BY LenProperties DEF Bytes, Size

\* What is appended to a buffer stands behind it, and what the buffer held
\* stays where it was.
LEMMA Appended ==
  ASSUME NEW p \in Bytes, NEW m \in Bytes
  PROVE  /\ p \o m \in Bytes /\ Size(p \o m) = Size(p) + Size(m)
         /\ Holds(p \o m, Size(p), m)
         /\ \A i \in Nat : \A w \in Bytes : Holds(p, i, w) => Holds(p \o m, i, w)
<1> USE DEF Size
<1>1. /\ p \o m \in Bytes /\ Len(p \o m) = Len(p) + Len(m)
      /\ \A i \in 1 .. Len(p) + Len(m) :
           (p \o m)[i] = IF i <= Len(p) THEN p[i] ELSE m[i - Len(p)]
  BY ConcatProperties DEF Bytes
<1>2. Len(p) \in Nat /\ Len(m) \in Nat
  BY SizeNat
<1>3. Holds(p \o m, Len(p), m)
  BY <1>1, <1>2 DEF Holds
<1>4. ASSUME NEW i \in Nat, NEW w \in Bytes, Holds(p, i, w)
      PROVE  Holds(p \o m, i, w)
  <2>1. Len(w) \in Nat
    BY SizeNat
  <2>2. \A j \in 1 .. Len(w) : i + j \in 1 .. Len(p)
    BY <1>2, <1>4, <2>1 DEF Holds
  <2>. QED
    BY <1>1, <1>2, <1>4, <2>1, <2>2 DEF Holds
<1>. QED
  BY <1>1, <1>3, <1>4

\* What a buffer holds it holds further on when something is put before it.
LEMMA Prepended ==
  ASSUME NEW p \in Bytes, NEW m \in Bytes, NEW i \in Nat, NEW w \in Bytes,
         Holds(m, i, w)
  PROVE  Holds(p \o m, Size(p) + i, w)
<1> USE DEF Size
<1>1. /\ Len(p \o m) = Len(p) + Len(m)
      /\ \A k \in 1 .. Len(p) + Len(m) :
           (p \o m)[k] = IF k <= Len(p) THEN p[k] ELSE m[k - Len(p)]
  BY ConcatProperties DEF Bytes
<1>2. Len(p) \in Nat /\ Len(m) \in Nat /\ Len(w) \in Nat
  BY SizeNat
<1>3. ASSUME NEW j \in 1 .. Len(w)
      PROVE  (p \o m)[(Len(p) + i) + j] = w[j]
  <2>1. /\ (Len(p) + i) + j \in 1 .. Len(p) + Len(m)
        /\ ~((Len(p) + i) + j <= Len(p)) /\ ((Len(p) + i) + j) - Len(p) = i + j
    BY <1>2 DEF Holds
  <2>. QED
    BY <1>1, <2>1 DEF Holds
<1>. QED
  BY <1>1, <1>2, <1>3 DEF Holds

\* A buffer cut behind some bytes still holds them.
LEMMA Truncated ==
  ASSUME NEW d \in Bytes, NEW n \in 0 .. Size(d)
  PROVE  /\ SubSeq(d, 1, n) \in Bytes /\ Size(SubSeq(d, 1, n)) = n
         /\ \A i \in Nat : \A w \in Bytes :
              Holds(d, i, w) /\ i + Size(w) <= n => Holds(SubSeq(d, 1, n), i, w)
<1> USE DEF Size
<1>0. Len(d) \in Nat
  BY SizeNat
<1>1. \A i \in 1 .. n : d[i] \in Nat
  BY <1>0, ElementOfSeq DEF Bytes
<1>2. /\ SubSeq(d, 1, n) \in Seq(Nat)
      /\ Len(SubSeq(d, 1, n)) = IF 1 <= n THEN n - 1 + 1 ELSE 0
      /\ \A i \in 1 .. n - 1 + 1 : SubSeq(d, 1, n)[i] = d[1 + i - 1]
  BY <1>0, <1>1, SubSeqProperties
<1>3. /\ Len(SubSeq(d, 1, n)) = n
      /\ \A i \in 1 .. n : SubSeq(d, 1, n)[i] = d[i]
  BY <1>0, <1>2
<1>4. ASSUME NEW i \in Nat, NEW w \in Bytes, Holds(d, i, w), i + Len(w) <= n
      PROVE  Holds(SubSeq(d, 1, n), i, w)
  <2>1. Len(w) \in Nat
    BY SizeNat
  <2>2. \A j \in 1 .. Len(w) : i + j \in 1 .. n
    BY <1>0, <1>4, <2>1
  <2>. QED
    BY <1>3, <1>4, <2>2 DEF Holds
<1>. QED
  BY <1>2, <1>3, <1>4 DEF Bytes

\* Reading back what a buffer holds.
LEMMA OctetsHeld ==
  ASSUME NEW d \in Bytes, NEW i \in Nat, NEW w \in Bytes, NEW n \in Nat,
         Holds(d, i, w), Size(w) = n
  PROVE  Octets(d, i, n) = w
<1> USE DEF Size
<1>1. PICK a \in Int : a = i + 1
  OBVIOUS
<1>2. PICK b \in Int : b = i + n
  OBVIOUS
<1>3. Len(d) \in Nat
  BY SizeNat
<1>4. \A k \in a .. b : k \in 1 .. Len(d)
  BY <1>1, <1>2, <1>3 DEF Holds
<1>5. \A k \in a .. b : d[k] \in Nat
  BY <1>4, ElementOfSeq DEF Bytes
<1>6. /\ SubSeq(d, a, b) \in Seq(Nat)
      /\ Len(SubSeq(d, a, b)) = IF a <= b THEN b - a + 1 ELSE 0
      /\ \A k \in 1 .. b - a + 1 : SubSeq(d, a, b)[k] = d[a + k - 1]
  BY <1>5, SubSeqProperties
<1>7. Len(SubSeq(d, a, b)) = Len(w)
  BY <1>1, <1>2, <1>6
<1>8. \A k \in 1 .. Len(w) : SubSeq(d, a, b)[k] = w[k]
  <2>1. SUFFICES ASSUME NEW k \in 1 .. Len(w) PROVE SubSeq(d, a, b)[k] = w[k]
    OBVIOUS
  <2>2. k \in 1 .. b - a + 1 /\ a + k - 1 = i + k
    BY <1>1, <1>2
  <2>. QED
    BY <1>6, <2>2 DEF Holds
<1>9. SubSeq(d, a, b) = w
  BY <1>6, <1>7, <1>8, SeqEqual DEF Bytes
<1>. QED
  BY <1>1, <1>2, <1>9 DEF Octets

\* A 16-bit field is its number again, cut to 16 bits.
LEMMA U16Bytes ==
  ASSUME NEW n \in Nat
  PROVE  /\ ToU16(n) \in Bytes /\ Size(ToU16(n)) = 2 /\ U16(n) = ToU16(n)
         /\ 256 * ToU16(n)[1] + ToU16(n)[2] = n % 65536
<1> USE DEF Size
<1>1. n % 256 \in Nat /\ (n \div 256) % 256 \in Nat
  OBVIOUS
<1>2. ToU16(n) \in Bytes /\ Len(ToU16(n)) = 2 /\ U16(n) = ToU16(n)
  BY <1>1 DEF ToU16, U16, Bytes
<1>3. 256 * ((n \div 256) % 256) + (n % 256) = n % 65536
  OBVIOUS
<1>. QED
  BY <1>2, <1>3 DEF ToU16

\* Reading back a 16-bit field the buffer holds.
LEMMA WordHeld ==
  ASSUME NEW d \in Bytes, NEW i \in Nat, NEW n \in Nat, Holds(d, i, ToU16(n))
  PROVE  Word16(d, i) = n % 65536
<1> USE DEF Size
<1>1. Len(ToU16(n)) = 2 /\ 256 * ToU16(n)[1] + ToU16(n)[2] = n % 65536
  BY U16Bytes
<1>2. d[i + 1] = ToU16(n)[1] /\ d[(i + 1) + 1] = ToU16(n)[2]
  BY <1>1 DEF Holds
<1>. QED
  BY <1>1, <1>2 DEF Word16, Octet

\* Overwriting keeps the length of a buffer, stores the bytes, and leaves what
\* stands before and behind them.
LEMMA Overwritten ==
  ASSUME NEW d \in Bytes, NEW k \in Nat, NEW b \in Bytes, k + Size(b) <= Size(d)
  PROVE  /\ Overwrite(d, k, b) \in Bytes /\ Size(Overwrite(d, k, b)) = Size(d)
         /\ Holds(Overwrite(d, k, b), k, b)
         /\ \A i \in Nat : \A w \in Bytes :
              Holds(d, i, w) /\ (i + Size(w) <= k \/ k + Size(b) <= i)
                => Holds(Overwrite(d, k, b), i, w)
<1> USE DEF Size
<1> DEFINE o == Overwrite(d, k, b)
<1>1. /\ Len(d) \in Nat /\ Len(b) \in Nat /\ DOMAIN d = 1 .. Len(d)
      /\ \A j \in 1 .. Len(d) : d[j] \in Nat
      /\ \A j \in 1 .. Len(b) : b[j] \in Nat
  BY LenProperties, ElementOfSeq DEF Bytes
<1>2. /\ o = [j \in 1 .. Len(d) |-> o[j]]
      /\ \A j \in 1 .. Len(d) :
           o[j] = IF j \in k + 1 .. k + Len(b) THEN b[j - k] ELSE d[j]
  BY <1>1 DEF Overwrite
<1>3. ASSUME NEW j \in 1 .. Len(d) PROVE o[j] \in Nat
  <2>1. CASE j \in k + 1 .. k + Len(b)
    <3>1. j - k \in 1 .. Len(b)
      BY <1>1, <2>1
    <3>. QED
      BY <1>1, <1>2, <2>1, <3>1
  <2>2. CASE ~(j \in k + 1 .. k + Len(b))
    BY <1>1, <1>2, <2>2
  <2>. QED
    BY <2>1, <2>2
<1>4. o \in Bytes /\ Len(o) = Len(d)
  BY <1>1, <1>2, <1>3 DEF Bytes
<1>5. Holds(o, k, b)
  <2>1. SUFFICES ASSUME NEW j \in 1 .. Len(b) PROVE o[k + j] = b[j]
    BY <1>4 DEF Holds
  <2>2. k + j \in 1 .. Len(d) /\ k + j \in k + 1 .. k + Len(b) /\ (k + j) - k = j
    BY <1>1
  <2>. QED
    BY <1>2, <2>2
<1>6. ASSUME NEW i \in Nat, NEW w \in Bytes, Holds(d, i, w),
             i + Len(w) <= k \/ k + Len(b) <= i
      PROVE  Holds(o, i, w)
  <2>1. Len(w) \in Nat
    BY SizeNat
  <2>2. SUFFICES ASSUME NEW j \in 1 .. Len(w) PROVE o[i + j] = w[j]
    BY <1>4, <1>6 DEF Holds
  <2>3. i + j \in 1 .. Len(d) /\ ~(i + j \in k + 1 .. k + Len(b))
    BY <1>1, <1>6, <2>1 DEF Holds
  <2>. QED
    BY <1>2, <1>6, <2>3 DEF Holds
<1>. QED
  BY <1>4, <1>5, <1>6

-----------------------------------------------------------------------------
(* The bytes of a segment.                                                 *)

\* An address or a sequence number takes four bytes of a buffer.
LEMMA FourBytesAreBytes ==
  ASSUME NEW w \in FourBytes
  PROVE  w \in Bytes /\ Size(w) = 4
<1> USE DEF Size
<1>1. w = [i \in 1 .. 4 |-> w[i]] /\ \A i \in 1 .. 4 : w[i] \in Nat
  BY DEF FourBytes
<1>. QED
  BY <1>1 DEF Bytes

\* The widths of the fields of a segment, in numbers.
LEMMA SegmentFields ==
  ASSUME NEW s \in Segment
  PROVE  /\ s.ihl \in 5 .. 15 /\ s.doff \in 5 .. 15 /\ s.ident \in Nat /\ s.ident < 65536
         /\ s.flags \in SUBSET Flags /\ s.len \in Nat
         /\ s.src_port \in Nat /\ s.src_port < 65536
         /\ s.dst_port \in Nat /\ s.dst_port < 65536
         /\ s.src_addr \in FourBytes /\ s.dst_addr \in FourBytes
         /\ s.seq_num \in FourBytes /\ s.ack_num \in FourBytes
<1>1. /\ s.ihl \in HeaderWords /\ s.doff \in HeaderWords /\ s.ident \in TwoBytes
      /\ s.flags \in SUBSET Flags /\ s.len \in Nat
      /\ s.src_port \in TwoBytes /\ s.dst_port \in TwoBytes
      /\ s.src_addr \in FourBytes /\ s.dst_addr \in FourBytes
      /\ s.seq_num \in FourBytes /\ s.ack_num \in FourBytes
  BY DEF Segment
<1>2. \A n \in TwoBytes : n \in Nat /\ n < 65536
  BY DEF TwoBytes
<1>3. s.ihl \in 5 .. 15 /\ s.doff \in 5 .. 15
  BY <1>1 DEF HeaderWords
<1>. QED
  BY <1>1, <1>2, <1>3

\* Padding and options are as long as they are asked to be.
LEMMA FillersAreBytes ==
  /\ \A n \in Nat : Zeros(n) \in Bytes /\ Size(Zeros(n)) = n
  /\ \A n \in 5 .. 15 : Options(n) \in Bytes /\ Size(Options(n)) = 4 * (n - 5)
<1> USE DEF Size
<1>1. ASSUME NEW n \in Nat PROVE Zeros(n) \in Bytes /\ Len(Zeros(n)) = n
  BY DEF Zeros, Bytes
<1>2. ASSUME NEW n \in 5 .. 15 PROVE Options(n) \in Bytes /\ Len(Options(n)) = 4 * (n - 5)
  <2>1. PICK k \in Nat : k = 4 * (n - 5)
    OBVIOUS
  <2>2. Options(n) = [i \in 1 .. k |-> 1]
    BY <2>1 DEF Options
  <2>3. [i \in 1 .. k |-> 1] \in Seq(Nat) /\ Len([i \in 1 .. k |-> 1]) = k
    OBVIOUS
  <2>. QED
    BY <2>1, <2>2, <2>3 DEF Bytes
<1>. QED
  BY <1>1, <1>2

\* The flag byte keeps the flags apart, and PSH can be added to it.
LEMMA FlagBytes ==
  ASSUME NEW flags \in SUBSET Flags
  PROVE  /\ BitsOf(flags) \in 0 .. 31
         /\ {f \in Flags : HasBit(BitsOf(flags), FlagBits[f])} = flags
         /\ HasBit(BitsOf(flags), FlagBits.psh) <=> "psh" \in flags
         /\ "psh" \notin flags =>
              BitsOf(flags \cup {"psh"}) = BitsOf(flags) + FlagBits.psh
  BY DEF FlagBits, Flags, HasBit, BitsOf

\* The fixed part of a TCP header behind the two numbers.
TcpMiddle(s) == <<16 * s.doff, BitsOf(s.flags), 113, 16, 0, 0, 0, 0>>

TcpPart(s) ==
  ToU16(s.src_port) \o ToU16(s.dst_port) \o s.seq_num \o s.ack_num
    \o TcpMiddle(s) \o Options(s.doff) \o Zeros(s.len)

\* The fields of a TCP header that starts at byte i.
TcpFields(d, i, s) ==
  /\ Holds(d, i, ToU16(s.src_port)) /\ Holds(d, i + 2, ToU16(s.dst_port))
  /\ Holds(d, i + 4, s.seq_num) /\ Holds(d, i + 8, s.ack_num)
  /\ Holds(d, i + 12, TcpMiddle(s))

\* The fields of a TCP header stand at their offsets before any options.
LEMMA TcpBytes ==
  ASSUME NEW s \in Segment
  PROVE  /\ TcpPart(s) \in Bytes /\ Size(TcpPart(s)) = 4 * s.doff + s.len
         /\ TcpFields(TcpPart(s), 0, s) /\ TcpMiddle(s) \in Bytes /\ Size(TcpMiddle(s)) = 8
<1> DEFINE u == ToU16(s.src_port)
           v == ToU16(s.dst_port)
           t == TcpMiddle(s)
           p2 == u \o v
           p3 == p2 \o s.seq_num
           p4 == p3 \o s.ack_num
           p5 == p4 \o t
           p6 == p5 \o Options(s.doff)
           p7 == p6 \o Zeros(s.len)
<1>0. /\ s.doff \in 5 .. 15 /\ s.len \in Nat /\ s.flags \in SUBSET Flags
      /\ s.src_port \in Nat /\ s.dst_port \in Nat
      /\ s.seq_num \in FourBytes /\ s.ack_num \in FourBytes
  BY SegmentFields
<1>1. u \in Bytes /\ Size(u) = 2 /\ v \in Bytes /\ Size(v) = 2
  BY <1>0, U16Bytes
<1>2. /\ s.seq_num \in Bytes /\ Size(s.seq_num) = 4
      /\ s.ack_num \in Bytes /\ Size(s.ack_num) = 4
  BY <1>0, FourBytesAreBytes
<1>3. t \in Bytes /\ Size(t) = 8
  <2>1. BitsOf(s.flags) \in 0 .. 31
    BY <1>0, FlagBytes
  <2>2. BitsOf(s.flags) \in Nat /\ 16 * s.doff \in Nat
    BY <1>0, <2>1
  <2>. QED
    BY <2>2 DEF TcpMiddle, Bytes, Size
<1>4. /\ Options(s.doff) \in Bytes /\ Size(Options(s.doff)) = 4 * (s.doff - 5)
      /\ Zeros(s.len) \in Bytes /\ Size(Zeros(s.len)) = s.len
  BY <1>0, FillersAreBytes
<1> DEFINE w3 == s.seq_num
           w4 == s.ack_num
           w6 == Options(s.doff)
           w7 == Zeros(s.len)
<1>5. Holds(u, 0, u)
  BY <1>1 DEF Holds
<1>10. TcpPart(s) = p7
  BY DEF TcpPart
<1> HIDE DEF u, v, t, w3, w4, w6, w7
<1>6. /\ p2 \in Bytes /\ Size(p2) = 4 /\ Holds(p2, 0, u) /\ Holds(p2, 2, v)
  BY <1>1, <1>5, Appended
<1> HIDE DEF p2
<1>7. /\ p3 \in Bytes /\ Size(p3) = 8 /\ Holds(p3, 0, u) /\ Holds(p3, 2, v)
      /\ Holds(p3, 4, s.seq_num)
  BY <1>1, <1>2, <1>6, Appended
<1> HIDE DEF p3
<1>8. /\ p4 \in Bytes /\ Size(p4) = 12 /\ Holds(p4, 0, u) /\ Holds(p4, 2, v)
      /\ Holds(p4, 4, s.seq_num) /\ Holds(p4, 8, s.ack_num)
  BY <1>1, <1>2, <1>7, Appended
<1> HIDE DEF p4
<1>9. /\ p5 \in Bytes /\ Size(p5) = 20 /\ Holds(p5, 0, u) /\ Holds(p5, 2, v)
      /\ Holds(p5, 4, s.seq_num) /\ Holds(p5, 8, s.ack_num) /\ Holds(p5, 12, t)
  BY <1>1, <1>2, <1>3, <1>8, Appended
<1> HIDE DEF p5
<1>11. /\ p6 \in Bytes /\ Size(p6) = 4 * s.doff /\ Holds(p6, 0, u) /\ Holds(p6, 2, v)
       /\ Holds(p6, 4, s.seq_num) /\ Holds(p6, 8, s.ack_num) /\ Holds(p6, 12, t)
  BY <1>0, <1>1, <1>2, <1>3, <1>4, <1>9, Appended
<1> HIDE DEF p6
<1>12. /\ p7 \in Bytes /\ Size(p7) = 4 * s.doff + s.len /\ Holds(p7, 0, u)
       /\ Holds(p7, 2, v) /\ Holds(p7, 4, s.seq_num) /\ Holds(p7, 8, s.ack_num)
       /\ Holds(p7, 12, t)
  BY <1>0, <1>1, <1>2, <1>3, <1>4, <1>11, Appended
<1>. QED
  BY <1>3, <1>10, <1>12 DEF TcpFields, u, v, t

\* The fields of an IPv4 header at the start of a packet.
IpStart(s)  == <<64 + s.ihl, 0>>
IpMiddle(s) == <<64, 0, 64, 6, 0, 0>>

IpFields(d, s) ==
  /\ Holds(d, 0, IpStart(s)) /\ Holds(d, 4, ToU16(s.ident)) /\ Holds(d, 6, IpMiddle(s))
  /\ Holds(d, 12, s.src_addr) /\ Holds(d, 16, s.dst_addr)

\* The constant pieces of an IPv4 header.
LEMMA IpPieces ==
  ASSUME NEW s \in Segment
  PROVE  /\ IpStart(s) \in Bytes /\ Size(IpStart(s)) = 2
         /\ IpMiddle(s) \in Bytes /\ Size(IpMiddle(s)) = 6
<1>1. 64 + s.ihl \in Nat
  BY SegmentFields
<1>. QED
  BY <1>1 DEF IpStart, IpMiddle, Bytes, Size

\* A header of so many words and the bytes behind it have a length.
LEMMA WordsAndBytes ==
  ASSUME NEW m \in 5 .. 15, NEW n \in Nat
  PROVE  4 * m + n \in Nat
  OBVIOUS

\* Every field stands where its RFC has it, whatever options precede it.
LEMMA WrittenBytes ==
  ASSUME NEW s \in Segment
  PROVE  /\ Written(s) \in Bytes
         /\ Size(Written(s)) = 4 * s.ihl + 4 * s.doff + s.len
         /\ IpFields(Written(s), s) /\ TcpFields(Written(s), 4 * s.ihl, s)
<1> DEFINE a  == IpStart(s)
           w  == ToU16(4 * s.ihl + Len(TcpPart(s)))
           v  == ToU16(s.ident)
           t  == IpMiddle(s)
           q  == TcpPart(s)
           p2 == a \o w
           p3 == p2 \o v
           p4 == p3 \o t
           p5 == p4 \o s.src_addr
           p6 == p5 \o s.dst_addr
           p7 == p6 \o Options(s.ihl)
           p8 == p7 \o q
<1>0. /\ s.ihl \in 5 .. 15 /\ s.doff \in 5 .. 15 /\ s.len \in Nat /\ s.ident \in Nat
      /\ s.src_addr \in FourBytes /\ s.dst_addr \in FourBytes
      /\ s.src_port \in Nat /\ s.dst_port \in Nat
      /\ s.seq_num \in FourBytes /\ s.ack_num \in FourBytes
  BY SegmentFields
<1>1. a \in Bytes /\ Size(a) = 2 /\ t \in Bytes /\ Size(t) = 6
  BY IpPieces
<1>2. /\ q \in Bytes /\ Size(q) = 4 * s.doff + s.len /\ TcpFields(q, 0, s)
      /\ TcpMiddle(s) \in Bytes
  BY TcpBytes
<1>3. w \in Bytes /\ Size(w) = 2 /\ v \in Bytes /\ Size(v) = 2
  <2>1. Len(q) \in Nat
    BY <1>2, SizeNat DEF Size
  <2>2. PICK n \in Nat : n = Len(q)
    BY <2>1, Zenon
  <2>3. w = ToU16(4 * s.ihl + n)
    BY <2>2, Zenon
  <2>4. 4 * s.ihl + n \in Nat
    BY <1>0, WordsAndBytes
  <2> HIDE DEF w, v
  <2>5. w \in Bytes /\ Size(w) = 2
    BY <2>3, <2>4, U16Bytes
  <2>6. v \in Bytes /\ Size(v) = 2
    BY <1>0, U16Bytes DEF v
  <2>. QED
    BY <2>5, <2>6
<1>4. /\ s.src_addr \in Bytes /\ Size(s.src_addr) = 4
      /\ s.dst_addr \in Bytes /\ Size(s.dst_addr) = 4
      /\ s.seq_num \in Bytes /\ s.ack_num \in Bytes
      /\ ToU16(s.src_port) \in Bytes /\ ToU16(s.dst_port) \in Bytes
  BY <1>0, FourBytesAreBytes, U16Bytes
<1>5. Options(s.ihl) \in Bytes /\ Size(Options(s.ihl)) = 4 * (s.ihl - 5)
  BY <1>0, FillersAreBytes
<1>6. Holds(a, 0, a)
  BY <1>1 DEF Holds
<1>7. Written(s) = p8
  BY DEF Written, TcpPart, TcpMiddle, IpStart, IpMiddle
<1> HIDE DEF a, w, v, t, q
<1>8. p2 \in Bytes /\ Size(p2) = 4 /\ Holds(p2, 0, a)
  BY <1>1, <1>3, <1>6, Appended
<1> HIDE DEF p2
<1>9. p3 \in Bytes /\ Size(p3) = 6 /\ Holds(p3, 0, a) /\ Holds(p3, 4, v)
  BY <1>1, <1>3, <1>8, Appended
<1> HIDE DEF p3
<1>10. /\ p4 \in Bytes /\ Size(p4) = 12 /\ Holds(p4, 0, a) /\ Holds(p4, 4, v)
       /\ Holds(p4, 6, t)
  BY <1>1, <1>3, <1>9, Appended
<1> HIDE DEF p4
<1>11. /\ p5 \in Bytes /\ Size(p5) = 16 /\ Holds(p5, 0, a) /\ Holds(p5, 4, v)
       /\ Holds(p5, 6, t) /\ Holds(p5, 12, s.src_addr)
  BY <1>1, <1>3, <1>4, <1>10, Appended
<1> HIDE DEF p5
<1>12. /\ p6 \in Bytes /\ Size(p6) = 20 /\ Holds(p6, 0, a) /\ Holds(p6, 4, v)
       /\ Holds(p6, 6, t) /\ Holds(p6, 12, s.src_addr) /\ Holds(p6, 16, s.dst_addr)
  BY <1>1, <1>3, <1>4, <1>11, Appended
<1> HIDE DEF p6
<1>13. /\ p7 \in Bytes /\ Size(p7) = 4 * s.ihl /\ Holds(p7, 0, a) /\ Holds(p7, 4, v)
       /\ Holds(p7, 6, t) /\ Holds(p7, 12, s.src_addr) /\ Holds(p7, 16, s.dst_addr)
  BY <1>0, <1>1, <1>3, <1>4, <1>5, <1>12, Appended
<1> HIDE DEF p7
<1>14. /\ p8 \in Bytes /\ Size(p8) = 4 * s.ihl + (4 * s.doff + s.len)
       /\ Holds(p8, 0, a) /\ Holds(p8, 4, v) /\ Holds(p8, 6, t)
       /\ Holds(p8, 12, s.src_addr) /\ Holds(p8, 16, s.dst_addr)
  BY <1>0, <1>1, <1>2, <1>3, <1>4, <1>13, Appended
<1>15. TcpFields(p8, 4 * s.ihl, s)
  <2> DEFINE u == ToU16(s.src_port)
             x == ToU16(s.dst_port)
             m == TcpMiddle(s)
  <2>1. /\ Holds(q, 0, u) /\ Holds(q, 2, x) /\ Holds(q, 4, s.seq_num)
        /\ Holds(q, 8, s.ack_num) /\ Holds(q, 12, m)
    BY <1>2 DEF TcpFields
  <2>2. u \in Bytes /\ x \in Bytes /\ m \in Bytes
    BY <1>2, <1>4
  <2> HIDE DEF u, x, m
  <2>3. \A i \in Nat : \A b \in Bytes : Holds(q, i, b) => Holds(p8, Size(p7) + i, b)
    BY <1>2, <1>13, Prepended
  <2>4. /\ Holds(p8, 4 * s.ihl + 0, u) /\ Holds(p8, 4 * s.ihl + 2, x)
        /\ Holds(p8, 4 * s.ihl + 4, s.seq_num) /\ Holds(p8, 4 * s.ihl + 8, s.ack_num)
        /\ Holds(p8, 4 * s.ihl + 12, m)
    BY <1>4, <1>13, <2>1, <2>2, <2>3
  <2>5. 4 * s.ihl + 0 = 4 * s.ihl
    BY <1>0
  <2>. QED
    BY <2>4, <2>5 DEF TcpFields, u, x, m
<1>16. 4 * s.ihl + (4 * s.doff + s.len) = 4 * s.ihl + 4 * s.doff + s.len
  BY <1>0
<1>. QED
  BY <1>7, <1>14, <1>15, <1>16 DEF IpFields, a, v, t

-----------------------------------------------------------------------------
(* Reading a segment back.                                                 *)

\* Reading back the fields of an IPv4 header.
LEMMA IpBytes ==
  ASSUME NEW s \in Segment, NEW d \in Bytes, IpFields(d, s)
  PROVE  /\ Octet(d, 0) = 64 + s.ihl /\ Octet(d, 9) = 6 /\ Word16(d, 4) = s.ident
         /\ Octets(d, 12, 4) = s.src_addr /\ Octets(d, 16, 4) = s.dst_addr
<1>0. /\ s.ident \in Nat /\ s.ident < 65536
      /\ s.src_addr \in FourBytes /\ s.dst_addr \in FourBytes
  BY SegmentFields
<1>1. d[0 + 1] = IpStart(s)[1]
  BY IpPieces DEF IpFields, Holds
<1>2. d[6 + 4] = IpMiddle(s)[4]
  BY IpPieces DEF IpFields, Holds
<1>3. Octet(d, 0) = 64 + s.ihl /\ Octet(d, 9) = 6
  BY <1>1, <1>2 DEF Octet, IpStart, IpMiddle
<1>4. Word16(d, 4) = s.ident % 65536
  BY <1>0, WordHeld DEF IpFields
<1>5. s.ident % 65536 = s.ident
  BY <1>0
<1>6. Octets(d, 12, 4) = s.src_addr /\ Octets(d, 16, 4) = s.dst_addr
  <2>1. /\ s.src_addr \in Bytes /\ Size(s.src_addr) = 4
        /\ s.dst_addr \in Bytes /\ Size(s.dst_addr) = 4
    BY <1>0, FourBytesAreBytes
  <2>. QED
    BY <2>1, OctetsHeld DEF IpFields
<1>. QED
  BY <1>3, <1>4, <1>5, <1>6

IpHeader(s) ==
  [src_addr |-> s.src_addr, dst_addr |-> s.dst_addr, ident |-> s.ident,
   header_length |-> 4 * s.ihl]

\* parse_ipv4 finds the header once all of it is there, and nothing before.
LEMMA Ipv4Parsed ==
  ASSUME NEW s \in Segment, NEW d \in Bytes, Size(d) >= 20 => IpFields(d, s)
  PROVE  parse_ipv4(d) = IF Size(d) >= 4 * s.ihl THEN {IpHeader(s)} ELSE {}
<1>0. s.ihl \in 5 .. 15 /\ Size(d) \in Nat
  BY SegmentFields, SizeNat
<1>1. CASE Size(d) < 20
  <2>1. ~(Size(d) >= 4 * s.ihl)
    BY <1>0, <1>1
  <2>. QED
    BY <1>1, <2>1 DEF parse_ipv4, Size
<1>2. CASE ~(Size(d) < 20)
  <2>1. IpFields(d, s)
    BY <1>0, <1>2
  <2>2. /\ Octet(d, 0) = 64 + s.ihl /\ Octet(d, 9) = 6 /\ Word16(d, 4) = s.ident
        /\ Octets(d, 12, 4) = s.src_addr /\ Octets(d, 16, 4) = s.dst_addr
    BY <2>1, IpBytes
  <2>3. (64 + s.ihl) \div 16 = 4 /\ ((64 + s.ihl) % 16) * 4 = 4 * s.ihl
    BY <1>0
  <2>4. Octet(d, 0) \div 16 = 4 /\ (Octet(d, 0) % 16) * 4 = 4 * s.ihl
    BY <2>2, <2>3
  <2>5. parse_ipv4(d) =
          IF Octet(d, 0) \div 16 = 4 /\ Size(d) >= 4 * s.ihl /\ Octet(d, 9) = 6
            THEN {[src_addr |-> Octets(d, 12, 4), dst_addr |-> Octets(d, 16, 4),
                   ident |-> Word16(d, 4), header_length |-> 4 * s.ihl]}
            ELSE {}
    BY <1>2, <2>4 DEF parse_ipv4, Size
  <2>. QED
    BY <2>2, <2>4, <2>5 DEF IpHeader
<1>. QED
  BY <1>1, <1>2

\* Reading back the fields of a TCP header that starts at byte i.
LEMMA TcpFieldBytes ==
  ASSUME NEW s \in Segment, NEW d \in Bytes, NEW i \in Nat, TcpFields(d, i, s)
  PROVE  /\ Word16(d, i) = s.src_port /\ Word16(d, i + 2) = s.dst_port
         /\ Octets(d, i + 4, 4) = s.seq_num /\ Octets(d, i + 8, 4) = s.ack_num
         /\ Octet(d, i + 12) = 16 * s.doff /\ Octet(d, i + 13) = BitsOf(s.flags)
<1>0. /\ s.src_port \in Nat /\ s.src_port < 65536
      /\ s.dst_port \in Nat /\ s.dst_port < 65536
      /\ s.seq_num \in FourBytes /\ s.ack_num \in FourBytes
  BY SegmentFields
<1>1. TcpMiddle(s) \in Bytes /\ Size(TcpMiddle(s)) = 8
  BY TcpBytes
<1>2. d[(i + 12) + 1] = TcpMiddle(s)[1] /\ d[(i + 12) + 2] = TcpMiddle(s)[2]
  BY <1>1 DEF TcpFields, Holds
<1>3. (i + 12) + 2 = (i + 13) + 1
  OBVIOUS
<1>4. Octet(d, i + 12) = 16 * s.doff /\ Octet(d, i + 13) = BitsOf(s.flags)
  BY <1>2, <1>3 DEF Octet, TcpMiddle
<1>5. Word16(d, i) = s.src_port % 65536 /\ Word16(d, i + 2) = s.dst_port % 65536
  BY <1>0, WordHeld DEF TcpFields
<1>6. s.src_port % 65536 = s.src_port /\ s.dst_port % 65536 = s.dst_port
  BY <1>0
<1>7. Octets(d, i + 4, 4) = s.seq_num /\ Octets(d, i + 8, 4) = s.ack_num
  <2>1. /\ s.seq_num \in Bytes /\ Size(s.seq_num) = 4
        /\ s.ack_num \in Bytes /\ Size(s.ack_num) = 4
    BY <1>0, FourBytesAreBytes
  <2>. QED
    BY <2>1, OctetsHeld DEF TcpFields
<1>. QED
  BY <1>4, <1>5, <1>6, <1>7

TcpHeader(s) ==
  [src_port |-> s.src_port, dst_port |-> s.dst_port, seq_num |-> s.seq_num,
   ack_num |-> s.ack_num, data_offset |-> 4 * s.doff, flags |-> s.flags]

\* parse_tcp finds the header once all of it is there, and nothing before.
LEMMA TcpParsed ==
  ASSUME NEW s \in Segment, NEW d \in Bytes, NEW i \in Nat,
         Size(d) >= i + 20 => TcpFields(d, i, s)
  PROVE  parse_tcp(d, i) = IF Size(d) >= i + 4 * s.doff THEN {TcpHeader(s)} ELSE {}
<1>0. s.doff \in 5 .. 15 /\ Size(d) \in Nat /\ s.flags \in SUBSET Flags
  BY SegmentFields, SizeNat
<1>1. CASE Size(d) < i + 20
  <2>1. ~(Size(d) >= i + 4 * s.doff)
    BY <1>0, <1>1
  <2>. QED
    BY <1>1, <2>1 DEF parse_tcp, Size
<1>2. CASE ~(Size(d) < i + 20)
  <2>1. TcpFields(d, i, s)
    BY <1>0, <1>2
  <2>2. /\ Word16(d, i) = s.src_port /\ Word16(d, i + 2) = s.dst_port
        /\ Octets(d, i + 4, 4) = s.seq_num /\ Octets(d, i + 8, 4) = s.ack_num
        /\ Octet(d, i + 12) = 16 * s.doff /\ Octet(d, i + 13) = BitsOf(s.flags)
    BY <2>1, TcpFieldBytes
  <2>3. ((16 * s.doff) \div 16) * 4 = 4 * s.doff
    BY <1>0
  <2>4. (Octet(d, i + 12) \div 16) * 4 = 4 * s.doff
    BY <2>2, <2>3
  <2>5. {f \in Flags : HasBit(Octet(d, i + 13), FlagBits[f])} = s.flags
    BY <1>0, <2>2, FlagBytes
  <2>6. parse_tcp(d, i) =
          IF Size(d) < i + 4 * s.doff THEN {}
          ELSE {[src_port |-> Word16(d, i), dst_port |-> Word16(d, i + 2),
                 seq_num |-> Octets(d, i + 4, 4), ack_num |-> Octets(d, i + 8, 4),
                 data_offset |-> 4 * s.doff,
                 flags |-> {f \in Flags : HasBit(Octet(d, i + 13), FlagBits[f])}]}
    BY <1>2, <2>4 DEF parse_tcp, Size, Flags
  <2>7. Size(d) < i + 4 * s.doff <=> ~(Size(d) >= i + 4 * s.doff)
    BY <1>0
  <2>. QED
    BY <2>2, <2>5, <2>6, <2>7 DEF TcpHeader
<1>. QED
  BY <1>0, <1>1, <1>2

\* What was meant, with n bytes of payload.
MeantWith(s, n) ==
  [flags |-> s.flags \ {"psh"}, seq_num |-> s.seq_num, ack_num |-> s.ack_num,
   payload_len |-> n, src_addr |-> s.src_addr, dst_addr |-> s.dst_addr,
   src_port |-> s.src_port, dst_port |-> s.dst_port,
   ip_header_len |-> 4 * s.ihl, tcp_header_len |-> 4 * s.doff]

\* What two readings of a segment differ in is the length of its payload.
LEMMA MeantFields ==
  ASSUME NEW s, NEW n
  PROVE  /\ MeantWith(s, s.len) = Meant(s)
         /\ [MeantWith(s, n) EXCEPT !.payload_len = 0] = MeantWith(s, 0)
         /\ [Meant(s) EXCEPT !.payload_len = 0] = MeantWith(s, 0)
         /\ MeantWith(s, n).payload_len = n /\ MeantWith(s, n).flags = s.flags \ {"psh"}
<1>1. MeantWith(s, s.len) = Meant(s)
  BY DEF MeantWith, Meant
<1>2. [MeantWith(s, n) EXCEPT !.payload_len = 0] = MeantWith(s, 0)
  BY DEF MeantWith
<1>3. [Meant(s) EXCEPT !.payload_len = 0] = MeantWith(s, 0)
  BY DEF Meant, MeantWith
<1>4. MeantWith(s, n).payload_len = n /\ MeantWith(s, n).flags = s.flags \ {"psh"}
  BY DEF MeantWith
<1>. QED
  BY <1>1, <1>2, <1>3, <1>4

\* What the injector makes of the first bytes of a segment, however few.
LEMMA Extracted ==
  ASSUME NEW s \in Segment, NEW d \in Bytes,
         Size(d) >= 20 => IpFields(d, s),
         Size(d) >= 4 * s.ihl + 20 => TcpFields(d, 4 * s.ihl, s)
  PROVE  extract_packet_info(d) =
           IF Size(d) >= 4 * s.ihl + 4 * s.doff
             THEN {MeantWith(s, Size(d) - (4 * s.ihl + 4 * s.doff))}
             ELSE {}
<1> DEFINE L == 4 * s.ihl
           D == 4 * s.doff
<1>0. L \in Nat /\ D \in Nat /\ Size(d) \in Nat
  BY SegmentFields, SizeNat
<1>1. parse_ipv4(d) = IF Size(d) >= L THEN {IpHeader(s)} ELSE {}
  BY Ipv4Parsed
<1>2. parse_tcp(d, L) = IF Size(d) >= L + D THEN {TcpHeader(s)} ELSE {}
  BY <1>0, TcpParsed
<1>3. IpHeader(s).header_length = L
  BY DEF IpHeader
<1>4. CASE ~(Size(d) >= L)
  <2>1. ~(Size(d) >= L + D)
    BY <1>0, <1>4
  <2>. QED
    BY <1>1, <1>4, <2>1 DEF extract_packet_info
<1>5. CASE Size(d) >= L
  <2>1. extract_packet_info(d) =
          {PacketInfo(d, IpHeader(s), tcp) : tcp \in parse_tcp(d, L)}
    BY <1>1, <1>3, <1>5 DEF extract_packet_info
  <2>2. CASE ~(Size(d) >= L + D)
    BY <1>2, <2>1, <2>2
  <2>3. CASE Size(d) >= L + D
    <3>1. extract_packet_info(d) = {PacketInfo(d, IpHeader(s), TcpHeader(s))}
      BY <1>2, <2>1, <2>3
    <3>2. ~(Size(d) < L + D)
      BY <1>0, <2>3
    <3>3. PacketInfo(d, IpHeader(s), TcpHeader(s)) =
            MeantWith(s, Size(d) - (L + D))
      BY <3>2 DEF PacketInfo, IpHeader, TcpHeader, MeantWith, Size
    <3>. QED
      BY <2>3, <3>1, <3>3
  <2>. QED
    BY <2>2, <2>3
<1>. QED
  BY <1>4, <1>5

\* The injector sees what was sent, and of a truncated packet nothing else.
LEMMA SentIsSeen ==
  ASSUME NEW s \in Segment
  PROVE  /\ extract_packet_info(Written(s)) = {Meant(s)}
         /\ \A n \in 0 .. Len(Written(s)) :
              \A i \in extract_packet_info(SubSeq(Written(s), 1, n)) :
                /\ [i EXCEPT !.payload_len = 0] = [Meant(s) EXCEPT !.payload_len = 0]
                /\ i.payload_len <= s.len
<1> DEFINE c == Written(s)
           H == 4 * s.ihl + 4 * s.doff
<1>0. s.ihl \in 5 .. 15 /\ s.doff \in 5 .. 15 /\ H \in Nat /\ s.len \in Nat
  BY SegmentFields
<1>1. /\ c \in Bytes /\ Size(c) = 4 * s.ihl + 4 * s.doff + s.len
      /\ IpFields(c, s) /\ TcpFields(c, 4 * s.ihl, s)
  BY WrittenBytes
<1> HIDE DEF c
<1>2. Size(c) >= H /\ Size(c) - H = s.len
  BY <1>0, <1>1
<1>3. extract_packet_info(c) = {Meant(s)}
  BY <1>1, <1>2, Extracted, MeantFields
<1>4. ASSUME NEW n \in 0 .. Size(c),
             NEW i \in extract_packet_info(SubSeq(c, 1, n))
      PROVE  /\ [i EXCEPT !.payload_len = 0] = [Meant(s) EXCEPT !.payload_len = 0]
             /\ i.payload_len <= s.len
  <2> DEFINE d == SubSeq(c, 1, n)
  <2>1. /\ d \in Bytes /\ Size(d) = n
        /\ \A k \in Nat : \A w \in Bytes :
             Holds(c, k, w) /\ k + Size(w) <= n => Holds(d, k, w)
    BY <1>1, Truncated
  <2> HIDE DEF d
  <2>2. n >= 20 => IpFields(d, s)
    <3>1. /\ IpStart(s) \in Bytes /\ Size(IpStart(s)) = 2
          /\ IpMiddle(s) \in Bytes /\ Size(IpMiddle(s)) = 6
      BY IpPieces
    <3>2. ToU16(s.ident) \in Bytes /\ Size(ToU16(s.ident)) = 2
      BY SegmentFields, U16Bytes
    <3>3. /\ s.src_addr \in Bytes /\ Size(s.src_addr) = 4
          /\ s.dst_addr \in Bytes /\ Size(s.dst_addr) = 4
      BY SegmentFields, FourBytesAreBytes
    <3>4. n \in Nat
      BY <1>1, SizeNat
    <3>. QED
      BY <1>1, <2>1, <3>1, <3>2, <3>3, <3>4 DEF IpFields
  <2>3. n >= 4 * s.ihl + 20 => TcpFields(d, 4 * s.ihl, s)
    <3>1. TcpMiddle(s) \in Bytes /\ Size(TcpMiddle(s)) = 8
      BY TcpBytes
    <3>2. /\ ToU16(s.src_port) \in Bytes /\ Size(ToU16(s.src_port)) = 2
          /\ ToU16(s.dst_port) \in Bytes /\ Size(ToU16(s.dst_port)) = 2
      BY SegmentFields, U16Bytes
    <3>3. /\ s.seq_num \in Bytes /\ Size(s.seq_num) = 4
          /\ s.ack_num \in Bytes /\ Size(s.ack_num) = 4
      BY SegmentFields, FourBytesAreBytes
    <3>4. n \in Nat
      BY <1>1, SizeNat
    <3>. QED
      BY <1>0, <1>1, <2>1, <3>1, <3>2, <3>3, <3>4 DEF TcpFields
  <2>4. n >= H /\ i = MeantWith(s, n - H)
    <3>1. extract_packet_info(d) = IF n >= H THEN {MeantWith(s, n - H)} ELSE {}
      BY <2>1, <2>2, <2>3, Extracted
    <3>. QED
      BY <1>4, <3>1 DEF d
  <2>5. n - H <= s.len
    BY <1>0, <1>2, <1>1, SizeNat
  <2>. QED
    BY <2>4, <2>5, MeantFields
<1>. QED
  BY <1>3, <1>4 DEF c, Size

-----------------------------------------------------------------------------
(* The fake packet.                                                        *)

\* Bytes that stand one behind the other.
LEMMA Adjacent ==
  ASSUME NEW d \in Bytes, NEW i \in Nat, NEW a \in Bytes, NEW b \in Bytes,
         Holds(d, i, a), Holds(d, i + Size(a), b)
  PROVE  Holds(d, i, a \o b)
<1> USE DEF Size
<1>1. /\ Len(a \o b) = Len(a) + Len(b)
      /\ \A j \in 1 .. Len(a) + Len(b) :
           (a \o b)[j] = IF j <= Len(a) THEN a[j] ELSE b[j - Len(a)]
  BY ConcatProperties DEF Bytes
<1>2. Len(a) \in Nat /\ Len(b) \in Nat /\ Len(d) \in Nat
  BY SizeNat
<1>3. ASSUME NEW j \in 1 .. Len(a) + Len(b) PROVE d[i + j] = (a \o b)[j]
  <2>1. CASE j <= Len(a)
    BY <1>1, <1>2, <2>1 DEF Holds
  <2>2. CASE ~(j <= Len(a))
    <3>1. PICK k \in 1 .. Len(b) : k = j - Len(a)
      BY <1>2, <2>2
    <3>2. d[(i + Len(a)) + k] = b[k]
      BY <3>1 DEF Holds
    <3>3. (i + Len(a)) + k = i + j
      BY <1>2, <3>1
    <3>. QED
      BY <1>1, <2>2, <3>1, <3>2, <3>3
  <2>. QED
    BY <2>1, <2>2
<1>4. i + (Len(a) + Len(b)) <= Len(d)
  BY <1>2 DEF Holds
<1>. QED
  BY <1>1, <1>3, <1>4 DEF Holds

\* A single byte as a piece of a buffer.
LEMMA OneByte ==
  ASSUME NEW b \in Nat
  PROVE  <<b>> \in Bytes /\ Size(<<b>>) = 1
  BY DEF Bytes, Size

\* Reading back a single byte the buffer holds.
LEMMA ByteHeld ==
  ASSUME NEW d \in Bytes, NEW i \in Nat, NEW b \in Nat, Holds(d, i, <<b>>)
  PROVE  Octet(d, i) = b
<1>1. Size(<<b>>) = 1 /\ <<b>>[1] = b
  BY OneByte
<1>. QED
  BY <1>1 DEF Holds, Octet

\* What a fake packet f has of the ACK for s it copies, and of its own: the
\* bytes h behind the headers, number, flags, identification and total length.
FakeFields(f, s, h, number) ==
  /\ f \in Bytes /\ Size(f) = 4 * s.ihl + 4 * s.doff + s.len + Size(h)
  /\ Holds(f, 0, IpStart(s)) /\ Holds(f, 2, ToU16(Size(f)))
  /\ Holds(f, 4, ToU16(s.ident + 1))
  /\ Holds(f, 12, s.src_addr) /\ Holds(f, 16, s.dst_addr)
  /\ Holds(f, 4 * s.ihl, ToU16(s.src_port)) /\ Holds(f, 4 * s.ihl + 2, ToU16(s.dst_port))
  /\ Holds(f, 4 * s.ihl + 4, number) /\ Holds(f, 4 * s.ihl + 8, s.ack_num)
  /\ Holds(f, 4 * s.ihl + 12, <<16 * s.doff>>)
  /\ Holds(f, 4 * s.ihl + 13, <<BitsOf(s.flags \cup {"psh"})>>)
  /\ Holds(f, 4 * s.ihl + 4 * s.doff + s.len, h)

\* inject_fake_packet copies the captured packet and changes exactly that.
LEMMA Injected ==
  ASSUME NEW s \in Segment, NEW h \in Bytes, NEW number \in FourBytes,
         NEW f \in inject_fake_packet(Written(s), h, number)
  PROVE  FakeFields(f, s, h, number)
<1> DEFINE c     == Written(s)
           L     == 4 * s.ihl
           psh   == BitsOf(s.flags \cup {"psh"})
           first == Overwrite(c, L + 13, <<psh>>)
           whole == first \o h
           sized == Overwrite(whole, 2, ToU16(Size(whole)))
           named == Overwrite(sized, 4, ToU16(s.ident + 1))
           last  == Overwrite(named, L + 4, number)
           e     == IpStart(s)
           u     == ToU16(s.src_port)
           v     == ToU16(s.dst_port)
           x     == <<16 * s.doff>>
           y     == <<psh>>
<1>0. /\ s.ihl \in 5 .. 15 /\ s.doff \in 5 .. 15 /\ s.len \in Nat /\ s.ident \in Nat
      /\ L \in Nat /\ s.flags \in SUBSET Flags
  BY SegmentFields
<1>1. /\ c \in Bytes /\ Size(c) = 4 * s.ihl + 4 * s.doff + s.len
      /\ IpFields(c, s) /\ TcpFields(c, L, s)
  BY WrittenBytes
<1>2. /\ u \in Bytes /\ Size(u) = 2 /\ v \in Bytes /\ Size(v) = 2
      /\ e \in Bytes /\ Size(e) = 2
  BY SegmentFields, U16Bytes, IpPieces
<1>3. /\ s.src_addr \in Bytes /\ Size(s.src_addr) = 4
      /\ s.dst_addr \in Bytes /\ Size(s.dst_addr) = 4
      /\ s.seq_num \in Bytes /\ Size(s.seq_num) = 4
      /\ s.ack_num \in Bytes /\ Size(s.ack_num) = 4
      /\ number \in Bytes /\ Size(number) = 4
  BY SegmentFields, FourBytesAreBytes
<1>4. /\ psh \in Nat
      /\ psh = IF HasBit(BitsOf(s.flags), FlagBits.psh) THEN BitsOf(s.flags)
               ELSE BitsOf(s.flags) + FlagBits.psh
  <2>1. s.flags \cup {"psh"} \in SUBSET Flags
    BY <1>0 DEF Flags, FlagBits
  <2>2. BitsOf(s.flags \cup {"psh"}) \in 0 .. 31
    BY <2>1, FlagBytes
  <2>3. HasBit(BitsOf(s.flags), FlagBits.psh) <=> "psh" \in s.flags
    BY <1>0, FlagBytes
  <2>4. CASE "psh" \in s.flags
    <3>1. s.flags \cup {"psh"} = s.flags
      BY <2>4
    <3>2. psh = BitsOf(s.flags)
      BY <3>1
    <3>3. psh \in Nat
      BY <2>2
    <3>. QED
      BY <2>3, <2>4, <3>2, <3>3
  <2>5. CASE "psh" \notin s.flags
    <3>1. psh = BitsOf(s.flags) + FlagBits.psh
      BY <1>0, <2>5, FlagBytes
    <3>. QED
      BY <2>2, <2>3, <2>5, <3>1
  <2>. QED
    BY <2>4, <2>5
<1>5. x \in Bytes /\ Size(x) = 1 /\ y \in Bytes /\ Size(y) = 1
  BY <1>0, <1>4, OneByte
<1>6. f = last
  <2>1. parse_ipv4(c) = {IpHeader(s)}
    <3>1. Size(c) >= L
      BY <1>0, <1>1
    <3>. QED
      BY <1>1, <3>1, Ipv4Parsed
  <2>2. IpHeader(s).header_length = L /\ IpHeader(s).ident = s.ident
    BY DEF IpHeader
  <2>3. Octet(c, L + 13) = BitsOf(s.flags)
    BY <1>0, <1>1, TcpFieldBytes
  <2>4. Len(whole) = Size(whole)
    BY DEF Size
  <2> HIDE DEF c, L, psh
  <2>5. first = Overwrite(c, L + 13,
                  <<IF HasBit(Octet(c, L + 13), FlagBits.psh) THEN Octet(c, L + 13)
                      ELSE Octet(c, L + 13) + FlagBits.psh>>)
    BY <1>4, <2>3
  <2> HIDE DEF first
  <2>6. \A ip \in parse_ipv4(c) : ip.header_length = L /\ ip.ident = s.ident
    BY <2>1, <2>2
  <2>7. inject_fake_packet(c, h, number) \subseteq {last}
    BY <2>4, <2>5, <2>6 DEF inject_fake_packet
  <2>. QED
    BY <2>7 DEF c
<1>7. Holds(c, L + 12, x)
  <2>1. TcpMiddle(s) \in Bytes /\ Size(TcpMiddle(s)) = 8 /\ TcpMiddle(s)[1] = 16 * s.doff
    BY TcpBytes DEF TcpMiddle
  <2>2. Holds(c, L + 12, TcpMiddle(s))
    BY <1>1 DEF TcpFields
  <2>3. 1 \in 1 .. Size(TcpMiddle(s)) /\ x[1] = 16 * s.doff
    BY <2>1
  <2>4. c[(L + 12) + 1] = 16 * s.doff /\ (L + 12) + 8 <= Size(c)
    BY <2>1, <2>2, <2>3 DEF Holds
  <2> HIDE DEF c, L, x
  <2>5. (L + 12) + 1 <= Size(c)
    BY <1>0, <1>1, <2>4
  <2>. QED
    BY <1>5, <2>3, <2>4, <2>5 DEF Holds
<1>8. /\ Holds(c, 0, e) /\ Holds(c, 12, s.src_addr) /\ Holds(c, 16, s.dst_addr)
      /\ Holds(c, L, u) /\ Holds(c, L + 2, v) /\ Holds(c, L + 8, s.ack_num)
  BY <1>1 DEF IpFields, TcpFields
<1>9. PICK N \in Nat : N = Size(c) /\ N = L + 4 * s.doff + s.len
  BY <1>0, <1>1
<1>10. L >= 20 /\ L + 20 <= N
  BY <1>0, <1>9
<1>11. ToU16(s.ident + 1) \in Bytes /\ Size(ToU16(s.ident + 1)) = 2
  BY <1>0, U16Bytes
<1> DEFINE z == ToU16(s.ident + 1)
<1> HIDE DEF c, L, psh, e, u, v, x, y, z
<1>12. /\ first \in Bytes /\ Size(first) = N /\ Holds(first, L + 13, y)
       /\ Holds(first, 0, e) /\ Holds(first, 12, s.src_addr)
       /\ Holds(first, 16, s.dst_addr) /\ Holds(first, L, u) /\ Holds(first, L + 2, v)
       /\ Holds(first, L + 8, s.ack_num) /\ Holds(first, L + 12, x)
  <2>1. /\ Overwrite(c, L + 13, y) \in Bytes /\ Size(Overwrite(c, L + 13, y)) = Size(c)
        /\ Holds(Overwrite(c, L + 13, y), L + 13, y)
        /\ \A i \in Nat : \A w \in Bytes :
             Holds(c, i, w) /\ (i + Size(w) <= L + 13 \/ L + 13 + Size(y) <= i)
               => Holds(Overwrite(c, L + 13, y), i, w)
    BY <1>0, <1>1, <1>5, <1>9, <1>10, Overwritten
  <2>2. first = Overwrite(c, L + 13, y)
    BY DEF y
  <2> HIDE DEF first
  <2>. QED
    BY <1>0, <1>2, <1>3, <1>5, <1>7, <1>8, <1>9, <1>10, <2>1, <2>2
<1> HIDE DEF first
<1>13. PICK M \in Nat : M = Size(h)
  BY SizeNat
<1>14. /\ whole \in Bytes /\ Size(whole) = N + M /\ Holds(whole, N, h)
       /\ Holds(whole, L + 13, y)
       /\ Holds(whole, 0, e) /\ Holds(whole, 12, s.src_addr)
       /\ Holds(whole, 16, s.dst_addr) /\ Holds(whole, L, u) /\ Holds(whole, L + 2, v)
       /\ Holds(whole, L + 8, s.ack_num) /\ Holds(whole, L + 12, x)
  BY <1>0, <1>2, <1>3, <1>5, <1>12, <1>13, Appended
<1> HIDE DEF whole
<1> DEFINE t == ToU16(Size(whole))
<1>15. t \in Bytes /\ Size(t) = 2
  BY <1>14, U16Bytes
<1> HIDE DEF t
<1>16. sized = Overwrite(whole, 2, t)
  BY DEF t
<1> HIDE DEF sized
<1>17. /\ sized \in Bytes /\ Size(sized) = N + M /\ Holds(sized, N, h)
       /\ Holds(sized, L + 13, y) /\ Holds(sized, 2, t)
       /\ Holds(sized, 0, e) /\ Holds(sized, 12, s.src_addr)
       /\ Holds(sized, 16, s.dst_addr) /\ Holds(sized, L, u) /\ Holds(sized, L + 2, v)
       /\ Holds(sized, L + 8, s.ack_num) /\ Holds(sized, L + 12, x)
  BY <1>0, <1>2, <1>3, <1>5, <1>10, <1>14, <1>15, <1>16, Overwritten
<1>18. named = Overwrite(sized, 4, z)
  BY DEF z
<1> HIDE DEF named
<1>19. /\ named \in Bytes /\ Size(named) = N + M /\ Holds(named, N, h)
       /\ Holds(named, L + 13, y) /\ Holds(named, 2, t) /\ Holds(named, 4, z)
       /\ Holds(named, 0, e) /\ Holds(named, 12, s.src_addr)
       /\ Holds(named, 16, s.dst_addr) /\ Holds(named, L, u) /\ Holds(named, L + 2, v)
       /\ Holds(named, L + 8, s.ack_num) /\ Holds(named, L + 12, x)
  BY <1>0, <1>2, <1>3, <1>5, <1>10, <1>11, <1>15, <1>17, <1>18, Overwritten DEF z
<1>20. /\ last \in Bytes /\ Size(last) = N + M /\ Holds(last, N, h)
       /\ Holds(last, L + 13, y) /\ Holds(last, 2, t) /\ Holds(last, 4, z)
       /\ Holds(last, 0, e) /\ Holds(last, 12, s.src_addr)
       /\ Holds(last, 16, s.dst_addr) /\ Holds(last, L, u) /\ Holds(last, L + 2, v)
       /\ Holds(last, L + 8, s.ack_num) /\ Holds(last, L + 12, x)
       /\ Holds(last, L + 4, number)
  BY <1>0, <1>2, <1>3, <1>5, <1>10, <1>11, <1>15, <1>19, Overwritten DEF z
<1>. QED
  BY <1>6, <1>9, <1>13, <1>14, <1>20 DEF FakeFields, e, u, v, x, y, z, t, L, psh

\* What the reader understands of the fake packet for s.
FakeRecord(s, number) ==
  [addrs |-> s.src_addr \o s.dst_addr,
   ports |-> ToU16(s.src_port) \o ToU16(s.dst_port),
   seq_num |-> number, ack_num |-> s.ack_num,
   flags |-> BitsOf(s.flags \cup {"psh"}), ident |-> (s.ident + 1) % 65536]

\* What the reader takes from a fake packet, and where it finds the hello.
LEMMA FakeRead ==
  ASSUME NEW s \in Segment, NEW h \in Bytes, NEW number \in FourBytes, NEW f,
         FakeFields(f, s, h, number), s.len = 0
  PROVE  /\ 4 * (Octet(f, 0) % 16) = 4 * s.ihl
         /\ 4 * (Octet(f, 4 * s.ihl + 12) \div 16) = 4 * s.doff
         /\ SubSeq(f, (4 * s.ihl + 4 * s.doff) + 1, Len(f)) = h
         /\ [addrs |-> Octets(f, 12, 8), ports |-> Octets(f, 4 * s.ihl, 4),
             seq_num |-> Octets(f, 4 * s.ihl + 4, 4),
             ack_num |-> Octets(f, 4 * s.ihl + 8, 4),
             flags |-> Octet(f, 4 * s.ihl + 13), ident |-> Word16(f, 4)]
              = FakeRecord(s, number)
<1> DEFINE L == 4 * s.ihl
           u == ToU16(s.src_port)
           v == ToU16(s.dst_port)
<1>0. /\ s.ihl \in 5 .. 15 /\ s.doff \in 5 .. 15 /\ s.ident \in Nat
      /\ L \in Nat /\ s.flags \in SUBSET Flags /\ f \in Bytes
  BY SegmentFields DEF FakeFields
<1>1. /\ s.src_addr \in Bytes /\ Size(s.src_addr) = 4
      /\ s.dst_addr \in Bytes /\ Size(s.dst_addr) = 4
      /\ s.ack_num \in Bytes /\ Size(s.ack_num) = 4
      /\ number \in Bytes /\ Size(number) = 4
  BY SegmentFields, FourBytesAreBytes
<1>2. u \in Bytes /\ Size(u) = 2 /\ v \in Bytes /\ Size(v) = 2
  BY SegmentFields, U16Bytes
<1>3. 4 * (Octet(f, 0) % 16) = L
  <2>1. f[0 + 1] = IpStart(s)[1]
    BY IpPieces DEF FakeFields, Holds
  <2>2. Octet(f, 0) = 64 + s.ihl
    BY <2>1 DEF Octet, IpStart
  <2>3. 4 * ((64 + s.ihl) % 16) = 4 * s.ihl
    BY <1>0
  <2>. QED
    BY <2>2, <2>3
<1>4. 4 * (Octet(f, L + 12) \div 16) = 4 * s.doff
  <2>1. Octet(f, L + 12) = 16 * s.doff
    BY <1>0, ByteHeld DEF FakeFields
  <2>2. 4 * ((16 * s.doff) \div 16) = 4 * s.doff
    BY <1>0
  <2>. QED
    BY <2>1, <2>2
<1>6. SubSeq(f, (L + 4 * s.doff) + 1, Len(f)) = h
  <2>1. PICK k \in Nat : k = L + 4 * s.doff
    BY <1>0
  <2>2. PICK n \in Nat : n = Size(h)
    BY SizeNat
  <2>3. Holds(f, k, h) /\ Len(f) = k + n
    BY <1>0, <2>1, <2>2 DEF FakeFields, Size
  <2>4. Octets(f, k, n) = h
    BY <1>0, <2>2, <2>3, OctetsHeld
  <2>. QED
    BY <2>1, <2>3, <2>4 DEF Octets
<1>7. Octets(f, 12, 8) = s.src_addr \o s.dst_addr
  <2>1. Holds(f, 12, s.src_addr \o s.dst_addr)
    BY <1>0, <1>1, Adjacent DEF FakeFields
  <2>2. s.src_addr \o s.dst_addr \in Bytes /\ Size(s.src_addr \o s.dst_addr) = 8
    BY <1>1, Appended
  <2>. QED
    BY <1>0, <2>1, <2>2, OctetsHeld
<1>8. Octets(f, L, 4) = u \o v
  <2>1. Holds(f, L, u \o v)
    BY <1>0, <1>2, Adjacent DEF FakeFields
  <2>2. u \o v \in Bytes /\ Size(u \o v) = 4
    BY <1>2, Appended
  <2>. QED
    BY <1>0, <2>1, <2>2, OctetsHeld
<1>9. Octets(f, L + 4, 4) = number /\ Octets(f, L + 8, 4) = s.ack_num
  BY <1>0, <1>1, OctetsHeld DEF FakeFields
<1>10. Octet(f, L + 13) = BitsOf(s.flags \cup {"psh"})
  <2>1. BitsOf(s.flags \cup {"psh"}) \in 0 .. 31
    <3>1. s.flags \cup {"psh"} \in SUBSET Flags
      BY <1>0 DEF Flags, FlagBits
    <3>. QED
      BY <3>1, FlagBytes
  <2>2. PICK b \in Nat : b = BitsOf(s.flags \cup {"psh"})
    BY <2>1
  <2>3. Holds(f, L + 13, <<b>>)
    BY <2>2 DEF FakeFields
  <2>4. Octet(f, L + 13) = b
    BY <1>0, <2>3, ByteHeld
  <2>. QED
    BY <2>2, <2>4
<1>11. Word16(f, 4) = (s.ident + 1) % 65536
  BY <1>0, WordHeld DEF FakeFields
<1>12. [addrs |-> Octets(f, 12, 8), ports |-> Octets(f, L, 4),
        seq_num |-> Octets(f, L + 4, 4), ack_num |-> Octets(f, L + 8, 4),
        flags |-> Octet(f, L + 13), ident |-> Word16(f, 4)] = FakeRecord(s, number)
  <2> DEFINE o == Octets(f, 12, 8)
             p == Octets(f, L, 4)
             q == Octets(f, L + 4, 4)
             r == Octets(f, L + 8, 4)
             g == Octet(f, L + 13)
             i == Word16(f, 4)
             a == s.src_addr \o s.dst_addr
             b == u \o v
             k == BitsOf(s.flags \cup {"psh"})
             j == (s.ident + 1) % 65536
  <2>1. o = a
    BY <1>7
  <2>2. p = b
    BY <1>8
  <2>3. q = number /\ r = s.ack_num
    BY <1>9
  <2>4. g = k
    BY <1>10
  <2>5. i = j
    BY <1>11
  <2>6. FakeRecord(s, number) = [addrs |-> a, ports |-> b, seq_num |-> number,
                                 ack_num |-> s.ack_num, flags |-> k, ident |-> j]
    BY DEF FakeRecord
  <2> HIDE DEF o, p, q, r, g, i, a, b, k, j
  <2>7. [addrs |-> o, ports |-> p, seq_num |-> q, ack_num |-> r, flags |-> g, ident |-> i]
          = FakeRecord(s, number)
    BY <2>1, <2>2, <2>3, <2>4, <2>5, <2>6
  <2>. QED
    BY <2>7 DEF o, p, q, r, g, i
<1>. QED
  BY <1>3, <1>4, <1>6, <1>12

-----------------------------------------------------------------------------
(* The ClientHello.                                                        *)

\* The lengths of the static parts of the template.
LEMMA TemplateBytes ==
  /\ Static1 \in Bytes /\ Size(Static1) = 11
  /\ Static3 \in Bytes /\ Size(Static3) = 44
  /\ Static4 \in Bytes /\ Size(Static4) = 135
  /\ <<32>> \in Bytes /\ Size(<<32>>) = 1
  /\ <<0>> \in Bytes /\ Size(<<0>>) = 1
  /\ <<0, 21>> \in Bytes /\ Size(<<0, 21>>) = 2
<1>1. Static1 \in Bytes /\ Size(Static1) = 11
  BY DEF Static1, Bytes, Size
<1>2. Static3 \in Bytes /\ Size(Static3) = 44
  BY DEF Static3, Bytes, Size
<1>3. Static4 \in Bytes
  BY DEF Static4, Bytes
<1>4. Size(Static4) = 135
  BY DEF Static4, Size
<1>5. /\ <<32>> \in Bytes /\ Size(<<32>>) = 1
      /\ <<0>> \in Bytes /\ Size(<<0>>) = 1
      /\ <<0, 21>> \in Bytes /\ Size(<<0, 21>>) = 2
  BY DEF Bytes, Size
<1>. QED
  BY <1>1, <1>2, <1>3, <1>4, <1>5

\* The server name extension counts the name three times over.
LEMMA NameBytes ==
  ASSUME NEW n \in Nat
  PROVE  /\ ServerNameExt(n) \in Bytes /\ Size(ServerNameExt(n)) = 7 + n
         /\ Holds(ServerNameExt(n), 0, ToU16(n + 5))
         /\ Holds(ServerNameExt(n), 2, ToU16(n + 3))
         /\ Holds(ServerNameExt(n), 4, <<0>>) /\ Holds(ServerNameExt(n), 5, ToU16(n))
<1> DEFINE a  == ToU16(n + 5)
           b  == ToU16(n + 3)
           c  == <<0>>
           e  == ToU16(n)
           z  == Zeros(n)
           p2 == a \o b
           p3 == p2 \o c
           p4 == p3 \o e
           p5 == p4 \o z
<1>1. /\ a \in Bytes /\ Size(a) = 2 /\ b \in Bytes /\ Size(b) = 2
      /\ e \in Bytes /\ Size(e) = 2
  BY U16Bytes
<1>2. c \in Bytes /\ Size(c) = 1 /\ z \in Bytes /\ Size(z) = n
  BY TemplateBytes, FillersAreBytes
<1>3. ServerNameExt(n) = p5
  BY DEF ServerNameExt, U16, ToU16
<1>4. Holds(a, 0, a)
  BY <1>1 DEF Holds
<1> HIDE DEF a, b, c, e, z
<1>5. p2 \in Bytes /\ Size(p2) = 4 /\ Holds(p2, 0, a) /\ Holds(p2, 2, b)
  BY <1>1, <1>4, Appended
<1> HIDE DEF p2
<1>6. p3 \in Bytes /\ Size(p3) = 5 /\ Holds(p3, 0, a) /\ Holds(p3, 2, b) /\ Holds(p3, 4, c)
  BY <1>1, <1>2, <1>5, Appended
<1> HIDE DEF p3
<1>7. /\ p4 \in Bytes /\ Size(p4) = 7 /\ Holds(p4, 0, a) /\ Holds(p4, 2, b)
      /\ Holds(p4, 4, c) /\ Holds(p4, 5, e)
  BY <1>1, <1>2, <1>6, Appended
<1> HIDE DEF p4
<1>8. /\ p5 \in Bytes /\ Size(p5) = 7 + n /\ Holds(p5, 0, a) /\ Holds(p5, 2, b)
      /\ Holds(p5, 4, c) /\ Holds(p5, 5, e)
  BY <1>1, <1>2, <1>7, Appended
<1>. QED
  BY <1>3, <1>8 DEF a, b, c, e

\* The template's parts stand where the lengths in them say, and the padding
\* makes up for the name as long as there is room for it.
LEMMA HelloBytes ==
  ASSUME NEW n \in Nat
  PROVE  /\ build_client_hello(n) \in Bytes
         /\ n \in 0 .. 219 => Size(build_client_hello(n)) = 517
         /\ Holds(build_client_hello(n), 0, Static1)
         /\ Holds(build_client_hello(n), 43, <<32>>)
         /\ Holds(build_client_hello(n), 76, Static3)
         /\ Holds(build_client_hello(n), 120, ServerNameExt(n))
         /\ Holds(build_client_hello(n), 127 + n, Static4)
<1> DEFINE z   == Zeros(32)
           a   == Static1
           b   == <<32>>
           c   == Static3
           e   == ServerNameExt(n)
           g   == Static4
           m   == PaddingLength(n)
           i   == <<0, 21>>
           j   == PaddingExt(n)
           p2  == a \o z
           p3  == p2 \o b
           p4  == p3 \o z
           p5  == p4 \o c
           p6  == p5 \o e
           p7  == p6 \o g
           p8  == p7 \o z
           p9  == p8 \o i
           p10 == p9 \o j
<1>1. /\ a \in Bytes /\ Size(a) = 11 /\ b \in Bytes /\ Size(b) = 1
      /\ c \in Bytes /\ Size(c) = 44 /\ g \in Bytes /\ Size(g) = 135
      /\ i \in Bytes /\ Size(i) = 2 /\ z \in Bytes /\ Size(z) = 32
  BY TemplateBytes, FillersAreBytes
<1>2. e \in Bytes /\ Size(e) = 7 + n
  BY NameBytes
<1>3. m \in Nat /\ (n \in 0 .. 219 => m = 219 - n)
  BY DEF PaddingLength
<1>4. j \in Bytes /\ Size(j) = 2 + m
  <2> HIDE DEF m
  <2>1. /\ ToU16(m) \in Bytes /\ Size(ToU16(m)) = 2 /\ U16(m) = ToU16(m)
        /\ Zeros(m) \in Bytes /\ Size(Zeros(m)) = m
    BY <1>3, U16Bytes, FillersAreBytes
  <2>2. j = ToU16(m) \o Zeros(m)
    BY <2>1 DEF PaddingExt, m
  <2> HIDE DEF j
  <2>. QED
    BY <1>3, <2>1, <2>2, Appended
<1>5. build_client_hello(n) = p10
  BY DEF build_client_hello
<1>6. Holds(a, 0, a)
  BY <1>1 DEF Holds
<1> HIDE DEF z, a, b, c, e, g, m, i, j
<1>7. p2 \in Bytes /\ Size(p2) = 43 /\ Holds(p2, 0, a)
  BY <1>1, <1>6, Appended
<1> HIDE DEF p2
<1>8. p3 \in Bytes /\ Size(p3) = 44 /\ Holds(p3, 0, a) /\ Holds(p3, 43, b)
  BY <1>1, <1>7, Appended
<1> HIDE DEF p3
<1>9. p4 \in Bytes /\ Size(p4) = 76 /\ Holds(p4, 0, a) /\ Holds(p4, 43, b)
  BY <1>1, <1>8, Appended
<1> HIDE DEF p4
<1>10. /\ p5 \in Bytes /\ Size(p5) = 120 /\ Holds(p5, 0, a) /\ Holds(p5, 43, b)
       /\ Holds(p5, 76, c)
  BY <1>1, <1>9, Appended
<1> HIDE DEF p5
<1>11. /\ p6 \in Bytes /\ Size(p6) = 127 + n /\ Holds(p6, 0, a) /\ Holds(p6, 43, b)
       /\ Holds(p6, 76, c) /\ Holds(p6, 120, e)
  BY <1>1, <1>2, <1>10, Appended
<1> HIDE DEF p6
<1>12. /\ p7 \in Bytes /\ Size(p7) = 262 + n /\ Holds(p7, 0, a) /\ Holds(p7, 43, b)
       /\ Holds(p7, 76, c) /\ Holds(p7, 120, e) /\ Holds(p7, 127 + n, g)
  BY <1>1, <1>2, <1>11, Appended
<1> HIDE DEF p7
<1>13. /\ p8 \in Bytes /\ Size(p8) = 294 + n /\ Holds(p8, 0, a) /\ Holds(p8, 43, b)
       /\ Holds(p8, 76, c) /\ Holds(p8, 120, e) /\ Holds(p8, 127 + n, g)
  BY <1>1, <1>2, <1>12, Appended
<1> HIDE DEF p8
<1>14. /\ p9 \in Bytes /\ Size(p9) = 296 + n /\ Holds(p9, 0, a) /\ Holds(p9, 43, b)
       /\ Holds(p9, 76, c) /\ Holds(p9, 120, e) /\ Holds(p9, 127 + n, g)
  BY <1>1, <1>2, <1>13, Appended
<1> HIDE DEF p9
<1>15. /\ p10 \in Bytes /\ Size(p10) = 298 + n + m /\ Holds(p10, 0, a)
       /\ Holds(p10, 43, b) /\ Holds(p10, 76, c) /\ Holds(p10, 120, e)
       /\ Holds(p10, 127 + n, g)
  BY <1>1, <1>2, <1>3, <1>4, <1>14, Appended
<1>16. n \in 0 .. 219 => Size(p10) = 517
  BY <1>3, <1>15
<1>. QED
  BY <1>5, <1>15, <1>16 DEF a, b, c, e, g

\* The lengths and types of the record, the handshake and the extensions up to
\* the name.
LEMMA HelloFields ==
  ASSUME NEW n \in Nat, NEW h, h = build_client_hello(n)
  PROVE  /\ Octet(h, 0) = 22 /\ Word16(h, 3) = 512
         /\ Octet(h, 5) = 1 /\ Octet(h, 6) = 0 /\ Word16(h, 7) = 508
         /\ Octet(h, 43) = 32 /\ Word16(h, 76) = 36 /\ Octet(h, 114) = 1
         /\ Word16(h, 116) = 399 /\ Word16(h, 118) = 0
<1>1. /\ h \in Bytes /\ Holds(h, 0, Static1) /\ Holds(h, 43, <<32>>)
      /\ Holds(h, 76, Static3)
  BY HelloBytes
<1>2. /\ Static1 \in Bytes /\ Size(Static1) = 11 /\ Static3 \in Bytes /\ Size(Static3) = 44
      /\ <<32>> \in Bytes /\ Size(<<32>>) = 1
  BY TemplateBytes
<1>3. /\ h[0 + 1] = Static1[1] /\ h[0 + 4] = Static1[4] /\ h[0 + 5] = Static1[5]
      /\ h[0 + 6] = Static1[6] /\ h[0 + 7] = Static1[7] /\ h[0 + 8] = Static1[8]
      /\ h[0 + 9] = Static1[9]
  BY <1>1, <1>2 DEF Holds
<1>4. /\ h[76 + 1] = Static3[1] /\ h[76 + 2] = Static3[2] /\ h[76 + 39] = Static3[39]
      /\ h[76 + 41] = Static3[41] /\ h[76 + 42] = Static3[42]
      /\ h[76 + 43] = Static3[43] /\ h[76 + 44] = Static3[44]
  BY <1>1, <1>2 DEF Holds
<1>5. h[43 + 1] = <<32>>[1]
  BY <1>1, <1>2 DEF Holds
<1>6. /\ Static1[1] = 22 /\ Static1[4] = 2 /\ Static1[5] = 0 /\ Static1[6] = 1
      /\ Static1[7] = 0 /\ Static1[8] = 1 /\ Static1[9] = 252
  BY DEF Static1
<1>7. /\ Static3[1] = 0 /\ Static3[2] = 36 /\ Static3[39] = 1 /\ Static3[41] = 1
      /\ Static3[42] = 143 /\ Static3[43] = 0 /\ Static3[44] = 0
  BY DEF Static3
<1>. QED
  BY <1>3, <1>4, <1>5, <1>6, <1>7 DEF Octet, Word16

\* The fields that count the name, and the extensions behind it.
LEMMA NameFields ==
  ASSUME NEW n \in 0 .. 219, NEW h, h = build_client_hello(n)
  PROVE  /\ Word16(h, 120) = n + 5 /\ Word16(h, 122) = n + 3
         /\ Octet(h, 124) = 0 /\ Word16(h, 125) = n
<1>0. n \in Nat
  OBVIOUS
<1>1. h \in Bytes /\ Holds(h, 120, ServerNameExt(n))
  BY <1>0, HelloBytes
<1> DEFINE e == ServerNameExt(n)
<1>2. /\ e \in Bytes /\ Size(e) = 7 + n /\ Holds(e, 0, ToU16(n + 5))
      /\ Holds(e, 2, ToU16(n + 3)) /\ Holds(e, 4, <<0>>) /\ Holds(e, 5, ToU16(n))
  BY <1>0, NameBytes
<1> HIDE DEF e
<1>3. /\ h[120 + 1] = e[1] /\ h[120 + 2] = e[2] /\ h[120 + 3] = e[3]
      /\ h[120 + 4] = e[4] /\ h[120 + 5] = e[5] /\ h[120 + 6] = e[6] /\ h[120 + 7] = e[7]
  <2>1. \A j \in 1 .. 7 + n : h[120 + j] = e[j]
    BY <1>1, <1>2 DEF Holds, e
  <2>. QED
    BY <1>0, <2>1
<1>4. /\ Word16(e, 0) = (n + 5) % 65536 /\ Word16(e, 2) = (n + 3) % 65536
      /\ Octet(e, 4) = 0 /\ Word16(e, 5) = n % 65536
  BY <1>0, <1>2, WordHeld, ByteHeld
<1>5. /\ Word16(e, 0) = n + 5 /\ Word16(e, 2) = n + 3
      /\ Octet(e, 4) = 0 /\ Word16(e, 5) = n
  BY <1>4
<1>. QED
  BY <1>3, <1>5 DEF Word16, Octet

\* Where the extensions behind the name start, counted from its end at byte
\* 127 + sni.
Stops == {0, 8, 34, 38, 56, 60, 64}

\* Types and lengths behind the name: none is a server_name but one, and that
\* one's length, out of the template's shifted bytes, is 3328.
LengthAt(k) ==
  IF k = 0 THEN 4 ELSE IF k = 8 THEN 22 ELSE IF k = 38 THEN 14
  ELSE IF k = 64 THEN 3328 ELSE 0

\* At every stop but the last stands an extension that is not a name.
LEMMA StopFields ==
  ASSUME NEW n \in Nat, NEW h, h = build_client_hello(n), NEW k \in Stops
  PROVE  /\ Word16(h, 127 + n + k + 2) = LengthAt(k)
         /\ k # 64 => Word16(h, 127 + n + k) # 0
<1>1. h \in Bytes /\ Holds(h, 127 + n, Static4)
  BY HelloBytes
<1>2. Static4 \in Bytes /\ Size(Static4) = 135
  BY TemplateBytes
<1>3. k \in Nat /\ k <= 64
  BY DEF Stops
<1>4. /\ h[(127 + n) + (k + 1)] = Static4[k + 1] /\ h[(127 + n) + (k + 2)] = Static4[k + 2]
      /\ h[(127 + n) + (k + 3)] = Static4[k + 3] /\ h[(127 + n) + (k + 4)] = Static4[k + 4]
  <2>1. \A j \in 1 .. 135 : h[(127 + n) + j] = Static4[j]
    BY <1>1, <1>2 DEF Holds
  <2>2. \A j \in Nat : j >= 1 /\ j <= 135 => h[(127 + n) + j] = Static4[j]
    BY <2>1
  <2>. QED
    BY <1>3, <2>2
<1>5. /\ Word16(h, 127 + n + k) = 256 * Static4[k + 1] + Static4[k + 2]
      /\ Word16(h, 127 + n + k + 2) = 256 * Static4[k + 3] + Static4[k + 4]
  <2>1. /\ (127 + n) + (k + 1) = (127 + n + k) + 1
        /\ (127 + n) + (k + 2) = (127 + n + k + 1) + 1
        /\ (127 + n) + (k + 3) = (127 + n + k + 2) + 1
        /\ (127 + n) + (k + 4) = (127 + n + k + 2 + 1) + 1
    BY <1>3
  <2>. QED
    BY <1>4, <2>1 DEF Word16, Octet
<1>6. /\ 256 * Static4[k + 3] + Static4[k + 4] = LengthAt(k)
      /\ k # 64 => 256 * Static4[k + 1] + Static4[k + 2] # 0
  <2>1. /\ Static4[1] = 0 /\ Static4[2] = 11 /\ Static4[3] = 0 /\ Static4[4] = 4
        /\ Static4[9] = 0 /\ Static4[10] = 10 /\ Static4[11] = 0 /\ Static4[12] = 22
        /\ Static4[35] = 0 /\ Static4[36] = 35 /\ Static4[37] = 0 /\ Static4[38] = 0
        /\ Static4[39] = 0 /\ Static4[40] = 16 /\ Static4[41] = 0 /\ Static4[42] = 14
    BY DEF Static4
  <2>2. /\ Static4[57] = 0 /\ Static4[58] = 22 /\ Static4[59] = 0 /\ Static4[60] = 0
        /\ Static4[61] = 0 /\ Static4[62] = 23 /\ Static4[63] = 0 /\ Static4[64] = 0
        /\ Static4[67] = 13 /\ Static4[68] = 0
    BY DEF Static4
  <2>. QED
    BY <2>1, <2>2 DEF Stops, LengthAt
<1>. QED
  BY <1>5, <1>6

-----------------------------------------------------------------------------
(* The invariant.                                                          *)

Phases == {"captured", "headers", "record", "handshake", "extension", "end", "bad"}

\* What never changes: a hello taken out of the packet is the one put in.
Kept ==
  /\ sni \in SniLengths /\ segment \in Segments /\ phase \in Phases
  /\ captured = Written(segment) /\ hello = build_client_hello(sni)

\* Only a bare ACK gets a fake, and the fake is made from it.
FromAck ==
  phase = "headers" =>
    /\ segment.len = 0
    /\ fake \in inject_fake_packet(captured, hello, WrongSeq)

\* Whatever the reader has understood is what the fake copies.
ReadRight == read \subseteq {FakeRecord(segment, WrongSeq)}

FInv == Kept /\ FromAck /\ ReadRight

\* The reader's way: record, handshake, the name, the extensions behind it up
\* to the one whose length does not fit.
OnTheWay ==
  /\ phase \in {"captured", "headers", "record"} => pos = 0 /\ names = <<>>
  /\ phase = "handshake" => pos = 5 /\ names = <<>>
  /\ phase = "extension" =>
       \/ pos = 118 /\ names = <<>>
       \/ \E k \in Stops : pos = 127 + sni + k /\ names = <<sni>>
  /\ phase = "bad" => names = <<sni>>

\* The longest name the builder has room for; its callers check no length.
NamesFit == SniLengths \subseteq 0 .. 219

\* The invariants hold of a captured segment that nobody has touched.
LEMMA FInvInit == FInit => FInv /\ OnTheWay
  BY DEF FInit, FInv, Kept, FromAck, ReadRight, OnTheWay, Phases

\* What the type facts of FInv say about the bytes at hand.
LEMMA Typed ==
  ASSUME FInv
  PROVE  /\ sni \in Nat /\ segment \in Segment /\ WrongSeq \in FourBytes
         /\ hello \in Bytes /\ captured = Written(segment)
  BY ClientHelloAssumption, FakePacketAssumption, HelloBytes DEF FInv, Kept

\* The injector takes no segment with payload for the ACK of a handshake.
LEMMA InjectKeeps ==
  ASSUME FInv, Inject
  PROVE  FInv'
<1>1. segment \in Segment /\ captured = Written(segment)
  BY Typed
<1>2. PICK i \in extract_packet_info(captured) : i.flags = {"ack"} /\ i.payload_len = 0
  BY DEF Inject
<1>3. i = Meant(segment)
  BY <1>1, <1>2, SentIsSeen
<1>4. segment.len = 0
  BY <1>2, <1>3 DEF Meant
<1>5. /\ fake' \in inject_fake_packet(captured, hello, WrongSeq) /\ phase' = "headers"
      /\ sni' = sni /\ hello' = hello /\ segment' = segment /\ captured' = captured
      /\ read' = read
  BY DEF Inject
<1>6. Kept'
  BY <1>5 DEF FInv, Kept, Phases
<1>7. FromAck'
  BY <1>4, <1>5 DEF FromAck
<1>8. ReadRight'
  BY <1>5 DEF FInv, ReadRight
<1>. QED
  BY <1>6, <1>7, <1>8 DEF FInv

\* What ReadHeaders computes, of a fake made by inject_fake_packet.
LEMMA HeadersRead ==
  ASSUME FInv, ReadHeaders
  PROVE  /\ FakeFields(fake, segment, hello, WrongSeq) /\ segment.len = 0
         /\ hello' = hello /\ read' \subseteq {FakeRecord(segment, WrongSeq)}
         /\ phase' \in {"record", "bad"}
         /\ Word16(fake, 2) = Len(fake) /\ 4 * segment.ihl + 4 * segment.doff <= Len(fake)
              => phase' = "record"
         /\ sni' = sni /\ pos' = pos /\ names' = names /\ segment' = segment
         /\ captured' = captured /\ fake' = fake
<1>1. /\ segment \in Segment /\ WrongSeq \in FourBytes /\ hello \in Bytes
      /\ captured = Written(segment)
  BY Typed
<1>2. segment.len = 0 /\ fake \in inject_fake_packet(captured, hello, WrongSeq)
  BY DEF FInv, FromAck, ReadHeaders
<1>3. FakeFields(fake, segment, hello, WrongSeq)
  BY <1>1, <1>2, Injected
<1> DEFINE ihl   == 4 * segment.ihl
           start == ihl + 4 * segment.doff
           total == Word16(fake, 2)
           found == [addrs |-> Octets(fake, 12, 8), ports |-> Octets(fake, ihl, 4),
                     seq_num |-> Octets(fake, ihl + 4, 4),
                     ack_num |-> Octets(fake, ihl + 8, 4),
                     flags |-> Octet(fake, ihl + 13), ident |-> Word16(fake, 4)]
           taken == SubSeq(fake, start + 1, Len(fake))
<1>4. /\ 4 * (Octet(fake, 0) % 16) = ihl /\ 4 * (Octet(fake, ihl + 12) \div 16) = 4 * segment.doff
      /\ taken = hello /\ found = FakeRecord(segment, WrongSeq)
  BY <1>1, <1>2, <1>3, FakeRead
<1>5. IF total = Len(fake) /\ start <= total
        THEN hello' = SubSeq(fake, start + 1, total) /\ read' = {found} /\ phase' = "record"
        ELSE phase' = "bad" /\ UNCHANGED <<hello, read>>
  BY <1>4 DEF ReadHeaders
<1>6. /\ sni' = sni /\ pos' = pos /\ names' = names /\ segment' = segment
      /\ captured' = captured /\ fake' = fake
  BY DEF ReadHeaders
<1>7. CASE total = Len(fake) /\ start <= total
  <2>1. hello' = taken /\ read' = {found} /\ phase' = "record"
    BY <1>5, <1>7
  <2>. QED
    BY <1>2, <1>3, <1>4, <1>6, <2>1
<1>8. CASE ~(total = Len(fake) /\ start <= total)
  <2>1. hello' = hello /\ read' = read /\ phase' = "bad"
    BY <1>5, <1>8
  <2>2. read \subseteq {FakeRecord(segment, WrongSeq)}
    BY DEF FInv, ReadRight
  <2>3. ~(total = Len(fake) /\ start <= Len(fake))
    BY <1>8
  <2>. QED
    BY <1>2, <1>3, <1>6, <2>1, <2>2, <2>3
<1>. QED
  BY <1>7, <1>8

\* Every step keeps FInv.
LEMMA FInvStep ==
  ASSUME FInv, [FNext]_fakeVars
  PROVE  FInv'
<1>1. CASE Inject
  BY <1>1, InjectKeeps
<1>2. CASE ReadHeaders
  <2>1. Kept'
    BY <1>2, HeadersRead DEF FInv, Kept, Phases
  <2>2. FromAck'
    BY <1>2, HeadersRead DEF FromAck
  <2>3. ReadRight'
    BY <1>2, HeadersRead DEF ReadRight
  <2>. QED
    BY <2>1, <2>2, <2>3 DEF FInv
<1>3. CASE ReadHello
  <2>1. /\ sni' = sni /\ hello' = hello /\ segment' = segment /\ captured' = captured
        /\ fake' = fake /\ read' = read
        /\ phase' \in Phases /\ phase' # "headers"
    BY <1>3 DEF ReadHello, ReadRecord, ReadHandshake, ReadExtension, Phases
  <2>2. Kept'
    BY <2>1 DEF FInv, Kept
  <2>3. FromAck'
    BY <2>1 DEF FromAck
  <2>4. ReadRight'
    BY <2>1 DEF FInv, ReadRight
  <2>. QED
    BY <2>2, <2>3, <2>4 DEF FInv
<1>4. CASE UNCHANGED fakeVars
  <2>1. Kept' /\ FromAck' /\ ReadRight'
    BY <1>4 DEF FInv, Kept, FromAck, ReadRight, fakeVars, vars
  <2>. QED
    BY <2>1 DEF FInv
<1>. QED
  BY <1>1, <1>2, <1>3, <1>4 DEF FNext

\* Whatever the injector extracts of an ACK or of any other segment, whole or
\* truncated, is what its sender meant: proved for every segment with options
\* of any length in either header.
THEOREM SegmentsSeen == FSpec => []SeesWhatWasSent
<1>1. FInv => SeesWhatWasSent
  <2>1. SUFFICES ASSUME FInv PROVE SeesWhatWasSent
    OBVIOUS
  <2>2. segment \in Segment /\ captured = Written(segment)
    BY <2>1, Typed
  <2>. QED
    BY <2>2, SentIsSeen DEF SeesWhatWasSent
<1>. QED
  BY FInvInit, FInvStep, <1>1, PTL DEF FSpec

\* The fake packet belongs to the connection of the ACK it is a copy of, for
\* every ACK, every wrong number and every length of the name.
THEOREM FakesCopyTheirAck == FSpec => []FakeCopiesAck
<1>1. IsCopyOf(FakeRecord(segment, WrongSeq), segment)
  <2> DEFINE addrs == segment.src_addr \o segment.dst_addr
             ports == ToU16(segment.src_port) \o ToU16(segment.dst_port)
             flags == BitsOf(segment.flags \cup {"psh"})
             ident == (segment.ident + 1) % 65536
             found == FakeRecord(segment, WrongSeq)
  <2>1. found = [addrs |-> addrs, ports |-> ports, seq_num |-> WrongSeq,
                 ack_num |-> segment.ack_num, flags |-> flags, ident |-> ident]
    BY DEF FakeRecord
  <2> HIDE DEF addrs, ports, flags, ident, found
  <2>2. /\ found.addrs = addrs /\ found.ports = ports /\ found.seq_num = WrongSeq
        /\ found.ack_num = segment.ack_num /\ found.flags = flags /\ found.ident = ident
    BY <2>1
  <2>3. found.addrs = segment.src_addr \o segment.dst_addr
    BY <2>2 DEF addrs
  <2>4. found.ports = ToU16(segment.src_port) \o ToU16(segment.dst_port)
    BY <2>2 DEF ports
  <2>5. found.flags = BitsOf(segment.flags \cup {"psh"})
    BY <2>2 DEF flags
  <2>6. found.ident = (segment.ident + 1) % 65536
    BY <2>2 DEF ident
  <2>7. IsCopyOf(found, segment)
    BY <2>2, <2>3, <2>4, <2>5, <2>6 DEF IsCopyOf
  <2>. QED
    BY <2>7 DEF found
<1>2. FInv => FakeCopiesAck
  BY <1>1 DEF FInv, ReadRight, FakeCopiesAck
<1>. QED
  BY FInvInit, FInvStep, <1>2, PTL DEF FSpec

\* As long as the names fit, the ClientHello is 517 bytes, also once it has
\* been through the fake packet and out again.
THEOREM HelloHas517Bytes ==
  ASSUME NamesFit
  PROVE  FSpec => []Always517Bytes
<1>1. FInv => Always517Bytes
  <2>1. SUFFICES ASSUME FInv PROVE Always517Bytes
    OBVIOUS
  <2>2. sni \in 0 .. 219 /\ sni \in Nat /\ hello = build_client_hello(sni)
    BY <2>1, NamesFit DEF NamesFit, FInv, Kept
  <2>3. Size(hello) = 517
    BY <2>2, HelloBytes
  <2>. QED
    BY <2>3 DEF Always517Bytes, Size
<1>. QED
  BY FInvInit, FInvStep, <1>1, PTL DEF FSpec

\* The three steps of the reader through a hello with a name that fits.
LEMMA RecordRead ==
  ASSUME NamesFit, FInv, OnTheWay, ReadRecord
  PROVE  phase' = "handshake" /\ pos' = 5 /\ names' = <<>> /\ sni' = sni
<1>1. sni \in 0 .. 219 /\ sni \in Nat /\ hello = build_client_hello(sni)
  BY DEF NamesFit, FInv, Kept
<1>2. Octet(hello, 0) = 22 /\ Word16(hello, 3) = 512
  BY <1>1, HelloFields
<1>3. Byte(0) = 22 /\ Word(3) = 512
  BY <1>2 DEF Byte, Word, Octet, Word16
<1>4. pos = 0 /\ names = <<>>
  BY DEF OnTheWay, ReadRecord
<1>5. Size(hello) = 517
  BY <1>1, HelloBytes
<1>6. Rest - 5 = 512
  BY <1>4, <1>5 DEF Rest, Size
<1>. QED
  BY <1>3, <1>4, <1>6 DEF ReadRecord

\* The handshake header and what precedes the extensions fit the hello.
LEMMA HandshakeRead ==
  ASSUME NamesFit, FInv, OnTheWay, ReadHandshake
  PROVE  phase' = "extension" /\ pos' = 118 /\ names' = <<>> /\ sni' = sni
<1>1. sni \in 0 .. 219 /\ sni \in Nat /\ hello = build_client_hello(sni)
  BY DEF NamesFit, FInv, Kept
<1>2. /\ Octet(hello, 5) = 1 /\ Octet(hello, 6) = 0 /\ Word16(hello, 7) = 508
      /\ Octet(hello, 43) = 32 /\ Word16(hello, 76) = 36 /\ Octet(hello, 114) = 1
      /\ Word16(hello, 116) = 399
  BY <1>1, HelloFields
<1>3. /\ Byte(5) = 1 /\ Byte(6) = 0 /\ Word(7) = 508 /\ Byte(43) = 32 /\ Word(76) = 36
      /\ Byte(114) = 1 /\ Word(116) = 399
  BY <1>2 DEF Byte, Word, Octet, Word16
<1>4. pos = 5 /\ names = <<>>
  BY DEF OnTheWay, ReadHandshake
<1>5. Size(hello) = 517
  BY <1>1, HelloBytes
<1>6. Rest - 4 = 508 /\ Len(hello) - 116 - 2 = 399
  BY <1>4, <1>5 DEF Rest, Size
<1> DEFINE suites     == 5 + 4 + 2 + 32 + 1 + Byte(43)
           methods    == suites + 2 + Word(suites)
           extensions == methods + 1 + Byte(methods)
           fits       == /\ Byte(5) = 1 /\ 65536 * Byte(6) + Word(7) = Rest - 4
                         /\ Word(extensions) = Len(hello) - extensions - 2
<1>7. fits => phase' = "extension" /\ pos' = extensions + 2
  BY DEF ReadHandshake
<1>8. names' = names /\ sni' = sni
  BY DEF ReadHandshake
<1> HIDE DEF Byte, Word, Rest
<1>9. suites = 76
  BY <1>3
<1>10. methods = 114
  <2> HIDE DEF suites
  <2>. QED
    BY <1>3, <1>9
<1>11. extensions = 116
  <2> HIDE DEF methods
  <2>. QED
    BY <1>3, <1>10
<1> HIDE DEF extensions
<1>12. 65536 * Byte(6) + Word(7) = Rest - 4
  BY <1>3, <1>6
<1>13. Word(extensions) = Len(hello) - extensions - 2
  BY <1>3, <1>6, <1>11
<1>14. fits
  BY <1>3, <1>12, <1>13
<1> HIDE DEF fits
<1>. QED
  BY <1>4, <1>7, <1>8, <1>11, <1>14

\* The name comes first; behind it the reader skips from stop to stop.
LEMMA ExtensionRead ==
  ASSUME NamesFit, FInv, OnTheWay, ReadExtension
  PROVE  /\ sni' = sni
         /\ \/ phase' = "bad" /\ names' = <<sni>>
            \/ /\ phase' = "extension" /\ names' = <<sni>>
               /\ \E k \in Stops : pos' = 127 + sni + k
<1>1. sni \in 0 .. 219 /\ sni \in Nat /\ hello = build_client_hello(sni)
  BY DEF NamesFit, FInv, Kept
<1>2. Len(hello) = 517
  BY <1>1, HelloBytes DEF Size
<1>3. phase = "extension" /\ sni' = sni
  BY DEF ReadExtension
<1>4. CASE pos = 118 /\ names = <<>>
  <2>1. /\ Word16(hello, 118) = 0 /\ Word16(hello, 120) = sni + 5
        /\ Word16(hello, 122) = sni + 3 /\ Octet(hello, 124) = 0
        /\ Word16(hello, 125) = sni
    BY <1>1, HelloFields, NameFields
  <2>2. /\ Word(118) = 0 /\ Word(120) = sni + 5 /\ Word(122) = sni + 3 /\ Byte(124) = 0
        /\ Word(125) = sni
    BY <2>1 DEF Byte, Word, Octet, Word16
  <2>3. /\ Rest = 399 /\ pos + 2 = 120 /\ pos + 4 = 122 /\ pos + 6 = 124 /\ pos + 7 = 125
    BY <1>2, <1>4 DEF Rest
  <2>4. /\ Rest # 0 /\ ~(Rest < 4 \/ Word(pos + 2) > Rest - 4)
        /\ pos + 4 + Word(pos + 2) = 127 + sni + 0
        /\ Word(pos) = 0 /\ Word(pos + 4) = Word(pos + 2) - 2
        /\ Byte(pos + 6) = 0 /\ Word(pos + 7) = Word(pos + 4) - 3 /\ Word(pos + 7) = sni
    BY <1>1, <1>4, <2>2, <2>3
  <2>5. phase' = "extension" /\ pos' = 127 + sni + 0 /\ names' = Append(<<>>, sni)
    BY <1>3, <1>4, <2>4 DEF ReadExtension
  <2>6. Append(<<>>, sni) = <<sni>>
    BY <1>1
  <2>. QED
    BY <1>3, <2>5, <2>6 DEF Stops
<1>5. CASE \E k \in Stops : pos = 127 + sni + k /\ names = <<sni>>
  <2>1. PICK k \in Stops : pos = 127 + sni + k /\ names = <<sni>>
    BY <1>5
  <2>2. k \in Nat /\ k <= 64
    BY DEF Stops
  <2>3. /\ Word16(hello, pos + 2) = LengthAt(k)
        /\ k # 64 => Word16(hello, pos) # 0
    BY <1>1, <2>1, StopFields
  <2>4. Word(pos + 2) = LengthAt(k) /\ (k # 64 => Word(pos) # 0)
    BY <2>3 DEF Byte, Word, Octet, Word16
  <2>5. Rest = 517 - (127 + sni + k) /\ Rest \in Nat /\ Rest >= 107 /\ Rest <= 390
    BY <1>1, <1>2, <2>1, <2>2 DEF Rest
  <2>6. CASE k = 64
    <3>1. Word(pos + 2) > Rest - 4 /\ Rest # 0
      BY <2>4, <2>5, <2>6 DEF LengthAt
    <3>. QED
      BY <1>3, <2>1, <3>1 DEF ReadExtension
  <2>7. CASE k # 64
    <3>1. k + 4 + LengthAt(k) \in Stops /\ LengthAt(k) \in Nat /\ LengthAt(k) <= 22
      BY <2>7 DEF Stops, LengthAt
    <3>2. Rest # 0 /\ ~(Rest < 4 \/ Word(pos + 2) > Rest - 4)
      BY <2>4, <2>5, <3>1
    <3>3. pos' = pos + 4 + Word(pos + 2) /\ phase' = "extension" /\ names' = names
      BY <1>3, <2>4, <2>7, <3>2 DEF ReadExtension
    <3>4. pos' = 127 + sni + (k + 4 + LengthAt(k))
      BY <1>1, <2>1, <2>2, <2>4, <3>1, <3>3
    <3>. QED
      BY <1>3, <2>1, <3>1, <3>3, <3>4
  <2>. QED
    BY <2>6, <2>7
<1>. QED
  BY <1>3, <1>4, <1>5 DEF OnTheWay

\* Every step keeps the reader where it should be, if the names fit.
LEMMA OnTheWayStep ==
  ASSUME NamesFit, FInv, OnTheWay, [FNext]_fakeVars
  PROVE  OnTheWay'
<1>1. CASE Inject
  BY <1>1 DEF Inject, OnTheWay
<1>2. CASE ReadHeaders
  <2>1. /\ segment \in Segment /\ segment.ihl \in 5 .. 15 /\ segment.doff \in 5 .. 15
    BY Typed, SegmentFields
  <2>2. sni \in 0 .. 219 /\ sni \in Nat /\ hello = build_client_hello(sni)
    BY DEF NamesFit, FInv, Kept
  <2>3. Size(hello) = 517
    BY <2>2, HelloBytes
  <2>4. /\ fake \in Bytes /\ Holds(fake, 2, ToU16(Size(fake)))
        /\ Size(fake) = 4 * segment.ihl + 4 * segment.doff + 0 + 517
    BY <1>2, <2>3, HeadersRead DEF FakeFields
  <2>5. /\ Size(fake) \in Nat /\ Size(fake) < 65536
        /\ 4 * segment.ihl + 4 * segment.doff <= Size(fake)
    BY <2>1, <2>4
  <2>6. Word16(fake, 2) = Size(fake)
    <3>1. Word16(fake, 2) = Size(fake) % 65536
      BY <2>4, <2>5, WordHeld
    <3>. QED
      BY <2>5, <3>1
  <2>7. phase' = "record"
    BY <1>2, <2>5, <2>6, HeadersRead DEF Size
  <2>8. pos = 0 /\ names = <<>>
    BY <1>2 DEF OnTheWay, ReadHeaders
  <2>. QED
    BY <1>2, <2>7, <2>8, HeadersRead DEF OnTheWay
<1>3. CASE ReadRecord /\ UNCHANGED <<segment, captured, fake, read>>
  BY <1>3, RecordRead DEF OnTheWay
<1>4. CASE ReadHandshake /\ UNCHANGED <<segment, captured, fake, read>>
  BY <1>4, HandshakeRead DEF OnTheWay
<1>5. CASE ReadExtension /\ UNCHANGED <<segment, captured, fake, read>>
  BY <1>5, ExtensionRead DEF OnTheWay
<1>6. CASE UNCHANGED fakeVars
  BY <1>6 DEF OnTheWay, fakeVars, vars
<1>. QED
  BY <1>1, <1>2, <1>3, <1>4, <1>5, <1>6 DEF FNext, ReadHello

\* A reader of the fake finds the whitelisted name, whole and alone, for every
\* name that fits and in a packet with any options.
THEOREM FakeNameIsRead ==
  ASSUME NamesFit
  PROVE  FSpec => []NameIsRead
<1>1. FInv /\ OnTheWay => NameIsRead
  BY DEF OnTheWay, NameIsRead
<1>2. FInv /\ OnTheWay /\ [FNext]_fakeVars => FInv' /\ OnTheWay'
  BY FInvStep, OnTheWayStep
<1>. QED
  BY FInvInit, <1>1, <1>2, PTL DEF FSpec

=============================================================================
