--------------------------- MODULE Injector_proofs ---------------------------
(***************************************************************************)
(* The invariants of the injector, proved for any number of ports, any     *)
(* payloads and any size of the sequence space.                            *)
(***************************************************************************)
EXTENDS Injector, TLAPS

-----------------------------------------------------------------------------
(* The sequence arithmetic, for every size of the space.                   *)

\* Both wrapping operations stay in the type: no u32 computation of the
\* injector leaves 0 .. 2^32 - 1.
LEMMA WrappingTyped ==
  ASSUME NEW a \in SeqNums, NEW b \in SeqNums
  PROVE  WrappingAdd(a, b) \in SeqNums /\ WrappingSub(a, b) \in SeqNums
  BY SeqModAssumption DEF SeqNums, WrappingAdd, WrappingSub

\* NextSeq never returns its argument: a SYN always moves the expected number.
LEMMA NextSeqMoves ==
  ASSUME NEW s \in SeqNums
  PROVE  NextSeq(s) \in SeqNums /\ NextSeq(s) # s
  BY SeqModAssumption DEF SeqNums, NextSeq, WrappingAdd

\* The bytes of the fake ClientHello end exactly where the first real byte is
\* expected, whatever the initial sequence number and even when the space
\* wraps between the two: every byte of the fake is an old one.
LEMMA WrongSeqEndsAtNext ==
  ASSUME NEW s \in SeqNums, NEW len \in SeqNums
  PROVE  /\ WrongSeq(s, len) \in SeqNums
         /\ WrappingAdd(WrongSeq(s, len), len) = NextSeq(s)
<1>1. NextSeq(s) \in SeqNums
  BY NextSeqMoves
<1>2. WrappingSub(NextSeq(s), len) \in SeqNums
  BY <1>1, WrappingTyped
<1>3. WrappingAdd(WrappingSub(NextSeq(s), len), len) = NextSeq(s)
  BY <1>1, SeqModAssumption DEF SeqNums, WrappingAdd, WrappingSub
<1>. QED
  BY <1>2, <1>3 DEF WrongSeq

\* The number is wrong: with a non-empty payload it is never the number the
\* server expects next.
LEMMA WrongSeqIsWrong ==
  ASSUME NEW s \in SeqNums, NEW len \in SeqNums \ {0}
  PROVE  WrongSeq(s, len) # NextSeq(s)
<1>1. NextSeq(s) \in SeqNums
  BY NextSeqMoves
<1>. QED
  BY <1>1, SeqModAssumption DEF SeqNums, WrongSeq, WrappingSub

-----------------------------------------------------------------------------
(* The invariant.                                                          *)

\* The inductive invariant.  HandshakeOrder and WokenWithOutcome speak of the
\* map, FakeIsOld of the wire; ThreadView carries what the thread learnt from
\* one critical section to the next.
IInv == TypeOK /\ HandshakeOrder /\ WokenWithOutcome /\ FakeIsOld /\ ThreadView

-----------------------------------------------------------------------------

\* The packet in the buffer belongs to a key, and its entry is a connection.
LEMMA CurrentTyped ==
  ASSUME TypeOK, ThreadView, at # "recv"
  PROVE  /\ packet \in Packet
         /\ Key(packet) \in ConnKey
         /\ Current \in Conn
         /\ Current = connections[Key(packet)]
<1>1. packet \in Packet /\ Tracked(Key(packet))
  BY DEF ThreadView
<1>2. Key(packet) \in ConnKey
  BY <1>1 DEF Packet, Key, ConnKey
<1>. QED
  BY <1>1, <1>2 DEF TypeOK, Tracked, Current

\* A new connection is a connection whatever it is created for.
LEMMA NewConnTyped ==
  ASSUME NEW d \in Payloads, NEW m \in Methods
  PROVE  NewConn(d, m) \in Conn /\ NewConn(d, m) # NoConn
<1>1. NewConn(d, m) \in Conn
  BY DEF NewConn, Conn
<1>. QED
  BY <1>1, NoConnAssumption

\* The i64 sentinel is no u32: a stored number is never mistaken for "not seen",
\* 0xffffffff included.
LEMMA SeqNumsSeen ==
  ASSUME NEW s \in SeqNums
  PROVE  s # NotSeen
  BY SeqModAssumption DEF SeqNums, NotSeen

\* The fake is a packet: its number is a u32 again.
LEMMA FakeTyped ==
  ASSUME NEW c \in Conn, NEW p \in Packet, c.syn_seq # NotSeen
  PROVE  /\ Fake(c, p) \in Packet
         /\ Fake(c, p).ack_num = p.ack_num
         /\ WrappingAdd(Fake(c, p).seq_num, FakeLen) = NextSeq(c.syn_seq)
<1>1. c.syn_seq \in SeqNums /\ c.fake_data \in Payloads /\ FakeLen \in SeqNums
  BY InjectorAssumption DEF Conn
<1>2. WrongSeq(c.syn_seq, FakeLen) \in SeqNums
  BY <1>1, WrongSeqEndsAtNext
<1>3. Fake(c, p).seq_num = WrongSeq(c.syn_seq, FakeLen)
  BY DEF Fake, Packet
<1>. QED
  BY <1>1, <1>2, <1>3, WrongSeqEndsAtNext DEF Fake, Packet

-----------------------------------------------------------------------------
(* One entry changes: what must be shown of it for the map's invariants.   *)

\* Parts of HandshakeOrder and WokenWithOutcome for a connection c.
OrderOf(c) ==
  /\ c.syn_ack_seq # NotSeen => c.syn_seq # NotSeen
  /\ c.sch_fake_sent => c.syn_ack_seq # NotSeen
  /\ c.fake_sent => c.sch_fake_sent
  /\ c.t2a_msg = "fake_data_ack_recv" => c.fake_sent
OutcomeOf(c) ==
  /\ c.permit => c.t2a_msg # ""
  /\ c.t2a_msg # "" => ~c.monitor

MapInv == TypeOK /\ HandshakeOrder /\ WokenWithOutcome

\* An entry replaced by a well-formed connection leaves the map well formed.
LEMMA EntryReplaced ==
  ASSUME MapInv, NEW k \in ConnKey, NEW c,
         c = NoConn \/ (c \in Conn /\ OrderOf(c) /\ OutcomeOf(c)),
         connections' = [connections EXCEPT ![k] = c]
  PROVE  /\ connections' \in [ConnKey -> Conn \cup {NoConn}]
         /\ HandshakeOrder'
         /\ WokenWithOutcome'
         /\ connections'[k] = c
         /\ \A j \in ConnKey : j # k => connections'[j] = connections[j]
<1>1. connections' \in [ConnKey -> Conn \cup {NoConn}]
  BY DEF MapInv, TypeOK
<1>2. /\ connections'[k] = c
      /\ \A j \in ConnKey : j # k => connections'[j] = connections[j]
  BY DEF MapInv, TypeOK
<1>3. HandshakeOrder'
  BY <1>2 DEF MapInv, HandshakeOrder, Tracked, OrderOf
<1>4. WokenWithOutcome'
  BY <1>2 DEF MapInv, WokenWithOutcome, Tracked, OutcomeOf
<1>. QED
  BY <1>1, <1>2, <1>3, <1>4

\* What the map's invariants say of the entry the thread is at.
LEMMA CurrentOrdered ==
  ASSUME IInv, at # "recv"
  PROVE  OrderOf(Current) /\ OutcomeOf(Current) /\ MapInv
<1>1. Key(packet) \in ConnKey /\ Tracked(Key(packet))
  BY CurrentTyped DEF IInv, ThreadView
<1>. QED
  BY <1>1 DEF IInv, MapInv, HandshakeOrder, WokenWithOutcome, OrderOf,
              OutcomeOf, Current

-----------------------------------------------------------------------------
(* Every step keeps the invariant.                                         *)

\* A task that changes an entry other than the guarded one leaves the thread's
\* view as it is.
LEMMA OthersKeepView ==
  ASSUME TypeOK, ThreadView, NEW k,
         at # "recv" => Key(packet) # k,
         \A j \in ConnKey : j # k => connections'[j] = connections[j],
         UNCHANGED <<at, packet, sent>>
  PROVE  ThreadView'
<1>1. CASE at = "recv"
  BY <1>1 DEF ThreadView
<1>2. CASE at # "recv"
  <2>1. connections'[Key(packet)] = connections[Key(packet)]
    BY <1>2, CurrentTyped
  <2>. QED
    BY <2>1 DEF ThreadView, Tracked, Current, Key
<1>. QED
  BY <1>1, <1>2

\* The other tasks: insert, remove and the wake-up never touch the entry the
\* thread is at, except to take its permit.
LEMMA TasksKeepIInv ==
  ASSUME IInv, Tasks
  PROVE  IInv'
<1>1. PICK k \in ConnKey :
        \/ \E d \in Payloads, m \in Methods : InsertConn(k, d, m)
        \/ RemoveConn(k)
        \/ TakePermit(k)
  BY DEF Tasks
<1>2. MapInv /\ FakeIsOld /\ ThreadView
  BY DEF IInv, MapInv
<1>3. CASE \E d \in Payloads, m \in Methods : InsertConn(k, d, m)
  <2>1. PICK d \in Payloads, m \in Methods : InsertConn(k, d, m)
    BY <1>3
  <2>2. OrderOf(NewConn(d, m)) /\ OutcomeOf(NewConn(d, m))
    BY DEF NewConn, OrderOf, OutcomeOf
  <2>3. /\ connections' \in [ConnKey -> Conn \cup {NoConn}]
        /\ HandshakeOrder' /\ WokenWithOutcome'
        /\ \A j \in ConnKey : j # k => connections'[j] = connections[j]
    BY <1>2, <2>1, <2>2, NewConnTyped, EntryReplaced DEF InsertConn
  <2>4. UNCHANGED <<at, packet, sent>> /\ ~Guarded(k)
    BY <2>1 DEF InsertConn
  <2>5. TypeOK' /\ FakeIsOld'
    BY <1>2, <2>3, <2>4 DEF MapInv, TypeOK, FakeIsOld
  <2>6. ThreadView'
    BY <1>2, <2>3, <2>4, OthersKeepView DEF MapInv, Guarded
  <2>. QED
    BY <2>3, <2>5, <2>6 DEF IInv
<1>4. CASE RemoveConn(k)
  <2>1. /\ connections' \in [ConnKey -> Conn \cup {NoConn}]
        /\ HandshakeOrder' /\ WokenWithOutcome'
        /\ \A j \in ConnKey : j # k => connections'[j] = connections[j]
    BY <1>2, <1>4, EntryReplaced DEF RemoveConn
  <2>2. UNCHANGED <<at, packet, sent>> /\ ~Guarded(k)
    BY <1>4 DEF RemoveConn
  <2>3. TypeOK' /\ FakeIsOld'
    BY <1>2, <2>1, <2>2 DEF MapInv, TypeOK, FakeIsOld
  <2>4. ThreadView'
    BY <1>2, <2>1, <2>2, OthersKeepView DEF MapInv, Guarded
  <2>. QED
    BY <2>1, <2>3, <2>4 DEF IInv
<1>5. CASE TakePermit(k)
  <2> DEFINE c == [connections[k] EXCEPT !.permit = FALSE]
  <2>1. connections[k] \in Conn /\ OrderOf(connections[k])
                               /\ OutcomeOf(connections[k])
    BY <1>2, <1>5 DEF MapInv, TypeOK, HandshakeOrder, WokenWithOutcome,
                      OrderOf, OutcomeOf, TakePermit, Tracked
  <2>2. c \in Conn /\ OrderOf(c) /\ OutcomeOf(c)
    BY <2>1 DEF Conn, OrderOf, OutcomeOf
  <2>3. connections' = [connections EXCEPT ![k] = c]
    BY <1>5 DEF TakePermit
  <2>4. /\ connections' \in [ConnKey -> Conn \cup {NoConn}]
        /\ HandshakeOrder' /\ WokenWithOutcome'
        /\ connections'[k] = c
        /\ \A j \in ConnKey : j # k => connections'[j] = connections[j]
    BY <1>2, <2>2, <2>3, EntryReplaced
  <2>5. UNCHANGED <<at, packet, sent>>
    BY <1>5 DEF TakePermit
  <2>6. TypeOK' /\ FakeIsOld'
    BY <1>2, <2>4, <2>5 DEF MapInv, TypeOK, FakeIsOld
  <2>7. ThreadView'
    <3>1. CASE ~(at # "recv" /\ Key(packet) = k)
      BY <1>2, <2>4, <2>5, <3>1, OthersKeepView DEF MapInv
    <3>2. CASE at # "recv" /\ Key(packet) = k
      <4>1. Current = connections[k] /\ Key(packet)' = k
        BY <2>5, <3>2 DEF Current, Key
      <4>2. Current' = c
        BY <2>4, <4>1 DEF Current
      <4>3. Tracked(Key(packet))'
        BY <2>2, <2>4, <4>1, NoConnAssumption DEF Tracked
      <4>4. /\ c.monitor = Current.monitor
            /\ c.syn_seq = Current.syn_seq
            /\ c.syn_ack_seq = Current.syn_ack_seq
            /\ c.sch_fake_sent = Current.sch_fake_sent
            /\ c.fake_sent = Current.fake_sent
            /\ c.t2a_msg = Current.t2a_msg
        BY <2>1, <4>1 DEF Conn
      <4>5. HandshakeAckExpected(Current, packet)
              => HandshakeAckExpected(c, packet)
        BY <4>4 DEF HandshakeAckExpected
      <4>6. FakeAckExpected(Current, packet) => FakeAckExpected(c, packet)
        BY <4>4 DEF FakeAckExpected
      <4>. HIDE DEF c
      <4>. QED
        BY <1>2, <2>5, <4>2, <4>3, <4>4, <4>5, <4>6 DEF ThreadView
    <3>. QED
      BY <3>1, <3>2
  <2>. QED
    BY <2>4, <2>6, <2>7 DEF IInv
<1>. QED
  BY <1>1, <1>3, <1>4, <1>5

-----------------------------------------------------------------------------

\* The thread changes the entry it is at to c.
LEMMA CurrentReplaced ==
  ASSUME IInv, at # "recv", NEW c \in Conn, OrderOf(c), OutcomeOf(c),
         connections' = [connections EXCEPT ![Key(packet)] = c],
         packet' = packet
  PROVE  /\ connections' \in [ConnKey -> Conn \cup {NoConn}]
         /\ HandshakeOrder' /\ WokenWithOutcome'
         /\ packet \in Packet
         /\ Tracked(Key(packet))' /\ Current' = c
<1>1. MapInv /\ Key(packet) \in ConnKey /\ packet \in Packet
  BY CurrentTyped DEF IInv, MapInv
<1>2. /\ connections' \in [ConnKey -> Conn \cup {NoConn}]
      /\ HandshakeOrder' /\ WokenWithOutcome'
      /\ connections'[Key(packet)] = c
  BY <1>1, EntryReplaced
<1>3. Key(packet)' = Key(packet)
  BY DEF Key
<1>. QED
  BY <1>1, <1>2, <1>3, NoConnAssumption DEF Tracked, Current

\* Appending a packet keeps a sequence of packets, and FakeIsOld if the packet
\* is the one in the buffer.
LEMMA Forwarded ==
  ASSUME TypeOK, packet \in Packet, sent \in {<<>>, <<packet>>}, Forward,
         packet' = packet
  PROVE  sent' \in Seq(Packet) /\ FakeIsOld'
<1>1. sent \in Seq(Packet) /\ \A i \in 1 .. Len(sent) : sent[i] = packet
  <2>1. CASE sent = <<>>
    BY <2>1
  <2>2. CASE sent = <<packet>>
    BY <2>2
  <2>. QED
    BY <2>1, <2>2
<1>2. sent' \in Seq(Packet) /\ \A i \in 1 .. Len(sent') : sent'[i] = packet
  BY <1>1 DEF Forward
<1>3. DOMAIN sent' = 1 .. Len(sent')
  BY <1>2
<1>. QED
  BY <1>2, <1>3 DEF FakeIsOld

\* An outcome, from the place where the connection is still monitored.
LEMMA DecideKeepsIInv ==
  ASSUME IInv, at \in {"handle", "delay"},
         NEW msg \in {"unexpected_close", "fake_data_ack_recv"},
         msg = "fake_data_ack_recv" =>
           packet.inbound /\ FakeAckExpected(Current, packet),
         Decide(msg), UNCHANGED <<packet, sent>>
  PROVE  IInv'
<1> DEFINE c == [Current EXCEPT !.monitor = FALSE, !.t2a_msg = msg]
<1>1. Current \in Conn /\ OrderOf(Current) /\ OutcomeOf(Current)
                       /\ Current = connections[Key(packet)]
  BY CurrentTyped, CurrentOrdered DEF IInv
<1>2. c \in Conn /\ OrderOf(c) /\ OutcomeOf(c) /\ c.t2a_msg = msg
  BY <1>1 DEF Conn, OrderOf, OutcomeOf, FakeAckExpected
<1>3. connections' = [connections EXCEPT ![Key(packet)] = c]
  BY <1>1 DEF Decide
<1>. HIDE DEF c
<1>4. /\ connections' \in [ConnKey -> Conn \cup {NoConn}]
      /\ HandshakeOrder' /\ WokenWithOutcome'
      /\ packet \in Packet
      /\ Tracked(Key(packet))' /\ Current' = c
  BY <1>2, <1>3, CurrentReplaced
<1>5. at' = "notify"
  BY DEF Decide
<1>6. sent \in {<<>>, <<packet>>}
  BY DEF IInv, ThreadView
<1>7. FakeAckExpected(Current, packet) => FakeAckExpected(c, packet)
  BY <1>1 DEF c, Conn, FakeAckExpected
<1>8. ThreadView'
  BY <1>2, <1>4, <1>5, <1>6, <1>7 DEF ThreadView
<1>9. TypeOK' /\ FakeIsOld'
  BY <1>4, <1>5 DEF IInv, TypeOK, FakeIsOld
<1>. QED
  BY <1>4, <1>8, <1>9 DEF IInv

\* The thread leaves an entry whose other fields are as c says and goes on to
\* receive, having forwarded the packet.
LEMMA DoneKeepsIInv ==
  ASSUME IInv, at # "recv", NEW c \in Conn, OrderOf(c), OutcomeOf(c),
         connections' = [connections EXCEPT ![Key(packet)] = c],
         at' = "recv", packet' = packet,
         sent' \in Seq(Packet), FakeIsOld'
  PROVE  IInv'
<1>1. /\ connections' \in [ConnKey -> Conn \cup {NoConn}]
      /\ HandshakeOrder' /\ WokenWithOutcome'
      /\ packet \in Packet
  BY CurrentReplaced
<1>. QED
  BY <1>1 DEF IInv, TypeOK, ThreadView

\* Receiving: no entry changes, and the buffer is the thread's alone.
LEMMA RecvKeepsIInv ==
  ASSUME IInv, NEW p \in Packet, Recv(p)
  PROVE  IInv'
<1>1. at = "recv" /\ UNCHANGED connections /\ packet' = p
  BY DEF Recv, RecvUntracked, RecvTracked
<1>2. HandshakeOrder' /\ WokenWithOutcome'
  BY <1>1 DEF IInv, HandshakeOrder, WokenWithOutcome, Tracked
<1>3. CASE RecvUntracked(p)
  BY <1>1, <1>2, <1>3 DEF IInv, RecvUntracked, TypeOK, FakeIsOld, ThreadView
<1>4. CASE RecvTracked(p)
  <2>1. Tracked(Key(packet))'
    BY <1>1, <1>4 DEF RecvTracked, Tracked, Key
  <2>. QED
    BY <1>1, <1>2, <1>4, <2>1
       DEF IInv, RecvTracked, TypeOK, FakeIsOld, ThreadView
<1>. QED
  BY <1>3, <1>4 DEF Recv

\* The steps of the thread, one by one.
LEMMA StepKeepsIInv ==
  ASSUME IInv, Step
  PROVE  IInv'
<1>1. at # "recv"
  BY DEF Step, CheckMonitor, OutboundSyn, OutboundAck, InboundSynAck,
         InboundFakeAck, Handling, NotExpected, Notify, AfterDelay
<1>2. /\ packet \in Packet /\ Key(packet) \in ConnKey
      /\ Current \in Conn /\ Current = connections[Key(packet)]
      /\ OrderOf(Current) /\ OutcomeOf(Current)
  BY <1>1, CurrentTyped, CurrentOrdered DEF IInv
<1>3. CASE CheckMonitor
  <2>1. CASE Current.monitor
    <3>1. at' = "handle" /\ UNCHANGED <<connections, packet, sent>>
      BY <1>3, <2>1 DEF CheckMonitor
    <3>2. TypeOK' /\ HandshakeOrder' /\ WokenWithOutcome' /\ FakeIsOld'
      BY <3>1 DEF IInv, TypeOK, HandshakeOrder, WokenWithOutcome, FakeIsOld,
                  Tracked
    <3>3. sent = <<>> /\ Tracked(Key(packet))
      BY <1>3 DEF CheckMonitor, IInv, ThreadView
    <3>4. ThreadView'
      BY <1>2, <2>1, <3>1, <3>3 DEF ThreadView, Tracked, Current, Key
    <3>. QED
      BY <3>2, <3>4 DEF IInv
  <2>2. CASE ~Current.monitor
    <3>1. sent = <<>> /\ Forward /\ packet' = packet
      BY <1>3, <2>2 DEF CheckMonitor, IInv, ThreadView
    <3>2. sent' \in Seq(Packet) /\ FakeIsOld'
      BY <1>2, <3>1, Forwarded DEF IInv
    <3>3. at' = "recv" /\ UNCHANGED <<connections, packet>>
      BY <1>3, <2>2 DEF CheckMonitor
    <3>. QED
      BY <1>2, <3>2, <3>3 DEF IInv, TypeOK, HandshakeOrder, WokenWithOutcome,
                              ThreadView, Tracked
  <2>. QED
    BY <2>1, <2>2
<1>4. CASE OutboundSyn
  <2> DEFINE c == [Current EXCEPT !.syn_seq = packet.seq_num]
  <2>1. c \in Conn /\ OrderOf(c) /\ OutcomeOf(c)
    <3>1. packet.seq_num \in SeqNums /\ packet.seq_num # NotSeen
      BY <1>2, SeqNumsSeen DEF Packet
    <3>2. c \in Conn
      BY <1>2, <3>1 DEF Conn
    <3>. QED
      BY <1>2, <3>1, <3>2 DEF Conn, OrderOf, OutcomeOf
  <2>2. connections' = [connections EXCEPT ![Key(packet)] = c]
    BY <1>2, <1>4 DEF OutboundSyn
  <2>3. sent = <<>> /\ Forward /\ at' = "recv" /\ packet' = packet
    BY <1>4 DEF OutboundSyn, Handling, IInv, ThreadView
  <2>4. sent' \in Seq(Packet) /\ FakeIsOld'
    BY <1>2, <2>3, Forwarded DEF IInv
  <2>. HIDE DEF c
  <2>. QED
    BY <1>1, <2>1, <2>2, <2>3, <2>4, DoneKeepsIInv
<1>5. CASE InboundSynAck
  <2> DEFINE c == [Current EXCEPT !.syn_ack_seq = packet.seq_num]
  <2>1. Current.syn_seq # NotSeen
    BY <1>5 DEF InboundSynAck, Handling, Expected, InboundExpected
  <2>2. c \in Conn /\ OrderOf(c) /\ OutcomeOf(c)
    <3>1. packet.seq_num \in SeqNums /\ packet.seq_num # NotSeen
      BY <1>2, SeqNumsSeen DEF Packet
    <3>2. c \in Conn
      BY <1>2, <3>1 DEF Conn
    <3>. QED
      BY <1>2, <2>1, <3>1, <3>2 DEF Conn, OrderOf, OutcomeOf
  <2>3. connections' = [connections EXCEPT ![Key(packet)] = c]
    BY <1>2, <1>5 DEF InboundSynAck
  <2>4. sent = <<>> /\ Forward /\ at' = "recv" /\ packet' = packet
    BY <1>5 DEF InboundSynAck, Handling, IInv, ThreadView
  <2>5. sent' \in Seq(Packet) /\ FakeIsOld'
    BY <1>2, <2>4, Forwarded DEF IInv
  <2>. HIDE DEF c
  <2>. QED
    BY <1>1, <2>2, <2>3, <2>4, <2>5, DoneKeepsIInv
<1>6. CASE OutboundAck
  <2> DEFINE c == [Current EXCEPT !.sch_fake_sent = TRUE]
  <2>1. /\ ~packet.inbound /\ Current.monitor
        /\ ~Current.sch_fake_sent /\ ~Current.fake_sent
        /\ HandshakeAckExpected(Current, packet)
    BY <1>2, <1>6 DEF OutboundAck, Handling, Expected, OutboundExpected,
       SynExpected, Ack, Syn, OrderOf, Conn
  <2>2. c \in Conn /\ OrderOf(c) /\ OutcomeOf(c)
    BY <1>2, <2>1 DEF Conn, OrderOf, OutcomeOf, HandshakeAckExpected
  <2>3. /\ c.monitor /\ c.sch_fake_sent /\ ~c.fake_sent
        /\ HandshakeAckExpected(c, packet)
    BY <1>2, <2>1 DEF Conn, HandshakeAckExpected
  <2>4. connections' = [connections EXCEPT ![Key(packet)] = c]
    BY <1>2, <1>6 DEF OutboundAck
  <2>5. sent = <<>> /\ Forward /\ at' = "delay" /\ packet' = packet
    BY <1>6 DEF OutboundAck, Handling, IInv, ThreadView
  <2>6. sent' \in Seq(Packet) /\ FakeIsOld'
    BY <1>2, <2>5, Forwarded DEF IInv
  <2>7. sent' = <<packet>>
    BY <1>2, <2>5 DEF Forward
  <2>. HIDE DEF c
  <2>8. /\ connections' \in [ConnKey -> Conn \cup {NoConn}]
        /\ HandshakeOrder' /\ WokenWithOutcome'
        /\ Tracked(Key(packet))' /\ Current' = c
    BY <1>1, <2>2, <2>4, <2>5, CurrentReplaced
  <2>9. TypeOK' /\ ThreadView'
    BY <1>2, <2>1, <2>3, <2>5, <2>6, <2>7, <2>8 DEF TypeOK, ThreadView
  <2>. QED
    BY <2>6, <2>8, <2>9 DEF IInv
<1>7. CASE InboundFakeAck
  <2>1. packet.inbound /\ FakeAckExpected(Current, packet)
    BY <1>7 DEF InboundFakeAck, Handling, Expected, InboundExpected,
                SynAckExpected, Ack, SynAck
  <2>. QED
    BY <1>7, <2>1, DecideKeepsIInv DEF InboundFakeAck, Handling
<1>8. CASE NotExpected
  <2>1. Current.monitor
    BY <1>8 DEF NotExpected, IInv, ThreadView
  <2>. QED
    BY <1>8, <2>1, DecideKeepsIInv DEF NotExpected
<1>9. CASE Notify
  <2> DEFINE c == [Current EXCEPT !.permit = TRUE]
  <2>1. Current.t2a_msg # "" /\ sent \in {<<>>, <<packet>>}
    BY <1>9 DEF Notify, IInv, ThreadView
  <2>2. c \in Conn /\ OrderOf(c) /\ OutcomeOf(c)
    BY <1>2, <2>1 DEF Conn, OrderOf, OutcomeOf
  <2>3. connections' = [connections EXCEPT ![Key(packet)] = c]
    BY <1>2, <1>9 DEF Notify
  <2>4. at' = "recv" /\ packet' = packet /\ (Forward \/ UNCHANGED sent)
    BY <1>9 DEF Notify
  <2>5. sent' \in Seq(Packet) /\ FakeIsOld'
    BY <1>2, <2>1, <2>4, Forwarded DEF IInv, TypeOK, FakeIsOld
  <2>. HIDE DEF c
  <2>. QED
    BY <1>1, <2>2, <2>3, <2>4, <2>5, DoneKeepsIInv
<1>10. CASE AfterDelay
  <2>1. /\ Current.monitor /\ sent = <<packet>> /\ packet' = packet
        /\ HandshakeAckExpected(Current, packet) /\ ~packet.inbound
        /\ Current.sch_fake_sent /\ ~Current.fake_sent
    BY <1>10 DEF AfterDelay, IInv, ThreadView
  <2>2. CASE Current.bypass_method = "wrong_seq"
    <3> DEFINE c == [Current EXCEPT !.fake_sent = TRUE]
               f == Fake(Current, packet)
    <3>1. c \in Conn /\ OrderOf(c) /\ OutcomeOf(c)
      BY <1>2, <2>1 DEF Conn, OrderOf, OutcomeOf
    <3>2. connections' = [connections EXCEPT ![Key(packet)] = c]
      BY <1>2, <1>10, <2>1, <2>2 DEF AfterDelay
    <3>3. at' = "recv" /\ sent' = Append(<<packet>>, f)
      BY <1>10, <2>1, <2>2 DEF AfterDelay
    <3>4. /\ f \in Packet /\ f.ack_num = packet.ack_num
          /\ WrappingAdd(f.seq_num, FakeLen) = packet.seq_num
      BY <1>2, <2>1, FakeTyped DEF HandshakeAckExpected
    <3>. HIDE DEF c, f
    <3>5. /\ sent' \in Seq(Packet) /\ DOMAIN sent' = 1 .. 2
          /\ sent'[1] = packet /\ sent'[2] = f
      BY <1>2, <3>3, <3>4
    <3>6. packet.flags = Ack
      BY <2>1 DEF HandshakeAckExpected
    <3>7. FakeIsOld'
      BY <2>1, <3>4, <3>5, <3>6 DEF FakeIsOld
    <3>. QED
      BY <1>1, <2>1, <3>1, <3>2, <3>3, <3>5, <3>7, DoneKeepsIInv
  <2>3. CASE Current.bypass_method # "wrong_seq"
    BY <1>10, <2>1, <2>3, DecideKeepsIInv DEF AfterDelay
  <2>. QED
    BY <2>2, <2>3
<1>. QED
  BY <1>3, <1>4, <1>5, <1>6, <1>7, <1>8, <1>9, <1>10 DEF Step

-----------------------------------------------------------------------------

\* IInv holds of the first state, and stuttering changes nothing of it.
LEMMA InitIInv == Init => IInv
<1>. SUFFICES ASSUME Init PROVE IInv
  OBVIOUS
<1>1. TypeOK
  BY DEF Init, TypeOK
<1>2. HandshakeOrder /\ WokenWithOutcome
  BY DEF Init, HandshakeOrder, WokenWithOutcome, Tracked
<1>3. FakeIsOld /\ ThreadView
  BY DEF Init, FakeIsOld, ThreadView
<1>. QED
  BY <1>1, <1>2, <1>3 DEF IInv

\* IInv is inductive.
LEMMA NextIInv == IInv /\ [Next]_vars => IInv'
<1>. SUFFICES ASSUME IInv, [Next]_vars PROVE IInv'
  OBVIOUS
<1>1. CASE Step
  BY <1>1, StepKeepsIInv
<1>2. CASE Tasks
  BY <1>2, TasksKeepIInv
<1>3. CASE \E p \in Packet : Recv(p)
  BY <1>3, RecvKeepsIInv
<1>4. CASE UNCHANGED vars
  BY <1>4 DEF vars, IInv, TypeOK, HandshakeOrder, WokenWithOutcome, FakeIsOld,
     ThreadView, Tracked, Current, Key
<1>. QED
  BY <1>1, <1>2, <1>3, <1>4 DEF Next

LEMMA Invariance == Spec => []IInv
  BY InitIInv, NextIInv, PTL DEF Spec

\* Every number the injector computes is a u32, for every sequence space.
THEOREM TypeCorrect == Spec => []TypeOK
<1>1. IInv => TypeOK
  BY DEF IInv
<1>. QED
  BY <1>1, Invariance, PTL

\* No traffic, however reordered, duplicated or forged, makes a connection
\* succeed without the handshake and the fake.
THEOREM HandshakeOrdered == Spec => []HandshakeOrder
<1>1. IInv => HandshakeOrder
  BY DEF IInv
<1>. QED
  BY <1>1, Invariance, PTL

\* A handler is never woken before the outcome is written.
THEOREM WakeupsCarryOutcome == Spec => []WokenWithOutcome
<1>1. IInv => WokenWithOutcome
  BY DEF IInv
<1>. QED
  BY <1>1, Invariance, PTL

\* The only packet the injector makes up is a fake all of whose bytes lie
\* before the first byte the server expects, wrap-around included.
THEOREM FakeNeverNew == Spec => []FakeIsOld
<1>1. IInv => FakeIsOld
  BY DEF IInv
<1>. QED
  BY <1>1, Invariance, PTL

\* What the thread learnt before it gave up the lock still holds after.
THEOREM ViewIsStable == Spec => []ThreadView
<1>1. IInv => ThreadView
  BY DEF IInv
<1>. QED
  BY <1>1, Invariance, PTL

-----------------------------------------------------------------------------

\* What the thread has sent when it finishes with a tracked packet.
LEMMA PacketDone ==
  ASSUME IInv, Next, at # "recv", at' = "recv"
  PROVE  \/ \E i \in DOMAIN sent' : sent'[i] = packet
         \/ packet.inbound /\ FakeAckExpected(Current, packet)
<1>1. packet \in Packet /\ TypeOK
  BY CurrentTyped DEF IInv
<1>2. ASSUME Append(sent, packet) = sent' \/ sent = <<packet>>,
             sent' = sent \/ \E q \in Packet : sent' = Append(sent, q)
      PROVE  \E i \in DOMAIN sent' : sent'[i] = packet
  <2>1. CASE sent' = Append(sent, packet)
    <3>1. sent \in Seq(Packet)
      BY <1>1 DEF TypeOK
    <3>2. Len(sent) + 1 \in DOMAIN sent' /\ sent'[Len(sent) + 1] = packet
      BY <1>1, <2>1, <3>1
    <3>. QED
      BY <3>2
  <2>2. CASE sent = <<packet>>
    <3>1. 1 \in DOMAIN sent' /\ sent'[1] = packet
      BY <1>1, <1>2, <2>2
    <3>. QED
      BY <3>1
  <2>. QED
    BY <1>2, <2>1, <2>2
<1>3. Step
  BY DEF Next, Tasks, InsertConn, RemoveConn, TakePermit, Recv, RecvUntracked,
         RecvTracked
<1>4. CASE CheckMonitor \/ OutboundSyn \/ OutboundAck \/ InboundSynAck
  <2>1. Forward
    BY <1>4 DEF CheckMonitor, OutboundSyn, OutboundAck, InboundSynAck
  <2>. QED
    BY <1>1, <1>2, <2>1 DEF Forward
<1>5. CASE InboundFakeAck \/ NotExpected
  BY <1>5 DEF InboundFakeAck, NotExpected, Decide, IInv, ThreadView
<1>6. CASE Notify
  <2>1. CASE Current.t2a_msg = "unexpected_close"
    BY <1>1, <1>2, <1>6, <2>1 DEF Notify, Forward
  <2>2. CASE Current.t2a_msg # "unexpected_close"
    BY <1>6, <2>2 DEF Notify, IInv, ThreadView
  <2>. QED
    BY <2>1, <2>2
<1>7. CASE AfterDelay
  <2>1. sent = <<packet>> /\ Current.monitor /\ Current.bypass_method = "wrong_seq"
    BY <1>7 DEF AfterDelay, Decide, IInv, ThreadView
  <2>2. Current \in Conn /\ HandshakeAckExpected(Current, packet)
    BY <1>7, CurrentTyped DEF AfterDelay, IInv, ThreadView
  <2>3. Fake(Current, packet) \in Packet
    BY <1>1, <2>2, FakeTyped DEF HandshakeAckExpected
  <2>4. sent' = Append(sent, Fake(Current, packet))
    BY <1>7, <2>1 DEF AfterDelay
  <2>. QED
    BY <1>2, <2>1, <2>3, <2>4
<1>. QED
  BY <1>3, <1>4, <1>5, <1>6, <1>7 DEF Step

\* No packet of a tracked connection is swallowed but the confirmation.
THEOREM NoPacketLost == Spec => NothingLost
<1>1. IInv /\ [Next]_vars =>
        [at # "recv" /\ at' = "recv" =>
           \/ \E i \in DOMAIN sent' : sent'[i] = packet
           \/ packet.inbound /\ FakeAckExpected(Current, packet)]_vars
  BY PacketDone
<1>. QED
  BY <1>1, Invariance, PTL DEF Spec, NothingLost

\* A connection is sent at most one fake.
THEOREM FakeOnce == Spec => OneFake
<1>1. IInv /\ [Next]_vars =>
        [at = "delay" /\ sent' # sent =>
           ~Current.fake_sent /\ connections'[Key(packet)].fake_sent]_vars
  <2>. SUFFICES ASSUME IInv, Next, at = "delay", sent' # sent
                PROVE  ~Current.fake_sent /\ connections'[Key(packet)].fake_sent
    OBVIOUS
  <2>1. AfterDelay
    BY DEF Next, Tasks, InsertConn, RemoveConn, TakePermit, Recv, RecvUntracked,
       RecvTracked, Step, CheckMonitor, OutboundSyn, OutboundAck, InboundSynAck,
       InboundFakeAck, NotExpected, Notify, Handling
  <2>2. ~Current.fake_sent
    BY DEF IInv, ThreadView
  <2>3. /\ Current \in Conn /\ Current = connections[Key(packet)]
        /\ Key(packet) \in ConnKey
    BY CurrentTyped DEF IInv
  <2>4. connections' = [connections EXCEPT ![Key(packet)].fake_sent = TRUE]
    BY <2>1 DEF AfterDelay, Decide
  <2>5. connections'[Key(packet)] = [Current EXCEPT !.fake_sent = TRUE]
    BY <2>3, <2>4 DEF IInv, TypeOK
  <2>. QED
    BY <2>2, <2>3, <2>5 DEF Conn
<1>. QED
  BY <1>1, Invariance, PTL DEF Spec, OneFake

-----------------------------------------------------------------------------
(* What no step changes of a registration that stays.                      *)

Kept(c, d) ==
  /\ c.syn_seq \in {NotSeen, d.syn_seq}
  /\ c.syn_ack_seq \in {NotSeen, d.syn_ack_seq}
  /\ c.t2a_msg # "" => d.t2a_msg = c.t2a_msg /\ ~d.monitor

LEMMA NumberKept ==
  ASSUME NEW c \in Conn, OutcomeOf(c), NEW n
  PROVE  /\ c.syn_seq \in {NotSeen, n} => Kept(c, [c EXCEPT !.syn_seq = n])
         /\ c.syn_ack_seq \in {NotSeen, n} => Kept(c, [c EXCEPT !.syn_ack_seq = n])
  BY DEF Conn, Kept, OutcomeOf

LEMMA FlagsKept ==
  ASSUME NEW c \in Conn, OutcomeOf(c), NEW b
  PROVE  /\ Kept(c, c)
         /\ Kept(c, [c EXCEPT !.sch_fake_sent = b])
         /\ Kept(c, [c EXCEPT !.fake_sent = b])
         /\ Kept(c, [c EXCEPT !.permit = b])
  BY DEF Conn, Kept, OutcomeOf

\* An outcome is only written while the connection is monitored, that is, while
\* it has none.
LEMMA DecisionKept ==
  ASSUME NEW c \in Conn, OutcomeOf(c), c.monitor, NEW m
  PROVE  Kept(c, [c EXCEPT !.monitor = FALSE, !.t2a_msg = m])
  BY DEF Conn, Kept, OutcomeOf

\* The thread's own steps: only numbers it has not seen yet are written, and
\* only to the entry it holds.
LEMMA StepKeeps ==
  ASSUME IInv, Step
  PROVE  \/ connections' = connections
         \/ \E c : /\ Kept(Current, c)
                   /\ connections' = [connections EXCEPT ![Key(packet)] = c]
<1>1. at # "recv"
  BY DEF Step, CheckMonitor, OutboundSyn, OutboundAck, InboundSynAck, InboundFakeAck,
         NotExpected, Notify, AfterDelay, Handling
<1>2. /\ Current \in Conn /\ OutcomeOf(Current) /\ packet \in Packet
      /\ Current = connections[Key(packet)]
  BY <1>1, CurrentTyped, CurrentOrdered DEF IInv
<1>3. CASE OutboundSyn
  <2>1. Current.syn_seq \in {NotSeen, packet.seq_num}
    BY <1>3 DEF OutboundSyn, Handling, Expected, OutboundExpected, SynExpected,
                HandshakeAckExpected, Syn, Ack
  <2>2. connections' = [connections EXCEPT
                          ![Key(packet)] = [Current EXCEPT !.syn_seq = packet.seq_num]]
    BY <1>2, <1>3 DEF OutboundSyn
  <2>. QED
    BY <1>2, <2>1, <2>2, NumberKept
<1>4. CASE InboundSynAck
  <2>1. Current.syn_ack_seq \in {NotSeen, packet.seq_num}
    BY <1>4 DEF InboundSynAck, Handling, Expected, InboundExpected, SynAckExpected,
                FakeAckExpected, SynAck, Ack
  <2>2. connections' = [connections EXCEPT
                          ![Key(packet)] = [Current EXCEPT !.syn_ack_seq = packet.seq_num]]
    BY <1>2, <1>4 DEF InboundSynAck
  <2>. QED
    BY <1>2, <2>1, <2>2, NumberKept
<1>5. CASE OutboundAck
  <2>1. connections' = [connections EXCEPT
                          ![Key(packet)] = [Current EXCEPT !.sch_fake_sent = TRUE]]
    BY <1>2, <1>5 DEF OutboundAck
  <2>. QED
    BY <1>2, <2>1, FlagsKept
<1>6. CASE Notify
  <2>1. connections' = [connections EXCEPT
                          ![Key(packet)] = [Current EXCEPT !.permit = TRUE]]
    BY <1>2, <1>6 DEF Notify
  <2>. QED
    BY <1>2, <2>1, FlagsKept
<1>7. ASSUME NEW m, Decide(m), Current.monitor
      PROVE  \E c : /\ Kept(Current, c)
                    /\ connections' = [connections EXCEPT ![Key(packet)] = c]
  <2>1. connections' = [connections EXCEPT
          ![Key(packet)] = [Current EXCEPT !.monitor = FALSE, !.t2a_msg = m]]
    BY <1>2, <1>7 DEF Decide
  <2>. QED
    BY <1>2, <1>7, <2>1, DecisionKept
<1>8. CASE InboundFakeAck \/ NotExpected
  BY <1>7, <1>8 DEF InboundFakeAck, NotExpected, Handling
<1>9. CASE AfterDelay
  <2>1. CASE Current.monitor /\ Current.bypass_method = "wrong_seq"
    <3>1. connections' = [connections EXCEPT
                            ![Key(packet)] = [Current EXCEPT !.fake_sent = TRUE]]
      BY <1>2, <1>9, <2>1 DEF AfterDelay
    <3>. QED
      BY <1>2, <3>1, FlagsKept
  <2>2. CASE ~(Current.monitor /\ Current.bypass_method = "wrong_seq")
    BY <1>7, <1>9, <2>2 DEF AfterDelay
  <2>. QED
    BY <2>1, <2>2
<1>10. CASE CheckMonitor
  BY <1>10 DEF CheckMonitor
<1>. QED
  BY <1>3, <1>4, <1>5, <1>6, <1>8, <1>9, <1>10 DEF Step

LEMMA RegistrationKept ==
  ASSUME IInv, Next, NEW k \in ConnKey, SameConn(k)
  PROVE  Kept(connections[k], connections'[k])
<1>1. /\ connections \in [ConnKey -> Conn \cup {NoConn}]
      /\ connections[k] \in Conn /\ OutcomeOf(connections[k])
  BY DEF IInv, TypeOK, WokenWithOutcome, SameConn, Tracked, OutcomeOf
<1>2. Kept(connections[k], connections[k])
  BY <1>1, FlagsKept
<1>3. ASSUME NEW q \in ConnKey, NEW d \in Payloads, NEW m \in Methods, InsertConn(q, d, m)
      PROVE  q # k /\ connections'[k] = connections[k]
  <2>1. connections' = [connections EXCEPT ![q] = NewConn(d, m)]
    BY <1>3 DEF InsertConn
  <2>2. NewConn(d, m).fake_data = d /\ NewConn(d, m).bypass_method = m
    BY DEF NewConn
  <2>. QED
    BY <1>1, <2>1, <2>2 DEF SameConn
<1>4. ASSUME NEW q \in ConnKey, RemoveConn(q)
      PROVE  connections'[k] = connections[k]
  BY <1>1, <1>4 DEF RemoveConn, SameConn, Tracked
<1>5. ASSUME NEW q \in ConnKey, TakePermit(q)
      PROVE  Kept(connections[k], connections'[k])
  <2>1. connections'[k] \in {connections[k], [connections[k] EXCEPT !.permit = FALSE]}
    BY <1>1, <1>5 DEF TakePermit
  <2>. QED
    BY <1>1, <2>1, FlagsKept
<1>6. CASE Step
  <2>1. CASE connections' = connections
    BY <1>2, <2>1
  <2>2. ASSUME NEW c, Kept(Current, c),
               connections' = [connections EXCEPT ![Key(packet)] = c]
        PROVE  Kept(connections[k], connections'[k])
    <3>1. CASE Key(packet) = k
      BY <1>1, <2>2, <3>1 DEF Current
    <3>2. CASE Key(packet) # k
      BY <1>1, <1>2, <2>2, <3>2
    <3>. QED
      BY <3>1, <3>2
  <2>. QED
    BY <1>6, <2>1, <2>2, StepKeeps
<1>7. CASE \E p \in Packet : Recv(p)
  BY <1>2, <1>7 DEF Recv, RecvUntracked, RecvTracked
<1>. QED
  BY <1>2, <1>3, <1>4, <1>5, <1>6, <1>7 DEF Next, Tasks

\* An outcome, once written, stays, and the connection is never monitored again.
THEOREM OutcomeStays == Spec => OutcomeIsFinal
<1>1. IInv /\ [Next]_vars =>
        [\A k \in ConnKey :
           SameConn(k) /\ connections[k].t2a_msg # "" =>
             /\ connections'[k].t2a_msg = connections[k].t2a_msg
             /\ ~connections'[k].monitor]_vars
  BY RegistrationKept DEF Kept
<1>. QED
  BY <1>1, Invariance, PTL DEF Spec, OutcomeIsFinal

\* The numbers of a connection are written once.
THEOREM NumbersStay == Spec => NumbersAreStable
<1>1. IInv /\ [Next]_vars =>
        [\A k \in ConnKey : SameConn(k) =>
           /\ connections[k].syn_seq \in {NotSeen, connections'[k].syn_seq}
           /\ connections[k].syn_ack_seq \in {NotSeen, connections'[k].syn_ack_seq}]_vars
  BY RegistrationKept DEF Kept
<1>. QED
  BY <1>1, Invariance, PTL DEF Spec, NumbersAreStable

=============================================================================
