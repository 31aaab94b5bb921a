------------------------------ MODULE Injector ------------------------------
(***************************************************************************)
(* The packet injector of src/src/injector.rs: one operating-system thread *)
(* that receives every packet WinDivert captures, finds the tracked        *)
(* connection it belongs to and forwards, swallows or answers it.          *)
(*                                                                         *)
(* The traffic is arbitrary: recv may return any packet of Packet at any   *)
(* time, in any order and any number of times.  The async tasks are        *)
(* arbitrary too: they may insert a fresh connection or remove one         *)
(* whenever the map lets them.  Bypass.tla replaces both by the connection *)
(* handlers, the TCP stacks and the network.                               *)
(***************************************************************************)
EXTENDS Tracking

VARIABLES
  connections,   \* the DashMap: a connection or NoConn for every key
  at,            \* where the injector thread is in its loop
  packet,        \* the packet in its buffer
  sent           \* what wd.send was given for that packet, in order

vars == <<connections, at, packet, sent>>

Init ==
  /\ connections = [k \in ConnKey |-> NoConn]
  /\ at = "recv"
  /\ packet = NoPacket
  /\ sent = <<>>

-----------------------------------------------------------------------------
(* The map, and the guard the injector holds on it.                        *)

Tracked(k) == connections[k] # NoConn

\* From get to the end of the match arm the thread owns a Ref: the shard's
\* read lock keeps the entry from being replaced or removed.
Guarded(k) == at # "recv" /\ Key(packet) = k

Current == connections[Key(packet)]

Forward == sent' = Append(sent, packet)

InsertConnMutant(k, fake_data, method) ==
  /\ connections' = [connections EXCEPT ![k] = NewConn(fake_data, method)]
  /\ UNCHANGED <<at, packet, sent>>

\* handle_connection's insert: it replaces whatever the key held.
InsertConn(k, fake_data, method) ==
  /\ ~Guarded(k)
  /\ connections' = [connections EXCEPT ![k] = NewConn(fake_data, method)]
  /\ UNCHANGED <<at, packet, sent>>

\* handle_connection's remove: it does not look at what the key holds.
RemoveConn(k) ==
  /\ ~Guarded(k)
  /\ connections' = [connections EXCEPT ![k] = NoConn]
  /\ UNCHANGED <<at, packet, sent>>

TakePermitMutant(k) ==
  /\ Tracked(k)
  /\ connections[k].permit
  /\ connections' = [connections EXCEPT ![k].permit = FALSE, ![k].t2a_msg = ""]
  /\ UNCHANGED <<at, packet, sent>>

\* The handler's notified() future consumes the permit.
TakePermit(k) ==
  /\ Tracked(k)
  /\ connections[k].permit
  /\ connections' = [connections EXCEPT ![k].permit = FALSE]
  /\ UNCHANGED <<at, packet, sent>>
-----------------------------------------------------------------------------
(* The receive loop.                                                       *)

\* A packet of no tracked connection is passed through.
RecvUntracked(p) ==
  /\ at = "recv"
  /\ ~Tracked(Key(p))
  /\ packet' = p
  /\ sent' = <<p>>
  /\ UNCHANGED <<connections, at>>

\* A packet of a tracked connection: the thread now holds the entry's guard.
RecvTracked(p) ==
  /\ at = "recv"
  /\ Tracked(Key(p))
  /\ packet' = p
  /\ sent' = <<>>
  /\ at' = "found"
  /\ UNCHANGED connections

CheckMonitorMutant ==
  /\ at = "found"
  /\ at' = IF Current.monitor THEN "handle" ELSE "recv"
  /\ UNCHANGED <<connections, packet, sent>>

\* The first look at monitor, in a critical section of its own: a connection
\* with an outcome no longer concerns the injector.
CheckMonitor ==
  /\ at = "found"
  /\ IF Current.monitor
       THEN at' = "handle" /\ UNCHANGED sent
       ELSE at' = "recv" /\ Forward
  /\ UNCHANGED <<connections, packet>>

-----------------------------------------------------------------------------
(* handle_outbound and handle_inbound, under the connection's lock.        *)

\* The packet is expected and monitor, read again, is still set.
Handling(inbound) ==
  /\ at = "handle"
  /\ packet.inbound = inbound
  /\ Current.monitor
  /\ Expected(Current, packet)

OutboundSyn ==
  /\ Handling(FALSE) /\ packet.flags = Syn
  /\ connections' = [connections EXCEPT ![Key(packet)].syn_seq = packet.seq_num]
  /\ Forward
  /\ at' = "recv"
  /\ UNCHANGED packet

\* The real ACK goes first; then the lock, but not the thread, is released
\* for the millisecond before the injection.
OutboundAck ==
  /\ Handling(FALSE) /\ packet.flags = Ack
  /\ connections' = [connections EXCEPT ![Key(packet)].sch_fake_sent = TRUE]
  /\ Forward
  /\ at' = "delay"
  /\ UNCHANGED packet

InboundSynAck ==
  /\ Handling(TRUE) /\ packet.flags = SynAck
  /\ connections' = [connections EXCEPT
                       ![Key(packet)].syn_ack_seq = packet.seq_num]
  /\ Forward
  /\ at' = "recv"
  /\ UNCHANGED packet

DecideMutant(msg) ==
  /\ connections' = [connections EXCEPT ![Key(packet)].monitor = FALSE,
                                        ![Key(packet)].permit = TRUE]
  /\ at' = "notify"

\* An outcome: monitor is cleared and the message written before the handler
\* is woken.
Decide(msg) ==
  /\ connections' = [connections EXCEPT ![Key(packet)].monitor = FALSE,
                                        ![Key(packet)].t2a_msg = msg]
  /\ at' = "notify"

\* "fake_data_ack_recv": the server answered and nothing went wrong.
InboundFakeAck ==
  /\ Handling(TRUE) /\ packet.flags = Ack
  /\ Decide("fake_data_ack_recv")
  /\ UNCHANGED <<packet, sent>>

\* Any other packet: on_unexpected_locked, unless monitor turned out to be
\* cleared, in which case the handler returns and the packet is dropped.
NotExpected ==
  /\ at = "handle"
  /\ ~(Current.monitor /\ Expected(Current, packet))
  /\ IF Current.monitor
       THEN Decide("unexpected_close")
       ELSE at' = "recv" /\ UNCHANGED connections
  /\ UNCHANGED <<packet, sent>>

\* notify_one; on_unexpected_locked then passes the packet on, while the ACK
\* of the fake never reaches the local TCP stack.
Notify ==
  /\ at = "notify"
  /\ connections' = [connections EXCEPT ![Key(packet)].permit = TRUE]
  /\ IF Current.t2a_msg = "unexpected_close" THEN Forward ELSE UNCHANGED sent
  /\ at' = "recv"
  /\ UNCHANGED packet

\* inject_fake_packet: the ACK's headers, a wrong number, the fake payload.
Fake(c, p) == [p EXCEPT !.seq_num = WrongSeq(c.syn_seq, FakeLen),
                        !.payload = c.fake_data]

AfterDelayMutant ==
  /\ at = "delay"
  /\ Decide("fake_data_ack_recv")
  /\ sent' = Append(sent, Fake(Current, packet))
  /\ UNCHANGED packet

\* After the delay, with the lock taken again.
AfterDelay ==
  /\ at = "delay"
  /\ IF ~Current.monitor
       THEN at' = "recv" /\ UNCHANGED <<connections, sent>>
       ELSE IF Current.bypass_method = "wrong_seq"
         THEN /\ connections' = [connections EXCEPT
                                   ![Key(packet)].fake_sent = TRUE]
              /\ sent' = Append(sent, Fake(Current, packet))
              /\ at' = "recv"
         ELSE Decide("unexpected_close") /\ UNCHANGED sent
  /\ UNCHANGED packet

-----------------------------------------------------------------------------

\* One turn of the injector thread, once it has a packet.
Step ==
  \/ CheckMonitor
  \/ OutboundSyn \/ OutboundAck \/ InboundSynAck \/ InboundFakeAck
  \/ NotExpected \/ Notify \/ AfterDelay

Recv(p) == RecvUntracked(p) \/ RecvTracked(p)

Tasks ==
  \E k \in ConnKey :
    \/ \E d \in Payloads, m \in Methods : InsertConn(k, d, m)
    \/ RemoveConn(k)
    \/ TakePermit(k)

Next == Step \/ Tasks \/ \E p \in Packet : Recv(p)

Spec == Init /\ [][Next]_vars

-----------------------------------------------------------------------------
(* Properties.                                                             *)

\* Every u32 the injector stores or sends is a u32, every flag a flag.
TypeOK ==
  /\ connections \in [ConnKey -> Conn \cup {NoConn}]
  /\ at \in {"recv", "found", "handle", "delay", "notify"}
  /\ packet \in Packet \cup {NoPacket}
  /\ sent \in Seq(Packet)

\* The order of the handshake cannot be shortcut by any traffic: a fake is
\* scheduled only once both initial numbers are known, sent only once
\* scheduled, and only a connection whose fake was sent can succeed.
HandshakeOrder ==
  \A k \in ConnKey : Tracked(k) =>
    LET c == connections[k] IN
    /\ c.syn_ack_seq # NotSeen => c.syn_seq # NotSeen
    /\ c.sch_fake_sent => c.syn_ack_seq # NotSeen
    /\ c.fake_sent => c.sch_fake_sent
    /\ c.t2a_msg = "fake_data_ack_recv" => c.fake_sent

\* A handler that can be woken finds an outcome, and a connection with an
\* outcome is no longer monitored: message and flag precede the notify.
WokenWithOutcome ==
  \A k \in ConnKey : Tracked(k) =>
    /\ connections[k].permit => connections[k].t2a_msg # ""
    /\ connections[k].t2a_msg # "" => ~connections[k].monitor

\* Whatever the thread sends that it did not receive is the fake, sent right
\* after the handshake ACK it copies, and its bytes end where that ACK says
\* the client's first byte begins: the server can only see them as old.
FakeIsOld ==
  \A i \in DOMAIN sent : sent[i] # packet =>
    /\ i = 2 /\ sent[1] = packet
    /\ packet.flags = Ack /\ ~packet.inbound
    /\ WrappingAdd(sent[2].seq_num, FakeLen) = packet.seq_num
    /\ sent[2].ack_num = packet.ack_num

\* What the thread read under the connection's lock still holds when it acts on
\* it, although it gives the lock up after the first look at monitor and again
\* for the delay, and other tasks run in between.
ThreadView ==
  at # "recv" =>
    /\ packet \in Packet
    /\ Tracked(Key(packet))
    /\ at \in {"found", "handle"} => sent = <<>>
    /\ at \in {"handle", "delay"} => Current.monitor
    /\ at = "delay" =>
         /\ ~packet.inbound
         /\ HandshakeAckExpected(Current, packet)
         /\ Current.sch_fake_sent /\ ~Current.fake_sent
         /\ sent = <<packet>>
    /\ at = "notify" =>
         /\ sent \in {<<>>, <<packet>>}
         /\ \/ Current.t2a_msg = "unexpected_close"
            \/ /\ Current.t2a_msg = "fake_data_ack_recv"
               /\ packet.inbound /\ FakeAckExpected(Current, packet)

\* When the thread is done with a packet of a tracked connection it has sent
\* it on, except the ACK that confirms the fake: the recheck of monitor that
\* would drop a packet silently never does.
NothingLost ==
  [][at # "recv" /\ at' = "recv" =>
       \/ \E i \in DOMAIN sent' : sent'[i] = packet
       \/ packet.inbound /\ FakeAckExpected(Current, packet)]_vars

\* k keeps the registration it has: it is not removed or replaced.
SameConn(k) ==
  /\ Tracked(k) /\ Tracked(k)'
  /\ connections'[k] # NewConn(connections'[k].fake_data,
                               connections'[k].bypass_method)

\* A connection gets one outcome: nothing that arrives later, and no second
\* reader, changes the message or monitors the connection again.
OutcomeIsFinal ==
  [][\A k \in ConnKey :
       SameConn(k) /\ connections[k].t2a_msg # "" =>
         /\ connections'[k].t2a_msg = connections[k].t2a_msg
         /\ ~connections'[k].monitor]_vars

\* Retransmitted or stray handshake segments never move the numbers that the
\* fake and its confirmation are computed from.
NumbersAreStable ==
  [][\A k \in ConnKey : SameConn(k) =>
       /\ connections[k].syn_seq \in {NotSeen, connections'[k].syn_seq}
       /\ connections[k].syn_ack_seq \in {NotSeen, connections'[k].syn_ack_seq}
    ]_vars

\* A connection is sent at most one fake, whatever is retransmitted.
OneFake ==
  [][at = "delay" /\ sent' # sent =>
       ~Current.fake_sent /\ connections'[Key(packet)].fake_sent]_vars

=============================================================================
