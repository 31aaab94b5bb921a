--------------------------- MODULE PyBypass_proofs ---------------------------
(***************************************************************************)
(* Proofs about PyBypass: for any number of clients, ports and payloads,   *)
(* any sequence space and any traffic.                                     *)
(***************************************************************************)
EXTENDS PyBypass, TLAPS

\* The conditions of the two handlers play no part in these proofs, apart from
\* what the two ACKs have seen.
LEMMA AckExpected ==
  ASSUME NEW c, NEW p, p.flags = Ack, Expected(c, p)
  PROVE  IF p.inbound THEN c.fake_sent ELSE ~c.sch_fake_sent
  BY DEF Expected, InboundExpected, OutboundExpected, SynAckExpected,
     FakeAckExpected, Ack, SynAck

\* A connection stays one when its fields are set.
LEMMA FlagsTyped ==
  ASSUME NEW c \in Conn, NEW msg \in {"unexpected_close", "fake_data_ack_recv"}
  PROVE  /\ [c EXCEPT !.monitor = FALSE] \in Conn
         /\ [c EXCEPT !.sch_fake_sent = TRUE] \in Conn
         /\ [c EXCEPT !.fake_sent = TRUE] \in Conn
         /\ [c EXCEPT !.permit = TRUE] \in Conn
         /\ [c EXCEPT !.monitor = FALSE, !.t2a_msg = msg] \in Conn
  BY DEF Conn

LEMMA NumbersTyped ==
  ASSUME NEW c \in Conn, NEW p \in Packet
  PROVE  /\ [c EXCEPT !.syn_seq = p.seq_num] \in Conn
         /\ [c EXCEPT !.syn_ack_seq = p.seq_num] \in Conn
  BY DEF Conn, Packet

\* A count goes up by one.
LEMMA CountsFake ==
  ASSUME NEW h \in Handlers, fakes \in [Handlers -> Nat],
         fakes' = [fakes EXCEPT ![h] = @ + 1]
  PROVE  /\ fakes' \in [Handlers -> Nat] /\ fakes'[h] # 0
         /\ \A q \in Handlers \ {h} : fakes'[q] = fakes[q]
<1>1. fakes[h] \in Nat
  OBVIOUS
<1>2. fakes[h] + 1 \in Nat \ {0}
  BY <1>1
<1>3. QED
  BY <1>2

\* What the injector thread holds between two packets.
InHand ==
  /\ at \in {"found", "handle", "notify"} => target \in Handlers /\ packet \in Packet
  /\ at \in {"recv", "dead"} => target = NoConn

LEMMA TypeStep == TypeOK /\ InHand /\ [Next]_vars => TypeOK' /\ InHand'
<1> SUFFICES ASSUME TypeOK, InHand, [Next]_vars PROVE TypeOK' /\ InHand'
  OBVIOUS
<1> USE PyBypassAssumption DEF TypeOK, InHand, injector, handler
<1>1. CASE UNCHANGED vars
  BY <1>1 DEF vars
<1>2. ASSUME NEW h \in Handlers, NEW p \in LocalPorts, Accept(h, p)
      PROVE  TypeOK' /\ InHand'
  BY <1>2 DEF Accept
<1>3. ASSUME NEW h \in Handlers, BindRaises(h) \/ Connected(h)
      PROVE  TypeOK' /\ InHand'
  BY <1>3 DEF BindRaises, SysExit, Connected
<1>4. ASSUME NEW h \in Handlers, NEW l \in {"relay", "closed"}, Leave(h, l),
             pc[h] \in {"connecting", "waiting"}
      PROVE  TypeOK' /\ InHand'
  <2>1. conn' \in [Handlers -> Conn]
    BY <1>4, FlagsTyped DEF Leave
  <2>2. sock[h] \in {"none", "open", "established", "closed", "time_wait"}
        /\ AfterClose(sock[h]) \in {"none", "open", "established", "closed", "time_wait"}
    BY DEF AfterClose
  <2>3. QED
    BY <1>4, <2>1, <2>2 DEF Leave, SysExit
<1>5. ASSUME NEW h \in Handlers, ConnectFailed(h) \/ WaitEnds(h)
      PROVE  TypeOK' /\ InHand'
  BY <1>4, <1>5 DEF ConnectFailed, WaitEnds, WokenUp, TimedOut, SysExit
<1>6. ASSUME NEW h \in Handlers, FakeStep(h) PROVE TypeOK' /\ InHand'
  <2>1. CASE FakeSends(h)
    <3>1. conn' \in [Handlers -> Conn]
      BY <2>1, FlagsTyped DEF FakeSends
    <3>2. fakes' \in [Handlers -> Nat]
      BY <2>1, CountsFake DEF FakeSends
    <3>3. QED
      BY <2>1, <3>1, <3>2 DEF FakeSends
  <2>2. CASE FakeWakes(h) \/ FakeReleases(h)
    BY <2>2 DEF FakeWakes, FakeReleases
  <2>3. QED
    BY <1>6, <2>1, <2>2 DEF FakeStep
<1>7. ASSUME NEW h \in Handlers, Established(h) \/ Released(h)
      PROVE  TypeOK' /\ InHand'
  BY <1>7 DEF Established, Released
<1>8. ASSUME NEW p \in Traffic, Recv(p) PROVE TypeOK' /\ InHand'
  <2>1. p \in Packet /\ p.local \in LocalPorts
    BY DEF Packet
  <2>2. QED
    BY <1>8, <2>1 DEF Recv
<1>9. CASE Enter
  BY <1>9 DEF Enter, Idle
<1>10. CASE OutboundSyn
  BY <1>10, NumbersTyped DEF OutboundSyn, Handling, Done, Idle
<1>11. CASE OutboundAck
  BY <1>11, FlagsTyped DEF OutboundAck, Handling, Done, Idle
<1>12. CASE InboundSynAck
  BY <1>12, NumbersTyped DEF InboundSynAck, Handling, Done, Idle
<1>13. CASE InboundFakeAck
  BY <1>13, FlagsTyped DEF InboundFakeAck, Handling, Decide
<1>14. CASE Unexpected
  <2>1. AfterClose(sock[target]) \in {"none", "open", "established", "closed", "time_wait"}
    BY <1>14 DEF Unexpected, AfterClose
  <2>2. QED
    BY <1>14, <2>1, FlagsTyped DEF Unexpected, Decide
<1>15. CASE Notify
  BY <1>15, FlagsTyped DEF Notify, Done, Idle
<1>16. CASE InjectorDies
  BY <1>16 DEF InjectorDies, Idle
<1>17. QED
  BY <1>1, <1>2, <1>3, <1>5, <1>6, <1>7, <1>8, <1>9, <1>10, <1>11, <1>12, <1>13,
     <1>14, <1>15, <1>16
  DEF Next, HandlerStep, ConnectEnds, InjectorStep

-----------------------------------------------------------------------------
(* What an update of one field leaves of the others.                       *)

\* The fields of a record of which one is set.
LEMMA OneFieldSet ==
  ASSUME NEW c \in Conn, NEW d
  PROVE  /\ d = [c EXCEPT !.monitor = FALSE] =>
              /\ ~d.monitor /\ d.permit = c.permit /\ d.t2a_msg = c.t2a_msg
              /\ d.sch_fake_sent = c.sch_fake_sent /\ d.fake_sent = c.fake_sent
         /\ d = [c EXCEPT !.sch_fake_sent = TRUE] =>
              /\ d.monitor = c.monitor /\ d.permit = c.permit /\ d.t2a_msg = c.t2a_msg
              /\ d.sch_fake_sent /\ d.fake_sent = c.fake_sent
         /\ d = [c EXCEPT !.fake_sent = TRUE] =>
              /\ d.monitor = c.monitor /\ d.permit = c.permit /\ d.t2a_msg = c.t2a_msg
              /\ d.sch_fake_sent = c.sch_fake_sent /\ d.fake_sent
         /\ d = [c EXCEPT !.permit = TRUE] =>
              /\ d.monitor = c.monitor /\ d.permit /\ d.t2a_msg = c.t2a_msg
              /\ d.sch_fake_sent = c.sch_fake_sent /\ d.fake_sent = c.fake_sent
<1>1. CASE d = [c EXCEPT !.monitor = FALSE]
  BY <1>1, Zenon DEF Conn
<1>2. CASE d = [c EXCEPT !.sch_fake_sent = TRUE]
  BY <1>2, Zenon DEF Conn
<1>3. CASE d = [c EXCEPT !.fake_sent = TRUE]
  BY <1>3, Zenon DEF Conn
<1>4. CASE d = [c EXCEPT !.permit = TRUE]
  BY <1>4, Zenon DEF Conn
<1>. QED
  BY <1>1, <1>2, <1>3, <1>4

KeepsOutcome(h) ==
  /\ conn'[h].monitor = conn[h].monitor /\ conn'[h].permit = conn[h].permit
  /\ conn'[h].t2a_msg = conn[h].t2a_msg

KeepsFake(h) ==
  /\ conn'[h].sch_fake_sent = conn[h].sch_fake_sent
  /\ conn'[h].fake_sent = conn[h].fake_sent

LEMMA ClearsMonitor ==
  ASSUME TypeOK, NEW h \in Handlers, conn' = [conn EXCEPT ![h].monitor = FALSE]
  PROVE  /\ ~conn'[h].monitor /\ conn'[h].permit = conn[h].permit
         /\ conn'[h].t2a_msg = conn[h].t2a_msg /\ KeepsFake(h)
<1>1. conn[h] \in Conn
  BY DEF TypeOK
<1>2. conn'[h] = [conn[h] EXCEPT !.monitor = FALSE]
  BY DEF TypeOK
<1>3. QED
  BY <1>1, <1>2, OneFieldSet, Zenon DEF KeepsFake

LEMMA SetsNumber ==
  ASSUME TypeOK, NEW h \in Handlers, NEW n,
         \/ conn' = [conn EXCEPT ![h].syn_seq = n]
         \/ conn' = [conn EXCEPT ![h].syn_ack_seq = n]
  PROVE  KeepsOutcome(h) /\ KeepsFake(h)
<1>1. /\ conn[h] \in Conn
      /\ \/ conn'[h] = [conn[h] EXCEPT !.syn_seq = n]
         \/ conn'[h] = [conn[h] EXCEPT !.syn_ack_seq = n]
  BY DEF TypeOK
<1>2. QED
  BY <1>1 DEF Conn, KeepsOutcome, KeepsFake

LEMMA SchedulesFake ==
  ASSUME TypeOK, NEW h \in Handlers, conn' = [conn EXCEPT ![h].sch_fake_sent = TRUE]
  PROVE  /\ conn'[h].sch_fake_sent /\ conn'[h].fake_sent = conn[h].fake_sent
         /\ KeepsOutcome(h)
<1>1. conn[h] \in Conn
  BY DEF TypeOK
<1>2. conn'[h] = [conn[h] EXCEPT !.sch_fake_sent = TRUE]
  BY DEF TypeOK
<1>3. QED
  BY <1>1, <1>2, OneFieldSet, Zenon DEF KeepsOutcome

LEMMA SetsFakeSent ==
  ASSUME TypeOK, NEW h \in Handlers, conn' = [conn EXCEPT ![h].fake_sent = TRUE]
  PROVE  /\ conn'[h].fake_sent /\ conn'[h].sch_fake_sent = conn[h].sch_fake_sent
         /\ KeepsOutcome(h)
<1>1. conn[h] \in Conn
  BY DEF TypeOK
<1>2. conn'[h] = [conn[h] EXCEPT !.fake_sent = TRUE]
  BY DEF TypeOK
<1>3. QED
  BY <1>1, <1>2, OneFieldSet, Zenon DEF KeepsOutcome

LEMMA SetsPermit ==
  ASSUME TypeOK, NEW h \in Handlers, conn' = [conn EXCEPT ![h].permit = TRUE]
  PROVE  /\ conn'[h].monitor = conn[h].monitor
         /\ conn'[h].t2a_msg = conn[h].t2a_msg /\ KeepsFake(h)
<1>1. conn[h] \in Conn
  BY DEF TypeOK
<1>2. conn'[h] = [conn[h] EXCEPT !.permit = TRUE]
  BY DEF TypeOK
<1>3. QED
  BY <1>1, <1>2, OneFieldSet, Zenon DEF KeepsFake

LEMMA SetsOutcome ==
  ASSUME TypeOK, NEW h \in Handlers, NEW m,
         conn' = [conn EXCEPT ![h].monitor = FALSE, ![h].t2a_msg = m]
  PROVE  /\ ~conn'[h].monitor /\ conn'[h].t2a_msg = m
         /\ conn'[h].permit = conn[h].permit /\ KeepsFake(h)
<1>1. conn[h] \in Conn /\ conn' = [conn EXCEPT ![h] = [conn[h] EXCEPT !.monitor = FALSE, !.t2a_msg = m]]
  BY DEF TypeOK
<1>2. conn'[h] = [conn[h] EXCEPT !.monitor = FALSE, !.t2a_msg = m]
  BY <1>1 DEF TypeOK
<1>3. QED
  BY <1>1, <1>2 DEF Conn, KeepsFake

\* The other connections are left alone.
Others(h) == \A q \in Handlers \ {h} : conn'[q] = conn[q]

LEMMA OthersKept ==
  ASSUME NEW h, NEW m, NEW n,
         conn \in [Handlers -> Conn],
         \/ conn' = conn
         \/ conn' = [conn EXCEPT ![h].monitor = FALSE]
         \/ conn' = [conn EXCEPT ![h].syn_seq = n]
         \/ conn' = [conn EXCEPT ![h].syn_ack_seq = n]
         \/ conn' = [conn EXCEPT ![h].sch_fake_sent = TRUE]
         \/ conn' = [conn EXCEPT ![h].fake_sent = TRUE]
         \/ conn' = [conn EXCEPT ![h].permit = TRUE]
         \/ conn' = [conn EXCEPT ![h].monitor = FALSE, ![h].t2a_msg = m]
  PROVE  Others(h)
  BY DEF Others

-----------------------------------------------------------------------------
(* The critical sections.                                                  *)

Locks ==
  \A h \in Handlers :
    /\ lock[h] = "injector" <=> target = h /\ at \in {"handle", "notify"}
    /\ lock[h] = "fake" <=> thread[h] \in {"sending", "sent"}

LEMMA LockStep == TypeOK /\ InHand /\ Locks /\ [Next]_vars => Locks'
<1> SUFFICES ASSUME TypeOK, InHand, Locks, [Next]_vars PROVE Locks'
  OBVIOUS
<1>a. /\ lock \in [Handlers -> {"free", "injector", "fake"}]
      /\ thread \in [Handlers -> {"none", "sleeping", "sending", "sent", "done"}]
  BY DEF TypeOK
<1> USE <1>a, PyBypassAssumption DEF InHand, Locks, injector, handler
<1>1. CASE UNCHANGED vars
  BY <1>1 DEF vars
<1>2. ASSUME NEW h \in Handlers, HandlerStep(h) \/ Established(h) \/ Released(h)
      PROVE  Locks'
  <2>1. UNCHANGED <<lock, thread, injector>>
    BY <1>2 DEF HandlerStep, Accept, BindRaises, ConnectEnds, Connected, ConnectFailed,
      WaitEnds, WokenUp, TimedOut, Leave, Established, Released
  <2>2. QED
    BY <2>1
<1>3. ASSUME NEW h \in Handlers, FakeStep(h) PROVE Locks'
  BY <1>3 DEF FakeStep, FakeSends, FakeWakes, FakeReleases
<1>4. ASSUME NEW p \in Traffic, Recv(p) PROVE Locks'
  BY <1>4 DEF Recv
<1>5. CASE Enter
  BY <1>5 DEF Enter, Idle
<1>6. CASE OutboundSyn \/ InboundSynAck \/ Notify
  BY <1>6 DEF OutboundSyn, InboundSynAck, Notify, Handling, Done, Idle
<1>7. CASE OutboundAck
  <2>1. lock[target] = "injector"
    BY <1>7 DEF OutboundAck, Handling
  <2>2. QED
    BY <1>7, <2>1 DEF OutboundAck, Handling, Done, Idle
<1>8. CASE InboundFakeAck \/ Unexpected
  BY <1>8 DEF InboundFakeAck, Unexpected, Handling, Decide
<1>9. CASE InjectorDies
  BY <1>9 DEF InjectorDies, Idle
<1>10. QED
  BY <1>1, <1>2, <1>3, <1>4, <1>5, <1>6, <1>7, <1>8, <1>9 DEF Next, InjectorStep

\* Whoever is in the critical section found the connection monitored; so there is
\* no outcome yet, except the one the injector has just written itself.
OutcomeOf(h) ==
  /\ conn[h].t2a_msg # "" => ~conn[h].monitor
  /\ conn[h].permit => conn[h].t2a_msg # ""
  /\ target = h /\ at = "handle" => conn[h].t2a_msg = ""
  /\ target = h /\ at = "notify" => conn[h].t2a_msg # ""
  /\ thread[h] = "sending" => conn[h].t2a_msg = ""

LEMMA OutcomeStep ==
  ASSUME TypeOK, InHand, Locks, [Next]_vars, NEW q \in Handlers, OutcomeOf(q)
  PROVE  OutcomeOf(q)'
<1>a. conn \in [Handlers -> Conn]
  BY DEF TypeOK
<1>b. thread \in [Handlers -> {"none", "sleeping", "sending", "sent", "done"}]
  BY DEF TypeOK
<1> USE <1>a, <1>b, PyBypassAssumption DEF InHand, OutcomeOf, injector, handler
<1>1. CASE UNCHANGED vars
  BY <1>1 DEF vars
<1>2. ASSUME NEW h \in Handlers, \/ \E p \in LocalPorts : Accept(h, p)
             \/ BindRaises(h) \/ Connected(h) \/ Established(h) \/ Released(h)
      PROVE  OutcomeOf(q)'
  BY <1>2 DEF Accept, BindRaises, Connected, Established, Released
<1>3. ASSUME NEW h \in Handlers, NEW l, Leave(h, l) PROVE OutcomeOf(q)'
  BY <1>3, ClearsMonitor, OthersKept DEF Leave, Others
<1>4. ASSUME NEW h \in Handlers, ConnectFailed(h) \/ WaitEnds(h)
      PROVE  OutcomeOf(q)'
  BY <1>3, <1>4 DEF ConnectFailed, WaitEnds, WokenUp, TimedOut
<1>5. ASSUME NEW h \in Handlers, FakeWakes(h) \/ FakeReleases(h) PROVE OutcomeOf(q)'
  <2>1. /\ UNCHANGED <<conn, injector>>
        /\ \A i \in Handlers \ {h} : thread'[i] = thread[i]
        /\ thread'[h] = "sending" => conn[h].monitor
    BY <1>5 DEF FakeWakes, FakeReleases
  <2>2. QED
    BY <2>1
<1>6. ASSUME NEW h \in Handlers, FakeSends(h) PROVE OutcomeOf(q)'
  BY <1>6, SetsFakeSent, OthersKept DEF FakeSends, Others, KeepsOutcome
<1>7. ASSUME NEW p \in Traffic, Recv(p) PROVE OutcomeOf(q)'
  BY <1>7 DEF Recv
<1>8. CASE Enter
  BY <1>8 DEF Enter, Idle
<1>9. CASE OutboundSyn \/ InboundSynAck
  <2>1. /\ KeepsOutcome(target) /\ Others(target)
        /\ at' = "recv" /\ UNCHANGED thread
    BY <1>9, SetsNumber, OthersKept DEF OutboundSyn, InboundSynAck, Handling, Done, Idle
  <2>2. QED
    BY <2>1 DEF KeepsOutcome, Others
<1>10. CASE OutboundAck
  BY <1>10, SchedulesFake, OthersKept
  DEF OutboundAck, Handling, Done, Idle, Others, KeepsOutcome
<1>11. ASSUME NEW m \in {"unexpected_close", "fake_data_ack_recv"}, Decide(m),
              at = "handle", UNCHANGED thread
       PROVE  OutcomeOf(q)'
  <2>1. lock[q] # "fake" \/ target # q
    BY <1>11 DEF Locks
  <2>2. QED
    BY <1>11, <2>1, SetsOutcome, OthersKept DEF Decide, Others, Locks
<1>12. CASE InboundFakeAck \/ Unexpected
  BY <1>11, <1>12 DEF InboundFakeAck, Unexpected, Handling, Decide
<1>13. CASE Notify
  BY <1>13, SetsPermit, OthersKept DEF Notify, Done, Idle, Others
<1>14. CASE InjectorDies
  BY <1>14 DEF InjectorDies, Idle
<1>15. QED
  BY <1>1, <1>2, <1>4, <1>5, <1>6, <1>7, <1>8, <1>9, <1>10, <1>12, <1>13, <1>14
  DEF Next, HandlerStep, ConnectEnds, InjectorStep, FakeStep

-----------------------------------------------------------------------------
(* The entries, the fakes and the life of a handler.                       *)

\* A handler that is past bind has a port, and only such a one has an entry.
EntryOf(h) ==
  /\ \A p \in LocalPorts :
       table[p] = h => port[h] = p /\ pc[h] \in {"connecting", "waiting"}
  /\ pc[h] # "idle" => port[h] \in LocalPorts
  /\ target = h => pc[h] # "idle"

LEMMA EntryStep ==
  ASSUME TypeOK, InHand, [Next]_vars, NEW q \in Handlers,
         \A h \in Handlers : EntryOf(h)
  PROVE  EntryOf(q)'
<1>a. /\ table \in [LocalPorts -> Handlers \cup {NoConn}]
      /\ port \in [Handlers -> LocalPorts \cup {NoPort}]
      /\ pc \in [Handlers -> {"idle", "connecting", "waiting", "relay", "closed"}]
  BY DEF TypeOK
<1> USE <1>a, PyBypassAssumption DEF InHand, EntryOf, injector, handler
<1>1. CASE UNCHANGED vars
  BY <1>1 DEF vars
<1>2. ASSUME NEW h \in Handlers, NEW l \in LocalPorts, Accept(h, l)
      PROVE  EntryOf(q)'
  BY <1>2 DEF Accept
<1>3. ASSUME NEW h \in Handlers, BindRaises(h) \/ Connected(h) PROVE EntryOf(q)'
  BY <1>3 DEF BindRaises, SysExit, Connected
<1>4. ASSUME NEW h \in Handlers, NEW l \in {"relay", "closed"}, Leave(h, l),
             pc[h] \in {"connecting", "waiting"}
      PROVE  EntryOf(q)'
  <2>1. CASE table[port[h]] = NoConn
    BY <1>4, <2>1 DEF Leave, SysExit
  <2>2. CASE table[port[h]] # NoConn
    <3>1. /\ table' = [table EXCEPT ![port[h]] = NoConn]
          /\ pc' = [pc EXCEPT ![h] = l] /\ UNCHANGED <<port, injector>>
      BY <1>4, <2>2 DEF Leave
    <3>2. \A p \in LocalPorts : table'[p] = q => table[p] = q /\ q # h
      BY <3>1
    <3>3. CASE q = h
      BY <3>1, <3>2, <3>3, <1>4
    <3>4. CASE q # h
      <4>1. pc'[q] = pc[q]
        BY <3>1, <3>4
      <4>2. QED
        BY <3>1, <3>2, <4>1
    <3>5. QED
      BY <3>3, <3>4
  <2>3. QED
    BY <2>1, <2>2
<1>5. ASSUME NEW h \in Handlers, ConnectFailed(h) \/ WaitEnds(h) PROVE EntryOf(q)'
  <2>1. CASE UNCHANGED <<table, handler, injector>>
    BY <2>1
  <2>2. CASE ~UNCHANGED <<table, handler, injector>>
    BY <1>4, <1>5, <2>2 DEF ConnectFailed, WaitEnds, WokenUp, TimedOut, SysExit
  <2>3. QED
    BY <2>1, <2>2
<1>6. ASSUME NEW h \in Handlers, FakeStep(h) \/ Established(h) \/ Released(h)
      PROVE  EntryOf(q)'
  <2>1. UNCHANGED <<table, handler, injector>>
    BY <1>6 DEF FakeStep, FakeSends, FakeWakes, FakeReleases, Established, Released
  <2>2. QED
    BY <2>1
<1>7. ASSUME NEW p \in Traffic, Recv(p) PROVE EntryOf(q)'
  <2>1. p.local \in LocalPorts
    BY DEF Packet
  <2>2. QED
    BY <1>7, <2>1 DEF Recv
<1>8. CASE InjectorStep \/ InjectorDies
  <2>1. UNCHANGED <<table, port, pc>> /\ target' \in {target, NoConn}
    BY <1>8 DEF InjectorStep, Enter, OutboundSyn, OutboundAck, InboundSynAck,
      InboundFakeAck, Unexpected, Notify, InjectorDies, Handling, Decide, Done, Idle
  <2>2. QED
    BY <2>1
<1>9. QED
  BY <1>1, <1>2, <1>3, <1>5, <1>6, <1>7, <1>8 DEF Next, HandlerStep, ConnectEnds

\* The thread of a connection is started once and sends once, after the ACK was
\* seen; a confirmed connection was sent a fake; and a handler that has left its
\* wait has seen to it that nothing new begins.
FakeOf(h) ==
  /\ thread[h] = "none" <=> ~conn[h].sch_fake_sent
  /\ conn[h].fake_sent => thread[h] \in {"sent", "done"}
  /\ conn[h].fake_sent <=> fakes[h] # 0
  /\ conn[h].t2a_msg = "fake_data_ack_recv" => conn[h].fake_sent
  /\ pc[h] = "idle" => ~conn[h].sch_fake_sent /\ conn[h].t2a_msg = ""
  /\ pc[h] = "relay" => conn[h].t2a_msg = "fake_data_ack_recv"
  /\ pc[h] \in {"relay", "closed"} => ~conn[h].monitor

LEMMA FakeOfStep ==
  ASSUME TypeOK, InHand, Locks, [Next]_vars, NEW q \in Handlers,
         OutcomeOf(q), EntryOf(q), FakeOf(q)
  PROVE  FakeOf(q)'
<1>a. /\ conn \in [Handlers -> Conn]
      /\ thread \in [Handlers -> {"none", "sleeping", "sending", "sent", "done"}]
      /\ pc \in [Handlers -> {"idle", "connecting", "waiting", "relay", "closed"}]
      /\ fakes \in [Handlers -> Nat]
  BY DEF TypeOK
<1> USE <1>a, PyBypassAssumption DEF InHand, FakeOf, injector, handler
<1>1. CASE UNCHANGED vars
  BY <1>1 DEF vars
<1>2. ASSUME NEW h \in Handlers, \/ \E p \in LocalPorts : Accept(h, p)
             \/ BindRaises(h) \/ Connected(h) \/ Established(h) \/ Released(h)
      PROVE  FakeOf(q)'
  BY <1>2 DEF Accept, BindRaises, SysExit, Connected, Established, Released
<1>3. ASSUME NEW h \in Handlers, NEW l \in {"relay", "closed"}, Leave(h, l),
             l = "relay" => conn[h].t2a_msg = "fake_data_ack_recv",
             pc[h] \in {"connecting", "waiting"}
      PROVE  FakeOf(q)'
  BY <1>3, ClearsMonitor, OthersKept DEF Leave, SysExit, Others, KeepsFake
<1>4. ASSUME NEW h \in Handlers, ConnectFailed(h) \/ WaitEnds(h) PROVE FakeOf(q)'
  BY <1>3, <1>4 DEF ConnectFailed, WaitEnds, WokenUp, TimedOut, SysExit
<1>5. ASSUME NEW h \in Handlers, FakeWakes(h) \/ FakeReleases(h) PROVE FakeOf(q)'
  BY <1>5 DEF FakeWakes, FakeReleases
<1>6. ASSUME NEW h \in Handlers, FakeSends(h) PROVE FakeOf(q)'
  <2>1. /\ conn'[h].fake_sent /\ conn'[h].sch_fake_sent = conn[h].sch_fake_sent
        /\ KeepsOutcome(h) /\ Others(h)
    BY <1>6, SetsFakeSent, OthersKept DEF FakeSends
  <2>2. fakes'[h] # 0 /\ \A i \in Handlers \ {h} : fakes'[i] = fakes[i]
    BY <1>6, CountsFake DEF FakeSends
  <2>3. thread[h] = "sending" /\ thread' = [thread EXCEPT ![h] = "sent"] /\ pc' = pc
    BY <1>6 DEF FakeSends
  <2>4. CASE q = h
    <3>1. thread'[q] = "sent"
      BY <2>3, <2>4
    <3>2. /\ thread'[q] = "none" <=> ~conn'[q].sch_fake_sent
          /\ conn'[q].fake_sent <=> fakes'[q] # 0
      BY <2>1, <2>2, <2>3, <2>4, <3>1
    <3>3. QED
      BY <2>1, <2>3, <2>4, <3>1, <3>2 DEF KeepsOutcome
  <2>5. CASE q # h
    <3>1. conn'[q] = conn[q] /\ thread'[q] = thread[q] /\ fakes'[q] = fakes[q]
      BY <2>1, <2>2, <2>3, <2>5 DEF Others
    <3>2. QED
      BY <2>3, <3>1
  <2>6. QED
    BY <2>4, <2>5
<1>7. ASSUME NEW p \in Traffic, Recv(p) PROVE FakeOf(q)'
  BY <1>7 DEF Recv
<1>8. CASE Enter \/ InjectorDies
  BY <1>8 DEF Enter, InjectorDies
<1>9. CASE OutboundSyn \/ InboundSynAck
  <2>1. /\ KeepsOutcome(target) /\ KeepsFake(target) /\ Others(target)
        /\ UNCHANGED <<thread, fakes, handler>>
    BY <1>9, SetsNumber, OthersKept DEF OutboundSyn, InboundSynAck, Handling
  <2>2. QED
    BY <2>1 DEF KeepsOutcome, KeepsFake, Others
<1>10. CASE OutboundAck
  <2>1. ~conn[target].sch_fake_sent /\ (q = target => pc[q] # "idle")
    BY <1>10, AckExpected DEF OutboundAck, Handling, EntryOf
  <2>2. QED
    BY <1>10, <2>1, SchedulesFake, OthersKept DEF OutboundAck, Handling, Others, KeepsOutcome
<1>11. CASE InboundFakeAck
  <2>1. conn[target].fake_sent /\ (q = target => pc[q] # "idle" /\ conn[q].t2a_msg = "")
    BY <1>11, AckExpected DEF InboundFakeAck, Handling, EntryOf, OutcomeOf
  <2>2. QED
    BY <1>11, <2>1, SetsOutcome, OthersKept
    DEF InboundFakeAck, Handling, Decide, Others, KeepsFake
<1>12. CASE Unexpected
  <2>1. q = target => pc[q] \notin {"idle", "relay"}
    BY <1>12 DEF Unexpected, EntryOf, OutcomeOf
  <2>2. /\ ~conn'[target].monitor /\ conn'[target].t2a_msg = "unexpected_close"
        /\ KeepsFake(target) /\ Others(target) /\ UNCHANGED <<thread, fakes, handler>>
    BY <1>12, SetsOutcome, OthersKept DEF Unexpected, Decide
  <2>3. QED
    BY <2>1, <2>2 DEF KeepsFake, Others
<1>13. CASE Notify
  BY <1>13, SetsPermit, OthersKept DEF Notify, Others, KeepsFake
<1>14. QED
  BY <1>1, <1>2, <1>4, <1>5, <1>6, <1>7, <1>8, <1>9, <1>10, <1>11, <1>12, <1>13
  DEF Next, HandlerStep, ConnectEnds, InjectorStep, FakeStep

-----------------------------------------------------------------------------
(* The inductive invariant, and what follows from it.                      *)

PInv ==
  /\ TypeOK /\ InHand /\ Locks
  /\ \A h \in Handlers : OutcomeOf(h) /\ EntryOf(h) /\ FakeOf(h)

LEMMA PInvInit == Init => PInv
<1> SUFFICES ASSUME Init PROVE PInv
  OBVIOUS
<1> USE PyBypassAssumption DEF Init
<1>1. NewConn(FakeData, "wrong_seq") \in Conn
  BY DEF NewConn, Conn
<1>2. TypeOK
  BY <1>1 DEF TypeOK
<1>3. ASSUME NEW h \in Handlers PROVE OutcomeOf(h) /\ EntryOf(h) /\ FakeOf(h)
  <2>1. conn[h] = NewConn(FakeData, "wrong_seq")
    OBVIOUS
  <2>2. conn[h].t2a_msg = "" /\ ~conn[h].permit /\ ~conn[h].sch_fake_sent
        /\ ~conn[h].fake_sent /\ fakes[h] = 0
    BY <2>1 DEF NewConn
  <2>3. QED
    BY <2>2 DEF OutcomeOf, EntryOf, FakeOf
<1>4. QED
  BY <1>2, <1>3 DEF PInv, InHand, Locks

LEMMA PInvStep == PInv /\ [Next]_vars => PInv'
<1> SUFFICES ASSUME PInv, [Next]_vars PROVE PInv'
  OBVIOUS
<1>1. TypeOK' /\ InHand'
  BY TypeStep DEF PInv
<1>2. Locks'
  BY LockStep DEF PInv
<1>3. ASSUME NEW h \in Handlers PROVE (OutcomeOf(h) /\ EntryOf(h) /\ FakeOf(h))'
  BY OutcomeStep, EntryStep, FakeOfStep DEF PInv
<1>4. QED
  BY <1>1, <1>2, <1>3 DEF PInv

LEMMA PInvHolds == Spec => []PInv
  BY PInvInit, PInvStep, PTL DEF Spec

\* Whatever handlers, injector and fake threads do, the state stays in its types.
THEOREM PyTypesHold == Spec => []TypeOK
<1>1. PInv => TypeOK
  BY DEF PInv
<1>2. QED
  BY <1>1, PInvHolds, PTL

\* A connection is judged by one thread at a time, and never after its outcome.
THEOREM OneJudge == Spec => []JudgedOnce
<1>1. PInv => JudgedOnce
  BY DEF PInv, Locks, OutcomeOf, JudgedOnce
<1>2. QED
  BY <1>1, PInvHolds, PTL

\* A handler that is done has no entry left.
THEOREM EntriesGo == Spec => []NoEntryLeft
<1>1. PInv => NoEntryLeft
  BY DEF PInv, EntryOf, NoEntryLeft
<1>2. QED
  BY <1>1, PInvHolds, PTL

\* The "impossible t2a msg" is impossible.
THEOREM WokenFindsMessage == Spec => []MessageIsThere
<1>1. Init => MessageIsThere
  BY DEF Init, MessageIsThere
<1>2. PInv /\ MessageIsThere /\ [Next]_vars => MessageIsThere'
  <2> SUFFICES ASSUME PInv, MessageIsThere, [Next]_vars PROVE MessageIsThere'
    OBVIOUS
  <2>1. CASE UNCHANGED program
    BY <2>1 DEF MessageIsThere
  <2>2. ASSUME NEW h \in Handlers, HandlerStep(h) PROVE MessageIsThere'
    <3>1. conn[h].permit => conn[h].t2a_msg # ""
      BY DEF PInv, OutcomeOf
    <3>2. program' \in {program, "bind", "del"}
      BY <2>2, <3>1 DEF HandlerStep, Accept, BindRaises, ConnectEnds, Connected,
        ConnectFailed, WaitEnds, WokenUp, TimedOut, Leave, SysExit
    <3>3. QED
      BY <3>2 DEF MessageIsThere
  <2>3. QED
    BY <2>1, <2>2 DEF Next, FakeStep, FakeWakes, FakeSends, FakeReleases, Established,
      Released, Recv, InjectorStep, Enter, OutboundSyn, OutboundAck, InboundSynAck,
      InboundFakeAck, Unexpected, Decide, Notify, InjectorDies, vars
<1>3. QED
  BY <1>1, <1>2, PInvHolds, PTL DEF Spec

\* Nothing any thread does changes an outcome that was written.
LEMMA MessageKept ==
  ASSUME PInv, [Next]_vars, NEW q \in Handlers, conn[q].t2a_msg # ""
  PROVE  conn'[q].t2a_msg = conn[q].t2a_msg
<1>a. conn \in [Handlers -> Conn] /\ TypeOK /\ InHand /\ OutcomeOf(q)
  BY DEF PInv, TypeOK
<1> USE <1>a
<1>1. CASE UNCHANGED conn
  BY <1>1
<1>2. ASSUME NEW h \in Handlers, NEW l, Leave(h, l)
      PROVE  conn'[q].t2a_msg = conn[q].t2a_msg
  BY <1>2, ClearsMonitor, OthersKept DEF Leave, Others
<1>3. ASSUME NEW h \in Handlers, HandlerStep(h)
      PROVE  conn'[q].t2a_msg = conn[q].t2a_msg
  BY <1>1, <1>2, <1>3 DEF HandlerStep, Accept, BindRaises, ConnectEnds, Connected,
    ConnectFailed, WaitEnds, WokenUp, TimedOut
<1>4. ASSUME NEW h \in Handlers, FakeSends(h) PROVE conn'[q].t2a_msg = conn[q].t2a_msg
  BY <1>4, SetsFakeSent, OthersKept DEF FakeSends, Others, KeepsOutcome
<1>5. CASE OutboundSyn \/ InboundSynAck
  <2>1. KeepsOutcome(target) /\ Others(target)
    BY <1>5, SetsNumber, OthersKept DEF OutboundSyn, InboundSynAck, Handling, InHand
  <2>2. QED
    BY <2>1 DEF KeepsOutcome, Others
<1>6. CASE OutboundAck
  BY <1>6, SchedulesFake, OthersKept DEF OutboundAck, Handling, InHand, Others, KeepsOutcome
<1>7. ASSUME NEW m, Decide(m), at = "handle" PROVE conn'[q].t2a_msg = conn[q].t2a_msg
  BY <1>7, OthersKept DEF Decide, Others, OutcomeOf
<1>8. CASE InboundFakeAck \/ Unexpected
  BY <1>7, <1>8 DEF InboundFakeAck, Unexpected, Handling
<1>9. CASE Notify
  BY <1>9, SetsPermit, OthersKept DEF Notify, InHand, Others
<1>10. QED
  BY <1>1, <1>3, <1>4, <1>5, <1>6, <1>8, <1>9
  DEF Next, FakeStep, FakeWakes, FakeReleases, Established, Released, Recv,
      InjectorStep, Enter, InjectorDies, vars

\* An outcome is final.
THEOREM OutcomeStays == Spec => OutcomeIsFinal
<1>1. PInv /\ [Next]_vars =>
        [\A h \in Handlers : conn[h].t2a_msg # "" =>
           conn'[h].t2a_msg = conn[h].t2a_msg]_vars
  BY MessageKept
<1>2. QED
  BY <1>1, PInvHolds, PTL DEF Spec, OutcomeIsFinal

-----------------------------------------------------------------------------
(* The refinement of Gate.  A step changes the phase of one handler at     *)
(* most, in one of the ways the gate allows, or counts a fake or an answer. *)

\* The parts of the state PhaseOf depends on.
View(h) == <<pc[h], thread[h] \in {"sending", "sent"},
             target = h /\ at \in {"handle", "notify"}>>

LEMMA SamePhase ==
  ASSUME NEW h \in Handlers, View(h)' = View(h)
  PROVE  PhaseOf(h)' = PhaseOf(h)
  BY DEF View, PhaseOf, Late

\* One handler's phase moves, or none, and no fake is sent or answered.
LEMMA PhaseMoves ==
  ASSUME NEW h \in Handlers, fakes' = fakes, Acked' = Acked,
         \A q \in Handlers \ {h} : PhaseOf(q)' = PhaseOf(q),
         \/ PhaseOf(h)' = PhaseOf(h)
         \/ PhaseOf(h) = "idle" /\ PhaseOf(h)' = "dialing"
         \/ PhaseOf(h) = "dialing" /\ PhaseOf(h)' = "closed"
         \/ PhaseOf(h) = "dialing" /\ PhaseOf(h)' = "open" /\ h \in Acked
  PROVE  [Gate!Next]_(Gate!vars)
<1> DEFINE phase == [q \in Handlers |-> PhaseOf(q)]
<1>1. ASSUME NEW x, PhaseOf(h)' = x PROVE phase' = [phase EXCEPT ![h] = x]
  BY <1>1
<1>2. CASE PhaseOf(h)' = PhaseOf(h)
  <2>1. phase' = phase
    BY <1>2
  <2>2. QED
    BY <2>1 DEF Gate!vars
<1>3. CASE PhaseOf(h) = "idle" /\ PhaseOf(h)' = "dialing"
  <2>1. Gate!Dial(h)
    BY <1>1, <1>3 DEF Gate!Dial, Gate!Become
  <2>2. QED
    BY <2>1 DEF Gate!Next
<1>4. CASE PhaseOf(h) = "dialing" /\ PhaseOf(h)' = "closed"
  <2>1. Gate!Refuse(h)
    BY <1>1, <1>4 DEF Gate!Refuse, Gate!Become
  <2>2. QED
    BY <2>1 DEF Gate!Next
<1>5. CASE PhaseOf(h) = "dialing" /\ PhaseOf(h)' = "open" /\ h \in Acked
  <2>1. Gate!Open(h)
    BY <1>1, <1>5 DEF Gate!Open, Gate!Become
  <2>2. QED
    BY <2>1 DEF Gate!Next
<1>6. QED
  BY <1>2, <1>3, <1>4, <1>5

\* The fake of a handler that is still dialed is sent, for the first time.
LEMMA FakeIsSpoof ==
  ASSUME NEW h \in Handlers, Acked' = Acked, fakes' = [fakes EXCEPT ![h] = @ + 1], fakes[h] = 0,
         \A q \in Handlers : PhaseOf(q)' = PhaseOf(q), PhaseOf(h) = "dialing"
  PROVE  [Gate!Next]_(Gate!vars)
<1>1. Gate!Spoof(h)
  BY DEF Gate!Spoof
<1>2. QED
  BY <1>1 DEF Gate!Next

LEMMA AnswerIsConfirm ==
  ASSUME NEW h \in Handlers, Acked' = Acked \cup {h}, fakes' = fakes, fakes[h] > 0,
         \A q \in Handlers : PhaseOf(q)' = PhaseOf(q), PhaseOf(h) = "dialing"
  PROVE  [Gate!Next]_(Gate!vars)
<1>1. Gate!Confirm(h)
  BY DEF Gate!Confirm
<1>2. QED
  BY <1>1 DEF Gate!Next

\* A handler that is done is refused when the last thread lets go of it.
LEMMA LetsGo ==
  ASSUME NEW h \in Handlers, pc'[h] = pc[h], Late(h),
         pc[h] \in {"idle", "connecting", "waiting", "relay", "closed"}
  PROVE  \/ PhaseOf(h)' = PhaseOf(h)
         \/ PhaseOf(h) = "dialing" /\ PhaseOf(h)' = "closed"
  BY DEF PhaseOf

\* A thread that enters the critical section of a monitored connection does so for
\* a handler that is not done.
LEMMA Enters ==
  ASSUME NEW h \in Handlers, FakeOf(h), conn[h].monitor, pc'[h] = pc[h],
         pc[h] \in {"idle", "connecting", "waiting", "relay", "closed"}
  PROVE  PhaseOf(h)' = PhaseOf(h)
  BY DEF FakeOf, PhaseOf

LEMMA AnswersKept ==
  ASSUME NEW h \in Handlers, Others(h), conn'[h].t2a_msg = conn[h].t2a_msg
  PROVE  Acked' = Acked
  BY DEF Others, Acked

LEMMA ConnKept == conn' = conn => Acked' = Acked
  BY DEF Acked

LEMMA HandlerRefines ==
  ASSUME PInv, NEW h \in Handlers, HandlerStep(h)
  PROVE  [Gate!Next]_(Gate!vars)
<1>a. /\ pc \in [Handlers -> {"idle", "connecting", "waiting", "relay", "closed"}]
      /\ TypeOK
  BY DEF PInv, TypeOK
<1> USE <1>a
<1>1. ASSUME NEW p \in LocalPorts, Accept(h, p) PROVE [Gate!Next]_(Gate!vars)
  <2>1. pc' = [pc EXCEPT ![h] = "connecting"] /\ pc[h] = "idle"
        /\ UNCHANGED <<conn, thread, fakes, injector>>
    BY <1>1 DEF Accept
  <2>2. \A q \in Handlers \ {h} : View(q)' = View(q)
    BY <2>1 DEF View, injector
  <2>3. PhaseOf(h) = "idle" /\ PhaseOf(h)' = "dialing"
    BY <2>1 DEF PhaseOf
  <2>4. QED
    BY <2>1, <2>2, <2>3, SamePhase, ConnKept, PhaseMoves
<1>2. CASE UNCHANGED <<pc, conn, thread, fakes, injector>>
  <2>1. \A q \in Handlers : View(q)' = View(q)
    BY <1>2 DEF View, injector
  <2>2. QED
    BY <1>2, <2>1, SamePhase, ConnKept, PhaseMoves
<1>3. CASE Connected(h)
  <2>1. pc' = [pc EXCEPT ![h] = "waiting"] /\ pc[h] = "connecting"
        /\ UNCHANGED <<conn, thread, fakes, injector>>
    BY <1>3 DEF Connected
  <2>2. \A q \in Handlers \ {h} : View(q)' = View(q)
    BY <2>1 DEF View, injector
  <2>3. PhaseOf(h) = "dialing" /\ PhaseOf(h)' = "dialing"
    BY <2>1 DEF PhaseOf
  <2>4. QED
    BY <2>1, <2>2, <2>3, SamePhase, ConnKept, PhaseMoves
<1>4. ASSUME NEW l \in {"relay", "closed"}, Leave(h, l), pc[h] \in {"connecting", "waiting"},
             l = "relay" => conn[h].t2a_msg = "fake_data_ack_recv"
      PROVE  [Gate!Next]_(Gate!vars)
  <2>1. fakes' = fakes /\ Acked' = Acked
    <3>1. conn' = [conn EXCEPT ![h].monitor = FALSE] /\ conn \in [Handlers -> Conn]
      BY <1>4 DEF Leave, TypeOK
    <3>2. Others(h)
      BY <3>1, OthersKept
    <3>3. conn'[h].t2a_msg = conn[h].t2a_msg
      BY <3>1, ClearsMonitor
    <3>4. QED
      BY <1>4, <3>2, <3>3, AnswersKept DEF Leave
  <2>2. (pc' = pc \/ pc' = [pc EXCEPT ![h] = l]) /\ UNCHANGED <<thread, injector>>
    BY <1>4 DEF Leave, SysExit, handler
  <2>3. \A q \in Handlers \ {h} : View(q)' = View(q)
    BY <2>2 DEF View, injector
  <2>4. PhaseOf(h) = "dialing"
    BY <1>4 DEF PhaseOf
  <2>5. CASE pc' = pc
    BY <1>4, <2>1, <2>3, <2>4, <2>5, SamePhase, PhaseMoves DEF PhaseOf
  <2>6. CASE pc'[h] = "relay" /\ l = "relay"
    <3>1. PhaseOf(h)' = "open" /\ h \in Acked
      BY <1>4, <2>6 DEF PhaseOf, Acked
    <3>2. QED
      BY <2>1, <2>3, <2>4, <3>1, SamePhase, PhaseMoves
  <2>7. CASE pc'[h] = "closed"
    <3>1. PhaseOf(h)' \in {"dialing", "closed"}
      BY <2>7 DEF PhaseOf
    <3>2. QED
      BY <2>1, <2>3, <2>4, <3>1, SamePhase, PhaseMoves
  <2>8. QED
    BY <2>2, <2>5, <2>6, <2>7
<1>5. CASE ConnectFailed(h) \/ WaitEnds(h)
  BY <1>2, <1>4, <1>5 DEF ConnectFailed, WaitEnds, WokenUp, TimedOut, SysExit, handler
<1>6. CASE BindRaises(h)
  BY <1>2, <1>6 DEF BindRaises, SysExit, handler
<1>7. QED
  BY <1>1, <1>3, <1>5, <1>6 DEF HandlerStep, ConnectEnds

LEMMA FakeRefines ==
  ASSUME PInv, NEW h \in Handlers, FakeStep(h)
  PROVE  [Gate!Next]_(Gate!vars)
<1>a. /\ pc \in [Handlers -> {"idle", "connecting", "waiting", "relay", "closed"}]
      /\ thread \in [Handlers -> {"none", "sleeping", "sending", "sent", "done"}]
      /\ TypeOK /\ FakeOf(h) /\ OutcomeOf(h)
  BY DEF PInv, TypeOK
<1>b. UNCHANGED <<pc, injector>> /\ \A q \in Handlers \ {h} : thread'[q] = thread[q]
  BY <1>a DEF FakeStep, FakeWakes, FakeSends, FakeReleases, handler
<1>c. \A q \in Handlers \ {h} : View(q)' = View(q)
  BY <1>b DEF View, injector
<1> USE <1>a
<1>1. CASE FakeWakes(h)
  <2>1. PhaseOf(h)' = PhaseOf(h)
    <3>1. CASE conn[h].monitor
      BY <1>b, <3>1, Enters
    <3>2. CASE ~conn[h].monitor
      <4>1. thread[h] = "sleeping" /\ thread'[h] = "done"
        BY <1>1, <3>2 DEF FakeWakes
      <4>2. View(h)' = View(h)
        BY <1>b, <4>1 DEF View, injector
      <4>3. QED
        BY <4>2, SamePhase
    <3>3. QED
      BY <3>1, <3>2
  <2>2. conn' = conn /\ fakes' = fakes
    BY <1>1 DEF FakeWakes
  <2>3. QED
    BY <1>c, <2>1, <2>2, SamePhase, ConnKept, PhaseMoves
<1>2. CASE FakeSends(h)
  <2>1. thread[h] = "sending" /\ thread'[h] = "sent" /\ conn' = [conn EXCEPT ![h].fake_sent = TRUE]
    BY <1>2 DEF FakeSends
  <2>2. ~conn[h].fake_sent /\ conn[h].t2a_msg = "" /\ conn[h].sch_fake_sent
    BY <2>1 DEF FakeOf, OutcomeOf
  <2>3. PhaseOf(h) = "dialing" /\ PhaseOf(h)' = PhaseOf(h)
    <3>1. pc[h] \notin {"idle", "relay"} /\ Late(h)
      BY <2>1, <2>2 DEF FakeOf, Late
    <3>2. View(h)' = View(h)
      BY <1>b, <2>1 DEF View, injector
    <3>3. QED
      BY <3>1, <3>2, SamePhase DEF PhaseOf
  <2>4. Acked' = Acked
    <3>1. conn \in [Handlers -> Conn]
      BY DEF TypeOK
    <3>2. Others(h)
      BY <2>1, <3>1, OthersKept
    <3>3. conn'[h].t2a_msg = conn[h].t2a_msg
      BY <2>1, SetsFakeSent DEF KeepsOutcome
    <3>4. QED
      BY <3>2, <3>3, AnswersKept
  <2>5. fakes' = [fakes EXCEPT ![h] = @ + 1] /\ fakes[h] = 0
    <3>1. fakes[h] = 0
      BY <2>2, Zenon DEF FakeOf
    <3>2. QED
      BY <1>2, <3>1 DEF FakeSends
  <2>6. \A q \in Handlers : PhaseOf(q)' = PhaseOf(q)
    BY <1>c, <2>3, SamePhase
  <2>7. QED
    BY <2>3, <2>4, <2>5, <2>6, FakeIsSpoof
<1>3. CASE FakeReleases(h)
  <2>1. Late(h) /\ conn' = conn /\ fakes' = fakes
    BY <1>3 DEF FakeReleases, Late
  <2>2. QED
    BY <1>b, <1>c, <2>1, LetsGo, SamePhase, ConnKept, PhaseMoves
<1>4. QED
  BY <1>1, <1>2, <1>3 DEF FakeStep

\* Nothing the gate sees has changed.
LEMMA StaysPut ==
  ASSUME fakes' = fakes, Acked' = Acked,
         \A q \in Handlers : PhaseOf(q)' = PhaseOf(q)
  PROVE  [Gate!Next]_(Gate!vars)
<1>1. [q \in Handlers |-> PhaseOf(q)]' = [q \in Handlers |-> PhaseOf(q)]
  OBVIOUS
<1>2. QED
  BY <1>1 DEF Gate!vars

\* The injector looks for a connection, or finds it is no longer monitored.
LEMMA InjectorEnters ==
  ASSUME PInv, Enter \/ \E p \in Traffic : Recv(p)
  PROVE  [Gate!Next]_(Gate!vars)
<1>a. /\ pc \in [Handlers -> {"idle", "connecting", "waiting", "relay", "closed"}]
      /\ InHand /\ \A h \in Handlers : FakeOf(h)
  BY DEF PInv, TypeOK
<1>1. UNCHANGED <<conn, thread, fakes, pc>>
  BY DEF Recv, Enter, handler
<1>2. CASE \E p \in Traffic : Recv(p)
  <2>1. \A q \in Handlers : View(q)' = View(q)
    BY <1>1, <1>2 DEF Recv, View
  <2>2. QED
    BY <1>1, <2>1, SamePhase, ConnKept, StaysPut
<1>3. CASE Enter /\ conn[target].monitor
  <2>1. PICK h \in Handlers : h = target
    BY <1>a, <1>3 DEF Enter, InHand
  <2>2. target' = target /\ at = "found"
    BY <1>3 DEF Enter
  <2>3. \A q \in Handlers \ {h} : View(q)' = View(q)
    BY <1>1, <2>1, <2>2 DEF View
  <2>4. PhaseOf(h)' = PhaseOf(h)
    BY <1>a, <1>1, <1>3, <2>1, Enters
  <2>5. \A q \in Handlers : PhaseOf(q)' = PhaseOf(q)
    BY <2>3, <2>4, SamePhase
  <2>6. QED
    BY <1>1, <2>5, ConnKept, StaysPut
<1>4. CASE Enter /\ ~conn[target].monitor
  <2>1. at = "found" /\ at' = "recv"
    BY <1>4 DEF Enter, Idle
  <2>2. \A q \in Handlers : View(q)' = View(q)
    BY <1>1, <2>1 DEF View
  <2>3. QED
    BY <1>1, <2>2, SamePhase, ConnKept, StaysPut
<1>5. QED
  BY <1>2, <1>3, <1>4

\* The injector is done with a packet, having decided nothing about it.
LEMMA InjectorLeaves ==
  ASSUME PInv, OutboundSyn \/ OutboundAck \/ InboundSynAck \/ Notify
  PROVE  [Gate!Next]_(Gate!vars)
<1>a. /\ conn \in [Handlers -> Conn]
      /\ pc \in [Handlers -> {"idle", "connecting", "waiting", "relay", "closed"}]
      /\ TypeOK /\ InHand
  BY DEF PInv, TypeOK
<1>1. /\ at \in {"handle", "notify"} /\ at' = "recv" /\ target' = NoConn
      /\ target \in Handlers /\ UNCHANGED pc
  BY <1>a DEF OutboundSyn, OutboundAck, InboundSynAck, Notify, Handling, Done, Idle,
    InHand, handler
<1>2. Others(target) /\ conn'[target].t2a_msg = conn[target].t2a_msg
  <2>1. CASE OutboundSyn \/ InboundSynAck
    BY <1>a, <1>1, <2>1, SetsNumber, OthersKept
    DEF OutboundSyn, InboundSynAck, KeepsOutcome
  <2>2. CASE OutboundAck
    BY <1>a, <1>1, <2>2, SchedulesFake, OthersKept DEF OutboundAck, KeepsOutcome
  <2>3. CASE Notify
    BY <1>a, <1>1, <2>3, SetsPermit, OthersKept DEF Notify
  <2>4. QED
    BY <2>1, <2>2, <2>3
<1>3. fakes' = fakes /\ Acked' = Acked
  BY <1>1, <1>2, AnswersKept DEF OutboundSyn, OutboundAck, InboundSynAck, Notify
<1>4. \A q \in Handlers \ {target} : View(q)' = View(q)
  <2>1. \A q \in Handlers \ {target} : thread'[q] = thread[q]
    <3>1. thread' = thread \/ thread' = [thread EXCEPT ![target] = "sleeping"]
      BY DEF OutboundSyn, OutboundAck, InboundSynAck, Notify
    <3>2. thread \in [Handlers -> {"none", "sleeping", "sending", "sent", "done"}]
      BY <1>a DEF TypeOK
    <3>3. QED
      BY <3>1, <3>2
  <2>2. QED
    BY <1>1, <2>1, PyBypassAssumption DEF View
<1>5. Late(target)
  BY <1>1 DEF Late
<1>6. QED
  BY <1>a, <1>1, <1>3, <1>4, <1>5, SamePhase, LetsGo, PhaseMoves

\* Judging a packet leaves the injector in the critical section, and with it the
\* phase as it was.
LEMMA JudgingStays ==
  ASSUME NEW m, Decide(m), at = "handle"
  PROVE  \A q \in Handlers : PhaseOf(q)' = PhaseOf(q)
<1>1. \A q \in Handlers : View(q)' = View(q)
  BY DEF Decide, View, handler
<1>2. QED
  BY <1>1, SamePhase

LEMMA InjectorJudges ==
  ASSUME PInv, InboundFakeAck \/ Unexpected
  PROVE  [Gate!Next]_(Gate!vars)
<1>a. /\ conn \in [Handlers -> Conn] /\ TypeOK
      /\ pc \in [Handlers -> {"idle", "connecting", "waiting", "relay", "closed"}]
      /\ target \in Handlers /\ at = "handle"
  BY DEF PInv, TypeOK, InHand, InboundFakeAck, Unexpected, Handling
<1>b. OutcomeOf(target) /\ EntryOf(target) /\ FakeOf(target)
  BY <1>a DEF PInv
<1>1. PICK m \in {"unexpected_close", "fake_data_ack_recv"} :
        /\ Decide(m)
        /\ m = "fake_data_ack_recv" => conn[target].fake_sent
  <2>1. CASE Unexpected
    BY <2>1 DEF Unexpected
  <2>2. CASE InboundFakeAck
    <3>1. conn[target].fake_sent
      BY <2>2, AckExpected DEF InboundFakeAck, Handling
    <3>2. QED
      BY <2>2, <3>1 DEF InboundFakeAck
  <2>3. QED
    BY <2>1, <2>2
<1>2. \A q \in Handlers : PhaseOf(q)' = PhaseOf(q)
  BY <1>a, <1>1, JudgingStays
<1>3. conn' = [conn EXCEPT ![target].monitor = FALSE, ![target].t2a_msg = m]
  BY <1>1 DEF Decide
<1>4. Others(target)
  BY <1>a, <1>3, OthersKept
<1>5. conn'[target].t2a_msg = m
  BY <1>a, <1>3, SetsOutcome
<1>6. conn[target].t2a_msg = ""
  BY <1>a, <1>b DEF OutcomeOf
<1>7. fakes' = fakes
  BY <1>1 DEF Decide
<1>8. CASE m = "unexpected_close"
  <2>1. Acked' = Acked
    BY <1>4, <1>5, <1>6, <1>8 DEF Others, Acked
  <2>2. QED
    BY <1>2, <1>7, <2>1, StaysPut
<1>9. CASE m = "fake_data_ack_recv"
  <2>1. Acked' = Acked \cup {target}
    BY <1>a, <1>4, <1>5, <1>9 DEF Others, Acked
  <2>2. fakes[target] > 0
    <3>1. fakes[target] \in Nat
      BY <1>a DEF TypeOK
    <3>2. fakes[target] # 0
      BY <1>1, <1>9, <1>b DEF FakeOf
    <3>3. QED
      BY <3>1, <3>2
  <2>3. PhaseOf(target) = "dialing"
    BY <1>a, <1>b, <1>6 DEF EntryOf, FakeOf, PhaseOf, Late
  <2>4. QED
    BY <1>a, <1>2, <1>7, <2>1, <2>2, <2>3, AnswerIsConfirm
<1>10. QED
  BY <1>1, <1>8, <1>9

\* The injector thread ends; whoever it was at work on is let go.
LEMMA DeathRefines ==
  ASSUME PInv, InjectorDies
  PROVE  [Gate!Next]_(Gate!vars)
<1>a. /\ pc \in [Handlers -> {"idle", "connecting", "waiting", "relay", "closed"}]
      /\ InHand /\ UNCHANGED <<conn, thread, fakes, pc>> /\ at' = "dead" /\ target' = NoConn
  BY DEF PInv, TypeOK, InjectorDies, Idle, handler
<1>1. CASE at = "handle"
  <2>1. target \in Handlers /\ Late(target)
    BY <1>a, <1>1 DEF InHand, Late
  <2>2. \A q \in Handlers \ {target} : View(q)' = View(q)
    BY <1>a DEF View
  <2>3. QED
    BY <1>a, <2>1, <2>2, SamePhase, LetsGo, ConnKept, PhaseMoves
<1>2. CASE at = "recv"
  <2>1. \A q \in Handlers : View(q)' = View(q)
    BY <1>a, <1>2 DEF View
  <2>2. QED
    BY <1>a, <2>1, SamePhase, ConnKept, StaysPut
<1>3. QED
  BY <1>1, <1>2 DEF InjectorDies

LEMMA GateInit == Init => Gate!Init
<1> SUFFICES ASSUME Init PROVE Gate!Init
  OBVIOUS
<1>1. \A h \in Handlers : PhaseOf(h) = "idle"
  BY DEF Init, PhaseOf
<1>2. \A h \in Handlers : conn[h].t2a_msg = ""
  BY DEF Init, NewConn
<1>3. QED
  BY <1>1, <1>2 DEF Init, Gate!Init, Acked

LEMMA GateStep == PInv /\ [Next]_vars => [Gate!Next]_(Gate!vars)
<1> SUFFICES ASSUME PInv, [Next]_vars PROVE [Gate!Next]_(Gate!vars)
  OBVIOUS
<1>1. CASE UNCHANGED vars
  <2>1. /\ conn' = conn /\ fakes' = fakes
        /\ \A q \in Handlers : View(q)' = View(q)
    BY <1>1 DEF vars, View, injector, handler
  <2>2. QED
    BY <2>1, SamePhase, ConnKept, StaysPut
<1>2. ASSUME NEW h \in Handlers, Established(h) \/ Released(h)
      PROVE  [Gate!Next]_(Gate!vars)
  <2>1. /\ conn' = conn /\ fakes' = fakes
        /\ \A q \in Handlers : View(q)' = View(q)
    BY <1>2 DEF Established, Released, View, injector, handler
  <2>2. QED
    BY <2>1, SamePhase, ConnKept, StaysPut
<1>3. QED
  BY <1>1, <1>2, HandlerRefines, FakeRefines, InjectorEnters, InjectorLeaves,
     InjectorJudges, DeathRefines
  DEF Next, InjectorStep

\* The Python program keeps the promise of the gate: nobody is let through whose
\* fake was not sent and answered, no client's fake is sent a second time, and none
\* is sent once the client was refused.
THEOREM KeepsPromise == Spec => ImplementsGate
<1>1. Init => Gate!Init
  BY GateInit
<1>2. PInv /\ [Next]_vars => [Gate!Next]_(Gate!vars)
  BY GateStep
<1>3. QED
  BY <1>1, <1>2, PInvHolds, PTL DEF Spec, ImplementsGate, Gate!Spec

=============================================================================
