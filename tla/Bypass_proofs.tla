--------------------------- MODULE Bypass_proofs ---------------------------
(***************************************************************************)
(* The bypass as a whole, for any number of handlers and ports, any        *)
(* sequence space, and any loss, reordering and duplication: it drives the *)
(* injector as Injector.tla allows, and so keeps its invariants; entries   *)
(* and sockets fit; the server reads and answers what it should; and the   *)
(* whole implements Gate.                                                  *)
(***************************************************************************)
EXTENDS Bypass, Injector_proofs

-----------------------------------------------------------------------------
(* Handlers and their sockets.                                             *)

\* What the place of a handler says of its socket.
SockAt(l) ==
  CASE l = "idle"                    -> {"none"}
    [] l \in {"bound", "registered"} -> {"bound"}
    [] l = "connecting"              -> {"syn_sent", "established"}
    [] l = "abort"                   -> {"none", "established"}
    [] l = "closed"                  -> {"none", "time_wait"}
    [] OTHER                         -> {"established"}

\* A port has one socket at a time, and a handler keeps the one it bound.
Sockets ==
  /\ \A h \in Handlers :
       /\ sock[h] \in SockAt(pc[h])
       /\ pc[h] = "idle" => port[h] = NoPort
       /\ pc[h] \notin {"idle", "closed"} => port[h] \in LocalPorts
       /\ sock[h] # "none" => port[h] \in LocalPorts
  /\ \A g, h \in Handlers :
       g # h /\ port[g] = port[h] => sock[g] = "none" \/ sock[h] = "none"

Places == {"idle", "bound", "registered", "connecting", "lookup", "waiting",
           "finish", "abort", "relay", "relayed", "closed"}
SockStates == {"none", "bound", "syn_sent", "established", "time_wait"}

HandlerTypes ==
  /\ pc \in [Handlers -> Places]
  /\ port \in [Handlers -> LocalPorts \cup {NoPort}]
  /\ sock \in [Handlers -> SockStates]

\* The steps that move no handler.
Environment ==
  \/ RunInjector \/ Network \/ Quiet
  \/ \E h \in Handlers : RetransmitSyn(h)

LEMMA EnvironmentKeepsHandlers ==
  ASSUME Environment
  PROVE  UNCHANGED <<pc, port, sock>>
  BY DEF Environment, RunInjector, Network, Quiet, RetransmitSyn, Capture, ServerSyn,
     ServerAck, Receives, RetransmitSynAck, allVars, handlerVars, hostVars

\* A handler of the steps that move one.
Moves(h) ==
  \/ \E p \in LocalPorts : Bind(h, p)
  \/ BindFailed(h) \/ HandlerStep(h) \/ WaitEnds(h) \/ ConnectFailed(h)
  \/ RelayFirst(h)

LEMMA SplitNext ==
  ASSUME [BNext]_allVars
  PROVE  \/ \E h \in Handlers : Moves(h)
         \/ Environment \/ LocalTcp \/ UNCHANGED allVars
  BY DEF BNext, Moves, Environment

LEMMA HandlerTypesStep ==
  ASSUME HandlerTypes, [BNext]_allVars
  PROVE  HandlerTypes'
<1>. USE DEF HandlerTypes, Places, SockStates
<1>1. CASE Environment \/ UNCHANGED allVars
  BY <1>1, EnvironmentKeepsHandlers DEF allVars, handlerVars, hostVars
<1>2. CASE LocalTcp
  BY <1>2 DEF LocalTcp, handlerVars
<1>3. ASSUME NEW h \in Handlers, Moves(h) PROVE HandlerTypes'
  <2>1. ASSUME NEW p \in LocalPorts, Bind(h, p) PROVE HandlerTypes'
    BY <2>1 DEF Bind, Goto
  <2>2. CASE BindFailed(h) \/ WaitEnds(h) \/ RelayFirst(h)
    BY <2>2 DEF BindFailed, WaitEnds, WokenUp, WaitTimeout, RelayFirst, Goto, hostVars
  <2>3. CASE HandlerStep(h)
    <3>1. CASE Register(h) \/ Connect(h) \/ Connected(h)
      BY <3>1 DEF Register, Connect, Connected, Goto, hostVars
    <3>2. CASE Lookup(h) \/ Finish(h)
      BY <3>2 DEF Lookup, Finish, Goto, hostVars
    <3>3. CASE Abort(h)
      BY <3>3 DEF Abort, Goto
    <3>. QED
      BY <2>3, <3>1, <3>2, <3>3 DEF HandlerStep
  <2>4. CASE ConnectFailed(h)
    BY <2>4 DEF ConnectFailed, Goto
  <2>. QED
    BY <1>3, <2>1, <2>2, <2>3, <2>4 DEF Moves
<1>. QED
  BY <1>1, <1>2, <1>3, SplitNext

\* What a move does to the handler's place, port and socket.
Moved(h) ==
  \/ /\ pc[h] = "idle" /\ pc'[h] = "bound" /\ sock'[h] = "bound"
     /\ port'[h] \in LocalPorts /\ FreePort(port'[h])
  \/ /\ port'[h] = port[h]
     /\ \/ pc[h] = "idle" /\ pc'[h] = "closed" /\ sock'[h] = sock[h]
        \/ pc[h] = "bound" /\ pc'[h] = "registered" /\ sock'[h] = sock[h]
        \/ pc[h] = "registered" /\ pc'[h] = "connecting" /\ sock'[h] = "syn_sent"
        \/ /\ pc[h] = "connecting" /\ pc'[h] \in {"lookup", "finish"}
           /\ sock[h] = "established" /\ sock'[h] = sock[h]
        \/ pc[h] = "connecting" /\ pc'[h] = "abort" /\ sock'[h] = "none"
        \/ pc[h] = "lookup" /\ pc'[h] \in {"waiting", "abort"} /\ sock'[h] = sock[h]
        \/ pc[h] = "waiting" /\ pc'[h] \in {"finish", "abort"} /\ sock'[h] = sock[h]
        \/ pc[h] = "finish" /\ pc'[h] = "relay" /\ sock'[h] = sock[h]
        \/ pc[h] = "relay" /\ pc'[h] = "relayed" /\ sock'[h] = sock[h]
        \/ /\ pc[h] = "abort" /\ pc'[h] = "closed"
           /\ sock'[h] = IF sock[h] = "established" THEN "time_wait" ELSE sock[h]

LEMMA MovesOne ==
  ASSUME HandlerTypes, NEW h \in Handlers, Moves(h)
  PROVE  /\ Moved(h)
         /\ \A g \in Handlers \ {h} :
              pc'[g] = pc[g] /\ port'[g] = port[g] /\ sock'[g] = sock[g]
<1>. USE DEF HandlerTypes, Moved, Goto, hostVars
<1>1. ASSUME NEW p \in LocalPorts, Bind(h, p)
      PROVE  Moved(h) /\ \A g \in Handlers \ {h} :
               pc'[g] = pc[g] /\ port'[g] = port[g] /\ sock'[g] = sock[g]
  BY <1>1 DEF Bind
<1>2. CASE BindFailed(h) \/ RelayFirst(h) \/ ConnectFailed(h)
  BY <1>2 DEF BindFailed, RelayFirst, ConnectFailed
<1>3. CASE WaitEnds(h)
  BY <1>3 DEF WaitEnds, WokenUp, WaitTimeout
<1>4. CASE Register(h) \/ Connect(h) \/ Connected(h)
  BY <1>4 DEF Register, Connect, Connected
<1>5. CASE Lookup(h) \/ Finish(h)
  BY <1>5 DEF Lookup, Finish
<1>6. CASE Abort(h)
  BY <1>6 DEF Abort
<1>. QED
  BY <1>1, <1>2, <1>3, <1>4, <1>5, <1>6 DEF Moves, HandlerStep

\* What the local stack does to sockets: it establishes one that sent its SYN.
LEMMA LocalTcpSockets ==
  ASSUME HandlerTypes, LocalTcp
  PROVE  /\ UNCHANGED <<pc, port>>
         /\ \A g \in Handlers :
              \/ sock'[g] = sock[g]
              \/ sock[g] = "syn_sent" /\ sock'[g] = "established"
  BY DEF LocalTcp, HandlerTypes, handlerVars

LEMMA SocketsStep ==
  ASSUME HandlerTypes, Sockets, [BNext]_allVars
  PROVE  Sockets'
<1>1. CASE Environment \/ UNCHANGED allVars
  BY <1>1, EnvironmentKeepsHandlers DEF Sockets, allVars, handlerVars, hostVars
<1>2. CASE LocalTcp
  BY <1>2, LocalTcpSockets DEF Sockets, SockAt, HandlerTypes, Places
<1>3. ASSUME NEW h \in Handlers, Moves(h) PROVE Sockets'
  <2>1. Moved(h) /\ \A g \in Handlers \ {h} :
          pc'[g] = pc[g] /\ port'[g] = port[g] /\ sock'[g] = sock[g]
    BY <1>3, MovesOne
  <2>2. NoPort \notin LocalPorts
    BY BypassAssumption
  <2>3. ASSUME NEW g \in Handlers
        PROVE  /\ sock'[g] \in SockAt(pc'[g])
               /\ pc'[g] = "idle" => port'[g] = NoPort
               /\ pc'[g] \notin {"idle", "closed"} => port'[g] \in LocalPorts
               /\ sock'[g] # "none" => port'[g] \in LocalPorts
    BY <2>1 DEF Sockets, SockAt, Moved
  <2>4. ASSUME NEW f \in Handlers, NEW g \in Handlers, f # g, port'[f] = port'[g]
        PROVE  sock'[f] = "none" \/ sock'[g] = "none"
    BY <2>1, <2>2, <2>4 DEF Sockets, SockAt, Moved, FreePort
  <2>. QED
    BY <2>3, <2>4 DEF Sockets
<1>. QED
  BY <1>1, <1>2, <1>3, SplitNext

-----------------------------------------------------------------------------
(* The injector in its place.                                              *)

\* The payloads: each handler has one fake and one real, all different.
LEMMA PayloadFacts ==
  /\ \A h \in Handlers : /\ FakeOf(h) \in Payloads /\ RealOf(h) \in Payloads
                         /\ FakeOf(h) # Empty /\ RealOf(h) # Empty
  /\ \A g, h \in Handlers : /\ FakeOf(g) = FakeOf(h) => g = h
                            /\ RealOf(g) = RealOf(h) => g = h
                            /\ FakeOf(g) # RealOf(h)
<1>1. \A h \in Handlers : FakeOf(h) \in Payloads /\ RealOf(h) \in Payloads
  BY BypassAssumption DEF FakeOf, RealOf
<1>. QED
  BY <1>1, InjectorAssumption DEF FakeOf, RealOf

LEMMA KeyFacts ==
  ASSUME HandlerTypes, NEW h \in Handlers, port[h] \in LocalPorts
  PROVE  KeyOf(h) \in ConnKey
  BY BypassAssumption DEF KeyOf, ConnKey

\* The parts of the composition that meet the injector.
Meets == HandlerTypes /\ Sockets /\ queue \in Seq(Packet)

\* Every step of the whole is a step of the injector's world, or none.
LEMMA InjectorIsDriven ==
  ASSUME Meets, [BNext]_allVars
  PROVE  [Next]_vars
<1>1. ASSUME NEW h \in Handlers, Register(h) PROVE Next
  <2>1. KeyOf(h) \in ConnKey
    BY <1>1, KeyFacts DEF Register, Meets, Sockets
  <2>2. InsertConn(KeyOf(h), FakeOf(h), BypassMethod)
    BY <1>1 DEF Register
  <2>. QED
    BY <2>1, <2>2, PayloadFacts, BypassAssumption DEF Next, Tasks
<1>2. ASSUME NEW h \in Handlers, Abort(h) \/ Finish(h) PROVE Next
  <2>1. KeyOf(h) \in ConnKey
    BY <1>2, KeyFacts DEF Abort, Finish, Meets, Sockets
  <2>. QED
    BY <1>2, <2>1 DEF Abort, Finish, Next, Tasks
<1>3. ASSUME NEW h \in Handlers, WokenUp(h) PROVE Next
  <2>1. KeyOf(h) \in ConnKey
    BY <1>3, KeyFacts DEF WokenUp, Meets, Sockets
  <2>. QED
    BY <1>3, <2>1 DEF WokenUp, Next, Tasks
<1>4. CASE RunInjector
  <2>1. CASE Step
    BY <2>1 DEF Next
  <2>2. CASE queue # <<>> /\ Recv(Head(queue))
    <3>1. Head(queue) \in Packet
      BY <2>2 DEF Meets
    <3>. QED
      BY <2>2, <3>1 DEF Next
  <2>. QED
    BY <1>4, <2>1, <2>2 DEF RunInjector
<1>5. ASSUME NEW h \in Handlers,
             \/ \E p \in LocalPorts : Bind(h, p)
             \/ BindFailed(h) \/ Connect(h) \/ Connected(h) \/ Lookup(h)
             \/ WaitTimeout(h) \/ ConnectFailed(h) \/ RelayFirst(h) \/ RetransmitSyn(h)
      PROVE  UNCHANGED vars
  BY <1>5 DEF Bind, BindFailed, Connect, Connected, Lookup, WaitTimeout, ConnectFailed,
     RelayFirst, RetransmitSyn
<1>6. CASE LocalTcp \/ Network \/ Quiet \/ UNCHANGED allVars
  BY <1>6 DEF LocalTcp, Network, Quiet, Capture, ServerSyn, ServerAck, Receives,
     RetransmitSynAck, allVars
<1>. QED
  BY <1>1, <1>2, <1>3, <1>4, <1>5, <1>6 DEF BNext, HandlerStep, WaitEnds

-----------------------------------------------------------------------------
(* What the injector sends.                                                *)

LEMMA AppendedOne ==
  ASSUME NEW S, NEW s \in Seq(S), NEW x \in S
  PROVE  {Append(s, x)[i] : i \in DOMAIN Append(s, x) \ DOMAIN s} = {x}
<1>1. DOMAIN Append(s, x) \ DOMAIN s = {Len(s) + 1} /\ Append(s, x)[Len(s) + 1] = x
  OBVIOUS
<1>. QED
  BY <1>1

\* The thread sends nothing, or the packet it has, or a fake in place of it.
SendsFake ==
  /\ at = "delay" /\ AfterDelay /\ packet' = packet
  /\ HandshakeAckExpected(Current, packet) /\ ~packet.inbound
  /\ ~Current.fake_sent
  /\ connections' = [connections EXCEPT ![Key(packet)].fake_sent = TRUE]
  /\ JustSent = {Fake(Current, packet)}

LEMMA SentByRecv ==
  ASSUME NEW p \in Packet, Recv(p)
  PROVE  /\ at = "recv" /\ packet' = p /\ UNCHANGED connections
         /\ JustSent \in {{}, {p}}
<1>1. CASE RecvUntracked(p)
  <2>1. {sent'[i] : i \in DOMAIN sent' \ {}} = {p}
    BY <1>1 DEF RecvUntracked
  <2>. QED
    BY <1>1, <2>1 DEF RecvUntracked, JustSent
<1>2. CASE RecvTracked(p)
  <2>1. {sent'[i] : i \in DOMAIN sent' \ {}} = {}
    BY <1>2 DEF RecvTracked
  <2>. QED
    BY <1>2, <2>1 DEF RecvTracked, JustSent
<1>. QED
  BY <1>1, <1>2 DEF Recv

LEMMA DelayEnds ==
  ASSUME IInv, AfterDelay
  PROVE  SendsFake \/ (sent' = sent /\ Decide("unexpected_close"))
<1>1. /\ packet \in Packet /\ sent \in Seq(Packet) /\ Current \in Conn
      /\ JustSent = {sent'[i] : i \in DOMAIN sent' \ DOMAIN sent}
  BY CurrentTyped DEF IInv, TypeOK, JustSent, AfterDelay
<1>2. Current.monitor
  BY DEF AfterDelay, IInv, ThreadView
<1>3. CASE Current.bypass_method = "wrong_seq"
  <2>1. /\ at = "delay" /\ sent' = Append(sent, Fake(Current, packet))
        /\ connections' = [connections EXCEPT ![Key(packet)].fake_sent = TRUE]
    BY <1>2, <1>3 DEF AfterDelay
  <2>2. /\ HandshakeAckExpected(Current, packet) /\ ~packet.inbound
        /\ ~Current.fake_sent
    BY <2>1 DEF IInv, ThreadView
  <2>3. Fake(Current, packet) \in Packet
    BY <1>1, <2>2, FakeTyped DEF HandshakeAckExpected
  <2>4. JustSent = {Fake(Current, packet)}
    BY <1>1, <2>1, <2>3, AppendedOne
  <2>. QED
    BY <2>1, <2>2, <2>4 DEF SendsFake, AfterDelay
<1>4. CASE Current.bypass_method # "wrong_seq"
  BY <1>2, <1>4 DEF AfterDelay
<1>. QED
  BY <1>3, <1>4

LEMMA SentByStep ==
  ASSUME IInv, Step
  PROVE  /\ at # "recv" /\ packet \in Packet /\ packet' = packet
         /\ JustSent \in {{}, {packet}} \/ SendsFake
<1>1. at # "recv" /\ packet' = packet
  BY DEF Step, CheckMonitor, OutboundSyn, OutboundAck, InboundSynAck, InboundFakeAck,
         NotExpected, Notify, AfterDelay, Handling
<1>2. /\ packet \in Packet /\ sent \in Seq(Packet)
      /\ JustSent = {sent'[i] : i \in DOMAIN sent' \ DOMAIN sent}
  BY <1>1, CurrentTyped DEF IInv, TypeOK, JustSent
<1>3. CASE sent' = sent
  <2>1. JustSent = {}
    BY <1>2, <1>3
  <2>. QED
    BY <1>1, <1>2, <2>1
<1>4. CASE Forward
  <2>1. JustSent = {packet}
    BY <1>2, <1>4, AppendedOne DEF Forward
  <2>. QED
    BY <1>1, <1>2, <2>1
<1>5. CASE AfterDelay
  BY <1>1, <1>2, <1>3, <1>5, DelayEnds
<1>. QED
  BY <1>3, <1>4, <1>5 DEF Step, CheckMonitor, OutboundSyn, OutboundAck, InboundSynAck,
     InboundFakeAck, NotExpected, Notify

\* All that a turn of the injector does outside its own variables.
LEMMA InjectorSends ==
  ASSUME IInv, queue \in Seq(Packet), RunInjector
  PROVE  /\ packet' \in Packet
         /\ \/ at # "recv" /\ Step /\ packet' = packet /\ queue' = queue
            \/ /\ at = "recv" /\ queue # <<>> /\ queue' = Tail(queue)
               /\ packet' = Head(queue) /\ UNCHANGED connections
         /\ \/ JustSent = {} /\ UNCHANGED <<inbox, toPeer>>
            \/ JustSent = {packet'} /\ Delivers(packet')
            \/ /\ SendsFake /\ Fake(Current, packet) \in Packet
               /\ Delivers(Fake(Current, packet))
<1>1. CASE Step /\ queue' = queue
  <2>1. /\ at # "recv" /\ packet \in Packet /\ packet' = packet
        /\ JustSent \in {{}, {packet}} \/ SendsFake
    BY <1>1, SentByStep
  <2>2. CASE JustSent \in {{}, {packet}}
    BY <1>1, <2>1, <2>2 DEF RunInjector
  <2>3. CASE SendsFake
    <3>1. Current \in Conn
      BY <2>1, CurrentTyped DEF IInv
    <3>2. Fake(Current, packet) \in Packet
      BY <2>1, <2>3, <3>1, FakeTyped DEF SendsFake, HandshakeAckExpected
    <3>. QED
      BY <1>1, <2>1, <2>3, <3>2 DEF RunInjector, SendsFake
  <2>. QED
    BY <2>1, <2>2, <2>3
<1>2. CASE queue # <<>> /\ Recv(Head(queue)) /\ queue' = Tail(queue)
  <2>1. Head(queue) \in Packet
    BY <1>2
  <2>2. /\ at = "recv" /\ packet' = Head(queue) /\ UNCHANGED connections
        /\ JustSent \in {{}, {Head(queue)}}
    BY <1>2, <2>1, SentByRecv
  <2>. QED
    BY <1>2, <2>1, <2>2 DEF RunInjector
<1>. QED
  BY <1>1, <1>2 DEF RunInjector

-----------------------------------------------------------------------------
(* Types.                                                                  *)

WireTypes ==
  /\ srv \in [ConnKey -> Server]
  /\ queue \in Seq(Packet) /\ inbox \in Seq(Packet)
  /\ toPeer \subseteq Packet /\ toHost \subseteq Packet

\* What the local stack and the server send are packets.
LEMMA SegmentsTyped ==
  ASSUME NEW h \in Handlers, port[h] \in LocalPorts
  PROVE  /\ SynOf(h) \in Packet /\ AckOf(h) \in Packet
         /\ [AckOf(h) EXCEPT !.payload = RealOf(h)] \in Packet
<1>1. /\ Isn[h] \in SeqNums /\ NextSeq(Isn[h]) \in SeqNums
      /\ NextSeq(ServerIsn) \in SeqNums /\ 0 \in SeqNums
  BY BypassAssumption, NextSeqMoves, SeqModAssumption DEF SeqNums
<1>2. 443 \in RemotePorts /\ RealOf(h) \in Payloads
  BY BypassAssumption, PayloadFacts
<1>3. Syn \in Flags /\ Ack \in Flags
  BY DEF Flags
<1>4. SynOf(h) \in Packet /\ AckOf(h) \in Packet
  BY <1>1, <1>2, <1>3 DEF SynOf, AckOf, Segment, Packet
<1>. QED
  BY <1>2, <1>4 DEF Packet

LEMMA RepliesTyped ==
  ASSUME NEW k \in ConnKey, NEW n \in SeqNums
  PROVE  SynAckTo(k, n) \in Packet /\ AckTo(k, n) \in Packet
<1>1. ServerIsn \in SeqNums /\ NextSeq(ServerIsn) \in SeqNums
  BY BypassAssumption, NextSeqMoves
<1>2. SynAck \in Flags /\ Ack \in Flags /\ k[1] \in LocalPorts /\ k[2] \in RemotePorts
  BY DEF Flags, ConnKey
<1>. QED
  BY <1>1, <1>2 DEF SynAckTo, AckTo, Reply, Packet

LEMMA PacketKey ==
  ASSUME NEW p \in Packet
  PROVE  Key(p) \in ConnKey
  BY DEF Packet, Key, ConnKey

LEMMA LengthTyped ==
  ASSUME NEW p \in Packet
  PROVE  Length(p) \in SeqNums
<1>1. 0 \in SeqNums /\ 1 \in SeqNums /\ FakeLen \in SeqNums
  BY SeqModAssumption, InjectorAssumption DEF SeqNums
<1>. QED
  BY <1>1 DEF Length

\* The server's end changes for one connection, and the packet is gone or not.
LEMMA ReceivedTypes ==
  ASSUME WireTypes, NEW p \in toPeer, NEW t \in Server, NEW r \in SUBSET Packet,
         Receives(p, t, r)
  PROVE  WireTypes'
  BY DEF WireTypes, Receives, Delivered, hostVars

LEMMA NetworkTypes ==
  ASSUME WireTypes, Network
  PROVE  WireTypes'
<1>1. CASE Capture
  BY <1>1 DEF Capture, Delivered, WireTypes
<1>2. ASSUME NEW p \in toPeer, ServerSyn(p) PROVE WireTypes'
  <2>1. p \in Packet /\ Key(p) \in ConnKey /\ srv[Key(p)] \in Server
    BY PacketKey DEF WireTypes
  <2>2. NextSeq(p.seq_num) \in SeqNums /\ srv[Key(p)].rcv_nxt \in SeqNums
    BY <2>1, NextSeqMoves DEF Packet, Server
  <2>3. /\ [srv[Key(p)] EXCEPT !.state = "syn_rcvd",
                               !.rcv_nxt = NextSeq(p.seq_num)] \in Server
        /\ [srv[Key(p)] EXCEPT !.challenged = TRUE] \in Server
        /\ [srv[Key(p)] EXCEPT !.state = "syn_rcvd",
                               !.rcv_nxt = NextSeq(p.seq_num)].rcv_nxt
             = NextSeq(p.seq_num)
    BY <2>1, <2>2 DEF Server
  <2>. QED
    BY <1>2, <2>1, <2>2, <2>3, RepliesTyped, ReceivedTypes DEF ServerSyn
<1>3. ASSUME NEW p \in toPeer, ServerAck(p) PROVE WireTypes'
  <2>1. /\ p \in Packet /\ Key(p) \in ConnKey /\ srv[Key(p)] \in Server
        /\ srv[Key(p)].rcv_nxt \in SeqNums
    BY PacketKey DEF WireTypes, Server
  <2>2. WrappingAdd(p.seq_num, Length(p)) \in SeqNums
    BY <2>1, LengthTyped, WrappingTyped DEF Packet
  <2> DEFINE r == IF NoPayload(p) THEN srv[Key(p)].read
                                  ELSE Append(srv[Key(p)].read, p.payload)
             t == [srv[Key(p)] EXCEPT !.state = "established",
                     !.rcv_nxt = WrappingAdd(p.seq_num, Length(p)), !.read = r]
             u == [srv[Key(p)] EXCEPT !.got = @ \cup {p.payload}]
  <2>3. r \in Seq(Payloads)
    BY <2>1 DEF Server, Packet, NoPayload
  <2>4. t \in Server
    BY <2>1, <2>2, <2>3 DEF Server
  <2>5. ~NoPayload(p) => u \in Server
    BY <2>1 DEF Server, Packet, NoPayload
  <2>6. \/ Receives(p, t, {})
        \/ ~NoPayload(p) /\ Receives(p, u, {AckTo(Key(p), srv[Key(p)].rcv_nxt)})
    BY <1>3 DEF ServerAck
  <2>. QED
    BY <2>1, <2>4, <2>5, <2>6, RepliesTyped, ReceivedTypes
<1>4. ASSUME NEW k \in ConnKey, RetransmitSynAck(k) PROVE WireTypes'
  <2>1. srv[k].rcv_nxt \in SeqNums
    BY DEF WireTypes, Server
  <2>. QED
    BY <1>4, <2>1, RepliesTyped DEF RetransmitSynAck, WireTypes, hostVars
<1>. QED
  BY <1>1, <1>2, <1>3, <1>4 DEF Network

LEMMA TailTyped ==
  ASSUME NEW S, NEW s \in Seq(S), s # <<>>
  PROVE  Tail(s) \in Seq(S)
  OBVIOUS

\* One more captured packet.
LEMMA CapturedTypes ==
  ASSUME WireTypes, NEW p \in Packet, queue' = Append(queue, p),
         UNCHANGED <<srv, toPeer, toHost>>, inbox' \in Seq(Packet)
  PROVE  WireTypes'
  BY DEF WireTypes

LEMMA WireTypesStep ==
  ASSUME IInv, HandlerTypes, Sockets, WireTypes, [BNext]_allVars
  PROVE  WireTypes'
<1>1. CASE Network
  BY <1>1, NetworkTypes
<1>2. CASE RunInjector
  <2>1. UNCHANGED <<srv, toHost>>
    BY <1>2 DEF RunInjector
  <2>2. queue' \in Seq(Packet)
    <3>1. queue' = queue \/ (queue # <<>> /\ queue' = Tail(queue))
      BY <1>2 DEF RunInjector
    <3>. QED
      BY <3>1, TailTyped DEF WireTypes
  <2>3. \/ UNCHANGED <<inbox, toPeer>>
        \/ \E p \in Packet : Delivers(p)
    BY <1>2, InjectorSends DEF WireTypes
  <2>4. inbox' \in Seq(Packet) /\ toPeer' \subseteq Packet
    BY <2>3 DEF Delivers, WireTypes
  <2>. QED
    BY <2>1, <2>2, <2>4 DEF WireTypes
<1>3. ASSUME NEW h \in Handlers, Connect(h) \/ RelayFirst(h) \/ RetransmitSyn(h)
      PROVE  WireTypes'
  <2>1. port[h] \in LocalPorts
    BY <1>3 DEF Connect, RelayFirst, RetransmitSyn, Sockets
  <2>2. /\ queue' \in {Append(queue, SynOf(h)),
                       Append(queue, [AckOf(h) EXCEPT !.payload = RealOf(h)])}
        /\ UNCHANGED <<inbox, srv, toPeer, toHost>>
    BY <1>3 DEF Connect, RelayFirst, RetransmitSyn, netVars
  <2>3. inbox' \in Seq(Packet)
    BY <2>2 DEF WireTypes
  <2>. QED
    BY <2>1, <2>2, <2>3, SegmentsTyped, CapturedTypes
<1>4. CASE LocalTcp
  <2>1. UNCHANGED <<srv, toPeer, toHost>> /\ inbox' \in Seq(Packet)
    BY <1>4 DEF LocalTcp, netVars, WireTypes
  <2>2. CASE queue' = queue
    BY <2>1, <2>2 DEF WireTypes
  <2>3. ASSUME NEW h \in Handlers, sock[h] # "none", queue' = Append(queue, AckOf(h))
        PROVE  WireTypes'
    BY <2>1, <2>3, SegmentsTyped, CapturedTypes DEF Sockets
  <2>. QED
    BY <1>4, <2>2, <2>3 DEF LocalTcp
<1>5. ASSUME NEW h \in Handlers,
             \/ \E p \in LocalPorts : Bind(h, p)
             \/ BindFailed(h) \/ Register(h) \/ Connected(h) \/ Lookup(h) \/ Abort(h)
             \/ Finish(h) \/ WaitEnds(h) \/ ConnectFailed(h)
      PROVE  WireTypes'
  BY <1>5 DEF Bind, BindFailed, Register, Connected, Lookup, Abort, Finish, WaitEnds,
     WokenUp, WaitTimeout, ConnectFailed, netVars, hostVars, WireTypes
<1>6. CASE Quiet \/ UNCHANGED allVars
  BY <1>6 DEF Quiet, allVars, hostVars, netVars, WireTypes
<1>. QED
  BY <1>1, <1>2, <1>3, <1>4, <1>5, <1>6 DEF BNext, HandlerStep

-----------------------------------------------------------------------------
(* The first invariant: types, sockets and the injector's own.             *)

TInv == IInv /\ HandlerTypes /\ Sockets /\ WireTypes

LEMMA InitTInv == BInit => TInv
<1>. SUFFICES ASSUME BInit PROVE TInv
  OBVIOUS
<1>1. IInv
  BY InitIInv DEF BInit
<1>2. HandlerTypes
  BY DEF BInit, HandlerTypes, Places, SockStates
<1>3. Sockets
  BY DEF BInit, Sockets, SockAt
<1>4. NoServer \in Server
  BY SeqModAssumption DEF NoServer, Server, SeqNums
<1>5. WireTypes
  BY <1>4 DEF BInit, WireTypes
<1>. QED
  BY <1>1, <1>2, <1>3, <1>5 DEF TInv

LEMMA NextTInv == TInv /\ [BNext]_allVars => TInv'
<1>. SUFFICES ASSUME TInv, [BNext]_allVars PROVE TInv'
  OBVIOUS
<1>1. HandlerTypes' /\ Sockets' /\ WireTypes'
  BY HandlerTypesStep, SocketsStep, WireTypesStep DEF TInv
<1>2. IInv'
  BY InjectorIsDriven, NextIInv DEF TInv, Meets, WireTypes
<1>. QED
  BY <1>1, <1>2 DEF TInv

LEMMA TInvariance == BSpec => []TInv
  BY InitTInv, NextTInv, PTL DEF BSpec

\* The composition only does with the injector what its own specification allows:
\* everything proved of the injector under any traffic holds of the whole bypass.
THEOREM DrivesInjector == BSpec => Spec
<1>1. BInit => Init
  BY DEF BInit
<1>2. TInv /\ [BNext]_allVars => [Next]_vars
  BY InjectorIsDriven DEF TInv, Meets, WireTypes
<1>. QED
  BY <1>1, <1>2, TInvariance, PTL DEF BSpec, Spec

-----------------------------------------------------------------------------
(* What the injector does to the map.                                      *)

\* From entry c to entry d by a step of the thread: whose it is does not change,
\* and what does change has its reason in the packet.
Turn(c, d) ==
  /\ d \in Conn /\ d.fake_data = c.fake_data /\ d.bypass_method = c.bypass_method
  /\ \/ d.syn_seq = c.syn_seq
     \/ ~packet.inbound /\ packet.flags = Syn /\ d.syn_seq = packet.seq_num
        /\ at = "handle"
  /\ d.fake_sent = c.fake_sent \/ (SendsFake /\ d.fake_sent)
  /\ \/ d.t2a_msg \in {c.t2a_msg, "unexpected_close"}
     \/ packet.inbound /\ packet.flags = Ack /\ c.fake_sent

LEMMA StepTurns ==
  ASSUME IInv, Step
  PROVE  /\ packet \in Packet /\ Key(packet) \in ConnKey /\ Tracked(Key(packet))
         /\ Current \in Conn /\ Current = connections[Key(packet)]
         /\ \E d : /\ Turn(Current, d)
                   /\ connections' = [connections EXCEPT ![Key(packet)] = d]
<1>1. at # "recv"
  BY SentByStep
<1>2. /\ packet \in Packet /\ Key(packet) \in ConnKey
      /\ Current \in Conn /\ Current = connections[Key(packet)]
      /\ connections \in [ConnKey -> Conn \cup {NoConn}]
  BY <1>1, CurrentTyped DEF IInv, TypeOK
<1>3. Tracked(Key(packet))
  BY <1>1 DEF IInv, ThreadView
<1>4. CASE connections' = connections
  <2>1. connections' = [connections EXCEPT ![Key(packet)] = Current]
    BY <1>2, <1>4
  <2>. QED
    BY <1>2, <1>3, <2>1 DEF Turn
<1>5. CASE OutboundSyn
  <2> DEFINE d == [Current EXCEPT !.syn_seq = packet.seq_num]
  <2>1. connections' = [connections EXCEPT ![Key(packet)] = d]
    BY <1>2, <1>5 DEF OutboundSyn
  <2>2. Turn(Current, d)
    BY <1>2, <1>5 DEF Turn, OutboundSyn, Handling, Conn, Packet
  <2>. HIDE DEF d
  <2>. QED
    BY <1>2, <1>3, <2>1, <2>2
<1>6. CASE OutboundAck
  <2> DEFINE d == [Current EXCEPT !.sch_fake_sent = TRUE]
  <2>1. connections' = [connections EXCEPT ![Key(packet)] = d]
    BY <1>2, <1>6 DEF OutboundAck
  <2>2. Turn(Current, d)
    BY <1>2 DEF Turn, Conn
  <2>. HIDE DEF d
  <2>. QED
    BY <1>2, <1>3, <2>1, <2>2
<1>7. CASE InboundSynAck
  <2> DEFINE d == [Current EXCEPT !.syn_ack_seq = packet.seq_num]
  <2>1. connections' = [connections EXCEPT ![Key(packet)] = d]
    BY <1>2, <1>7 DEF InboundSynAck
  <2>2. Turn(Current, d)
    BY <1>2 DEF Turn, Conn, Packet
  <2>. HIDE DEF d
  <2>. QED
    BY <1>2, <1>3, <2>1, <2>2
<1>8. CASE InboundFakeAck
  <2> DEFINE d == [Current EXCEPT !.monitor = FALSE, !.t2a_msg = "fake_data_ack_recv"]
  <2>1. connections' = [connections EXCEPT ![Key(packet)] = d]
    BY <1>2, <1>8 DEF InboundFakeAck, Decide
  <2>2. packet.inbound /\ packet.flags = Ack /\ Current.fake_sent
    BY <1>8 DEF InboundFakeAck, Handling, Expected, InboundExpected, SynAckExpected,
       FakeAckExpected, Ack, SynAck
  <2>3. Turn(Current, d)
    BY <1>2, <2>2 DEF Turn, Conn
  <2>. HIDE DEF d
  <2>. QED
    BY <1>2, <1>3, <2>1, <2>3
<1>9. CASE Decide("unexpected_close")
  <2> DEFINE d == [Current EXCEPT !.monitor = FALSE, !.t2a_msg = "unexpected_close"]
  <2>1. connections' = [connections EXCEPT ![Key(packet)] = d]
    BY <1>2, <1>9 DEF Decide
  <2>2. Turn(Current, d)
    BY <1>2 DEF Turn, Conn
  <2>. HIDE DEF d
  <2>. QED
    BY <1>2, <1>3, <2>1, <2>2
<1>10. CASE Notify
  <2> DEFINE d == [Current EXCEPT !.permit = TRUE]
  <2>1. connections' = [connections EXCEPT ![Key(packet)] = d]
    BY <1>2, <1>10 DEF Notify
  <2>2. Turn(Current, d)
    BY <1>2 DEF Turn, Conn
  <2>. HIDE DEF d
  <2>. QED
    BY <1>2, <1>3, <2>1, <2>2
<1>11. CASE SendsFake
  <2> DEFINE d == [Current EXCEPT !.fake_sent = TRUE]
  <2>1. connections' = [connections EXCEPT ![Key(packet)] = d]
    BY <1>2, <1>11 DEF SendsFake
  <2>2. Turn(Current, d)
    BY <1>2, <1>11 DEF Turn, Conn
  <2>. HIDE DEF d
  <2>. QED
    BY <1>2, <1>3, <2>1, <2>2
<1>. QED
  BY <1>4, <1>5, <1>6, <1>7, <1>8, <1>9, <1>10, <1>11, DelayEnds
     DEF Step, CheckMonitor, NotExpected

\* Nobody but handlers and the injector writes to the map.
LEMMA MapKept ==
  ASSUME \/ LocalTcp \/ Network \/ Quiet \/ UNCHANGED allVars
         \/ \E h \in Handlers : \/ \E p \in LocalPorts : Bind(h, p)
                                \/ BindFailed(h) \/ Connect(h) \/ Connected(h)
                                \/ Lookup(h) \/ WaitTimeout(h) \/ ConnectFailed(h)
                                \/ RelayFirst(h) \/ RetransmitSyn(h)
  PROVE  connections' = connections /\ at' = at /\ packet' = packet
  BY DEF LocalTcp, Network, Quiet, Capture, ServerSyn, ServerAck, Receives,
     RetransmitSynAck, allVars, vars, Bind, BindFailed, Connect, Connected, Lookup,
     WaitTimeout, ConnectFailed, RelayFirst, RetransmitSyn

-----------------------------------------------------------------------------
(* Whose entry is in the map.                                              *)

\* Where a handler that has registered holds on to its port.
Holding == {"registered", "connecting", "lookup", "waiting", "finish"}

\* An entry belongs to a handler of that port on its way; a handler that holds
\* its port finds its own entry or none, and one that waits finds it.
Entries ==
  /\ \A k \in ConnKey : Tracked(k) =>
       \E h \in Handlers : Owned(k, h) /\ KeyOf(h) = k /\ pc[h] \in Holding \cup {"abort"}
  /\ \A h \in Handlers :
       /\ pc[h] \in Holding /\ Tracked(KeyOf(h)) => Owned(KeyOf(h), h)
       /\ pc[h] = "waiting" => Tracked(KeyOf(h))
       /\ pc[h] \in {"relay", "relayed"} => ~Tracked(KeyOf(h))

\* Nothing was inserted or removed.
SameOwners ==
  \A k \in ConnKey : /\ Tracked(k)' <=> Tracked(k)
                     /\ Tracked(k) => connections'[k].fake_data = connections[k].fake_data

LEMMA InjectorKeepsOwners ==
  ASSUME IInv, queue \in Seq(Packet), RunInjector
  PROVE  SameOwners
<1>1. connections \in [ConnKey -> Conn \cup {NoConn}]
  BY DEF IInv, TypeOK
<1>2. CASE UNCHANGED connections
  BY <1>2 DEF SameOwners, Tracked
<1>3. CASE Step
  <2>1. PICK d : /\ Turn(Current, d) /\ Key(packet) \in ConnKey
                 /\ Tracked(Key(packet)) /\ Current = connections[Key(packet)]
                 /\ connections' = [connections EXCEPT ![Key(packet)] = d]
    BY <1>3, StepTurns
  <2>2. d # NoConn /\ d.fake_data = Current.fake_data
    BY <2>1, NoConnAssumption DEF Turn
  <2>. QED
    BY <1>1, <2>1, <2>2 DEF SameOwners, Tracked
<1>. QED
  BY <1>2, <1>3, InjectorSends

LEMMA WakingKeepsOwners ==
  ASSUME IInv, NEW k \in ConnKey, TakePermit(k)
  PROVE  SameOwners
<1>. DEFINE d == [connections[k] EXCEPT !.permit = FALSE]
<1>1. connections \in [ConnKey -> Conn \cup {NoConn}] /\ connections[k] \in Conn
  BY DEF IInv, TypeOK, TakePermit, Tracked
<1>2. d \in Conn /\ d.fake_data = connections[k].fake_data
  BY <1>1 DEF Conn
<1>3. d # NoConn
  BY <1>2, NoConnAssumption
<1>4. connections' = [connections EXCEPT ![k] = d]
  BY DEF TakePermit
<1>. HIDE DEF d
<1>. QED
  BY <1>1, <1>2, <1>3, <1>4 DEF SameOwners, Tracked, TakePermit

\* The moves that do not touch the map's keys.
Quietly(h) ==
  \/ \E p \in LocalPorts : Bind(h, p)
  \/ BindFailed(h) \/ Connect(h) \/ Connected(h) \/ Lookup(h) \/ WaitEnds(h)
  \/ ConnectFailed(h) \/ RelayFirst(h)

LEMMA QuietlyKeepsOwners ==
  ASSUME TInv, NEW h \in Handlers, Quietly(h)
  PROVE  SameOwners
<1>1. CASE WokenUp(h)
  <2>1. KeyOf(h) \in ConnKey
    BY <1>1, KeyFacts DEF WokenUp, TInv, Sockets
  <2>. QED
    BY <1>1, <2>1, WakingKeepsOwners DEF WokenUp, TInv
<1>2. CASE UNCHANGED connections
  BY <1>2 DEF SameOwners, Tracked
<1>. QED
  BY <1>1, <1>2, MapKept DEF Quietly, WaitEnds

LEMMA SamePortSameKey ==
  ASSUME HandlerTypes, NEW g \in Handlers, NEW h \in Handlers
  PROVE  /\ KeyOf(g) = KeyOf(h) <=> port[g] = port[h]
         /\ KeyOf(g)' = KeyOf(h) <=> port'[g] = port[h]
         /\ KeyOf(g)' = KeyOf(h)' <=> port'[g] = port'[h]
         /\ port[h] \in LocalPorts => KeyOf(h) \in ConnKey
  BY KeyFacts DEF KeyOf

LEMMA QuietlyKeepsEntries ==
  ASSUME TInv, Entries, NEW h \in Handlers, Quietly(h)
  PROVE  Entries'
<1>1. SameOwners
  BY QuietlyKeepsOwners
<1>2. /\ Moved(h)
      /\ \A g \in Handlers \ {h} :
              pc'[g] = pc[g] /\ port'[g] = port[g] /\ sock'[g] = sock[g]
  BY MovesOne DEF TInv, Quietly, Moves, HandlerStep
<1>3. pc[h] \in {"idle", "registered", "connecting", "lookup", "waiting", "relay"}
  BY DEF Quietly, Bind, BindFailed, Connect, Connected, Lookup, WaitEnds, WokenUp,
         WaitTimeout, ConnectFailed, RelayFirst
<1>4. pc'[h] = "waiting" => Tracked(KeyOf(h))
  <2>1. pc'[h] = "waiting" => Lookup(h)
    BY DEF TInv, HandlerTypes, Quietly, Bind, BindFailed, Connect, Connected, WaitEnds,
       WokenUp, WaitTimeout, ConnectFailed, RelayFirst, Goto
  <2>. QED
    BY <2>1 DEF Lookup, Goto, TInv, HandlerTypes
<1>5. \A g \in Handlers : port[g] \in LocalPorts => KeyOf(g) \in ConnKey
  BY SamePortSameKey DEF TInv
<1>6. ASSUME NEW k \in ConnKey, Tracked(k)'
      PROVE  \E g \in Handlers : /\ Owned(k, g)' /\ KeyOf(g)' = k
                                 /\ pc'[g] \in Holding \cup {"abort"}
  <2>1. PICK g \in Handlers : /\ Owned(k, g) /\ KeyOf(g) = k
                              /\ pc[g] \in Holding \cup {"abort"}
    BY <1>1, <1>6 DEF Entries, SameOwners
  <2>2. Owned(k, g)'
    BY <1>1, <2>1 DEF SameOwners, Owned
  <2>3. port'[g] = port[g] /\ pc'[g] \in Holding \cup {"abort"}
    BY <1>2, <1>3, <2>1 DEF Moved, Holding
  <2>. QED
    BY <2>1, <2>2, <2>3 DEF KeyOf
<1>7. ASSUME NEW g \in Handlers, pc'[g] \in Holding \cup {"relay", "relayed"}
      PROVE  /\ pc[g] \in Holding \cup {"relay", "relayed"} /\ KeyOf(g)' = KeyOf(g)
             /\ KeyOf(g) \in ConnKey
             /\ pc'[g] \in Holding <=> pc[g] \in Holding
             /\ pc'[g] = "waiting" => pc[g] = "waiting" \/ Tracked(KeyOf(g))
  <2>1. pc[g] \in Holding \cup {"relay", "relayed"} /\ port'[g] = port[g]
    BY <1>2, <1>3, <1>7 DEF Moved, Holding
  <2>2. pc'[g] \in Holding <=> pc[g] \in Holding
    BY <1>2, <1>3, <1>7 DEF Moved, Holding
  <2>3. port[g] \in LocalPorts
    BY <2>1 DEF TInv, Sockets, Holding
  <2>. QED
    BY <1>2, <1>4, <1>5, <2>1, <2>2, <2>3 DEF KeyOf
<1>8. ASSUME NEW g \in Handlers
      PROVE  /\ pc'[g] \in Holding /\ Tracked(KeyOf(g))' => Owned(KeyOf(g), g)'
             /\ pc'[g] = "waiting" => Tracked(KeyOf(g))'
             /\ pc'[g] \in {"relay", "relayed"} => ~Tracked(KeyOf(g))'
  <2>1. CASE pc'[g] \in Holding \cup {"relay", "relayed"}
    <3>1. /\ KeyOf(g)' = KeyOf(g) /\ KeyOf(g) \in ConnKey
          /\ pc'[g] \in Holding <=> pc[g] \in Holding
          /\ pc[g] \in Holding \cup {"relay", "relayed"}
          /\ pc'[g] = "waiting" => pc[g] = "waiting" \/ Tracked(KeyOf(g))
      BY <1>7, <2>1
    <3>2. /\ Tracked(KeyOf(g))' <=> Tracked(KeyOf(g))
          /\ Owned(KeyOf(g), g) => Owned(KeyOf(g), g)'
      BY <1>1, <3>1 DEF SameOwners, Owned, Tracked
    <3>. QED
      BY <3>1, <3>2 DEF Entries, Holding
  <2>2. CASE pc'[g] \notin Holding \cup {"relay", "relayed"}
    BY <2>2 DEF Holding
  <2>. QED
    BY <2>1, <2>2
<1>. QED
  BY <1>6, <1>8 DEF Entries

\* A handler that registers owns its port alone: nobody else of that port can
\* be past bind and before its end.
LEMMA RegisterKeepsEntries ==
  ASSUME TInv, Entries, NEW h \in Handlers, Register(h)
  PROVE  Entries'
<1>1. /\ pc[h] = "bound" /\ port[h] \in LocalPorts /\ KeyOf(h) \in ConnKey
      /\ sock[h] = "bound"
  BY SamePortSameKey DEF Register, TInv, Sockets, SockAt
<1>2. /\ connections' = [connections EXCEPT ![KeyOf(h)] = NewConn(FakeOf(h), BypassMethod)]
      /\ pc' = [pc EXCEPT ![h] = "registered"] /\ UNCHANGED port
  BY DEF Register, InsertConn, Goto
<1>3. /\ NewConn(FakeOf(h), BypassMethod) # NoConn
      /\ NewConn(FakeOf(h), BypassMethod).fake_data = FakeOf(h)
  BY NewConnTyped, PayloadFacts, BypassAssumption DEF NewConn
<1>4. connections \in [ConnKey -> Conn \cup {NoConn}] /\ pc \in [Handlers -> Places]
  BY DEF TInv, IInv, TypeOK, HandlerTypes
<1>5. \A g \in Handlers : KeyOf(g)' = KeyOf(g)
  BY <1>2 DEF KeyOf
<1>6. ASSUME NEW g \in Handlers, g # h, pc[g] \in Holding \cup {"relay", "relayed"}
      PROVE  KeyOf(g) # KeyOf(h) /\ KeyOf(g) \in ConnKey
  <2>1. sock[g] # "none" /\ port[g] \in LocalPorts
    BY <1>6 DEF TInv, Sockets, SockAt, Holding
  <2>. QED
    BY <1>1, <1>6, <2>1, SamePortSameKey DEF TInv, Sockets
<1>7. Owned(KeyOf(h), h)'
  BY <1>1, <1>2, <1>3, <1>4, <1>5 DEF Owned, Tracked
<1>8. ASSUME NEW k \in ConnKey, k # KeyOf(h)
      PROVE  connections'[k] = connections[k]
  BY <1>2, <1>4, <1>8
<1>9. ASSUME NEW k \in ConnKey, Tracked(k)'
      PROVE  \E g \in Handlers : /\ Owned(k, g)' /\ KeyOf(g)' = k
                                 /\ pc'[g] \in Holding \cup {"abort"}
  <2>1. CASE k = KeyOf(h)
    <3>1. pc'[h] \in Holding
      BY <1>2, <1>4 DEF Holding
    <3>. QED
      BY <1>2, <1>5, <1>7, <2>1, <3>1 DEF Owned
  <2>2. CASE k # KeyOf(h)
    <3>1. Tracked(k)
      BY <1>8, <1>9, <2>2 DEF Tracked
    <3>2. PICK g \in Handlers : /\ Owned(k, g) /\ KeyOf(g) = k
                                /\ pc[g] \in Holding \cup {"abort"}
      BY <3>1 DEF Entries
    <3>3. g # h /\ pc'[g] = pc[g]
      BY <1>2, <1>4, <2>2, <3>2
    <3>4. Owned(k, g)'
      BY <1>8, <2>2, <3>2 DEF Owned, Tracked
    <3>. QED
      BY <1>5, <3>2, <3>3, <3>4
  <2>. QED
    BY <2>1, <2>2
<1>10. ASSUME NEW g \in Handlers, g # h
       PROVE  /\ pc'[g] \in Holding /\ Tracked(KeyOf(g))' => Owned(KeyOf(g), g)'
              /\ pc'[g] = "waiting" => Tracked(KeyOf(g))'
              /\ pc'[g] \in {"relay", "relayed"} => ~Tracked(KeyOf(g))'
  <2>1. pc'[g] = pc[g]
    BY <1>2, <1>4, <1>10
  <2>2. CASE pc[g] \in Holding \cup {"relay", "relayed"}
    <3>1. connections'[KeyOf(g)] = connections[KeyOf(g)]
      BY <1>6, <1>8, <1>10, <2>2
    <3>. QED
      BY <1>5, <2>1, <3>1 DEF Entries, Owned, Tracked
  <2>3. CASE pc[g] \notin Holding \cup {"relay", "relayed"}
    BY <2>1, <2>3 DEF Holding
  <2>. QED
    BY <2>2, <2>3
<1>11. pc'[h] = "registered"
  BY <1>2, <1>4
<1>. QED
  BY <1>7, <1>9, <1>10, <1>11 DEF Entries, Holding

\* A handler that leaves removes what its key holds, another's entry perhaps, but
\* never one that is waited for.
LEMMA LeaveKeepsEntries ==
  ASSUME TInv, Entries, NEW h \in Handlers, Abort(h) \/ Finish(h)
  PROVE  Entries'
<1>1. pc[h] \in {"abort", "finish"} /\ port[h] \in LocalPorts /\ KeyOf(h) \in ConnKey
  BY SamePortSameKey DEF Abort, Finish, TInv, Sockets
<1>2. /\ connections' = [connections EXCEPT ![KeyOf(h)] = NoConn]
      /\ pc' = [pc EXCEPT ![h] = IF pc[h] = "abort" THEN "closed" ELSE "relay"]
      /\ UNCHANGED port /\ ~WaitedFor(KeyOf(h))
  BY DEF Abort, Finish, RemoveConn, Goto
<1>3. connections \in [ConnKey -> Conn \cup {NoConn}] /\ pc \in [Handlers -> Places]
  BY DEF TInv, IInv, TypeOK, HandlerTypes
<1>4. \A g \in Handlers : KeyOf(g)' = KeyOf(g)
  BY <1>2 DEF KeyOf
<1>5. \A k \in ConnKey : IF k = KeyOf(h) THEN ~Tracked(k)'
                         ELSE connections'[k] = connections[k]
  BY <1>2, <1>3 DEF Tracked
<1>6. ASSUME NEW k \in ConnKey, Tracked(k)'
      PROVE  \E g \in Handlers : /\ Owned(k, g)' /\ KeyOf(g)' = k
                                 /\ pc'[g] \in Holding \cup {"abort"}
  <2>1. k # KeyOf(h) /\ Tracked(k) /\ connections'[k] = connections[k]
    BY <1>5, <1>6 DEF Tracked
  <2>2. PICK g \in Handlers : /\ Owned(k, g) /\ KeyOf(g) = k
                              /\ pc[g] \in Holding \cup {"abort"}
    BY <2>1 DEF Entries
  <2>3. g # h /\ pc'[g] = pc[g]
    BY <1>2, <1>3, <2>1, <2>2
  <2>. QED
    BY <1>4, <2>1, <2>2, <2>3 DEF Owned, Tracked
<1>7. ASSUME NEW g \in Handlers, g # h
      PROVE  /\ pc'[g] \in Holding /\ Tracked(KeyOf(g))' => Owned(KeyOf(g), g)'
             /\ pc'[g] = "waiting" => Tracked(KeyOf(g))'
             /\ pc'[g] \in {"relay", "relayed"} => ~Tracked(KeyOf(g))'
  <2>1. pc'[g] = pc[g] /\ KeyOf(g)' = KeyOf(g)
    BY <1>2, <1>3, <1>4, <1>7
  <2>2. CASE pc[g] \in Holding \cup {"relay", "relayed"}
    <3>1. KeyOf(g) \in ConnKey
      BY <2>2, SamePortSameKey DEF TInv, Sockets, Holding
    <3>2. CASE KeyOf(g) = KeyOf(h)
      <4>1. pc[g] # "waiting"
        BY <1>2, <3>2 DEF WaitedFor
      <4>. QED
        BY <1>5, <2>1, <3>1, <3>2, <4>1 DEF Owned
    <3>3. CASE KeyOf(g) # KeyOf(h)
      BY <1>5, <2>1, <3>1, <3>3 DEF Entries, Owned, Tracked
    <3>. QED
      BY <3>2, <3>3
  <2>3. CASE pc[g] \notin Holding \cup {"relay", "relayed"}
    BY <2>1, <2>3 DEF Holding
  <2>. QED
    BY <2>2, <2>3
<1>8. pc'[h] \in {"closed", "relay"} /\ ~Tracked(KeyOf(h))'
  BY <1>1, <1>2, <1>3, <1>4, <1>5
<1>. QED
  BY <1>6, <1>7, <1>8 DEF Entries, Holding

LEMMA EntriesStep ==
  ASSUME TInv, Entries, [BNext]_allVars
  PROVE  Entries'
<1>1. CASE \E h \in Handlers : Quietly(h)
  BY <1>1, QuietlyKeepsEntries
<1>2. CASE \E h \in Handlers : Register(h)
  BY <1>2, RegisterKeepsEntries
<1>3. CASE \E h \in Handlers : Abort(h) \/ Finish(h)
  BY <1>3, LeaveKeepsEntries
<1>4. ASSUME SameOwners, UNCHANGED <<pc, port>> PROVE Entries'
  <2>1. \A h \in Handlers : KeyOf(h)' = KeyOf(h) /\ pc'[h] = pc[h]
    BY <1>4 DEF KeyOf
  <2>2. ASSUME NEW k \in ConnKey
        PROVE  /\ Tracked(k)' <=> Tracked(k)
               /\ \A h \in Handlers : Owned(k, h)' <=> Owned(k, h)
    BY <1>4 DEF SameOwners, Owned
  <2>3. \A h \in Handlers : pc[h] \in Holding \cup {"relay", "relayed"}
                              => KeyOf(h) \in ConnKey
    BY SamePortSameKey DEF TInv, Sockets, Holding
  <2>4. ASSUME NEW k \in ConnKey, Tracked(k)'
        PROVE  \E g \in Handlers : /\ Owned(k, g)' /\ KeyOf(g)' = k
                                   /\ pc'[g] \in Holding \cup {"abort"}
    BY <2>1, <2>2, <2>4 DEF Entries
  <2>5. ASSUME NEW g \in Handlers
        PROVE  /\ pc'[g] \in Holding /\ Tracked(KeyOf(g))' => Owned(KeyOf(g), g)'
               /\ pc'[g] = "waiting" => Tracked(KeyOf(g))'
               /\ pc'[g] \in {"relay", "relayed"} => ~Tracked(KeyOf(g))'
    BY <2>1, <2>2, <2>3 DEF Entries, Holding
  <2>. QED
    BY <2>4, <2>5 DEF Entries
<1>5. CASE RunInjector
  BY <1>4, <1>5, InjectorKeepsOwners, EnvironmentKeepsHandlers
     DEF TInv, WireTypes, Environment
<1>6. CASE LocalTcp
  BY <1>4, <1>6, MapKept, LocalTcpSockets DEF SameOwners, Tracked, TInv
<1>7. CASE Network \/ Quiet \/ UNCHANGED allVars \/ \E h \in Handlers : RetransmitSyn(h)
  <2>1. UNCHANGED <<pc, port>>
    BY <1>7, EnvironmentKeepsHandlers DEF Environment, allVars, handlerVars
  <2>2. SameOwners
    BY <1>7, MapKept DEF SameOwners, Tracked
  <2>. QED
    BY <1>4, <2>1, <2>2
<1>. QED
  BY <1>1, <1>2, <1>3, <1>5, <1>6, <1>7 DEF BNext, Quietly, HandlerStep

-----------------------------------------------------------------------------
(* What is on its way.                                                     *)

Elems(s) == {s[i] : i \in DOMAIN s}

LEMMA ElemsFacts ==
  ASSUME NEW S, NEW s \in Seq(S), NEW x \in S
  PROVE  /\ Elems(Append(s, x)) = Elems(s) \cup {x}
         /\ s # <<>> => Head(s) \in Elems(s) /\ Elems(Tail(s)) \subseteq Elems(s)
<1>1. Elems(Append(s, x)) = Elems(s) \cup {x}
  <2>1. /\ DOMAIN Append(s, x) = DOMAIN s \cup {Len(s) + 1}
        /\ Append(s, x)[Len(s) + 1] = x
        /\ \A i \in DOMAIN s : Append(s, x)[i] = s[i]
    OBVIOUS
  <2>. QED
    BY <2>1 DEF Elems
<1>2. CASE s # <<>>
  <2>1. 1 \in DOMAIN s /\ Head(s) = s[1]
    BY <1>2
  <2>2. \A i \in DOMAIN Tail(s) : i + 1 \in DOMAIN s /\ Tail(s)[i] = s[i + 1]
    BY <1>2
  <2>. QED
    BY <1>1, <2>1, <2>2 DEF Elems
<1>. QED
  BY <1>1, <1>2

NotFake(p) == \A h \in Handlers : p.payload # FakeOf(h)

\* Nothing the injector receives carries a fake: only the injector makes them.
\* Packets go the way their direction says.
Captured ==
  /\ \A p \in Elems(queue) : NotFake(p)
  /\ packet # NoPacket => NotFake(packet)
  /\ \A p \in Elems(inbox) : p.inbound
  /\ \A p \in toHost : p.inbound /\ NoPayload(p)
  /\ \A p \in toPeer : ~p.inbound

LEMMA EmptyNotFake ==
  ASSUME NEW p, NoPayload(p)
  PROVE  NotFake(p)
  BY PayloadFacts DEF NoPayload, NotFake

LEMMA SegmentFacts ==
  ASSUME NEW h \in Handlers
  PROVE  /\ NotFake(SynOf(h)) /\ NotFake(AckOf(h))
         /\ NotFake([AckOf(h) EXCEPT !.payload = RealOf(h)])
<1>1. /\ SynOf(h).payload = Empty /\ AckOf(h).payload = Empty
      /\ [AckOf(h) EXCEPT !.payload = RealOf(h)].payload = RealOf(h)
  BY DEF SynOf, AckOf, Segment
<1>. QED
  BY <1>1, PayloadFacts DEF NotFake

LEMMA FakeDirection ==
  ASSUME NEW c, NEW p \in Packet
  PROVE  /\ Fake(c, p).inbound = p.inbound /\ Fake(c, p).payload = c.fake_data
         /\ Fake(c, p).flags = p.flags /\ Key(Fake(c, p)) = Key(p)
         /\ Fake(c, p).ack_num = p.ack_num
         /\ Fake(c, p).seq_num = WrongSeq(c.syn_seq, FakeLen)
  BY DEF Fake, Packet, Key

\* Which steps touch the wires.
SameWires == UNCHANGED <<queue, inbox, toPeer, toHost, packet, at>>

\* The local stack's own segments.
Sends(h) ==
  /\ \/ Connect(h) /\ queue' = Append(queue, SynOf(h))
     \/ RetransmitSyn(h) /\ queue' = Append(queue, SynOf(h))
     \/ RelayFirst(h)
        /\ queue' = Append(queue, [AckOf(h) EXCEPT !.payload = RealOf(h)])
  /\ UNCHANGED <<inbox, toPeer, toHost, packet, at>>

\* A segment comes up to the local stack.
TakesUp ==
  /\ inbox # <<>> /\ inbox' = Tail(inbox)
  /\ \/ queue' = queue
     \/ \E h \in Handlers : /\ port[h] = Head(inbox).local
                            /\ sock[h] \in {"syn_sent", "established"}
                            /\ Head(inbox).flags = SynAck
                            /\ Head(inbox).ack_num = NextSeq(Isn[h])
                            /\ sock' = [sock EXCEPT ![h] = "established"]
                            /\ queue' = Append(queue, AckOf(h))
  /\ UNCHANGED <<toPeer, toHost, packet, at>>

\* The handlers whose fake was put on the wire.
faked == {h \in Handlers : fakes[h] > 0}

LEMMA FakedKept == fakes' = fakes => faked' = faked
  BY DEF faked

LEMMA NoneFaked == BInit => faked = {}
  BY DEF BInit, faked

LEMMA WireSteps ==
  ASSUME [BNext]_allVars
  PROVE  \/ SameWires /\ srv' = srv /\ faked' = faked /\ acked' = acked
         \/ /\ (\E h \in Handlers : Sends(h))
            /\ srv' = srv /\ faked' = faked /\ acked' = acked
         \/ LocalTcp /\ TakesUp /\ srv' = srv /\ faked' = faked /\ acked' = acked
         \/ RunInjector /\ srv' = srv /\ toHost' = toHost
         \/ Network /\ inbox' = inbox /\ packet' = packet /\ at' = at
            /\ faked' = faked /\ acked' = acked
<1>. USE FakedKept DEF netVars, hostVars, history, vars
<1>1. ASSUME NEW h \in Handlers,
             \/ \E p \in LocalPorts : Bind(h, p)
             \/ BindFailed(h) \/ Connected(h) \/ Lookup(h) \/ WaitTimeout(h)
             \/ ConnectFailed(h)
      PROVE  SameWires /\ srv' = srv /\ faked' = faked /\ acked' = acked
  BY <1>1 DEF SameWires, Bind, BindFailed, Connected, Lookup, WaitTimeout, ConnectFailed
<1>2. ASSUME NEW h \in Handlers, Register(h) \/ Abort(h) \/ Finish(h) \/ WokenUp(h)
      PROVE  SameWires /\ srv' = srv /\ faked' = faked /\ acked' = acked
  BY <1>2 DEF SameWires, Register, Abort, Finish, WokenUp, InsertConn, RemoveConn,
     TakePermit
<1>3. ASSUME NEW h \in Handlers, Connect(h) \/ RetransmitSyn(h) \/ RelayFirst(h)
      PROVE  Sends(h) /\ srv' = srv /\ faked' = faked /\ acked' = acked
  BY <1>3 DEF Sends, Connect, RetransmitSyn, RelayFirst
<1>4. CASE LocalTcp
  BY <1>4 DEF LocalTcp, TakesUp
<1>5. CASE RunInjector
  BY <1>5 DEF RunInjector
<1>6. CASE Network
  BY <1>6 DEF Network, Capture, ServerSyn, ServerAck, Receives, RetransmitSynAck
<1>7. CASE Quiet \/ UNCHANGED allVars
  BY <1>7 DEF Quiet, allVars, SameWires
<1>. QED
  BY <1>1, <1>2, <1>3, <1>4, <1>5, <1>6, <1>7 DEF BNext, HandlerStep, WaitEnds

\* What the server and the network do, seen from the wires.
LEMMA NetworkSteps ==
  ASSUME Network
  PROVE  \/ /\ \E p \in toHost : queue' = Append(queue, p)
            /\ toHost' \subseteq toHost /\ UNCHANGED <<toPeer, srv>>
         \/ \E p \in toPeer : (ServerSyn(p) \/ ServerAck(p)) /\ queue' = queue
                              /\ toPeer' \subseteq toPeer
         \/ /\ \E k \in ConnKey : srv[k].state = "syn_rcvd"
                   /\ toHost' = toHost \cup {SynAckTo(k, srv[k].rcv_nxt)}
            /\ UNCHANGED <<queue, toPeer, srv>>
<1>1. CASE Capture
  BY <1>1 DEF Capture, Delivered
<1>2. ASSUME NEW p \in toPeer, ServerSyn(p) \/ ServerAck(p)
      PROVE  queue' = queue /\ toPeer' \subseteq toPeer
  BY <1>2 DEF ServerSyn, ServerAck, Receives, Delivered, hostVars
<1>3. CASE \E k \in ConnKey : RetransmitSynAck(k)
  BY <1>3 DEF RetransmitSynAck, hostVars
<1>. QED
  BY <1>1, <1>2, <1>3 DEF Network

\* Every reply of the server is empty and comes this way.
LEMMA ReplyFacts ==
  ASSUME NEW k, NEW n
  PROVE  /\ SynAckTo(k, n).inbound /\ NoPayload(SynAckTo(k, n))
         /\ SynAckTo(k, n).flags = SynAck /\ SynAckTo(k, n).ack_num = n
         /\ AckTo(k, n).inbound /\ NoPayload(AckTo(k, n))
         /\ AckTo(k, n).flags = Ack
         /\ k \in ConnKey => Key(SynAckTo(k, n)) = k /\ Key(AckTo(k, n)) = k
  BY DEF SynAckTo, AckTo, Reply, NoPayload, Key, ConnKey

LEMMA ServerReplies ==
  ASSUME NEW p, ServerSyn(p) \/ ServerAck(p)
  PROVE  \A q \in toHost' : q \in toHost \/ (q.inbound /\ NoPayload(q))
  BY ReplyFacts DEF ServerSyn, ServerAck, Receives

LEMMA CapturedStep ==
  ASSUME TInv, Captured, [BNext]_allVars
  PROVE  Captured'
<1>1. queue \in Seq(Packet) /\ inbox \in Seq(Packet)
  BY DEF TInv, WireTypes
<1>2. CASE SameWires
  BY <1>2 DEF SameWires, Captured, Elems
<1>3. ASSUME NEW h \in Handlers, Sends(h) PROVE Captured'
  <2>1. port[h] \in LocalPorts
    BY <1>3 DEF Sends, Connect, RelayFirst, RetransmitSyn, TInv, Sockets
  <2>2. \E p \in Packet : NotFake(p) /\ queue' = Append(queue, p)
    BY <1>3, <2>1, SegmentsTyped, SegmentFacts DEF Sends
  <2>3. \A p \in Elems(queue') : NotFake(p)
    BY <1>1, <2>2, ElemsFacts DEF Captured
  <2>. QED
    BY <1>3, <2>3 DEF Sends, Captured, Elems
<1>4. CASE TakesUp
  <2>1. \/ queue' = queue
        \/ \E p \in Packet : NotFake(p) /\ queue' = Append(queue, p)
    BY <1>4, SegmentsTyped, SegmentFacts DEF TakesUp, TInv, Sockets
  <2>2. \A p \in Elems(queue') : NotFake(p)
    <3>1. CASE queue' = queue
      BY <3>1 DEF Captured
    <3>2. CASE \E p \in Packet : NotFake(p) /\ queue' = Append(queue, p)
      BY <1>1, <3>2, ElemsFacts DEF Captured
    <3>. QED
      BY <2>1, <3>1, <3>2
  <2>3. inbox # <<>> /\ inbox' = Tail(inbox)
    BY <1>4 DEF TakesUp
  <2>4. Head(inbox) \in Packet
    BY <1>1, <2>3
  <2>5. \A p \in Elems(inbox') : p.inbound
    BY <1>1, <2>3, <2>4, ElemsFacts DEF Captured
  <2>. QED
    BY <1>4, <2>2, <2>5 DEF TakesUp, Captured
<1>5. CASE RunInjector /\ toHost' = toHost
  <2>1. packet' \in Packet /\ NotFake(packet')
        /\ \A p \in Elems(queue') : NotFake(p)
    <3>1. CASE packet' = packet /\ queue' = queue /\ at # "recv"
      <4>1. packet \in Packet
        BY <3>1, CurrentTyped DEF TInv, IInv
      <4>. QED
        BY <3>1, <4>1, NoConnAssumption DEF Captured, Elems
    <3>2. CASE queue # <<>> /\ queue' = Tail(queue) /\ packet' = Head(queue)
      <4>1. Head(queue) \in Packet
        BY <1>1, <3>2
      <4>. QED
        BY <1>1, <3>2, <4>1, ElemsFacts DEF Captured
    <3>. QED
      BY <1>1, <1>5, <3>1, <3>2, InjectorSends DEF TInv
  <2>2. ASSUME NEW p \in Packet, Delivers(p)
        PROVE  /\ \A q \in Elems(inbox') : q.inbound
               /\ \A q \in toPeer' : ~q.inbound
    <3>1. CASE p.inbound
      <4>1. inbox' = Append(inbox, p) /\ toPeer' = toPeer
        BY <2>2, <3>1 DEF Delivers
      <4>2. \A q \in Elems(inbox') : q.inbound
        BY <1>1, <3>1, <4>1, ElemsFacts DEF Captured
      <4>. QED
        BY <4>1, <4>2 DEF Captured
    <3>2. CASE ~p.inbound
      BY <2>2, <3>2 DEF Delivers, Captured, Elems
    <3>. QED
      BY <3>1, <3>2
  <2>3. \/ UNCHANGED <<inbox, toPeer>>
        \/ \E p \in Packet : Delivers(p)
    BY <1>1, <1>5, InjectorSends DEF TInv
  <2>4. /\ \A q \in Elems(inbox') : q.inbound
        /\ \A q \in toPeer' : ~q.inbound
    BY <2>2, <2>3 DEF Captured, Elems
  <2>. QED
    BY <1>5, <2>1, <2>4 DEF Captured
<1>6. CASE Network /\ inbox' = inbox /\ packet' = packet
  <2>1. CASE /\ \E p \in toHost : queue' = Append(queue, p)
             /\ toHost' \subseteq toHost /\ UNCHANGED toPeer
    <3>1. \E p \in Packet : NotFake(p) /\ queue' = Append(queue, p)
      BY <2>1, EmptyNotFake DEF Captured, TInv, WireTypes
    <3>2. \A p \in Elems(queue') : NotFake(p)
      BY <1>1, <3>1, ElemsFacts DEF Captured
    <3>. QED
      BY <1>6, <2>1, <3>2 DEF Captured, Elems
  <2>2. CASE \E p \in toPeer : /\ ServerSyn(p) \/ ServerAck(p)
                               /\ queue' = queue /\ toPeer' \subseteq toPeer
    <3>1. \A q \in toHost' : q \in toHost \/ (q.inbound /\ NoPayload(q))
      BY <2>2, ServerReplies
    <3>. QED
      BY <1>6, <2>2, <3>1 DEF Captured, Elems
  <2>3. CASE /\ \E k \in ConnKey : toHost' = toHost \cup {SynAckTo(k, srv[k].rcv_nxt)}
             /\ UNCHANGED <<queue, toPeer>>
    BY <1>6, <2>3, ReplyFacts DEF Captured, Elems
  <2>. QED
    BY <1>6, <2>1, <2>2, <2>3, NetworkSteps
<1>. QED
  BY <1>2, <1>3, <1>4, <1>5, <1>6, WireSteps


-----------------------------------------------------------------------------
(* What the histories record.                                              *)

\* The histories say of every entry what the injector did with it.
History ==
  /\ fakes \in [Handlers -> Nat]
  /\ faked \subseteq Handlers /\ acked \subseteq faked
  /\ \A h \in faked : pc[h] \notin {"idle", "bound"} /\ port[h] \in LocalPorts
  /\ \A k \in ConnKey, h \in Handlers : Owned(k, h) =>
       /\ connections[k].fake_sent <=> h \in faked
       /\ connections[k].t2a_msg = "fake_data_ack_recv" => h \in acked
  /\ BypassMethod = "wrong_seq" =>
       \A h \in Handlers : pc[h] = "finish" => h \in acked

\* An entry is of one handler, and that one is past its registration.
LEMMA OwnerFacts ==
  ASSUME TInv, Entries, NEW k \in ConnKey, NEW h \in Handlers, Owned(k, h)
  PROVE  /\ KeyOf(h) = k /\ pc[h] \in Holding \cup {"abort"}
         /\ port[h] \in LocalPorts
         /\ \A g \in Handlers : Owned(k, g) => g = h
<1>1. \A g \in Handlers : Owned(k, g) => g = h
  BY PayloadFacts DEF Owned
<1>2. PICK g \in Handlers : /\ Owned(k, g) /\ KeyOf(g) = k
                            /\ pc[g] \in Holding \cup {"abort"}
  BY DEF Entries, Owned
<1>3. port[h] \in LocalPorts
  BY <1>1, <1>2 DEF TInv, Sockets, Holding
<1>. QED
  BY <1>1, <1>2, <1>3

\* The counts only grow.
LEMMA FakesGrow ==
  ASSUME fakes \in [Handlers -> Nat], RunInjector
  PROVE  fakes' \in [Handlers -> Nat] /\ faked \subseteq faked'
<1>. DEFINE Sent(h) == IF \E p \in JustSent : p.payload = FakeOf(h) THEN 1 ELSE 0
<1>1. fakes' = [h \in Handlers |-> fakes[h] + Sent(h)]
  BY DEF RunInjector
<1>2. \A h \in Handlers : Sent(h) \in Nat
  OBVIOUS
<1>. HIDE DEF Sent
<1>. QED
  BY <1>1, <1>2 DEF faked

\* A turn that sends no fake counts none; one that does counts one of its owner.
LEMMA FakedBy ==
  ASSUME IInv, queue \in Seq(Packet), RunInjector, packet' # NoPacket => NotFake(packet'),
         fakes \in [Handlers -> Nat]
  PROVE  /\ ~SendsFake => fakes' = fakes /\ faked' = faked
         /\ SendsFake =>
              /\ fakes' = [h \in Handlers |-> fakes[h] +
                              IF Current.fake_data = FakeOf(h) THEN 1 ELSE 0]
              /\ faked' = faked \cup {h \in Handlers : Current.fake_data = FakeOf(h)}
<1>1. packet' \in Packet /\ NotFake(packet')
  BY InjectorSends, NoConnAssumption
<1>2. fakes' = [h \in Handlers |-> fakes[h] +
                  IF \E p \in JustSent : p.payload = FakeOf(h) THEN 1 ELSE 0]
  BY DEF RunInjector
<1>3. CASE SendsFake
  <2>1. packet \in Packet
    BY <1>3, CurrentTyped DEF SendsFake, IInv
  <2>2. JustSent = {Fake(Current, packet)} /\ Fake(Current, packet).payload = Current.fake_data
    BY <1>3, <2>1, FakeDirection DEF SendsFake
  <2>3. \A h \in Handlers :
          (\E p \in JustSent : p.payload = FakeOf(h)) <=> Current.fake_data = FakeOf(h)
    BY <2>2
  <2>4. fakes' = [h \in Handlers |-> fakes[h] +
                    IF Current.fake_data = FakeOf(h) THEN 1 ELSE 0]
    BY <1>2, <2>3
  <2>5. ASSUME NEW h \in Handlers
        PROVE  fakes'[h] > 0 <=> fakes[h] > 0 \/ Current.fake_data = FakeOf(h)
    <3>1. fakes[h] \in Nat
      OBVIOUS
    <3>2. fakes'[h] = fakes[h] + IF Current.fake_data = FakeOf(h) THEN 1 ELSE 0
      BY <2>4
    <3>. QED
      BY <3>1, <3>2
  <2>. QED
    BY <1>3, <2>4, <2>5 DEF faked
<1>4. CASE ~SendsFake
  <2>1. JustSent \in {{}, {packet'}}
    BY <1>4, InjectorSends
  <2>2. \A h \in Handlers : ~ \E p \in JustSent : p.payload = FakeOf(h)
    BY <1>1, <2>1 DEF NotFake
  <2>3. fakes' = [h \in Handlers |-> fakes[h] + 0]
    BY <1>2, <2>2
  <2>4. fakes' = fakes
    BY <2>3
  <2>. QED
    BY <1>4, <2>4, FakedKept
<1>. QED
  BY <1>3, <1>4

LEMMA InjectorKeepsHistory ==
  ASSUME TInv, Entries, History, RunInjector, TInv', Captured'
  PROVE  History'
<1>1. SameOwners
  BY InjectorKeepsOwners DEF TInv, WireTypes
<1>2. /\ ~SendsFake => faked' = faked
      /\ SendsFake => faked' = faked \cup {h \in Handlers : Current.fake_data = FakeOf(h)}
  BY FakedBy DEF TInv, WireTypes, Captured, History
<1>3. UNCHANGED <<pc, port>>
  BY EnvironmentKeepsHandlers DEF Environment
<1>4. acked' = acked \cup {h \in Handlers : \E k \in ConnKey :
                            /\ connections'[k] # NoConn
                            /\ connections'[k].fake_data = FakeOf(h)
                            /\ connections'[k].t2a_msg = "fake_data_ack_recv"}
  BY DEF RunInjector
<1>5. ASSUME NEW k \in ConnKey, NEW h \in Handlers
      PROVE  Owned(k, h)' <=> Owned(k, h)
  BY <1>1 DEF SameOwners, Owned
<1>9. fakes' \in [Handlers -> Nat]
  BY FakesGrow DEF History
<1>6. CASE UNCHANGED connections /\ ~SendsFake
  BY <1>9, <1>2, <1>3, <1>4, <1>5, <1>6 DEF History, Owned, Tracked
<1>7. CASE Step
  <2>1. PICK d : /\ Turn(Current, d) /\ Key(packet) \in ConnKey
                 /\ Tracked(Key(packet)) /\ Current = connections[Key(packet)]
                 /\ connections' = [connections EXCEPT ![Key(packet)] = d]
    BY <1>7, StepTurns DEF TInv
  <2>2. connections \in [ConnKey -> Conn \cup {NoConn}] /\ Current \in Conn
    BY <1>7, StepTurns DEF TInv, IInv, TypeOK
  <2>3. PICK g \in Handlers : /\ Owned(Key(packet), g) /\ KeyOf(g) = Key(packet)
                              /\ pc[g] \in Holding \cup {"abort"}
    BY <2>1 DEF Entries
  <2>4. port[g] \in LocalPorts /\ Current.fake_data = FakeOf(g)
    BY <2>1, <2>3 DEF TInv, Sockets, Holding, Owned
  <2>5. faked' = IF SendsFake THEN faked \cup {g} ELSE faked
    BY <1>2, <2>4, PayloadFacts
  <2>6. d.fake_sent <=> g \in faked'
    <3>1. Current.fake_sent <=> g \in faked
      BY <2>1, <2>3 DEF History
    <3>2. CASE SendsFake
      <4>1. connections' = [connections EXCEPT ![Key(packet)].fake_sent = TRUE]
        BY <3>2 DEF SendsFake
      <4>2. connections'[Key(packet)].fake_sent
        BY <2>1, <2>2, <4>1 DEF Conn
      <4>. QED
        BY <2>1, <2>2, <2>5, <3>2, <4>2
    <3>3. CASE ~SendsFake
      BY <2>1, <2>5, <3>1, <3>3 DEF Turn
    <3>. QED
      BY <3>2, <3>3
  <2>7. ASSUME NEW k \in ConnKey, NEW h \in Handlers, Owned(k, h)'
        PROVE  /\ connections'[k].fake_sent <=> h \in faked'
               /\ connections'[k].t2a_msg = "fake_data_ack_recv" => h \in acked'
    <3>1. connections'[k].t2a_msg = "fake_data_ack_recv" => h \in acked'
      BY <1>4, <2>7 DEF Owned, Tracked
    <3>2. Owned(k, h)
      BY <1>5, <2>7
    <3>3. CASE k = Key(packet)
      <4>1. h = g /\ connections'[k] = d
        BY <2>1, <2>2, <2>3, <3>2, <3>3, PayloadFacts DEF Owned
      <4>. QED
        BY <2>6, <3>1, <4>1
    <3>4. CASE k # Key(packet)
      <4>1. connections'[k] = connections[k]
        BY <2>1, <2>2, <3>4
      <4>2. h # g
        BY <2>3, <3>2, <3>4, OwnerFacts
      <4>3. h \in faked' <=> h \in faked
        BY <2>5, <4>2
      <4>. QED
        BY <3>1, <3>2, <4>1, <4>3 DEF History
    <3>. QED
      BY <3>3, <3>4
  <2>8. acked' \subseteq faked'
    <3>1. acked \subseteq faked'
      BY <2>5 DEF History
    <3>2. ASSUME NEW h \in Handlers, NEW k \in ConnKey, Owned(k, h)',
                 connections'[k].t2a_msg = "fake_data_ack_recv"
          PROVE  h \in faked'
      <4>1. connections'[k].fake_sent
        BY <3>2 DEF TInv, IInv, HandshakeOrder, Owned
      <4>. QED
        BY <2>7, <3>2, <4>1
    <3>. QED
      BY <1>4, <3>1, <3>2 DEF Owned, Tracked
  <2>9. \A h \in faked' : pc'[h] \notin {"idle", "bound"} /\ port'[h] \in LocalPorts
    BY <1>3, <2>3, <2>4, <2>5 DEF History, Holding
  <2>10. faked' \subseteq Handlers
    BY <2>5 DEF History
  <2>11. BypassMethod = "wrong_seq" => \A h \in Handlers : pc'[h] = "finish" => h \in acked'
    BY <1>3, <1>4 DEF History
  <2>. QED
    BY <1>9, <2>7, <2>8, <2>9, <2>10, <2>11 DEF History
<1>8. SendsFake => Step
  BY InjectorSends DEF SendsFake, Step
<1>. QED
  BY <1>6, <1>7, <1>8, InjectorSends DEF TInv, WireTypes

\* A step that leaves the histories alone: entries are taken over as they are,
\* woken, removed or new.
LEMMA MovesKeepHistory ==
  ASSUME TInv, Entries, History, NEW h \in Handlers, Moves(h),
         UNCHANGED <<fakes, faked, acked>>
  PROVE  History'
<1>1. /\ Moved(h)
      /\ \A g \in Handlers \ {h} :
              pc'[g] = pc[g] /\ port'[g] = port[g] /\ sock'[g] = sock[g]
  BY MovesOne DEF TInv
<1>2. connections \in [ConnKey -> Conn \cup {NoConn}]
  BY DEF TInv, IInv, TypeOK
<1>3. \A g \in faked : pc'[g] \notin {"idle", "bound"} /\ port'[g] \in LocalPorts
  BY <1>1 DEF History, Moved
<1>4. ASSUME NEW k \in ConnKey, NEW g \in Handlers, Owned(k, g)'
      PROVE  \/ /\ Owned(k, g) /\ connections'[k].fake_sent = connections[k].fake_sent
                /\ connections'[k].t2a_msg = connections[k].t2a_msg
             \/ /\ ~connections'[k].fake_sent /\ connections'[k].t2a_msg = ""
                /\ g \notin faked
  <2>1. CASE UNCHANGED connections
    BY <1>4, <2>1 DEF Owned, Tracked
  <2>2. CASE Register(h)
    <3>1. /\ connections' = [connections EXCEPT
                               ![KeyOf(h)] = NewConn(FakeOf(h), BypassMethod)]
          /\ pc[h] = "bound"
      BY <2>2 DEF Register, InsertConn
    <3>2. CASE k = KeyOf(h)
      <4>1. connections'[k] = NewConn(FakeOf(h), BypassMethod)
        BY <1>2, <3>1, <3>2
      <4>2. /\ NewConn(FakeOf(h), BypassMethod).fake_data = FakeOf(h)
            /\ ~NewConn(FakeOf(h), BypassMethod).fake_sent
            /\ NewConn(FakeOf(h), BypassMethod).t2a_msg = ""
        BY DEF NewConn
      <4>3. g = h
        BY <1>4, <4>1, <4>2, PayloadFacts DEF Owned
      <4>4. g \notin faked
        BY <3>1, <4>3 DEF History
      <4>. QED
        BY <4>1, <4>2, <4>4
    <3>3. CASE k # KeyOf(h)
      BY <1>2, <1>4, <3>1, <3>3 DEF Owned, Tracked
    <3>. QED
      BY <3>2, <3>3
  <2>3. CASE Abort(h) \/ Finish(h)
    <3>1. connections' = [connections EXCEPT ![KeyOf(h)] = NoConn]
      BY <2>3 DEF Abort, Finish, RemoveConn
    <3>2. connections'[k] = connections[k]
      BY <1>2, <1>4, <3>1 DEF Owned, Tracked
    <3>. QED
      BY <1>4, <3>2 DEF Owned, Tracked
  <2>4. CASE WokenUp(h)
    <3>1. /\ connections' = [connections EXCEPT ![KeyOf(h)].permit = FALSE]
          /\ connections[KeyOf(h)] # NoConn
      BY <2>4 DEF WokenUp, TakePermit, Tracked
    <3>2. CASE k = KeyOf(h)
      <4>1. connections[k] \in Conn
        BY <1>2, <3>1, <3>2
      <4>2. connections'[k] = [connections[k] EXCEPT !.permit = FALSE]
        BY <1>2, <3>1, <3>2
      <4>3. /\ connections'[k].fake_data = connections[k].fake_data
            /\ connections'[k].fake_sent = connections[k].fake_sent
            /\ connections'[k].t2a_msg = connections[k].t2a_msg
        BY <4>1, <4>2 DEF Conn
      <4>. QED
        BY <1>4, <3>1, <3>2, <4>3 DEF Owned, Tracked
    <3>3. CASE k # KeyOf(h)
      BY <1>2, <1>4, <3>1, <3>3 DEF Owned, Tracked
    <3>. QED
      BY <3>2, <3>3
  <2>. QED
    BY <2>1, <2>2, <2>3, <2>4, MapKept DEF Moves, HandlerStep, WaitEnds
<1>5. ASSUME BypassMethod = "wrong_seq", NEW g \in Handlers, pc'[g] = "finish"
      PROVE  g \in acked
  <2>1. CASE g # h \/ pc[g] = "finish"
    BY <1>1, <1>5, <2>1 DEF History
  <2>2. CASE g = h /\ WokenUp(h)
    <3>1. /\ pc[h] = "waiting"
          /\ connections[KeyOf(h)].t2a_msg = "fake_data_ack_recv"
      BY <1>5, <2>2 DEF WokenUp, Goto, TInv, HandlerTypes
    <3>2. KeyOf(h) \in ConnKey /\ Owned(KeyOf(h), h)
      BY <3>1, SamePortSameKey DEF Entries, Holding, TInv, Sockets
    <3>. QED
      BY <2>2, <3>1, <3>2 DEF History
  <2>3. CASE g = h /\ pc[g] # "finish" /\ ~WokenUp(h)
    <3>1. pc[h] \in {"connecting", "waiting"}
      BY <1>1, <1>5, <2>3 DEF Moved
    <3>2. Connected(h) \/ ConnectFailed(h) \/ WaitTimeout(h)
      BY <2>3, <3>1 DEF Moves, HandlerStep, WaitEnds, Bind, BindFailed, Register, Connect,
         Lookup, Abort, Finish, RelayFirst
    <3>. QED
      BY <1>5, <2>3, <3>2 DEF Connected, ConnectFailed, WaitTimeout, Goto, TInv,
         HandlerTypes
  <2>. QED
    BY <2>1, <2>2, <2>3
<1>6. UNCHANGED <<fakes, faked, acked>>
  OBVIOUS
<1>7. \A k \in ConnKey, g \in Handlers : Owned(k, g)' =>
        /\ connections'[k].fake_sent <=> g \in faked'
        /\ connections'[k].t2a_msg = "fake_data_ack_recv" => g \in acked'
  BY <1>4, <1>6 DEF History
<1>. QED
  BY <1>3, <1>5, <1>6, <1>7 DEF History

\* Only the injector writes the histories.
LEMMA MovesKeepHistories ==
  ASSUME NEW h \in Handlers, Moves(h)
  PROVE  UNCHANGED <<fakes, faked, acked>>
  BY FakedKept
  DEF Moves, HandlerStep, WaitEnds, Bind, BindFailed, Register, Connect,
     Connected, Lookup, WokenUp, WaitTimeout, Abort, Finish, ConnectFailed, RelayFirst,
     history

LEMMA OthersKeepHistories ==
  ASSUME LocalTcp \/ Network \/ Quiet \/ UNCHANGED allVars
           \/ \E h \in Handlers : RetransmitSyn(h)
  PROVE  UNCHANGED <<fakes, faked, acked>>
  BY FakedKept
  DEF LocalTcp, Network, Quiet, allVars, history, Capture, ServerSyn, ServerAck,
     Receives, RetransmitSynAck, RetransmitSyn

LEMMA HistoryStep ==
  ASSUME TInv, Entries, History, [BNext]_allVars, TInv', Captured'
  PROVE  History'
<1>1. CASE RunInjector
  BY <1>1, InjectorKeepsHistory
<1>2. ASSUME NEW h \in Handlers, Moves(h) PROVE History'
  BY <1>2, MovesKeepHistories, MovesKeepHistory
<1>3. CASE LocalTcp \/ Network \/ Quiet \/ UNCHANGED allVars
           \/ \E h \in Handlers : RetransmitSyn(h)
  <2>1. UNCHANGED <<pc, port>> /\ UNCHANGED connections
    BY <1>3, EnvironmentKeepsHandlers, LocalTcpSockets, MapKept
       DEF Environment, allVars, handlerVars, TInv
  <2>2. UNCHANGED <<fakes, faked, acked>>
    BY <1>3, OthersKeepHistories
  <2>. QED
    BY <2>1, <2>2 DEF History, Owned, Tracked
<1>. QED
  BY <1>1, <1>2, <1>3 DEF BNext, Moves

-----------------------------------------------------------------------------
(* The second invariant, and what follows from it.                         *)

MInv == TInv /\ Entries /\ Captured /\ History

LEMMA InitMInv == BInit => MInv
<1>. SUFFICES ASSUME BInit PROVE MInv
  OBVIOUS
<1>1. TInv
  BY InitTInv
<1>2. \A k \in ConnKey : ~Tracked(k)
  BY DEF BInit, Init, Tracked
<1>3. \A h \in Handlers : pc[h] = "idle"
  BY DEF BInit
<1>4. Entries
  BY <1>2, <1>3 DEF Entries, Holding
<1>5. Captured
  BY DEF BInit, Init, Captured, Elems
<1>6. History
  BY <1>2, <1>3, NoneFaked DEF BInit, History, Owned
<1>. QED
  BY <1>1, <1>4, <1>5, <1>6 DEF MInv

LEMMA NextMInv == MInv /\ [BNext]_allVars => MInv'
<1>. SUFFICES ASSUME MInv, [BNext]_allVars PROVE MInv'
  OBVIOUS
<1>1. TInv' /\ Entries' /\ Captured'
  BY NextTInv, EntriesStep, CapturedStep DEF MInv
<1>. QED
  BY <1>1, HistoryStep DEF MInv

LEMMA MInvariance == BSpec => []MInv
  BY InitMInv, NextMInv, PTL DEF BSpec

\* Handlers, sockets, packets and the server's end stay in their types.
THEOREM BypassTypes == BSpec => []BTypeOK
<1>1. MInv => BTypeOK
  BY DEF MInv, History, TInv, IInv, HandlerTypes, Places, SockStates, WireTypes, BTypeOK
<1>. QED
  BY <1>1, MInvariance, PTL

\* A handler that is done leaves no entry behind, whichever way out it took and
\* whoever else used its port: the injector never holds on to a dead connection.
THEOREM NoEntryIsLeft == BSpec => []NoEntryLeft
<1>1. MInv => NoEntryLeft
  <2>. SUFFICES ASSUME MInv, NEW h \in Handlers, NEW k \in ConnKey, Owned(k, h)
                PROVE  pc[h] \notin {"idle", "bound", "relay", "relayed", "closed"}
    BY DEF NoEntryLeft
  <2>1. pc[h] \in Holding \cup {"abort"}
    BY OwnerFacts DEF MInv
  <2>. QED
    BY <2>1 DEF Holding
<1>. QED
  BY <1>1, MInvariance, PTL

\* A handler that waits, waits on the entry it registered, although insert and
\* remove go by key alone.
THEOREM WaitsOnItsOwn == BSpec => []WaitsOnOwnEntry
<1>1. MInv => WaitsOnOwnEntry
  BY DEF MInv, Entries, Holding, WaitsOnOwnEntry
<1>. QED
  BY <1>1, MInvariance, PTL

-----------------------------------------------------------------------------
(* Other methods.                                                          *)

\* The entries are of the method the program was started with.
OfMethod == \A k \in ConnKey : Tracked(k) => connections[k].bypass_method = BypassMethod

\* Handlers insert with that method, and no turn of the injector changes it.
LEMMA MethodStays ==
  ASSUME TInv, OfMethod, [BNext]_allVars
  PROVE  OfMethod'
<1>1. connections \in [ConnKey -> Conn \cup {NoConn}]
  BY DEF TInv, IInv, TypeOK
<1>2. CASE UNCHANGED connections
  BY <1>2 DEF OfMethod, Tracked
<1>3. ASSUME NEW k \in ConnKey, NEW d \in Conn, d.bypass_method = BypassMethod,
             connections' = [connections EXCEPT ![k] = d]
      PROVE  OfMethod'
  BY <1>1, <1>3 DEF OfMethod, Tracked
<1>4. ASSUME NEW h \in Handlers, WokenUp(h)
      PROVE  OfMethod'
  <2> DEFINE k == KeyOf(h)
             d == [connections[k] EXCEPT !.permit = FALSE]
  <2>1. k \in ConnKey
    BY <1>4, KeyFacts DEF WokenUp, TInv, Sockets
  <2>2. connections[k] \in Conn /\ connections' = [connections EXCEPT ![k] = d]
    BY <1>1, <1>4, <2>1 DEF WokenUp, TakePermit, Tracked
  <2>3. d \in Conn /\ d.bypass_method = BypassMethod
    BY <1>4, <2>1, <2>2 DEF Conn, OfMethod, WokenUp, TakePermit
  <2>. QED
    BY <1>3, <2>1, <2>2, <2>3
<1>5. ASSUME NEW h \in Handlers, Register(h)
      PROVE  OfMethod'
  <2>1. /\ connections' = [connections EXCEPT ![KeyOf(h)] = NewConn(FakeOf(h), BypassMethod)]
        /\ NewConn(FakeOf(h), BypassMethod).bypass_method = BypassMethod
    BY <1>5 DEF Register, InsertConn, NewConn
  <2>. QED
    BY <1>1, <2>1 DEF OfMethod, Tracked
<1>6. ASSUME NEW h \in Handlers, Abort(h) \/ Finish(h)
      PROVE  OfMethod'
  <2>1. connections' = [connections EXCEPT ![KeyOf(h)] = NoConn]
    BY <1>6 DEF Abort, Finish, RemoveConn
  <2>. QED
    BY <1>1, <2>1 DEF OfMethod, Tracked
<1>7. CASE RunInjector
  <2>1. CASE Step
    <3>1. PICK d : /\ Turn(Current, d) /\ Key(packet) \in ConnKey
                   /\ Tracked(Key(packet)) /\ Current = connections[Key(packet)]
                   /\ connections' = [connections EXCEPT ![Key(packet)] = d]
      BY <2>1, StepTurns DEF TInv
    <3>2. d \in Conn /\ d.bypass_method = BypassMethod
      BY <3>1 DEF Turn, OfMethod
    <3>. QED
      BY <1>3, <3>1, <3>2
  <2>. QED
    BY <1>2, <1>7, <2>1, InjectorSends DEF TInv, WireTypes
<1>. QED
  BY <1>2, <1>4, <1>5, <1>6, <1>7, MapKept DEF BNext, HandlerStep, WaitEnds

\* Started with any other method, for which the handlers relay without waiting,
\* the program never sends a fake and never reports that one was answered.
THEOREM OtherMethodsSendNoFake ==
  BypassMethod # "wrong_seq" =>
    (BSpec => [](fakes = [h \in Handlers |-> 0] /\ acked = {}))
<1>. SUFFICES ASSUME BypassMethod # "wrong_seq"
              PROVE  BSpec => [](fakes = [h \in Handlers |-> 0] /\ acked = {})
  OBVIOUS
<1> DEFINE NoFake == OfMethod /\ faked = {}
<1>1. BInit => NoFake
  BY NoneFaked DEF BInit, Init, OfMethod, Tracked
<1>2. MInv /\ MInv' /\ NoFake /\ [BNext]_allVars => NoFake'
  <2>. SUFFICES ASSUME MInv, MInv', NoFake, [BNext]_allVars PROVE NoFake'
    OBVIOUS
  <2>1. OfMethod'
    BY MethodStays DEF MInv
  <2>2. CASE RunInjector
    <3>1. packet' # NoPacket => NotFake(packet')
      BY DEF MInv, Captured
    <3>2. ~SendsFake
      <4>. SUFFICES ASSUME SendsFake PROVE FALSE
        OBVIOUS
      <4>1. Key(packet) \in ConnKey /\ Tracked(Key(packet)) /\ Current = connections[Key(packet)]
        BY StepTurns DEF MInv, TInv, SendsFake, Step
      <4>2. Current.bypass_method # "wrong_seq" /\ Current.monitor
        BY <4>1 DEF OfMethod, MInv, TInv, IInv, ThreadView, SendsFake
      <4>3. sent' = sent
        BY <4>2 DEF SendsFake, AfterDelay
      <4>4. JustSent = {}
        BY <4>3 DEF SendsFake, JustSent
      <4>. QED
        BY <4>4 DEF SendsFake
    <3>. QED
      BY <2>1, <2>2, <3>1, <3>2, FakedBy DEF MInv, TInv, WireTypes, History
  <2>3. CASE UNCHANGED faked
    BY <2>1, <2>3
  <2>. QED
    BY <2>1, <2>2, <2>3, MovesKeepHistories, OthersKeepHistories, SplitNext DEF Environment
<1>3. MInv /\ NoFake => fakes = [h \in Handlers |-> 0] /\ acked = {}
  <2>. SUFFICES ASSUME MInv, NoFake PROVE fakes = [h \in Handlers |-> 0] /\ acked = {}
    OBVIOUS
  <2>1. fakes \in [Handlers -> Nat] /\ acked = {}
    BY DEF MInv, History
  <2>2. \A h \in Handlers : fakes[h] = 0
    BY <2>1 DEF faked
  <2>. QED
    BY <2>1, <2>2
<1>. QED
  BY <1>1, <1>2, <1>3, MInvariance, PTL DEF BSpec

-----------------------------------------------------------------------------
(* The whole implements the gate.                                          *)

\* What a turn of the injector adds to the histories: at most the owner of the
\* entry its packet belongs to, who is still on his way.
LEMMA InjectorRecords ==
  ASSUME MInv, MInv', RunInjector
  PROVE  \/ fakes' = fakes /\ acked' = acked
         \/ \E g \in Handlers :
              /\ Owned(Key(packet), g) /\ Key(packet) \in ConnKey
              /\ pc[g] \in Holding \cup {"abort"}
              /\ \/ SendsFake /\ fakes[g] = 0
                    /\ fakes' = [fakes EXCEPT ![g] = @ + 1] /\ acked' = acked
                 \/ g \in faked /\ fakes' = fakes /\ acked' = acked \cup {g}
                    /\ packet \in Packet /\ packet.inbound /\ packet.flags = Ack
<1>1. /\ ~SendsFake => fakes' = fakes
      /\ SendsFake => fakes' = [h \in Handlers |-> fakes[h] +
                                  IF Current.fake_data = FakeOf(h) THEN 1 ELSE 0]
  BY FakedBy DEF MInv, TInv, WireTypes, Captured, History
<1>2. /\ acked \subseteq acked'
      /\ \A h \in acked' \ acked : h \in Handlers /\ \E k \in ConnKey :
            Owned(k, h)' /\ connections'[k].t2a_msg = "fake_data_ack_recv"
  BY DEF RunInjector, Owned, Tracked
<1>3. CASE UNCHANGED connections /\ ~SendsFake
  <2>1. acked' \subseteq acked
    BY <1>2, <1>3 DEF MInv, History, Owned, Tracked
  <2>. QED
    BY <1>1, <1>2, <1>3, <2>1
<1>4. CASE Step
  <2>1. PICK d : /\ Turn(Current, d) /\ Key(packet) \in ConnKey
                 /\ Tracked(Key(packet)) /\ Current = connections[Key(packet)]
                 /\ connections' = [connections EXCEPT ![Key(packet)] = d]
    BY <1>4, StepTurns DEF MInv, TInv
  <2>2. connections \in [ConnKey -> Conn \cup {NoConn}] /\ Current \in Conn
    BY <1>4, StepTurns DEF MInv, TInv, IInv, TypeOK
  <2>3. PICK g \in Handlers : /\ Owned(Key(packet), g) /\ KeyOf(g) = Key(packet)
                              /\ pc[g] \in Holding \cup {"abort"}
    BY <2>1 DEF MInv, Entries
  <2>4. \A h \in Handlers : Current.fake_data = FakeOf(h) => h = g
    BY <2>1, <2>3, PayloadFacts DEF Owned
  <2>5. \A k \in ConnKey : k # Key(packet) => connections'[k] = connections[k]
    BY <2>1, <2>2
  <2>6. connections'[Key(packet)] = d
    BY <2>1, <2>2
  <2>7. ASSUME NEW h \in acked' \ acked
        PROVE  /\ h = g /\ d.t2a_msg = "fake_data_ack_recv"
               /\ Current.t2a_msg # "fake_data_ack_recv"
    <3>1. PICK k \in ConnKey : h \in Handlers /\ Owned(k, h)'
                               /\ connections'[k].t2a_msg = "fake_data_ack_recv"
      BY <1>2
    <3>2. k = Key(packet)
      <4>1. SUFFICES ASSUME k # Key(packet) PROVE FALSE
        OBVIOUS
      <4>. QED
        BY <2>5, <2>7, <3>1, <4>1 DEF MInv, History, Owned, Tracked
    <3>3. h = g
      BY <2>1, <2>4, <2>6, <3>1, <3>2 DEF Owned, Turn
    <3>. QED
      BY <2>1, <2>3, <2>6, <2>7, <3>1, <3>2, <3>3 DEF MInv, History
  <2>8. Current.fake_sent <=> g \in faked
    BY <2>1, <2>3 DEF MInv, History
  <2>9. CASE SendsFake
    <3>1. fakes' = [fakes EXCEPT ![g] = @ + 1]
      <4>1. fakes \in [Handlers -> Nat] /\ Current.fake_data = FakeOf(g)
        BY <2>1, <2>3 DEF Owned, MInv, History
      <4>2. \A h \in Handlers : Current.fake_data = FakeOf(h) <=> h = g
        BY <2>4, <4>1
      <4>3. fakes' = [h \in Handlers |-> fakes[h] + IF h = g THEN 1 ELSE 0]
        BY <1>1, <2>9, <4>2
      <4>4. \A h \in Handlers : fakes[h] + 0 = fakes[h]
        BY <4>1
      <4>. QED
        BY <4>1, <4>3, <4>4
    <3>2. d.t2a_msg = Current.t2a_msg
      <4>1. connections' = [connections EXCEPT ![Key(packet)].fake_sent = TRUE]
        BY <2>9 DEF SendsFake
      <4>2. d = [Current EXCEPT !.fake_sent = TRUE]
        BY <2>1, <2>2, <2>6, <4>1
      <4>. QED
        BY <2>2, <4>2 DEF Conn
    <3>3. acked' = acked
      BY <1>2, <2>7, <3>2
    <3>4. fakes[g] = 0
      <4>1. g \notin faked /\ fakes[g] \in Nat
        BY <2>8, <2>9 DEF SendsFake, MInv, History
      <4>. QED
        BY <4>1 DEF faked
    <3>. QED
      BY <2>1, <2>3, <2>9, <3>1, <3>3, <3>4
  <2>10. CASE ~SendsFake
    <3>1. CASE acked' = acked
      BY <1>1, <2>10, <3>1
    <3>2. CASE acked' # acked
      <4>1. PICK h : h \in acked' \ acked
        BY <1>2, <3>2
      <4>2. g \in acked' /\ acked' = acked \cup {g}
        BY <1>2, <2>7, <4>1
      <4>3. fakes' = fakes /\ g \in faked
        BY <1>1, <2>7, <2>8, <2>10, <4>1, <4>2, FakedKept DEF MInv, History
      <4>4. packet \in Packet /\ packet.inbound /\ packet.flags = Ack
        BY <1>4, <2>1, <2>7, <4>1, StepTurns DEF Turn, MInv, TInv
      <4>. QED
        BY <2>1, <2>3, <4>2, <4>3, <4>4
    <3>. QED
      BY <3>1, <3>2
  <2>. QED
    BY <2>9, <2>10
<1>5. SendsFake => Step
  BY InjectorSends DEF SendsFake, Step
<1>. QED
  BY <1>3, <1>4, <1>5, InjectorSends DEF MInv, TInv, WireTypes

\* A move takes at most its own handler through the phases.
LEMMA MovesRefine ==
  ASSUME MInv, NEW h \in Handlers, Moves(h), UNCHANGED <<fakes, faked, acked>>,
         BypassMethod = "wrong_seq"
  PROVE  [Gate!Next]_(Gate!vars)
<1>. DEFINE phase == [g \in Handlers |-> PhaseOf(pc[g])]
<1>1. /\ Moved(h)
      /\ \A g \in Handlers \ {h} : pc'[g] = pc[g]
  BY MovesOne DEF MInv, TInv
<1>2. phase' = [phase EXCEPT ![h] = PhaseOf(pc'[h])]
  BY <1>1
<1>3. CASE pc[h] = "idle" /\ pc'[h] = "bound"
  <2>1. phase[h] = "idle" /\ PhaseOf(pc'[h]) = "dialing"
    BY <1>3 DEF PhaseOf
  <2>. QED
    BY <1>2, <2>1 DEF Gate!Next, Gate!Dial, Gate!Become
<1>4. CASE pc[h] \in {"idle", "abort"} /\ pc'[h] = "closed"
  <2>1. phase[h] \in {"idle", "dialing"} /\ PhaseOf(pc'[h]) = "closed"
    BY <1>4 DEF PhaseOf
  <2>. QED
    BY <1>2, <2>1 DEF Gate!Next, Gate!Refuse, Gate!Become
<1>5. CASE pc[h] = "finish" /\ pc'[h] = "relay"
  <2>1. phase[h] = "dialing" /\ PhaseOf(pc'[h]) = "open"
    BY <1>5 DEF PhaseOf
  <2>2. h \in acked
    BY <1>5 DEF MInv, History
  <2>. QED
    BY <1>2, <2>1, <2>2 DEF Gate!Next, Gate!Open, Gate!Become
<1>6. CASE PhaseOf(pc'[h]) = PhaseOf(pc[h])
  BY <1>2, <1>6 DEF Gate!vars
<1>. QED
  BY <1>1, <1>3, <1>4, <1>5, <1>6 DEF Moved, PhaseOf

LEMMA GateStep ==
  ASSUME MInv, MInv', [BNext]_allVars, BypassMethod = "wrong_seq"
  PROVE  [Gate!Next]_(Gate!vars)
<1>. DEFINE phase == [g \in Handlers |-> PhaseOf(pc[g])]
<1>1. CASE UNCHANGED <<pc, fakes, acked>>
  BY <1>1 DEF Gate!vars
<1>2. CASE RunInjector
  <2>1. phase' = phase
    BY <1>2, EnvironmentKeepsHandlers DEF Environment
  <2>2. CASE fakes' = fakes /\ acked' = acked
    BY <2>1, <2>2 DEF Gate!vars
  <2>3. ASSUME NEW g \in Handlers, pc[g] \in Holding \cup {"abort"}
        PROVE  phase[g] = "dialing"
    BY <2>3 DEF PhaseOf, Holding
  <2>4. ASSUME NEW g \in Handlers, pc[g] \in Holding \cup {"abort"},
               fakes[g] = 0, fakes' = [fakes EXCEPT ![g] = @ + 1], acked' = acked
        PROVE  Gate!Spoof(g)
    BY <2>1, <2>3, <2>4 DEF Gate!Spoof
  <2>5. ASSUME NEW g \in Handlers, pc[g] \in Holding \cup {"abort"},
               g \in faked, fakes' = fakes, acked' = acked \cup {g}
        PROVE  Gate!Confirm(g)
    BY <2>1, <2>3, <2>5 DEF Gate!Confirm, faked
  <2>. QED
    BY <1>2, <2>2, <2>4, <2>5, InjectorRecords DEF Gate!Next
<1>3. ASSUME NEW h \in Handlers, Moves(h) PROVE [Gate!Next]_(Gate!vars)
  <2>1. UNCHANGED <<fakes, faked, acked>>
    BY <1>3, MovesKeepHistories
  <2>. QED
    BY <1>3, <2>1, MovesRefine
<1>4. CASE LocalTcp \/ Network \/ Quiet \/ UNCHANGED allVars
           \/ \E h \in Handlers : RetransmitSyn(h)
  BY <1>1, <1>4, OthersKeepHistories, EnvironmentKeepsHandlers, LocalTcpSockets
     DEF Environment, allVars, handlerVars, MInv, TInv
<1>. QED
  BY <1>2, <1>3, <1>4 DEF BNext, Moves

\* With the only method the program has a branch for, every interleaving of
\* handlers, injector and network is one the gate allows: nobody is let through
\* unconfirmed, and nobody is sent a fake twice or after a refusal.
THEOREM KeepsGate == BypassMethod = "wrong_seq" => (BSpec => ImplementsGate)
<1>. SUFFICES ASSUME BypassMethod = "wrong_seq" PROVE BSpec => ImplementsGate
  OBVIOUS
<1>1. BInit => Gate!Init
  BY DEF BInit, Gate!Init, PhaseOf
<1>2. MInv /\ MInv' /\ [BNext]_allVars => [Gate!Next]_(Gate!vars)
  BY GateStep
<1>. QED
  BY <1>1, <1>2, MInvariance, PTL DEF BSpec, ImplementsGate, Gate!Spec

-----------------------------------------------------------------------------
(* The base: the number of the first byte the server expects of a          *)
(* connection.  It is settled when the server takes a SYN; from then on    *)
(* every packet of the connection that is on its way agrees with it.       *)

Opened(k) == srv[k].state # "none"

\* The local stack has a SYN-ACK for the handler's SYN, or gave up.
Answered(h) == pc[h] \notin {"idle", "bound", "registered"} /\ sock[h] # "syn_sent"

AckSender(k, b) ==
  \E h \in Handlers : KeyOf(h) = k /\ NextSeq(Isn[h]) = b /\ Answered(h)

RealFrom(k) == {RealOf(h) : h \in {g \in Handlers : KeyOf(g) = k /\ pc[g] = "relayed"}}
FakeFrom(k) == {FakeOf(h) : h \in {g \in faked : KeyOf(g) = k}}

\* A packet of k agrees with the base b.
PacketOk(p, k, b) ==
  \/ p.flags = Syn /\ ~p.inbound /\ NoPayload(p)
  \/ /\ p.flags = SynAck /\ p.inbound /\ NoPayload(p)
     /\ Opened(k) /\ p.ack_num = b
  \/ /\ p.flags = Ack /\ p.inbound /\ NoPayload(p)
     /\ srv[k].challenged \/ srv[k].got # {}
  \/ /\ p.flags = Ack /\ ~p.inbound
     /\ Opened(k) /\ AckSender(k, b)
     /\ \/ p.payload \in {Empty} \cup RealFrom(k) /\ p.seq_num = b
        \/ p.payload \in FakeFrom(k) /\ WrappingAdd(p.seq_num, FakeLen) = b

Flying == (Elems(queue) \cup Elems(inbox) \cup toPeer \cup toHost \cup {packet})
            \ {NoPacket}

ServerAt(k, b) ==
  /\ Opened(k) => srv[k].rcv_nxt \in {b, NextSeq(b)}
  /\ srv[k].state = "syn_rcvd" => srv[k].rcv_nxt = b
  /\ \A i \in DOMAIN srv[k].read : srv[k].read[i] \in RealFrom(k)
  /\ srv[k].got \subseteq RealFrom(k) \cup FakeFrom(k)
  /\ srv[k].challenged \/ srv[k].got # {} => Opened(k)

Based(k, b) ==
  /\ ServerAt(k, b)
  /\ \A p \in Flying : Key(p) = k => PacketOk(p, k, b)
  /\ \A h \in Handlers : KeyOf(h) = k /\ sock[h] \in {"established", "time_wait"}
       => Opened(k) /\ NextSeq(Isn[h]) = b
  /\ FakeFrom(k) # {} => Opened(k) /\ AckSender(k, b)

\* Before the server takes a SYN every number is a base: only SYNs are about.
LEMMA AnyBase ==
  ASSUME NEW k, NEW b, NEW c, Based(k, b), ~Opened(k)
  PROVE  /\ Based(k, c) /\ FakeFrom(k) = {}
         /\ \A p \in Flying : Key(p) = k => p.flags = Syn
<1>1. FakeFrom(k) = {} /\ ~srv[k].challenged /\ srv[k].got = {}
  BY DEF Based, ServerAt
<1>2. ASSUME NEW p \in Flying, Key(p) = k
      PROVE  p.flags = Syn /\ ~p.inbound /\ NoPayload(p)
  <2>1. PacketOk(p, k, b)
    BY <1>2 DEF Based
  <2>. QED
    BY <1>1, <2>1 DEF PacketOk
<1>3. \A p \in Flying : Key(p) = k => PacketOk(p, k, c)
  BY <1>2 DEF PacketOk
<1>4. ServerAt(k, c)
  <2>1. srv[k].state # "syn_rcvd"
    BY DEF Opened
  <2>. QED
    BY <2>1 DEF Based, ServerAt
<1>. QED
  BY <1>1, <1>2, <1>3, <1>4 DEF Based

-----------------------------------------------------------------------------
(* What a step does to the server's end of k.                              *)

Accepted(p, s) == p.seq_num = s.rcv_nxt \/ HasNewBytes(p, s.rcv_nxt)

ReadOf(p, s) == IF NoPayload(p) THEN s.read ELSE Append(s.read, p.payload)

ServerTakes(k, p) ==
  \/ /\ p.flags = Syn /\ ~Opened(k)
     /\ srv'[k] = [srv[k] EXCEPT !.state = "syn_rcvd", !.rcv_nxt = NextSeq(p.seq_num)]
  \/ /\ p.flags = Syn /\ Opened(k)
     /\ srv'[k] = [srv[k] EXCEPT !.challenged = TRUE]
  \/ /\ p.flags = Ack /\ Opened(k) /\ Accepted(p, srv[k])
     /\ srv'[k] = [srv[k] EXCEPT !.state = "established",
                     !.rcv_nxt = WrappingAdd(p.seq_num, Length(p)),
                     !.read = ReadOf(p, srv[k])]
  \/ /\ p.flags = Ack /\ Opened(k) /\ ~NoPayload(p) /\ ~Accepted(p, srv[k])
     /\ srv'[k] = [srv[k] EXCEPT !.got = @ \cup {p.payload}]

LEMMA ServerSteps ==
  ASSUME MInv, [BNext]_allVars, NEW k \in ConnKey
  PROVE  \/ srv'[k] = srv[k]
         \/ Network /\ \E p \in toPeer : Key(p) = k /\ ServerTakes(k, p)
<1>1. srv \in [ConnKey -> Server] /\ toPeer \subseteq Packet
  BY DEF MInv, TInv, WireTypes
<1>2. ASSUME NEW p \in toPeer, ServerSyn(p)
      PROVE  srv'[k] = srv[k] \/ (Key(p) = k /\ ServerTakes(k, p))
  <2>1. PICK t \in Server :
          /\ srv' = [srv EXCEPT ![Key(p)] = t]
          /\ \/ /\ srv[Key(p)].state = "none"
                /\ t = [srv[Key(p)] EXCEPT !.state = "syn_rcvd",
                                           !.rcv_nxt = NextSeq(p.seq_num)]
             \/ t = srv[Key(p)]
             \/ /\ srv[Key(p)].state # "none"
                /\ t = [srv[Key(p)] EXCEPT !.challenged = TRUE]
    <3>1. srv[Key(p)] \in Server /\ NextSeq(p.seq_num) \in SeqNums
      BY <1>1, PacketKey, NextSeqMoves DEF Packet
    <3>2. /\ [srv[Key(p)] EXCEPT !.state = "syn_rcvd",
                                 !.rcv_nxt = NextSeq(p.seq_num)] \in Server
          /\ [srv[Key(p)] EXCEPT !.challenged = TRUE] \in Server
      BY <3>1 DEF Server
    <3>. QED
      BY <1>2, <3>1, <3>2 DEF ServerSyn, Receives
  <2>2. CASE Key(p) = k
    <3>1. srv'[k] = t
      BY <1>1, <2>1, <2>2
    <3>. QED
      BY <1>2, <2>1, <2>2, <3>1 DEF ServerTakes, Opened, ServerSyn
  <2>3. CASE Key(p) # k
    BY <1>1, <2>1, <2>3
  <2>. QED
    BY <2>2, <2>3
<1>3. ASSUME NEW p \in toPeer, ServerAck(p)
      PROVE  srv'[k] = srv[k] \/ (Key(p) = k /\ ServerTakes(k, p))
  <2>. DEFINE s == srv[Key(p)]
              t == [s EXCEPT !.state = "established",
                             !.rcv_nxt = WrappingAdd(p.seq_num, Length(p)),
                             !.read = ReadOf(p, s)]
              u == [s EXCEPT !.got = @ \cup {p.payload}]
  <2>1. s.state # "none" /\ p.flags = Ack
    BY <1>3 DEF ServerAck
  <2>2. \/ Accepted(p, s) /\ srv' = [srv EXCEPT ![Key(p)] = t]
        \/ ~NoPayload(p) /\ ~Accepted(p, s) /\ srv' = [srv EXCEPT ![Key(p)] = u]
    BY <1>3 DEF ServerAck, Receives, Accepted, ReadOf
  <2>3. CASE Key(p) = k
    <3>1. \/ Accepted(p, s) /\ srv'[k] = t
          \/ ~NoPayload(p) /\ ~Accepted(p, s) /\ srv'[k] = u
      BY <1>1, <2>2, <2>3
    <3>. QED
      BY <2>1, <2>3, <3>1 DEF ServerTakes, Opened
  <2>4. CASE Key(p) # k
    BY <1>1, <2>2, <2>4
  <2>. QED
    BY <2>3, <2>4
<1>4. ASSUME Network
      PROVE  srv'[k] = srv[k] \/ \E p \in toPeer : Key(p) = k /\ ServerTakes(k, p)
  BY <1>2, <1>3, <1>4, NetworkSteps
<1>. QED
  BY <1>4, WireSteps

\* Field by field.
LEMMA ServerFields ==
  ASSUME MInv, NEW k \in ConnKey, NEW p, ServerTakes(k, p)
  PROVE  \/ /\ p.flags = Syn /\ ~Opened(k)
            /\ srv'[k].state = "syn_rcvd" /\ srv'[k].rcv_nxt = NextSeq(p.seq_num)
            /\ srv'[k].read = srv[k].read /\ srv'[k].got = srv[k].got
            /\ srv'[k].challenged = srv[k].challenged
         \/ /\ p.flags = Syn /\ Opened(k) /\ srv'[k].challenged
            /\ srv'[k].state = srv[k].state /\ srv'[k].rcv_nxt = srv[k].rcv_nxt
            /\ srv'[k].read = srv[k].read /\ srv'[k].got = srv[k].got
         \/ /\ p.flags = Ack /\ Opened(k) /\ Accepted(p, srv[k])
            /\ srv'[k].state = "established"
            /\ srv'[k].rcv_nxt = WrappingAdd(p.seq_num, Length(p))
            /\ srv'[k].read = ReadOf(p, srv[k]) /\ srv'[k].got = srv[k].got
            /\ srv'[k].challenged = srv[k].challenged
         \/ /\ p.flags = Ack /\ Opened(k) /\ ~NoPayload(p) /\ ~Accepted(p, srv[k])
            /\ srv'[k].state = srv[k].state /\ srv'[k].rcv_nxt = srv[k].rcv_nxt
            /\ srv'[k].read = srv[k].read
            /\ srv'[k].got = srv[k].got \cup {p.payload}
            /\ srv'[k].challenged = srv[k].challenged
<1>1. srv[k] \in Server
  BY DEF MInv, TInv, WireTypes
<1>. QED
  BY <1>1 DEF ServerTakes, Server

-----------------------------------------------------------------------------
(* What only grows.                                                        *)

Grown(k) ==
  /\ Opened(k) => Opened(k)'
  /\ srv[k].challenged => srv'[k].challenged
  /\ srv[k].got \subseteq srv'[k].got
  /\ RealFrom(k) \subseteq RealFrom(k)' /\ FakeFrom(k) \subseteq FakeFrom(k)'
  /\ \A b \in SeqNums : AckSender(k, b) => AckSender(k, b)'

\* A handler keeps its port once it has one, is never asked again, and does not
\* leave the relay.
LEMMA HandlersGrow ==
  ASSUME TInv, [BNext]_allVars, NEW h \in Handlers
  PROVE  /\ pc[h] # "idle" => KeyOf(h)' = KeyOf(h) /\ pc'[h] # "idle"
         /\ Answered(h) => Answered(h)'
         /\ pc[h] = "relayed" => pc'[h] = "relayed"
         /\ pc[h] = "closed" => pc'[h] = "closed"
<1>1. CASE Environment \/ UNCHANGED allVars
  BY <1>1, EnvironmentKeepsHandlers DEF Answered, KeyOf, allVars, handlerVars, hostVars
<1>2. CASE LocalTcp
  BY <1>2, LocalTcpSockets DEF TInv, Answered, KeyOf
<1>3. ASSUME NEW g \in Handlers, Moves(g)
      PROVE  /\ pc[h] # "idle" => port'[h] = port[h] /\ pc'[h] # "idle"
             /\ Answered(h) => Answered(h)'
             /\ pc[h] = "relayed" => pc'[h] = "relayed"
             /\ pc[h] = "closed" => pc'[h] = "closed"
  BY <1>3, MovesOne DEF TInv, Answered, Moved
<1>4. CASE \E g \in Handlers : Moves(g)
  BY <1>3, <1>4 DEF KeyOf
<1>. QED
  BY <1>1, <1>2, <1>4, SplitNext

LEMMA Grows ==
  ASSUME MInv, [BNext]_allVars, NEW k \in ConnKey
  PROVE  Grown(k)
<1>1. /\ Opened(k) => Opened(k)'
      /\ srv[k].challenged => srv'[k].challenged
      /\ srv[k].got \subseteq srv'[k].got
  BY ServerSteps, ServerFields DEF Opened
<1>2. \A h \in Handlers :
         /\ pc[h] # "idle" => KeyOf(h)' = KeyOf(h) /\ pc'[h] # "idle"
         /\ Answered(h) => Answered(h)'
         /\ pc[h] = "relayed" => pc'[h] = "relayed"
  BY HandlersGrow DEF MInv
<1>3. RealFrom(k) \subseteq RealFrom(k)'
  BY <1>2 DEF RealFrom
<1>4. faked \subseteq faked' /\ faked \subseteq Handlers
  <2>1. RunInjector => faked \subseteq faked'
    BY FakesGrow DEF MInv, History
  <2>. QED
    BY <2>1, WireSteps DEF MInv, History
<1>5. FakeFrom(k) \subseteq FakeFrom(k)'
  BY <1>2, <1>4 DEF FakeFrom, MInv, History
<1>6. ASSUME NEW b \in SeqNums, AckSender(k, b) PROVE AckSender(k, b)'
  <2>1. PICK h \in Handlers : KeyOf(h) = k /\ NextSeq(Isn[h]) = b /\ Answered(h)
    BY <1>6 DEF AckSender
  <2>2. KeyOf(h)' = k /\ Answered(h)'
    BY <1>2, <2>1 DEF Answered
  <2>. QED
    BY <2>1, <2>2 DEF AckSender
<1>. QED
  BY <1>1, <1>3, <1>5, <1>6 DEF Grown

LEMMA PacketStaysOk ==
  ASSUME NEW k \in ConnKey, NEW b \in SeqNums, NEW p, Grown(k), PacketOk(p, k, b)
  PROVE  PacketOk(p, k, b)'
  BY DEF Grown, PacketOk

-----------------------------------------------------------------------------
(* The server's end agrees with the base.                                  *)

LEMMA FlagFacts == Syn # SynAck /\ Syn # Ack /\ SynAck # Ack
<1>1. "syn" \notin Ack /\ "syn" \in Syn /\ "syn" \in SynAck
  BY DEF Syn, SynAck, Ack
<1>2. "ack" \notin Syn /\ "ack" \in SynAck
  BY DEF Syn, SynAck
<1>. QED
  BY <1>1, <1>2

LEMMA Lengths ==
  ASSUME NEW p
  PROVE  /\ p.payload = Empty => Length(p) = 0
         /\ p.payload \in {FakeOf(h) : h \in Handlers} => Length(p) = FakeLen
         /\ p.payload \in {RealOf(h) : h \in Handlers} => Length(p) = 1
<1>1. /\ Empty \notin {FakeOf(h) : h \in Handlers}
      /\ Empty \notin {RealOf(h) : h \in Handlers}
      /\ \A x \in {RealOf(h) : h \in Handlers} : x \notin {FakeOf(h) : h \in Handlers}
  BY PayloadFacts
<1>. QED
  BY <1>1 DEF Length

\* What ends at the base is old to a server that expects the base or one more.
LEMMA OldBytes ==
  ASSUME NEW b \in SeqNums, NEW s \in SeqNums, WrappingAdd(s, FakeLen) = b,
         NEW r \in {b, NextSeq(b)}
  PROVE  s # r /\ ~(NotAfter(r, b) /\ b # r)
<1>1. /\ SeqMod \in Nat /\ FakeLen \in Nat /\ FakeLen >= 1 /\ FakeLen + 1 < SeqMod
      /\ b \in Int /\ 0 <= b /\ b < SeqMod /\ s \in Int /\ 0 <= s /\ s < SeqMod
  BY SeqModAssumption, InjectorAssumption, FakeFitsAssumption DEF SeqNums
<1>2. s # b /\ s # NextSeq(b)
  BY <1>1 DEF WrappingAdd, NextSeq
<1>3. NextSeq(b) # b => ~NotAfter(NextSeq(b), b)
  <2>1. SeqMod \div 2 < SeqMod - 1
    BY <1>1
  <2>2. WrappingSub(b, NextSeq(b)) = SeqMod - 1
    BY <1>1 DEF WrappingSub, WrappingAdd, NextSeq
  <2>. QED
    BY <2>1, <2>2, <1>1 DEF NotAfter
<1>. QED
  BY <1>2, <1>3

\* What an ACK does to a server that agrees with the base: an empty one moves
\* nothing, the client's first byte moves one on, a fake is never accepted.
LEMMA AckAtServer ==
  ASSUME MInv, NEW k \in ConnKey, NEW b \in SeqNums, Based(k, b),
         NEW p \in toPeer, Key(p) = k, p.flags = Ack
  PROVE  /\ p.payload \in {Empty} \cup RealFrom(k) \cup FakeFrom(k)
         /\ NoPayload(p) => WrappingAdd(p.seq_num, Length(p)) = b
         /\ p.payload \in RealFrom(k) => WrappingAdd(p.seq_num, Length(p)) = NextSeq(b)
         /\ p.payload \in FakeFrom(k) => ~Accepted(p, srv[k])
<1>1. p \in Packet /\ ~p.inbound /\ p \in Flying
  BY NoConnAssumption DEF MInv, TInv, WireTypes, Captured, Flying
<1>2. PacketOk(p, k, b)
  BY <1>1 DEF Based
<1>3. /\ Opened(k)
      /\ \/ p.payload \in {Empty} \cup RealFrom(k) /\ p.seq_num = b
         \/ p.payload \in FakeFrom(k) /\ WrappingAdd(p.seq_num, FakeLen) = b
  BY <1>1, <1>2, FlagFacts DEF PacketOk
<1>4. /\ RealFrom(k) \subseteq {RealOf(h) : h \in Handlers}
      /\ FakeFrom(k) \subseteq {FakeOf(h) : h \in Handlers}
  BY DEF RealFrom, FakeFrom, MInv, History
<1>5. /\ Empty \notin RealFrom(k) /\ Empty \notin FakeFrom(k)
      /\ \A x \in RealFrom(k) : x \notin FakeFrom(k)
  BY <1>4, PayloadFacts
<1>6. /\ WrappingAdd(b, 0) = b /\ WrappingAdd(b, 1) = NextSeq(b)
  BY SeqModAssumption DEF SeqNums, WrappingAdd, NextSeq
<1>7. NoPayload(p) => WrappingAdd(p.seq_num, Length(p)) = b
  BY <1>3, <1>5, <1>6, Lengths DEF NoPayload
<1>8. p.payload \in RealFrom(k) => WrappingAdd(p.seq_num, Length(p)) = NextSeq(b)
  BY <1>3, <1>4, <1>5, <1>6, Lengths
<1>9. ASSUME p.payload \in FakeFrom(k) PROVE ~Accepted(p, srv[k])
  <2>1. WrappingAdd(p.seq_num, FakeLen) = b /\ Length(p) = FakeLen
    BY <1>3, <1>4, <1>5, <1>9, Lengths
  <2>2. srv[k].rcv_nxt \in {b, NextSeq(b)}
    BY <1>3 DEF Based, ServerAt
  <2>3. p.seq_num \in SeqNums
    BY <1>1 DEF Packet
  <2>. QED
    BY <2>1, <2>2, <2>3, OldBytes DEF Accepted, HasNewBytes
<1>. QED
  BY <1>3, <1>7, <1>8, <1>9

LEMMA ServerAtStep ==
  ASSUME MInv, [BNext]_allVars, NEW k \in ConnKey, NEW b \in SeqNums, Based(k, b),
         ~Opened(k) /\ Opened(k)' => srv'[k].rcv_nxt = b
  PROVE  ServerAt(k, b)'
<1>1. Grown(k)
  BY Grows
<1>2. /\ srv[k] \in Server
      /\ ServerAt(k, b)
  BY DEF MInv, TInv, WireTypes, Based
<1>3. CASE srv'[k] = srv[k]
  BY <1>1, <1>2, <1>3 DEF ServerAt, Opened, Grown
<1>4. ASSUME NEW p \in toPeer, Key(p) = k, ServerTakes(k, p)
      PROVE  ServerAt(k, b)'
  <2>1. CASE p.flags = Syn /\ ~Opened(k)
    <3>1. /\ srv'[k].state = "syn_rcvd" /\ srv'[k].read = srv[k].read
          /\ srv'[k].got = srv[k].got /\ srv'[k].challenged = srv[k].challenged
      BY <1>4, <2>1, ServerFields, FlagFacts
    <3>2. Opened(k)' /\ srv'[k].rcv_nxt = b
      BY <2>1, <3>1 DEF Opened
    <3>. QED
      BY <1>1, <1>2, <3>1, <3>2 DEF ServerAt, Grown
  <2>2. CASE p.flags = Syn /\ Opened(k)
    <3>1. /\ srv'[k].state = srv[k].state /\ srv'[k].rcv_nxt = srv[k].rcv_nxt
          /\ srv'[k].read = srv[k].read /\ srv'[k].got = srv[k].got
      BY <1>4, <2>2, ServerFields, FlagFacts
    <3>. QED
      BY <1>1, <1>2, <2>2, <3>1 DEF ServerAt, Opened, Grown
  <2>3. CASE p.flags = Ack /\ Opened(k) /\ Accepted(p, srv[k])
    <3>1. /\ srv'[k].state = "established"
          /\ srv'[k].rcv_nxt = WrappingAdd(p.seq_num, Length(p))
          /\ srv'[k].read = ReadOf(p, srv[k]) /\ srv'[k].got = srv[k].got
          /\ srv'[k].challenged = srv[k].challenged
      BY <1>4, <2>3, ServerFields, FlagFacts
    <3>2. p.payload \in {Empty} \cup RealFrom(k)
      BY <1>4, <2>3, AckAtServer
    <3>3. srv'[k].rcv_nxt \in {b, NextSeq(b)}
      BY <1>4, <2>3, <3>1, <3>2, AckAtServer DEF NoPayload
    <3>4. \A i \in DOMAIN srv'[k].read : srv'[k].read[i] \in RealFrom(k)
      <4>1. srv[k].read \in Seq(Payloads)
        BY <1>2 DEF Server
      <4>2. CASE NoPayload(p)
        BY <1>2, <3>1, <4>2 DEF ReadOf, ServerAt
      <4>3. CASE ~NoPayload(p)
        <5>1. p.payload \in RealFrom(k) /\ p.payload \in Payloads
          BY <3>2, <4>3, PayloadFacts DEF NoPayload, RealFrom
        <5>2. srv'[k].read = Append(srv[k].read, p.payload)
          BY <3>1, <4>3 DEF ReadOf
        <5>3. Elems(srv'[k].read) = Elems(srv[k].read) \cup {p.payload}
          BY <4>1, <5>1, <5>2, ElemsFacts
        <5>4. \A x \in Elems(srv'[k].read) : x \in RealFrom(k)
          BY <1>2, <5>1, <5>3 DEF ServerAt, Elems
        <5>. QED
          BY <5>4 DEF Elems
      <4>. QED
        BY <4>2, <4>3
    <3>. QED
      BY <1>1, <1>2, <3>1, <3>3, <3>4 DEF ServerAt, Opened, Grown
  <2>4. CASE p.flags = Ack /\ Opened(k) /\ ~NoPayload(p) /\ ~Accepted(p, srv[k])
    <3>1. /\ srv'[k].state = srv[k].state /\ srv'[k].rcv_nxt = srv[k].rcv_nxt
          /\ srv'[k].read = srv[k].read
          /\ srv'[k].got = srv[k].got \cup {p.payload}
          /\ srv'[k].challenged = srv[k].challenged
      BY <1>4, <2>4, ServerFields, FlagFacts
    <3>2. p.payload \in RealFrom(k) \cup FakeFrom(k)
      BY <1>4, <2>4, AckAtServer DEF NoPayload
    <3>. QED
      BY <1>1, <1>2, <2>4, <3>1, <3>2 DEF ServerAt, Opened, Grown
  <2>. QED
    BY <1>4, <2>1, <2>2, <2>3, <2>4 DEF ServerTakes
<1>. QED
  BY <1>3, <1>4, ServerSteps

-----------------------------------------------------------------------------
(* A step puts at most one packet more on its way.                         *)

\* The segment that establishes h.
Establishes(q, h) ==
  /\ port[h] = q.local /\ sock[h] \in {"syn_sent", "established"}
  /\ q.flags = SynAck /\ q.ack_num = NextSeq(Isn[h])

Emits(p) ==
  \/ \E h \in Handlers : (Connect(h) \/ RetransmitSyn(h)) /\ p = SynOf(h)
  \/ \E h \in Handlers :
       RelayFirst(h) /\ p = [AckOf(h) EXCEPT !.payload = RealOf(h)]
  \/ \E h \in Handlers, q \in Flying :
       /\ q \in Packet /\ Establishes(q, h) /\ p = AckOf(h)
       /\ sock' = [sock EXCEPT ![h] = "established"] /\ LocalTcp
  \/ SendsFake /\ RunInjector /\ p = Fake(Current, packet)
  \/ \E k \in ConnKey :
       /\ srv'[k].state = "syn_rcvd" /\ p = SynAckTo(k, srv'[k].rcv_nxt) /\ Network
  \/ \E k \in ConnKey, n \in SeqNums :
       /\ srv'[k].challenged \/ srv'[k].got # {}
       /\ p = AckTo(k, n) /\ Network

LEMMA ServerEmits ==
  ASSUME MInv, Network, NEW q \in toPeer, ServerSyn(q) \/ ServerAck(q)
  PROVE  \/ toHost' \subseteq toHost
         \/ \E p \in Packet : toHost' = toHost \cup {p} /\ Emits(p)
<1>1. srv \in [ConnKey -> Server] /\ q \in Packet /\ Key(q) \in ConnKey
  BY PacketKey DEF MInv, TInv, WireTypes
<1>2. srv[Key(q)] \in Server /\ srv[Key(q)].rcv_nxt \in SeqNums
      /\ NextSeq(q.seq_num) \in SeqNums
  BY <1>1, NextSeqMoves DEF Server, Packet
<1>3. ASSUME NEW t, Receives(q, t, {})
      PROVE  toHost' \subseteq toHost
  BY <1>3 DEF Receives
<1>4. ASSUME NEW t, t.state = "syn_rcvd", t.rcv_nxt \in SeqNums,
             Receives(q, t, {SynAckTo(Key(q), t.rcv_nxt)})
      PROVE  \E p \in Packet : toHost' = toHost \cup {p} /\ Emits(p)
  <2>1. srv'[Key(q)] = t /\ toHost' = toHost \cup {SynAckTo(Key(q), t.rcv_nxt)}
    BY <1>1, <1>4 DEF Receives
  <2>. QED
    BY <1>1, <1>4, <2>1, RepliesTyped DEF Emits
<1>5. ASSUME NEW t, t.challenged \/ t.got # {},
             Receives(q, t, {AckTo(Key(q), srv[Key(q)].rcv_nxt)})
      PROVE  \E p \in Packet : toHost' = toHost \cup {p} /\ Emits(p)
  <2>1. /\ srv'[Key(q)] = t
        /\ toHost' = toHost \cup {AckTo(Key(q), srv[Key(q)].rcv_nxt)}
    BY <1>1, <1>5 DEF Receives
  <2>. QED
    BY <1>1, <1>2, <1>5, <2>1, RepliesTyped DEF Emits
<1>6. CASE ServerSyn(q)
  <2>. DEFINE t == [srv[Key(q)] EXCEPT !.state = "syn_rcvd",
                                       !.rcv_nxt = NextSeq(q.seq_num)]
              u == [srv[Key(q)] EXCEPT !.challenged = TRUE]
  <2>1. t.state = "syn_rcvd" /\ t.rcv_nxt \in SeqNums /\ u.challenged
    BY <1>2 DEF Server
  <2>2. \/ Receives(q, t, {SynAckTo(Key(q), t.rcv_nxt)})
        \/ /\ srv[Key(q)].state = "syn_rcvd"
           /\ Receives(q, srv[Key(q)], {SynAckTo(Key(q), srv[Key(q)].rcv_nxt)})
        \/ Receives(q, u, {AckTo(Key(q), srv[Key(q)].rcv_nxt)})
    BY <1>6 DEF ServerSyn
  <2>. HIDE DEF t, u
  <2>. QED
    BY <1>2, <1>4, <1>5, <2>1, <2>2
<1>7. CASE ServerAck(q)
  <2>. DEFINE u == [srv[Key(q)] EXCEPT !.got = @ \cup {q.payload}]
  <2>1. u.got # {}
    BY <1>2 DEF Server
  <2>2. \/ \E t : Receives(q, t, {})
        \/ Receives(q, u, {AckTo(Key(q), srv[Key(q)].rcv_nxt)})
    BY <1>7 DEF ServerAck
  <2>. HIDE DEF u
  <2>. QED
    BY <1>3, <1>5, <2>1, <2>2
<1>. QED
  BY <1>6, <1>7

LEMMA FlyingStep ==
  ASSUME MInv, [BNext]_allVars
  PROVE  \/ Flying' \subseteq Flying
         \/ \E p \in Packet : Flying' \subseteq Flying \cup {p} /\ Emits(p)
<1>1. queue \in Seq(Packet) /\ inbox \in Seq(Packet)
  BY DEF MInv, TInv, WireTypes
<1>2. CASE SameWires
  BY <1>2 DEF SameWires, Flying, Elems
<1>3. ASSUME NEW h \in Handlers, Sends(h)
      PROVE  \E p \in Packet : Flying' \subseteq Flying \cup {p} /\ Emits(p)
  <2>1. port[h] \in LocalPorts
    BY <1>3 DEF Sends, Connect, RelayFirst, RetransmitSyn, MInv, TInv, Sockets
  <2>2. \E p \in Packet : queue' = Append(queue, p) /\ Emits(p)
    BY <1>3, <2>1, SegmentsTyped DEF Sends, Emits
  <2>3. PICK p \in Packet : queue' = Append(queue, p) /\ Emits(p)
    BY <2>2
  <2>4. Elems(queue') = Elems(queue) \cup {p}
    BY <1>1, <2>3, ElemsFacts
  <2>5. Elems(inbox') = Elems(inbox) /\ UNCHANGED <<toPeer, toHost, packet>>
    BY <1>3 DEF Sends
  <2>6. Flying' \subseteq Flying \cup {p}
    BY <2>4, <2>5 DEF Flying
  <2>. QED
    BY <2>3, <2>6
<1>4. CASE LocalTcp /\ TakesUp
  <2>1. inbox # <<>> /\ inbox' = Tail(inbox) /\ UNCHANGED <<toPeer, toHost, packet>>
    BY <1>4 DEF TakesUp
  <2>2. Head(inbox) \in Packet
    BY <1>1, <2>1
  <2>3. Elems(inbox') \subseteq Elems(inbox) /\ Head(inbox) \in Flying
    BY <1>1, <2>1, <2>2, ElemsFacts, NoConnAssumption DEF Flying
  <2>4. CASE queue' = queue
    BY <2>1, <2>3, <2>4 DEF Flying, Elems
  <2>5. ASSUME NEW h \in Handlers, Establishes(Head(inbox), h),
               sock' = [sock EXCEPT ![h] = "established"],
               queue' = Append(queue, AckOf(h))
        PROVE  \E p \in Packet : Flying' \subseteq Flying \cup {p} /\ Emits(p)
    <3>1. AckOf(h) \in Packet
      BY <2>5, SegmentsTyped DEF Establishes, MInv, TInv, Sockets
    <3>2. Elems(queue') = Elems(queue) \cup {AckOf(h)}
      BY <1>1, <2>5, <3>1, ElemsFacts
    <3>3. Emits(AckOf(h))
      BY <1>4, <2>2, <2>3, <2>5 DEF Emits
    <3>4. Flying' \subseteq Flying \cup {AckOf(h)}
      BY <2>1, <2>3, <3>2 DEF Flying
    <3>. QED
      BY <3>1, <3>3, <3>4
  <2>. QED
    BY <1>4, <2>4, <2>5 DEF TakesUp, Establishes
<1>5. CASE RunInjector /\ toHost' = toHost
  <2>1. packet' \in Packet /\ packet' \in Flying /\ Elems(queue') \subseteq Elems(queue)
    <3>1. CASE packet' = packet /\ queue' = queue /\ at # "recv"
      <4>1. packet \in Packet
        BY <3>1, CurrentTyped DEF MInv, TInv, IInv
      <4>. QED
        BY <3>1, <4>1, NoConnAssumption DEF Flying, Elems
    <3>2. CASE queue # <<>> /\ queue' = Tail(queue) /\ packet' = Head(queue)
      <4>1. Head(queue) \in Packet
        BY <1>1, <3>2
      <4>. QED
        BY <1>1, <3>2, <4>1, ElemsFacts, NoConnAssumption DEF Flying
    <3>. QED
      BY <1>1, <1>5, <3>1, <3>2, InjectorSends DEF MInv, TInv
  <2>2. ASSUME NEW p \in Packet, Delivers(p)
        PROVE  Flying' \subseteq Flying \cup {p}
    <3>1. CASE p.inbound
      <4>1. Elems(inbox') = Elems(inbox) \cup {p} /\ toPeer' = toPeer
        BY <1>1, <2>2, <3>1, ElemsFacts DEF Delivers
      <4>. QED
        BY <1>5, <2>1, <4>1 DEF Flying
    <3>2. CASE ~p.inbound
      <4>1. Elems(inbox') = Elems(inbox) /\ toPeer' = toPeer \cup {p}
        BY <2>2, <3>2 DEF Delivers
      <4>. QED
        BY <1>5, <2>1, <4>1 DEF Flying
    <3>. QED
      BY <3>1, <3>2
  <2>3. CASE UNCHANGED <<inbox, toPeer>>
    BY <1>5, <2>1, <2>3 DEF Flying, Elems
  <2>4. CASE Delivers(packet')
    BY <2>1, <2>2, <2>4
  <2>5. CASE SendsFake /\ Fake(Current, packet) \in Packet
                       /\ Delivers(Fake(Current, packet))
    BY <1>5, <2>2, <2>5 DEF Emits
  <2>. QED
    BY <1>1, <1>5, <2>3, <2>4, <2>5, InjectorSends DEF MInv, TInv
<1>6. CASE Network /\ inbox' = inbox /\ packet' = packet
  <2>1. Elems(inbox') = Elems(inbox)
    BY <1>6
  <2>2. CASE /\ \E p \in toHost : queue' = Append(queue, p)
             /\ toHost' \subseteq toHost /\ UNCHANGED toPeer
    <3>1. PICK p \in toHost : queue' = Append(queue, p)
      BY <2>2
    <3>2. p \in Packet
      BY DEF MInv, TInv, WireTypes
    <3>3. Elems(queue') = Elems(queue) \cup {p}
      BY <1>1, <3>1, <3>2, ElemsFacts
    <3>. QED
      BY <1>6, <2>1, <2>2, <3>3 DEF Flying
  <2>3. ASSUME NEW q \in toPeer, ServerSyn(q) \/ ServerAck(q), queue' = queue,
               toPeer' \subseteq toPeer
        PROVE  \/ Flying' \subseteq Flying
               \/ \E p \in Packet : Flying' \subseteq Flying \cup {p} /\ Emits(p)
    <3>1. CASE toHost' \subseteq toHost
      BY <1>6, <2>1, <2>3, <3>1 DEF Flying, Elems
    <3>2. ASSUME NEW p \in Packet, toHost' = toHost \cup {p}
          PROVE  Flying' \subseteq Flying \cup {p}
      BY <1>6, <2>1, <2>3, <3>2 DEF Flying, Elems
    <3>. QED
      BY <1>6, <2>3, <3>1, <3>2, ServerEmits
  <2>4. ASSUME NEW k \in ConnKey, srv[k].state = "syn_rcvd",
               toHost' = toHost \cup {SynAckTo(k, srv[k].rcv_nxt)},
               UNCHANGED <<queue, toPeer, srv>>
        PROVE  \E p \in Packet : Flying' \subseteq Flying \cup {p} /\ Emits(p)
    <3>1. SynAckTo(k, srv[k].rcv_nxt) \in Packet
      BY RepliesTyped DEF MInv, TInv, WireTypes, Server
    <3>2. Emits(SynAckTo(k, srv[k].rcv_nxt))
      BY <1>6, <2>4 DEF Emits
    <3>3. Flying' \subseteq Flying \cup {SynAckTo(k, srv[k].rcv_nxt)}
      BY <1>6, <2>1, <2>4 DEF Flying, Elems
    <3>. QED
      BY <3>1, <3>2, <3>3
  <2>. QED
    BY <1>6, <2>2, <2>3, <2>4, NetworkSteps
<1>. QED
  BY <1>2, <1>3, <1>4, <1>5, <1>6, WireSteps

\* What a segment of a handler says.
LEMMA SegmentFields ==
  ASSUME NEW h \in Handlers, NEW p,
         p \in {SynOf(h), AckOf(h), [AckOf(h) EXCEPT !.payload = RealOf(h)]}
  PROVE  /\ ~p.inbound /\ Key(p) = KeyOf(h)
         /\ p = SynOf(h) => p.flags = Syn /\ NoPayload(p) /\ p.seq_num = Isn[h]
         /\ p # SynOf(h) => p.flags = Ack /\ p.seq_num = NextSeq(Isn[h])
         /\ p = AckOf(h) => p.flags = Ack /\ NoPayload(p) /\ p.seq_num = NextSeq(Isn[h])
         /\ p = [AckOf(h) EXCEPT !.payload = RealOf(h)] =>
              p.flags = Ack /\ p.payload = RealOf(h) /\ p.seq_num = NextSeq(Isn[h])
<1>1. /\ SynOf(h).flags = Syn /\ AckOf(h).flags = Ack
      /\ [AckOf(h) EXCEPT !.payload = RealOf(h)].flags = Ack
  BY DEF SynOf, AckOf, Segment
<1>2. SynOf(h) # AckOf(h) /\ SynOf(h) # [AckOf(h) EXCEPT !.payload = RealOf(h)]
  BY <1>1, FlagFacts
<1>3. AckOf(h) # [AckOf(h) EXCEPT !.payload = RealOf(h)]
  <2>1. AckOf(h).payload = Empty
        /\ [AckOf(h) EXCEPT !.payload = RealOf(h)].payload = RealOf(h)
    BY DEF AckOf, Segment
  <2>. QED
    BY <2>1, PayloadFacts
<1>4. CASE p = SynOf(h)
  BY <1>2, <1>4 DEF SynOf, Segment, Key, KeyOf, NoPayload
<1>5. CASE p = AckOf(h)
  BY <1>2, <1>3, <1>5 DEF AckOf, Segment, Key, KeyOf, NoPayload
<1>6. CASE p = [AckOf(h) EXCEPT !.payload = RealOf(h)]
  <2>1. /\ ~p.inbound /\ p.local = port[h] /\ p.remote = 443 /\ p.flags = Ack
        /\ p.seq_num = NextSeq(Isn[h]) /\ p.payload = RealOf(h)
    BY <1>6 DEF AckOf, Segment
  <2>2. Key(p) = KeyOf(h)
    BY <2>1 DEF Key, KeyOf
  <2>. QED
    BY <1>2, <1>3, <1>6, <2>1, <2>2, Zenon
<1>. QED
  BY <1>4, <1>5, <1>6

\* The fake that is sent: it ends at the base, and its owner is now in faked.
LEMMA FakeSent ==
  ASSUME MInv, MInv', [BNext]_allVars, NEW k \in ConnKey, NEW b \in SeqNums,
         Based(k, b), SendsFake, RunInjector, Key(packet) = k
  PROVE  /\ packet \in Flying /\ packet \in Packet /\ AckSender(k, b) /\ Opened(k)
         /\ WrappingAdd(Fake(Current, packet).seq_num, FakeLen) = b
         /\ Current = connections[k] /\ Tracked(k)
         /\ Current.syn_seq # NotSeen /\ NextSeq(Current.syn_seq) = b
         /\ \E g \in Handlers : /\ Owned(k, g) /\ KeyOf(g) = k /\ g \notin faked
                                /\ pc[g] \in Holding \cup {"abort"}
                                /\ faked' = faked \cup {g}
                                /\ Current.fake_data = FakeOf(g)
<1>1. /\ HandshakeAckExpected(Current, packet) /\ ~packet.inbound /\ at = "delay"
      /\ ~Current.fake_sent
  BY DEF SendsFake
<1>2. /\ packet \in Packet /\ Current \in Conn /\ Current = connections[k] /\ Tracked(k)
  BY <1>1, CurrentTyped DEF MInv, TInv, IInv, ThreadView
<1>3. packet \in Flying
  BY <1>2, NoConnAssumption DEF Flying
<1>4. PacketOk(packet, k, b)
  BY <1>3 DEF Based
<1>5. Empty \notin FakeFrom(k)
  BY PayloadFacts DEF FakeFrom, MInv, History
<1>6. /\ Opened(k) /\ AckSender(k, b) /\ packet.seq_num = b
  BY <1>1, <1>4, <1>5, FlagFacts DEF PacketOk, HandshakeAckExpected, NoPayload
<1>7. Current.syn_seq # NotSeen /\ NextSeq(Current.syn_seq) = b
  BY <1>1, <1>6 DEF HandshakeAckExpected
<1>8. WrappingAdd(Fake(Current, packet).seq_num, FakeLen) = b
  BY <1>2, <1>7, FakeTyped
<1>9. PICK g \in Handlers : /\ Owned(k, g) /\ KeyOf(g) = k
                            /\ pc[g] \in Holding \cup {"abort"}
  BY <1>2 DEF MInv, Entries
<1>10. Current.fake_data = FakeOf(g)
  BY <1>2, <1>9 DEF Owned
<1>11. faked' = faked \cup {h \in Handlers : Current.fake_data = FakeOf(h)}
  BY FakedBy DEF MInv, TInv, WireTypes, Captured, History
<1>12. faked' = faked \cup {g}
  BY <1>10, <1>11, PayloadFacts
<1>13. g \notin faked
  BY <1>1, <1>2, <1>9 DEF MInv, History
<1>. QED
  BY <1>2, <1>3, <1>6, <1>7, <1>8, <1>9, <1>10, <1>12, <1>13

LEMMA EmittedOk ==
  ASSUME MInv, MInv', [BNext]_allVars, NEW k \in ConnKey, NEW b \in SeqNums,
         Based(k, b), ServerAt(k, b)', NEW p \in Packet, Emits(p), Key(p) = k
  PROVE  PacketOk(p, k, b)'
<1>1. Grown(k)
  BY Grows
<1>2. CASE \E h \in Handlers : (Connect(h) \/ RetransmitSyn(h)) /\ p = SynOf(h)
  BY <1>2, SegmentFields DEF PacketOk
<1>3. ASSUME NEW h \in Handlers, RelayFirst(h),
             p = [AckOf(h) EXCEPT !.payload = RealOf(h)]
      PROVE  PacketOk(p, k, b)'
  <2>1. /\ ~p.inbound /\ p.flags = Ack /\ p.payload = RealOf(h)
        /\ p.seq_num = NextSeq(Isn[h]) /\ KeyOf(h) = k
    BY <1>3, SegmentFields
  <2>2. pc[h] = "relay" /\ sock[h] = "established" /\ pc'[h] = "relayed"
        /\ KeyOf(h)' = KeyOf(h)
    BY <1>3 DEF RelayFirst, Goto, KeyOf, MInv, TInv, Sockets, SockAt, HandlerTypes
  <2>3. Opened(k) /\ NextSeq(Isn[h]) = b /\ AckSender(k, b)
    BY <2>1, <2>2 DEF Based, AckSender, Answered
  <2>4. RealOf(h) \in RealFrom(k)'
    BY <2>1, <2>2 DEF RealFrom
  <2>. QED
    BY <1>1, <2>1, <2>3, <2>4 DEF PacketOk, Grown
<1>4. ASSUME NEW h \in Handlers, NEW q \in Flying, q \in Packet, Establishes(q, h),
             p = AckOf(h), sock' = [sock EXCEPT ![h] = "established"], LocalTcp
      PROVE  PacketOk(p, k, b)'
  <2>1. /\ ~p.inbound /\ p.flags = Ack /\ NoPayload(p)
        /\ p.seq_num = NextSeq(Isn[h]) /\ KeyOf(h) = k
    BY <1>4, SegmentFields
  <2>2. Key(q) = k
    BY <1>4, <2>1, BypassAssumption DEF Key, KeyOf, Establishes, Packet
  <2>3. Opened(k) /\ NextSeq(Isn[h]) = b
    BY <1>4, <2>2, FlagFacts DEF Based, PacketOk, Establishes
  <2>4. /\ UNCHANGED <<pc, port>> /\ sock'[h] = "established"
        /\ pc[h] \notin {"idle", "bound", "registered"}
    BY <1>4, LocalTcpSockets DEF MInv, TInv, HandlerTypes, Sockets, SockAt, Establishes
  <2>5. AckSender(k, b)'
    BY <2>1, <2>3, <2>4 DEF AckSender, Answered, KeyOf
  <2>. QED
    BY <1>1, <2>1, <2>3, <2>5 DEF PacketOk, Grown, NoPayload
<1>5. CASE SendsFake /\ RunInjector /\ p = Fake(Current, packet)
  <2>1. packet \in Packet
    BY <1>5, CurrentTyped DEF SendsFake, MInv, TInv, IInv
  <2>2. /\ ~p.inbound /\ p.flags = Ack /\ p.payload = Current.fake_data
        /\ Key(packet) = k
    BY <1>5, <2>1, FakeDirection DEF SendsFake, HandshakeAckExpected
  <2>3. PICK g \in Handlers : /\ KeyOf(g) = k /\ pc[g] \in Holding \cup {"abort"}
                              /\ faked' = faked \cup {g} /\ Current.fake_data = FakeOf(g)
    BY <1>5, <2>2, FakeSent
  <2>4. KeyOf(g)' = k
    BY <1>5, <2>3, EnvironmentKeepsHandlers DEF Environment, KeyOf
  <2>5. p.payload \in FakeFrom(k)'
    BY <2>2, <2>3, <2>4 DEF FakeFrom
  <2>6. Opened(k) /\ AckSender(k, b) /\ WrappingAdd(p.seq_num, FakeLen) = b
    BY <1>5, <2>2, FakeSent
  <2>. QED
    BY <1>1, <2>2, <2>5, <2>6 DEF PacketOk, Grown
<1>6. ASSUME NEW j \in ConnKey, srv'[j].state = "syn_rcvd",
             p = SynAckTo(j, srv'[j].rcv_nxt)
      PROVE  PacketOk(p, k, b)'
  <2>1. /\ p.inbound /\ NoPayload(p) /\ p.flags = SynAck
        /\ p.ack_num = srv'[j].rcv_nxt /\ j = k
    BY <1>6, ReplyFacts
  <2>. QED
    BY <1>6, <2>1 DEF PacketOk, ServerAt, Opened
<1>7. ASSUME NEW j \in ConnKey, NEW n \in SeqNums,
             srv'[j].challenged \/ srv'[j].got # {}, p = AckTo(j, n)
      PROVE  PacketOk(p, k, b)'
  <2>1. p.inbound /\ NoPayload(p) /\ p.flags = Ack /\ j = k
    BY <1>7, ReplyFacts
  <2>. QED
    BY <1>7, <2>1 DEF PacketOk
<1>. QED
  BY <1>2, <1>3, <1>4, <1>5, <1>6, <1>7 DEF Emits

\* A socket is established by a SYN-ACK that agrees with the base.
LEMMA SocketsAtBase ==
  ASSUME MInv, [BNext]_allVars, NEW k \in ConnKey, NEW b \in SeqNums, Based(k, b),
         NEW h \in Handlers, KeyOf(h)' = k, sock'[h] \in {"established", "time_wait"}
  PROVE  Opened(k)' /\ NextSeq(Isn[h]) = b
<1>1. Grown(k)
  BY Grows
<1>2. CASE KeyOf(h) = k /\ sock[h] \in {"established", "time_wait"}
  BY <1>1, <1>2 DEF Based, Grown
<1>3. CASE Environment \/ UNCHANGED allVars
  BY <1>2, <1>3, EnvironmentKeepsHandlers DEF KeyOf, allVars, handlerVars, hostVars
<1>4. ASSUME NEW g \in Handlers, Moves(g) PROVE Opened(k)' /\ NextSeq(Isn[h]) = b
  <2>1. sock[h] \in {"established", "time_wait"} /\ port'[h] = port[h]
    BY <1>4, MovesOne DEF MInv, TInv, Moved, HandlerTypes, SockStates
  <2>. QED
    BY <1>2, <2>1 DEF KeyOf
<1>5. CASE LocalTcp
  <2>1. KeyOf(h) = k
    BY <1>5, LocalTcpSockets DEF KeyOf, MInv, TInv
  <2>2. CASE sock[h] = sock'[h]
    BY <1>2, <2>1, <2>2
  <2>3. CASE sock[h] # sock'[h]
    <3>1. inbox \in Seq(Packet) /\ inbox # <<>> /\ Establishes(Head(inbox), h)
      BY <1>5, <2>3 DEF LocalTcp, Establishes, MInv, TInv, HandlerTypes, WireTypes
    <3>2. Head(inbox) \in Packet
      BY <3>1
    <3>3. Head(inbox) \in Flying
      BY <3>1, <3>2, ElemsFacts, NoConnAssumption DEF Flying
    <3>4. Key(Head(inbox)) = k
      BY <2>1, <3>1, <3>2, BypassAssumption DEF Key, KeyOf, Establishes, Packet
    <3>. QED
      BY <1>1, <3>1, <3>3, <3>4, FlagFacts DEF Based, PacketOk, Establishes, Grown
  <2>. QED
    BY <2>2, <2>3
<1>. QED
  BY <1>3, <1>4, <1>5, SplitNext

\* Who is new among the faked is the owner of the entry the injector is at.
LEMMA NewlyFaked ==
  ASSUME MInv, MInv', [BNext]_allVars, NEW g \in faked' \ faked
  PROVE  /\ g \in Handlers /\ RunInjector /\ SendsFake
         /\ Key(packet) \in ConnKey /\ Owned(Key(packet), g)
         /\ KeyOf(g) = Key(packet) /\ KeyOf(g)' = KeyOf(g)
<1>1. RunInjector
  BY WireSteps
<1>2. SendsFake /\ Current.fake_data = FakeOf(g)
  BY <1>1, FakedBy DEF MInv, TInv, WireTypes, Captured, History
<1>3. Key(packet) \in ConnKey /\ Current = connections[Key(packet)]
      /\ Tracked(Key(packet))
  BY <1>2, CurrentTyped DEF MInv, TInv, IInv, ThreadView, SendsFake
<1>4. g \in Handlers /\ Owned(Key(packet), g)
  BY <1>2, <1>3 DEF Owned, MInv, History
<1>5. KeyOf(g) = Key(packet) /\ KeyOf(g)' = KeyOf(g)
  BY <1>1, <1>3, <1>4, OwnerFacts, EnvironmentKeepsHandlers
     DEF Environment, KeyOf, MInv
<1>. QED
  BY <1>1, <1>2, <1>3, <1>4, <1>5

LEMMA FakedKeepKey ==
  ASSUME MInv, [BNext]_allVars, NEW g \in faked
  PROVE  g \in Handlers /\ KeyOf(g)' = KeyOf(g) /\ KeyOf(g) \in ConnKey
  BY HandlersGrow, SamePortSameKey DEF MInv, TInv, History

\* Once a fake is out, its ACK was, and so a base is settled.
LEMMA FakesAtBase ==
  ASSUME MInv, MInv', [BNext]_allVars, NEW k \in ConnKey, NEW b \in SeqNums,
         Based(k, b), FakeFrom(k)' # {}
  PROVE  Opened(k)' /\ AckSender(k, b)'
<1>1. Grown(k)
  BY Grows
<1>2. PICK g \in faked' : KeyOf(g)' = k
  BY DEF FakeFrom
<1>3. CASE g \in faked
  <2>1. FakeFrom(k) # {}
    BY <1>2, <1>3, FakedKeepKey DEF FakeFrom
  <2>. QED
    BY <1>1, <2>1 DEF Based, Grown
<1>4. CASE g \notin faked
  BY <1>1, <1>2, <1>4, NewlyFaked, FakeSent DEF Grown
<1>. QED
  BY <1>3, <1>4

LEMMA BasedStep ==
  ASSUME MInv, MInv', [BNext]_allVars, NEW k \in ConnKey, NEW b \in SeqNums,
         Based(k, b), ~Opened(k) /\ Opened(k)' => srv'[k].rcv_nxt = b
  PROVE  Based(k, b)'
<1>1. Grown(k) /\ ServerAt(k, b)'
  BY Grows, ServerAtStep
<1>2. ASSUME NEW p \in Flying', Key(p) = k PROVE PacketOk(p, k, b)'
  <2>1. p \in Flying => PacketOk(p, k, b)
    BY <1>2 DEF Based
  <2>2. p \in Flying \/ (p \in Packet /\ Emits(p))
    BY <1>2, FlyingStep
  <2>. QED
    BY <1>1, <1>2, <2>1, <2>2, PacketStaysOk, EmittedOk
<1>. QED
  BY <1>1, <1>2, SocketsAtBase, FakesAtBase DEF Based

-----------------------------------------------------------------------------
(* The order behind the fakes.  When two sockets never start at the same   *)
(* number, a connection's fake is the last of it: no SYN that could start  *)
(* the handshake anew is behind the ACK of the handshake.                  *)

IsnsDiffer == \A g, h \in Handlers : Isn[g] = Isn[h] => g = h

BaseSyn(p, k, b) == ~p.inbound /\ p.flags = Syn /\ Key(p) = k /\ NextSeq(p.seq_num) = b
AckOut(p, k)     == ~p.inbound /\ p.flags = Ack /\ Key(p) = k

NoSynIn(s, k, b) == \A i \in DOMAIN s : ~BaseSyn(s[i], k, b)

QueueOrder(k, b) ==
  /\ \A i, j \in DOMAIN queue :
       i < j /\ AckOut(queue[i], k) => ~BaseSyn(queue[j], k, b)
  /\ packet # NoPacket /\ AckOut(packet, k) => NoSynIn(queue, k, b)
  /\ FakeFrom(k) # {} => /\ NoSynIn(queue, k, b)
                         /\ at # "recv" => ~BaseSyn(packet, k, b)

\* An entry that is not of a faked handler never learns the base.
OneFaked(k, b) ==
  /\ Tracked(k) => \A h \in faked : KeyOf(h) = k /\ ~Owned(k, h) =>
       \/ connections[k].syn_seq = NotSeen
       \/ NextSeq(connections[k].syn_seq) # b
  /\ \A g, h \in faked : KeyOf(g) = k /\ KeyOf(h) = k => g = h

LEMMA AnyOrder ==
  ASSUME MInv, NEW k, NEW b, NEW c, Based(k, b), ~Opened(k)
  PROVE  QueueOrder(k, c) /\ OneFaked(k, c)
<1>1. FakeFrom(k) = {} /\ \A p \in Flying : Key(p) = k => p.flags = Syn
  BY AnyBase
<1>2. \A h \in faked : KeyOf(h) # k
  BY <1>1 DEF FakeFrom
<1>3. \A p \in Flying : ~AckOut(p, k)
  BY <1>1, FlagFacts DEF AckOut
<1>4. \A i \in DOMAIN queue : ~AckOut(queue[i], k)
  <2>1. \A i \in DOMAIN queue : queue[i] \in Packet
    BY DEF MInv, TInv, WireTypes
  <2>. QED
    BY <1>3, <2>1, NoConnAssumption DEF Flying, Elems
<1>5. packet # NoPacket => ~AckOut(packet, k)
  BY <1>3 DEF Flying
<1>. QED
  BY <1>1, <1>2, <1>4, <1>5 DEF QueueOrder, OneFaked

LEMMA NextSeqInjective ==
  ASSUME NEW a \in SeqNums, NEW b \in SeqNums, NextSeq(a) = NextSeq(b)
  PROVE  a = b
  BY SeqModAssumption DEF SeqNums, NextSeq, WrappingAdd

\* A socket that is still to be answered does not start at a base that has an ACK.
LEMMA NoLateSyn ==
  ASSUME IsnsDiffer, NEW k, NEW b, AckSender(k, b), NEW h \in Handlers,
         Connect(h) \/ RetransmitSyn(h)
  PROVE  ~BaseSyn(SynOf(h), k, b)
<1>. SUFFICES ASSUME BaseSyn(SynOf(h), k, b) PROVE FALSE
  OBVIOUS
<1>1. NextSeq(Isn[h]) = b
  BY SegmentFields DEF BaseSyn
<1>2. PICK g \in Handlers : NextSeq(Isn[g]) = b /\ Answered(g)
  BY DEF AckSender
<1>3. Isn[g] \in SeqNums /\ Isn[h] \in SeqNums
  BY BypassAssumption
<1>4. g = h
  BY <1>1, <1>2, <1>3, NextSeqInjective DEF IsnsDiffer
<1>. QED
  BY <1>2, <1>4 DEF Answered, Connect, RetransmitSyn

\* How the queue moves.
QueueGrows(p) ==
  /\ queue' = Append(queue, p)
  /\ \/ p.inbound \/ p.flags = Ack
     \/ \E h \in Handlers : (Connect(h) \/ RetransmitSyn(h)) /\ p = SynOf(h)

LEMMA QueueSteps ==
  ASSUME MInv, [BNext]_allVars
  PROVE  \/ RunInjector
         \/ /\ packet' = packet /\ at' = at /\ faked' = faked
            /\ queue' = queue \/ \E p \in Packet : QueueGrows(p)
<1>1. ASSUME NEW h \in Handlers, Sends(h) PROVE \E p \in Packet : QueueGrows(p)
  <2>1. port[h] \in LocalPorts
    BY <1>1 DEF Sends, Connect, RelayFirst, RetransmitSyn, MInv, TInv, Sockets
  <2>2. /\ SynOf(h) \in Packet
        /\ [AckOf(h) EXCEPT !.payload = RealOf(h)] \in Packet
        /\ [AckOf(h) EXCEPT !.payload = RealOf(h)].flags = Ack
    BY <2>1, SegmentsTyped, SegmentFields
  <2>. QED
    BY <1>1, <2>2 DEF Sends, QueueGrows
<1>2. ASSUME TakesUp PROVE queue' = queue \/ \E p \in Packet : QueueGrows(p)
  <2>1. \A h \in Handlers : sock[h] # "none" => AckOf(h) \in Packet /\ AckOf(h).flags = Ack
    BY SegmentsTyped, SegmentFields DEF MInv, TInv, Sockets
  <2>2. \/ queue' = queue
        \/ \E h \in Handlers : sock[h] # "none" /\ queue' = Append(queue, AckOf(h))
    BY <1>2 DEF TakesUp
  <2>. QED
    BY <2>1, <2>2 DEF QueueGrows
<1>3. ASSUME Network PROVE queue' = queue \/ \E p \in Packet : QueueGrows(p)
  <2>1. \A p \in toHost : p \in Packet /\ p.inbound
    BY DEF MInv, TInv, WireTypes, Captured
  <2>. QED
    BY <1>3, <2>1, NetworkSteps DEF QueueGrows
<1>. QED
  BY <1>1, <1>2, <1>3, WireSteps DEF SameWires, Sends, TakesUp

LEMMA FakesStay ==
  ASSUME MInv, [BNext]_allVars, NEW k, faked' = faked
  PROVE  FakeFrom(k)' = FakeFrom(k)
  BY FakedKeepKey DEF FakeFrom

\* A handshake ACK on its way, or a fake, has its sender.
LEMMA AckOnItsWay ==
  ASSUME MInv, NEW k, NEW b, Based(k, b),
         \/ \E i \in DOMAIN queue : AckOut(queue[i], k)
         \/ packet # NoPacket /\ AckOut(packet, k)
         \/ FakeFrom(k) # {}
  PROVE  AckSender(k, b)
<1>1. ASSUME NEW p \in Flying, AckOut(p, k) PROVE AckSender(k, b)
  BY <1>1, FlagFacts DEF Based, PacketOk, AckOut
<1>2. \A i \in DOMAIN queue : queue[i] \in Flying
  <2>1. \A i \in DOMAIN queue : queue[i] \in Packet
    BY DEF MInv, TInv, WireTypes
  <2>. QED
    BY <2>1, NoConnAssumption DEF Flying, Elems
<1>3. packet # NoPacket => packet \in Flying
  BY DEF Flying
<1>. QED
  BY <1>1, <1>2, <1>3 DEF Based

LEMMA QueueOrderStep ==
  ASSUME IsnsDiffer, MInv, MInv', [BNext]_allVars, NEW k \in ConnKey,
         NEW b \in SeqNums, Based(k, b), QueueOrder(k, b)
  PROVE  QueueOrder(k, b)'
<1>1. queue \in Seq(Packet)
  BY DEF MInv, TInv, WireTypes
<1>2. CASE queue' = queue /\ packet' = packet /\ at' = at /\ faked' = faked
  BY <1>2, FakesStay DEF QueueOrder, NoSynIn
<1>3. ASSUME NEW p \in Packet, QueueGrows(p), packet' = packet, at' = at, faked' = faked
      PROVE  QueueOrder(k, b)'
  <2>1. FakeFrom(k)' = FakeFrom(k)
    BY <1>3, FakesStay
  <2>2. /\ DOMAIN queue' = DOMAIN queue \cup {Len(queue) + 1}
        /\ queue'[Len(queue) + 1] = p
        /\ \A i \in DOMAIN queue : queue'[i] = queue[i] /\ i < Len(queue) + 1
    BY <1>1, <1>3 DEF QueueGrows
  <2>3. AckSender(k, b) => ~BaseSyn(p, k, b)
    BY <1>3, FlagFacts, NoLateSyn DEF QueueGrows, BaseSyn
  <2>4. /\ (\E i \in DOMAIN queue : AckOut(queue[i], k)) => ~BaseSyn(p, k, b)
        /\ packet # NoPacket /\ AckOut(packet, k) => ~BaseSyn(p, k, b)
        /\ FakeFrom(k) # {} => ~BaseSyn(p, k, b)
    BY <2>3, AckOnItsWay
  <2>5. ASSUME NEW i \in DOMAIN queue', NEW j \in DOMAIN queue', i < j,
               AckOut(queue'[i], k)
        PROVE  ~BaseSyn(queue'[j], k, b)
    <3>1. i \in DOMAIN queue
      BY <1>1, <2>2, <2>5
    <3>2. CASE j \in DOMAIN queue
      BY <2>2, <2>5, <3>1, <3>2 DEF QueueOrder
    <3>3. CASE j = Len(queue) + 1
      BY <2>2, <2>4, <2>5, <3>1, <3>3
    <3>. QED
      BY <2>2, <3>2, <3>3
  <2>6. NoSynIn(queue, k, b) /\ ~BaseSyn(p, k, b) => NoSynIn(queue', k, b)
    BY <2>2 DEF NoSynIn
  <2>7. packet' # NoPacket /\ AckOut(packet', k) => NoSynIn(queue', k, b)
    BY <1>3, <2>4, <2>6 DEF QueueOrder
  <2>8. FakeFrom(k)' # {} => /\ NoSynIn(queue', k, b)
                             /\ at' # "recv" => ~BaseSyn(packet', k, b)
    BY <1>3, <2>1, <2>4, <2>6 DEF QueueOrder
  <2>. QED
    BY <2>5, <2>7, <2>8 DEF QueueOrder
<1>4. CASE RunInjector /\ at = "recv" /\ queue # <<>> /\ queue' = Tail(queue)
           /\ packet' = Head(queue)
  <2>1. ~SendsFake
    BY <1>4 DEF SendsFake
  <2>2. faked' = faked
    BY <1>4, <2>1, FakedBy DEF MInv, TInv, WireTypes, Captured, History
  <2>3. FakeFrom(k)' = FakeFrom(k)
    BY <2>2, FakesStay
  <2>4. /\ 1 \in DOMAIN queue /\ packet' = queue[1]
        /\ \A i \in DOMAIN queue' : /\ i + 1 \in DOMAIN queue /\ 1 < i + 1
                                    /\ queue'[i] = queue[i + 1]
        /\ \A i, j \in DOMAIN queue' : i < j => i + 1 < j + 1
    BY <1>1, <1>4
  <2>5. \A i, j \in DOMAIN queue' :
           i < j /\ AckOut(queue'[i], k) => ~BaseSyn(queue'[j], k, b)
    BY <2>4 DEF QueueOrder
  <2>6. AckOut(packet', k) => NoSynIn(queue', k, b)
    BY <2>4 DEF QueueOrder, NoSynIn
  <2>7. FakeFrom(k)' # {} => NoSynIn(queue', k, b) /\ ~BaseSyn(packet', k, b)
    BY <2>3, <2>4 DEF QueueOrder, NoSynIn
  <2>. QED
    BY <2>5, <2>6, <2>7 DEF QueueOrder
<1>5. CASE RunInjector /\ at # "recv" /\ packet' = packet /\ queue' = queue
  <2>1. ASSUME FakeFrom(k)' # {}
        PROVE  NoSynIn(queue, k, b) /\ ~BaseSyn(packet, k, b)
    <3>1. PICK g \in faked' : KeyOf(g)' = k
      BY <2>1 DEF FakeFrom
    <3>2. CASE g \in faked
      <4>1. FakeFrom(k) # {}
        BY <3>1, <3>2, FakedKeepKey DEF FakeFrom
      <4>. QED
        BY <1>5, <4>1 DEF QueueOrder
    <3>3. CASE g \notin faked
      <4>1. SendsFake /\ Key(packet) = k
        BY <3>1, <3>3, NewlyFaked
      <4>2. packet \in Packet /\ AckOut(packet, k)
        BY <1>5, <4>1, CurrentTyped
           DEF SendsFake, HandshakeAckExpected, AckOut, MInv, TInv, IInv
      <4>. QED
        BY <4>2, NoConnAssumption, FlagFacts DEF QueueOrder, AckOut, BaseSyn
    <3>. QED
      BY <3>2, <3>3
  <2>. QED
    BY <1>5, <2>1 DEF QueueOrder, NoSynIn
<1>. QED
  BY <1>1, <1>2, <1>3, <1>4, <1>5, QueueSteps, InjectorSends DEF MInv, TInv

\* How the entry of k gets the number of a SYN.
LEMMA SynSeqSteps ==
  ASSUME MInv, [BNext]_allVars, NEW k \in ConnKey, Tracked(k)'
  PROVE  \/ connections'[k].syn_seq = NotSeen
         \/ /\ Tracked(k) /\ connections'[k].fake_data = connections[k].fake_data
            /\ \/ connections'[k].syn_seq = connections[k].syn_seq
               \/ /\ at # "recv" /\ Key(packet) = k
                  /\ ~packet.inbound /\ packet.flags = Syn
                  /\ connections'[k].syn_seq = packet.seq_num
<1>1. connections \in [ConnKey -> Conn \cup {NoConn}]
  BY DEF MInv, TInv, IInv, TypeOK
<1>2. CASE connections'[k] = connections[k]
  BY <1>2 DEF Tracked
<1>3. ASSUME NEW h \in Handlers, Register(h), connections'[k] # connections[k]
      PROVE  connections'[k].syn_seq = NotSeen
  <2>1. connections' = [connections EXCEPT
                          ![KeyOf(h)] = NewConn(FakeOf(h), BypassMethod)]
    BY <1>3 DEF Register, InsertConn
  <2>2. connections'[k] = NewConn(FakeOf(h), BypassMethod)
    BY <1>1, <1>3, <2>1
  <2>3. NewConn(FakeOf(h), BypassMethod).syn_seq = NotSeen
    BY DEF NewConn
  <2>. QED
    BY <2>2, <2>3
<1>4. ASSUME NEW h \in Handlers, Abort(h) \/ Finish(h)
      PROVE  connections'[k] = connections[k]
  <2>1. connections' = [connections EXCEPT ![KeyOf(h)] = NoConn]
    BY <1>4 DEF Abort, Finish, RemoveConn
  <2>. QED
    BY <1>1, <2>1 DEF Tracked
<1>5. ASSUME NEW h \in Handlers, WokenUp(h), connections'[k] # connections[k]
      PROVE  /\ Tracked(k) /\ connections'[k].fake_data = connections[k].fake_data
             /\ connections'[k].syn_seq = connections[k].syn_seq
  <2>1. /\ connections' = [connections EXCEPT ![KeyOf(h)].permit = FALSE]
        /\ Tracked(KeyOf(h))
    BY <1>5 DEF WokenUp, TakePermit
  <2>2. k = KeyOf(h) /\ connections'[k] = [connections[k] EXCEPT !.permit = FALSE]
    BY <1>1, <1>5, <2>1
  <2>3. connections[k] \in Conn
    BY <1>1, <2>1, <2>2 DEF Tracked
  <2>4. /\ [connections[k] EXCEPT !.permit = FALSE].fake_data = connections[k].fake_data
        /\ [connections[k] EXCEPT !.permit = FALSE].syn_seq = connections[k].syn_seq
    BY <2>3 DEF Conn
  <2>. QED
    BY <2>1, <2>2, <2>4
<1>6. CASE Step
  <2>1. PICK d : /\ Turn(Current, d) /\ Key(packet) \in ConnKey
                 /\ Tracked(Key(packet)) /\ Current = connections[Key(packet)]
                 /\ connections' = [connections EXCEPT ![Key(packet)] = d]
    BY <1>6, StepTurns DEF MInv, TInv
  <2>2. CASE k = Key(packet)
    <3>1. connections'[k] = d
      BY <1>1, <2>1, <2>2
    <3>. QED
      BY <2>1, <2>2, <3>1 DEF Turn
  <2>3. CASE k # Key(packet)
    BY <1>1, <1>2, <2>1, <2>3
  <2>. QED
    BY <2>2, <2>3
<1>7. ASSUME UNCHANGED connections
      PROVE  connections'[k] = connections[k]
  BY <1>7
<1>8. RunInjector => Step \/ UNCHANGED connections
  BY InjectorSends DEF MInv, TInv, WireTypes
<1>. QED
  BY <1>2, <1>3, <1>4, <1>5, <1>6, <1>7, <1>8, MapKept DEF BNext, HandlerStep, WaitEnds

LEMMA OwnersStay ==
  ASSUME MInv, RunInjector, NEW k \in ConnKey, NEW h \in Handlers
  PROVE  Owned(k, h)' <=> Owned(k, h)
<1>1. SameOwners
  BY InjectorKeepsOwners DEF MInv, TInv, WireTypes
<1>. QED
  BY <1>1 DEF SameOwners, Owned

LEMMA OneFakedStep ==
  ASSUME MInv, MInv', [BNext]_allVars, NEW k \in ConnKey,
         NEW b \in SeqNums, Based(k, b), QueueOrder(k, b), OneFaked(k, b)
  PROVE  OneFaked(k, b)'
<1>1. ASSUME Tracked(k)', NEW h \in faked', KeyOf(h)' = k, ~Owned(k, h)'
      PROVE  \/ connections'[k].syn_seq = NotSeen
             \/ NextSeq(connections'[k].syn_seq) # b
  <2>1. h \in faked /\ h \in Handlers /\ KeyOf(h) = k
    BY <1>1, NewlyFaked, OwnersStay, FakedKeepKey
  <2>2. FakeFrom(k) # {}
    BY <2>1 DEF FakeFrom
  <2>3. CASE Tracked(k) /\ connections'[k].fake_data = connections[k].fake_data
             /\ connections'[k].syn_seq = connections[k].syn_seq
    BY <1>1, <2>1, <2>3 DEF OneFaked, Owned
  <2>4. CASE at # "recv" /\ Key(packet) = k /\ ~packet.inbound /\ packet.flags = Syn
             /\ connections'[k].syn_seq = packet.seq_num
    BY <2>2, <2>4 DEF QueueOrder, BaseSyn
  <2>. QED
    BY <1>1, <2>3, <2>4, SynSeqSteps
<1>2. ASSUME NEW g \in faked', NEW h \in faked', KeyOf(g)' = k, KeyOf(h)' = k,
             g \notin faked
      PROVE  g = h
  <2>1. /\ g \in Handlers /\ RunInjector /\ SendsFake /\ Key(packet) = k
        /\ Owned(k, g)
    BY <1>2, NewlyFaked
  <2>2. CASE h \in faked
    <3>1. h \in Handlers /\ KeyOf(h) = k
      BY <1>2, <2>2, FakedKeepKey
    <3>2. /\ Current = connections[k] /\ Tracked(k)
          /\ Current.syn_seq # NotSeen /\ NextSeq(Current.syn_seq) = b
      BY <2>1, FakeSent
    <3>3. Owned(k, h)
      BY <2>2, <3>1, <3>2 DEF OneFaked
    <3>. QED
      BY <2>1, <3>1, <3>3, OwnerFacts DEF MInv
  <2>3. CASE h \notin faked
    <3>1. h \in Handlers /\ Owned(k, h)
      BY <1>2, <2>1, <2>3, NewlyFaked
    <3>. QED
      BY <2>1, <3>1, OwnerFacts DEF MInv
  <2>. QED
    BY <2>2, <2>3
<1>3. ASSUME NEW g \in faked', NEW h \in faked', KeyOf(g)' = k, KeyOf(h)' = k
      PROVE  g = h
  <2>1. CASE g \in faked /\ h \in faked
    BY <1>3, <2>1, FakedKeepKey DEF OneFaked
  <2>. QED
    BY <1>2, <1>3, <2>1
<1>. QED
  BY <1>1, <1>3 DEF OneFaked

\* An ACK taken for the answer to a fake means that the server answered or
\* challenged a segment, and of this connection only the fake can have been it.
LEMMA ConfirmedStep ==
  ASSUME MInv, MInv', [BNext]_allVars, ConfirmedByServer,
         \A k \in ConnKey : \E b \in SeqNums : Based(k, b) /\ OneFaked(k, b)
  PROVE  ConfirmedByServer'
<1>1. \A h \in faked : h \in Handlers /\ KeyOf(h)' = KeyOf(h) /\ Grown(KeyOf(h))
  BY FakedKeepKey, Grows
<1>2. ASSUME NEW h \in acked
      PROVE  FakeOf(h) \in srv'[KeyOf(h)'].got \/ srv'[KeyOf(h)'].challenged
  BY <1>1 DEF ConfirmedByServer, MInv, History, Grown
<1>3. ASSUME NEW g \in Handlers, RunInjector, g \in faked, Owned(Key(packet), g),
             Key(packet) \in ConnKey, packet \in Packet,
             packet.inbound, packet.flags = Ack
      PROVE  FakeOf(g) \in srv'[KeyOf(g)'].got \/ srv'[KeyOf(g)'].challenged
  <2>1. KeyOf(g) = Key(packet) /\ packet \in Flying
    BY <1>3, OwnerFacts, NoConnAssumption DEF MInv, Flying
  <2>. DEFINE k == Key(packet)
  <2>2. PICK b \in SeqNums : Based(k, b) /\ OneFaked(k, b)
    BY <1>3
  <2>3. srv[k].challenged \/ srv[k].got # {}
    <3>1. PacketOk(packet, k, b)
      BY <2>1, <2>2 DEF Based
    <3>. QED
      BY <1>3, <3>1, FlagFacts DEF PacketOk
  <2>4. ASSUME NEW x \in srv[k].got PROVE x = FakeOf(g)
    <3>1. x \in RealFrom(k) \cup FakeFrom(k)
      BY <2>2 DEF Based, ServerAt
    <3>2. x \notin RealFrom(k)
      <4>1. \A h \in Handlers : KeyOf(h) = k => pc[h] # "relayed"
        BY <1>3 DEF MInv, Entries, Owned
      <4>. QED
        BY <4>1 DEF RealFrom
    <3>3. PICK h \in faked : KeyOf(h) = k /\ x = FakeOf(h)
      BY <3>1, <3>2 DEF FakeFrom
    <3>. QED
      BY <1>3, <2>1, <2>2, <3>3 DEF OneFaked
  <2>5. FakeOf(g) \in srv[k].got \/ srv[k].challenged
    BY <2>3, <2>4
  <2>. QED
    BY <1>1, <1>3, <2>1, <2>5 DEF Grown
<1>4. ASSUME NEW h \in acked' \ acked
      PROVE  FakeOf(h) \in srv'[KeyOf(h)'].got \/ srv'[KeyOf(h)'].challenged
  <2>1. RunInjector
    BY <1>4, WireSteps
  <2>. QED
    BY <1>3, <1>4, <2>1, InjectorRecords
<1>. QED
  BY <1>2, <1>4 DEF ConfirmedByServer

-----------------------------------------------------------------------------
(* The third invariant.                                                    *)

Settled(k, b) == Based(k, b) /\ (IsnsDiffer => QueueOrder(k, b) /\ OneFaked(k, b))

BaseInv ==
  /\ \A k \in ConnKey : \E b \in SeqNums : Settled(k, b)
  /\ IsnsDiffer => ConfirmedByServer

LEMMA InitBaseInv == BInit => BaseInv
<1>. SUFFICES ASSUME BInit PROVE BaseInv
  OBVIOUS
<1>1. 0 \in SeqNums
  BY SeqModAssumption DEF SeqNums
<1>2. Flying = {}
  BY DEF BInit, Init, Flying, Elems
<1>3. ASSUME NEW k \in ConnKey PROVE Settled(k, 0)
  <2>1. srv[k] = NoServer /\ FakeFrom(k) = {} /\ ~Tracked(k)
    BY NoneFaked DEF BInit, Init, FakeFrom, Tracked
  <2>2. /\ NoServer.state = "none" /\ NoServer.got = {} /\ NoServer.read = <<>>
        /\ ~NoServer.challenged
    BY DEF NoServer
  <2>3. ServerAt(k, 0)
    BY <2>1, <2>2 DEF ServerAt, Opened
  <2>4. Based(k, 0)
    BY <1>2, <2>1, <2>3 DEF Based, BInit
  <2>5. QueueOrder(k, 0) /\ OneFaked(k, 0)
    BY <2>1, NoneFaked DEF QueueOrder, OneFaked, BInit, Init
  <2>. QED
    BY <2>4, <2>5 DEF Settled
<1>4. ConfirmedByServer
  BY DEF BInit, ConfirmedByServer
<1>. QED
  BY <1>1, <1>3, <1>4 DEF BaseInv

LEMMA NextBaseInv == MInv /\ MInv' /\ BaseInv /\ [BNext]_allVars => BaseInv'
<1>. SUFFICES ASSUME MInv, MInv', BaseInv, [BNext]_allVars PROVE BaseInv'
  OBVIOUS
<1>1. ASSUME NEW k \in ConnKey PROVE \E b \in SeqNums : Settled(k, b)'
  <2>1. PICK a \in SeqNums : Settled(k, a)
    BY DEF BaseInv
  <2>2. PICK b \in SeqNums : Settled(k, b) /\ (~Opened(k) /\ Opened(k)'
                                                 => srv'[k].rcv_nxt = b)
    <3>1. CASE Opened(k)
      BY <2>1, <3>1
    <3>2. CASE ~Opened(k)
      <4>1. srv'[k].rcv_nxt \in SeqNums
        BY DEF MInv, TInv, WireTypes, Server
      <4>2. \A c : Settled(k, c)
        BY <2>1, <3>2, AnyBase, AnyOrder DEF Settled
      <4>. QED
        BY <4>1, <4>2
    <3>. QED
      BY <3>1, <3>2
  <2>3. Based(k, b)'
    BY <2>2, BasedStep DEF Settled
  <2>4. IsnsDiffer => QueueOrder(k, b)' /\ OneFaked(k, b)'
    BY <2>2, QueueOrderStep, OneFakedStep DEF Settled
  <2>. QED
    BY <2>3, <2>4 DEF Settled
<1>2. IsnsDiffer => ConfirmedByServer'
  BY ConfirmedStep DEF BaseInv, Settled
<1>. QED
  BY <1>1, <1>2 DEF BaseInv

LEMMA BaseInvariance == BSpec => []BaseInv
<1>1. MInv /\ MInv' /\ BaseInv /\ [BNext]_allVars => BaseInv'
  BY NextBaseInv
<1>. QED
  BY <1>1, InitBaseInv, MInvariance, PTL DEF BSpec

\* The server's application never reads a byte of a fake: no loss, delay,
\* reordering or duplication, in no sequence space, makes a fake acceptable.
THEOREM NeverReadsFake == BSpec => []FakeNeverRead
<1>1. MInv /\ BaseInv => FakeNeverRead
  <2>. SUFFICES ASSUME MInv, BaseInv, NEW k \in ConnKey, NEW i \in DOMAIN srv[k].read
                PROVE  \E h \in Handlers : srv[k].read[i] = RealOf(h) /\ KeyOf(h) = k
    BY DEF FakeNeverRead
  <2>1. srv[k].read[i] \in RealFrom(k)
    BY DEF BaseInv, Settled, Based, ServerAt
  <2>. QED
    BY <2>1 DEF RealFrom
<1>. QED
  BY <1>1, MInvariance, BaseInvariance, PTL

\* When no two sockets start at the same number, a confirmation is the server's
\* answer to that very fake, or to a SYN it challenged.
THEOREM ConfirmedByAnswer == IsnsDiffer => (BSpec => []ConfirmedByServer)
<1>. SUFFICES ASSUME IsnsDiffer PROVE BSpec => []ConfirmedByServer
  OBVIOUS
<1>1. BaseInv => ConfirmedByServer
  BY DEF BaseInv
<1>. QED
  BY <1>1, BaseInvariance, PTL
=============================================================================
