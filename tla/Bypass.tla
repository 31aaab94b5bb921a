------------------------------- MODULE Bypass -------------------------------
(***************************************************************************)
(* The whole bypass: the connection handlers of src/src/main.rs, the       *)
(* injector thread they share the map with, and what both talk to.         *)
(*                                                                         *)
(*   browser -> handler -> local TCP -> queue -> injector -> toPeer        *)
(*                 ^          ^                   |   ^         |          *)
(*                 |          +------ inbox <-----+   |      server        *)
(*                 |                              |   |         |          *)
(*                 +---------- connections <------+   +---- toHost         *)
(*                                                                         *)
(* The handlers and the injector are the program.  The local TCP stack,    *)
(* WinDivert's queue, the network and the server are external: they do     *)
(* what the injector's comments and branches rely on, no more.  The        *)
(* network delays, reorders, duplicates and loses: what it never delivers  *)
(* is lost.                                                                *)
(***************************************************************************)
EXTENDS Injector, FiniteSets

CONSTANTS
  Handlers,       \* the handle_connection tasks, one per accepted client
  BypassMethod,   \* the selected node's bypass_method
  NoPort,         \* a handler that has not bound its socket
  Isn,            \* the initial sequence number of each handler's socket
  ServerIsn,      \* the server's initial sequence number
  MaxExtra        \* bound: retransmissions and duplicates, all together

ASSUME BypassAssumption ==
  /\ Payloads = {"fake", "real"} \X Handlers
  /\ BypassMethod \in Methods
  /\ Isn \in [Handlers -> SeqNums]
  /\ ServerIsn \in SeqNums
  /\ NoPort \notin LocalPorts
  /\ RemotePorts = {443}

\* The fake and the number after it do not go round the sequence space.
ASSUME FakeFitsAssumption == FakeLen + 1 < SeqMod

FakeOf(h) == <<"fake", h>>   \* its build_client_hello, random and so unique
RealOf(h) == <<"real", h>>   \* what its browser sends first

VARIABLES
  pc,        \* where each handler is
  port,      \* the source port of its outgoing socket
  sock,      \* the state of that socket in the local TCP stack
  queue,     \* the packets WinDivert has captured, oldest first
  inbox,     \* re-injected packets on their way up to the local stack
  toPeer,    \* packets on the network, towards the server
  toHost,    \* packets on the network, towards this host
  srv,       \* the server's end of every connection
  extra,     \* how many packets were sent or delivered once more
  fakes,     \* history: how often each handler's fake was put on the wire
  acked      \* history: handlers whose connection was confirmed

handlerVars == <<pc, port>>
hostVars    == <<sock, queue, inbox>>
netVars     == <<toPeer, toHost, srv, extra>>
history     == <<fakes, acked>>
allVars     == <<vars, handlerVars, hostVars, netVars, history>>

KeyOf(h) == <<port[h], 443>>

\* The server's end of a connection: the segments it found old and the payloads
\* its application read.
Server == [state : {"none", "syn_rcvd", "established"}, rcv_nxt : SeqNums,
           got : SUBSET Payloads, read : Seq(Payloads), challenged : BOOLEAN]

NoServer == [state |-> "none", rcv_nxt |-> 0, got |-> {},
             read |-> <<>>, challenged |-> FALSE]

BInit ==
  /\ Init
  /\ pc = [h \in Handlers |-> "idle"]
  /\ port = [h \in Handlers |-> NoPort]
  /\ sock = [h \in Handlers |-> "none"]
  /\ queue = <<>> /\ inbox = <<>>
  /\ toPeer = {} /\ toHost = {}
  /\ srv = [k \in ConnKey |-> NoServer]
  /\ extra = 0
  /\ fakes = [h \in Handlers |-> 0] /\ acked = {}

-----------------------------------------------------------------------------
(* handle_connection, one action between two places where another thread   *)
(* can be noticed.                                                         *)

Goto(h, l) == pc' = [pc EXCEPT ![h] = l]

WaitedForMutant(k) == FALSE

\* A handler that waits for the outcome owns a Ref to its entry, across the
\* await: insert and remove of that entry block until it is dropped.
WaitedFor(k) == \E h \in Handlers : pc[h] = "waiting" /\ KeyOf(h) = k

\* A port is free when no socket has it; a connection that was established
\* leaves its port in TIME_WAIT.
FreePort(p) == \A h \in Handlers : port[h] = p => sock[h] = "none"

\* A client is accepted and the outgoing socket bound to port p.
Bind(h, p) ==
  /\ pc[h] = "idle" /\ FreePort(p)
  /\ port' = [port EXCEPT ![h] = p]
  /\ sock' = [sock EXCEPT ![h] = "bound"]
  /\ Goto(h, "bound")
  /\ UNCHANGED <<vars, queue, inbox, netVars, history>>

\* No port is left: handle_connection returns the error.
BindFailed(h) ==
  /\ pc[h] = "idle" /\ \A p \in LocalPorts : ~FreePort(p)
  /\ Goto(h, "closed")
  /\ UNCHANGED <<vars, port, hostVars, netVars, history>>

\* The connection is registered before connect.
Register(h) ==
  /\ pc[h] = "bound"
  /\ ~WaitedFor(KeyOf(h))
  /\ InsertConn(KeyOf(h), FakeOf(h), BypassMethod)
  /\ Goto(h, "registered")
  /\ UNCHANGED <<port, hostVars, netVars, history>>

Segment(h, flags, seq, ackNum, payload) ==
  [inbound |-> FALSE, local |-> port[h], remote |-> 443, flags |-> flags,
   seq_num |-> seq, ack_num |-> ackNum, payload |-> payload]

SynOf(h) == Segment(h, Syn, Isn[h], 0, Empty)
AckOf(h) == Segment(h, Ack, NextSeq(Isn[h]), NextSeq(ServerIsn), Empty)

Connect(h) ==
  /\ pc[h] = "registered"
  /\ sock' = [sock EXCEPT ![h] = "syn_sent"]
  /\ queue' = Append(queue, SynOf(h))
  /\ Goto(h, "connecting")
  /\ UNCHANGED <<vars, port, inbox, netVars, history>>

\* connect returned a stream; only "wrong_seq" waits for the injector.
Connected(h) ==
  /\ pc[h] = "connecting" /\ sock[h] = "established"
  /\ Goto(h, IF BypassMethod = "wrong_seq" THEN "lookup" ELSE "finish")
  /\ UNCHANGED <<vars, port, hostVars, netVars, history>>

\* connect failed or its ten seconds passed: the future, and the socket in it,
\* are dropped before the match arm removes the entry.
ConnectFailed(h) ==
  /\ pc[h] = "connecting"
  /\ sock' = [sock EXCEPT ![h] = "none"]
  /\ Goto(h, "abort")
  /\ UNCHANGED <<vars, port, queue, inbox, netVars, history>>

LookupMutant(h) ==
  /\ pc[h] = "lookup"
  /\ Goto(h, IF Tracked(KeyOf(h)) THEN "waiting" ELSE "finish")
  /\ UNCHANGED <<vars, port, hostVars, netVars, history>>

\* connections.get: without an entry the client is refused.
Lookup(h) ==
  /\ pc[h] = "lookup"
  /\ Goto(h, IF Tracked(KeyOf(h)) THEN "waiting" ELSE "abort")
  /\ UNCHANGED <<vars, port, hostVars, netVars, history>>

\* notified() completed: the message decides.  The Ref goes with the block.
WokenUp(h) ==
  /\ pc[h] = "waiting"
  /\ TakePermit(KeyOf(h))
  /\ Goto(h, IF connections[KeyOf(h)].t2a_msg = "fake_data_ack_recv"
               THEN "finish" ELSE "abort")
  /\ UNCHANGED <<port, hostVars, netVars, history>>

WaitTimeoutMutant(h) ==
  /\ pc[h] = "waiting" /\ connections[KeyOf(h)].permit
  /\ Goto(h, "abort")
  /\ UNCHANGED <<vars, port, hostVars, netVars, history>>

\* The five seconds passed, perhaps while a permit was already there: select!
\* takes either.
WaitTimeout(h) ==
  /\ pc[h] = "waiting"
  /\ Goto(h, "abort")
  /\ UNCHANGED <<vars, port, hostVars, netVars, history>>

AbortMutant(h) ==
  /\ pc[h] = "abort"
  /\ sock' = [sock EXCEPT ![h] = IF @ = "established" THEN "time_wait" ELSE @]
  /\ Goto(h, "closed")
  /\ UNCHANGED <<vars, port, queue, inbox, netVars, history>>

\* Remove the entry and return: both streams are dropped.
Abort(h) ==
  /\ pc[h] = "abort"
  /\ ~WaitedFor(KeyOf(h))
  /\ RemoveConn(KeyOf(h))
  /\ sock' = [sock EXCEPT ![h] = IF @ = "established" THEN "time_wait" ELSE @]
  /\ Goto(h, "closed")
  /\ UNCHANGED <<port, queue, inbox, netVars, history>>

\* Remove the entry and relay.
Finish(h) ==
  /\ pc[h] = "finish"
  /\ ~WaitedFor(KeyOf(h))
  /\ RemoveConn(KeyOf(h))
  /\ Goto(h, "relay")
  /\ UNCHANGED <<port, hostVars, netVars, history>>

\* The relay forwards the browser's first bytes.
RelayFirst(h) ==
  /\ pc[h] = "relay"
  /\ queue' = Append(queue, [AckOf(h) EXCEPT !.payload = RealOf(h)])
  /\ Goto(h, "relayed")
  /\ UNCHANGED <<vars, port, sock, inbox, netVars, history>>

\* What the handler does without waiting for anyone but the map's lock.
HandlerStep(h) ==
  \/ Register(h) \/ Connect(h) \/ Connected(h) \/ Lookup(h)
  \/ Abort(h) \/ Finish(h)

WaitEnds(h) == WokenUp(h) \/ WaitTimeout(h)

-----------------------------------------------------------------------------
(* The injector thread: the actions of Injector.tla, with the queue as the *)
(* source of its packets and the network and local stack as their sink.    *)

\* What this step gave wd.send: one packet at most.
JustSent ==
  LET before == IF at = "recv" THEN {} ELSE DOMAIN sent
  IN  {sent'[i] : i \in DOMAIN sent' \ before}

\* A packet sent goes up to the local stack or out to the server.
Delivers(p) ==
  IF p.inbound THEN inbox' = Append(inbox, p) /\ UNCHANGED toPeer
               ELSE toPeer' = toPeer \cup {p} /\ UNCHANGED inbox

RunInjector ==
  /\ \/ Step /\ UNCHANGED queue
     \/ queue # <<>> /\ Recv(Head(queue)) /\ queue' = Tail(queue)
  /\ \/ JustSent = {} /\ UNCHANGED <<inbox, toPeer>>
     \/ \E p \in JustSent : Delivers(p)
  /\ fakes' = [h \in Handlers |-> fakes[h] +
                IF \E p \in JustSent : p.payload = FakeOf(h) THEN 1 ELSE 0]
  /\ acked' = acked \cup {h \in Handlers : \E k \in ConnKey :
                            /\ connections'[k] # NoConn
                            /\ connections'[k].fake_data = FakeOf(h)
                            /\ connections'[k].t2a_msg = "fake_data_ack_recv"}
  /\ UNCHANGED <<handlerVars, sock, toHost, srv, extra>>

-----------------------------------------------------------------------------
(* External: the local TCP stack.                                          *)

OnceMore == extra < MaxExtra /\ extra' = extra + 1

\* The stack retransmits a SYN nobody has answered.
RetransmitSyn(h) ==
  /\ sock[h] = "syn_sent"
  /\ OnceMore
  /\ queue' = Append(queue, SynOf(h))
  /\ UNCHANGED <<vars, handlerVars, sock, inbox, toPeer, toHost, srv, history>>

\* A segment comes up.  A SYN-ACK for the SYN establishes the connection; a
\* repeated one is acknowledged again; everything else changes nothing here.
LocalTcp ==
  /\ inbox # <<>>
  /\ inbox' = Tail(inbox)
  /\ LET p == Head(inbox)
         for == {h \in Handlers : /\ port[h] = p.local
                                  /\ sock[h] \in {"syn_sent", "established"}
                                  /\ p.flags = SynAck
                                  /\ p.ack_num = NextSeq(Isn[h])} IN
     IF for = {} THEN UNCHANGED <<sock, queue>>
     ELSE \E h \in for :
            /\ sock' = [sock EXCEPT ![h] = "established"]
            /\ queue' = Append(queue, AckOf(h))
  /\ UNCHANGED <<vars, handlerVars, netVars, history>>

-----------------------------------------------------------------------------
(* External: the network and the server.                                   *)

\* A packet of net is delivered, and may be delivered once more.
Delivered(net, p) ==
  /\ p \in net
  /\ \/ net' = net \ {p} /\ UNCHANGED extra
     \/ OnceMore /\ UNCHANGED net

\* WinDivert captures an arriving packet.
Capture ==
  /\ \E p \in toHost : Delivered(toHost, p) /\ queue' = Append(queue, p)
  /\ UNCHANGED <<vars, handlerVars, sock, inbox, toPeer, srv, history>>

Reply(k, flags, seq, ackNum) ==
  [inbound |-> TRUE, local |-> k[1], remote |-> k[2], flags |-> flags,
   seq_num |-> seq, ack_num |-> ackNum, payload |-> Empty]

SynAckTo(k, rcv_nxt) == Reply(k, SynAck, ServerIsn, rcv_nxt)
AckTo(k, rcv_nxt)    == Reply(k, Ack, NextSeq(ServerIsn), rcv_nxt)

Length(p) ==
  CASE p.payload = Empty            -> 0
    [] p.payload \in {FakeOf(h) : h \in Handlers} -> FakeLen
    [] OTHER                        -> 1

\* a is at or before b, in the half-space sense of sequence comparison.
NotAfter(a, b) == WrappingSub(b, a) <= SeqMod \div 2

\* Segment p holds a byte the server has not read and is contiguous with those
\* it has.
HasNewBytes(p, rcv_nxt) ==
  LET end == WrappingAdd(p.seq_num, Length(p)) IN
  /\ NotAfter(p.seq_num, rcv_nxt)
  /\ NotAfter(rcv_nxt, end) /\ end # rcv_nxt

\* The server's stack receives p: its end of the connection becomes t and it
\* answers with the packets of reply.
Receives(p, t, reply) ==
  /\ Delivered(toPeer, p)
  /\ toHost' = toHost \cup reply
  /\ srv' = [srv EXCEPT ![Key(p)] = t]
  /\ UNCHANGED <<vars, handlerVars, hostVars, history>>

ServerSyn(p) ==
  /\ p.flags = Syn
  /\ LET s == srv[Key(p)] IN
     \/ /\ s.state = "none"
        /\ LET t == [s EXCEPT !.state = "syn_rcvd", !.rcv_nxt = NextSeq(p.seq_num)] IN
           Receives(p, t, {SynAckTo(Key(p), t.rcv_nxt)})
     \/ /\ s.state = "syn_rcvd" /\ s.rcv_nxt = NextSeq(p.seq_num)
        /\ Receives(p, s, {SynAckTo(Key(p), s.rcv_nxt)})
     \/ \* RFC 5961: on a synchronized connection, a challenge ACK.
        /\ \/ s.state = "established"
           \/ s.state = "syn_rcvd" /\ s.rcv_nxt # NextSeq(p.seq_num)
        /\ Receives(p, [s EXCEPT !.challenged = TRUE],
                    {AckTo(Key(p), s.rcv_nxt)})

ServerAck(p) ==
  /\ p.flags = Ack
  /\ LET s == srv[Key(p)] IN
     /\ s.state # "none"
     /\ \/ \* Acceptable; the first such segment completes the handshake.
           /\ p.seq_num = s.rcv_nxt \/ HasNewBytes(p, s.rcv_nxt)
           /\ p.ack_num = NextSeq(ServerIsn)
           /\ Receives(p, [s EXCEPT
                !.state = "established",
                !.rcv_nxt = WrappingAdd(p.seq_num, Length(p)),
                !.read = IF NoPayload(p) THEN @ ELSE Append(@, p.payload)], {})
        \/ \* Only old bytes: a duplicate ACK and nothing else.
           /\ ~NoPayload(p)
           /\ p.seq_num # s.rcv_nxt /\ ~HasNewBytes(p, s.rcv_nxt)
           /\ Receives(p, [s EXCEPT !.got = @ \cup {p.payload}],
                       {AckTo(Key(p), s.rcv_nxt)})

\* Its SYN-ACK is retransmitted until something answers it.
RetransmitSynAck(k) ==
  /\ srv[k].state = "syn_rcvd"
  /\ OnceMore
  /\ toHost' = toHost \cup {SynAckTo(k, srv[k].rcv_nxt)}
  /\ UNCHANGED <<vars, handlerVars, hostVars, toPeer, srv, history>>

Network ==
  \/ Capture
  \/ \E p \in toPeer : ServerSyn(p) \/ ServerAck(p)
  \/ \E k \in ConnKey : RetransmitSynAck(k)

-----------------------------------------------------------------------------

\* Every client was served and nothing is captured: the program waits for the
\* next one, and what is still on the network may be lost.
Quiet ==
  /\ \A h \in Handlers : pc[h] \in {"relayed", "closed"}
  /\ at = "recv" /\ queue = <<>> /\ inbox = <<>>
  /\ UNCHANGED allVars

BNext ==
  \/ \E h \in Handlers :
       \/ \E p \in LocalPorts : Bind(h, p)
       \/ BindFailed(h)
       \/ HandlerStep(h) \/ WaitEnds(h) \/ ConnectFailed(h) \/ RelayFirst(h)
       \/ RetransmitSyn(h)
  \/ RunInjector
  \/ LocalTcp
  \/ Network
  \/ Quiet

BSpec == BInit /\ [][BNext]_allVars

\* The runtime polls every task that is ready, its timers fire, the injector
\* thread runs whenever there is a packet or one in its hands.  Nothing is
\* assumed of browsers, of the network or of the server.
Fairness ==
  /\ \A h \in Handlers : /\ WF_allVars(HandlerStep(h))
                         /\ WF_allVars(WaitEnds(h))
                         /\ WF_allVars(ConnectFailed(h))
  /\ WF_allVars(RunInjector)

FairBSpec == BSpec /\ Fairness

-----------------------------------------------------------------------------
(* Properties.                                                             *)

Owned(k, h) == Tracked(k) /\ connections[k].fake_data = FakeOf(h)

\* Handlers, sockets and the server stay in their types with the rest.
BTypeOK ==
  /\ TypeOK
  /\ pc \in [Handlers -> {"idle", "bound", "registered", "connecting",
                          "lookup", "waiting", "finish", "abort", "relay",
                          "relayed", "closed"}]
  /\ port \in [Handlers -> LocalPorts \cup {NoPort}]
  /\ sock \in [Handlers -> {"none", "bound", "syn_sent", "established",
                            "time_wait"}]
  /\ srv \in [ConnKey -> Server]
  /\ queue \in Seq(Packet) /\ inbox \in Seq(Packet)
  /\ toPeer \subseteq Packet /\ toHost \subseteq Packet
  /\ fakes \in [Handlers -> Nat] /\ acked \subseteq Handlers

\* The application behind the server never reads a byte of a fake ClientHello,
\* however fakes, ACKs and data are lost, delayed and reordered, and what it
\* reads of one connection comes from one client.
FakeNeverRead ==
  \A k \in ConnKey : \A i \in DOMAIN srv[k].read :
    \E h \in Handlers : srv[k].read[i] = RealOf(h) /\ KeyOf(h) = k

\* A handler that waits, waits on the entry it registered itself, although
\* another handler of the same port may replace or remove entries by key.
WaitsOnOwnEntry ==
  \A h \in Handlers : pc[h] = "waiting" => Owned(KeyOf(h), h)

\* A handler that is done leaves no entry behind, on any of its ways out: a
\* leaked one would intercept the next connection on the port.
NoEntryLeft ==
  \A h \in Handlers, k \in ConnKey :
    Owned(k, h) => pc[h] \notin {"idle", "bound", "relay", "relayed", "closed"}

\* A confirmation means that the server answered the fake or challenged a SYN:
\* no segment of the handshake itself is taken for the answer.
ConfirmedByServer ==
  \A h \in acked :
    LET s == srv[KeyOf(h)] IN FakeOf(h) \in s.got \/ s.challenged

\* The handler's doc comment: from the moment connect starts until it returns,
\* the connection is in the map, so that the injector sees all its packets.
RegisteredBeforeHandshake ==
  \A h \in Handlers : pc[h] = "connecting" => Owned(KeyOf(h), h)

PhaseOf(l) ==
  CASE l = "idle" -> "idle"
    [] l \in {"relay", "relayed"} -> "open"
    [] l = "closed" -> "closed"
    [] OTHER -> "dialing"

Gate == INSTANCE Gate WITH Clients <- Handlers,
                           phase <- [h \in Handlers |-> PhaseOf(pc[h])]

\* The handlers, the injector and the map between them implement the gate: no
\* interleaving lets a client through unconfirmed, sends a fake for one that
\* was already refused, or puts a client's fake on the wire a second time.
ImplementsGate == Gate!Spec

\* Every accepted client is served or refused: no loss, no missing answer and
\* no other handler keeps one waiting for ever.
EveryClientDecided ==
  \A h \in Handlers : pc[h] = "bound" ~> pc[h] \in {"relay", "relayed", "closed"}

=============================================================================
