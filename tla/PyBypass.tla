------------------------------ MODULE PyBypass ------------------------------
(***************************************************************************)
(* The Python program: the handle coroutines of main.py on one event loop, *)
(* the injector thread and the fake-send threads of fake_tcp.py.           *)
(*                                                                         *)
(* Unlike the Rust port, the injector judges a packet in one critical      *)
(* section, a thread of its own sends the fake while the injector goes on, *)
(* the injector closes a handler's sockets itself, and a handler neither   *)
(* takes the connection's lock nor keeps its entry from being replaced.    *)
(*                                                                         *)
(* The traffic is arbitrary, as in Injector.tla.  The local TCP stack, the *)
(* ports and WinDivert are external.                                       *)
(***************************************************************************)
EXTENDS Tracking

CONSTANTS
  Handlers,   \* the handle coroutines, one per accepted client
  FakeData,   \* what ClientHelloMaker made
  NoPort,     \* a handler without a socket
  Traffic     \* the packets that may be captured

ASSUME PyBypassAssumption ==
  /\ FakeData \in Payloads /\ "wrong_seq" \in Methods
  /\ NoPort \notin LocalPorts
  /\ NoConn \notin Handlers
  /\ Traffic \subseteq Packet

VARIABLES
  conn,      \* each handler's FakeInjectiveConnection; permit is t2a_event
  table,     \* fake_injective_connections: whose object each port's entry is
  lock,      \* who holds each thread_lock
  thread,    \* each connection's fake_send_thread
  fakes,     \* history: how many fakes that thread has sent
  at,        \* where the injector thread is; "dead" after an exception
  packet,    \* the packet in its hands
  target,    \* the handler of the object it found for the packet
  pc,        \* where each handler is
  port,      \* the source port of its outgoing socket
  sock,      \* the state of that socket
  program    \* "running", or the reason why sys.exit ended it

injector == <<at, packet, target>>
handler  == <<pc, port>>
vars     == <<conn, table, lock, thread, fakes, injector, handler, sock, program>>

Init ==
  /\ conn = [h \in Handlers |-> NewConn(FakeData, "wrong_seq")]
  /\ table = [p \in LocalPorts |-> NoConn]
  /\ lock = [h \in Handlers |-> "free"]
  /\ thread = [h \in Handlers |-> "none"]
  /\ fakes = [h \in Handlers |-> 0]
  /\ at = "recv" /\ packet = NoPacket /\ target = NoConn
  /\ pc = [h \in Handlers |-> "idle"]
  /\ port = [h \in Handlers |-> NoPort]
  /\ sock = [h \in Handlers |-> "none"]
  /\ program = "running"

-----------------------------------------------------------------------------
(* handle, one action from one await to the next: the event loop runs no   *)
(* other coroutine in between, and the threads cannot tell the places      *)
(* there apart.                                                            *)

\* The stack keeps the port of a connection that was established.
AfterClose(s) == CASE s = "open" -> "closed" [] s = "established" -> "time_wait"
                   [] OTHER -> s

FreePort(p) == \A h \in Handlers : port[h] = p => sock[h] = "closed"

SysExit(why) ==
  /\ program' = why
  /\ UNCHANGED <<table, handler, sock>>

\* A client is accepted; its socket is bound and registered before connect.
Accept(h, p) ==
  /\ pc[h] = "idle" /\ FreePort(p)
  /\ port' = [port EXCEPT ![h] = p]
  /\ sock' = [sock EXCEPT ![h] = "open"]
  /\ table' = [table EXCEPT ![p] = h]
  /\ pc' = [pc EXCEPT ![h] = "connecting"]
  /\ UNCHANGED <<conn, lock, thread, fakes, injector, program>>

\* bind raises: only the outermost except clause catches it.
BindRaises(h) ==
  /\ pc[h] = "idle" /\ \A p \in LocalPorts : ~FreePort(p)
  /\ SysExit("bind")
  /\ UNCHANGED <<conn, lock, thread, fakes, injector>>

LeaveMutant(h, l) ==
  /\ conn' = [conn EXCEPT ![h].monitor = FALSE]
  /\ IF table[port[h]] = NoConn
       THEN SysExit("del")
       ELSE /\ UNCHANGED table
            /\ sock' = [sock EXCEPT ![h] = IF l = "relay" THEN @ ELSE AfterClose(@)]
            /\ pc' = [pc EXCEPT ![h] = l]
            /\ UNCHANGED <<port, program>>
  /\ UNCHANGED <<lock, thread, fakes, injector>>

\* monitor = False, without the lock; del, which raises a KeyError when the key
\* is gone and does not look at whose entry it deletes; and, unless the relay
\* follows, close.
Leave(h, l) ==
  /\ conn' = [conn EXCEPT ![h].monitor = FALSE]
  /\ IF table[port[h]] = NoConn
       THEN SysExit("del")
       ELSE /\ table' = [table EXCEPT ![port[h]] = NoConn]
            /\ sock' = [sock EXCEPT ![h] = IF l = "relay" THEN @ ELSE AfterClose(@)]
            /\ pc' = [pc EXCEPT ![h] = l]
            /\ UNCHANGED <<port, program>>
  /\ UNCHANGED <<lock, thread, fakes, injector>>

\* sock_connect returned, perhaps after the injector closed the socket.
Connected(h) ==
  /\ pc[h] = "connecting" /\ sock[h] \in {"established", "time_wait"}
  /\ pc' = [pc EXCEPT ![h] = "waiting"]
  /\ UNCHANGED <<conn, table, lock, thread, fakes, injector, port, sock, program>>

\* sock_connect raised: the stack gave up or the socket was closed.
ConnectFailed(h) ==
  /\ pc[h] = "connecting" /\ sock[h] # "established"
  /\ Leave(h, "closed")

\* t2a_event is set and the message decides; there must be one.
WokenUp(h) ==
  /\ pc[h] = "waiting" /\ conn[h].permit
  /\ \/ conn[h].t2a_msg = "unexpected_close" /\ Leave(h, "closed")
     \/ conn[h].t2a_msg = "fake_data_ack_recv" /\ Leave(h, "relay")
     \/ /\ conn[h].t2a_msg = "" /\ SysExit("impossible t2a msg")
        /\ UNCHANGED <<conn, lock, thread, fakes, injector>>

TimedOutMutant(h) == pc[h] = "waiting" /\ conn[h].permit /\ Leave(h, "closed")

\* wait_for raises after two seconds, even if the event is set by then.
TimedOut(h) == pc[h] = "waiting" /\ Leave(h, "closed")

ConnectEnds(h) == Connected(h) \/ ConnectFailed(h)
WaitEnds(h) == WokenUp(h) \/ TimedOut(h)

-----------------------------------------------------------------------------
(* The injector thread.                                                    *)

\* A captured packet and the object its key has by now.  One without an entry
\* is sent on, which nothing here depends on.
Recv(p) ==
  /\ at = "recv" /\ table[p.local] # NoConn
  /\ at' = "found" /\ packet' = p /\ target' = table[p.local]
  /\ UNCHANGED <<conn, table, lock, thread, fakes, handler, sock, program>>

Idle(where) == at' = where /\ packet' = NoPacket /\ target' = NoConn

EnterMutant ==
  /\ at = "found" /\ lock[target] = "free"
  /\ at' = "handle" /\ lock' = [lock EXCEPT ![target] = "injector"]
  /\ UNCHANGED <<conn, table, thread, fakes, packet, target, handler, sock, program>>

\* with connection.thread_lock: what is no longer monitored is sent on.
Enter ==
  /\ at = "found" /\ lock[target] = "free"
  /\ IF conn[target].monitor
       THEN /\ at' = "handle" /\ lock' = [lock EXCEPT ![target] = "injector"]
            /\ UNCHANGED <<packet, target>>
       ELSE Idle("recv") /\ UNCHANGED lock
  /\ UNCHANGED <<conn, table, thread, fakes, handler, sock, program>>

\* The packet is sent and the lock released.
Done ==
  /\ Idle("recv")
  /\ lock' = [lock EXCEPT ![target] = "free"]

Handling(inbound, flags) ==
  /\ at = "handle"
  /\ packet.inbound = inbound /\ packet.flags = flags
  /\ Expected(conn[target], packet)

OutboundSynMutant ==
  /\ Handling(FALSE, Syn)
  /\ conn' = [conn EXCEPT ![target].syn_seq = packet.seq_num + 1]
  /\ Done
  /\ UNCHANGED <<table, thread, fakes, handler, sock, program>>

OutboundSyn ==
  /\ Handling(FALSE, Syn)
  /\ conn' = [conn EXCEPT ![target].syn_seq = packet.seq_num]
  /\ Done
  /\ UNCHANGED <<table, thread, fakes, handler, sock, program>>

\* The real ACK is sent; a new thread will send the fake.
OutboundAck ==
  /\ Handling(FALSE, Ack)
  /\ conn' = [conn EXCEPT ![target].sch_fake_sent = TRUE]
  /\ thread' = [thread EXCEPT ![target] = "sleeping"]
  /\ Done
  /\ UNCHANGED <<table, fakes, handler, sock, program>>

InboundSynAck ==
  /\ Handling(TRUE, SynAck)
  /\ conn' = [conn EXCEPT ![target].syn_ack_seq = packet.seq_num]
  /\ Done
  /\ UNCHANGED <<table, thread, fakes, handler, sock, program>>

DecideMutant(msg) ==
  /\ conn' = [conn EXCEPT ![target].monitor = FALSE, ![target].permit = TRUE]
  /\ at' = "notify"
  /\ UNCHANGED <<table, lock, thread, fakes, packet, target, handler, program>>

Decide(msg) ==
  /\ conn' = [conn EXCEPT ![target].monitor = FALSE, ![target].t2a_msg = msg]
  /\ at' = "notify"
  /\ UNCHANGED <<table, lock, thread, fakes, packet, target, handler, program>>

InboundFakeAck ==
  /\ Handling(TRUE, Ack)
  /\ Decide("fake_data_ack_recv") /\ UNCHANGED sock

\* on_unexpected_packet closes the sockets at once, from this thread.
Unexpected ==
  /\ at = "handle" /\ ~Expected(conn[target], packet)
  /\ sock' = [sock EXCEPT ![target] = AfterClose(@)]
  /\ Decide("unexpected_close")

\* call_soon_threadsafe(t2a_event.set)
Notify ==
  /\ at = "notify"
  /\ conn' = [conn EXCEPT ![target].permit = TRUE]
  /\ Done
  /\ UNCHANGED <<table, thread, fakes, handler, sock, program>>

\* recv or send raises, which nothing catches: the thread ends, the lock is
\* released, and nobody is told.
InjectorDies ==
  /\ at \in {"recv", "handle"}
  /\ Idle("dead")
  /\ lock' = [h \in Handlers |-> IF lock[h] = "injector" THEN "free" ELSE lock[h]]
  /\ UNCHANGED <<conn, table, thread, fakes, handler, sock, program>>

InjectorStep ==
  \/ Enter \/ OutboundSyn \/ OutboundAck \/ InboundSynAck
  \/ InboundFakeAck \/ Unexpected \/ Notify

-----------------------------------------------------------------------------
(* fake_send_thread.                                                       *)

FakeWakesMutant(h) ==
  /\ thread[h] = "sleeping"
  /\ IF conn[h].monitor
       THEN /\ thread' = [thread EXCEPT ![h] = "sending"]
            /\ lock' = [lock EXCEPT ![h] = "fake"]
       ELSE thread' = [thread EXCEPT ![h] = "done"] /\ UNCHANGED lock
  /\ UNCHANGED <<conn, table, fakes, injector, handler, sock, program>>

\* After the millisecond it takes the lock and looks at monitor.
FakeWakes(h) ==
  /\ thread[h] = "sleeping" /\ lock[h] = "free"
  /\ IF conn[h].monitor
       THEN /\ thread' = [thread EXCEPT ![h] = "sending"]
            /\ lock' = [lock EXCEPT ![h] = "fake"]
       ELSE thread' = [thread EXCEPT ![h] = "done"] /\ UNCHANGED lock
  /\ UNCHANGED <<conn, table, fakes, injector, handler, sock, program>>

FakeSends(h) ==
  /\ thread[h] = "sending"
  /\ conn' = [conn EXCEPT ![h].fake_sent = TRUE]
  /\ fakes' = [fakes EXCEPT ![h] = @ + 1]
  /\ thread' = [thread EXCEPT ![h] = "sent"]
  /\ UNCHANGED <<table, lock, injector, handler, sock, program>>

FakeReleasesMutant(h) ==
  /\ thread[h] = "sent"
  /\ thread' = [thread EXCEPT ![h] = "done"]
  /\ UNCHANGED <<conn, table, fakes, lock, injector, handler, sock, program>>

FakeReleases(h) ==
  /\ thread[h] = "sent"
  /\ thread' = [thread EXCEPT ![h] = "done"]
  /\ lock' = [lock EXCEPT ![h] = "free"]
  /\ UNCHANGED <<conn, table, fakes, injector, handler, sock, program>>

FakeStep(h) == FakeWakes(h) \/ FakeSends(h) \/ FakeReleases(h)

-----------------------------------------------------------------------------

\* External.  The three-way handshake is complete for the local stack.
Established(h) ==
  /\ pc[h] = "connecting" /\ sock[h] = "open"
  /\ sock' = [sock EXCEPT ![h] = "established"]
  /\ UNCHANGED <<conn, table, lock, thread, fakes, injector, handler, program>>

\* External.  A reset, or time, ends the wait of a closed socket.
Released(h) ==
  /\ sock[h] = "time_wait"
  /\ sock' = [sock EXCEPT ![h] = "closed"]
  /\ UNCHANGED <<conn, table, lock, thread, fakes, injector, handler, program>>

HandlerStep(h) ==
  \/ \E p \in LocalPorts : Accept(h, p)
  \/ BindRaises(h) \/ ConnectEnds(h) \/ WaitEnds(h)

Next ==
  /\ program = "running"
  /\ \/ \E h \in Handlers : HandlerStep(h) \/ FakeStep(h)
     \/ \E h \in Handlers : Established(h) \/ Released(h)
     \/ \E p \in Traffic : Recv(p)
     \/ InjectorStep \/ InjectorDies

Spec == Init /\ [][Next]_vars

\* The event loop runs what is ready, its timers fire, the stack ends every
\* connect, and a thread that is not waiting for a lock runs.
Fairness ==
  /\ \A h \in Handlers :
       /\ WF_vars(program = "running" /\ ConnectEnds(h))
       /\ WF_vars(program = "running" /\ WaitEnds(h))
       /\ WF_vars(program = "running" /\ FakeStep(h))
  /\ WF_vars(program = "running" /\ InjectorStep)

FairSpec == Spec /\ Fairness

-----------------------------------------------------------------------------
(* Properties.                                                             *)

\* Objects, locks, threads and handlers stay in their types.
TypeOK ==
  /\ conn \in [Handlers -> Conn]
  /\ table \in [LocalPorts -> Handlers \cup {NoConn}]
  /\ lock \in [Handlers -> {"free", "injector", "fake"}]
  /\ thread \in [Handlers -> {"none", "sleeping", "sending", "sent", "done"}]
  /\ fakes \in [Handlers -> Nat]
  /\ at \in {"recv", "found", "handle", "notify", "dead"}
  /\ packet \in Packet \cup {NoPacket}
  /\ target \in Handlers \cup {NoConn}
  /\ pc \in [Handlers -> {"idle", "connecting", "waiting", "relay", "closed"}]
  /\ port \in [Handlers -> LocalPorts \cup {NoPort}]
  /\ sock \in [Handlers -> {"none", "open", "established", "closed", "time_wait"}]
  /\ program \in {"running", "bind", "del", "impossible t2a msg"}

\* The thread of a connection and the injector are never in its critical section
\* together, and an outcome is written by whoever is in it: while the injector
\* judges a packet, and while a fake is about to be sent, there is none yet.
JudgedOnce ==
  \A h \in Handlers :
    /\ thread[h] \in {"sending", "sent"} => lock[h] = "fake"
    /\ target = h /\ at \in {"handle", "notify"} => lock[h] = "injector"
    /\ target = h /\ at = "handle" => conn[h].t2a_msg = ""
    /\ thread[h] = "sending" => conn[h].t2a_msg = ""

\* A handler that is done leaves no entry of its own, although it deletes by key
\* and another handler may have replaced or deleted the entry before.
NoEntryLeft ==
  \A h \in Handlers, p \in LocalPorts :
    table[p] = h => port[h] = p /\ pc[h] \in {"connecting", "waiting"}

\* main.py: "impossible t2a msg!".  A woken handler finds a message.
MessageIsThere == program # "impossible t2a msg"

\* The outcome of a connection is decided once, although handler, injector and
\* fake thread clear and read monitor in any order, the handler without lock.
OutcomeIsFinal ==
  [][\A h \in Handlers : conn[h].t2a_msg # "" =>
       conn'[h].t2a_msg = conn[h].t2a_msg]_vars

\* main.py: "handle should not raise exception".  A handler's entry is still
\* there when it deletes it.
DelFindsEntry == program # "del"

\* Some thread looked at monitor in time and is still in the critical section.
Late(h) ==
  \/ thread[h] \in {"sending", "sent"}
  \/ target = h /\ at \in {"handle", "notify"}

\* To the gate a client is refused once its handler is done and no thread that
\* saw it monitored is still at work on it.
PhaseOf(h) ==
  CASE pc[h] = "idle" -> "idle"
    [] pc[h] \in {"connecting", "waiting"} -> "dialing"
    [] pc[h] = "relay" -> "open"
    [] pc[h] = "closed" -> IF Late(h) THEN "dialing" ELSE "closed"

Acked == {h \in Handlers : conn[h].t2a_msg = "fake_data_ack_recv"}

Gate == INSTANCE Gate WITH Clients <- Handlers, acked <- Acked,
                           phase <- [h \in Handlers |-> PhaseOf(h)]

\* The Python program keeps the promise its port keeps: nobody is let through
\* unconfirmed, nobody's fake is sent a second time, and none is sent for a client
\* that was refused.
ImplementsGate == Gate!Spec

\* Every accepted client is served or refused, even without an injector, unless
\* the program ends.
EveryClientDecided ==
  \A h \in Handlers : pc[h] = "connecting" ~>
    pc[h] \in {"relay", "closed"} \/ program # "running"

\* A packet that was captured leaves again: no handler and no fake thread keeps
\* the lock from the injector for ever.
PacketsMove ==
  at = "found" ~> at \in {"recv", "dead"} \/ program # "running"

=============================================================================
