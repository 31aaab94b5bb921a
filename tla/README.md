# Mamad VPN in TLA+

Mamad VPN gets a TLS connection past a firewall that reads host names. For every
client it opens a TCP connection to the target, lets the handshake complete, and
then sends, on the same connection, a ClientHello with a whitelisted name and a
sequence number that lies *behind* the first byte the server expects. The firewall
reads the name; the server sees old bytes, drops them and answers with a duplicate
ACK. When that ACK has been seen, the client's own bytes are relayed.

This directory holds the specifications of the Rust program (`src/src/`) and of the
Python program it was ported from (`src/*.py`), the model checking of small instances
with TLC, and the proofs checked by TLAPS. Paths and line numbers below are relative to
the repository; `src/main.rs` stands for `src/src/main.rs` and so on.

## 1. The system

| component | source | state | operations |
|---|---|---|---|
| packet injector | `src/injector.rs` 231-292, 317-607 | one OS thread with a receive buffer; the `DashMap` of `FakeInjectiveConnection` | receive, look up, `handle_outbound`, `handle_inbound`, `on_unexpected_locked`, `inject_fake_packet` |
| connection handlers | `src/main.rs` 285-421 | one async task per client: source port, outgoing socket, its map entry | bind, insert, connect, wait for the outcome, remove, relay |
| runtime and shared map | `src/main.rs` 101-108 | four worker threads; shard locks of the map | poll a task; block on `insert` and `remove` |
| ClientHello builder | `src/injector.rs` 21-94 | none | `build_client_hello` |
| relay | `src/main.rs` 380-420 | two tasks with a buffer each | read, write, shutdown, join |
| start-up and shutdown | `src/main.rs` 150-283, 476-515 | the program's phase, the injector thread, the listener, the sidecar's handle | select, spawn, wait half a second, start the sidecar, bind, serve, Ctrl+C |
| Xray sidecar | `src/xray.rs` | `xray.exe` and `config.json` in the cache directory; a child process | extract, write configuration, spawn, clean up |
| header parsing and rewriting | `src/injector.rs` 96-223, 621-695 | none | `parse_ipv4`, `parse_tcp`, `extract_packet_info`, `inject_fake_packet` |
| node list | `src/api.rs`, `src/main.rs` 423-474 | the list until a node is selected | fetch, fall back, select |
| Python implementation | `main.py`, `fake_tcp.py`, `injecter.py`, `monitor_connection.py`, `utils/` | an event loop with one coroutine per client, an injector thread, one thread per fake; a dictionary of connections, each with a lock | as the Rust program, which is its port |

How they interact:

```
 client --TCP--> accept loop --spawn--> handler --insert/get/remove--> connections
                                          |  ^                            ^
                                  connect |  | t2a_notify, t2a_msg        | get, lock
                                          v  |                            v
                    local TCP <== queue of WinDivert ==============> injector thread
                                                                          |
                                                                    network, server
```

The handler and the injector never call each other. They share one map entry, with a
mutex the injector takes and gives up twice for one packet, atomics, one `Notify` and
a message; and they share the packets of the handler's socket, which the injector
sees before the network or the local stack does.

In the Python program the same roles are divided differently. The injector judges a
packet in one critical section of the connection's `thread_lock` and goes on to the next;
a thread of its own sends the fake after a millisecond; the injector itself closes the
sockets of a connection it gives up; and a handler clears `monitor` and deletes its
dictionary entry without any lock.

What is hard: the threads run in any order; entries are removed by key while ports are
reused; a notification races a timeout; the network loses, reorders and duplicates the
very segments the injector draws its conclusions from; sequence numbers wrap; a lock is
held across an await on a runtime of four threads; and what one run of the program
leaves on disk, or running, is found by the next.

What makes each component correct:

* injector: the order of the handshake cannot be shortcut, the fake is old to the
  server and sent once, a packet it takes is passed on, an outcome is final and
  there before the handler is woken;
* handlers: fail closed (nobody is let through unconfirmed), no entry outlives its
  handler, every client is decided;
* runtime: a handler that can be woken is woken;
* ClientHello: its lengths agree, for every name the padding has room for;
* relay: no byte added, none lost before an orderly end, both directions end;
* headers: whatever options a packet carries, the injector sees the segment that was
  sent, and the fake it makes of an ACK belongs to that ACK's connection;
* start-up and sidecar: the sidecar runs the whole binary, presents itself as the selected
  node's URL states, and does not outlive the run;
* Python program: the same promise as the handlers', kept by three kinds of threads.

## 2. The modules

| module | models | extends |
|---|---|---|
| `SeqNum` | `u32` sequence arithmetic and the wrong sequence number | |
| `Tracking` | the record of a tracked connection and what is expected of a packet | `SeqNum` |
| `Injector` | the injector thread, under arbitrary packets and arbitrary handlers | `Tracking` |
| `Bypass` | handlers + injector + local TCP + network + server | `Injector` |
| `Gate` | abstract: what is promised to a client | |
| `WorkerPool` | the four workers and the shard locks | |
| `PyBypass` | the Python handlers, injector thread and fake threads | `Tracking` |
| `ClientHello` | `build_client_hello` and a TLS parser reading its result | |
| `Headers` | reading and rewriting the IPv4 and TCP headers of a raw packet | |
| `FakePacket` | sender + injector + a reader on the path, one segment and its fake | `Headers`, `ClientHello` |
| `Relay` | the two relay tasks and the join | |
| `Startup` | runs of the program, their files and sidecars | |
| `XrayConfig` | the three URL parsers and the configuration made of them | |
| `Sidecar` | as what the Xray process of a run presents itself in the end | `Startup`, `XrayConfig` |
| `MC...` | values for TLC that a `.cfg` cannot write | the module |
| `..._proofs` | theorems | the module, `TLAPS` |

Definitions ending in `Mutant` are the wrong variants, a plausible bug each, that show a
property can fail; no specification uses them.

### Tracking and Injector

`Tracking` is what the two programs have in common: the fields of
`FakeInjectiveConnection` and the conditions `handle_outbound` and `handle_inbound`
(`on_outbound_packet`, `on_inbound_packet`) put on a packet. What is done with a packet,
and when, is in `Injector` and in `PyBypass`.

`connections` is the map: every key holds a record with the fields of
`FakeInjectiveConnection`, or `NoConn`. `at` is the thread's place: `"recv"`, `"found"`
(a Ref in hand, before the first look at `monitor`), `"handle"` (before the handler's
own lock), `"delay"` (the millisecond before the fake, lock given up), `"notify"`
(message written, `notify_one` still to come). `packet` is its buffer and `sent` what
`wd.send` was given for it. One action is the code between two points at which another
thread can notice something; `Notify` is separate from `Decide` because the handler may
read the message and the permit between them. A `Ref` is a shard read lock, so `insert`
and `remove` of that key wait (`Guarded`). `t2a_notify` is its one permit.

The packets are arbitrary records of `Packet`, at any time and in any order, and so are
inserts and removals: everything shown of `Injector` holds in any environment.

Flags that no branch distinguishes are represented by RST and FIN+ACK. A packet of no
tracked connection and one that is not TCP go the same way (`RecvUntracked`); how the
fields get out of the bytes is in `Headers`. The
outcomes of `wd.send` are ignored by the code and by the model; a `recv` error only
repeats the loop.

### Bypass and Gate

`Bypass` takes the actions of `Injector` (`RunInjector` is `Step` or `Recv` of the head
of WinDivert's queue) and puts the real surroundings in place of the arbitrary ones.
`pc` follows `handle_connection`: idle, bound, registered, connecting, lookup, waiting,
finish or abort, relay, relayed or closed. The `"waiting"` handler holds a `Ref` across
its await (`WaitedFor`). `ConnectFailed` frees the port *before* `Abort` removes the
entry, because the awaited future owns the socket and is dropped when the await ends.

External, modelled from how the code uses them: the local TCP stack (SYN, its
retransmission, the ACK of every SYN-ACK), the network (`toPeer`, `toHost` are sets:
any order, and a packet that is never taken is lost; `MaxExtra` bounds how often a packet
is duplicated or retransmitted, `OnceMore`), and a server with the reactions the
injector's comments rely on (old bytes get a duplicate ACK, a SYN on a synchronized
connection a challenge ACK as in RFC 5961, the SYN-ACK is retransmitted). The local
stack's RST and FIN answers, and the server's ACKs of real data, are left out: they come
when the connection is no longer monitored or only make the injector give up, which
`Injector` covers. Ports of established connections stay in TIME_WAIT and are not
reused; ports of failed ones are.

`Gate` is the promise: a client opens only after its fake was sent and then answered; a
refused one was never open; at most one fake is sent for a client, and none once it was
decided. `Gate` counts the fakes (`fakes`), and `Spoof` is enabled only while the count is 0,
so a second fake of the same client is no step of it and no stutter either.
`Bypass` implements it under the refinement mapping `PhaseOf` with the history variables
`fakes`, which counts what the injector puts on the wire (`JustSent`), and `acked`
(`ImplementsGate == Gate!Spec`); so do, in section 4, any number of handlers.

### PyBypass

The handler's actions are the code from one `await` to the next: the event loop runs
nothing else meanwhile. `table` is `fake_injective_connections`; `lock` is
`thread_lock`; `thread` the fake-send thread; `at` the injector's place (`"found"`: it has
the object and waits for the lock; `"handle"` and `"notify"`: inside). `Leave` is
`monitor = False`, `del` and the closing of the sockets, with the `KeyError` that `del`
raises when the key is gone; `program` is how `sys.exit` ended the process, whoever
called it. `Unexpected` closes the handler's socket from the injector thread, which may
free its port while the handler still waits. `InjectorDies` is an exception nobody
catches. The packets are arbitrary members of `Traffic`; ports, sockets and the local
stack are external (a socket that was never established gives its port up at once, an
established one when it is `Released`).

`PyBypass` implements `Gate` too, with a history variable `fakes` that counts the sends of
the fake threads. Here the mapping is less direct: a handler may give
up while the fake thread, or the injector, having just seen `monitor` set, is inside the
critical section and goes on to send the fake or to confirm. To `Gate` such a client is
refused only when the last of them has left (`Late`, `PhaseOf`).

### WorkerPool

Tasks go through spawned, inserting, connecting, waiting, removing, done. A task in
`insert` or `remove` occupies a worker, running or blocked, until the shard has no
reader; a waiting task occupies none and is a reader. `Woken` stands for the
notification and the five-second timer alike, since both only make the task ready and a
worker has to poll it. DashMap's locks are external. `Bypass` has a thread per handler;
`WorkerPool` asks when that is a fair picture.

### ClientHello

`build_client_hello(n)` is the byte string for a name of `n` bytes, with the static
parts as they are in the decoded template and zeros for the bytes no length depends
on. The reader is a TLS parser that walks it by its length fields.

### Headers and FakePacket

`Headers` works on sequences of byte values, with the offsets of the code. The
arithmetic of sequence numbers is in `SeqNum`; here a number is the four bytes it
occupies. `FakePacket` writes segments as RFC 791 and 9293 have them (external), lets
the injector extract what it tracks and rewrite the ACK, and reads the result back with a
parser that goes by the lengths in the headers, down to the name in the ClientHello.
`Segment` is the set of all segments whose fields fit their headers; an instance sends
some of them.
That is a check of one specification against another: nothing in the reader knows the
offsets of the code. The checksums are left to WinDivert.

### Relay

Bytes are counted, not named. `fin[s]` is the shutdown of socket `s`, `pc[s]` the place
of the task that reads `s`. `incoming.split()` borrows the stream and is moved into
spawned tasks at main.rs:385; the model takes it for the owned halves the code intends.
`WriteAll` is one turn of `write_all`: it writes as much as the socket's kernel side and
its peer have room for (`Room`), and waits without any. `taken` is what the peer has read.

### Startup

Each run of the program is a process and goes through `async_main`; `FetchNodes` is the
node list or the defaults, `Select` the menu; creating a file and
filling it are two steps; `Ends` is the end of a process, which closes sockets and
threads but not children. `Faults` says what the environment may do: kill a run, let a
file operation, the bind or WinDivert fail, start a run while another one is under way.
Xray opens its configuration at some time after it was spawned and needs port 10808.
The crate declares no feature `embed_xray` (`Cargo.toml`), so a build embeds the binary
only when the cfg is set by hand; `Embedding` names the runs of such a build.

### XrayConfig and Sidecar

A URL is a sequence of tokens: its scheme, separators, keys and values. The parsers are
translated one by one; `PortOf` says which tokens `u16::from_str` accepts and `JsonOf` what
base64 and `serde_json` make of a token. `Sidecar` puts them into `Startup`: the nodes
whose URL does not parse are those `Startup` calls `Garbled`, and `PresentsOwnNode` says
of every node whose URL has one of the documented forms (xray.rs:161, 203, 252)
that the process a run has spawned presents itself as the user, with the server name and
the security that URL states (`Says`, written down independently of the parsers). To what
address it connects, the property leaves open: there the repository contradicts itself
(section 3). `"bare"`
has no query, `"trojan"` a parameter without a value and two `sni`, `"ipv6"` and `"other"`
are refused.

## 3. What TLC checks

| run | properties | what it shows |
|---|---|---|
| `injector_traffic` | `TypeOK` `HandshakeOrder` `WokenWithOutcome` `FakeIsOld` `ThreadView` `NothingLost` `OutcomeIsFinal` `NumbersAreStable` `OneFake` | the injector under any traffic |
| `bypass_port_reuse` | `BTypeOK` `FakeNeverRead` `NoEntryLeft` `WaitsOnOwnEntry` `ConfirmedByServer` `ImplementsGate` `EveryClientDecided` | two clients on the same source port, two repeated segments, any loss and order |
| `pool_one_shard` | `TypeOK` `EveryTaskEnds` | as many handlers as workers, one shard |
| `py_bypass` | `TypeOK` `JudgedOnce` `NoEntryLeft` `MessageIsThere` `OutcomeIsFinal` `ImplementsGate` `EveryClientDecided` `PacketsMove` | the Python program, two clients that may share a port, an injector that may die |
| `fake_packet` | `SeesWhatWasSent` `FakeCopiesAck` `NameIsRead` `Always517Bytes` | headers with and without options, cut off anywhere; fakes for every name of 0 to 219 bytes |
| `relay` | `TypeOK` `NothingAdded` `FinIsTheEnd` `FinIsFinal` `HandlerEnds` | both directions, writes that wait for room, ends and resets at any time |
| `startup_sequential` | `TypeOK` `StopKillsSidecar` `SidecarOfOwnNode` `PresentsOwnNode` | three runs in a row, every fault but overlap, nodes with every form of URL |

Five runs end in a counterexample, each to a sentence of the repository:

| run | property | disagreement |
|---|---|---|
| `pool_exhausted` | `NotifyWakes` | five handlers of one shard: one holds the read lock across its await, four block the four workers; nobody can be polled again, not even by the timer |
| `bypass_registration` | `RegisteredBeforeHandshake` | a failed handler removes, by key, the entry of the next handler on its port |
| `hello_complete` | `CompleteClientHello` | a stray zero byte in the template shifts the extensions |
| `py_del` | `DelFindsEntry` | against a server that refuses, one Python handler deletes another's entry, whose own `del` then ends the program |
| `startup_partial_exe` | `ExtractedWhole` | a truncated `xray.exe` is taken for the binary |

What they mean together: `bypass_registration` is harmless to what `Gate` promises
(`bypass_port_reuse` shows that the client whose entry was removed is refused, not let
through). The first stops the program; the malformed ClientHello of `hello_complete` is
what the firewall gets; `py_del` ends the Python program for all clients, where the Rust port,
whose `remove` of a missing key does nothing, only refuses one; `startup_partial_exe`
breaks every later start until the directory is cleaned (in builds that embed the
binary).

Other disagreements are plain from the code and have no run of their own:

* for a name of 220 bytes or more `saturating_sub` (injector.rs:74) makes the ClientHello
  longer than the 517 bytes of injector.rs:79 and 92, and "regardless of SNI length" is
  wrong. `Always517Bytes` is a statement about the names of 0 to 219 bytes and no others;
* "the server acknowledged our fake packet" (injector.rs:583) is an inference: a challenge
  ACK to a late duplicate of the SYN has the same numbers. `ConfirmedByServer` states what
  does hold, that an accepted answer answers the fake or such a duplicate;
* a failed bind (main.rs:222) ends the program without killing the sidecar spawned at
  main.rs:209, against xray.rs:293;
* the outbound that `generate_xray_config` writes dials the server of the subscription
  URL, and `listen_host` and `listen_port` have no part in it, although xray.rs:9-11 and
  65-66 say that the traffic goes through the local proxy. `PresentsOwnNode` takes neither
  side: address and port of the outbound are not part of it;
* a vmess port that is a JSON string becomes 443 and a larger number is cut to sixteen
  bits (xray.rs:270); an IPv6 host is refused, because its first colon is taken for the
  port's; a `#name` at the end of a URL sticks to the last parameter, or to the port.

### Bounds, and why they are enough

* Sequence space 8, fake length 2 in `Bypass`, initial numbers 7 and 3: the fake of the
  first client straddles the wrap-around, and the two clients' numbers differ.
  `injector_traffic` uses a space of 3 with every number in every field, so each
  comparison is met with equal and unequal operands and both directions of wrap.
  The proofs remove the bounds, of space, handlers, ports and repetitions, for the
  injector and for the composition.
* One tracked key in `injector_traffic`: the thread handles one packet at a time and
  never looks at a second entry. Two payloads and two methods: both branches of
  `AfterDelay`.
* `MaxExtra` is two: two packets, in all, are retransmitted or duplicated, which is enough
  for a stale SYN, SYN-ACK, ACK or fake to meet every later state of its connection or of
  its successor. Two handlers on one port: every way an entry can be removed by another
  handler needs two.
* `py_bypass`: two handlers, one port, and as `Traffic` the four right segments and for
  each number, flag and direction one that is wrong. The theorems cover any number of handlers,
  ports and payloads, and all traffic. `py_del` needs only a SYN and a RST.
* `fake_packet`: the smallest and the largest header lengths and some between, the
  identifications 65535 and 0, every prefix of every packet, with all names. The theorems
  cover every segment, every wrong number and all names of up to 219 bytes.
* `WorkerPool` has the real number of workers, 4, with 4 tasks, and 5 for the
  counterexample; all keys in one shard, the worst case.
* `Relay`: a buffer of 2, a window of 2 and 3 bytes per direction (`BufLen`, `Window`,
  `MaxBytes`): partial reads and writes, a full buffer, a full window, more than one round.
  The theorems cover all sizes.
* `ClientHello`: every length the padding has room for, 0 to 219; the longer ones are left
  out, and nothing is claimed of them.
* `Startup`: three runs in a row let a second run meet what a first one left while a
  third starts clean; seven nodes, one for each form of a URL that is documented, missing
  or refused; the API answers with all of them, with an empty list or not at all.

Deadlock is checked except in `pool_*`, `py_*`, `hello_complete`, `fake_packet` and
`startup_*`, where the modelled process ends (all tasks done, `sys.exit`, the reader at the
end, all runs over) or, in
`pool_exhausted`, the deadlock is the point and is reported as the liveness violation.

### Fairness

* `Bypass`: weak fairness of the handlers' steps (the runtime polls ready tasks), of the
  end of a wait and of a connect (both are under a timer: main.rs:338 and 362), and of
  the injector thread. None of the clients, the network, the local stack's timers or
  the server.
* `PyBypass`: weak fairness of the end of a connect (the stack gives up at the latest), of
  the end of a wait (`wait_for` has a timer, main.py:156), of each fake thread and of the
  injector while it has a packet. `EveryClientDecided` needs none of the injector.
  `PacketsMove` is about lock holders: whoever has `thread_lock` lets go of it.
* `WorkerPool`: strong fairness of being polled (tokio's queues are fair: a task that is
  ready again and again gets a worker) and weak fairness of a lock that is free. None of
  the injector's answer.
* `Relay`: weak fairness of the tasks, whose writes wait for room, and of two things the
  peers do: they go on reading, and answer a FIN once they have read up to it. Neither is
  the code's doing. `HandlerEnds` holds under that assumption and not without it: a peer that stops
  reading while its window is full keeps its task in `write_all` (main.rs:391, 408), and one
  that never closes keeps the other, so that the handler stays for ever; nothing in the
  code times either out.

## 4. What is proved

| module | theorem | property | argument |
|---|---|---|---|
| `Injector_proofs` | `TypeCorrect` | `TypeOK` | one step per action; the lemmas on sequence arithmetic at its head |
| | `HandshakeOrdered` | `HandshakeOrder` | inductive with `TypeOK` and `ThreadView` |
| | `WakeupsCarryOutcome` | `WokenWithOutcome` | as above: a permit is only given at `"notify"`, where the message is set |
| | `FakeNeverNew` | `FakeIsOld` | `WrongSeqEndsAtNext`: adding the length to the wrong number gives syn + 1 in every space |
| | `ViewIsStable` | `ThreadView` | nobody but the thread writes a guarded entry, except a consumed permit |
| | `NoPacketLost` | `NothingLost` | from `ThreadView`: the second looks at `monitor` cannot fail |
| | `FakeOnce` | `OneFake` | from `ThreadView` |
| | `OutcomeStays` `NumbersStay` | `OutcomeIsFinal` `NumbersAreStable` | `RegistrationKept`: a step writes only the entry its thread holds, and a number only if there was none or it is the same |
| `Bypass_proofs` | `DrivesInjector` | (`Spec` of `Injector`) | step simulation: a captured packet is one of `Packet`, inserts and removals are those of `Tasks` |
| | `BypassTypes` | `BTypeOK` | from `TInv`, below |
| | `NoEntryIsLeft` `WaitsOnItsOwn` | `NoEntryLeft` `WaitsOnOwnEntry` | from `Entries` |
| | `KeepsGate` | `ImplementsGate` | step simulation of `Gate` under `MInv`, if `BypassMethod` is `"wrong_seq"` |
| | `NeverReadsFake` | `FakeNeverRead` | from `BaseInv`: a fake ends at the base of its connection, before which the server has read everything |
| | `ConfirmedByAnswer` | `ConfirmedByServer` | from `BaseInv`, if no two sockets have the same initial number (`IsnsDiffer`) |
| | `OtherMethodsSendNoFake` | | an entry keeps the method it was inserted with, so `AfterDelay` never gets to the injection |
| `FakePacket_proofs` | `SegmentsSeen` | `SeesWhatWasSent` | from `FInv`: the captured bytes are those of the segment, and stay so up to where they are cut |
| | `FakesCopyTheirAck` | `FakeCopiesAck` | from `FInv`: only a bare ACK is copied, and what is overwritten does not overlap |
| | `HelloHas517Bytes` | `Always517Bytes` | from `FInv`, if the names fit (`NamesFit`) |
| | `FakeNameIsRead` | `NameIsRead` | from `OnTheWay`, below, if the names fit |
| `WorkerPool_proofs` | `PoolTypes` | `TypeOK` | one step per group of actions |
| `Relay_proofs` | `RelayTypes` `NothingIsAdded` `FinEndsStream` `NothingAfterFin` | `TypeOK` `NothingAdded` `FinIsTheEnd` `FinIsFinal` | the accounting of sent, read, held and written bytes is inductive |
| `Sidecar_proofs` | `TypesHold` | `TypeOK` | one step per group of actions |
| | `ShutdownKills` | `StopKillsSidecar` | inductive with the types: only `Spawn` starts a process, and its run is not stopping |
| | `OwnNode` | `SidecarOfOwnNode` | if runs do not overlap: one run at a time is alive, and past `WriteConfig` the file is its own |
| | `PresentsItsOwn` | `PresentsOwnNode` | from `OwnNode`, if each documented URL is read rightly on its own (`ReadRightly`, facts about constants) |
| | `UrlIsRead` `FirstParameterWins` | | `SplitsAtFirst`: what `split_once` returns of a concatenation; `NaturalMin` for the least position |
| `PyBypass_proofs` | `PyTypesHold` `OneJudge` `EntriesGo` | `TypeOK` `JudgedOnce` `NoEntryLeft` | from the invariant `PInv`, below |
| | `WokenFindsMessage` `OutcomeStays` | `MessageIsThere` `OutcomeIsFinal` | steps under `PInv` |
| | `KeepsPromise` | `ImplementsGate` | step simulation of `Gate` under `PInv` |
| `Gate_proofs` | `GateHolds` | | in `Gate`, open implies confirmed implies spoofed, and no count of fakes exceeds 1 |

The inductive invariant of `Injector` is the conjunction of `TypeOK`, `HandshakeOrder`,
`WokenWithOutcome`, `FakeIsOld` and `ThreadView`. `ThreadView` is the part that matters:
the code checks `monitor` up to three times for one packet, and the reason that none of
the later looks can fail is that the `Ref` keeps `insert` and `remove` out for as long as
the thread has the packet, so that no one else can change `monitor` meanwhile.

`Bypass` needs three invariants, each proved on top of the one before; TLC has checked
`MInv` and `BaseInv` as invariants of the `bypass_port_reuse` instance.

* `TInv`: the invariant of `Injector`, which `DrivesInjector` carries over, the types,
  and `Sockets`: a handler's place says in what states its socket can be, and no two
  handlers have a socket on the same port.
* `MInv` adds `Entries` (an entry belongs to a handler of that port that is on its way; one
  that is on its way finds its own entry or none), `Captured` (only the injector makes
  fakes) and `History` (`fake_sent` says whether the owner's fake was sent, so that its count is 0 before
  the injector sends one; a
  confirmation in the entry that it was answered). Removing by key is safe because of
  `Sockets`: the key of a live handler is nobody else's, except that a handler whose
  connect failed has given its port up and not yet removed the entry. That one is `"abort"`,
  and what it then removes is its own or its successor's entry, never one a handler is
  waiting on, whose `Ref` keeps it out.
* `BaseInv` gives every connection a *base*, the number of the first byte of data: every
  packet in flight agrees with it, an established socket started just before it, the
  server waits for it or for the one after, and a fake ends there. The base is settled when
  the server takes a SYN; before that nothing but SYNs is about, and every number is a base
  (`AnyBase`), which is why the invariant says *there is* one. If in addition no two sockets start
  at the same number, `QueueOrder` says that no SYN of the base is queued behind an ACK of
  the handshake, and `OneFaked` that so a connection has at most one fake in its life,
  whose answer is then its own.

The hypothesis of `ConfirmedByAnswer` is needed: with equal initial numbers, TLC finds a
handler that gave up while its fake was being sent, whose successor on the port is
confirmed by the late answer to that fake. TCP makes such a repetition unlikely, and nothing in the
program excludes it; the promise of `Gate` does not depend on it. That of
`KeepsGate` is the code's own: for another method main.rs:352 relays without waiting. What
happens then is `OtherMethodsSendNoFake`: the client is relayed as if there were no bypass,
since the injector sends a fake for none and confirms none.

`PresentsItsOwn` splits `PresentsOwnNode` in two: that the file a sidecar has read is its
own run's, which is about orders of events, and that each URL is parsed rightly, which
is about data (`ReadRightly`). Of the second half the theorems `UrlIsRead` and
`FirstParameterWins` show the part that is the same for all trojan and vless URLs,
whatever their length: their authority is taken apart as it was put together, if the
secret has no @ and the host no colon or question mark, and their query is searched from
the left. That the vmess object is read rightly, and the URLs of the instance with it,
is checked in `startup_sequential`.

The proofs about `FakePacket` are about positions. `Holds(d, i, w)` says that the bytes `w`
stand in the buffer `d` from offset `i` on, and one lemma each says what appending
(`Appended`, `Prepended`), cutting off (`Truncated`) and overwriting (`Overwritten`) do to it
and what a reader of 8, 16 or 32 bits then finds (`ByteHeld`, `WordHeld`, `OctetsHeld`). From
these, `WrittenBytes` places the fields a sender wrote, whatever options push them back,
and `SentIsSeen` and `Injected` follow the code through reading and rewriting them. A
packet that was cut off is the delicate case of the first: the code looks at the fixed part
of a header before it knows that the options are there, and takes nothing from behind the end
(`Ipv4Parsed`, `TcpParsed`). The inductive invariant `FInv` then has three parts. `Kept`: the
captured bytes are the segment's and the hello, also the one taken out of the fake again,
is the builder's. `FromAck`: a fake was made of a segment without payload. `ReadRight`: what the
reader has understood is the rewritten header and nothing else. For the name, `OnTheWay` is
needed on top: where the reader stands in each phase, namely, once it is past the name,
at one of the few offsets (`Stops`) at which an extension of the template begins, up to the
one whose length the stray byte spoils (`hello_complete`), and by then it has read exactly one
name. That needs `NamesFit`, the names being no longer than 219 bytes, which is the limit of
the builder itself (injector.rs:74): from 220 on the theorem would be false. TLC has checked
`FInv` and `OnTheWay` as invariants of the `fake_packet` instance.

The inductive invariant of `PyBypass`, `PInv`, has four parts besides the types. `Locks`: a
lock is held by exactly the thread whose place says so. `OutcomeOf`: whoever is inside a
critical section found the connection monitored, so there is no outcome yet except the
one the injector has just written; this is what makes the outcome final although the
handler clears `monitor` at any time. `EntryOf`: an entry belongs to a handler that is
connecting or waiting on that port; it survives the deletions by key because a handler
deletes the entry of its *port*, so that its own is gone in any case. `FakeOf`: a fake thread
is started once and sends once, `fake_sent` says whether it has, a confirmation comes after the fake, and a handler that is done has
cleared `monitor`, so that nobody enters any more.
`KeepsPromise` then shows, action by action, that the phase of at most one handler moves
and in one of the ways `Gate` allows (`PhaseMoves`), or that a fake is sent
(`FakeIsSpoof`) or answered (`AnswerIsConfirm`) for a handler still dialing: `LetsGo` and
`Enters` say what entering and leaving a critical section does to the phase.

Assumptions: only the named `ASSUME`s: a sequence space of at least two numbers, a fake
shorter than the space (in `Bypass` by at least two, `FakeFitsAssumption`: 518 is less
than 2^32), finitely many tasks, a positive buffer and window, ports of sixteen bits, header
fields within their widths (`FakePacketAssumption`), the two kinds
of payloads and the one remote port of `Bypass`, and values that stand for "nothing"
being distinct from the things. Every one is evaluated by TLC in a run.

Only model-checked: liveness (`EveryClientDecided` of both programs, `EveryTaskEnds`,
`HandlerEnds`, `PacketsMove`), out of the prover's reach. Every invariant and every other
property of a passing run is the subject of a theorem.

## 5. Not modelled

* The checksums, which WinDivert computes. The early returns of `inject_fake_packet` are
  in `Headers`; they cannot be taken for a packet that `extract_packet_info` accepted.
* The parts of the Xray configuration that are constant, HTTP and JSON as such, the look
  of the menu, elevation and the build script: input and output without state of their
  own.
* The half second between the injector's start and the accept loop: time is not
  modelled; a client that comes earlier than the handle is refused like one whose answer
  is lost.
* A run of `Bypass` with a `bypass_method` other than `"wrong_seq"` (the module has both
  methods, and `OtherMethodsSendNoFake` says what is left; the Python program exits at
  main.py:170).
* Of the Python program `relay_main_loop` and the packet templates. The Rust relay, which
  differs from it (halves that are shut down in place of sockets that are closed under
  each other), is in `Relay`; the ClientHello of the templates is the one
  `build_client_hello` was ported from, without the stray byte.

## 6. Plan

1. Done: `SeqNum`, `Tracking`, `Injector`, `Bypass`, `Gate`, `WorkerPool`, `ClientHello`,
   `Headers`, `FakePacket`, `Relay`, `Startup`, `XrayConfig`, `Sidecar`, `PyBypass`, their
   runs and theorems.
2. Prove further: what is left is liveness, and induction over data, for which the provers
   at hand have no means; for a `bypass_method` other than `"wrong_seq"` a weaker promise
   than `Gate` could be stated.
3. Model further: `PyRelay` (two coroutines that close each other's sockets and cancel
   each other's tasks); a run of `Bypass` with an unknown method.
