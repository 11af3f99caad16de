# GoBAT: a TLA+ model of the traffic generator

GoBAT generates background traffic in a Kubernetes cluster. Every pod runs one
process with a controller (TGC), one UDP echo server per network interface
(TApp), and one UDP client per line of the pairing config map that names the
pod as a source (TGen). The clients and servers count packets, and Prometheus
reads the counters: the program is as good as its books, and as its ability to
change its configuration while traffic runs.

This directory holds specifications of these three parts and of the parser that
turns config map lines into streams, TLC models of small instances, and proofs
checked by TLAPS.

## Inventory

| Component | State | Operations | Interacts with |
|---|---|---|---|
| TGen stream, `pkg/tgen/udp.go` | pending requests, sequence number, counters and the values kept beside them, labels, socket, redial timer, stop flag, wait group | `SetupConnection`, `StartPackets`, `sendDummyPackets`, `SocketRead`, `HandleTimeouts`, `redialDestination`, `TearDownConnection` | the network; the registry; the controller, which starts and stops it and changes the config all streams share |
| TApp server, `pkg/tapp/udp.go` | clients by IP address, gauge, missing and late counters, socket, stop flag, wait group | `SetupServerConnection`, `ReadFromSocket`, `HandleIdleConnections`, `TearDownServer` | streams of other pods through the network; the controller |
| TGC controller, `pkg/tgc/tgc.go` | config, pairs with their client, version of the pairing map, servers, mutex | Add, Update and Delete of two config maps, `createNetBatTgenClients`, `restartNetBatTgenClients`, `deleteNetBatTgenClients`, `StopTGC` | the informer; goroutines that create clients; clients and servers |
| Profile loading, `pkg/util/config.go` and both `LoadBatProfileConfig` | version, suspend-traffic, profile map; send rate, sizes and timeouts | `LoadConfig`, `ReLoadConfig`, `LoadBatProfileConfig` | writes into structures that running streams read |
| Pairing parser, `pkg/tgc/tgc.go` | none | `handleAddNetBatConfigMap`, `getAvailableNetBatPairings` | interfaces of the pod; its pairs become the controller's slots |
| Pod interfaces, `pkg/util/util.go` | none | `GetInterfaces`, `getEnv`, `GetNetInterfaces` | annotations file, environment, network stack |
| Message codec and metrics endpoint, `pkg/util/util.go` | none | `NewMessage`, `NewCounter`, `RegisterPromHandler` | msgpack, Prometheus |
| Process, `cmd/tgenapp/main.go` | none | flags, signal handler | controller |

What is hard in this code:

- **Concurrency.** A stream has three goroutines and a caller that stops them.
  `c.mutex` protects the pending map and some counters; `stop`, `connection`,
  `packetSequence`, `suspendTraffic`, `packetSent` and `packetSendFailed` are
  used without it. The controller holds a mutex in its handlers, but the
  goroutines that create clients outlive them, and `StopTGC` takes no lock.
- **The network.** Requests and answers are lost, delayed, duplicated and
  reordered, and answered by another pod after a fail-over.
- **Time.** A timeout races with a late answer; the idle check compares with a
  time it read before it had the lock.
- **Configuration under traffic.** All streams share one config, which a profile
  update writes field by field while they run, up to the first field that does
  not parse.
- **Partial failure.** Each step of a set-up, a redial or a profile load can
  fail and leaves behind what the steps before it did.

The hazards, each at its line, are in `PROJECT.json`.

## Modules

| Module | Models | |
|---|---|---|
| `PacketLedger` | what a stream promises about its packets | abstract specification |
| `UdpStream` | `pkg/tgen/udp.go` | implements `PacketLedger` |
| `UdpServer` | `pkg/tapp/udp.go` | |
| `PodTGC` | `pkg/tgc/tgc.go`, `pkg/util/config.go`, the life of a stream | |
| `PodInterfaces` | `GetInterfaces` and `GetNetInterfaces` of `pkg/util/util.go` | |
| `PairingParser` | the parser of `pkg/tgc/tgc.go` | composed with `PodInterfaces` |
| `*Proofs` | | theorems about the module of that name |
| `PodTGCPatientProofs` | | theorems about `PodTGC` when config maps change one at a time |
| `MC*` | | definitions for TLC |

### PacketLedger

A packet is issued, and then settled once: received, dropped or failed. Drops
are declared in the order of the sequence numbers. The ledger has no
goroutines, lock, clock or network.

### UdpStream

A step is a critical section of `c.mutex`, or the code between two accesses to
a field that another goroutine uses without the mutex. `pc` says where the
goroutines `sender`, `reader` and `timeouts`, the set-up and the tear-down are.
The lock has to be held across steps only in `reRegisterStreamMetrics`, because
the sender's unlocked counters change meanwhile; therefore `mutex` is `"free"`
or `"reader"`.

- `StartPackets`: `packetSequence` is incremented without the lock, the packet
  inserted in the map, written, and counted in two unlocked updates
  (`packetSent.Inc()`, `packetSentVal++`). A failed write takes the packet out
  of the map again. `targetSeq` is computed from the time less the pauses.
- `SocketRead`: an answer of a pending packet counts and, when the answering
  pod has changed, replaces every counter and restores its value.
  `ReaderIgnores` is any answer that changes nothing.
- `HandleTimeouts`: the cursor `seq` walks behind `packetSequence`; after a drop
  it may call `redialDestination`.
- `redialDestination`: resolve, close, dial and `c.connection = conn`, each with
  its failures. Sockets are numbers; `open` is the set of open ones, so that a
  leaked socket is an element of `open` that is not `connection`.
- `TearDownConnection`: set `stop`, close, wait for three goroutines, unregister.
- `LoadSuspendTraffic` and `LoadSendRate`: `LoadBatProfileConfig` writes into the
  config the stream reads. `Rates` are the values the rate takes, -1 among them
  when one does not parse. `StartPackets` reads the rate in every round,
  `HandleTimeouts` once, when it starts (`TimeoutsReadsConfig`).
- `running` is no state of the code: it counts the ticks in which `StartPackets`
  ran and was not paused, and serves `NoCatchUpBurst` only.

The network is `wire`, the set of requests written: any of them may be answered
at any time, any number of times or never, on the socket it was written to.
Time is a counter of ticks. A pause of the sender lasts `PacketTimeout` ticks at
least; the other sleeps have no length, which allows more interleavings than
the code has. Goroutines of one stream see each other's writes to unlocked
fields at once.

### UdpServer

Both goroutines touch the map, gauge and counters under `s.mutex` only, so a
critical section is one step. `IdleChecks` reads the clock before the lock,
`IdleEvicts` uses it after. The client streams number their packets 1, 2, 3, ...
and may have started before the server; they restart at 1 with their pod. Test
packets of services (`TestPackets`) may arrive at any time.

### PodTGC

The informer delivers changes one at a time and in order, and a handler reads
nothing but the config map it is given: a change and its delivery are one step.
When a handler has to tear down clients it goes on in steps of its own, because
clients, creating goroutines and `StopTGC` run meanwhile. A *slot* is an element
of a `netBatPairs` slice; slots of replaced slices live on in the goroutines
that hold a pointer to them. A client is created in the steps `ClientIsCreated`,
`ClientRegisters`, `ClientDials`, `ClientExports`, `ClientLaunches`, the order in
which `createNetBatTgenClients` and `SetupConnection` do it. The registry is a
set of label combinations: `MustRegister` of one that is present panics, which
`SetupConnection` recovers from and `SocketRead` does not. A client whose answers
come from another pod takes its series out (`ClientRelabels`) and puts the new ones
in (`ClientReRegisters`), with steps of others in between. A panic nobody recovers
from ends the process, and `panic` says why: one of `Causes`.

`UdpStream` has the sockets and redials, `PodTGC` has not. What the controller sees
of them is that a client told to stop may never exit: `Redialling` are the pairs
whose stream redials, because the destination is a domain name or a service, and
their `ClientExits` is not fair (see `tearDownHangs`).

The data of a profile is what of it cannot be parsed, and two settings, the
send rate (part of the labels) and suspend-traffic. What the controller cannot
cope with are kinds of events too: an update of both settings at once
(`mixedUpdate`), a pairing line without enough fields (`shortLine`) and a delete
the informer found out about late (`missedDelete`). `Patient` restricts the
environment: config maps then change, and `StopTGC` goes on, only when no
creation is under way (`Settled`).

Three steps are coarser than the code:

- `ProfileAdd` is the whole handler: `StopTGC`, which takes no lock, does not come
  between `CreateServer` (`tgc.go:138`) and the assignment to `serversMap`
  (`tgc.go:146`). A server it would miss there ends with the process.
- `ClientRegisters` sets up the client its goroutine has just created, while
  `tgc.go:312` reads `p.ClientConnection` again. They differ only when two creators
  of one slot overlap, and the reads that decide which client is launched
  (`tgc.go:319`) are in the model (`ClientLaunches`).
- In `UdpStream`, `TimeoutsDrops` looks at `c.stop` (`tgen/udp.go:303`) and takes the
  mutex (`:307`) in one step. A drop that begins just after `stop` was set would only
  be one more ordinary drop.

### PodInterfaces and PairingParser

The parser runs in one goroutine, from the config map to the pairs the
controller makes slots of; the models follow it step by step (`at`), because its
loops carry state from one element to the next. A pod's annotations, environment
and links are inputs, each of which may be missing or unreadable.

- `PodInterfaces`: `TakeVariable` takes the `PCIDEVICE` variables in any order (a
  Go map), and `CollectPciAddress`, one round of the loop over the addresses of a
  variable, sorts out those that annotated interfaces have;
  `AssignDevice` is one round of the loop that gives the others to interfaces of
  unknown type; `AppendLeftovers` makes interfaces of the rest.
  `GetNetInterfaces` keeps the links that have an address.
- `PairingParser`: a line is the text of its source and the fields behind it.
  `SourceOf` is what JSON makes of the text: two spellings of one source are two
  texts, as they are two keys of `pairMap` in the code. `ReadLine` skips a line,
  panics, or resolves the source (`Resolve`) and appends a pair; `PickPair` is the
  random choice. `EqualFold` is the function `Fold`, and `HasPrefix(podName, ...)`
  the set `PodNamePrefixes`.

## Runs

| Run | Checks | Bounds |
|---|---|---|
| `streamAccounting` | `TypeOK`, `PacketsBalanced`, `CursorBehindPending`, `SentAreAccountedFor`, `LockedMetricsExact`, `SentMetricWithinOne`, `QuietAfterTearDown`, `ImplementsLedger` | domain name, 3 packets, 2 answering pods, 2 dials, 4 ticks, taken labels, a redial timeout that did not parse (-1) |
| `streamRedial` | `SingleRedialer`, `NoCatchUpBurst` | service destination with test packets, taken labels, redials that fail, 3 packets, 4 ticks with pauses, a send rate that changes to -1 and back |
| `streamLiveness` | `OldPacketsSettle`, `TearDownReturns` | 2 packets, a stream that never redials |
| `serverCounting` | `TypeOK`, `GaugeCountsLiveClients`, `LossNotOverstated`, `QuietAfterTearDown`, `IdleClientsLeave`, `TearDownReturns` | 1 address whose pod restarts, 3 arrivals, test packets |
| `controllerPatient` | `SendersArePaired`, `SendersAreExported`, `NothingStaleExported`, `RateLabelsTrue`, `OnlyNilPanics`, `TearDownsReturn` | 3 events, 3 pairs, one without a protocol client and one whose stream redials, 2 rates |
| `controllerRaces` | `TypeOK`, `ServersFollowProfile` | 4 events of every kind, overlapping |
| `pairing` | `AddressesPlacedOnce`, `DefaultGivesWay`, `EveryLineCounts`, `AddressOfInterface` | 4 interface lists, 4 environments, 4 sets of links, 3 lines out of 16 |
| `tearDownHangs` | violates `TearDownReturns` | service reached by domain name |
| `noRedialAfterDialFailure` | violates `RedialAfterDialFailure` | |
| `missingAfterEviction` | violates `MissingDidNotArrive` | |
| `controllerOrphans` | violates `SendersArePaired` | overlapping events |
| `mixedUpdate` | violates `RateLabelsTrue` | updates of suspend-traffic and the rate together |

Why the bounds are enough. Three packets allow one that is answered, one that
times out and one being sent, in all orders; two of them leave a gap before the
cursor. With a packet timeout of one tick and four ticks, packets expire and the
stream pauses and resumes. With a redial timeout of -1, which is what the config
holds when it does not parse, the first drop redials; with a send rate of -1 the
number of drops for a redial is negative, and the first drop redials too. Two
sockets are what a redial needs; a third repeats the second. In `streamRedial`,
where every redial fails, the rate changes as well; that the two callers of a
redial never overlap whatever it returns is proved (`OneRedialer`). Three
arrivals at the server make a gap, its late filling and a duplicate. The two
lives of a restarted pod are two streams with one address and the same sequence
numbers, the hardest case of a shared address; that the gauge counts addresses
for any number of streams is proved (`GaugeExact`). Three events bring both
config maps up and change, restart or delete what runs; the fourth of
`controllerRaces` deletes and adds a config map again under a running client. The
theorems about the controller hold for any number of events. Three lines are two destinations of one source with a line of
another between them; the interface lists have a device that is known, one that
is vDPA, one with an unknown DeviceInfo and a network attached twice, and the
environments fewer, as many and more addresses than there are unknown
interfaces.

`MaxSeq`, `MaxDials`, `MaxSendTime`, `MaxTime`, `MaxArrivals`, `MaxRuns`,
`MaxEvents` and `MaxLines` are bounds of the models and appear in guards only. `MaxSendTime` is
below `MaxTime` so that what was sent can still expire before the clock stops.

Deadlock is checked, except in `pairing`, where the parser returns once, and in
`controllerRaces`, where the system really stops: a client whose `registerStreamMetrics` panicked has a connection and no
goroutines, and the handler that tears it down waits for them for ever. That
takes overlapping events or a profile that is deleted and added again;
`controllerPatient` shows that without those a tear-down comes back, unless it comes
to a client whose stream redials.

### Fairness

`FairSpec` assumes weak fairness of the steps a goroutine can take by itself:
Go's scheduler does not starve a runnable goroutine, and the mutex is held for
a bounded number of steps. Ticks are weakly fair. Nothing is assumed of the
network (answers), the Kubernetes API (events) or the operator (`StopTGC`,
suspend-traffic). No liveness property here needs strong fairness. In `PodTGC` the
exit of a client of a `Redialling` pair is not assumed either: its reader may block
on a socket that nobody closes. `TearDownsReturn` therefore says that the handler
and `StopTGC` come back or wait for such a client (`WaitsForRedialler`), and in
`controllerPatient` one pair of three is one.

### What the violations show

- `tearDownHangs`: `TearDownConnection` closes the old socket while a redial is
  dialling; the redial then sets a new connection that nobody closes, the reader
  blocks on it, and the wait never ends, with the controller's mutex held. For a
  stream that never redials (its destination is an address and no service)
  `streamLiveness` shows that it returns.
- `noRedialAfterDialFailure`: when a redial fails after `Close`, every later write
  fails and leaves nothing pending, so nothing times out, and only a timeout
  triggers the next redial. The stream stays silent.
- `missingAfterEviction`: a client that was evicted and resumes has all its
  earlier packets counted as missing. `LossNotOverstated` says by how much at most.
- `controllerOrphans`: a pairing update that overtakes the creation of a client
  leaves a client nobody can stop.
- `mixedUpdate`: the handler leaves the clients alone when suspend-traffic has
  changed, also when the send rate has changed with it. The clients then send at
  the new rate, and their metrics say the old one. `controllerPatient` shows that
  the labels are true when updates change one or the other.

Observed while modelling, without a run of their own: `packetSent` can be off by
one packet for good when the counter is replaced between the sender's two
updates (`SentMetricWithinOne` shows that one is the worst); the newest packet is
not counted as dropped while the traffic is suspended, since the cursor stays
behind it; `startTimeout` is not reset by answered packets, so that isolated
drops count as successive ones for the first redial; the gauge counts addresses
and not streams.

- `targetSeq` is the time since the start times the rate in force now. A stream
  whose rate is raised without a restart (as in `mixedUpdate`) catches up for its
  whole past, and one whose rate is lowered stalls. `NoCatchUpBurst` therefore
  speaks of the highest of the rates; for a rate that stays, that is the rate.
- The lines of one source are told apart by nothing but their text, and one of
  them is picked with its profile and scenario: `deployments/configMap.yaml` has
  two scenarios of one source, of which a pod runs one, and a source with a
  `udp` and an `http` line gets no traffic when `http` is picked. Two spellings of
  one source may resolve to the same labels, and then only one of the two streams
  starts.
- A line with a network the pod is not attached to keeps the interface it names
  and gets no address; its stream cannot be set up.
- `DefaultGivesWay` needs the default interface at the head of the list. Behind an
  interface that has taken an address, it may take one while another unknown
  interface is marked as host, although the unknown ones outnumber the addresses
  (`src/pkg/util/util.go:441`): the number it is compared with counts addresses
  already given. Multus lists the default interface first.
- A deployment is recognised by a prefix: a line for deployment `web` is taken by
  the pods of deployment `web-api` too.

## Proofs

| Theorem | States |
|---|---|
| `PacketLedgerProofs!LedgerBalanced` | the books of the ledger balance |
| `UdpStreamProofs!TypeCorrect` | `TypeOK` |
| `UdpStreamProofs!CursorNeverPasses` | `CursorBehindPending` |
| `UdpStreamProofs!StreamImplementsLedger` | `UdpStream` implements `PacketLedger` |
| `UdpStreamProofs!StreamBalanced` | `PacketsBalanced`, from the two above |
| `UdpStreamProofs!SentAccounted` | `SentAreAccountedFor` |
| `UdpStreamProofs!OneRedialer` | `SingleRedialer` |
| `UdpStreamProofs!NoBurst` | `NoCatchUpBurst` |
| `UdpStreamProofs!TearDownQuiet` | `QuietAfterTearDown` |
| `UdpStreamProofs!LockedMetrics` | `LockedMetricsExact` |
| `UdpStreamProofs!SentMetricBound` | `SentMetricWithinOne` |
| `UdpServerProofs!ServerTypeCorrect` | `TypeOK` |
| `UdpServerProofs!GaugeExact` | `GaugeCountsLiveClients` |
| `UdpServerProofs!LossBound` | `LossNotOverstated` |
| `UdpServerProofs!TearDownIsQuiet` | `QuietAfterTearDown` |
| `PodTGCProofs!ControllerTypeCorrect` | `TypeOK` |
| `PodTGCProofs!ServersFollow` | `ServersFollowProfile` |
| `PodTGCPatientProofs!NoSenderForgotten` | `SendersArePaired`, under `Calm` |
| `PodTGCPatientProofs!SendersExported` | `SendersAreExported`, under `Calm` |
| `PodTGCPatientProofs!RegistryIsCurrent` | `NothingStaleExported`, under `Calm` |
| `PodTGCPatientProofs!RatesAreLabelled` | `RateLabelsTrue`, under `Calm` and `Unmixed` |
| `PodTGCPatientProofs!PanicsAreNil` | `OnlyNilPanics`, under `Calm` and `Harmless` |
| `PairingParserProofs!AddressesHaveOneInterface` | `AddressesPlacedOnce` |
| `PairingParserProofs!DefaultComesLast` | `DefaultGivesWay` |
| `PairingParserProofs!LinesComplete` | `EveryLineCounts` |
| `PairingParserProofs!AddressFollowsInterface` | `AddressOfInterface` |

They hold for every set of rates, timeout, number of packets, sockets, pods, streams,
pairs, events, lines, annotations and environments; the bounds are arbitrary naturals.
The assumptions are the named `ASSUME`s of the modules:

- streams: rates other than 0, a positive packet timeout, and that the empty server
  label is no pod;
- the server: finitely many client streams, each with an address (`IpOf`);
- the controller: the default rate is one of the rates, and the labels `none` and
  `notStarted` are no pods;
- the parser: a list of annotated interfaces has one default interface at most, no host
  interface and no device twice, a `PCIDEVICE` variable has at least one part (as
  `strings.Split` returns), no address is named twice, and the fields of a line are
  strings.

Five theorems about the controller have hypotheses on its environment. `Calm`: config maps
change only when the last change has settled (`Patient`), and the profile is not deleted.
`Unmixed`: an update does not change suspend-traffic and another setting together.
`Harmless`: no short pairing line and no missed delete, each of which panics at once.
`controllerPatient` is such an instance; `controllerOrphans` and `mixedUpdate` show that the
first two are needed.

The arguments:

- **Stream.** `TypeInv` joins `TypeOK` with three facts: the wait group counts the
  goroutines that have not left (`StopCount`), a packet in the map, on the wire
  or under the cursor has been numbered, and goroutines exist only after a
  set-up. `NewestInv` says that while the sender is between numbering and
  inserting a packet, that packet is not in the map: needed because the sequence
  number is public before the map entry, and nobody settles the packet the sender
  is working on. `CursorInv` adds that the cursor is at
  most the newest number, so a packet inserted late is still in front of it:
  this is why the unlocked read of `packetSequence` in `HandleTimeouts` is
  harmless. With these, each step is a step of the ledger or a stutter.
  `RedialInv`: the sender sends test packets before its first numbered packet,
  and `HandleTimeouts` redials after a drop only, so that the two cannot
  overlap. `BurstInv`: the time `StartPackets` computes with, since its start less
  its pauses, is the time it ran (`running`), in a pause up to its beginning; the
  target of any round, and so the packets, were allowed by the rate of that round,
  and what a positive rate allowed stays allowed. `LifeInv`: a stream that
  has started has a connection, so that its tear-down waits, and one that has not
  has no metrics; with `StopCount`, nothing is left when the wait is over.
  `SentInv` counts what was sent per position of the sender. `MetricInv` bounds
  the unlocked counter: the sender must take the lock between two packets, so at
  most one of its double updates falls into a re-registration.
- **Server.** `LifeInv`: the wait group counts the goroutines that have not
  returned, a tear-down runs only on a server that was started, and it unregisters last.
  For the loss, `BalanceInv` keeps the books: missing less late plus arrivals are the
  numbers the server remembers of its clients plus those forgotten with an eviction;
  `SentInv` and `NewestInv` say that every remembered number was sent by some stream
  of the address. `ServerInv`: the gauge is the size of the map, an entry's `lastSeen`
  is at least the last arrival of each of its streams, and the time
  `HandleIdleConnections` works with is not in the future. A stale time can
  only evict too few.
- **Controller.** `ServersFollowProfile` is not inductive: adding a profile
  overwrites `serversMap`. `ConfigInv` says that without the config map there is
  no config; then there was no server to forget. `TypeInv` needs to know why pointers
  to old slices are harmless to types: versions number the events, so that the slots
  of a pairing that is being handled are new and no goroutine has one of them
  (`SlotInv`); and that goroutines are launched at most once per creation, which is a
  count of the runs that have launched something on a slot (`LaunchInv`).
- **Controller, calm.** `CalmInv` has ten parts. A client is *dead* when its goroutine
  gave up or it was stopped and has exited. `OwnerInv`: a slot has one client at most
  that is not dead, which is the one it points to, and the slot is current; so the
  client that is launched is the one that was set up (`LifeInv`). `AloneInv` and
  `TornInv`: the handler and `StopTGC` do not tear down together, nor while a client is
  being created, and what they have done is dead. `OwnedInv`: what is in the registry has
  the labels of the client of a current slot that has yet to be torn down; slots of
  one version differ in their pair (`PairInv`), hence so do the labels, and no
  registration collides, also between the two steps of a relabelling, in which nothing
  of the client's series is left. `ExportInv` is the converse: what a client that was
  not stopped has registered, and is not replacing, is still there. A slot for which a
  client was to be created points to one once its goroutine has returned; therefore a
  nil client that is torn down is one there was nothing to create for. `RateInv`: only while the handler is busy are
  there clients with the label of an old rate. `LoadedInv`: without a config there
  are no clients, so that adding a profile creates no second client of a slot, and a
  config map that is relisted has been applied already.
- **Parser.** `StageInv`: lines are read after the interfaces are known, and pairs picked
  after the lines are read. `SourceInv`: all pairs of a text have the source the text
  resolves to. Of every text the lines and the pairs made of them are compared by
  their rank, the number of lines of that text up to them. For the
  interfaces, `PlaceInv`: a PCI address is still to be looked at, or has one interface,
  or waits at one place for one. `DefaultInv`: the count of unknown interfaces is exact
  in the first round of the loop, in which the default interface is looked at.

Only model-checked are the five liveness properties `OldPacketsSettle`,
`IdleClientsLeave`, `TearDownsReturn` and both `TearDownReturns`: fairness and ENABLED
are beyond the prover. Every invariant of the passing runs, and `ImplementsLedger`, is
proved.

## Not modelled

Round-trip times and the latency summary, and with them a wall clock that is set
back; message sizes and contents besides the sequence number and the pod's
identity; packet sizes and timeouts that change in a running stream; the YAML,
JSON, gzip, msgpack and Prometheus libraries besides what the code relies on;
what app-netutil makes of the annotations file; HTTP, logging, flags. Memory
effects of data races beyond the interleaving of the accesses. These are library
code, pure I/O, or single comparisons of numbers whose failure is listed among
the hazards.

## Plan

Done: `PacketLedger`, `UdpStream`, `UdpServer`, `PodTGC`, `PodInterfaces` and
`PairingParser` with their runs, and the proofs above. What is left:

1. Without fairness a prover can still show that a tear-down is never stuck: that a
   thread of a calm controller that waits for a client waits for one that has been
   launched and told to stop.
2. A promise of the server as an abstract specification of its own, as `PacketLedger`
   is one of a stream.
