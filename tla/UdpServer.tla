------------------------------ MODULE UdpServer ------------------------------
(***************************************************************************)
(* One udpServer of pkg/tapp/udp.go: the echo server of a destination pod. *)
(*                                                                         *)
(* Two goroutines share it: ReadFromSocket ("reader") and                  *)
(* HandleIdleConnections ("idle"); TearDownServer ("teardown") stops them. *)
(* Both use activeClientsMap, the gauge and the counters under s.mutex     *)
(* only, so a critical section is one step.  The map is keyed by the IP    *)
(* address of the client, which all streams of a pod interface share.      *)
(*                                                                         *)
(* The clients are udpStreams that number their packets 1, 2, 3, ... and   *)
(* start again at 1 when their pod restarts.  They may have been sending   *)
(* for a while when the server comes up.  The network loses, delays,       *)
(* duplicates and reorders.  Time is counted in ticks.                     *)
(***************************************************************************)
EXTENDS Integers, FiniteSets

CONSTANTS
  Streams,            \* client streams
  IPs,                \* their addresses
  IpOf,               \* addr.IP: the address of each stream
  ConnectionTimeout,  \* connectionTimeout of HandleIdleConnections
  MaxSeq,             \* bound: packets a stream sends
  MaxRuns,            \* bound: times a stream's pod starts
  MaxArrivals,        \* bound: packets that arrive
  MaxTime             \* bound: the clock stops here

ASSUME StreamAssumption == IsFiniteSet(Streams) /\ IpOf \in [Streams -> IPs]
ASSUME ServerTimeAssumption == ConnectionTimeout \in Nat /\ MaxTime \in Nat
ASSUME ServerBoundAssumption ==
  MaxSeq \in Nat /\ MaxRuns \in Nat \ {0} /\ MaxArrivals \in Nat

VARIABLES
  now,                  \* the clock (util.GetTimestampMicroSec)
  run, lastSeq,         \* per stream: incarnation, packetSequence
  sent,                 \* packets put on the network
  pc,                   \* where each thread is
  msg,                  \* the packet ReadFromSocket is handling
  currentTimeStamp,     \* local of HandleIdleConnections
  activeClientsMap,     \* IP |-> clientInfo
  activeClientStreams,  \* the gauge
  packetsMissing, packetsLate,
  registered,           \* the metrics are in the registry
  listening,            \* s.connection is open
  stop, isStopped,
  \* History, which the code does not keep.
  arrived,              \* packets the server has counted
  arrivals,             \* how often it has counted one
  lastArrival,          \* when it last counted one of each stream, or -1
  forgotten             \* sequence numbers seen of clients that were then evicted

clientVars  == <<run, lastSeq, sent>>
metricVars  == <<activeClientStreams, packetsMissing, packetsLate>>
lifeVars    == <<registered, listening, stop, isStopped>>
historyVars == <<arrived, arrivals, lastArrival, forgotten>>
vars == <<now, clientVars, pc, msg, currentTimeStamp, activeClientsMap, metricVars,
          lifeVars, historyVars>>

Packets == [stream : Streams, run : 1..MaxRuns, seq : {-1} \cup (1..MaxSeq)]
NoMsg == [seq |-> 0]

Clients == DOMAIN activeClientsMap

\* sendDummyPackets: a stream of a service scenario sends test packets, numbered
\* -1, in front of all others, so some may be under way in any of its runs.
TestPackets == {p \in Packets : p.seq = -1 /\ p.run <= run[p.stream]}

Goto(thread, label) == pc' = [pc EXCEPT ![thread] = label]

Init ==
  /\ now = 0
  /\ run = [st \in Streams |-> 1]
  /\ lastSeq \in [Streams -> 0..MaxSeq]
  /\ sent = {p \in Packets : p.run = 1 /\ p.seq \in 1..lastSeq[p.stream]}
  /\ pc = [setup |-> "new", reader |-> "unborn", idle |-> "unborn", teardown |-> "idle"]
  /\ msg = NoMsg /\ currentTimeStamp = 0
  /\ activeClientsMap = [ip \in {} |-> [lastSeen |-> 0, arrivedMaxSeq |-> 0]]
  /\ activeClientStreams = 0 /\ packetsMissing = 0 /\ packetsLate = 0
  /\ registered = FALSE /\ listening = FALSE /\ stop = FALSE /\ isStopped = 2
  /\ arrived = {} /\ arrivals = 0 /\ lastArrival = [st \in Streams |-> -1] /\ forgotten = 0

-------------------------------------------------------------------------------
(* The environment: the clock and the client streams.                       *)

Tick ==
  /\ now < MaxTime
  /\ now' = now + 1
  /\ UNCHANGED <<clientVars, pc, msg, currentTimeStamp, activeClientsMap, metricVars, lifeVars,
                 historyVars>>

StreamSends(st) ==
  /\ lastSeq[st] < MaxSeq
  /\ lastSeq' = [lastSeq EXCEPT ![st] = @ + 1]
  /\ sent' = sent \cup {[stream |-> st, run |-> run[st], seq |-> lastSeq[st] + 1]}
  /\ UNCHANGED <<now, run, pc, msg, currentTimeStamp, activeClientsMap, metricVars, lifeVars,
                 historyVars>>

StreamRestarts(st) ==
  /\ run[st] < MaxRuns
  /\ run' = [run EXCEPT ![st] = @ + 1]
  /\ lastSeq' = [lastSeq EXCEPT ![st] = 0]
  /\ UNCHANGED <<now, sent, pc, msg, currentTimeStamp, activeClientsMap, metricVars, lifeVars,
                 historyVars>>

Environment ==
  \/ Tick
  \/ \E st \in Streams : StreamSends(st) \/ StreamRestarts(st)

-------------------------------------------------------------------------------
(* CreateServer.                                                            *)

SetupServerConnection ==
  /\ pc.setup = "new"
  /\ listening' = TRUE
  /\ registered' = TRUE
  /\ pc' = [pc EXCEPT !.setup = "started", !.reader = "check", !.idle = "check"]
  /\ UNCHANGED <<now, clientVars, msg, currentTimeStamp, activeClientsMap, metricVars, stop,
                 isStopped, historyVars>>

\* Resolving or listening fails, or SetReadBuffer, which leaves the socket open.
SetupServerConnectionFails ==
  /\ pc.setup = "new"
  /\ \E leaked \in BOOLEAN : listening' = leaked
  /\ Goto("setup", "failed")
  /\ UNCHANGED <<now, clientVars, msg, currentTimeStamp, activeClientsMap, metricVars, registered,
                 stop, isStopped, historyVars>>

-------------------------------------------------------------------------------
(* ReadFromSocket.                                                          *)

\* Mutant: the goroutine signals twice.
ExitTwice(goroutine) ==
  /\ isStopped' = isStopped - 2
  /\ Goto(goroutine, "done")
\* The goroutine sees s.stop, signals the wait group and returns.
Exit(goroutine) ==
  /\ isStopped' = isStopped - 1
  /\ Goto(goroutine, "done")

ReaderChecks ==
  /\ pc.reader = "check"
  /\ IF stop
     THEN Exit("reader")
     ELSE Goto("reader", "read") /\ UNCHANGED isStopped
  /\ UNCHANGED <<now, clientVars, msg, currentTimeStamp, activeClientsMap, metricVars, registered,
                 listening, stop, historyVars>>

ReaderFails ==
  /\ pc.reader = "read"
  /\ ~listening
  /\ Goto("reader", "check")
  /\ UNCHANGED <<now, clientVars, msg, currentTimeStamp, activeClientsMap, metricVars, lifeVars,
                 historyVars>>

\* A packet that cannot be decoded, or its answer encoded, is not counted.
ReaderReads(p) ==
  /\ pc.reader = "read"
  /\ listening
  /\ arrivals < MaxArrivals
  /\ p \in sent \cup TestPackets
  /\ \/ msg' = p /\ Goto("reader", "count")
     \/ Goto("reader", "check") /\ UNCHANGED msg
  /\ UNCHANGED <<now, clientVars, currentTimeStamp, activeClientsMap, metricVars, lifeVars,
                 historyVars>>

\* What the client's entry holds before the packet is looked at.
EntryOf(ip) ==
  IF ip \in Clients THEN activeClientsMap[ip] ELSE [lastSeen |-> 0, arrivedMaxSeq |-> 0]

\* seqDiff: the sequence numbers skipped in front of a packet.
\* Mutant: off by one.
SeqDiffOffByOne(new, maxSeq) == new - maxSeq
SeqDiff(new, maxSeq) == new - maxSeq - 1

\* The newest sequence number after a packet.
NewMaxSeq(new, maxSeq) == IF new > maxSeq THEN new ELSE maxSeq

\* A gap in front of a packet counts as missing; a packet behind the newest
\* one counts as late, which takes it out of the missing ones again.
ReaderCounts ==
  /\ pc.reader = "count"
  /\ LET ip == IpOf[msg.stream]
         maxSeq == EntryOf(ip).arrivedMaxSeq
         newest == msg.seq > maxSeq
     IN  /\ activeClientStreams' = activeClientStreams + (IF ip \in Clients THEN 0 ELSE 1)
         /\ activeClientsMap' = [c \in Clients \cup {ip} |->
               IF c = ip
               THEN [lastSeen |-> now, arrivedMaxSeq |-> NewMaxSeq(msg.seq, maxSeq)]
               ELSE activeClientsMap[c]]
         /\ packetsMissing' = packetsMissing + (IF newest THEN SeqDiff(msg.seq, maxSeq) ELSE 0)
         /\ packetsLate' = packetsLate + (IF newest THEN 0 ELSE 1)
  /\ Goto("reader", "reply")
  /\ arrived' = arrived \cup {msg}
  /\ arrivals' = arrivals + 1
  /\ lastArrival' = [lastArrival EXCEPT ![msg.stream] = now]
  /\ UNCHANGED <<now, clientVars, msg, currentTimeStamp, lifeVars, forgotten>>

\* WriteToUDP: the answer, or its failure, leaves the server's state alone.
ReaderReplies ==
  /\ pc.reader = "reply"
  /\ msg' = NoMsg
  /\ Goto("reader", "check")
  /\ UNCHANGED <<now, clientVars, currentTimeStamp, activeClientsMap, metricVars, lifeVars,
                 historyVars>>

ReaderRuns == ReaderChecks \/ ReaderFails \/ ReaderCounts \/ ReaderReplies

ReadFromSocket == ReaderRuns \/ \E p \in sent \cup TestPackets : ReaderReads(p)

-------------------------------------------------------------------------------
(* HandleIdleConnections.                                                   *)

\* The time is read before the mutex is taken.
IdleChecks ==
  /\ pc.idle = "check"
  /\ IF stop
     THEN Exit("idle") /\ UNCHANGED currentTimeStamp
     ELSE currentTimeStamp' = now /\ Goto("idle", "evict") /\ UNCHANGED isStopped
  /\ UNCHANGED <<now, clientVars, msg, activeClientsMap, metricVars, registered, listening, stop,
                 historyVars>>

\* Mutant: the timeout is left out.
SilentClients == {ip \in Clients : currentTimeStamp > activeClientsMap[ip].lastSeen}
\* Mutant: the timeout is in the wrong unit.
LongIdleClients ==
  {ip \in Clients : currentTimeStamp > activeClientsMap[ip].lastSeen + 1000 * ConnectionTimeout}
IdleClients ==
  {ip \in Clients : currentTimeStamp > activeClientsMap[ip].lastSeen + ConnectionTimeout}

MaxSeqOf(ip) == activeClientsMap[ip].arrivedMaxSeq

\* The sequence numbers of these clients that the server has seen or seen pass.
Numbers(ips) == {q \in ips \X (1..MaxSeq) : q[2] <= MaxSeqOf(q[1])}

IdleEvicts ==
  /\ pc.idle = "evict"
  /\ activeClientsMap' = [ip \in Clients \ IdleClients |-> activeClientsMap[ip]]
  /\ activeClientStreams' = activeClientStreams - Cardinality(IdleClients)
  /\ forgotten' = forgotten + Cardinality(Numbers(IdleClients))
  /\ Goto("idle", "check")
  /\ UNCHANGED <<now, clientVars, msg, currentTimeStamp, packetsMissing, packetsLate, lifeVars,
                 arrived, arrivals, lastArrival>>

HandleIdleConnections == IdleChecks \/ IdleEvicts

-------------------------------------------------------------------------------
(* TearDownServer, called by the controller on a server that was created.   *)

TearDownBegins ==
  /\ pc.teardown = "idle"
  /\ pc.setup = "started"
  /\ stop' = TRUE
  /\ Goto("teardown", "close")
  /\ UNCHANGED <<now, clientVars, msg, currentTimeStamp, activeClientsMap, metricVars, registered,
                 listening, isStopped, historyVars>>

\* Mutant: the socket is not closed.
TearDownLeavesOpen ==
  /\ pc.teardown = "close"
  /\ Goto("teardown", "wait")
  /\ UNCHANGED <<now, clientVars, msg, currentTimeStamp, activeClientsMap, metricVars, lifeVars,
                 historyVars>>
TearDownCloses ==
  /\ pc.teardown = "close"
  /\ listening' = FALSE
  /\ Goto("teardown", "wait")
  /\ UNCHANGED <<now, clientVars, msg, currentTimeStamp, activeClientsMap, metricVars, registered,
                 stop, isStopped, historyVars>>

\* Mutant: it does not wait for the goroutines.
TearDownDoesNotWait ==
  /\ pc.teardown = "wait"
  /\ registered' = FALSE
  /\ Goto("teardown", "stopped")
  /\ UNCHANGED <<now, clientVars, msg, currentTimeStamp, activeClientsMap, metricVars, listening,
                 stop, isStopped, historyVars>>
TearDownFinishes ==
  /\ pc.teardown = "wait"
  /\ isStopped = 0
  /\ registered' = FALSE
  /\ Goto("teardown", "stopped")
  /\ UNCHANGED <<now, clientVars, msg, currentTimeStamp, activeClientsMap, metricVars, listening,
                 stop, isStopped, historyVars>>

\* Nothing is left to do for a server that failed to start or was stopped.
Terminated ==
  /\ pc.setup = "failed" \/ pc.teardown = "stopped"
  /\ UNCHANGED vars

TearDownServer == TearDownBegins \/ TearDownCloses \/ TearDownFinishes

Next ==
  \/ Environment
  \/ SetupServerConnection \/ SetupServerConnectionFails
  \/ ReadFromSocket \/ HandleIdleConnections \/ TearDownServer
  \/ Terminated

Spec == Init /\ [][Next]_vars

\* Go's scheduler runs every goroutine that can run, and time passes.
Fairness ==
  /\ WF_vars(Tick)
  /\ WF_vars(ReaderRuns)
  /\ WF_vars(HandleIdleConnections)
  /\ WF_vars(TearDownCloses \/ TearDownFinishes)

FairSpec == Spec /\ Fairness

-------------------------------------------------------------------------------
(* Properties.                                                              *)

\* Every field has the type udpServer gives it.
TypeOK ==
  /\ now \in Nat /\ currentTimeStamp \in Nat
  /\ run \in [Streams -> 1..MaxRuns] /\ lastSeq \in [Streams -> 0..MaxSeq]
  /\ sent \in SUBSET Packets
  /\ pc \in [setup : {"new", "failed", "started"},
             reader : {"unborn", "check", "read", "count", "reply", "done"},
             idle : {"unborn", "check", "evict", "done"},
             teardown : {"idle", "close", "wait", "stopped"}]
  /\ msg \in Packets \cup {NoMsg}
  /\ Clients \subseteq IPs
  /\ activeClientsMap \in [Clients -> [lastSeen : Nat, arrivedMaxSeq : Nat]]
  /\ activeClientStreams \in Nat /\ packetsMissing \in Nat /\ packetsLate \in Nat
  /\ registered \in BOOLEAN /\ listening \in BOOLEAN /\ stop \in BOOLEAN /\ isStopped \in 0..2
  /\ arrived \subseteq sent \cup TestPackets /\ arrivals \in Nat /\ forgotten \in Nat
  /\ lastArrival \in [Streams -> Nat \cup {-1}]

\* Streams the server has heard from within the connection timeout.
LiveStreams == {st \in Streams : lastArrival[st] >= 0 /\ lastArrival[st] + ConnectionTimeout >= now}

\* The gauge counts every client heard from within the timeout, although
\* HandleIdleConnections compares with a time it read before it had the mutex,
\* and it counts no client twice.
GaugeCountsLiveClients ==
  /\ activeClientStreams = Cardinality(Clients)
  /\ {IpOf[st] : st \in LiveStreams} \subseteq Clients

\* Sent packets that have not arrived: lost, or still on their way.
Unarrived == {p \in sent : p.seq > 0} \ arrived

\* Missing less late never overstates what the network has not delivered by
\* more than the sequence numbers that evictions made the server forget:
\* whatever is reordered, duplicated, restarted or shares an address.
LossNotOverstated == packetsMissing - packetsLate <= Cardinality(Unarrived) + forgotten

\* Once TearDownServer has returned, no metric is registered and no goroutine
\* of the server is left that could touch the clients' map.
QuietAfterTearDown ==
  pc.teardown = "stopped" => ~registered /\ pc.reader = "done" /\ pc.idle = "done"

\* A client that has gone silent leaves the gauge, unless it is heard again
\* or the server is stopped.
IdleClientsLeave ==
  \A ip \in IPs :
     (ip \in Clients /\ now > activeClientsMap[ip].lastSeen + ConnectionTimeout)
     ~> (ip \notin Clients \/ now <= activeClientsMap[ip].lastSeen + ConnectionTimeout \/ stop)

\* TearDownServer returns: both goroutines see s.stop.
TearDownReturns == (pc.teardown = "close") ~> (pc.teardown = "stopped")

\* "packets missing or arrive later" (pkg/tapp/udp.go:106): missing less late is
\* at most what has not arrived.  It is more after a client was evicted and
\* resumed, as a stream does whose traffic was suspended for a while.
MissingDidNotArrive == packetsMissing - packetsLate <= Cardinality(Unarrived)
===============================================================================
