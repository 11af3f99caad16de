------------------------------ MODULE UdpStream ------------------------------
(***************************************************************************)
(* One udpStream of pkg/tgen/udp.go: the client side of one BatPair.       *)
(*                                                                         *)
(* Three goroutines share the stream: StartPackets ("sender"), SocketRead  *)
(* ("reader") and HandleTimeouts ("timeouts").  SetupConnection starts     *)
(* them and TearDownConnection ("teardown"), called by the controller,     *)
(* stops them.  A step of this model is a critical section of c.mutex, or  *)
(* the code between two accesses to a field that another goroutine uses    *)
(* without the mutex: stop, connection, packetSequence, the shared config  *)
(* and the sent and send-failed counters.                                  *)
(*                                                                         *)
(* Time is counted in ticks: timeouts are ticks and sendRate is packets a  *)
(* tick.  The network loses, delays, duplicates and reorders datagrams.    *)
(* Sockets are numbered in the order they are dialled.                     *)
(***************************************************************************)
EXTENDS Integers, FiniteSets

CONSTANTS
  Rates,          \* values conf.sendRate takes: -1 after one that did not parse
  PacketTimeout,  \* conf.packetTimeout
  RedialTimeout,  \* conf.redialTimeout: -1 when it did not parse
  Servers,        \* pod identities (util.PodInfo) a reply can carry
  NoServer,       \* the empty server labels set by SetupConnection
  IsDN,           \* pair.Destination.IsDN: the destination is a domain name
  IsService,      \* the traffic scenario names a service
  LabelsTaken,    \* another stream has registered metrics with the same labels
  MaxSeq,         \* bound: packets sent
  MaxDials,       \* bound: sockets dialled
  MaxSendTime,    \* bound: the sender numbers no packet and begins no pause after it
  MaxTime         \* bound: the clock stops here

ASSUME RateAssumption == Rates \in SUBSET (Int \ {0})
ASSUME TimeoutAssumption == PacketTimeout \in Nat \ {0} /\ RedialTimeout \in Int
ASSUME BoundAssumption ==
  /\ MaxSeq \in Nat /\ MaxDials \in Nat
  /\ MaxSendTime \in Nat /\ MaxTime \in Nat
ASSUME FlagAssumption ==
  IsDN \in BOOLEAN /\ IsService \in BOOLEAN /\ LabelsTaken \in BOOLEAN
ASSUME ServerAssumption == NoServer \notin Servers

VARIABLES
  now,                  \* the clock (util.GetTimestampMicroSec)
  pc,                   \* where each thread is
  mutex,                \* c.mutex: "free", or held by the reader between steps
  PendingRequestsMap,   \* pair.PendingRequestsMap: packet |-> time it was sent
  packetSequence, targetSeq,
  epoch,                \* start + pausePeriod of StartPackets
  pausedAt,             \* t1 of StartPackets
  sendTimeStamp,        \* of the packet being sent
  packetSent, packetSentVal, packetSendFailed, packetSendFailedVal,
  packetReceived, packetReceivedVal, packetDropped, packetDroppedVal,
  serverLabel,          \* the three server_* entries of metricLabelMap
  registered,           \* the stream metrics are in the registry
  trafficNotStarted,
  connection,           \* c.connection: a socket, or 0 for nil
  open, dialled,        \* sockets that are open, sockets dialled so far
  wire,                 \* requests written: every one may be answered
  readConn,             \* the socket ReadFromUDP was called on
  seq, startTimeout, timedoutPktCount,   \* locals of HandleTimeouts
  redialTimeoutSuccessiveRequests,       \* another, from the config at its start
  stop, isStopped,
  suspendTraffic, sendRate,              \* of the config that all streams share
  \* History, which the code does not keep.
  running               \* history: ticks in which StartPackets ran and was not paused

clockVars == <<now, running>>
sendVars  == <<packetSequence, sendTimeStamp, targetSeq, epoch, pausedAt>>
sentVars  == <<packetSent, packetSentVal>>
failVars  == <<packetSendFailed, packetSendFailedVal>>
rcvdVars  == <<packetReceived, packetReceivedVal>>
dropVars  == <<packetDropped, packetDroppedVal>>
labelVars == <<serverLabel, registered>>
sockVars  == <<connection, open, dialled>>
scanVars  == <<seq, startTimeout, timedoutPktCount, redialTimeoutSuccessiveRequests>>
stopVars  == <<stop, isStopped>>
confVars  == <<suspendTraffic, sendRate, trafficNotStarted>>
vars == <<clockVars, pc, mutex, PendingRequestsMap, sendVars, sentVars, failVars, rcvdVars,
          dropVars, labelVars, sockVars, wire, readConn, scanVars, stopVars, confVars>>

Pending == DOMAIN PendingRequestsMap

\* c.mutex.Lock() returns.
\* Mutant: the lock is left out.
NoLock == TRUE
Lock == mutex = "free"

\* delete(c.pair.PendingRequestsMap, s).
\* Mutant: the packet stays in the map.
DeleteNothing(s) == UNCHANGED PendingRequestsMap
Delete(s) == PendingRequestsMap' = [p \in Pending \ {s} |-> PendingRequestsMap[p]]

Goto(thread, label) == pc' = [pc EXCEPT ![thread] = label]

\* The goroutine sees c.stop, signals the wait group and returns.
\* Mutant: it signals twice.
ExitTwice(goroutine) ==
  /\ isStopped' = isStopped - 2
  /\ Goto(goroutine, "done")
Exit(goroutine) ==
  /\ isStopped' = isStopped - 1
  /\ Goto(goroutine, "done")

Init ==
  /\ now = 1
  /\ pc = [setup |-> "new", sender |-> "unborn", reader |-> "unborn",
           timeouts |-> "unborn", teardown |-> "idle"]
  /\ mutex = "free"
  /\ PendingRequestsMap = [s \in {} |-> 0]
  /\ packetSequence = 0 /\ sendTimeStamp = 0 /\ targetSeq = 0 /\ epoch = 0 /\ pausedAt = 0
  /\ packetSent = 0 /\ packetSentVal = 0
  /\ packetSendFailed = 0 /\ packetSendFailedVal = 0
  /\ packetReceived = 0 /\ packetReceivedVal = 0
  /\ packetDropped = 0 /\ packetDroppedVal = 0
  /\ serverLabel = NoServer /\ registered = FALSE /\ trafficNotStarted = 0
  /\ connection = 0 /\ open = {} /\ dialled = 0 /\ wire = {} /\ readConn = 0
  /\ seq = 1 /\ startTimeout = 0 /\ timedoutPktCount = 0
  /\ redialTimeoutSuccessiveRequests = 0
  /\ stop = FALSE /\ isStopped = 3
  /\ suspendTraffic \in BOOLEAN /\ sendRate \in Rates
  /\ running = 0

-------------------------------------------------------------------------------
(* The environment: the clock, and the controller's profile updates.        *)

Tick ==
  /\ now < MaxTime
  /\ now' = now + 1
  /\ running' = IF pc.sender \in {"unborn", "begin", "paused", "done"} THEN running ELSE running + 1
  /\ UNCHANGED <<pc, mutex, PendingRequestsMap, sendVars, sentVars, failVars, rcvdVars, dropVars,
                 labelVars, sockVars, wire, readConn, scanVars, stopVars, confVars>>

\* LoadBatProfileConfig writes suspend-traffic and then send-rate into the config
\* the streams share.
LoadSuspendTraffic ==
  /\ suspendTraffic' = ~suspendTraffic
  /\ UNCHANGED <<clockVars, pc, mutex, PendingRequestsMap, sendVars, sentVars, failVars, rcvdVars,
                 dropVars, labelVars, sockVars, wire, readConn, scanVars, stopVars, sendRate,
                 trafficNotStarted>>

LoadSendRate ==
  /\ sendRate' \in Rates
  /\ UNCHANGED <<clockVars, pc, mutex, PendingRequestsMap, sendVars, sentVars, failVars, rcvdVars,
                 dropVars, labelVars, sockVars, wire, readConn, scanVars, stopVars, suspendTraffic,
                 trafficNotStarted>>

-------------------------------------------------------------------------------
(* SetupConnection, and the goroutines the controller starts after it.      *)

SetupConnection ==
  /\ pc.setup = "new"
  /\ dialled < MaxDials
  /\ dialled' = dialled + 1
  /\ open' = {dialled + 1}
  /\ connection' = dialled + 1
  /\ registered' = TRUE
  /\ pc' = [pc EXCEPT !.setup = "started", !.sender = "begin",
                      !.reader = "check", !.timeouts = "begin"]
  /\ UNCHANGED <<clockVars, mutex, PendingRequestsMap, sendVars, sentVars, failVars, rcvdVars,
                 dropVars, serverLabel, wire, readConn, scanVars, stopVars, confVars>>

\* Resolving or dialling fails and is counted; MustRegister of trafficNotStarted
\* panics, which is recovered and not counted; SetReadBuffer fails after the
\* dial, is not counted and leaves the socket open.  c.connection stays nil.
SetupConnectionFails ==
  /\ pc.setup = "new"
  /\ Goto("setup", "failed")
  /\ \/ trafficNotStarted' = trafficNotStarted + 1 /\ UNCHANGED <<open, dialled>>
     \/ UNCHANGED <<trafficNotStarted, open, dialled>>
     \/ /\ dialled < MaxDials
        /\ dialled' = dialled + 1
        /\ open' = {dialled + 1}
        /\ UNCHANGED trafficNotStarted
  /\ UNCHANGED <<clockVars, mutex, PendingRequestsMap, sendVars, sentVars, failVars, rcvdVars,
                 dropVars, labelVars, connection, wire, readConn, scanVars, stopVars,
                 suspendTraffic, sendRate>>

\* registerStreamMetrics panics on the labels of another stream, after
\* c.connection has been set: no goroutine is started for that connection.
SetupConnectionPanics ==
  /\ pc.setup = "new"
  /\ LabelsTaken
  /\ dialled < MaxDials
  /\ dialled' = dialled + 1
  /\ open' = {dialled + 1}
  /\ connection' = dialled + 1
  /\ Goto("setup", "failed")
  /\ UNCHANGED <<clockVars, mutex, PendingRequestsMap, sendVars, sentVars, failVars, rcvdVars,
                 dropVars, labelVars, wire, readConn, scanVars, stopVars, confVars>>

-------------------------------------------------------------------------------
(* redialDestination, run by the sender (force) or by HandleTimeouts.       *)

\* The caller's code behind the call.  HandleTimeouts restarts its redial
\* timer after a failure and counts successive timeouts after a success.
RedialReturns(caller, ok) ==
  IF caller = "timeouts"
  THEN /\ startTimeout' = IF ok THEN -1 ELSE 0
       /\ timedoutPktCount' = 0
       /\ UNCHANGED <<seq, redialTimeoutSuccessiveRequests>>
       /\ Goto(caller, "scan")
  ELSE /\ UNCHANGED scanVars
       /\ Goto(caller, IF ok THEN "dummy" ELSE "top")

\* Resolving fails, or the address has not changed: the socket is kept.
RedialKeepsSocket(caller) ==
  /\ pc[caller] = "redial"
  /\ \E resolved \in BOOLEAN :
        /\ resolved => caller = "timeouts"
        /\ RedialReturns(caller, resolved)
  /\ UNCHANGED <<clockVars, mutex, PendingRequestsMap, sendVars, sentVars, failVars, rcvdVars,
                 dropVars, labelVars, sockVars, wire, readConn, stopVars, confVars>>

RedialCloses(caller) ==
  /\ pc[caller] = "redial"
  /\ open' = open \ {connection}
  /\ Goto(caller, "dial")
  /\ UNCHANGED <<clockVars, mutex, PendingRequestsMap, sendVars, sentVars, failVars, rcvdVars,
                 dropVars, labelVars, connection, dialled, wire, readConn, scanVars, stopVars,
                 confVars>>

\* SetReadBuffer can fail on the new socket, which then stays open unused.
RedialDials(caller) ==
  /\ pc[caller] = "dial"
  /\ dialled < MaxDials
  /\ dialled' = dialled + 1
  /\ open' = open \cup {dialled + 1}
  /\ \E ok \in BOOLEAN :
        /\ connection' = IF ok THEN dialled + 1 ELSE connection
        /\ RedialReturns(caller, ok)
  /\ UNCHANGED <<clockVars, mutex, PendingRequestsMap, sendVars, sentVars, failVars, rcvdVars,
                 dropVars, labelVars, wire, readConn, stopVars, confVars>>

RedialDialFails(caller) ==
  /\ pc[caller] = "dial"
  /\ RedialReturns(caller, FALSE)
  /\ UNCHANGED <<clockVars, mutex, PendingRequestsMap, sendVars, sentVars, failVars, rcvdVars,
                 dropVars, labelVars, sockVars, wire, readConn, stopVars, confVars>>

RedialDestination(caller) ==
  RedialKeepsSocket(caller) \/ RedialCloses(caller)
    \/ RedialDials(caller) \/ RedialDialFails(caller)

-------------------------------------------------------------------------------
(* StartPackets.                                                            *)

SenderBegin ==
  /\ pc.sender = "begin"
  /\ epoch' = now
  /\ Goto("sender", IF IsService THEN "dummy" ELSE "top")
  /\ UNCHANGED <<clockVars, mutex, PendingRequestsMap, packetSequence, sendTimeStamp, targetSeq,
                 pausedAt, sentVars, failVars, rcvdVars, dropVars, labelVars, sockVars, wire,
                 readConn, scanVars, stopVars, confVars>>

\* The base message cannot be encoded.
SenderCannotStart ==
  /\ pc.sender = "begin"
  /\ Exit("sender")
  /\ trafficNotStarted' = trafficNotStarted + 1
  /\ UNCHANGED <<clockVars, mutex, PendingRequestsMap, sendVars, sentVars, failVars, rcvdVars,
                 dropVars, labelVars, sockVars, wire, readConn, scanVars, stop, suspendTraffic,
                 sendRate>>

\* sendDummyPackets: a random number of rounds, each writing a test packet
\* and redialling; a failing write ends it.
SenderDummy ==
  /\ pc.sender = "dummy"
  /\ \/ /\ connection \in open
        /\ wire' = wire \cup {[seq |-> -1, conn |-> connection]}
        /\ Goto("sender", "redial")
     \/ /\ Goto("sender", "top")
        /\ UNCHANGED wire
  /\ UNCHANGED <<clockVars, mutex, PendingRequestsMap, sendVars, sentVars, failVars, rcvdVars,
                 dropVars, labelVars, sockVars, readConn, scanVars, stopVars, confVars>>

SenderStops ==
  /\ pc.sender = "top"
  /\ stop
  /\ Exit("sender")
  /\ UNCHANGED <<clockVars, mutex, PendingRequestsMap, sendVars, sentVars, failVars, rcvdVars,
                 dropVars, labelVars, sockVars, wire, readConn, scanVars, stop, confVars>>

SenderPauses ==
  /\ pc.sender = "top"
  /\ ~stop
  /\ suspendTraffic
  /\ now <= MaxSendTime
  /\ pausedAt' = now
  /\ Goto("sender", "paused")
  /\ UNCHANGED <<clockVars, mutex, PendingRequestsMap, packetSequence, sendTimeStamp, targetSeq,
                 epoch, sentVars, failVars, rcvdVars, dropVars, labelVars, sockVars, wire,
                 readConn, scanVars, stopVars, confVars>>

\* What a pause adds to pausePeriod, so that it is not made up for later.
\* Mutant: nothing.
PauseForgotten == 0
PauseTaken == now - pausedAt

\* Mutant: the test packets are sent again after a pause.
SenderWakesWithDummies ==
  /\ pc.sender = "paused"
  /\ now >= pausedAt + PacketTimeout
  /\ epoch' = epoch + PauseTaken
  /\ Goto("sender", IF IsService THEN "dummy" ELSE "top")
  /\ UNCHANGED <<clockVars, mutex, PendingRequestsMap, packetSequence, sendTimeStamp, targetSeq,
                 pausedAt, sentVars, failVars, rcvdVars, dropVars, labelVars, sockVars, wire,
                 readConn, scanVars, stopVars, confVars>>
SenderWakes ==
  /\ pc.sender = "paused"
  /\ now >= pausedAt + PacketTimeout
  /\ epoch' = epoch + PauseTaken
  /\ Goto("sender", "top")
  /\ UNCHANGED <<clockVars, mutex, PendingRequestsMap, packetSequence, sendTimeStamp, targetSeq,
                 pausedAt, sentVars, failVars, rcvdVars, dropVars, labelVars, sockVars, wire,
                 readConn, scanVars, stopVars, confVars>>

SenderTargets ==
  /\ pc.sender = "top"
  /\ ~stop
  /\ ~suspendTraffic
  /\ targetSeq' = (now - epoch) * sendRate
  /\ Goto("sender", "loop")
  /\ UNCHANGED <<clockVars, mutex, PendingRequestsMap, packetSequence, sendTimeStamp, epoch,
                 pausedAt, sentVars, failVars, rcvdVars, dropVars, labelVars, sockVars, wire,
                 readConn, scanVars, stopVars, confVars>>

MoreToSend ==
  /\ packetSequence < targetSeq
  /\ packetSequence < MaxSeq
  /\ now <= MaxSendTime

\* packetSequence is incremented without the mutex; encoding can fail.
SenderNext ==
  /\ pc.sender = "loop"
  /\ MoreToSend
  /\ packetSequence' = packetSequence + 1
  /\ sendTimeStamp' = now
  /\ \E encoded \in BOOLEAN : Goto("sender", IF encoded THEN "insert" ELSE "failInc")
  /\ UNCHANGED <<clockVars, mutex, PendingRequestsMap, targetSeq, epoch, pausedAt, sentVars,
                 failVars, rcvdVars, dropVars, labelVars, sockVars, wire, readConn, scanVars,
                 stopVars, confVars>>

SenderRests ==
  /\ pc.sender = "loop"
  /\ ~MoreToSend
  /\ Goto("sender", "top")
  /\ UNCHANGED <<clockVars, mutex, PendingRequestsMap, sendVars, sentVars, failVars, rcvdVars,
                 dropVars, labelVars, sockVars, wire, readConn, scanVars, stopVars, confVars>>

SenderInserts ==
  /\ pc.sender = "insert"
  /\ Lock
  /\ PendingRequestsMap' = [s \in Pending \cup {packetSequence} |->
                              IF s = packetSequence THEN sendTimeStamp ELSE PendingRequestsMap[s]]
  /\ Goto("sender", "write")
  /\ UNCHANGED <<clockVars, mutex, sendVars, sentVars, failVars, rcvdVars, dropVars, labelVars,
                 sockVars, wire, readConn, scanVars, stopVars, confVars>>

\* A write on a closed socket fails; one on an open socket can fail too.
SenderWrites ==
  /\ pc.sender = "write"
  /\ \/ /\ connection \in open
        /\ wire' = wire \cup {[seq |-> packetSequence, conn |-> connection]}
        /\ Goto("sender", "sentInc")
     \/ /\ Goto("sender", "undo")
        /\ UNCHANGED wire
  /\ UNCHANGED <<clockVars, mutex, PendingRequestsMap, sendVars, sentVars, failVars, rcvdVars,
                 dropVars, labelVars, sockVars, readConn, scanVars, stopVars, confVars>>

SenderUndoes ==
  /\ pc.sender = "undo"
  /\ Lock
  /\ Delete(packetSequence)
  /\ Goto("sender", "failInc")
  /\ UNCHANGED <<clockVars, mutex, sendVars, sentVars, failVars, rcvdVars, dropVars, labelVars,
                 sockVars, wire, readConn, scanVars, stopVars, confVars>>

\* Neither half of these counter updates is protected by the mutex.  An Inc
\* on a counter the reader has just replaced goes to the replaced one, which
\* is the same as an Inc just before the replacement.
SenderCountsFailure ==
  /\ \/ /\ pc.sender = "failInc"
        /\ packetSendFailed' = packetSendFailed + 1
        /\ UNCHANGED packetSendFailedVal
        /\ Goto("sender", "failVal")
     \/ /\ pc.sender = "failVal"
        /\ packetSendFailedVal' = packetSendFailedVal + 1
        /\ UNCHANGED packetSendFailed
        /\ Goto("sender", "loop")
  /\ UNCHANGED <<clockVars, mutex, PendingRequestsMap, sendVars, sentVars, rcvdVars, dropVars,
                 labelVars, sockVars, wire, readConn, scanVars, stopVars, confVars>>

SenderCountsSent ==
  /\ \/ /\ pc.sender = "sentInc"
        /\ packetSent' = packetSent + 1
        /\ UNCHANGED packetSentVal
        /\ Goto("sender", "sentVal")
     \/ /\ pc.sender = "sentVal"
        /\ packetSentVal' = packetSentVal + 1
        /\ UNCHANGED packetSent
        /\ Goto("sender", "loop")
  /\ UNCHANGED <<clockVars, mutex, PendingRequestsMap, sendVars, failVars, rcvdVars, dropVars,
                 labelVars, sockVars, wire, readConn, scanVars, stopVars, confVars>>

StartPackets ==
  \/ SenderBegin \/ SenderCannotStart \/ SenderDummy \/ RedialDestination("sender")
  \/ SenderStops \/ SenderPauses \/ SenderWakes \/ SenderTargets \/ SenderNext \/ SenderRests
  \/ SenderInserts \/ SenderWrites \/ SenderUndoes \/ SenderCountsFailure \/ SenderCountsSent

-------------------------------------------------------------------------------
(* SocketRead.                                                              *)

ReaderStops ==
  /\ pc.reader = "check"
  /\ stop
  /\ Exit("reader")
  /\ UNCHANGED <<clockVars, mutex, PendingRequestsMap, sendVars, sentVars, failVars, rcvdVars,
                 dropVars, labelVars, sockVars, wire, readConn, scanVars, stop, confVars>>

ReaderGoesOn ==
  /\ pc.reader = "check"
  /\ ~stop
  /\ Goto("reader", "load")
  /\ UNCHANGED <<clockVars, mutex, PendingRequestsMap, sendVars, sentVars, failVars, rcvdVars,
                 dropVars, labelVars, sockVars, wire, readConn, scanVars, stopVars, confVars>>

\* ReadFromUDP is called on the socket c.connection is at that moment, and
\* returns at once with an error when that one is closed.
ReaderLoads ==
  /\ pc.reader = "load"
  /\ readConn' = connection
  /\ Goto("reader", IF connection \in open THEN "blocked" ELSE "check")
  /\ UNCHANGED <<clockVars, mutex, PendingRequestsMap, sendVars, sentVars, failVars, rcvdVars,
                 dropVars, labelVars, sockVars, wire, scanVars, stopVars, confVars>>

ReaderFails ==
  /\ pc.reader = "blocked"
  /\ readConn \notin open
  /\ Goto("reader", "check")
  /\ UNCHANGED <<clockVars, mutex, PendingRequestsMap, sendVars, sentVars, failVars, rcvdVars,
                 dropVars, labelVars, sockVars, wire, readConn, scanVars, stopVars, confVars>>

\* The answer to a test packet, one that cannot be decoded, an ICMP error, or
\* one whose packet is no longer pending: it timed out, or is a duplicate.
ReaderIgnores(m) ==
  /\ pc.reader = "blocked"
  /\ m \in wire /\ m.conn = readConn
  /\ Goto("reader", "check")
  /\ UNCHANGED <<clockVars, mutex, PendingRequestsMap, sendVars, sentVars, failVars, rcvdVars,
                 dropVars, labelVars, sockVars, wire, readConn, scanVars, stopVars, confVars>>

\* The answer of a pending packet, from a server that calls itself server.
\* The mutex is kept when the labels changed, until the metrics are registered
\* again; reRegisterStreamMetrics starts by removing the old ones.
ReaderReceives(m, server) ==
  /\ pc.reader = "blocked"
  /\ Lock
  /\ m \in wire /\ m.conn = readConn
  /\ m.seq \in Pending
  /\ packetReceived' = packetReceived + 1
  /\ packetReceivedVal' = packetReceivedVal + 1
  /\ Delete(m.seq)
  /\ serverLabel' = server
  /\ IF server = serverLabel
     THEN Goto("reader", "check") /\ UNCHANGED <<mutex, registered>>
     ELSE Goto("reader", "swapSent") /\ mutex' = "reader" /\ registered' = FALSE
  /\ UNCHANGED <<clockVars, sendVars, sentVars, failVars, dropVars, sockVars, wire, readConn,
                 scanVars, stopVars, confVars>>

\* A new counter with the value kept beside the old one added.
\* Mutant: the value is not carried over.
NotRestored(counter, val) == counter
Restored(counter, val) == counter + val

\* registerStreamMetrics: each counter is replaced by a new one, which is then
\* advanced to the value kept beside it.  The sender does not wait for that.
ReaderReplacesSent ==
  /\ \/ /\ pc.reader = "swapSent"
        /\ packetSent' = 0
        /\ Goto("reader", "addSent")
     \/ /\ pc.reader = "addSent"
        /\ packetSent' = Restored(packetSent, packetSentVal)
        /\ Goto("reader", "swapFailed")
  /\ UNCHANGED <<clockVars, mutex, PendingRequestsMap, sendVars, packetSentVal, failVars, rcvdVars,
                 dropVars, labelVars, sockVars, wire, readConn, scanVars, stopVars, confVars>>

ReaderReplacesFailed ==
  /\ pc.reader = "swapFailed"
  /\ packetSendFailed' = 0
  /\ Goto("reader", "addFailed")
  /\ UNCHANGED <<clockVars, mutex, PendingRequestsMap, sendVars, sentVars, packetSendFailedVal,
                 rcvdVars, dropVars, labelVars, sockVars, wire, readConn, scanVars, stopVars,
                 confVars>>

\* The other counters are only touched under the mutex.
ReaderReplacesRest ==
  /\ pc.reader = "addFailed"
  /\ packetSendFailed' = Restored(packetSendFailed, packetSendFailedVal)
  /\ packetReceived' = Restored(0, packetReceivedVal)
  /\ packetDropped' = Restored(0, packetDroppedVal)
  /\ registered' = TRUE
  /\ mutex' = "free"
  /\ Goto("reader", "check")
  /\ UNCHANGED <<clockVars, PendingRequestsMap, sendVars, sentVars, packetSendFailedVal,
                 packetReceivedVal, packetDroppedVal, serverLabel, sockVars, wire, readConn,
                 scanVars, stopVars, confVars>>

\* What the goroutine does by itself; answers are up to the network.
ReaderRuns ==
  \/ ReaderStops \/ ReaderGoesOn \/ ReaderLoads \/ ReaderFails
  \/ ReaderReplacesSent \/ ReaderReplacesFailed \/ ReaderReplacesRest

SocketRead ==
  \/ ReaderRuns
  \/ \E m \in wire : ReaderIgnores(m)
  \/ \E m \in wire, server \in Servers : ReaderReceives(m, server)

-------------------------------------------------------------------------------
(* HandleTimeouts.                                                          *)

TimeoutsReadsConfig ==
  /\ pc.timeouts = "begin"
  /\ redialTimeoutSuccessiveRequests' = PacketTimeout * sendRate
  /\ Goto("timeouts", "outer")
  /\ UNCHANGED <<clockVars, mutex, PendingRequestsMap, sendVars, sentVars, failVars, rcvdVars,
                 dropVars, labelVars, sockVars, wire, readConn, seq, startTimeout,
                 timedoutPktCount, stopVars, confVars>>

\* Between two rounds it sleeps; c.stop is read before and during a round.
TimeoutsStops ==
  /\ \/ pc.timeouts = "outer"
     \/ pc.timeouts = "scan" /\ seq < packetSequence
  /\ stop
  /\ Exit("timeouts")
  /\ UNCHANGED <<clockVars, mutex, PendingRequestsMap, sendVars, sentVars, failVars, rcvdVars,
                 dropVars, labelVars, sockVars, wire, readConn, scanVars, stop, confVars>>

TimeoutsBegins ==
  /\ pc.timeouts = "outer"
  /\ ~stop
  /\ Goto("timeouts", "scan")
  /\ UNCHANGED <<clockVars, mutex, PendingRequestsMap, sendVars, sentVars, failVars, rcvdVars,
                 dropVars, labelVars, sockVars, wire, readConn, scanVars, stopVars, confVars>>

\* The cursor stays behind the packet being sent.
\* Mutant: it may catch up with it.
ToScanNewest == seq <= packetSequence
ToScan == seq < packetSequence

\* Mutant: the timeout is in the wrong unit.
ExpiredLater(s) == now - PendingRequestsMap[s] > 1000 * PacketTimeout
Expired(s) == now - PendingRequestsMap[s] > PacketTimeout

\* The cursor has caught up, or its packet still has time: the round is over.
TimeoutsRests ==
  /\ pc.timeouts = "scan"
  /\ \/ ~ToScan
     \/ ToScan /\ ~stop /\ Lock /\ seq \in Pending /\ ~Expired(seq)
  /\ Goto("timeouts", "outer")
  /\ UNCHANGED <<clockVars, mutex, PendingRequestsMap, sendVars, sentVars, failVars, rcvdVars,
                 dropVars, labelVars, sockVars, wire, readConn, scanVars, stopVars, confVars>>

\* The packet was answered or never sent: successive timeouts start over.
TimeoutsSkips ==
  /\ pc.timeouts = "scan"
  /\ ToScan /\ ~stop /\ Lock
  /\ seq \notin Pending
  /\ timedoutPktCount' = 0
  /\ seq' = seq + 1
  /\ Goto("timeouts", IF seq + 1 = packetSequence THEN "outer" ELSE "scan")
  /\ UNCHANGED <<clockVars, mutex, PendingRequestsMap, sendVars, sentVars, failVars, rcvdVars,
                 dropVars, labelVars, sockVars, wire, readConn, startTimeout,
                 redialTimeoutSuccessiveRequests, stopVars, confVars>>

TimeoutsDrops ==
  /\ pc.timeouts = "scan"
  /\ ToScan /\ ~stop /\ Lock
  /\ seq \in Pending /\ Expired(seq)
  /\ packetDropped' = packetDropped + 1
  /\ packetDroppedVal' = packetDroppedVal + 1
  /\ Delete(seq)
  /\ seq' = seq + 1
  /\ Goto("timeouts", "decide")
  /\ UNCHANGED <<clockVars, mutex, sendVars, sentVars, failVars, rcvdVars, labelVars, sockVars,
                 wire, readConn, startTimeout, timedoutPktCount, redialTimeoutSuccessiveRequests,
                 stopVars, confVars>>

\* After a drop: redial when the redial timeout has passed since the first
\* drop or, once a redial succeeded, after enough successive drops.
TimeoutsDecides ==
  /\ pc.timeouts = "decide"
  /\ startTimeout' = IF startTimeout = 0 THEN now ELSE startTimeout
  /\ timedoutPktCount' = IF startTimeout = -1 THEN timedoutPktCount + 1 ELSE timedoutPktCount
  /\ Goto("timeouts",
          IF /\ IsDN
             /\ \/ startTimeout' > 0 /\ now - startTimeout' > RedialTimeout
                \/ timedoutPktCount' > redialTimeoutSuccessiveRequests
          THEN "redial" ELSE "scan")
  /\ UNCHANGED <<clockVars, mutex, PendingRequestsMap, sendVars, sentVars, failVars, rcvdVars,
                 dropVars, labelVars, sockVars, wire, readConn, seq,
                 redialTimeoutSuccessiveRequests, stopVars, confVars>>

HandleTimeouts ==
  \/ TimeoutsReadsConfig \/ TimeoutsStops \/ TimeoutsBegins \/ TimeoutsRests \/ TimeoutsSkips
  \/ TimeoutsDrops \/ TimeoutsDecides \/ RedialDestination("timeouts")

-------------------------------------------------------------------------------
(* TearDownConnection, once SetupConnection has returned.                   *)

TearDownBegins ==
  /\ pc.teardown = "idle"
  /\ pc.setup # "new"
  /\ IF connection = 0
     THEN Goto("teardown", "stopped") /\ UNCHANGED stop
     ELSE Goto("teardown", "close") /\ stop' = TRUE
  /\ UNCHANGED <<clockVars, mutex, PendingRequestsMap, sendVars, sentVars, failVars, rcvdVars,
                 dropVars, labelVars, sockVars, wire, readConn, scanVars, isStopped, confVars>>

\* Mutant: the socket is not closed.
TearDownLeavesOpen ==
  /\ pc.teardown = "close"
  /\ Goto("teardown", "wait")
  /\ UNCHANGED <<clockVars, mutex, PendingRequestsMap, sendVars, sentVars, failVars, rcvdVars,
                 dropVars, labelVars, sockVars, wire, readConn, scanVars, stopVars, confVars>>
TearDownCloses ==
  /\ pc.teardown = "close"
  /\ open' = open \ {connection}
  /\ Goto("teardown", "wait")
  /\ UNCHANGED <<clockVars, mutex, PendingRequestsMap, sendVars, sentVars, failVars, rcvdVars,
                 dropVars, labelVars, connection, dialled, wire, readConn, scanVars, stopVars,
                 confVars>>

\* Mutant: it does not wait for the goroutines.
TearDownDoesNotWait ==
  /\ pc.teardown = "wait"
  /\ registered' = FALSE
  /\ Goto("teardown", "stopped")
  /\ UNCHANGED <<clockVars, mutex, PendingRequestsMap, sendVars, sentVars, failVars, rcvdVars,
                 dropVars, serverLabel, sockVars, wire, readConn, scanVars, stopVars, confVars>>
\* Only then are the metrics removed, so that nothing registers them again.
TearDownFinishes ==
  /\ pc.teardown = "wait"
  /\ isStopped = 0
  /\ registered' = FALSE
  /\ Goto("teardown", "stopped")
  /\ UNCHANGED <<clockVars, mutex, PendingRequestsMap, sendVars, sentVars, failVars, rcvdVars,
                 dropVars, serverLabel, sockVars, wire, readConn, scanVars, stopVars, confVars>>

TearDownConnection == TearDownBegins \/ TearDownCloses \/ TearDownFinishes

Next ==
  \/ Tick \/ LoadSuspendTraffic \/ LoadSendRate
  \/ SetupConnection \/ SetupConnectionFails \/ SetupConnectionPanics
  \/ StartPackets \/ SocketRead \/ HandleTimeouts
  \/ TearDownConnection

Spec == Init /\ [][Next]_vars

\* Go's scheduler runs every goroutine that can run, and time passes.  What
\* the network and the controller do is not promised.
Fairness ==
  /\ WF_vars(Tick)
  /\ WF_vars(StartPackets)
  /\ WF_vars(ReaderRuns)
  /\ WF_vars(HandleTimeouts)
  /\ WF_vars(TearDownCloses \/ TearDownFinishes)

FairSpec == Spec /\ Fairness

-------------------------------------------------------------------------------
(* Properties.                                                              *)

SenderLabels == {"unborn", "begin", "dummy", "redial", "dial", "top", "paused", "loop",
                 "insert", "write", "undo", "failInc", "failVal", "sentInc", "sentVal", "done"}
ReaderLabels == {"unborn", "check", "load", "blocked", "swapSent", "addSent", "swapFailed",
                 "addFailed", "done"}
TimeoutsLabels == {"unborn", "begin", "outer", "scan", "decide", "redial", "dial", "done"}

\* Every field has the type udpStream and the locals of its methods give it.
TypeOK ==
  /\ now \in Nat
  /\ pc \in [setup : {"new", "failed", "started"}, sender : SenderLabels, reader : ReaderLabels,
             timeouts : TimeoutsLabels, teardown : {"idle", "close", "wait", "stopped"}]
  /\ mutex \in {"free", "reader"}
  /\ Pending \subseteq 1..packetSequence
  /\ PendingRequestsMap \in [Pending -> Nat]
  /\ packetSequence \in 0..MaxSeq /\ sendTimeStamp \in Nat
  /\ targetSeq \in Int /\ epoch \in Int /\ pausedAt \in Nat
  /\ packetSent \in Nat /\ packetSentVal \in Nat
  /\ packetSendFailed \in Nat /\ packetSendFailedVal \in Nat
  /\ packetReceived \in Nat /\ packetReceivedVal \in Nat
  /\ packetDropped \in Nat /\ packetDroppedVal \in Nat
  /\ serverLabel \in Servers \cup {NoServer} /\ registered \in BOOLEAN
  /\ trafficNotStarted \in Nat
  /\ dialled \in 0..MaxDials /\ connection \in 0..dialled /\ open \in SUBSET (1..dialled)
  /\ wire \in SUBSET [seq : {-1} \cup (1..packetSequence), conn : 1..dialled]
  /\ readConn \in 0..dialled
  /\ seq \in Nat \ {0} /\ startTimeout \in Nat \cup {-1} /\ timedoutPktCount \in Nat
  /\ redialTimeoutSuccessiveRequests \in Int
  /\ stop \in BOOLEAN /\ isStopped \in 0..3
  /\ suspendTraffic \in BOOLEAN /\ sendRate \in Rates
  /\ running \in Nat

\* The packets the books call outstanding: those in the map, and the newest one
\* before it is put there or after a failed write has taken it out.
Outstanding ==
  Pending \cup {p \in {packetSequence} : pc.sender \in {"insert", "failInc", "failVal"}}

Ledger == INSTANCE PacketLedger WITH
  issued <- packetSequence, outstanding <- Outstanding, received <- packetReceivedVal,
  dropped <- packetDroppedVal, failed <- packetSendFailedVal

\* The three goroutines together keep the books of PacketLedger: a packet is
\* settled once, whatever the order of its reply, its timeout and its write error.
ImplementsLedger == Ledger!LedgerSpec

\* The counters and the map account for every packet, none twice, at every
\* moment: also between a failed write and its undoing.
PacketsBalanced == Ledger!Balanced

\* HandleTimeouts never moves its cursor past a packet that is still pending:
\* such a packet would stay in the map for ever and never count as dropped.
CursorBehindPending == \A s \in Pending : seq <= s

SenderIdle == pc.sender \in {"top", "paused", "loop", "done"}

\* Between two sends, the packets counted as sent are those received, those
\* dropped and those pending, so the drop rate is a fraction of what was sent.
SentAreAccountedFor ==
  SenderIdle => packetSentVal = packetReceivedVal + packetDroppedVal + Cardinality(Pending)

\* Registering the metrics again, while the other goroutines run, loses no
\* received and no dropped packet.
LockedMetricsExact ==
  mutex = "free" => packetReceived = packetReceivedVal /\ packetDropped = packetDroppedVal

\* The exported packets_sent is off by at most one packet, however often the
\* metrics are registered again: the sender updates it without the mutex but
\* has to take the mutex between two packets.
SentMetricWithinOne ==
  mutex = "free" /\ pc.sender # "sentVal" => packetSent - packetSentVal \in -1..1

\* StartPackets (test packets) and HandleTimeouts never replace the
\* connection at the same time, though neither takes the mutex for it.
SingleRedialer ==
  ~(pc.sender \in {"dummy", "redial", "dial"} /\ pc.timeouts \in {"decide", "redial", "dial"})

\* Once TearDownConnection has returned, no stream metric is registered and
\* no goroutine of the stream touches the map, the counters or the sockets.
QuietAfterTearDown ==
  pc.teardown = "stopped" =>
     ~registered /\ {pc.sender, pc.reader, pc.timeouts} \subseteq {"unborn", "done"}

\* n packets are no more than one of the rates allows in the time the stream ran
\* and was not suspended.
Allowed(n) == n > 0 => \E rate \in Rates : n <= rate * running

\* The stream never sends faster than its rate allows in the time it was not
\* suspended: after a suspension StartPackets does not make up for the packets
\* of the pause, however often it was suspended and wherever it was then.  When
\* the rate changes, this is the highest of the rates, for the code applies a
\* new rate to the whole past.
NoCatchUpBurst == Allowed(packetSequence)

\* A packet that another one follows is settled in the end: HandleTimeouts
\* comes to it, unless the stream is torn down first.
OldPacketsSettle ==
  \A s \in 1..(MaxSeq - 1) : (s \in Pending /\ s < packetSequence) ~> (s \notin Pending \/ stop)

\* TearDownConnection returns: all three goroutines see c.stop.  It holds for
\* streams that never redial.  For a domain name or a service the code does not
\* keep it: a redial in flight sets a connection that nobody closes.
TearDownReturns == (pc.teardown = "close") ~> (pc.teardown = "stopped")

\* "redial after redial timeout when dial itself fails" (pkg/tgen/udp.go:320).
\* The code does not keep this: while the connection is closed every write fails
\* and leaves nothing pending, and only a packet that times out makes
\* HandleTimeouts redial.
RedialAfterDialFailure ==
  (/\ pc.setup = "started" /\ ~stop
   /\ connection \notin open /\ pc.timeouts = "outer"
   /\ Pending = {} /\ packetSendFailedVal > 0)
  ~> (pc.timeouts = "redial" \/ stop)
===============================================================================
