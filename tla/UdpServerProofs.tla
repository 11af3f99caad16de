--------------------------- MODULE UdpServerProofs ---------------------------
(***************************************************************************)
(* Theorems about UdpServer, for any streams, addresses and timeout.       *)
(***************************************************************************)
EXTENDS UdpServer, FiniteSetTheorems, TLAPS

\* The part of the type invariant that the gauge depends on.
ServerTypeInv ==
  /\ now \in Nat /\ currentTimeStamp \in Nat
  /\ run \in [Streams -> 1..MaxRuns] /\ lastSeq \in [Streams -> 0..MaxSeq]
  /\ pc \in [setup : {"new", "failed", "started"},
             reader : {"unborn", "check", "read", "count", "reply", "done"},
             idle : {"unborn", "check", "evict", "done"},
             teardown : {"idle", "close", "wait", "stopped"}]
  /\ sent \subseteq Packets
  /\ pc.reader = "count" => msg \in Packets
  /\ activeClientsMap \in [Clients -> [lastSeen : Nat, arrivedMaxSeq : Nat]]
  /\ lastArrival \in [Streams -> Nat \cup {-1}]

GaugeInv == IsFiniteSet(Clients) /\ activeClientStreams = Cardinality(Clients)

\* A client is last seen when the newest packet of its streams was counted, and
\* only a client none of whose streams is live is not in the map.  The stale
\* currentTimeStamp errs on the side of keeping a client.
SeenInv ==
  /\ currentTimeStamp <= now
  /\ \A st \in Streams : lastArrival[st] <= now
  /\ \A st \in Streams :
        lastArrival[st] >= 0 =>
          IF IpOf[st] \in Clients
          THEN lastArrival[st] <= activeClientsMap[IpOf[st]].lastSeen
          ELSE lastArrival[st] + ConnectionTimeout < now

ServerInv == ServerTypeInv /\ GaugeInv /\ SeenInv

\* A server that has not started has no clients.
LEMMA ServerInvInit == Init => ServerInv
<1> SUFFICES ASSUME Init PROVE ServerInv
  OBVIOUS
<1>1. Clients = {} /\ activeClientsMap \in [Clients -> [lastSeen : Nat, arrivedMaxSeq : Nat]]
  BY DEF Init, Clients
<1>2. ServerTypeInv
  BY <1>1, ServerBoundAssumption DEF Init, ServerTypeInv
<1>3. GaugeInv
  BY <1>1, FS_EmptySet DEF Init, GaugeInv
<1>4. SeenInv
  BY DEF Init, SeenInv
<1> QED BY <1>2, <1>3, <1>4 DEF ServerInv

\* The steps that leave the clients alone, and the two that do not.
LEMMA ServerInvNext == ServerInv /\ [Next]_vars => ServerInv'
<1> SUFFICES ASSUME ServerInv, [Next]_vars PROVE ServerInv'
  OBVIOUS
<1>0. ServerTypeInv /\ GaugeInv /\ SeenInv
  BY DEF ServerInv
<1> USE DEF Clients, Goto, Exit, SeqDiff, NewMaxSeq, clientVars, metricVars, lifeVars, historyVars
<1>1. ASSUME ServerTypeInv', now' >= now, currentTimeStamp' <= now',
             UNCHANGED <<activeClientsMap, activeClientStreams, lastArrival>>
      PROVE  ServerInv'
  <2>1. GaugeInv'
    BY <1>0, <1>1 DEF GaugeInv
  <2>2. SeenInv'
    BY <1>0, <1>1, StreamAssumption, ServerTimeAssumption DEF SeenInv, ServerTypeInv
  <2> QED BY <1>1, <2>1, <2>2 DEF ServerInv
<1>2. CASE Environment
  BY <1>0, <1>1, <1>2, ServerBoundAssumption
     DEF Environment, Tick, StreamSends, StreamRestarts, ServerTypeInv, SeenInv,
         Packets
<1>3. CASE SetupServerConnection \/ SetupServerConnectionFails
  <2>1. ServerTypeInv'
    BY <1>0, <1>3 DEF SetupServerConnection, SetupServerConnectionFails, ServerTypeInv
  <2> QED
    BY <1>0, <1>1, <1>3, <2>1
       DEF SetupServerConnection, SetupServerConnectionFails, ServerTypeInv, SeenInv
<1>4. CASE TearDownServer
  BY <1>0, <1>1, <1>4
     DEF TearDownServer, TearDownBegins, TearDownCloses, TearDownFinishes, ServerTypeInv, SeenInv
<1>5. CASE Terminated \/ UNCHANGED vars
  BY <1>0, <1>1, <1>5 DEF Terminated, vars, ServerTypeInv, SeenInv
<1>6. CASE ReaderChecks \/ ReaderFails \/ ReaderReplies \/ IdleChecks
  BY <1>0, <1>1, <1>6
     DEF ReaderChecks, ReaderFails, ReaderReplies, IdleChecks, ServerTypeInv, SeenInv
<1>7. ASSUME NEW p \in sent \cup TestPackets, ReaderReads(p) PROVE ServerInv'
  BY <1>0, <1>1, <1>7 DEF ReaderReads, TestPackets, ServerTypeInv, SeenInv
<1>8. CASE ReaderCounts
  <2> DEFINE ip == IpOf[msg.stream]
  <2>1. msg \in Packets /\ msg.stream \in Streams
    BY <1>0, <1>8 DEF ReaderCounts, ServerTypeInv, Packets
  <2>2. Clients' = Clients \cup {ip}
    BY <1>8 DEF ReaderCounts
  <2>3. GaugeInv'
    <3>1. /\ IsFiniteSet(Clients \cup {ip})
          /\ Cardinality(Clients \cup {ip}) =
               IF ip \in Clients THEN Cardinality(Clients) ELSE Cardinality(Clients) + 1
      BY <1>0, FS_AddElement DEF GaugeInv
    <3>2. activeClientStreams' = activeClientStreams + (IF ip \in Clients THEN 0 ELSE 1)
      BY <1>8 DEF ReaderCounts
    <3>3. Cardinality(Clients) \in Nat
      BY <1>0, FS_CardinalityType DEF GaugeInv
    <3> HIDE DEF Clients, ip
    <3> QED BY <1>0, <2>2, <3>1, <3>2, <3>3 DEF GaugeInv
  <2>4. ServerTypeInv'
    BY <1>0, <1>8, <2>1, ServerBoundAssumption DEF ReaderCounts, ServerTypeInv, EntryOf, Packets
  <2>5. SeenInv'
    <3>1. /\ now' = now /\ currentTimeStamp' = currentTimeStamp
          /\ lastArrival' = [lastArrival EXCEPT ![msg.stream] = now]
          /\ activeClientsMap'[ip].lastSeen = now
          /\ \A c \in Clients \ {ip} : activeClientsMap'[c] = activeClientsMap[c]
      BY <1>8 DEF ReaderCounts
    <3>2. \A st \in Streams : lastArrival'[st] <= now'
      BY <1>0, <2>1, <3>1 DEF SeenInv, ServerTypeInv
    <3>3. SUFFICES ASSUME NEW st \in Streams, lastArrival'[st] >= 0
                   PROVE  IF IpOf[st] \in Clients'
                          THEN lastArrival'[st] <= activeClientsMap'[IpOf[st]].lastSeen
                          ELSE lastArrival'[st] + ConnectionTimeout < now
      BY <1>0, <3>1, <3>2 DEF SeenInv
    <3>4. CASE st = msg.stream
      BY <1>0, <2>1, <2>2, <3>1, <3>4 DEF ServerTypeInv
    <3>5. CASE st # msg.stream /\ IpOf[st] = ip
      BY <1>0, <2>1, <2>2, <3>1, <3>5, <3>2 DEF ServerTypeInv, SeenInv
    <3>6. CASE IpOf[st] # ip
      BY <1>0, <2>1, <2>2, <3>1, <3>3, <3>6 DEF ServerTypeInv, SeenInv
    <3> QED BY <3>4, <3>5, <3>6
  <2> QED BY <2>3, <2>4, <2>5 DEF ServerInv
<1>9. CASE IdleEvicts
  <2>1. Clients' = Clients \ IdleClients /\ IdleClients \subseteq Clients
    BY <1>9 DEF IdleEvicts, IdleClients
  <2>2. GaugeInv'
    <3>1. Clients \cap IdleClients = IdleClients
      BY <2>1
    <3>2. /\ IsFiniteSet(Clients \ IdleClients)
          /\ Cardinality(Clients \ IdleClients) = Cardinality(Clients) - Cardinality(IdleClients)
      BY <1>0, <3>1, FS_Difference DEF GaugeInv
    <3>3. activeClientStreams' = activeClientStreams - Cardinality(IdleClients)
      BY <1>9 DEF IdleEvicts
    <3> HIDE DEF Clients
    <3> QED BY <1>0, <2>1, <3>2, <3>3 DEF GaugeInv
  <2>3. ServerTypeInv'
    BY <1>0, <1>9 DEF IdleEvicts, ServerTypeInv
  <2>4. SeenInv'
    BY <1>0, <1>9, <2>1, StreamAssumption, ServerTimeAssumption
       DEF IdleEvicts, IdleClients, ServerTypeInv, SeenInv
  <2> QED BY <2>2, <2>3, <2>4 DEF ServerInv
<1> QED
  BY <1>2, <1>3, <1>4, <1>5, <1>6, <1>7, <1>8, <1>9
     DEF Next, ReadFromSocket, ReaderRuns, HandleIdleConnections

\* The gauge is the number of clients in the map, and every client heard from
\* within the timeout is there.
THEOREM GaugeExact == Spec => []GaugeCountsLiveClients
<1>1. ServerInv => GaugeCountsLiveClients
  BY StreamAssumption, ServerTimeAssumption
     DEF ServerInv, ServerTypeInv, GaugeInv, SeenInv, GaugeCountsLiveClients, LiveStreams
<1> QED BY <1>1, ServerInvInit, ServerInvNext, PTL DEF Spec
-------------------------------------------------------------------------------
(* The life of the server: who has signalled the wait group.                *)

Unsignalled(label) == IF label = "done" THEN 0 ELSE 1

\* The wait group counts the goroutines that have not returned, TearDownServer
\* runs only on a server that was started, and it unregisters the metrics last.
LifeInv ==
  /\ registered \in BOOLEAN /\ listening \in BOOLEAN /\ stop \in BOOLEAN
  /\ isStopped = Unsignalled(pc.reader) + Unsignalled(pc.idle)
  /\ pc.setup # "started" =>
        pc.reader = "unborn" /\ pc.idle = "unborn" /\ pc.teardown = "idle"
  /\ pc.teardown = "stopped" => isStopped = 0 /\ ~registered

\* The goroutines are born with the server, and each signals once.
LEMMA LifeInvInit == Init => LifeInv
<1> SUFFICES ASSUME Init PROVE LifeInv
  OBVIOUS
<1>1. registered \in BOOLEAN /\ listening \in BOOLEAN /\ stop \in BOOLEAN
  BY Zenon DEF Init
<1>2. isStopped = Unsignalled(pc.reader) + Unsignalled(pc.idle)
  BY DEF Init, Unsignalled
<1> QED BY <1>1, <1>2 DEF Init, LifeInv

LEMMA LifeInvNext == ServerInv /\ LifeInv /\ [Next]_vars => LifeInv'
<1> SUFFICES ASSUME ServerTypeInv, LifeInv, [Next]_vars PROVE LifeInv'
  BY DEF ServerInv
<1> USE DEF ServerTypeInv, LifeInv, Unsignalled, Goto, Exit, lifeVars
<1>1. CASE UNCHANGED <<pc, lifeVars>>
  BY <1>1
<1>2. CASE SetupServerConnection \/ SetupServerConnectionFails
  BY <1>2 DEF SetupServerConnection, SetupServerConnectionFails
<1>3. CASE ReaderChecks \/ ReaderFails \/ ReaderCounts \/ ReaderReplies
  BY <1>3 DEF ReaderChecks, ReaderFails, ReaderCounts, ReaderReplies
<1>4. ASSUME NEW p, ReaderReads(p) PROVE LifeInv'
  BY <1>4 DEF ReaderReads
<1>5. CASE IdleChecks \/ IdleEvicts
  BY <1>5 DEF IdleChecks, IdleEvicts
<1>6. CASE TearDownServer
  <2>1. CASE TearDownBegins
    BY <2>1 DEF TearDownBegins
  <2>2. CASE TearDownCloses
    BY <2>2 DEF TearDownCloses
  <2>3. CASE TearDownFinishes
    BY <2>3 DEF TearDownFinishes
  <2> QED BY <1>6, <2>1, <2>2, <2>3, Zenon DEF TearDownServer
<1>7. CASE Environment \/ UNCHANGED vars
  BY <1>1, <1>7 DEF vars, Environment, Tick, StreamSends, StreamRestarts
<1>8. CASE ReadFromSocket
  BY <1>3, <1>4, <1>8, Zenon DEF ReadFromSocket, ReaderRuns
<1>9. CASE HandleIdleConnections
  BY <1>5, <1>9, Zenon DEF HandleIdleConnections
<1> QED
  BY <1>2, <1>6, <1>7, <1>8, <1>9, Zenon DEF Next, Terminated

\* TearDownServer returns only after both goroutines have, and leaves no metric.
THEOREM TearDownIsQuiet == Spec => []QuietAfterTearDown
<1>1. ServerInv /\ LifeInv => QuietAfterTearDown
  BY DEF ServerInv, ServerTypeInv, LifeInv, Unsignalled, QuietAfterTearDown
<1> QED BY <1>1, ServerInvInit, ServerInvNext, LifeInvInit, LifeInvNext, PTL DEF Spec

-------------------------------------------------------------------------------
(* What the loss counters count.                                            *)

PacketOf(st, r, n) == [stream |-> st, run |-> r, seq |-> n]

CountTypeInv ==
  /\ msg \in Packets \cup {NoMsg}
  /\ Clients \subseteq IPs
  /\ packetsMissing \in Nat /\ packetsLate \in Nat /\ arrivals \in Nat /\ forgotten \in Nat
  /\ arrived \subseteq sent \cup TestPackets

\* A stream numbers its packets without gaps, in every run.
SentInv ==
  /\ \A st \in Streams : \A n \in 1..lastSeq[st] : PacketOf(st, run[st], n) \in sent
  /\ \A p \in sent : p.seq >= 1
  /\ \A p \in sent : \A n \in 1..p.seq : PacketOf(p.stream, p.run, n) \in sent

\* The newest number of a client is the number of a packet one of its streams sent.
NewestInv ==
  /\ pc.reader = "count" => msg \in sent \cup TestPackets
  /\ \A ip \in Clients :
        /\ MaxSeqOf(ip) \in 0..MaxSeq
        /\ MaxSeqOf(ip) > 0 =>
             \E p \in sent : IpOf[p.stream] = ip /\ p.seq = MaxSeqOf(ip)

\* Every number the server has seen pass was counted as an arrival or as missing,
\* and is either remembered or was forgotten with its client.
BalanceInv ==
  packetsMissing - packetsLate + arrivals = Cardinality(Numbers(Clients)) + forgotten

ArrivedInv == IsFiniteSet(arrived) /\ Cardinality(arrived) <= arrivals

LossInv == CountTypeInv /\ SentInv /\ NewestInv /\ BalanceInv /\ ArrivedInv
\* Finitely many clients have finitely many numbers.
LEMMA NumbersFinite ==
  ASSUME NEW S, IsFiniteSet(S)
  PROVE  IsFiniteSet(Numbers(S)) /\ Cardinality(Numbers(S)) \in Nat
<1>1. IsFiniteSet(1..MaxSeq)
  BY FS_Interval, ServerBoundAssumption
<1>2. IsFiniteSet(S \X (1..MaxSeq))
  BY <1>1, FS_Product
<1> QED BY <1>2, FS_Subset, FS_CardinalityType DEF Numbers

\* Before the first packet nothing is counted.
LEMMA LossInvInit == Init => LossInv
<1> SUFFICES ASSUME Init PROVE LossInv
  OBVIOUS
<1>1. Clients = {}
  BY DEF Init, Clients
<1>2. CountTypeInv
  BY <1>1 DEF Init, CountTypeInv
<1>3. SentInv
  BY ServerBoundAssumption DEF Init, SentInv, PacketOf, Packets
<1>4. NewestInv
  BY <1>1 DEF Init, NewestInv
<1>5. BalanceInv
  <2>1. Numbers(Clients) = {}
    BY <1>1 DEF Numbers
  <2>2. Cardinality(Numbers(Clients)) = 0
    BY <2>1, FS_EmptySet
  <2> QED BY <2>2 DEF Init, BalanceInv
<1>6. ArrivedInv
  BY FS_EmptySet DEF Init, ArrivedInv
<1> QED BY <1>2, <1>3, <1>4, <1>5, <1>6 DEF LossInv

\* A step that counts nothing: packets are only added to the network.
LEMMA LossFrame ==
  ASSUME ServerInv, LossInv, SentInv', sent \subseteq sent', TestPackets \subseteq TestPackets',
         msg' \in Packets \cup {NoMsg}, pc'.reader = "count" => msg' \in sent' \cup TestPackets',
         UNCHANGED <<activeClientsMap, packetsMissing, packetsLate, arrived, arrivals, forgotten>>
  PROVE  LossInv'
<1>1. CountTypeInv'
  BY DEF LossInv, CountTypeInv, Clients
<1>2. NewestInv'
  BY DEF LossInv, NewestInv, Clients, MaxSeqOf
<1>3. BalanceInv'
  BY DEF LossInv, BalanceInv, Numbers, Clients, MaxSeqOf
<1>4. ArrivedInv'
  BY DEF LossInv, ArrivedInv
<1> QED BY <1>1, <1>2, <1>3, <1>4 DEF LossInv

\* Two restarts of the same stream do not mix: numbers start again at 1.
LEMMA SentStep == ServerInv /\ LossInv /\ Environment => LossInv'
<1> SUFFICES ASSUME ServerInv, LossInv, Environment PROVE LossInv'
  OBVIOUS
<1> USE DEF clientVars, metricVars, lifeVars, historyVars
<1>1. ServerTypeInv /\ SentInv /\ CountTypeInv /\ NewestInv
  BY DEF ServerInv, LossInv
<1>2. CASE Tick
  BY <1>1, <1>2, LossFrame
     DEF Tick, SentInv, TestPackets, CountTypeInv, NewestInv
<1>3. ASSUME NEW st \in Streams, StreamSends(st) PROVE LossInv'
  <2> DEFINE new == PacketOf(st, run[st], lastSeq[st] + 1)
  <2>1. sent' = sent \cup {new}
    BY <1>3 DEF StreamSends, PacketOf
  <2>2. SentInv'
    <3>1. \A s \in Streams : \A n \in 1..lastSeq'[s] : PacketOf(s, run'[s], n) \in sent'
      BY <1>1, <1>3, <2>1 DEF StreamSends, SentInv, ServerTypeInv
    <3>2. \A p \in sent' : p.seq >= 1
      BY <1>1, <2>1 DEF SentInv, ServerTypeInv, PacketOf
    <3>3. \A n \in 1..new.seq : PacketOf(new.stream, new.run, n) \in sent'
      <4>1. new.stream = st /\ new.run = run[st] /\ new.seq = lastSeq[st] + 1
        BY DEF PacketOf
      <4>2. \A n \in 1..lastSeq[st] : PacketOf(st, run[st], n) \in sent
        BY <1>1 DEF SentInv
      <4>3. \A n \in 1..(lastSeq[st] + 1) : n \in 1..lastSeq[st] \/ n = lastSeq[st] + 1
        BY <1>1 DEF ServerTypeInv
      <4> QED BY <2>1, <4>1, <4>2, <4>3
    <3>4. \A p \in sent' : \A n \in 1..p.seq : PacketOf(p.stream, p.run, n) \in sent'
      BY <1>1, <2>1, <3>3 DEF SentInv
    <3> QED BY <3>1, <3>2, <3>4 DEF SentInv
  <2>3. UNCHANGED TestPackets
    BY <1>3 DEF StreamSends, TestPackets
  <2> QED BY <1>1, <1>3, <2>1, <2>2, <2>3, LossFrame DEF StreamSends, CountTypeInv, NewestInv
<1>4. ASSUME NEW st \in Streams, StreamRestarts(st) PROVE LossInv'
  <2>1. SentInv'
    BY <1>1, <1>4 DEF StreamRestarts, SentInv, ServerTypeInv
  <2>2. TestPackets \subseteq TestPackets'
    BY <1>1, <1>4, ServerBoundAssumption
       DEF StreamRestarts, TestPackets, ServerTypeInv, Packets
  <2> QED BY <1>1, <1>4, <2>1, <2>2, LossFrame DEF StreamRestarts, CountTypeInv, NewestInv
<1> QED BY <1>2, <1>3, <1>4 DEF Environment

\* A packet is counted: the numbers up to it become the client's, all but the
\* packet itself missing, or it is late.
LEMMA CountStep == ServerInv /\ LossInv /\ ReaderCounts => LossInv'
<1> SUFFICES ASSUME ServerInv, LossInv, ReaderCounts PROVE LossInv'
  OBVIOUS
<1>0. /\ ServerTypeInv /\ GaugeInv
      /\ CountTypeInv /\ SentInv /\ NewestInv /\ BalanceInv /\ ArrivedInv
  BY DEF ServerInv, LossInv
<1> DEFINE ip == IpOf[msg.stream]
           maxSeq == EntryOf(ip).arrivedMaxSeq
           next == NewMaxSeq(msg.seq, maxSeq)
<1>1. msg \in Packets /\ msg \in sent \cup TestPackets /\ ip \in IPs
  BY <1>0, StreamAssumption DEF ReaderCounts, ServerTypeInv, NewestInv, Packets
<1>2. maxSeq \in 0..MaxSeq /\ msg.seq \in {-1} \cup (1..MaxSeq)
  BY <1>0, <1>1, ServerBoundAssumption DEF EntryOf, NewestInv, MaxSeqOf, Packets
<1>3. next \in 0..MaxSeq /\ next >= maxSeq
  BY <1>2, ServerBoundAssumption DEF NewMaxSeq
<1>4. /\ Clients' = Clients \cup {ip}
      /\ activeClientsMap'[ip].arrivedMaxSeq = next
      /\ \A c \in Clients \ {ip} : activeClientsMap'[c].arrivedMaxSeq = MaxSeqOf(c)
  BY DEF ReaderCounts, Clients, MaxSeqOf
<1>5. IF ip \in Clients THEN maxSeq = MaxSeqOf(ip) ELSE maxSeq = 0
  BY DEF EntryOf, MaxSeqOf
<1>6. CountTypeInv'
  BY <1>0, <1>1, <1>2, <1>4, ServerBoundAssumption
     DEF ReaderCounts, CountTypeInv, SeqDiff, clientVars, TestPackets
<1>7. SentInv'
  BY <1>0 DEF ReaderCounts, SentInv, clientVars
<1>8. NewestInv'
  <2>1. UNCHANGED <<sent, run>> /\ pc'.reader = "reply"
    BY <1>0 DEF ReaderCounts, clientVars, Goto, ServerTypeInv
  <2>2. next > 0 => \E p \in sent : IpOf[p.stream] = ip /\ p.seq = next
    <3>1. CASE next = msg.seq
      BY <1>1, <1>2, <3>1 DEF TestPackets
    <3>2. CASE next = maxSeq
      BY <1>0, <1>5, <3>2 DEF NewestInv
    <3> QED BY <3>1, <3>2 DEF NewMaxSeq
  <2> HIDE DEF next, ip
  <2> QED BY <1>0, <1>3, <1>4, <2>1, <2>2 DEF NewestInv, MaxSeqOf
<1>9. BalanceInv'
  <2> DEFINE passed == {ip} \X ((maxSeq + 1)..next)
  <2>1. Numbers(Clients)' = Numbers(Clients) \cup passed
    <3> HIDE DEF next, ip, maxSeq
    <3>1. \A c \in Clients' :
            activeClientsMap'[c].arrivedMaxSeq = IF c = ip THEN next ELSE MaxSeqOf(c)
      BY <1>4
    <3>2. Numbers(Clients)' =
            {q \in (Clients \cup {ip}) \X (1..MaxSeq) :
               q[2] <= IF q[1] = ip THEN next ELSE MaxSeqOf(q[1])}
      BY <1>4, <3>1 DEF Numbers, MaxSeqOf
    <3> QED BY <1>0, <1>2, <1>3, <1>5, <3>2, ServerBoundAssumption DEF Numbers, NewestInv
  <2>2. Numbers(Clients) \cap passed = {}
    BY <1>2, <1>3, <1>5 DEF Numbers
  <2>3. IsFiniteSet(passed) /\ Cardinality(passed) = next - maxSeq
    <3>1. /\ IsFiniteSet((maxSeq + 1)..next)
          /\ Cardinality((maxSeq + 1)..next) = next - maxSeq
      <4> HIDE DEF maxSeq, next
      <4>1. maxSeq + 1 \in Int /\ next \in Int
        BY <1>2, <1>3
      <4>2. /\ IsFiniteSet((maxSeq + 1)..next)
            /\ Cardinality((maxSeq + 1)..next) =
                 IF maxSeq + 1 > next THEN 0 ELSE next - (maxSeq + 1) + 1
        BY <4>1, FS_Interval
      <4> QED BY <1>2, <1>3, <4>2
    <3>2. IsFiniteSet({ip}) /\ Cardinality({ip}) = 1
      BY FS_Singleton
    <3>3. /\ IsFiniteSet(passed)
          /\ Cardinality(passed) = Cardinality({ip}) * Cardinality((maxSeq + 1)..next)
      BY <3>1, <3>2, FS_Product
    <3> HIDE DEF passed, next, maxSeq
    <3> QED BY <1>2, <1>3, <3>1, <3>2, <3>3
  <2>4. Cardinality(Numbers(Clients)') = Cardinality(Numbers(Clients)) + (next - maxSeq)
    <3>1. IsFiniteSet(Numbers(Clients)) /\ Cardinality(Numbers(Clients)) \in Nat
      BY <1>0, NumbersFinite DEF GaugeInv
    <3>2. Cardinality(Numbers(Clients) \cup passed) =
            Cardinality(Numbers(Clients)) + Cardinality(passed)
              - Cardinality(Numbers(Clients) \cap passed)
      BY <2>3, <3>1, FS_Union
    <3>3. Cardinality(Numbers(Clients) \cap passed) = 0
      BY <2>2, FS_EmptySet
    <3> HIDE DEF passed, next, maxSeq
    <3> QED BY <1>2, <1>3, <2>1, <2>3, <3>1, <3>2, <3>3
  <2>5. /\ packetsMissing' = packetsMissing + (IF msg.seq > maxSeq THEN msg.seq - maxSeq - 1 ELSE 0)
        /\ packetsLate' = packetsLate + (IF msg.seq > maxSeq THEN 0 ELSE 1)
        /\ arrivals' = arrivals + 1 /\ forgotten' = forgotten
    BY DEF ReaderCounts, SeqDiff
  <2>6. next = IF msg.seq > maxSeq THEN msg.seq ELSE maxSeq
    BY DEF NewMaxSeq
  <2>7. Cardinality(Numbers(Clients)) \in Nat
    BY <1>0, NumbersFinite DEF GaugeInv
  <2>8. Cardinality(Numbers(Clients))' = Cardinality(Numbers(Clients)')
    OBVIOUS
  <2> HIDE DEF next, maxSeq
  <2> QED
    BY <1>0, <1>2, <1>3, <2>4, <2>5, <2>6, <2>7, <2>8 DEF BalanceInv, CountTypeInv
<1>10. ArrivedInv'
  <2>1. arrived' = arrived \cup {msg} /\ arrivals' = arrivals + 1
    BY DEF ReaderCounts
  <2>2. /\ IsFiniteSet(arrived \cup {msg})
        /\ Cardinality(arrived \cup {msg}) <= Cardinality(arrived) + 1
    <3>1. /\ IsFiniteSet(arrived \cup {msg})
          /\ \/ Cardinality(arrived \cup {msg}) = Cardinality(arrived)
             \/ Cardinality(arrived \cup {msg}) = Cardinality(arrived) + 1
      BY <1>0, FS_AddElement DEF ArrivedInv
    <3>2. Cardinality(arrived) \in Nat
      BY <1>0, FS_CardinalityType DEF ArrivedInv
    <3> QED BY <3>1, <3>2
  <2>3. Cardinality(arrived) \in Nat /\ Cardinality(arrived \cup {msg}) \in Nat
    BY <1>0, <2>2, FS_CardinalityType DEF ArrivedInv
  <2> QED BY <1>0, <2>1, <2>2, <2>3 DEF ArrivedInv, CountTypeInv
<1> QED BY <1>6, <1>7, <1>8, <1>9, <1>10 DEF LossInv

\* The numbers of an evicted client move from the map to the forgotten ones.
LEMMA EvictStep == ServerInv /\ LossInv /\ IdleEvicts => LossInv'
<1> SUFFICES ASSUME ServerInv, LossInv, IdleEvicts PROVE LossInv'
  OBVIOUS
<1>0. /\ ServerTypeInv /\ GaugeInv
      /\ CountTypeInv /\ SentInv /\ NewestInv /\ BalanceInv /\ ArrivedInv
  BY DEF ServerInv, LossInv
<1>1. /\ Clients' = Clients \ IdleClients /\ IdleClients \subseteq Clients
      /\ \A c \in Clients' : activeClientsMap'[c] = activeClientsMap[c]
  BY DEF IdleEvicts, IdleClients, Clients
<1>2. IsFiniteSet(Clients) /\ IsFiniteSet(IdleClients)
  BY <1>0, <1>1, FS_Subset DEF GaugeInv
<1>3. /\ IsFiniteSet(Numbers(Clients)) /\ Cardinality(Numbers(Clients)) \in Nat
      /\ IsFiniteSet(Numbers(IdleClients)) /\ Cardinality(Numbers(IdleClients)) \in Nat
  BY <1>2, NumbersFinite
<1>4. UNCHANGED <<sent, run, lastSeq, msg, packetsMissing, packetsLate, arrived, arrivals>>
  BY DEF IdleEvicts, clientVars
<1>5. forgotten' = forgotten + Cardinality(Numbers(IdleClients))
  BY DEF IdleEvicts
<1>6. CountTypeInv'
  BY <1>0, <1>1, <1>3, <1>4, <1>5 DEF CountTypeInv, TestPackets
<1>7. SentInv'
  BY <1>0, <1>4 DEF SentInv
<1>8. NewestInv'
  BY <1>0, <1>1, <1>4 DEF IdleEvicts, NewestInv, MaxSeqOf, ServerTypeInv, TestPackets, Goto
<1>9. BalanceInv'
  <2>1. Numbers(Clients)' = Numbers(Clients) \ Numbers(IdleClients)
    BY <1>1 DEF Numbers, MaxSeqOf
  <2>2. Numbers(Clients) \cap Numbers(IdleClients) = Numbers(IdleClients)
    BY <1>1 DEF Numbers
  <2>3. Cardinality(Numbers(Clients) \ Numbers(IdleClients)) =
          Cardinality(Numbers(Clients)) - Cardinality(Numbers(IdleClients))
    BY <1>3, <2>2, FS_Difference
  <2>4. Cardinality(Numbers(Clients)') =
          Cardinality(Numbers(Clients)) - Cardinality(Numbers(IdleClients))
    BY <2>1, <2>3
  <2> QED BY <1>0, <1>3, <1>4, <1>5, <2>4 DEF BalanceInv, CountTypeInv
<1>10. ArrivedInv'
  BY <1>0, <1>4 DEF ArrivedInv
<1> QED BY <1>6, <1>7, <1>8, <1>9, <1>10 DEF LossInv

\* All other steps of the server leave the counters alone.
LEMMA LossInvNext == ServerInv /\ LossInv /\ [Next]_vars => LossInv'
<1> SUFFICES ASSUME ServerInv, LossInv, [Next]_vars PROVE LossInv'
  OBVIOUS
<1>1. ServerTypeInv /\ SentInv /\ CountTypeInv /\ NewestInv
  BY DEF ServerInv, LossInv
<1>2. ASSUME UNCHANGED <<clientVars, activeClientsMap, packetsMissing, packetsLate, historyVars>>,
             msg' \in Packets \cup {NoMsg},
             pc'.reader = "count" => msg' \in sent \cup TestPackets
      PROVE  LossInv'
  BY <1>1, <1>2, LossFrame DEF clientVars, historyVars, SentInv, TestPackets
<1> USE DEF Goto, Exit, metricVars, lifeVars
<1>3. CASE SetupServerConnection \/ SetupServerConnectionFails
  BY <1>1, <1>2, <1>3
     DEF SetupServerConnection, SetupServerConnectionFails, ServerTypeInv, CountTypeInv, NewestInv
<1>4. CASE TearDownServer
  BY <1>1, <1>2, <1>4
     DEF TearDownServer, TearDownBegins, TearDownCloses, TearDownFinishes, ServerTypeInv,
         CountTypeInv, NewestInv
<1>5. CASE Terminated \/ UNCHANGED vars
  BY <1>1, <1>2, <1>5 DEF Terminated, vars, CountTypeInv, NewestInv
<1>6. CASE ReaderChecks \/ ReaderFails \/ ReaderReplies \/ IdleChecks
  BY <1>1, <1>2, <1>6
     DEF ReaderChecks, ReaderFails, ReaderReplies, IdleChecks, ServerTypeInv, CountTypeInv,
         NewestInv
<1>7. ASSUME NEW p \in sent \cup TestPackets, ReaderReads(p) PROVE LossInv'
  <2>1. p \in Packets
    BY <1>1, <1>7 DEF ServerTypeInv, TestPackets
  <2> QED BY <1>1, <1>2, <1>7, <2>1 DEF ReaderReads, ServerTypeInv, CountTypeInv
<1> QED
  BY <1>3, <1>4, <1>5, <1>6, <1>7, SentStep, CountStep, EvictStep
     DEF Next, ReadFromSocket, ReaderRuns, HandleIdleConnections

-------------------------------------------------------------------------------
(* From the balance to the bound.                                           *)

\* Finitely many streams send finitely many different packets.
LEMMA PacketsFinite == IsFiniteSet(Packets)
<1> DEFINE args == (Streams \X (1..MaxRuns)) \X ({-1} \cup (1..MaxSeq))
           pack == [a \in args |-> PacketOf(a[1][1], a[1][2], a[2])]
<1>1. IsFiniteSet(1..MaxRuns) /\ IsFiniteSet(1..MaxSeq)
  BY FS_Interval, ServerBoundAssumption
<1>2. IsFiniteSet({-1} \cup (1..MaxSeq))
  BY <1>1, FS_Singleton, FS_Union
<1>3. IsFiniteSet(Streams \X (1..MaxRuns))
  BY <1>1, StreamAssumption, FS_Product
<1>4. IsFiniteSet(args)
  BY <1>2, <1>3, FS_Product
<1>5. pack \in Surjection(args, Packets)
  <2>1. pack \in [args -> Packets]
    BY DEF PacketOf, Packets
  <2>2. ASSUME NEW p \in Packets PROVE \E a \in args : pack[a] = p
    <3>1. <<<<p.stream, p.run>>, p.seq>> \in args
      BY DEF Packets
    <3>2. pack[<<<<p.stream, p.run>>, p.seq>>] = p
      BY <3>1 DEF PacketOf, Packets
    <3> QED BY <3>1, <3>2
  <2> QED BY <2>1, <2>2 DEF Surjection
<1> QED BY <1>4, <1>5, FS_Surjection

\* The numbers of the clients are numbers of packets that were sent, different
\* ones of different packets: streams of two clients have different addresses.
LEMMA NumbersWereSent ==
  ServerInv /\ LossInv => Cardinality(Numbers(Clients)) <= Cardinality({p \in sent : p.seq > 0})
<1> SUFFICES ASSUME ServerTypeInv, SentInv, NewestInv
             PROVE  Cardinality(Numbers(Clients)) <= Cardinality({p \in sent : p.seq > 0})
  BY DEF ServerInv, LossInv
<1> DEFINE newest == [ip \in Clients |->
                        CHOOSE p \in sent : IpOf[p.stream] = ip /\ p.seq = MaxSeqOf(ip)]
           numbered == [q \in Numbers(Clients) |->
                          PacketOf(newest[q[1]].stream, newest[q[1]].run, q[2])]
           T == {p \in sent : p.seq > 0}
<1>1. ASSUME NEW q \in Numbers(Clients)
      PROVE  /\ q = <<q[1], q[2]>> /\ q[1] \in Clients /\ q[2] \in 1..MaxSeqOf(q[1])
             /\ newest[q[1]] \in sent /\ IpOf[newest[q[1]].stream] = q[1]
             /\ newest[q[1]].seq = MaxSeqOf(q[1])
  <2>1. q = <<q[1], q[2]>> /\ q[1] \in Clients /\ q[2] \in 1..MaxSeq /\ q[2] <= MaxSeqOf(q[1])
    BY DEF Numbers
  <2>2. q[2] \in 1..MaxSeqOf(q[1]) /\ MaxSeqOf(q[1]) > 0
    BY <2>1, ServerBoundAssumption DEF NewestInv
  <2>3. \E p \in sent : IpOf[p.stream] = q[1] /\ p.seq = MaxSeqOf(q[1])
    BY <2>1, <2>2 DEF NewestInv
  <2> QED BY <2>1, <2>2, <2>3
<1>2. numbered \in [Numbers(Clients) -> T]
  <2> SUFFICES ASSUME NEW q \in Numbers(Clients) PROVE numbered[q] \in T
    OBVIOUS
  <2>1. numbered[q] \in sent
    BY <1>1 DEF SentInv
  <2>2. numbered[q].seq > 0
    BY <2>1 DEF SentInv, ServerTypeInv, Packets
  <2> QED BY <2>1, <2>2
<1>3. ASSUME NEW q \in Numbers(Clients), NEW r \in Numbers(Clients), numbered[q] = numbered[r]
      PROVE  q = r
  <2>1. PacketOf(newest[q[1]].stream, newest[q[1]].run, q[2]) =
          PacketOf(newest[r[1]].stream, newest[r[1]].run, r[2])
    BY <1>3
  <2> HIDE DEF newest
  <2>2. newest[q[1]].stream = newest[r[1]].stream /\ q[2] = r[2]
    BY <2>1 DEF PacketOf
  <2> QED BY <1>1, <2>2
<1>4. numbered \in Injection(Numbers(Clients), T)
  <2> HIDE DEF numbered, T
  <2> QED BY <1>2, <1>3 DEF Injection, IsInjective
<1>5. IsFiniteSet(T)
  <2>1. T \in SUBSET Packets
    BY DEF ServerTypeInv
  <2> QED BY <2>1, PacketsFinite, FS_Subset
<1> QED BY <1>4, <1>5, FS_Injection

\* Missing less late is at most what is lost or under way, and what evictions
\* made the server forget, for any streams that share any addresses.
THEOREM LossBound == Spec => []LossNotOverstated
<1>1. ServerInv /\ LossInv => LossNotOverstated
  <2> SUFFICES ASSUME ServerInv, LossInv PROVE LossNotOverstated
    OBVIOUS
  <2> DEFINE T == {p \in sent : p.seq > 0}
  <2>1. IsFiniteSet(T) /\ IsFiniteSet(arrived) /\ IsFiniteSet(Clients)
    BY PacketsFinite, FS_Subset DEF ServerInv, ServerTypeInv, LossInv, ArrivedInv, GaugeInv
  <2>2. /\ IsFiniteSet(Unarrived)
        /\ Cardinality(Unarrived) = Cardinality(T) - Cardinality(T \cap arrived)
    BY <2>1, FS_Difference DEF Unarrived
  <2>3. Cardinality(T \cap arrived) <= Cardinality(arrived) /\ IsFiniteSet(T \cap arrived)
    BY <2>1, FS_Subset
  <2>4. /\ Cardinality(T) \in Nat /\ Cardinality(arrived) \in Nat
        /\ Cardinality(T \cap arrived) \in Nat /\ Cardinality(Unarrived) \in Nat
        /\ Cardinality(Numbers(Clients)) \in Nat
    BY <2>1, <2>2, <2>3, FS_CardinalityType, NumbersFinite
  <2>5. Cardinality(Numbers(Clients)) <= Cardinality(T) /\ Cardinality(arrived) <= arrivals
    BY NumbersWereSent DEF LossInv, ArrivedInv
  <2>6. packetsMissing - packetsLate + arrivals = Cardinality(Numbers(Clients)) + forgotten
    BY DEF LossInv, BalanceInv
  <2>7. packetsMissing \in Nat /\ packetsLate \in Nat /\ arrivals \in Nat /\ forgotten \in Nat
    BY DEF LossInv, CountTypeInv
  <2> HIDE DEF T
  <2> QED BY <2>2, <2>3, <2>4, <2>5, <2>6, <2>7 DEF LossNotOverstated
<1> QED BY <1>1, ServerInvInit, ServerInvNext, LossInvInit, LossInvNext, PTL DEF Spec

\* Every variable of the server keeps its type.
THEOREM ServerTypeCorrect == Spec => []TypeOK
<1>1. ServerInv /\ LifeInv /\ LossInv => TypeOK
  <2> SUFFICES ASSUME ServerInv, LifeInv, LossInv PROVE TypeOK
    OBVIOUS
  <2>1. activeClientStreams \in Nat
    BY FS_CardinalityType DEF ServerInv, GaugeInv
  <2>2. isStopped \in 0..2
    BY DEF LifeInv, Unsignalled
  <2>3. registered \in BOOLEAN /\ listening \in BOOLEAN /\ stop \in BOOLEAN
    BY DEF LifeInv
  <2> QED
    BY <2>1, <2>2, <2>3, Zenon
       DEF ServerInv, ServerTypeInv, LossInv, CountTypeInv, TypeOK
<1> QED
  BY <1>1, ServerInvInit, ServerInvNext, LifeInvInit, LifeInvNext, LossInvInit, LossInvNext, PTL
     DEF Spec
==============================================================================
