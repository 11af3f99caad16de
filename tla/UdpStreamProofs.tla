--------------------------- MODULE UdpStreamProofs ---------------------------
(***************************************************************************)
(* Theorems about UdpStream, for any send rate, any timeouts, any number   *)
(* of packets, of sockets and of servers, and any interleaving of the      *)
(* goroutines, the network, the controller and the clock.                  *)
(*                                                                         *)
(* The inductive invariant has one part per concern.  TypeInv comes first, *)
(* and every other part is shown to be preserved with its help.            *)
(***************************************************************************)
EXTENDS UdpStream, FiniteSetTheorems, TLAPS

-------------------------------------------------------------------------------
(* The parts of the inductive invariant.                                    *)

Alive(goroutine) == IF pc[goroutine] = "done" THEN 0 ELSE 1

\* The wait group counts the goroutines that have not returned.
StopCount == isStopped = Alive("sender") + Alive("reader") + Alive("timeouts")

\* Labels of the sender between numbering a packet and being done with it.
Sending == {"insert", "write", "undo", "failInc", "failVal", "sentInc", "sentVal"}

Numbered == pc.sender \in Sending => packetSequence >= 1

\* The goroutines exist once SetupConnection has succeeded, and not before.
Started ==
  /\ pc.setup # "started" =>
        pc.sender = "unborn" /\ pc.reader = "unborn" /\ pc.timeouts = "unborn"
  /\ pc.setup = "started" =>
        pc.sender # "unborn" /\ pc.reader # "unborn" /\ pc.timeouts # "unborn"

TypeInv == TypeOK /\ StopCount /\ Numbered /\ Started

\* Nobody but the sender settles the packet being sent: its answer cannot have
\* arrived before it was written, and its timeout is out of reach.
NewestInv ==
  /\ pc.sender \in {"insert", "failInc", "failVal"} => packetSequence \notin Pending
  /\ pc.sender \in {"write", "undo"} => packetSequence \in Pending
  /\ pc.sender \in {"insert", "write", "undo", "failInc", "failVal"} =>
        \A m \in wire : m.seq # packetSequence

CursorInv ==
  /\ seq <= packetSequence \/ seq = 1
  /\ CursorBehindPending

\* While the test packets redial, no packet is numbered yet, and HandleTimeouts
\* redials only after it has dropped one.
RedialInv ==
  /\ pc.sender \in {"unborn", "begin", "dummy", "redial", "dial"} => packetSequence = 0
  /\ pc.timeouts \in {"decide", "redial", "dial"} => packetSequence > 0

\* StartPackets measures the time it ran from its start, moved by the pauses it
\* is back from; what it may send by then bounds both the target and the packets.
BurstInv ==
  /\ pc.sender \in {"unborn", "begin"} => running = 0
  /\ pc.sender \notin {"unborn", "begin", "paused", "done"} => running = now - epoch
  /\ pc.sender = "paused" => running = pausedAt - epoch
  /\ Allowed(targetSeq)
  /\ Allowed(packetSequence)

\* Once the stream is torn down nothing is left that could act.
LifeInv ==
  /\ pc.setup = "started" => connection # 0
  /\ pc.setup # "started" => ~registered
  /\ pc.teardown # "idle" => pc.setup # "new"
  /\ QuietAfterTearDown

\* The sender has counted every packet but the one it is working on.
SentInv ==
  packetSequence =
    packetSentVal + packetSendFailedVal + (IF pc.sender \in Sending THEN 1 ELSE 0)

Replacing == {"swapSent", "addSent", "swapFailed", "addFailed"}

\* The mutex is kept while the counters are replaced, so the sender passes
\* "insert" no more and adds at most one to the counter that is being replaced.
MetricInv ==
  /\ mutex = "reader" <=> pc.reader \in Replacing
  /\ LockedMetricsExact
  /\ pc.reader # "addSent" =>
        /\ pc.sender # "sentVal" =>
              packetSentVal - 1 <= packetSent /\ packetSent <= packetSentVal + 1
        /\ pc.sender = "sentVal" =>
              packetSentVal <= packetSent /\ packetSent <= packetSentVal + 2
  /\ pc.reader = "addSent" =>
        /\ packetSent <= 1
        /\ packetSent = 1 => pc.sender \notin {"write", "sentInc"}

-------------------------------------------------------------------------------
(* Type correctness.                                                        *)

\* The initial state is well typed.
LEMMA TypeInvInit == Init => TypeInv
<1> SUFFICES ASSUME Init PROVE TypeInv
  OBVIOUS
<1>1. Pending = {} /\ PendingRequestsMap \in [Pending -> Nat]
  BY DEF Init, Pending
<1>2. registered \in BOOLEAN /\ stop \in BOOLEAN /\ suspendTraffic \in BOOLEAN
  BY Zenon DEF Init
<1> QED
  BY <1>1, <1>2, BoundAssumption, RateAssumption
   DEF Init, TypeInv, TypeOK, StopCount, Alive, Numbered, Started, Sending, SenderLabels,
       ReaderLabels, TimeoutsLabels

\* Every step of every thread keeps the state well typed.
LEMMA TypeInvNext == TypeInv /\ [Next]_vars => TypeInv'
<1> SUFFICES ASSUME TypeInv, [Next]_vars PROVE TypeInv'
  OBVIOUS
<1> USE BoundAssumption, RateAssumption
    DEF TypeInv, TypeOK, StopCount, Alive, Numbered, Started, Sending, Pending, SenderLabels,
        ReaderLabels, TimeoutsLabels, Goto, Exit, Delete, Restored, PauseTaken, sendVars, sentVars,
        failVars, rcvdVars, dropVars, labelVars, sockVars, scanVars, stopVars, confVars,
        clockVars
<1>1. CASE Tick \/ LoadSuspendTraffic \/ LoadSendRate
  <2>1. suspendTraffic' \in BOOLEAN
    BY <1>1, Zenon DEF Tick, LoadSuspendTraffic, LoadSendRate
  <2> QED BY <1>1, <2>1 DEF Tick, LoadSuspendTraffic, LoadSendRate
<1>2. CASE SetupConnection \/ SetupConnectionFails \/ SetupConnectionPanics
  <2>1. registered' \in BOOLEAN
    BY <1>2, Zenon DEF SetupConnection, SetupConnectionFails, SetupConnectionPanics
  <2>2. CASE SetupConnection
    <3>1. StopCount' /\ Numbered' /\ Started'
      BY <2>2 DEF SetupConnection
    <3>2. /\ dialled' \in 0..MaxDials
          /\ connection' \in 0..dialled'
          /\ open' \in SUBSET (1..dialled')
          /\ wire' \in SUBSET [seq : {-1} \cup (1..packetSequence'), conn : 1..dialled']
      BY <2>2 DEF SetupConnection
    <3>3. pc' \in [setup : {"new", "failed", "started"}, sender : SenderLabels,
                   reader : ReaderLabels, timeouts : TimeoutsLabels,
                   teardown : {"idle", "close", "wait", "stopped"}]
      BY <2>2 DEF SetupConnection
    <3>4. TypeOK'
      BY <2>1, <2>2, <3>2, <3>3 DEF SetupConnection
    <3> QED BY <3>1, <3>4
  <2>3. CASE SetupConnectionFails
    BY <2>1, <2>3 DEF SetupConnectionFails
  <2>4. CASE SetupConnectionPanics
    BY <2>1, <2>4 DEF SetupConnectionPanics
  <2> QED BY <1>2, <2>2, <2>3, <2>4
<1>3. ASSUME NEW caller \in {"sender", "timeouts"}, RedialDestination(caller) PROVE TypeInv'
  <2>1. CASE RedialKeepsSocket(caller)
    BY <1>3, <2>1 DEF RedialKeepsSocket, RedialReturns
  <2>2. CASE RedialCloses(caller)
    BY <1>3, <2>2 DEF RedialCloses
  <2>3. CASE RedialDials(caller)
    BY <1>3, <2>3 DEF RedialDials, RedialReturns
  <2>4. CASE RedialDialFails(caller)
    BY <1>3, <2>4 DEF RedialDialFails, RedialReturns
  <2> QED BY <1>3, <2>1, <2>2, <2>3, <2>4 DEF RedialDestination
<1>4. CASE SenderBegin \/ SenderCannotStart \/ SenderDummy
  BY <1>4 DEF SenderBegin, SenderCannotStart, SenderDummy
<1>5. CASE SenderStops \/ SenderPauses \/ SenderWakes \/ SenderTargets \/ SenderRests
  BY <1>5
     DEF SenderStops, SenderPauses, SenderWakes, SenderTargets, SenderRests
<1>6. CASE SenderNext
  BY <1>6 DEF SenderNext, MoreToSend
<1>7. CASE SenderInserts
  BY <1>7 DEF SenderInserts
<1>8. CASE SenderWrites
  BY <1>8 DEF SenderWrites
<1>9. CASE SenderUndoes
  BY <1>9 DEF SenderUndoes
<1>10. CASE SenderCountsFailure \/ SenderCountsSent
  BY <1>10 DEF SenderCountsFailure, SenderCountsSent
<1>11. CASE ReaderStops \/ ReaderGoesOn \/ ReaderLoads \/ ReaderFails
  BY <1>11 DEF ReaderStops, ReaderGoesOn, ReaderLoads, ReaderFails
<1>12. CASE ReaderReplacesSent \/ ReaderReplacesFailed \/ ReaderReplacesRest
  <2>1. registered' \in BOOLEAN
    BY <1>12, Zenon DEF ReaderReplacesSent, ReaderReplacesFailed, ReaderReplacesRest
  <2> QED BY <1>12, <2>1 DEF ReaderReplacesSent, ReaderReplacesFailed, ReaderReplacesRest
<1>13. ASSUME NEW m \in wire, ReaderIgnores(m) PROVE TypeInv'
  BY <1>13 DEF ReaderIgnores
<1>14. ASSUME NEW m \in wire, NEW server \in Servers, ReaderReceives(m, server) PROVE TypeInv'
  <2>1. registered' \in BOOLEAN
    BY <1>14, Zenon DEF ReaderReceives
  <2> QED BY <1>14, <2>1 DEF ReaderReceives
<1>15. CASE TimeoutsReadsConfig \/ TimeoutsStops \/ TimeoutsBegins \/ TimeoutsRests
            \/ TimeoutsSkips
  BY <1>15, TimeoutAssumption
     DEF TimeoutsReadsConfig, TimeoutsStops, TimeoutsBegins, TimeoutsRests, TimeoutsSkips
<1>16. CASE TimeoutsDrops
  BY <1>16 DEF TimeoutsDrops
<1>17. CASE TimeoutsDecides
  BY <1>17 DEF TimeoutsDecides
<1>18. CASE TearDownBegins \/ TearDownCloses \/ TearDownFinishes
  <2>1. registered' \in BOOLEAN /\ stop' \in BOOLEAN
    BY <1>18, Zenon DEF TearDownBegins, TearDownCloses, TearDownFinishes
  <2> QED BY <1>18, <2>1 DEF TearDownBegins, TearDownCloses, TearDownFinishes
<1>19. CASE UNCHANGED vars
  BY <1>19 DEF vars
<1> QED
  BY <1>1, <1>2, <1>3, <1>4, <1>5, <1>6, <1>7, <1>8, <1>9, <1>10, <1>11, <1>12, <1>13, <1>14,
     <1>15, <1>16, <1>17, <1>18, <1>19
     DEF Next, StartPackets, SocketRead, ReaderRuns, HandleTimeouts, TearDownConnection

\* UdpStream is well typed: the wait group never falls below zero and every
\* answer on the wire belongs to a packet and a socket that exist.
THEOREM TypeCorrect == Spec => []TypeOK
<1>1. TypeInv => TypeOK
  BY DEF TypeInv
<1> QED BY <1>1, TypeInvInit, TypeInvNext, PTL DEF Spec

-------------------------------------------------------------------------------
(* The packet being sent, and the cursor of HandleTimeouts.                 *)

\* Nobody settles the packet the sender is working on behind its back.
LEMMA NewestInvNext == TypeInv /\ NewestInv /\ [Next]_vars => NewestInv'
<1> SUFFICES ASSUME TypeInv, NewestInv, [Next]_vars PROVE NewestInv'
  OBVIOUS
<1> USE DEF TypeInv, TypeOK, Numbered, Sending, NewestInv, Pending, Goto, Exit, Delete, sendVars,
            sockVars
<1>1. ASSUME pc'.sender = pc.sender \/ pc'.sender \notin Sending,
             UNCHANGED <<packetSequence, wire, PendingRequestsMap>>
      PROVE  NewestInv'
  BY <1>1
<1>2. CASE Tick \/ LoadSuspendTraffic \/ LoadSendRate \/ TearDownConnection
  BY <1>1, <1>2
     DEF Tick, LoadSuspendTraffic, LoadSendRate, TearDownConnection, TearDownBegins, TearDownCloses,
         TearDownFinishes
<1>3. CASE SetupConnection \/ SetupConnectionFails \/ SetupConnectionPanics
  BY <1>1, <1>3 DEF SetupConnection, SetupConnectionFails, SetupConnectionPanics
<1>4. ASSUME NEW caller \in {"sender", "timeouts"}, RedialDestination(caller) PROVE NewestInv'
  BY <1>1, <1>4
     DEF RedialDestination, RedialKeepsSocket, RedialCloses, RedialDials, RedialDialFails,
         RedialReturns
<1>5. CASE SenderBegin \/ SenderCannotStart \/ SenderStops \/ SenderPauses \/ SenderWakes
           \/ SenderTargets \/ SenderRests
  BY <1>1, <1>5
     DEF SenderBegin, SenderCannotStart, SenderStops, SenderPauses, SenderWakes, SenderTargets,
         SenderRests
<1>6. CASE SenderDummy \/ SenderCountsSent
  BY <1>6 DEF SenderDummy, SenderCountsSent
<1>7. CASE SenderNext
  BY <1>7 DEF SenderNext, MoreToSend
<1>8. CASE SenderInserts
  BY <1>8 DEF SenderInserts
<1>9. CASE SenderWrites
  BY <1>9 DEF SenderWrites
<1>10. CASE SenderUndoes
  BY <1>10 DEF SenderUndoes
<1>11. CASE SenderCountsFailure
  BY <1>11 DEF SenderCountsFailure
<1>12. CASE ReaderRuns
  BY <1>1, <1>12
     DEF ReaderRuns, ReaderStops, ReaderGoesOn, ReaderLoads, ReaderFails, ReaderReplacesSent,
         ReaderReplacesFailed, ReaderReplacesRest
<1>13. ASSUME NEW m \in wire, ReaderIgnores(m) PROVE NewestInv'
  BY <1>1, <1>13 DEF ReaderIgnores
<1>14. ASSUME NEW m \in wire, NEW server \in Servers, ReaderReceives(m, server) PROVE NewestInv'
  BY <1>14 DEF ReaderReceives
<1>15. CASE TimeoutsReadsConfig \/ TimeoutsStops \/ TimeoutsBegins \/ TimeoutsRests
            \/ TimeoutsSkips \/ TimeoutsDecides
  BY <1>1, <1>15
     DEF TimeoutsReadsConfig, TimeoutsStops, TimeoutsBegins, TimeoutsRests, TimeoutsSkips,
         TimeoutsDecides
<1>16. CASE TimeoutsDrops
  BY <1>16 DEF TimeoutsDrops, ToScan
<1>17. CASE UNCHANGED vars
  BY <1>1, <1>17 DEF vars
<1> QED
  BY <1>2, <1>3, <1>4, <1>5, <1>6, <1>7, <1>8, <1>9, <1>10, <1>11, <1>12, <1>13, <1>14, <1>15,
     <1>16, <1>17
     DEF Next, StartPackets, SocketRead, HandleTimeouts

\* The cursor moves only over packets that are settled, and the packets that
\* come into the map are ahead of it.
LEMMA CursorInvNext == TypeInv /\ CursorInv /\ [Next]_vars => CursorInv'
<1> SUFFICES ASSUME TypeInv, CursorInv, [Next]_vars PROVE CursorInv'
  OBVIOUS
<1> USE DEF TypeInv, TypeOK, CursorInv, CursorBehindPending, Pending, Delete, sendVars, scanVars
<1>1. ASSUME UNCHANGED <<packetSequence, seq, PendingRequestsMap>> PROVE CursorInv'
  BY <1>1
<1>2. CASE Tick \/ LoadSuspendTraffic \/ LoadSendRate \/ TearDownConnection \/ UNCHANGED vars
  BY <1>1, <1>2
     DEF Tick, LoadSuspendTraffic, LoadSendRate, TearDownConnection, TearDownBegins, TearDownCloses,
         TearDownFinishes, vars
<1>3. CASE SetupConnection \/ SetupConnectionFails \/ SetupConnectionPanics
  BY <1>1, <1>3 DEF SetupConnection, SetupConnectionFails, SetupConnectionPanics
<1>4. ASSUME NEW caller \in {"sender", "timeouts"}, RedialDestination(caller) PROVE CursorInv'
  BY <1>1, <1>4
     DEF RedialDestination, RedialKeepsSocket, RedialCloses, RedialDials, RedialDialFails,
         RedialReturns
<1>5. CASE SenderBegin \/ SenderCannotStart \/ SenderDummy \/ SenderStops \/ SenderPauses
           \/ SenderWakes \/ SenderTargets \/ SenderRests
  BY <1>1, <1>5
     DEF SenderBegin, SenderCannotStart, SenderDummy, SenderStops, SenderPauses, SenderWakes,
         SenderTargets, SenderRests
<1>6. CASE SenderWrites \/ SenderCountsFailure \/ SenderCountsSent
  BY <1>1, <1>6 DEF SenderWrites, SenderCountsFailure, SenderCountsSent
<1>7. CASE SenderNext
  BY <1>7 DEF SenderNext
<1>8. CASE SenderInserts
  BY <1>8 DEF SenderInserts, Numbered, Sending
<1>9. CASE SenderUndoes
  BY <1>9 DEF SenderUndoes
<1>10. CASE ReaderRuns
  BY <1>1, <1>10
     DEF ReaderRuns, ReaderStops, ReaderGoesOn, ReaderLoads, ReaderFails, ReaderReplacesSent,
         ReaderReplacesFailed, ReaderReplacesRest
<1>11. ASSUME NEW m \in wire, ReaderIgnores(m) PROVE CursorInv'
  BY <1>1, <1>11 DEF ReaderIgnores
<1>12. ASSUME NEW m \in wire, NEW server \in Servers, ReaderReceives(m, server) PROVE CursorInv'
  BY <1>12 DEF ReaderReceives
<1>13. CASE TimeoutsReadsConfig \/ TimeoutsStops \/ TimeoutsBegins \/ TimeoutsRests
            \/ TimeoutsDecides
  BY <1>1, <1>13
     DEF TimeoutsReadsConfig, TimeoutsStops, TimeoutsBegins, TimeoutsRests, TimeoutsDecides
<1>14. CASE TimeoutsSkips
  BY <1>14 DEF TimeoutsSkips, ToScan
<1>15. CASE TimeoutsDrops
  BY <1>15 DEF TimeoutsDrops, ToScan
<1> QED
  BY <1>2, <1>3, <1>4, <1>5, <1>6, <1>7, <1>8, <1>9, <1>10, <1>11, <1>12, <1>13, <1>14, <1>15
     DEF Next, StartPackets, SocketRead, HandleTimeouts

\* The initial state has no packet and a cursor in front of the first one.
LEMMA PacketInvInit == Init => NewestInv /\ CursorInv
BY DEF Init, NewestInv, CursorInv, CursorBehindPending, Pending

\* HandleTimeouts never leaves a pending packet behind, however its rounds
\* interleave with the sender, the answers and the failed writes.
THEOREM CursorNeverPasses == Spec => []CursorBehindPending
<1>1. CursorInv => CursorBehindPending
  BY DEF CursorInv
<1> QED BY <1>1, TypeInvInit, TypeInvNext, PacketInvInit, CursorInvNext, PTL DEF Spec

-------------------------------------------------------------------------------
(* The stream implements PacketLedger.                                      *)

\* Every step of the stream is a step of the ledger, or leaves it alone.
LEMMA LedgerStep ==
  TypeInv /\ NewestInv /\ CursorInv /\ [Next]_vars => [Ledger!LedgerNext]_(Ledger!ledger)
<1> SUFFICES ASSUME TypeInv, NewestInv, CursorInv, [Next]_vars
             PROVE  Ledger!LedgerNext \/ UNCHANGED Ledger!ledger
  BY DEF Ledger!ledger
<1> USE DEF TypeInv, TypeOK, NewestInv, Outstanding, Pending, Goto, Exit, Delete, sendVars,
            failVars, rcvdVars, dropVars
<1>1. ASSUME UNCHANGED <<packetSequence, PendingRequestsMap, packetReceivedVal, packetDroppedVal,
                         packetSendFailedVal>>,
             \/ pc'.sender = pc.sender
             \/ {pc.sender, pc'.sender} \cap {"insert", "failInc", "failVal"} = {}
      PROVE  UNCHANGED Ledger!ledger
  BY <1>1 DEF Ledger!ledger
<1>2. CASE Tick \/ LoadSuspendTraffic \/ LoadSendRate \/ TearDownConnection \/ UNCHANGED vars
  BY <1>1, <1>2
     DEF Tick, LoadSuspendTraffic, LoadSendRate, TearDownConnection, TearDownBegins, TearDownCloses,
         TearDownFinishes, vars
<1>3. CASE SetupConnection \/ SetupConnectionFails \/ SetupConnectionPanics
  BY <1>1, <1>3
     DEF SetupConnection, SetupConnectionFails, SetupConnectionPanics, Started
<1>4. ASSUME NEW caller \in {"sender", "timeouts"}, RedialDestination(caller)
      PROVE  UNCHANGED Ledger!ledger
  BY <1>1, <1>4
     DEF RedialDestination, RedialKeepsSocket, RedialCloses, RedialDials, RedialDialFails,
         RedialReturns
<1>5. CASE SenderBegin \/ SenderCannotStart \/ SenderDummy \/ SenderStops \/ SenderPauses
           \/ SenderWakes \/ SenderTargets \/ SenderRests \/ SenderWrites \/ SenderCountsSent
  BY <1>1, <1>5
     DEF SenderBegin, SenderCannotStart, SenderDummy, SenderStops, SenderPauses, SenderWakes,
         SenderTargets, SenderRests, SenderWrites, SenderCountsSent
<1>6. CASE SenderNext
  BY <1>6 DEF SenderNext, Ledger!LedgerNext, Ledger!Issue
<1>7. CASE SenderInserts
  BY <1>7 DEF SenderInserts, Ledger!ledger
<1>8. CASE SenderUndoes
  BY <1>8 DEF SenderUndoes, Ledger!ledger
<1>9. CASE SenderCountsFailure
  <2>1. CASE pc.sender = "failInc"
    BY <1>9, <2>1 DEF SenderCountsFailure, Ledger!ledger
  <2>2. CASE pc.sender = "failVal"
    BY <1>9, <2>2 DEF SenderCountsFailure, Ledger!LedgerNext, Ledger!Fail, Ledger!Settle
  <2> QED BY <1>9, <2>1, <2>2 DEF SenderCountsFailure
<1>10. CASE ReaderRuns
  BY <1>1, <1>10
     DEF ReaderRuns, ReaderStops, ReaderGoesOn, ReaderLoads, ReaderFails, ReaderReplacesSent,
         ReaderReplacesFailed, ReaderReplacesRest
<1>11. ASSUME NEW m \in wire, ReaderIgnores(m) PROVE UNCHANGED Ledger!ledger
  BY <1>1, <1>11 DEF ReaderIgnores
<1>12. ASSUME NEW m \in wire, NEW server \in Servers, ReaderReceives(m, server)
       PROVE  Ledger!LedgerNext
  <2>1. pc'.sender = pc.sender
    BY <1>12 DEF ReaderReceives
  <2>2. m.seq \in Outstanding /\ Outstanding' = Outstanding \ {m.seq}
    BY <1>12, <2>1 DEF ReaderReceives
  <2> QED BY <1>12, <2>2 DEF ReaderReceives, Ledger!LedgerNext, Ledger!Receive, Ledger!Settle
<1>13. CASE TimeoutsReadsConfig \/ TimeoutsStops \/ TimeoutsBegins \/ TimeoutsRests
            \/ TimeoutsSkips \/ TimeoutsDecides
  BY <1>1, <1>13
     DEF TimeoutsReadsConfig, TimeoutsStops, TimeoutsBegins, TimeoutsRests, TimeoutsSkips,
         TimeoutsDecides
<1>14. CASE TimeoutsDrops
  <2>1. pc'.sender = pc.sender
    BY <1>14 DEF TimeoutsDrops
  <2>2. seq \in Outstanding /\ seq < packetSequence /\ Outstanding' = Outstanding \ {seq}
    BY <1>14, <2>1 DEF TimeoutsDrops, ToScan
  <2>3. \A q \in Outstanding : seq <= q
    BY <2>2 DEF CursorInv, CursorBehindPending
  <2> QED
    BY <1>14, <2>2, <2>3 DEF TimeoutsDrops, Ledger!LedgerNext, Ledger!Drop, Ledger!Settle
<1> QED
  BY <1>2, <1>3, <1>4, <1>5, <1>6, <1>7, <1>8, <1>9, <1>10, <1>11, <1>12, <1>13, <1>14
     DEF Next, StartPackets, SocketRead, HandleTimeouts

\* The three goroutines together keep the books of PacketLedger: each packet
\* is settled once, timeouts come oldest first, and only the newest packet can
\* fail to be sent.
THEOREM StreamImplementsLedger == Spec => ImplementsLedger
<1>1. Init => Ledger!LedgerInit
  BY DEF Init, Outstanding, Pending, Ledger!LedgerInit
<1> QED
  BY <1>1, TypeInvInit, TypeInvNext, PacketInvInit, NewestInvNext, CursorInvNext, LedgerStep, PTL
  DEF Spec, ImplementsLedger, Ledger!LedgerSpec

Books == INSTANCE PacketLedgerProofs WITH
  issued <- packetSequence, outstanding <- Outstanding, received <- packetReceivedVal,
  dropped <- packetDroppedVal, failed <- packetSendFailedVal

\* The ledger's own invariant, carried over to the stream.
LEMMA BooksNext ==
  Books!LedgerInv /\ [Ledger!LedgerNext]_(Ledger!ledger) => Books!LedgerInv'
BY Books!LedgerInvNext
   DEF Ledger!ledger, Ledger!LedgerNext, Ledger!Issue, Ledger!Receive, Ledger!Drop, Ledger!Fail,
       Ledger!Settle, Books!ledger, Books!LedgerNext, Books!Issue, Books!Receive, Books!Drop,
       Books!Fail, Books!Settle

\* Empty books satisfy the ledger's invariant.
LEMMA BooksInit == Ledger!LedgerInit => Books!LedgerInv
BY Books!LedgerInvInit DEF Ledger!LedgerInit, Books!LedgerInit

\* At every moment each numbered packet is pending, in the sender's hands, or in
\* exactly one of the received, dropped and send-failed counters.
THEOREM StreamBalanced == Spec => []PacketsBalanced
<1>1. Books!LedgerInv => PacketsBalanced
  BY DEF Books!LedgerInv, Books!Balanced, PacketsBalanced, Ledger!Balanced, Books!Cardinality,
         Ledger!Cardinality
<1> QED
  BY <1>1, BooksInit, BooksNext, StreamImplementsLedger, PTL
  DEF ImplementsLedger, Ledger!LedgerSpec

\* Between two sends, what was sent is what was received, dropped or is pending.
LEMMA SentInvNext == TypeInv /\ SentInv /\ [Next]_vars => SentInv'
<1> SUFFICES ASSUME TypeInv, SentInv, [Next]_vars PROVE SentInv'
  OBVIOUS
<1> USE DEF TypeInv, TypeOK, SentInv, Sending, Goto, Exit, sendVars, sentVars, failVars
<1>1. ASSUME UNCHANGED <<packetSequence, packetSentVal, packetSendFailedVal>>,
             pc.sender \in Sending <=> pc'.sender \in Sending
      PROVE  SentInv'
  BY <1>1
<1>2. CASE Tick \/ LoadSuspendTraffic \/ LoadSendRate \/ TearDownConnection \/ UNCHANGED vars
  BY <1>1, <1>2
     DEF Tick, LoadSuspendTraffic, LoadSendRate, TearDownConnection, TearDownBegins, TearDownCloses,
         TearDownFinishes, vars
<1>3. CASE SetupConnection \/ SetupConnectionFails \/ SetupConnectionPanics
  BY <1>1, <1>3
     DEF SetupConnection, SetupConnectionFails, SetupConnectionPanics, Started
<1>4. ASSUME NEW caller \in {"sender", "timeouts"}, RedialDestination(caller) PROVE SentInv'
  BY <1>1, <1>4
     DEF RedialDestination, RedialKeepsSocket, RedialCloses, RedialDials, RedialDialFails,
         RedialReturns
<1>5. CASE SenderBegin \/ SenderCannotStart \/ SenderDummy \/ SenderStops \/ SenderPauses
           \/ SenderWakes \/ SenderTargets \/ SenderRests
  BY <1>1, <1>5
     DEF SenderBegin, SenderCannotStart, SenderDummy, SenderStops, SenderPauses, SenderWakes,
         SenderTargets, SenderRests
<1>6. CASE SenderInserts \/ SenderWrites \/ SenderUndoes
  BY <1>1, <1>6 DEF SenderInserts, SenderWrites, SenderUndoes
<1>7. CASE SenderNext
  BY <1>7 DEF SenderNext
<1>8. CASE SenderCountsFailure \/ SenderCountsSent
  BY <1>8 DEF SenderCountsFailure, SenderCountsSent
<1>9. CASE SocketRead
  BY <1>1, <1>9
     DEF SocketRead, ReaderRuns, ReaderStops, ReaderGoesOn, ReaderLoads, ReaderFails,
         ReaderReplacesSent, ReaderReplacesFailed, ReaderReplacesRest, ReaderIgnores, ReaderReceives
<1>10. CASE TimeoutsReadsConfig \/ TimeoutsStops \/ TimeoutsBegins \/ TimeoutsRests
            \/ TimeoutsSkips \/ TimeoutsDrops
            \/ TimeoutsDecides
  BY <1>1, <1>10
     DEF TimeoutsReadsConfig, TimeoutsStops, TimeoutsBegins, TimeoutsRests, TimeoutsSkips,
         TimeoutsDrops, TimeoutsDecides
<1> QED
  BY <1>2, <1>3, <1>4, <1>5, <1>6, <1>7, <1>8, <1>9, <1>10
     DEF Next, StartPackets, HandleTimeouts

\* Between two sends the packets counted as sent are those received, those
\* dropped and those pending.
THEOREM SentAccounted == Spec => []SentAreAccountedFor
<1>1. Init => SentInv
  BY DEF Init, SentInv, Sending
<1>2. TypeInv /\ SentInv /\ PacketsBalanced => SentAreAccountedFor
  <2> SUFFICES ASSUME TypeInv, SentInv, PacketsBalanced, SenderIdle
               PROVE  packetSentVal = packetReceivedVal + packetDroppedVal + Cardinality(Pending)
    BY DEF SentAreAccountedFor
  <2>1. Outstanding = Pending
    BY DEF Outstanding, SenderIdle
  <2>2. packetSequence = Cardinality(Pending) + packetReceivedVal + packetDroppedVal
                         + packetSendFailedVal
    <3>1. packetSequence = Cardinality(Outstanding) + packetReceivedVal + packetDroppedVal
                           + packetSendFailedVal
      BY DEF PacketsBalanced, Ledger!Balanced, Ledger!Cardinality, Cardinality
    <3> QED BY <2>1, <3>1
  <2>3. packetSequence = packetSentVal + packetSendFailedVal
    BY DEF SentInv, Sending, SenderIdle, TypeInv, TypeOK
  <2>4. IsFiniteSet(Pending) /\ Cardinality(Pending) \in Nat
    <3>1. packetSequence \in Nat /\ Pending \in SUBSET (1..packetSequence)
      BY BoundAssumption DEF TypeInv, TypeOK
    <3>2. IsFiniteSet(Pending)
      BY <3>1, Books!OutstandingFinite DEF Books!IsFiniteSet, IsFiniteSet
    <3> QED BY <3>2, FS_CardinalityType
  <2> QED BY <2>2, <2>3, <2>4 DEF TypeInv, TypeOK
<1> QED BY <1>1, <1>2, TypeInvInit, TypeInvNext, SentInvNext, StreamBalanced, PTL DEF Spec

-------------------------------------------------------------------------------
(* Who replaces the connection.                                             *)

\* The test packets come before the first numbered packet, and HandleTimeouts
\* has nothing to redial for before it has dropped a packet.
LEMMA RedialInvNext == TypeInv /\ RedialInv /\ [Next]_vars => RedialInv'
<1> SUFFICES ASSUME TypeInv, RedialInv, [Next]_vars PROVE RedialInv'
  OBVIOUS
<1> USE DEF TypeInv, TypeOK, Started, RedialInv, Goto, Exit, sendVars
<1>1. CASE Tick \/ LoadSuspendTraffic \/ LoadSendRate \/ TearDownConnection \/ UNCHANGED vars
  BY <1>1
     DEF Tick, LoadSuspendTraffic, LoadSendRate, TearDownConnection, TearDownBegins, TearDownCloses,
         TearDownFinishes, vars
<1>2. CASE SetupConnection \/ SetupConnectionFails \/ SetupConnectionPanics
  BY <1>2 DEF SetupConnection, SetupConnectionFails, SetupConnectionPanics
<1>3. ASSUME NEW caller \in {"sender", "timeouts"}, RedialDestination(caller) PROVE RedialInv'
  BY <1>3
     DEF RedialDestination, RedialKeepsSocket, RedialCloses, RedialDials, RedialDialFails,
         RedialReturns
<1>4. CASE SenderBegin \/ SenderCannotStart \/ SenderDummy \/ SenderStops \/ SenderPauses
           \/ SenderWakes \/ SenderTargets \/ SenderRests
  BY <1>4
     DEF SenderBegin, SenderCannotStart, SenderDummy, SenderStops, SenderPauses, SenderWakes,
         SenderTargets, SenderRests
<1>5. CASE SenderNext \/ SenderInserts \/ SenderWrites \/ SenderUndoes \/ SenderCountsFailure
           \/ SenderCountsSent
  BY <1>5
     DEF SenderNext, SenderInserts, SenderWrites, SenderUndoes, SenderCountsFailure,
         SenderCountsSent
<1>6. CASE SocketRead
  BY <1>6
     DEF SocketRead, ReaderRuns, ReaderStops, ReaderGoesOn, ReaderLoads, ReaderFails,
         ReaderReplacesSent, ReaderReplacesFailed, ReaderReplacesRest, ReaderIgnores, ReaderReceives
<1>7. CASE TimeoutsReadsConfig \/ TimeoutsStops \/ TimeoutsBegins \/ TimeoutsRests
           \/ TimeoutsSkips \/ TimeoutsDrops
           \/ TimeoutsDecides
  BY <1>7
     DEF TimeoutsReadsConfig, TimeoutsStops, TimeoutsBegins, TimeoutsRests, TimeoutsSkips,
         TimeoutsDrops, TimeoutsDecides, ToScan
<1> QED
  BY <1>1, <1>2, <1>3, <1>4, <1>5, <1>6, <1>7 DEF Next, StartPackets, HandleTimeouts

\* StartPackets and HandleTimeouts never replace the connection at the same
\* time, although redialDestination takes no mutex.
THEOREM OneRedialer == Spec => []SingleRedialer
<1>1. Init => RedialInv
  BY DEF Init, RedialInv
<1>2. RedialInv => SingleRedialer
  BY DEF RedialInv, SingleRedialer
<1> QED BY <1>1, <1>2, TypeInvInit, TypeInvNext, RedialInvNext, PTL DEF Spec

-------------------------------------------------------------------------------
(* No bursts after a pause.                                                 *)

\* What is allowed stays allowed: a rate that allows a packet is positive.
LEMMA AllowedLonger ==
  ASSUME NEW n \in Int, NEW k \in Nat, NEW rate \in Int, n > 0, n <= rate * k
  PROVE  n <= rate * (k + 1)
<1>1. rate > 0
  <2> SUFFICES ASSUME rate <= 0 PROVE FALSE
    OBVIOUS
  <2>1. rate * k <= 0
    BY SMT
  <2> QED BY <2>1
<1>2. rate * (k + 1) = rate * k + rate
  BY SMT
<1> QED BY <1>1, <1>2

LEMMA AllowedTick ==
  ASSUME TypeInv, Tick, NEW n \in Int, Allowed(n), n > 0
  PROVE  \E rate \in Rates : n <= rate * running'
<1> USE RateAssumption DEF TypeInv, TypeOK
<1>1. PICK rate \in Rates : n <= rate * running
  BY DEF Allowed
<1>2. running' = running \/ running' = running + 1
  BY DEF Tick
<1>3. rate \in Int /\ running \in Nat
  OBVIOUS
<1>4. n <= rate * (running + 1)
  BY <1>1, <1>3, AllowedLonger
<1> QED BY <1>1, <1>2, <1>4

LEMMA BurstInvNext == TypeInv /\ BurstInv /\ [Next]_vars => BurstInv'
<1> SUFFICES ASSUME TypeInv, BurstInv, [Next]_vars PROVE BurstInv'
  OBVIOUS
<1>1. CASE Tick
  <2>1. Allowed(targetSeq)' /\ Allowed(packetSequence)'
    BY <1>1, AllowedTick DEF BurstInv, Allowed, Tick, sendVars, TypeInv, TypeOK
  <2> QED BY <1>1, <2>1 DEF BurstInv, Tick, sendVars, TypeInv, TypeOK
<1>2. CASE SenderTargets
  <2>1. targetSeq' = running * sendRate /\ UNCHANGED <<packetSequence, running, now, epoch>>
    BY <1>2 DEF SenderTargets, BurstInv, clockVars
  <2>2. Allowed(targetSeq)' /\ Allowed(packetSequence)'
    BY <2>1, RateAssumption DEF BurstInv, Allowed, TypeInv, TypeOK
  <2> QED BY <1>2, <2>1, <2>2 DEF BurstInv, SenderTargets, Goto, TypeInv, TypeOK
<1>3. CASE SenderNext
  <2>1. packetSequence' <= targetSeq /\ UNCHANGED <<targetSeq, running, now, epoch>>
    BY <1>3 DEF SenderNext, MoreToSend, clockVars, TypeInv, TypeOK
  <2>2. packetSequence' > 0
    BY <1>3 DEF SenderNext, TypeInv, TypeOK
  <2>3. PICK rate \in Rates : targetSeq <= rate * running
    BY <2>1, <2>2, <1>3 DEF BurstInv, Allowed, SenderNext, TypeInv, TypeOK
  <2>4. rate * running \in Int
    BY RateAssumption DEF TypeInv, TypeOK
  <2>5. packetSequence' <= rate * running
    BY <2>1, <2>3, <2>4, <1>3 DEF SenderNext, TypeInv, TypeOK
  <2>6. Allowed(targetSeq)' /\ Allowed(packetSequence)'
    BY <2>1, <2>5 DEF BurstInv, Allowed
  <2> QED BY <1>3, <2>1, <2>6 DEF BurstInv, SenderNext, Goto, TypeInv, TypeOK
<1>4. CASE SenderBegin \/ SenderPauses \/ SenderWakes
  <2>1. UNCHANGED <<targetSeq, packetSequence, running, now>>
    BY <1>4 DEF SenderBegin, SenderPauses, SenderWakes, clockVars
  <2>2. Allowed(targetSeq)' /\ Allowed(packetSequence)'
    BY <2>1 DEF BurstInv, Allowed
  <2> QED
    BY <1>4, <2>1, <2>2
       DEF BurstInv, SenderBegin, SenderPauses, SenderWakes, PauseTaken, Goto, TypeInv, TypeOK
<1>5. ASSUME UNCHANGED <<now, running, targetSeq, packetSequence, epoch, pausedAt>>,
             \/ pc'.sender = pc.sender
             \/ pc'.sender = "done"
             \/ /\ {pc.sender, pc'.sender} \cap {"begin", "unborn", "paused", "done"} = {}
             \/ pc.sender = "unborn" /\ pc'.sender = "begin"
      PROVE  BurstInv'
  BY <1>5 DEF BurstInv, Allowed
<1>6. CASE LoadSuspendTraffic \/ LoadSendRate \/ TearDownConnection \/ UNCHANGED vars
  BY <1>5, <1>6
     DEF LoadSuspendTraffic, LoadSendRate, TearDownConnection, TearDownBegins, TearDownCloses,
         TearDownFinishes, vars, clockVars, sendVars, Goto, TypeInv, TypeOK
<1>7. CASE SetupConnection \/ SetupConnectionFails \/ SetupConnectionPanics
  BY <1>5, <1>7
     DEF SetupConnection, SetupConnectionFails, SetupConnectionPanics, clockVars, sendVars, Goto,
         TypeInv, TypeOK, Started
<1>8. ASSUME NEW caller \in {"sender", "timeouts"}, RedialDestination(caller) PROVE BurstInv'
  BY <1>5, <1>8
     DEF RedialDestination, RedialKeepsSocket, RedialCloses, RedialDials, RedialDialFails,
         RedialReturns, clockVars, sendVars, Goto, TypeInv, TypeOK
<1>9. CASE SenderCannotStart \/ SenderDummy \/ SenderStops \/ SenderRests
  BY <1>5, <1>9
     DEF SenderCannotStart, SenderDummy, SenderStops, SenderRests, clockVars, sendVars, Goto, Exit,
         TypeInv, TypeOK
<1>10. CASE SenderInserts \/ SenderWrites \/ SenderUndoes \/ SenderCountsFailure
            \/ SenderCountsSent
  BY <1>5, <1>10
     DEF SenderInserts, SenderWrites, SenderUndoes, SenderCountsFailure, SenderCountsSent,
         clockVars, sendVars, Goto, TypeInv, TypeOK
<1>11. CASE SocketRead
  BY <1>5, <1>11
     DEF SocketRead, ReaderRuns, ReaderStops, ReaderGoesOn, ReaderLoads, ReaderFails,
         ReaderReplacesSent, ReaderReplacesFailed, ReaderReplacesRest, ReaderIgnores,
         ReaderReceives, clockVars, sendVars, Goto, Exit, TypeInv, TypeOK
<1>12. CASE TimeoutsReadsConfig \/ TimeoutsStops \/ TimeoutsBegins \/ TimeoutsRests
            \/ TimeoutsSkips \/ TimeoutsDrops \/ TimeoutsDecides
  BY <1>5, <1>12
     DEF TimeoutsReadsConfig, TimeoutsStops, TimeoutsBegins, TimeoutsRests, TimeoutsSkips,
         TimeoutsDrops, TimeoutsDecides, clockVars, sendVars, Goto, Exit, TypeInv, TypeOK
<1> QED
  BY <1>1, <1>2, <1>3, <1>4, <1>6, <1>7, <1>8, <1>9, <1>10, <1>11, <1>12
     DEF Next, StartPackets, HandleTimeouts

\* However often and whenever the traffic is suspended, and whatever rates the
\* profile asks for meanwhile, StartPackets numbers no more packets than one of
\* the rates allows in the time it was not suspended.
THEOREM NoBurst == Spec => []NoCatchUpBurst
<1>1. Init => BurstInv
  BY DEF Init, BurstInv, Allowed
<1>2. BurstInv => NoCatchUpBurst
  BY DEF BurstInv, NoCatchUpBurst
<1> QED BY <1>1, <1>2, TypeInvInit, TypeInvNext, BurstInvNext, PTL DEF Spec

-------------------------------------------------------------------------------
(* After TearDownConnection.                                                *)

\* TearDownConnection waits for all goroutines, and none starts afterwards.
LEMMA LifeInvNext == TypeInv /\ LifeInv /\ [Next]_vars => LifeInv'
<1> SUFFICES ASSUME TypeInv, LifeInv, [Next]_vars PROVE LifeInv'
  OBVIOUS
<1> USE DEF TypeInv, TypeOK, Started, LifeInv, QuietAfterTearDown, Goto, Exit, labelVars, sockVars
<1>1. CASE Tick \/ LoadSuspendTraffic \/ LoadSendRate \/ UNCHANGED vars
  BY <1>1 DEF Tick, LoadSuspendTraffic, LoadSendRate, vars
<1>2. CASE SetupConnection \/ SetupConnectionFails \/ SetupConnectionPanics
  <2>1. pc.setup = "new" /\ pc'.teardown = "idle"
    BY <1>2 DEF SetupConnection, SetupConnectionFails, SetupConnectionPanics
  <2>2. CASE SetupConnection
    BY <2>1, <2>2 DEF SetupConnection
  <2>3. CASE SetupConnectionFails \/ SetupConnectionPanics
    BY <2>1, <2>3 DEF SetupConnectionFails, SetupConnectionPanics
  <2> QED BY <1>2, <2>2, <2>3
<1>3. ASSUME NEW caller \in {"sender", "timeouts"}, RedialDestination(caller) PROVE LifeInv'
  BY <1>3
     DEF RedialDestination, RedialKeepsSocket, RedialCloses, RedialDials, RedialDialFails,
         RedialReturns
<1>4. CASE SenderBegin \/ SenderCannotStart \/ SenderDummy \/ SenderStops \/ SenderPauses
           \/ SenderWakes \/ SenderTargets \/ SenderRests
  BY <1>4
     DEF SenderBegin, SenderCannotStart, SenderDummy, SenderStops, SenderPauses, SenderWakes,
         SenderTargets, SenderRests
<1>5. CASE SenderNext \/ SenderInserts \/ SenderWrites \/ SenderUndoes \/ SenderCountsFailure
           \/ SenderCountsSent
  BY <1>5
     DEF SenderNext, SenderInserts, SenderWrites, SenderUndoes, SenderCountsFailure,
         SenderCountsSent
<1>6. CASE SocketRead
  BY <1>6
     DEF SocketRead, ReaderRuns, ReaderStops, ReaderGoesOn, ReaderLoads, ReaderFails,
         ReaderReplacesSent, ReaderReplacesFailed, ReaderReplacesRest, ReaderIgnores, ReaderReceives
<1>7. CASE TimeoutsReadsConfig \/ TimeoutsStops \/ TimeoutsBegins \/ TimeoutsRests
           \/ TimeoutsSkips \/ TimeoutsDrops
           \/ TimeoutsDecides
  BY <1>7
     DEF TimeoutsReadsConfig, TimeoutsStops, TimeoutsBegins, TimeoutsRests, TimeoutsSkips,
         TimeoutsDrops, TimeoutsDecides
<1>8. CASE TearDownBegins \/ TearDownCloses
  BY <1>8 DEF TearDownBegins, TearDownCloses
<1>9. CASE TearDownFinishes
  BY <1>9 DEF TearDownFinishes, StopCount, Alive
<1> QED
  BY <1>1, <1>2, <1>3, <1>4, <1>5, <1>6, <1>7, <1>8, <1>9
     DEF Next, StartPackets, HandleTimeouts, TearDownConnection

\* When TearDownConnection has returned, the stream's metrics are out of the
\* registry and none of its goroutines is left to put them back.
THEOREM TearDownQuiet == Spec => []QuietAfterTearDown
<1>1. Init => LifeInv
  BY DEF Init, LifeInv, QuietAfterTearDown
<1>2. LifeInv => QuietAfterTearDown
  BY DEF LifeInv
<1> QED BY <1>1, <1>2, TypeInvInit, TypeInvNext, LifeInvNext, PTL DEF Spec

-------------------------------------------------------------------------------
(* The exported counters.                                                   *)

\* Replacing the counters keeps those used under the mutex exact, and the sent
\* counter within one packet of its value.
LEMMA MetricInvNext == TypeInv /\ MetricInv /\ [Next]_vars => MetricInv'
<1> SUFFICES ASSUME TypeInv, MetricInv, [Next]_vars PROVE MetricInv'
  OBVIOUS
<1> USE DEF TypeInv, TypeOK, Started, MetricInv, Replacing, LockedMetricsExact, Goto, Exit,
            Lock, Restored, sentVars, rcvdVars, dropVars
<1>1. CASE Tick \/ LoadSuspendTraffic \/ LoadSendRate \/ TearDownConnection \/ UNCHANGED vars
  BY <1>1
     DEF Tick, LoadSuspendTraffic, LoadSendRate, TearDownConnection, TearDownBegins, TearDownCloses,
         TearDownFinishes, vars
<1>2. CASE SetupConnection \/ SetupConnectionFails \/ SetupConnectionPanics
  BY <1>2 DEF SetupConnection, SetupConnectionFails, SetupConnectionPanics
<1>3. ASSUME NEW caller \in {"sender", "timeouts"}, RedialDestination(caller) PROVE MetricInv'
  BY <1>3
     DEF RedialDestination, RedialKeepsSocket, RedialCloses, RedialDials, RedialDialFails,
         RedialReturns
<1>4. CASE SenderBegin \/ SenderCannotStart \/ SenderDummy \/ SenderStops \/ SenderPauses
           \/ SenderWakes \/ SenderTargets \/ SenderRests
  BY <1>4
     DEF SenderBegin, SenderCannotStart, SenderDummy, SenderStops, SenderPauses, SenderWakes,
         SenderTargets, SenderRests
<1>5. CASE SenderNext \/ SenderInserts \/ SenderWrites \/ SenderUndoes \/ SenderCountsFailure
  BY <1>5 DEF SenderNext, SenderInserts, SenderWrites, SenderUndoes, SenderCountsFailure
<1>6. CASE SenderCountsSent
  BY <1>6 DEF SenderCountsSent
<1>7. CASE ReaderStops \/ ReaderGoesOn \/ ReaderLoads \/ ReaderFails
  BY <1>7 DEF ReaderStops, ReaderGoesOn, ReaderLoads, ReaderFails
<1>8. CASE ReaderReplacesSent
  BY <1>8 DEF ReaderReplacesSent
<1>9. CASE ReaderReplacesFailed \/ ReaderReplacesRest
  BY <1>9 DEF ReaderReplacesFailed, ReaderReplacesRest
<1>10. ASSUME NEW m \in wire, ReaderIgnores(m) PROVE MetricInv'
  BY <1>10 DEF ReaderIgnores
<1>11. ASSUME NEW m \in wire, NEW server \in Servers, ReaderReceives(m, server) PROVE MetricInv'
  BY <1>11 DEF ReaderReceives
<1>12. CASE TimeoutsReadsConfig \/ TimeoutsStops \/ TimeoutsBegins \/ TimeoutsRests
            \/ TimeoutsSkips \/ TimeoutsDecides
  BY <1>12
     DEF TimeoutsReadsConfig, TimeoutsStops, TimeoutsBegins, TimeoutsRests, TimeoutsSkips,
         TimeoutsDecides
<1>13. CASE TimeoutsDrops
  BY <1>13 DEF TimeoutsDrops
<1> QED
  BY <1>1, <1>2, <1>3, <1>4, <1>5, <1>6, <1>7, <1>8, <1>9, <1>10, <1>11, <1>12, <1>13
     DEF Next, StartPackets, SocketRead, ReaderRuns, HandleTimeouts

\* Every counter is zero at first, and nothing is being replaced.
LEMMA MetricInvInit == Init => MetricInv
BY DEF Init, MetricInv, Replacing, LockedMetricsExact

\* Whenever the mutex is free, the exported received and dropped counters have
\* the values kept beside them: re-registration loses nothing of them.
THEOREM LockedMetrics == Spec => []LockedMetricsExact
<1>1. MetricInv => LockedMetricsExact
  BY DEF MetricInv
<1> QED BY <1>1, TypeInvInit, TypeInvNext, MetricInvInit, MetricInvNext, PTL DEF Spec

\* The exported sent counter is off by at most one packet, after any number of
\* re-registrations that race with the sender.
THEOREM SentMetricBound == Spec => []SentMetricWithinOne
<1>1. TypeInv /\ MetricInv => SentMetricWithinOne
  BY DEF TypeInv, TypeOK, MetricInv, Replacing, SentMetricWithinOne
<1> QED BY <1>1, TypeInvInit, TypeInvNext, MetricInvInit, MetricInvNext, PTL DEF Spec
==============================================================================
