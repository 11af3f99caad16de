-------------------------------- MODULE PodTGC --------------------------------
(***************************************************************************)
(* The controller of pkg/tgc/tgc.go.                                       *)
(*                                                                         *)
(* The informer calls the handlers of the config maps net-bat-pairing and  *)
(* net-bat-profile one at a time, in the order of the changes.  A handler  *)
(* reads no config map but the one it is given, so that a change and its   *)
(* delivery are one step.  Besides the handler run the goroutines that     *)
(* create the UDP clients, the clients themselves and StopTGC ("stopper"). *)
(*                                                                         *)
(* A slot is an element of a netBatPairs slice, known by its pair and the  *)
(* version of the config map it comes from: goroutines keep pointers to    *)
(* slots of slices that were replaced.  A client is a udpStream, of which  *)
(* only the life is kept here, known by its slot and the call of           *)
(* createNetBatTgenClients it comes from.                                  *)
(***************************************************************************)
EXTENDS Integers, FiniteSets

CONSTANTS
  Pairs,         \* lines of the pairing config map that are this pod's
  NoClientPairs, \* those of them whose TrafficProfile has no protocol client
  Redialling,    \* those whose stream redials: to a domain name, or a service
  Interfaces,    \* network interfaces of the pod
  Rates,         \* send rates a profile may ask for
  DefaultRate,   \* defaultUDPSendRate
  Servers,       \* pod identities that answers carry
  EventKinds,    \* the kinds of config map events that happen
  Patient,       \* config maps change only when the last change has settled
  MaxEvents      \* bound: config map events

\* A "mixedUpdate" of a profile changes suspend-traffic and another setting; a
\* "shortLine" is a pairing line of this pod with less than three fields behind
\* its source; a "missedDelete" is one the informer found out about late.
AllKinds == {"pairingAdd", "pairingUpdate", "pairingDelete", "profileAdd", "profileUpdate",
             "profileDelete", "relist", "badData", "mixedUpdate", "shortLine", "missedDelete"}

ASSUME PairAssumption == NoClientPairs \subseteq Pairs /\ Redialling \subseteq Pairs
ASSUME RateAssumption == Rates \subseteq Nat /\ DefaultRate \in Rates
ASSUME LabelAssumption == Servers \cap {"none", "notStarted"} = {}
ASSUME EventAssumption ==
  EventKinds \subseteq AllKinds /\ Patient \in BOOLEAN /\ MaxEvents \in Nat

VARIABLES
  cm,               \* the informer's store: version and data of each config map
  events,           \* config map events so far
  netPairResourceVersion,
  netBatPairs,      \* the slots of tg.netBatPairs
  pairsSet,         \* tg.netBatPairs is not nil
  ClientConnection, \* per slot: its client, or NoClient for nil
  config,           \* tg.config
  sendRate,         \* of the config that all UDP clients share
  serversMap,       \* interfaces whose server is in tg.serversMap
  listening,        \* interfaces that have a running server
  creations,        \* calls of createNetBatTgenClients
  clients,          \* the clients created so far
  registry,         \* what is in the Prometheus registry
  threads,          \* what the handler and StopTGC are doing
  panic             \* why the process has panicked, or "none"

pairVars   == <<netPairResourceVersion, netBatPairs, pairsSet>>
confVars   == <<config, sendRate>>
serverVars == <<serversMap, listening>>
clientVars == <<ClientConnection, creations, clients, registry>>
vars == <<cm, events, pairVars, confVars, serverVars, clientVars, threads, panic>>

Absent == [version |-> 0]
NilConfig == [version |-> 0, suspendTraffic |-> FALSE]
NoClient == [run |-> 0]
NoLabels == [rate |-> 0]

\* The data of a profile: what of it cannot be parsed, and two settings.
GoodProfiles == [bad : {"nothing"}, rate : Rates, suspend : BOOLEAN]
BadProfiles == [bad : {"yaml", "suspend", "buffer", "rate"}, rate : {DefaultRate}, suspend : {FALSE}]
Profiles == GoodProfiles \cup (IF "badData" \in EventKinds THEN BadProfiles ELSE {})

\* The data of a pairing config map: this pod's pairs, if it can be parsed.
BadPairings == [bad : {"badData", "shortLine"} \cap EventKinds, pairs : {{}}]
Pairings == [bad : {"nothing"}, pairs : SUBSET Pairs] \cup BadPairings

Clients == DOMAIN clients
SlotOf(c) == [version |-> c.version, pair |-> c.pair]

\* What a client's metrics are registered as: its labels and the server they
\* name, with a name of its own for the traffic_not_started counter.
NotStarted(c) == [labels |-> clients[c].labels, server |-> "notStarted"]
Series(c, server) == [labels |-> clients[c].labels, server |-> server]

Idle == [doing |-> "idle", todo |-> {}, waiting |-> NoClient, data |-> [bad |-> "nothing", pairs |-> {}]]

Init ==
  /\ cm = [pairing |-> Absent, profile |-> Absent]
  /\ events = 0
  /\ netPairResourceVersion = 0 /\ netBatPairs = {} /\ pairsSet = FALSE
  /\ ClientConnection = [slot \in {} |-> NoClient]
  /\ config = NilConfig /\ sendRate = DefaultRate
  /\ serversMap = {} /\ listening = {}
  /\ creations = 0 /\ clients = [c \in {} |-> 0] /\ registry = {}
  /\ threads = [handler |-> Idle, stopper |-> Idle]
  /\ panic = "none"

\* A nil ClientConnection or config is called, or a counter nobody set; labels are
\* registered twice; a wait group drops below zero; a line has too few fields; an
\* object is no config map.
Causes == {"nilClient", "nilConfig", "nilCounter", "collision", "waitGroup", "shortLine", "missedDelete"}
crashed == panic # "none"

Panic(cause) ==
  /\ panic' = cause
  /\ UNCHANGED <<pairVars, confVars, serverVars, clientVars, threads>>

-------------------------------------------------------------------------------
(* createNetBatTgenClients, and the goroutine it starts for every slot.     *)

Spawned == [phase |-> "spawned", labels |-> NoLabels, connected |-> FALSE, server |-> "none",
            series |-> {}, relabelling |-> FALSE, stop |-> FALSE, launched |-> 0, exited |-> 0]

CreateNetBatTgenClients(slots) ==
  LET New == {[version |-> s.version, pair |-> s.pair, run |-> creations + 1] : s \in slots}
  IN  /\ creations' = creations + 1
      /\ clients' = [c \in Clients \cup New |-> IF c \in New THEN Spawned ELSE clients[c]]

\* An unknown TrafficProfile ends the goroutine with ClientConnection nil.
ClientIsCreated(c) ==
  /\ clients[c].phase = "spawned"
  /\ IF c.pair \in NoClientPairs
     THEN /\ clients' = [clients EXCEPT ![c].phase = "ended"]
          /\ UNCHANGED ClientConnection
     ELSE /\ clients' = [clients EXCEPT ![c].phase = "created"]
          /\ ClientConnection' = [ClientConnection EXCEPT ![SlotOf(c)] = c]
  /\ UNCHANGED <<pairVars, confVars, serverVars, creations, registry, threads, panic>>

\* SetupConnection: MustRegister panics on labels that are registered already,
\* which SetupConnection recovers from and returns as an error.
ClientRegisters(c) ==
  /\ clients[c].phase = "created"
  /\ LET labels == [pair |-> c.pair, rate |-> sendRate]
         id == [labels |-> labels, server |-> "notStarted"]
     IN  /\ clients' = [clients EXCEPT
               ![c].labels = labels,
               ![c].phase = IF id \in registry THEN "ended" ELSE "registered"]
         /\ registry' = registry \cup {id}
  /\ UNCHANGED <<pairVars, ClientConnection, confVars, serverVars, creations, threads, panic>>

\* Resolving, dialling or sizing the buffer may fail.
ClientDials(c) ==
  /\ clients[c].phase = "registered"
  /\ \/ clients' = [clients EXCEPT ![c].phase = "ended"]
     \/ clients' = [clients EXCEPT ![c].phase = "connected", ![c].connected = TRUE]
  /\ UNCHANGED <<pairVars, ClientConnection, confVars, serverVars, creations, registry, threads,
                 panic>>

\* registerStreamMetrics panics in the same way, with c.connection set.
ClientExports(c) ==
  /\ clients[c].phase = "connected"
  /\ LET id == Series(c, "none")
     IN  IF id \in registry
         THEN /\ clients' = [clients EXCEPT ![c].phase = "ended"]
              /\ UNCHANGED registry
         ELSE /\ clients' = [clients EXCEPT ![c].phase = "exported", ![c].series = {id}]
              /\ registry' = registry \cup {id}
  /\ UNCHANGED <<pairVars, ClientConnection, confVars, serverVars, creations, threads, panic>>

\* The three goroutines are started on the client the slot has by now.
ClientLaunches(c) ==
  /\ clients[c].phase = "exported"
  /\ LET running == ClientConnection[SlotOf(c)]
     IN  clients' = [clients EXCEPT ![c].phase = "launched", ![running].launched = @ + 1]
  /\ UNCHANGED <<pairVars, ClientConnection, confVars, serverVars, creations, registry, threads,
                 panic>>

CreateClient(c) ==
  ClientIsCreated(c) \/ ClientRegisters(c) \/ ClientDials(c) \/ ClientExports(c) \/ ClientLaunches(c)

-------------------------------------------------------------------------------
(* A running client.                                                        *)

Running(c) == clients[c].launched > clients[c].exited

\* deRegisterStreamMetrics: every series the client ever registered is taken out.
DeRegister(c) == registry \ clients[c].series

\* An answer from another server: reRegisterStreamMetrics begins, under c.mutex,
\* which nothing but this client's goroutines takes.
ClientRelabels(c, server) ==
  /\ Running(c)
  /\ clients[c].series # {} /\ ~clients[c].relabelling
  /\ server # clients[c].server
  /\ registry' = DeRegister(c)
  /\ clients' = [clients EXCEPT ![c].server = server, ![c].relabelling = TRUE]
  /\ UNCHANGED <<pairVars, ClientConnection, confVars, serverVars, creations, threads, panic>>

\* registerStreamMetrics.
\* Mutant: the old series are taken out after the new one was put in.
RegisteredFirst(c, id) == registry \ (clients[c].series \cup {id})
Registered(c, id) == registry \cup {id}

\* Nothing recovers a panic of SocketRead.
ClientReRegisters(c) ==
  /\ clients[c].relabelling
  /\ LET id == Series(c, clients[c].server)
     IN  IF id \in registry
         THEN Panic("collision")
         ELSE /\ registry' = Registered(c, id)
              /\ clients' = [clients EXCEPT ![c].series = @ \cup {id}, ![c].relabelling = FALSE]
              /\ UNCHANGED <<pairVars, ClientConnection, confVars, serverVars, creations, threads,
                             panic>>

\* Its counters are nil when another goroutine launched it too early.
ClientHasNoCounters(c) ==
  /\ Running(c)
  /\ clients[c].series = {}
  /\ Panic("nilCounter")

\* The client's goroutines see c.stop and signal its wait group.
\* Mutants: they signal twice, or never.
SignalNever(c) == clients[c].exited
SignalTwice(c) == clients[c].exited + 2
Signal(c) == clients[c].exited + 1

\* When they were launched twice the wait group's counter drops below zero,
\* which panics.
ClientExits(c) ==
  /\ Running(c)
  /\ clients[c].stop /\ ~clients[c].relabelling
  /\ IF clients[c].exited > 0
     THEN Panic("waitGroup")
     ELSE /\ clients' = [clients EXCEPT ![c].exited = Signal(c)]
          /\ UNCHANGED <<pairVars, ClientConnection, confVars, serverVars, creations, registry,
                         threads, panic>>

-------------------------------------------------------------------------------
(* TearDownConnection of the slots a thread has to do.                      *)

Busy(th) == threads[th].doing \in {"pairing", "delete", "restart", "stop"}

\* Mutant: the connection is closed whether or not there is one.
IsConnected(slot) ==
  LET c == ClientConnection[slot]
  IN  c \in {d \in Clients : clients[d].connected}

\* ClientConnection is set, and so is the counter TearDownConnection begins by
\* unregistering.
IsSetUp(slot) ==
  LET c == ClientConnection[slot]
  IN  c \in {d \in Clients : clients[d].labels # NoLabels}

\* Otherwise a nil interface is called, or a nil counter unregistered.
TearDownPanics(th) ==
  /\ Busy(th) /\ threads[th].waiting = NoClient
  /\ \E slot \in threads[th].todo :
        /\ ~IsSetUp(slot)
        /\ Panic(IF ClientConnection[slot] = NoClient THEN "nilClient" ELSE "nilCounter")

TearDownBegins(th, slot) ==
  /\ Busy(th) /\ threads[th].waiting = NoClient
  /\ slot \in threads[th].todo
  /\ IsSetUp(slot)
  /\ LET c == ClientConnection[slot]
     IN  /\ registry' = registry \ {NotStarted(c)}
         /\ IF clients[c].connected
            THEN /\ clients' = [clients EXCEPT ![c].stop = TRUE]
                 /\ threads' = [threads EXCEPT ![th].waiting = c, ![th].todo = @ \ {slot}]
            ELSE /\ threads' = [threads EXCEPT ![th].todo = @ \ {slot}]
                 /\ UNCHANGED clients
  /\ UNCHANGED <<pairVars, ClientConnection, confVars, serverVars, creations, panic>>

\* isStopped.Wait() returns, and the stream metrics are unregistered.
\* Mutant: they are not.
TearDownKeepsSeries(th) ==
  LET c == threads[th].waiting
  IN  /\ c # NoClient
      /\ clients[c].exited > 0
      /\ threads' = [threads EXCEPT ![th].waiting = NoClient]
      /\ UNCHANGED <<pairVars, confVars, serverVars, clientVars, panic>>
TearDownReturns(th) ==
  LET c == threads[th].waiting
  IN  /\ c # NoClient
      /\ clients[c].exited > 0
      /\ registry' = DeRegister(c)
      /\ threads' = [threads EXCEPT ![th].waiting = NoClient]
      /\ UNCHANGED <<pairVars, ClientConnection, confVars, serverVars, creations, clients, panic>>

Done(th) == Busy(th) /\ threads[th].todo = {} /\ threads[th].waiting = NoClient

\* handleNetBatPairingAddEvent; tg.netBatPairs is nil before it.  Without a
\* profile no client is created.
HandleNetBatPairingAddEvent(version, data) ==
  LET slots == {[version |-> version, pair |-> p] : p \in data.pairs}
  IN  /\ pairsSet' = (data.bad = "nothing")
      /\ netBatPairs' = slots
      /\ ClientConnection' = [s \in DOMAIN ClientConnection \cup slots |->
            IF s \in slots THEN NoClient ELSE ClientConnection[s]]
      /\ IF data.bad = "nothing" /\ config # NilConfig
         THEN CreateNetBatTgenClients(slots)
         ELSE UNCHANGED <<creations, clients>>

\* deleteNetBatTgenClients is done; after an update the new pairing is handled.
PairsAreDeleted ==
  /\ Done("handler")
  /\ \/ /\ threads.handler.doing = "pairing"
        /\ threads.handler.data.bad # "shortLine"
        /\ HandleNetBatPairingAddEvent(netPairResourceVersion, threads.handler.data)
     \/ /\ threads.handler.doing = "delete"
        /\ netBatPairs' = {} /\ pairsSet' = FALSE
        /\ UNCHANGED <<ClientConnection, creations, clients>>
  /\ threads' = [threads EXCEPT !.handler = Idle]
  /\ UNCHANGED <<netPairResourceVersion, confVars, serverVars, registry, panic>>

\* getAvailableNetBatPairings indexes the fields of a line without looking.
ShortLinePanics ==
  /\ Done("handler")
  /\ threads.handler.doing = "pairing" /\ threads.handler.data.bad = "shortLine"
  /\ Panic("shortLine")

\* restartNetBatTgenClients has torn down every client.
PairsAreRestarted ==
  /\ Done("handler")
  /\ threads.handler.doing = "restart"
  /\ CreateNetBatTgenClients(netBatPairs)
  /\ threads' = [threads EXCEPT !.handler = Idle]
  /\ UNCHANGED <<pairVars, ClientConnection, confVars, serverVars, registry, panic>>

HandlerRuns ==
  \/ TearDownPanics("handler") \/ (\E slot \in netBatPairs : TearDownBegins("handler", slot))
  \/ TearDownReturns("handler") \/ PairsAreDeleted \/ ShortLinePanics \/ PairsAreRestarted

-------------------------------------------------------------------------------
(* StopTGC.                                                                 *)

\* The handler and every goroutine that creates a client have returned.
Settled ==
  /\ threads.handler = Idle
  /\ \A c \in Clients : clients[c].phase \in {"ended", "launched"}

\* close(tg.stopper): the informer calls no handler any more.
StopTGC ==
  /\ threads.stopper.doing = "idle"
  /\ threads' = [threads EXCEPT !.stopper.doing = "closed"]
  /\ UNCHANGED <<pairVars, confVars, serverVars, clientVars, panic>>

\* The informer has stopped, or three seconds are over; no lock is taken.
StopTearsDown ==
  /\ threads.stopper.doing = "closed"
  /\ Patient => Settled
  /\ threads' = [threads EXCEPT !.stopper.doing = "stop", !.stopper.todo = netBatPairs]
  /\ UNCHANGED <<pairVars, confVars, serverVars, clientVars, panic>>

\* TearDownServer of every server; they stay in the map.
\* Mutant: none is stopped.
StopNoServer == UNCHANGED serverVars
StopServers == listening' = listening \ serversMap /\ UNCHANGED serversMap

\* stopServers comes last; then main returns.
StopFinishes ==
  /\ Done("stopper")
  /\ netBatPairs' = {} /\ pairsSet' = FALSE
  /\ StopServers
  /\ threads' = [threads EXCEPT !.stopper.doing = "stopped"]
  /\ UNCHANGED <<netPairResourceVersion, confVars, clientVars, panic>>

StopperRuns ==
  \/ StopTearsDown
  \/ TearDownPanics("stopper")
  \/ (\E slot \in threads.stopper.todo : TearDownBegins("stopper", slot))
  \/ TearDownReturns("stopper") \/ StopFinishes

-------------------------------------------------------------------------------
(* The handlers of the config map events.                                   *)

\* The informer calls a handler for an event of this kind.
Event(kind) ==
  /\ kind \in EventKinds
  /\ events < MaxEvents /\ events' = events + 1
  /\ threads.handler = Idle /\ threads.stopper = Idle
  /\ Patient => Settled

\* The handler goes on to tear down the clients of the current pairs.
Handler(doing, data) ==
  threads' = [threads EXCEPT !.handler =
                [doing |-> doing, todo |-> netBatPairs, waiting |-> NoClient, data |-> data]]
NoData == Idle.data

PairingAdd(data) ==
  /\ Event("pairingAdd")
  /\ cm.pairing = Absent
  /\ cm' = [cm EXCEPT !.pairing = [version |-> events + 1, data |-> data]]
  /\ \/ data.bad = "shortLine" /\ Panic("shortLine")
     \/ /\ data.bad # "shortLine"
        /\ netPairResourceVersion' = events + 1
        /\ HandleNetBatPairingAddEvent(events + 1, data)
        /\ UNCHANGED <<confVars, serverVars, registry, threads, panic>>

UpdatePairing(new) ==
  /\ IF new.version = netPairResourceVersion
     THEN UNCHANGED <<netPairResourceVersion, threads>>
     ELSE netPairResourceVersion' = new.version /\ Handler("pairing", new.data)
  /\ UNCHANGED <<netBatPairs, pairsSet, confVars, serverVars, clientVars, panic>>

PairingUpdate(data) ==
  /\ Event("pairingUpdate")
  /\ cm.pairing # Absent
  /\ cm' = [cm EXCEPT !.pairing = [version |-> events + 1, data |-> data]]
  /\ UpdatePairing(cm'.pairing)

PairingDelete ==
  /\ Event("pairingDelete")
  /\ cm.pairing # Absent
  /\ cm' = [cm EXCEPT !.pairing = Absent]
  /\ netPairResourceVersion' = 0
  /\ Handler("delete", NoData)
  /\ UNCHANGED <<netBatPairs, pairsSet, confVars, serverVars, clientVars, panic>>

\* LoadConfig, GetNetInterfaces and the two LoadBatProfileConfig: each can end
\* the handler, with what was done before it left in place.
ProfileAdd(data) ==
  /\ Event("profileAdd")
  /\ cm.profile = Absent
  /\ cm' = [cm EXCEPT !.profile = [version |-> events + 1, data |-> data]]
  /\ IF data.bad \in {"yaml", "suspend"}
     THEN UNCHANGED <<confVars, serverVars, clientVars>>
     ELSE /\ config' = [version |-> events + 1, suspendTraffic |-> data.suspend]
          /\ \/ UNCHANGED <<sendRate, serverVars, clientVars>>
             \/ /\ data.bad # "buffer"
                /\ \E created \in SUBSET (Interfaces \ listening) :
                      serversMap' = created /\ listening' = listening \cup created
                /\ IF data.bad = "rate"
                   THEN sendRate' = -1 /\ UNCHANGED clientVars
                   ELSE /\ sendRate' = data.rate
                        /\ IF pairsSet
                           THEN CreateNetBatTgenClients(netBatPairs)
                           ELSE UNCHANGED <<creations, clients>>
                        /\ UNCHANGED <<ClientConnection, registry>>
  /\ UNCHANGED <<pairVars, threads, panic>>

\* The settings are changed; a change of suspend-traffic is all there was.
\* Mutant: the clients are created again and not torn down before.
RestartCreatesOnly(suspended) ==
  /\ IF pairsSet /\ ~suspended
     THEN CreateNetBatTgenClients(netBatPairs)
     ELSE UNCHANGED <<creations, clients>>
  /\ UNCHANGED <<ClientConnection, registry, threads>>
\* Mutant: the clients go on.
RestartSkipped(suspended) == UNCHANGED <<threads, clientVars>>
Restart(suspended) ==
  /\ IF pairsSet /\ ~suspended THEN Handler("restart", NoData) ELSE UNCHANGED threads
  /\ UNCHANGED clientVars

\* ReLoadConfig writes into tg.config, which is nil after a failed Add.
UpdateProfile(new) ==
  LET data == new.data
  IN  \/ config = NilConfig /\ Panic("nilConfig")
      \/ /\ config # NilConfig
         /\ new.version = config.version \/ data.bad = "yaml"
         /\ UNCHANGED <<pairVars, confVars, serverVars, clientVars, threads, panic>>
      \/ /\ config # NilConfig /\ new.version # config.version
         /\ data.bad = "suspend"
         /\ config' = [config EXCEPT !.suspendTraffic = FALSE]
         /\ UNCHANGED <<pairVars, sendRate, serverVars, clientVars, threads, panic>>
      \/ /\ config # NilConfig /\ new.version # config.version
         /\ data.bad \in {"nothing", "buffer", "rate"}
         /\ config' = [version |-> new.version, suspendTraffic |-> data.suspend]
         /\ CASE data.bad = "buffer" -> UNCHANGED <<sendRate, clientVars, threads>>
              [] data.bad = "rate" -> sendRate' = -1 /\ UNCHANGED <<clientVars, threads>>
              [] OTHER -> sendRate' = data.rate /\ Restart(data.suspend # config.suspendTraffic)
         /\ UNCHANGED <<pairVars, serverVars, panic>>

ProfileUpdate(data) ==
  /\ Event("profileUpdate")
  /\ cm.profile # Absent
  /\ \/ "mixedUpdate" \in EventKinds
     \/ data.rate = sendRate \/ data.suspend = config.suspendTraffic
  /\ cm' = [cm EXCEPT !.profile = [version |-> events + 1, data |-> data]]
  /\ UpdateProfile(cm'.profile)

\* The clients keep running.
ProfileDelete ==
  /\ Event("profileDelete")
  /\ cm.profile # Absent
  /\ cm' = [cm EXCEPT !.profile = Absent]
  /\ StopServers
  /\ config' = NilConfig
  /\ UNCHANGED <<pairVars, sendRate, clientVars, threads, panic>>

\* The informer lists the config maps again and reports one as updated.
Relist ==
  /\ Event("relist")
  /\ \/ cm.pairing # Absent /\ UpdatePairing(cm.pairing)
     \/ cm.profile # Absent /\ UpdateProfile(cm.profile)
  /\ UNCHANGED cm

\* DeleteFunc is given a cache.DeletedFinalStateUnknown, for any config map of
\* the namespace, and asserts that it is a config map.
MissedDelete ==
  /\ Event("missedDelete")
  /\ Panic("missedDelete")
  /\ UNCHANGED cm

ConfigMapEvent ==
  \/ \E data \in Pairings : PairingAdd(data) \/ PairingUpdate(data)
  \/ \E data \in Profiles : ProfileAdd(data) \/ ProfileUpdate(data)
  \/ PairingDelete \/ ProfileDelete \/ Relist \/ MissedDelete

\* The process has panicked, or main has returned.
Terminated == crashed \/ threads.stopper.doing = "stopped"

Next ==
  \/ /\ ~Terminated
     /\ \/ ConfigMapEvent
        \/ /\ \/ HandlerRuns \/ StopTGC \/ StopperRuns
              \/ \E c \in Clients :
                    \/ CreateClient(c) \/ ClientReRegisters(c)
                    \/ ClientHasNoCounters(c) \/ ClientExits(c)
              \/ \E c \in Clients, server \in Servers : ClientRelabels(c, server)
           /\ UNCHANGED <<cm, events>>
  \/ Terminated /\ UNCHANGED vars

Spec == Init /\ [][Next]_vars

\* What the goroutines of clients do by themselves.  The reader of a stream that
\* redials may block on a socket that was set when it was told to stop, and which
\* nobody closes: such a client may exit or not.
ClientRuns(c) ==
  \/ CreateClient(c) \/ ClientReRegisters(c)
  \/ c.pair \notin Redialling /\ ClientExits(c)

\* Go's scheduler runs every goroutine that can run.
Fairness ==
  /\ WF_vars(HandlerRuns /\ UNCHANGED <<cm, events>>)
  /\ WF_vars(StopperRuns /\ UNCHANGED <<cm, events>>)
  /\ WF_vars((\E c \in Clients : ClientRuns(c)) /\ UNCHANGED <<cm, events>>)

FairSpec == Spec /\ Fairness

-------------------------------------------------------------------------------
(* Properties.                                                              *)

Ids == [labels : [pair : Pairs, rate : Rates \cup {-1}],
        server : Servers \cup {"none", "notStarted"}]
ClientRecords ==
  [phase : {"spawned", "created", "registered", "connected", "exported", "launched", "ended"},
   labels : [pair : Pairs, rate : Rates \cup {-1}] \cup {NoLabels}, connected : BOOLEAN,
   server : Servers \cup {"none"}, series : SUBSET Ids, relabelling : BOOLEAN, stop : BOOLEAN,
   launched : 0..MaxEvents, exited : 0..1]
Slots == [version : 1..MaxEvents, pair : Pairs]
ClientIds == [version : 1..MaxEvents, pair : Pairs, run : 1..MaxEvents]

\* Every field has the type podTGC gives it, and pointers point to something.
TypeOK ==
  /\ events \in 0..MaxEvents /\ netPairResourceVersion \in 0..MaxEvents
  /\ netBatPairs \in SUBSET Slots /\ netBatPairs \subseteq DOMAIN ClientConnection
  /\ pairsSet \in BOOLEAN /\ (netBatPairs # {} => pairsSet)
  /\ \A slot \in DOMAIN ClientConnection : ClientConnection[slot] \in Clients \cup {NoClient}
  /\ config \in [version : 0..MaxEvents, suspendTraffic : BOOLEAN]
  /\ sendRate \in Rates \cup {-1}
  /\ serversMap \in SUBSET Interfaces /\ listening \in SUBSET Interfaces
  /\ Clients \in SUBSET ClientIds
  /\ \A c \in Clients : clients[c] \in ClientRecords /\ SlotOf(c) \in DOMAIN ClientConnection
  /\ registry \in SUBSET Ids
  /\ \A th \in {"handler", "stopper"} :
        /\ threads[th].doing \in {"idle", "pairing", "delete", "restart", "closed", "stop", "stopped"}
        /\ threads[th].todo \subseteq DOMAIN ClientConnection
        /\ threads[th].waiting \in Clients \cup {NoClient}
  /\ panic \in Causes \cup {"none"}

\* The client sends packets and has not been told to stop.
Sending(c) == Running(c) /\ ~clients[c].stop

\* Every client that sends belongs to a pair of the current configuration, and
\* a pair has one: no client is forgotten by an update, a restart or a delete.
SendersArePaired ==
  \A c \in Clients : Sending(c) => SlotOf(c) \in netBatPairs /\ ClientConnection[SlotOf(c)] = c

\* The metrics of a client that sends are exported, but for its series while it
\* replaces them: neither its own relabelling nor what other clients do meanwhile
\* takes them out of the registry.
SendersAreExported ==
  \A c \in Clients : Sending(c) =>
     /\ NotStarted(c) \in registry
     /\ ~clients[c].relabelling => Series(c, clients[c].server) \in registry

\* What is exported belongs to the client of a current pair: a client that was
\* torn down leaves nothing behind that would keep its successor from starting.
NothingStaleExported ==
  \A id \in registry : \E slot \in netBatPairs :
     LET c == ClientConnection[slot]
     IN  c # NoClient /\ clients[c].labels = id.labels

\* A client sends at the rate its metrics are labelled with, though it reads the
\* rate anew in every round and its labels only when it is set up: unless an
\* update did not parse, or changed suspend-traffic too, the clients of another
\* rate are gone when the handler returns.
RateLabelsTrue ==
  threads.handler = Idle /\ sendRate # -1 =>
     \A c \in Clients : Sending(c) => clients[c].labels.rate = sendRate

\* A server runs only while a profile is loaded, and the controller knows every
\* server that runs, so that stopServers reaches it: however the events of the
\* two config maps, failed loads and StopTGC follow each other.
ServersFollowProfile ==
  listening \subseteq serversMap /\ (listening # {} => config # NilConfig)

\* No client was made for the slot, or its traffic profile has none.
Unserved(slot) == slot.pair \in NoClientPairs \/ \A c \in Clients : SlotOf(c) # slot

\* When changes come one by one, the process panics for a nil config or a nil
\* ClientConnection, and the latter only because there was nothing to create: the
\* profile had not been loaded, or has no client for the pair.  It never panics for
\* labels that collide, a wait group below zero or counters that are not there.
OnlyNilPanics ==
  /\ panic \in {"none", "nilConfig", "nilClient"}
  /\ panic = "nilClient" =>
        \A slot \in netBatPairs : ClientConnection[slot] = NoClient => Unserved(slot)

\* A thread waits for a client whose reader may block for ever.
WaitsForRedialler ==
  \E th \in DOMAIN threads : threads[th].waiting # NoClient /\ threads[th].waiting.pair \in Redialling

\* The handler and StopTGC come back from tearing down the clients, unless they come
\* to one whose stream redials: every other client they wait for has been launched,
\* and its goroutines see c.stop.
TearDownsReturn ==
  (\E th \in DOMAIN threads : Busy(th)) ~>
     ((\A th \in DOMAIN threads : ~Busy(th)) \/ crashed \/ WaitsForRedialler)
===============================================================================
