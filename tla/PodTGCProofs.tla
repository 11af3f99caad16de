----------------------------- MODULE PodTGCProofs -----------------------------
(***************************************************************************)
(* Proofs about PodTGC: the servers follow the profile and everything      *)
(* keeps its type, for every number of events, in every order, with or     *)
(* without patience.                                                       *)
(***************************************************************************)
EXTENDS PodTGC, FiniteSetTheorems, TLAPS

\* A loaded config has a version, and there is none without the config map.
ConfigInv ==
  /\ events \in Nat
  /\ DOMAIN cm = {"pairing", "profile"}
  /\ cm.profile # Absent => cm.profile.version \in Nat \ {0}
  /\ cm.profile = Absent => config = NilConfig
  /\ config = NilConfig \/ config \in [version : Nat \ {0}, suspendTraffic : {config.suspendTraffic}]

\* ServersFollowProfile is not inductive by itself: ProfileAdd overwrites
\* serversMap, which forgets no server because the config map was absent, hence
\* no config was loaded, hence no server was running.
ServersInv == ConfigInv /\ ServersFollowProfile

\* The controller starts without config maps and servers.
LEMMA ServersInvInit == Init => ServersInv
BY DEF Init, ServersInv, ConfigInv, ServersFollowProfile, Absent, NilConfig

\* What handlers, creators, clients and StopTGC do besides reading config maps
\* starts no server and leaves the config alone.
LEMMA RunningStep ==
  ASSUME \/ HandlerRuns \/ StopTGC \/ StopperRuns
         \/ \E c \in Clients : CreateClient(c) \/ ClientReRegisters(c) \/ ClientHasNoCounters(c) \/ ClientExits(c)
         \/ \E c \in Clients, server \in Servers : ClientRelabels(c, server)
  PROVE  config' = config /\ serversMap' = serversMap /\ listening' \subseteq listening
<1>1. CASE HandlerRuns
  BY <1>1 DEF HandlerRuns, TearDownPanics, Panic, TearDownBegins, TearDownReturns,
              PairsAreDeleted, ShortLinePanics, PairsAreRestarted, confVars, serverVars
<1>2. CASE StopTGC
  BY <1>2 DEF StopTGC, confVars, serverVars
<1>3. CASE StopperRuns
  BY <1>3 DEF StopperRuns, StopTearsDown, TearDownPanics, Panic, TearDownBegins,
              TearDownReturns, StopFinishes, StopServers, confVars, serverVars
<1>4. CASE \E c \in Clients : CreateClient(c) \/ ClientReRegisters(c) \/ ClientHasNoCounters(c) \/ ClientExits(c)
  BY <1>4 DEF CreateClient, ClientIsCreated, ClientRegisters, ClientDials, ClientExports,
              ClientLaunches, ClientReRegisters, ClientHasNoCounters, ClientExits, Panic, confVars,
              serverVars
<1>5. CASE \E c \in Clients, server \in Servers : ClientRelabels(c, server)
  BY <1>5 DEF ClientRelabels, Panic, confVars, serverVars
<1>6. QED
  BY <1>1, <1>2, <1>3, <1>4, <1>5

\* ReLoadConfig, on an update or a relisted config map: a config that is loaded
\* stays loaded, and no server is touched.
LEMMA UpdateStep ==
  ASSUME NEW new, new.version \in Nat \ {0}, ConfigInv, UpdateProfile(new)
  PROVE  /\ serverVars' = serverVars
         /\ config = NilConfig => config' = NilConfig
         /\ config # NilConfig => config' # NilConfig
         /\ \/ config' = NilConfig
            \/ config' \in [version : Nat \ {0}, suspendTraffic : {config'.suspendTraffic}]
<1>1. CASE config = NilConfig
  BY <1>1 DEF UpdateProfile, Panic, confVars, serverVars
<1>2. CASE config # NilConfig /\ UNCHANGED <<confVars, serverVars>>
  BY <1>2 DEF ConfigInv, confVars, serverVars
<1>3. CASE /\ config # NilConfig
           /\ config' = [config EXCEPT !.suspendTraffic = FALSE]
           /\ UNCHANGED serverVars
  <2>1. config \in [version : Nat \ {0}, suspendTraffic : {config.suspendTraffic}]
    BY <1>3 DEF ConfigInv
  <2>2. config' = [version |-> config.version, suspendTraffic |-> FALSE]
    BY <1>3, <2>1
  <2>3. config.version \in Nat \ {0}
    BY <2>1
  <2>4. config' # NilConfig
    BY <2>2, <2>3 DEF NilConfig
  <2>5. config' \in [version : Nat \ {0}, suspendTraffic : {config'.suspendTraffic}]
    BY <2>2, <2>3
  <2>6. QED
    BY <1>3, <2>4, <2>5
<1>4. CASE /\ config # NilConfig
           /\ config' = [version |-> new.version, suspendTraffic |-> new.data.suspend]
           /\ UNCHANGED serverVars
  BY <1>4 DEF NilConfig
<1>5. \/ config = NilConfig
      \/ config # NilConfig /\ UNCHANGED <<confVars, serverVars>>
      \/ /\ config # NilConfig
         /\ config' = [config EXCEPT !.suspendTraffic = FALSE]
         /\ UNCHANGED serverVars
      \/ /\ config # NilConfig
         /\ config' = [version |-> new.version, suspendTraffic |-> new.data.suspend]
         /\ UNCHANGED serverVars
  BY Zenon DEF UpdateProfile
<1>6. QED
  BY <1>1, <1>2, <1>3, <1>4, <1>5

\* Every step of the controller keeps the invariant.
LEMMA ServersInvNext == ServersInv /\ [Next]_vars => ServersInv'
<1> SUFFICES ASSUME ServersInv, [Next]_vars
             PROVE  ServersInv'
  OBVIOUS
<1> USE DEF ServersInv
<1>1. ASSUME NEW data \in Profiles, ProfileAdd(data)
      PROVE  ServersInv'
  <2>1. config = NilConfig /\ listening = {}
    BY <1>1 DEF ProfileAdd, ConfigInv, ServersFollowProfile
  <2>2. /\ events' = events + 1 /\ events' \in Nat \ {0}
        /\ cm' = [cm EXCEPT !.profile = [version |-> events + 1, data |-> data]]
    BY <1>1 DEF ProfileAdd, Event, ConfigInv
  <2>3. /\ DOMAIN cm' = {"pairing", "profile"}
        /\ cm'.profile = [version |-> events + 1, data |-> data]
        /\ cm'.profile.version = events + 1
    BY <2>2 DEF ConfigInv
  <2>4. cm'.profile # Absent
    BY <2>2, <2>3 DEF Absent, ConfigInv
  <2>5. CASE UNCHANGED <<confVars, serverVars>>
    BY <2>1, <2>2, <2>3, <2>4, <2>5 DEF ConfigInv, ServersFollowProfile, confVars, serverVars
  <2>6. CASE /\ config' = [version |-> events + 1, suspendTraffic |-> data.suspend]
             /\ listening' \subseteq serversMap'
    <3>1. config' # NilConfig
      BY <2>2, <2>6 DEF NilConfig
    <3>2. config' \in [version : Nat \ {0}, suspendTraffic : {config'.suspendTraffic}]
      BY <2>2, <2>6
    <3>3. QED
      BY <2>2, <2>3, <2>4, <2>6, <3>1, <3>2 DEF ConfigInv, ServersFollowProfile
  <2>7. QED
    BY <1>1, <2>1, <2>5, <2>6 DEF ProfileAdd, confVars, serverVars
<1>2. ASSUME NEW new, new.version \in Nat \ {0}, UpdateProfile(new),
             events' \in Nat, DOMAIN cm' = {"pairing", "profile"}, cm'.profile = new,
             new # Absent
      PROVE  ServersInv'
  BY <1>2, UpdateStep DEF ConfigInv, ServersFollowProfile, serverVars
<1>3. ASSUME NEW data \in Profiles, ProfileUpdate(data)
      PROVE  ServersInv'
  <2>1. /\ events' = events + 1 /\ events' \in Nat \ {0}
        /\ cm' = [cm EXCEPT !.profile = [version |-> events + 1, data |-> data]]
    BY <1>3 DEF ProfileUpdate, Event, ConfigInv
  <2>2. /\ DOMAIN cm' = {"pairing", "profile"}
        /\ cm'.profile = [version |-> events + 1, data |-> data]
        /\ cm'.profile.version = events + 1
    BY <2>1 DEF ConfigInv
  <2>3. cm'.profile # Absent
    BY <2>1, <2>2 DEF Absent, ConfigInv
  <2>4. QED
    BY <1>2, <1>3, <2>1, <2>2, <2>3 DEF ProfileUpdate
<1>4. ASSUME ProfileDelete
      PROVE  ServersInv'
  <2>1. DOMAIN cm' = {"pairing", "profile"} /\ cm'.profile = Absent /\ events' \in Nat
    BY <1>4 DEF ProfileDelete, Event, ConfigInv
  <2>2. listening' = {} /\ config' = NilConfig
    BY <1>4 DEF ProfileDelete, StopServers, ServersFollowProfile
  <2>3. QED
    BY <2>1, <2>2 DEF ConfigInv, ServersFollowProfile
<1>5. ASSUME Relist
      PROVE  ServersInv'
  <2>1. events' \in Nat /\ cm' = cm
    BY <1>5 DEF Relist, Event, ConfigInv
  <2>2. CASE UpdatePairing(cm.pairing)
    BY <2>1, <2>2 DEF UpdatePairing, ConfigInv, ServersFollowProfile, confVars, serverVars
  <2>3. CASE cm.profile # Absent /\ UpdateProfile(cm.profile)
    BY <1>2, <2>1, <2>3 DEF ConfigInv
  <2>4. QED
    BY <1>5, <2>2, <2>3 DEF Relist
<1>6. ASSUME NEW data \in Pairings, PairingAdd(data) \/ PairingUpdate(data)
      PROVE  ServersInv'
  <2>1. /\ events' \in Nat /\ config' = config /\ serverVars' = serverVars
        /\ cm' = [cm EXCEPT !.pairing = [version |-> events + 1, data |-> data]]
    BY <1>6 DEF PairingAdd, PairingUpdate, UpdatePairing, Panic, Event, ConfigInv, confVars
  <2>2. DOMAIN cm' = {"pairing", "profile"} /\ cm'.profile = cm.profile
    BY <2>1 DEF ConfigInv
  <2>3. QED
    BY <2>1, <2>2 DEF ConfigInv, ServersFollowProfile, serverVars
<1>7. ASSUME PairingDelete
      PROVE  ServersInv'
  <2>1. /\ events' \in Nat /\ config' = config /\ serverVars' = serverVars
        /\ cm' = [cm EXCEPT !.pairing = Absent]
    BY <1>7 DEF PairingDelete, Event, ConfigInv, confVars
  <2>2. DOMAIN cm' = {"pairing", "profile"} /\ cm'.profile = cm.profile
    BY <2>1 DEF ConfigInv
  <2>3. QED
    BY <2>1, <2>2 DEF ConfigInv, ServersFollowProfile, serverVars
<1>8. ASSUME MissedDelete
      PROVE  ServersInv'
  BY <1>8 DEF MissedDelete, Panic, Event, ConfigInv, ServersFollowProfile, confVars, serverVars
<1>9. ASSUME config' = config, serversMap' = serversMap, listening' \subseteq listening,
             UNCHANGED <<cm, events>>
      PROVE  ServersInv'
  BY <1>9 DEF ConfigInv, ServersFollowProfile
<1>10. CASE UNCHANGED vars
  BY <1>9, <1>10 DEF vars, confVars, serverVars
<1>11. QED
  BY <1>1, <1>3, <1>4, <1>5, <1>6, <1>7, <1>8, <1>9, <1>10, RunningStep DEF Next, ConfigMapEvent

\* However the config map events, failed loads and StopTGC follow each other, a
\* server runs only while a profile is loaded, and tg.serversMap knows it.
THEOREM ServersFollow == Spec => []ServersFollowProfile
<1>1. ServersInv => ServersFollowProfile
  BY DEF ServersInv
<1>2. QED
  BY ServersInvInit, ServersInvNext, <1>1, PTL DEF Spec

-------------------------------------------------------------------------------
(* The type invariant *)

\* The config maps and what was loaded from them: versions number the events, and
\* until the process panics netPairResourceVersion is the one of the pairing
\* config map in the store.
StoreInv ==
  /\ events \in 0..MaxEvents
  /\ netPairResourceVersion \in 0..events
  /\ cm \in [pairing : [version : 1..events, data : Pairings] \cup {Absent},
             profile : [version : 1..events, data : Profiles] \cup {Absent}]
  /\ (panic = "none" /\ cm.pairing # Absent) => cm.pairing.version = netPairResourceVersion
  /\ config \in [version : 0..events, suspendTraffic : BOOLEAN]
  /\ sendRate \in Rates \cup {-1}
  /\ serversMap \in SUBSET Interfaces /\ listening \in SUBSET Interfaces
  /\ panic \in Causes \cup {"none"}

Threads ==
  [doing : {"idle", "pairing", "delete", "restart", "closed", "stop", "stopped"},
   todo : SUBSET Slots, waiting : ClientIds \cup {NoClient}, data : Pairings]
ThreadInv ==
  /\ threads \in [handler : Threads, stopper : Threads]
  /\ \A th \in {"handler", "stopper"} :
        /\ threads[th].todo \subseteq DOMAIN ClientConnection
        /\ threads[th].waiting \in Clients \cup {NoClient}

\* A slot is as old as its config map: the slots of a pairing that is about to be
\* handled do not exist yet, so that no goroutine holds a pointer to one of them.
SlotInv ==
  /\ netBatPairs \subseteq DOMAIN ClientConnection
  /\ pairsSet \in BOOLEAN /\ (netBatPairs # {} => pairsSet)
  /\ threads.handler.doing = "pairing" => netPairResourceVersion > 0
  /\ \A slot \in DOMAIN ClientConnection :
        /\ slot \in Slots /\ slot.version <= events
        /\ ClientConnection[slot] \in Clients \cup {NoClient}
        /\ ClientConnection[slot] # NoClient => SlotOf(ClientConnection[slot]) = slot
        /\ threads.handler.doing = "pairing" => slot.version < netPairResourceVersion

Working == {"created", "registered", "connected", "exported", "launched"}

\* Every event creates clients once at most; a client past its creation has a
\* slot that points to some client, and one with metrics has labels.
ClientInv ==
  /\ creations \in 0..events
  /\ threads.handler.doing \in {"pairing", "restart"} => creations < events
  /\ \A c \in Clients :
        /\ c \in ClientIds /\ c.run <= creations
        /\ clients[c] \in ClientRecords
        /\ SlotOf(c) \in DOMAIN ClientConnection
        /\ clients[c].phase \in Working => ClientConnection[SlotOf(c)] # NoClient
        /\ clients[c].phase \in Working \ {"created"} \/ clients[c].series # {} =>
              clients[c].labels # NoLabels
        /\ clients[c].relabelling => clients[c].series # {}

\* The creations whose goroutine for this slot has started a client's goroutines.
LaunchedRuns(slot) ==
  {run \in 1..creations :
     \E c \in Clients : SlotOf(c) = slot /\ c.run = run /\ clients[c].phase = "launched"}

\* A client is launched once per creation of a client for its slot at most.
LaunchInv == \A c \in Clients : clients[c].launched <= Cardinality(LaunchedRuns(SlotOf(c)))

RegistryInv == registry \in SUBSET Ids

TypeInv == StoreInv /\ ThreadInv /\ SlotInv /\ ClientInv /\ LaunchInv /\ RegistryInv

\* The invariant has the types in it: a bound of the runs bounds the launches.
LEMMA TypeInvTypes == TypeInv => TypeOK
<1> SUFFICES ASSUME TypeInv
             PROVE  TypeOK
  OBVIOUS
<1>1. MaxEvents \in Nat
  BY EventAssumption
<1>2. /\ events \in 0..MaxEvents /\ netPairResourceVersion \in 0..MaxEvents
      /\ config \in [version : 0..MaxEvents, suspendTraffic : BOOLEAN]
      /\ sendRate \in Rates \cup {-1}
      /\ serversMap \in SUBSET Interfaces /\ listening \in SUBSET Interfaces
      /\ panic \in Causes \cup {"none"}
  BY <1>1 DEF TypeInv, StoreInv
<1>3. /\ netBatPairs \in SUBSET Slots /\ netBatPairs \subseteq DOMAIN ClientConnection
      /\ pairsSet \in BOOLEAN /\ (netBatPairs # {} => pairsSet)
      /\ \A slot \in DOMAIN ClientConnection : ClientConnection[slot] \in Clients \cup {NoClient}
  BY DEF TypeInv, SlotInv
<1>4. /\ Clients \in SUBSET ClientIds
      /\ \A c \in Clients : clients[c] \in ClientRecords /\ SlotOf(c) \in DOMAIN ClientConnection
  BY DEF TypeInv, ClientInv
<1>5. \A th \in {"handler", "stopper"} :
        /\ threads[th].doing \in {"idle", "pairing", "delete", "restart", "closed", "stop", "stopped"}
        /\ threads[th].todo \subseteq DOMAIN ClientConnection
        /\ threads[th].waiting \in Clients \cup {NoClient}
  BY DEF TypeInv, ThreadInv, Threads
<1>6. QED
  BY <1>2, <1>3, <1>4, <1>5 DEF TypeOK, TypeInv, RegistryInv

\* The state before the first event.
LEMMA TypeInvInit == Init => TypeInv
<1> SUFFICES ASSUME Init
             PROVE  TypeInv
  OBVIOUS
<1>1. MaxEvents \in Nat /\ DefaultRate \in Rates
  BY EventAssumption, RateAssumption
<1>2. StoreInv
  <2>1. events = 0 /\ 0 \in 0..events /\ events \in 0..MaxEvents /\ netPairResourceVersion \in 0..events
    BY <1>1 DEF Init
  <2>2. config \in [version : 0..events, suspendTraffic : BOOLEAN] /\ panic \in Causes \cup {"none"}
    BY <2>1, Zenon DEF Init, NilConfig
  <2>3. cm = [pairing |-> Absent, profile |-> Absent] /\ cm.pairing = Absent
    BY DEF Init
  <2>4. sendRate \in Rates /\ serversMap = {} /\ listening = {}
    BY <1>1 DEF Init
  <2>5. QED
    BY <2>1, <2>2, <2>3, <2>4 DEF StoreInv
<1>3. Clients = {} /\ DOMAIN ClientConnection = {}
  BY DEF Init, Clients
<1>4. Idle \in Threads
  BY DEF Idle, Threads, Pairings
<1>5. ThreadInv
  BY <1>4 DEF Init, ThreadInv, Idle
<1>6. SlotInv
  BY <1>3 DEF Init, SlotInv, Idle
<1>7. ClientInv /\ LaunchInv
  BY <1>1, <1>3 DEF Init, ClientInv, LaunchInv, Idle
<1>8. QED
  BY <1>2, <1>5, <1>6, <1>7 DEF TypeInv, RegistryInv, Init

\* The runs that launched for a slot are finitely many, and more when more clients
\* are launched.
LEMMA LaunchedRunsFinite ==
  ASSUME creations \in Nat, NEW slot
  PROVE  /\ IsFiniteSet(LaunchedRuns(slot))
         /\ Cardinality(LaunchedRuns(slot)) \in 0..creations
<1>1. LaunchedRuns(slot) \subseteq 1..creations
  BY DEF LaunchedRuns
<1>2. IsFiniteSet(1..creations) /\ Cardinality(1..creations) = creations
  BY FS_Interval
<1>3. QED
  BY <1>1, <1>2, FS_Subset, FS_CardinalityType

LEMMA LaunchedRunsGrow ==
  ASSUME creations \in Nat, creations' \in Nat, creations <= creations',
         Clients \subseteq Clients',
         \A c \in Clients : clients[c].phase = "launched" => clients'[c].phase = "launched",
         NEW slot
  PROVE  /\ Cardinality(LaunchedRuns(slot)) <= Cardinality(LaunchedRuns(slot)')
         /\ IsFiniteSet(LaunchedRuns(slot)')
         /\ Cardinality(LaunchedRuns(slot)) \in Nat
         /\ Cardinality(LaunchedRuns(slot)') \in 0..creations'
<1>1. LaunchedRuns(slot) \subseteq LaunchedRuns(slot)'
  BY DEF LaunchedRuns, SlotOf
<1>2. IsFiniteSet(LaunchedRuns(slot)') /\ Cardinality(LaunchedRuns(slot)') \in 0..creations'
  <2>1. LaunchedRuns(slot)' \subseteq 1..creations'
    BY DEF LaunchedRuns
  <2>2. IsFiniteSet(1..creations') /\ Cardinality(1..creations') = creations'
    BY FS_Interval
  <2>3. QED
    BY <2>1, <2>2, FS_Subset, FS_CardinalityType
<1>3. QED
  BY <1>1, <1>2, FS_Subset, FS_CardinalityType

\* What a step may do to one client, its slot and the registry.
LEMMA OneClient ==
  ASSUME TypeInv, NEW c \in Clients,
         Clients' = Clients,
         \A d \in Clients \ {c} : clients'[d] = clients[d],
         clients'[c] \in ClientRecords,
         clients'[c].launched = clients[c].launched,
         clients[c].phase = "launched" => clients'[c].phase = "launched",
         clients'[c].phase \in Working \ {"created"} \/ clients'[c].series # {} =>
            clients'[c].labels # NoLabels,
         clients'[c].relabelling => clients'[c].series # {},
         \/ clients'[c].phase \in Working => ClientConnection[SlotOf(c)] # NoClient
         \/ ClientConnection'[SlotOf(c)] # NoClient,
         ClientConnection' \in {ClientConnection, [ClientConnection EXCEPT ![SlotOf(c)] = c]},
         registry' \subseteq Ids,
         ThreadInv', threads'.handler.doing = threads.handler.doing,
         UNCHANGED <<cm, events, pairVars, confVars, serverVars, creations, panic>>
  PROVE  TypeInv'
<1>1. StoreInv'
  BY DEF TypeInv, StoreInv, pairVars, confVars, serverVars
<1>2. DOMAIN ClientConnection' = DOMAIN ClientConnection
  OBVIOUS
<1>3. c # NoClient /\ SlotOf(c) \in DOMAIN ClientConnection
  BY DEF TypeInv, ClientInv, ClientIds, NoClient
<1>4. \A slot \in DOMAIN ClientConnection :
        /\ ClientConnection'[slot] \in {ClientConnection[slot], c}
        /\ ClientConnection'[slot] = ClientConnection[slot] \/ slot = SlotOf(c)
        /\ ClientConnection[slot] # NoClient => ClientConnection'[slot] # NoClient
  BY <1>3
<1>5. SlotInv'
  BY <1>2, <1>4 DEF TypeInv, SlotInv, pairVars, SlotOf
<1>6. ASSUME NEW d \in Clients'
      PROVE  /\ d \in ClientIds /\ d.run <= creations'
             /\ clients'[d] \in ClientRecords
             /\ SlotOf(d) \in DOMAIN ClientConnection'
             /\ clients'[d].phase \in Working => ClientConnection'[SlotOf(d)] # NoClient
             /\ clients'[d].phase \in Working \ {"created"} \/ clients'[d].series # {} =>
                   clients'[d].labels # NoLabels
             /\ clients'[d].relabelling => clients'[d].series # {}
  <2>1. CASE d = c
    BY <2>1, <1>2, <1>3, <1>4 DEF TypeInv, ClientInv
  <2>2. CASE d # c
    BY <2>2, <1>2, <1>4 DEF TypeInv, ClientInv
  <2>3. QED
    BY <2>1, <2>2
<1>7. ClientInv'
  BY <1>6 DEF TypeInv, ClientInv, SlotOf
<1>8. creations \in Nat /\ creations' = creations /\ events \in Nat
  BY EventAssumption DEF TypeInv, ClientInv, StoreInv
<1>9. \A d \in Clients : clients[d].phase = "launched" => clients'[d].phase = "launched"
  OBVIOUS
<1>10. ASSUME NEW d \in Clients'
       PROVE  clients'[d].launched <= Cardinality(LaunchedRuns(SlotOf(d))')
  <2>1. clients'[d].launched = clients[d].launched
    OBVIOUS
  <2>2. clients[d].launched <= Cardinality(LaunchedRuns(SlotOf(d)))
    BY DEF TypeInv, LaunchInv
  <2>3. /\ Cardinality(LaunchedRuns(SlotOf(d))) <= Cardinality(LaunchedRuns(SlotOf(d))')
        /\ Cardinality(LaunchedRuns(SlotOf(d))) \in Nat
        /\ Cardinality(LaunchedRuns(SlotOf(d))') \in Nat
    BY <1>8, <1>9, LaunchedRunsGrow DEF SlotOf
  <2>4. clients[d].launched \in Nat
    BY DEF TypeInv, ClientInv, ClientRecords
  <2>5. QED
    BY <2>1, <2>2, <2>3, <2>4
<1>11. LaunchInv'
  BY <1>10 DEF LaunchInv
<1>12. QED
  BY <1>1, <1>5, <1>7, <1>11 DEF TypeInv, RegistryInv

\* The identities of a client's metrics.
LEMMA IdTypes ==
  ASSUME NEW labels \in [pair : Pairs, rate : Rates \cup {-1}],
         NEW server \in Servers \cup {"none", "notStarted"}
  PROVE  [labels |-> labels, server |-> server] \in Ids
BY DEF Ids

\* The creation of a client, up to the start of its goroutines.
LEMMA CreateStep ==
  ASSUME TypeInv, NEW c \in Clients, UNCHANGED <<cm, events>>,
         ClientIsCreated(c) \/ ClientRegisters(c) \/ ClientDials(c) \/ ClientExports(c)
  PROVE  TypeInv'
<1>1. /\ c \in ClientIds /\ c # NoClient /\ c.pair \in Pairs
      /\ clients[c] \in ClientRecords /\ SlotOf(c) \in DOMAIN ClientConnection
      /\ clients[c].phase \in Working => ClientConnection[SlotOf(c)] # NoClient
      /\ clients[c].phase \in Working \ {"created"} \/ clients[c].series # {} =>
            clients[c].labels # NoLabels
      /\ clients[c].relabelling => clients[c].series # {}
  BY DEF TypeInv, ClientInv, ClientIds, NoClient
<1>2. ThreadInv /\ registry \subseteq Ids /\ sendRate \in Rates \cup {-1}
  BY DEF TypeInv, StoreInv, RegistryInv
<1>3. CASE ClientIsCreated(c)
  <2>1. /\ UNCHANGED <<pairVars, confVars, serverVars, creations, registry, threads, panic>>
        /\ clients[c].phase = "spawned"
        /\ Clients' = Clients
        /\ \A d \in Clients \ {c} : clients'[d] = clients[d]
        /\ \/ /\ clients'[c] = [clients[c] EXCEPT !.phase = "ended"]
              /\ ClientConnection' = ClientConnection
           \/ /\ clients'[c] = [clients[c] EXCEPT !.phase = "created"]
              /\ ClientConnection' = [ClientConnection EXCEPT ![SlotOf(c)] = c]
    BY <1>3 DEF ClientIsCreated, Clients
  <2>2. /\ clients'[c] \in ClientRecords /\ clients'[c].launched = clients[c].launched
        /\ clients'[c].relabelling = clients[c].relabelling
        /\ clients[c].series # {} => clients'[c].series # {}
        /\ clients'[c].series = clients[c].series /\ clients'[c].labels = clients[c].labels
        /\ \/ clients'[c].phase = "ended"
           \/ clients'[c].phase = "created" /\ ClientConnection'[SlotOf(c)] = c
    BY <1>1, <2>1 DEF ClientRecords
  <2>3. ThreadInv'
    BY <1>2, <2>1 DEF ThreadInv
  <2>4. /\ clients'[c].phase \in Working \ {"created"} \/ clients'[c].series # {} =>
              clients'[c].labels # NoLabels
        /\ clients'[c].phase \in Working => ClientConnection'[SlotOf(c)] # NoClient
        /\ ClientConnection' \in {ClientConnection, [ClientConnection EXCEPT ![SlotOf(c)] = c]}
    BY <1>1, <2>1, <2>2 DEF Working
  <2>5. QED
    BY <1>1, <1>2, <2>1, <2>2, <2>3, <2>4, OneClient DEF Working
<1>4. CASE ClientRegisters(c)
  <2> DEFINE labels == [pair |-> c.pair, rate |-> sendRate]
             id == [labels |-> labels, server |-> "notStarted"]
  <2>1. labels \in [pair : Pairs, rate : Rates \cup {-1}] /\ labels # NoLabels
    BY <1>1, <1>2 DEF NoLabels
  <2>2. id \in Ids
    BY <2>1, IdTypes
  <2>3. /\ UNCHANGED <<pairVars, ClientConnection, confVars, serverVars, creations, threads, panic>>
        /\ clients[c].phase = "created"
        /\ Clients' = Clients
        /\ \A d \in Clients \ {c} : clients'[d] = clients[d]
        /\ clients'[c] = [clients[c] EXCEPT !.labels = labels,
                             !.phase = IF id \in registry THEN "ended" ELSE "registered"]
        /\ registry' = registry \cup {id}
    BY <1>4 DEF ClientRegisters, Clients
  <2> HIDE DEF labels, id
  <2>4. /\ clients'[c] \in ClientRecords /\ clients'[c].launched = clients[c].launched
        /\ clients'[c].relabelling = clients[c].relabelling
        /\ clients[c].series # {} => clients'[c].series # {}
        /\ clients'[c].labels = labels
    <3>1. PICK phase \in {"ended", "registered"} :
             clients'[c] = [clients[c] EXCEPT !.labels = labels, !.phase = phase]
      BY <2>3
    <3>2. clients'[c] \in ClientRecords
      BY <1>1, <2>1, <3>1 DEF ClientRecords
    <3>3. /\ clients'[c].launched = clients[c].launched /\ clients'[c].series = clients[c].series
          /\ clients'[c].relabelling = clients[c].relabelling /\ clients'[c].labels = labels
      BY <1>1, <3>1 DEF ClientRecords
    <3>4. QED
      BY <3>2, <3>3
  <2>5. ThreadInv'
    BY <1>2, <2>3 DEF ThreadInv, Clients
  <2>6. QED
    BY <1>1, <1>2, <2>1, <2>2, <2>3, <2>4, <2>5, OneClient DEF Working
<1>5. CASE ClientDials(c)
  <2>1. /\ UNCHANGED <<pairVars, ClientConnection, confVars, serverVars, creations, registry,
                       threads, panic>>
        /\ clients[c].phase = "registered"
        /\ Clients' = Clients
        /\ \A d \in Clients \ {c} : clients'[d] = clients[d]
        /\ \/ clients'[c] = [clients[c] EXCEPT !.phase = "ended"]
           \/ clients'[c] = [clients[c] EXCEPT !.phase = "connected", !.connected = TRUE]
    BY <1>5 DEF ClientDials, Clients
  <2>2. TRUE \in BOOLEAN
    BY Zenon
  <2>3. /\ clients'[c] \in ClientRecords /\ clients'[c].launched = clients[c].launched
        /\ clients'[c].relabelling = clients[c].relabelling
        /\ clients[c].series # {} => clients'[c].series # {}
        /\ clients'[c].labels = clients[c].labels
    BY <1>1, <2>1, <2>2 DEF ClientRecords
  <2>4. ThreadInv'
    BY <1>2, <2>1 DEF ThreadInv, Clients
  <2>5. QED
    BY <1>1, <1>2, <2>1, <2>3, <2>4, OneClient DEF Working
<1>6. CASE ClientExports(c)
  <2> DEFINE id == Series(c, "none")
  <2>1. clients[c].phase = "connected" /\ clients[c].labels # NoLabels
    BY <1>1, <1>6 DEF ClientExports, Working
  <2>2. id \in Ids
    BY <1>1, <2>1, IdTypes DEF Series, ClientRecords
  <2>3. /\ UNCHANGED <<pairVars, ClientConnection, confVars, serverVars, creations, threads, panic>>
        /\ Clients' = Clients
        /\ \A d \in Clients \ {c} : clients'[d] = clients[d]
        /\ \/ clients'[c] = [clients[c] EXCEPT !.phase = "ended"]
           \/ clients'[c] = [clients[c] EXCEPT !.phase = "exported", !.series = {id}]
        /\ registry' \subseteq registry \cup {id}
    BY <1>6 DEF ClientExports, Clients
  <2> HIDE DEF id
  <2>4. /\ clients'[c] \in ClientRecords /\ clients'[c].launched = clients[c].launched
        /\ clients'[c].relabelling = clients[c].relabelling
        /\ clients[c].series # {} => clients'[c].series # {}
        /\ clients'[c].labels = clients[c].labels
    <3>1. {id} \in SUBSET Ids
      BY <2>2
    <3> HIDE DEF Ids
    <3>2. CASE clients'[c] = [clients[c] EXCEPT !.phase = "ended"]
      BY <1>1, <3>2 DEF ClientRecords
    <3>3. CASE clients'[c] = [clients[c] EXCEPT !.phase = "exported", !.series = {id}]
      <4>1. clients'[c].series = {id} /\ {id} # {}
        BY <1>1, <3>3 DEF ClientRecords
      <4>2. clients'[c] \in ClientRecords
        BY <1>1, <3>1, <3>3 DEF ClientRecords
      <4>3. /\ clients'[c].launched = clients[c].launched /\ clients'[c].labels = clients[c].labels
            /\ clients'[c].relabelling = clients[c].relabelling
        BY <1>1, <3>3 DEF ClientRecords
      <4>4. QED
        BY <4>1, <4>2, <4>3
    <3>4. QED
      BY <2>3, <3>2, <3>3
  <2>5. ThreadInv'
    BY <1>2, <2>3 DEF ThreadInv, Clients
  <2>6. QED
    BY <1>1, <1>2, <2>1, <2>2, <2>3, <2>4, <2>5, OneClient DEF Working
<1>7. QED
  BY <1>3, <1>4, <1>5, <1>6

\* The last step of a creation: the goroutines of the slot's client are started.
LEMMA LaunchStep ==
  ASSUME TypeInv, NEW c \in Clients, UNCHANGED <<cm, events>>, ClientLaunches(c)
  PROVE  TypeInv'
<1> PICK slot, running : slot = SlotOf(c) /\ running = ClientConnection[slot]
  OBVIOUS
<1>1. /\ c \in ClientIds /\ c.run \in 1..creations /\ clients[c] \in ClientRecords
      /\ creations \in Nat /\ creations <= MaxEvents /\ MaxEvents \in Nat
      /\ slot \in DOMAIN ClientConnection
      /\ clients[c].phase = "exported" /\ clients[c].labels # NoLabels
      /\ running # NoClient
  BY EventAssumption DEF TypeInv, ClientInv, ClientIds, ClientLaunches, Working, StoreInv
<1>2. running \in Clients /\ SlotOf(running) = slot
  BY <1>1 DEF TypeInv, SlotInv
<1>3. /\ UNCHANGED <<pairVars, ClientConnection, confVars, serverVars, creations, registry,
                     threads, panic>>
      /\ clients' = [clients EXCEPT ![c].phase = "launched", ![running].launched = @ + 1]
  BY DEF ClientLaunches
<1>4. Clients' = Clients
  BY <1>3 DEF Clients
<1> DEFINE Same(d) == /\ clients'[d].labels = clients[d].labels /\ clients'[d].series = clients[d].series
                      /\ clients'[d].relabelling = clients[d].relabelling
           Typed(d) == \A n \in 0..MaxEvents : clients'[d].launched = n => clients'[d] \in ClientRecords
<1>d. ASSUME NEW d \in Clients
      PROVE  /\ Same(d) /\ Typed(d)
             /\ d = c => clients'[d].phase = "launched"
             /\ d # c => clients'[d].phase = clients[d].phase
             /\ d = running => clients'[d].launched = clients[d].launched + 1
             /\ d # running => clients'[d].launched = clients[d].launched
  <2>1. clients[d] \in ClientRecords /\ clients[c] \in ClientRecords
    BY DEF TypeInv, ClientInv
  <2>2. CASE c = running /\ d = c
    <3>1. clients'[d] = [clients[d] EXCEPT !.phase = "launched", !.launched = @ + 1]
      BY <1>3, <2>1, <2>2 DEF ClientRecords, Clients
    <3>2. QED
      BY <2>1, <2>2, <3>1 DEF ClientRecords
  <2>3. CASE c # running /\ d = c
    <3>1. clients'[d] = [clients[d] EXCEPT !.phase = "launched"]
      BY <1>3, <2>1, <2>3 DEF ClientRecords, Clients
    <3>2. QED
      BY <2>1, <2>3, <3>1 DEF ClientRecords
  <2>4. CASE d = running /\ d # c
    <3>1. clients'[d] = [clients[d] EXCEPT !.launched = @ + 1]
      BY <1>3, <2>1, <2>4 DEF ClientRecords, Clients
    <3>2. QED
      BY <2>1, <2>4, <3>1 DEF ClientRecords
  <2>5. CASE d # running /\ d # c
    <3>1. clients'[d] = clients[d]
      BY <1>3, <2>5 DEF Clients
    <3>2. QED
      BY <2>1, <2>5, <3>1 DEF ClientRecords
  <2>6. QED
    BY <2>2, <2>3, <2>4, <2>5
<1>5. /\ \A d \in Clients : d # c => clients'[d].phase = clients[d].phase
      /\ \A d \in Clients : d # running => clients'[d].launched = clients[d].launched
      /\ clients'[c].phase = "launched"
      /\ clients'[running].launched = clients[running].launched + 1
      /\ \A d \in Clients : clients[d].launched \in Nat
      /\ \A d \in Clients : Same(d)
  <2>1. \A d \in Clients : clients[d].launched \in Nat
    BY <1>1 DEF TypeInv, ClientInv, ClientRecords
  <2>2. QED
    BY <1>d, <1>2, <2>1
<1>6. ASSUME NEW s
      PROVE  /\ Cardinality(LaunchedRuns(s)) <= Cardinality(LaunchedRuns(s)')
             /\ IsFiniteSet(LaunchedRuns(s)')
             /\ Cardinality(LaunchedRuns(s)) \in Nat
             /\ Cardinality(LaunchedRuns(s)') \in 0..creations'
  <2>1. \A d \in Clients : clients[d].phase = "launched" => clients'[d].phase = "launched"
    BY <1>5
  <2>2. creations' = creations
    BY <1>3
  <2>3. QED
    BY <1>1, <1>4, <2>1, <2>2, LaunchedRunsGrow
<1>7. Cardinality(LaunchedRuns(slot)') = Cardinality(LaunchedRuns(slot)) + 1
  <2>1. c.run \notin LaunchedRuns(slot)
    <3>1. \A d \in Clients : SlotOf(d) = slot /\ d.run = c.run => d = c
      BY <1>1 DEF TypeInv, ClientInv, ClientIds, SlotOf
    <3>2. QED
      BY <1>1, <3>1 DEF LaunchedRuns
  <2>2. LaunchedRuns(slot)' = LaunchedRuns(slot) \cup {c.run}
    <3>1. /\ creations' = creations /\ Clients' = Clients /\ clients'[c].phase = "launched"
          /\ \A d \in Clients : d # c => clients'[d].phase = clients[d].phase
      BY <1>3, <1>4, <1>5
    <3>2. LaunchedRuns(slot) \cup {c.run} \subseteq LaunchedRuns(slot)'
      BY <1>1, <3>1 DEF LaunchedRuns, SlotOf
    <3>3. ASSUME NEW run \in LaunchedRuns(slot)', run # c.run
          PROVE  run \in LaunchedRuns(slot)
      <4>1. PICK d \in Clients : SlotOf(d) = slot /\ d.run = run /\ clients'[d].phase = "launched"
        BY <3>1 DEF LaunchedRuns, SlotOf
      <4>2. d # c /\ clients[d].phase = "launched" /\ run \in 1..creations
        BY <3>1, <3>3, <4>1 DEF LaunchedRuns
      <4>3. QED
        BY <4>1, <4>2 DEF LaunchedRuns
    <3>4. QED
      BY <3>2, <3>3
  <2>3. IsFiniteSet(LaunchedRuns(slot))
    BY <1>1, LaunchedRunsFinite
  <2>4. QED
    BY <2>1, <2>2, <2>3, FS_AddElement
<1>8. ASSUME NEW d \in Clients
      PROVE  clients'[d].launched <= Cardinality(LaunchedRuns(SlotOf(d))')
  <2>1. clients[d].launched \in Nat /\ clients[d].launched <= Cardinality(LaunchedRuns(SlotOf(d)))
    BY <1>5 DEF TypeInv, LaunchInv
  <2>a. /\ Cardinality(LaunchedRuns(SlotOf(d))) <= Cardinality(LaunchedRuns(SlotOf(d))')
        /\ Cardinality(LaunchedRuns(SlotOf(d))) \in Nat
        /\ Cardinality(LaunchedRuns(SlotOf(d))') \in Nat
    BY <1>1, <1>3, <1>6
  <2>2. CASE d = running
    BY <1>2, <1>5, <1>7, <2>1, <2>a, <2>2
  <2>3. CASE d # running
    BY <1>5, <2>1, <2>a, <2>3
  <2>4. QED
    BY <2>2, <2>3
<1>9. ASSUME NEW d \in Clients
      PROVE  clients'[d] \in ClientRecords
  <2>1. /\ clients'[d].launched <= Cardinality(LaunchedRuns(SlotOf(d))')
        /\ Cardinality(LaunchedRuns(SlotOf(d))') \in 0..creations'
    BY <1>6, <1>8
  <2>2. clients'[d].launched \in {clients[d].launched, clients[d].launched + 1}
    BY <1>5
  <2>3. creations' = creations /\ clients[d].launched \in Nat
    BY <1>3, <1>5
  <2>4. clients'[d].launched \in 0..MaxEvents
    BY <1>1, <2>1, <2>2, <2>3
  <2>5. Typed(d)
    BY <1>d
  <2>6. QED
    BY <2>4, <2>5
<1>10. StoreInv' /\ ThreadInv' /\ SlotInv' /\ RegistryInv'
  BY <1>3, <1>4 DEF TypeInv, StoreInv, ThreadInv, SlotInv, RegistryInv, pairVars, confVars, serverVars,
                    SlotOf
<1>11. ClientInv'
  <2>1. ASSUME NEW d \in Clients
        PROVE  /\ d \in ClientIds /\ d.run <= creations'
               /\ SlotOf(d) \in DOMAIN ClientConnection'
               /\ clients'[d].phase \in Working => ClientConnection'[SlotOf(d)] # NoClient
               /\ clients'[d].phase \in Working \ {"created"} \/ clients'[d].series # {} =>
                     clients'[d].labels # NoLabels
               /\ clients'[d].relabelling => clients'[d].series # {}
    <3>1. CASE d = c
      <4>1. d \in ClientIds /\ d.run <= creations' /\ SlotOf(d) \in DOMAIN ClientConnection'
        BY <1>1, <1>2, <1>3, <3>1 DEF TypeInv, ClientInv
      <4>2. clients'[d].phase \in Working => ClientConnection'[SlotOf(d)] # NoClient
        BY <1>1, <1>2, <1>3, <1>5, <3>1 DEF TypeInv, ClientInv
      <4>3. /\ clients'[d].phase \in Working \ {"created"} \/ clients'[d].series # {} =>
                  clients'[d].labels # NoLabels
            /\ clients'[d].relabelling => clients'[d].series # {}
        BY <1>1, <1>2, <1>5, <3>1 DEF TypeInv, ClientInv
      <4>4. QED
        BY <4>1, <4>2, <4>3
    <3>2. CASE d # c
      <4>1. d \in ClientIds /\ d.run <= creations' /\ SlotOf(d) \in DOMAIN ClientConnection'
        BY <1>3 DEF TypeInv, ClientInv
      <4>2. QED
        BY <1>3, <1>5, <3>2, <4>1 DEF TypeInv, ClientInv
    <3>3. QED
      BY <3>1, <3>2
  <2>2. QED
    BY <1>3, <1>4, <1>9, <2>1 DEF TypeInv, ClientInv, SlotOf
<1>12. LaunchInv'
  BY <1>4, <1>8 DEF LaunchInv, SlotOf
<1>13. QED
  BY <1>10, <1>11, <1>12 DEF TypeInv

\* A panic leaves everything as it was.
LEMMA PanicStep ==
  ASSUME TypeInv, UNCHANGED <<cm, events>>, NEW cause \in Causes, Panic(cause)
  PROVE  TypeInv'
<1>1. UNCHANGED <<pairVars, confVars, serverVars, ClientConnection, creations, clients, registry,
                  threads>>
  BY DEF Panic, clientVars
<1>2. panic' \in Causes \cup {"none"} /\ panic' # "none"
  BY DEF Panic, Causes
<1>3. StoreInv'
  BY <1>1, <1>2 DEF TypeInv, StoreInv, pairVars, confVars, serverVars
<1>4. Clients' = Clients
  BY <1>1 DEF Clients
<1>5. ThreadInv' /\ RegistryInv'
  BY <1>1, <1>4 DEF TypeInv, ThreadInv, RegistryInv
<1>6. SlotInv'
  BY <1>1, <1>4 DEF TypeInv, SlotInv, pairVars, SlotOf
<1>7. ClientInv'
  BY <1>1, <1>4 DEF TypeInv, ClientInv, SlotOf
<1>8. LaunchInv'
  BY <1>1, <1>4 DEF TypeInv, LaunchInv, LaunchedRuns, SlotOf
<1>9. QED
  BY <1>3, <1>5, <1>6, <1>7, <1>8 DEF TypeInv

\* A client is given a new server label, or signals its wait group.
LEMMA RunStep ==
  ASSUME TypeInv, NEW c \in Clients, UNCHANGED <<cm, events>>,
         \/ ClientReRegisters(c) \/ ClientHasNoCounters(c) \/ ClientExits(c)
         \/ \E server \in Servers : ClientRelabels(c, server)
  PROVE  TypeInv'
<1>1. /\ c \in ClientIds /\ clients[c] \in ClientRecords
      /\ clients[c].phase \in Working => ClientConnection[SlotOf(c)] # NoClient
      /\ clients[c].phase \in Working \ {"created"} \/ clients[c].series # {} =>
            clients[c].labels # NoLabels
      /\ clients[c].relabelling => clients[c].series # {}
  BY DEF TypeInv, ClientInv
<1>2. ThreadInv /\ registry \subseteq Ids
  BY DEF TypeInv, RegistryInv
<1>3. ASSUME NEW cause \in Causes, Panic(cause)
      PROVE  TypeInv'
  BY <1>3, PanicStep
<1>4. CASE ClientExits(c) /\ ~Panic("waitGroup")
  <2>1. /\ UNCHANGED <<pairVars, ClientConnection, confVars, serverVars, creations, registry,
                       threads, panic>>
        /\ ~(clients[c].exited > 0)
        /\ Clients' = Clients
        /\ \A d \in Clients \ {c} : clients'[d] = clients[d]
        /\ clients'[c] = [clients[c] EXCEPT !.exited = clients[c].exited + 1]
    BY <1>4 DEF ClientExits, Clients, Signal
  <2>2. /\ clients'[c].relabelling = clients[c].relabelling
        /\ clients'[c] \in ClientRecords /\ clients'[c].launched = clients[c].launched
        /\ clients'[c].labels = clients[c].labels /\ clients'[c].series = clients[c].series
        /\ clients'[c].phase = clients[c].phase
    BY <1>1, <2>1 DEF ClientRecords
  <2>3. ThreadInv'
    BY <1>2, <2>1 DEF ThreadInv, Clients
  <2>4. QED
    BY <1>1, <1>2, <2>1, <2>2, <2>3, OneClient DEF Working
<1>5. ASSUME NEW server \in Servers, ClientRelabels(c, server)
      PROVE  TypeInv'
  <2>1. /\ UNCHANGED <<pairVars, ClientConnection, confVars, serverVars, creations, threads, panic>>
        /\ Clients' = Clients
        /\ \A d \in Clients \ {c} : clients'[d] = clients[d]
        /\ clients'[c] = [clients[c] EXCEPT !.server = server, !.relabelling = TRUE]
        /\ registry' \subseteq registry
    BY <1>5 DEF ClientRelabels, Clients, DeRegister
  <2>2. /\ clients'[c] \in ClientRecords /\ clients'[c].launched = clients[c].launched
        /\ clients'[c].labels = clients[c].labels /\ clients'[c].series = clients[c].series
        /\ clients'[c].phase = clients[c].phase
    <3>1. clients'[c] \in ClientRecords
      BY <1>1, <1>5, <2>1 DEF ClientRecords
    <3>2. /\ clients'[c].launched = clients[c].launched
          /\ clients'[c].labels = clients[c].labels /\ clients'[c].series = clients[c].series
          /\ clients'[c].phase = clients[c].phase
      BY <1>1, <2>1 DEF ClientRecords
    <3>3. QED
      BY <3>1, <3>2
  <2>3. ThreadInv'
    BY <1>2, <2>1 DEF ThreadInv, Clients
  <2>4. QED
    BY <1>1, <1>2, <1>5, <2>1, <2>2, <2>3, OneClient DEF Working, ClientRelabels
<1>6. CASE ClientReRegisters(c) /\ ~Panic("collision")
  <2> DEFINE id == Series(c, clients[c].server)
  <2>1. /\ UNCHANGED <<pairVars, ClientConnection, confVars, serverVars, creations, threads, panic>>
        /\ Clients' = Clients
        /\ \A d \in Clients \ {c} : clients'[d] = clients[d]
        /\ clients'[c] = [clients[c] EXCEPT !.series = clients[c].series \cup {id}, !.relabelling = FALSE]
        /\ registry' \subseteq registry \cup {id}
    BY <1>6 DEF ClientReRegisters, Clients, Registered
  <2>2. clients[c].labels # NoLabels
    BY <1>1, <1>6 DEF ClientReRegisters
  <2>3. id \in Ids
    BY <1>1, <2>2, IdTypes DEF Series, ClientRecords
  <2> HIDE DEF id
  <2>4. /\ clients'[c] \in ClientRecords /\ clients'[c].launched = clients[c].launched
        /\ clients'[c].labels = clients[c].labels /\ clients'[c].phase = clients[c].phase
        /\ clients'[c].series # {}
    <3>1. clients[c].series \cup {id} \in SUBSET Ids
      BY <1>1, <2>3 DEF ClientRecords
    <3>2. clients'[c] \in ClientRecords
      BY <1>1, <2>1, <3>1 DEF ClientRecords
    <3>3. /\ clients'[c].launched = clients[c].launched
          /\ clients'[c].labels = clients[c].labels /\ clients'[c].phase = clients[c].phase
          /\ clients'[c].series = clients[c].series \cup {id}
      BY <1>1, <2>1 DEF ClientRecords
    <3>4. QED
      BY <3>2, <3>3
  <2>5. ThreadInv'
    BY <1>2, <2>1 DEF ThreadInv, Clients
  <2>6. QED
    BY <1>1, <1>2, <2>1, <2>2, <2>3, <2>4, <2>5, OneClient DEF Working
<1>7. QED
  BY <1>3, <1>4, <1>5, <1>6 DEF ClientHasNoCounters, Causes

\* A thread tears down a client.
LEMMA TearDownStep ==
  ASSUME TypeInv, NEW th \in {"handler", "stopper"}, UNCHANGED <<cm, events>>,
         \/ TearDownPanics(th) \/ TearDownReturns(th)
         \/ \E slot \in netBatPairs \cup threads[th].todo : TearDownBegins(th, slot)
  PROVE  TypeInv'
<1>1. CASE TearDownPanics(th)
  BY <1>1, PanicStep DEF TearDownPanics, Causes
<1>2. /\ threads \in [handler : Threads, stopper : Threads]
      /\ threads[th].todo \subseteq DOMAIN ClientConnection /\ threads[th].waiting \in Clients \cup {NoClient}
      /\ NoClient \in ClientIds \cup {NoClient}
      /\ registry \subseteq Ids
  BY DEF TypeInv, ThreadInv, RegistryInv
<1>3. ASSUME NEW c \in Clients \cup {NoClient}, NEW todo, todo \subseteq threads[th].todo,
             threads' = [threads EXCEPT ![th].waiting = c, ![th].todo = todo],
             Clients' = Clients, UNCHANGED ClientConnection
      PROVE  ThreadInv' /\ threads'.handler.doing = threads.handler.doing
  <2>1. c \in ClientIds \cup {NoClient}
    BY DEF TypeInv, ClientInv
  <2>2. todo \in SUBSET Slots
    BY <1>2, <1>3 DEF Threads
  <2>3. threads'[th] = [threads[th] EXCEPT !.waiting = c, !.todo = todo]
    BY <1>2, <1>3 DEF Threads
  <2>4. /\ threads'[th] \in Threads /\ threads'[th].waiting = c /\ threads'[th].todo = todo
        /\ threads'[th].doing = threads[th].doing
    <3>1. PICK t : t = threads[th]
      OBVIOUS
    <3>2. t \in Threads /\ threads'[th] = [t EXCEPT !.waiting = c, !.todo = todo]
      BY <1>2, <2>3, <3>1
    <3>3. QED
      BY <2>1, <2>2, <3>1, <3>2 DEF Threads
  <2>5. \A t \in {"handler", "stopper"} : t # th => threads'[t] = threads[t]
    BY <1>2, <1>3
  <2>6. threads' \in [handler : Threads, stopper : Threads]
    BY <1>2, <1>3, <2>4, <2>5
  <2>7. QED
    BY <1>2, <1>3, <2>4, <2>5, <2>6 DEF TypeInv, ThreadInv
<1>4. CASE TearDownReturns(th)
  <2> DEFINE c == threads[th].waiting
  <2>1. c \in Clients /\ registry' \subseteq registry /\ clients' = clients
        /\ UNCHANGED <<pairVars, ClientConnection, confVars, serverVars, creations, panic>>
    BY <1>2, <1>4 DEF TearDownReturns, DeRegister
  <2>2. threads' = [threads EXCEPT ![th].waiting = NoClient, ![th].todo = threads[th].todo]
    BY <1>2, <1>4 DEF TearDownReturns, Threads
  <2>3. ThreadInv' /\ threads'.handler.doing = threads.handler.doing
    BY <1>3, <2>1, <2>2 DEF Clients
  <2>4. /\ clients[c] \in ClientRecords
        /\ clients[c].phase \in Working => ClientConnection[SlotOf(c)] # NoClient
        /\ clients[c].phase \in Working \ {"created"} \/ clients[c].series # {} =>
              clients[c].labels # NoLabels
        /\ clients[c].relabelling => clients[c].series # {}
    BY <2>1 DEF TypeInv, ClientInv
  <2> HIDE DEF c
  <2>5. QED
    BY <1>2, <2>1, <2>3, <2>4, OneClient DEF Clients
<1>5. ASSUME NEW slot, TearDownBegins(th, slot)
      PROVE  TypeInv'
  <2> PICK c, rest : c = ClientConnection[slot] /\ rest = threads[th].todo \ {slot}
    OBVIOUS
  <2>1. c \in Clients /\ rest \subseteq threads[th].todo /\ registry' \subseteq registry
        /\ UNCHANGED <<pairVars, ClientConnection, confVars, serverVars, creations, panic>>
    BY <1>5 DEF TearDownBegins, IsSetUp
  <2>2. /\ clients[c] \in ClientRecords
        /\ clients[c].phase \in Working => ClientConnection[SlotOf(c)] # NoClient
        /\ clients[c].phase \in Working \ {"created"} \/ clients[c].series # {} =>
              clients[c].labels # NoLabels
        /\ clients[c].relabelling => clients[c].series # {}
    BY <2>1 DEF TypeInv, ClientInv
  <2>3. CASE clients[c].connected
    <3>1. /\ clients' = [clients EXCEPT ![c].stop = TRUE]
          /\ threads' = [threads EXCEPT ![th].waiting = c, ![th].todo = @ \ {slot}]
      BY <1>5, <2>3 DEF TearDownBegins
    <3>2. threads' = [threads EXCEPT ![th].waiting = c, ![th].todo = rest]
      BY <1>2, <3>1 DEF Threads
    <3>3. /\ Clients' = Clients
          /\ \A d \in Clients \ {c} : clients'[d] = clients[d]
          /\ clients'[c] = [clients[c] EXCEPT !.stop = TRUE]
      BY <2>1, <3>1 DEF Clients
    <3>4. TRUE \in BOOLEAN
      BY Zenon
    <3>5. /\ clients'[c] \in ClientRecords /\ clients'[c].launched = clients[c].launched
          /\ clients'[c].labels = clients[c].labels /\ clients'[c].series = clients[c].series
          /\ clients'[c].phase = clients[c].phase /\ clients'[c].relabelling = clients[c].relabelling
      BY <2>2, <3>3, <3>4 DEF ClientRecords
    <3>6. ThreadInv' /\ threads'.handler.doing = threads.handler.doing
      BY <1>3, <2>1, <3>2, <3>3
    <3>7. QED
      BY <1>2, <2>1, <2>2, <3>3, <3>5, <3>6, OneClient
  <2>4. CASE ~clients[c].connected
    <3>1. clients' = clients /\ threads[th].waiting = NoClient
          /\ threads' = [threads EXCEPT ![th].todo = @ \ {slot}]
      BY <1>5, <2>4 DEF TearDownBegins
    <3>2. threads' = [threads EXCEPT ![th].waiting = NoClient, ![th].todo = rest]
      BY <1>2, <3>1 DEF Threads
    <3>3. ThreadInv' /\ threads'.handler.doing = threads.handler.doing
      BY <1>3, <2>1, <3>1, <3>2 DEF Clients
    <3>4. QED
      BY <1>2, <2>1, <2>2, <3>1, <3>3, OneClient DEF Clients
  <2>5. QED
    BY <2>3, <2>4
<1>6. QED
  BY <1>1, <1>4, <1>5

\* What a handler, or the start of a handler, may do to slots, clients and threads:
\* slots are added and no slot is changed, clients are spawned for slots or none is.
LEMMA SlotsStep ==
  ASSUME TypeInv, StoreInv', NEW slots,
         \/ /\ CreateNetBatTgenClients(slots) /\ slots \subseteq DOMAIN ClientConnection'
            /\ threads'.handler.doing = "idle" /\ creations < events'
         \/ /\ UNCHANGED <<creations, clients>>
            /\ threads'.handler.doing \in {"pairing", "restart"} => creations < events',
         events <= events',
         DOMAIN ClientConnection \subseteq DOMAIN ClientConnection',
         \A s \in DOMAIN ClientConnection : ClientConnection'[s] = ClientConnection[s],
         \A s \in DOMAIN ClientConnection' : s \in DOMAIN ClientConnection \/ ClientConnection'[s] = NoClient,
         \A s \in DOMAIN ClientConnection' :
            /\ s \in Slots /\ s.version <= events'
            /\ threads'.handler.doing = "pairing" => s.version < netPairResourceVersion',
         threads'.handler.doing = "pairing" => netPairResourceVersion' > 0,
         netBatPairs' \subseteq DOMAIN ClientConnection',
         pairsSet' \in BOOLEAN, netBatPairs' # {} => pairsSet',
         registry' = registry,
         threads' \in [handler : Threads, stopper : Threads],
         \A th \in {"handler", "stopper"} :
            /\ threads'[th].todo \subseteq DOMAIN ClientConnection'
            /\ threads'[th].waiting \in Clients \cup {NoClient}
  PROVE  TypeInv'
<1>1. /\ events \in Nat /\ events' \in Nat /\ events' <= MaxEvents /\ MaxEvents \in Nat
      /\ creations \in Nat /\ creations <= events
  BY EventAssumption DEF TypeInv, StoreInv, ClientInv
<1>2. /\ Clients \subseteq Clients'
      /\ \A c \in Clients : clients'[c] = clients[c]
      /\ creations' \in 0..events' /\ creations <= creations'
      /\ \A c \in Clients' \ Clients :
            /\ c \in ClientIds /\ c.run <= creations'
            /\ clients'[c] = Spawned
            /\ SlotOf(c) \in DOMAIN ClientConnection'
  <2>1. CASE UNCHANGED <<creations, clients>>
    BY <1>1, <2>1 DEF Clients
  <2>2. CASE /\ CreateNetBatTgenClients(slots) /\ slots \subseteq DOMAIN ClientConnection'
             /\ creations < events'
    <3> DEFINE New == {[version |-> s.version, pair |-> s.pair, run |-> creations + 1] : s \in slots}
    <3>1. /\ creations' = creations + 1
          /\ clients' = [c \in Clients \cup New |-> IF c \in New THEN Spawned ELSE clients[c]]
      BY <2>2 DEF CreateNetBatTgenClients
    <3>2. ASSUME NEW c \in New
          PROVE  c \in ClientIds /\ c.run = creations + 1 /\ SlotOf(c) \in DOMAIN ClientConnection'
      <4>1. PICK s \in slots : c = [version |-> s.version, pair |-> s.pair, run |-> creations + 1]
        OBVIOUS
      <4>2. s \in Slots /\ s \in DOMAIN ClientConnection'
        BY <2>2
      <4>3. c.run = creations + 1 /\ c.run \in 1..MaxEvents
        BY <1>1, <2>2, <4>1
      <4>4. SlotOf(c) = s
        BY <4>1, <4>2 DEF SlotOf, Slots
      <4>5. c \in ClientIds
        BY <4>1, <4>2, <4>3 DEF ClientIds, Slots
      <4>6. QED
        BY <4>2, <4>3, <4>4, <4>5
    <3> HIDE DEF New
    <3>3. \A c \in Clients : c \notin New
      BY <1>1, <3>2 DEF TypeInv, ClientInv, ClientIds
    <3>4. Clients' = Clients \cup New
      BY <3>1 DEF Clients
    <3>5. \A c \in Clients : clients'[c] = clients[c]
      BY <3>1, <3>3
    <3>6. \A c \in New : clients'[c] = Spawned
      BY <3>1
    <3>7. QED
      BY <1>1, <2>2, <3>1, <3>2, <3>4, <3>5, <3>6
  <2>3. QED
    BY <2>1, <2>2
<1>3. /\ Spawned \in ClientRecords /\ Spawned.phase = "spawned" /\ Spawned.series = {}
      /\ Spawned.launched = 0 /\ ~Spawned.relabelling
  <2>1. FALSE \in BOOLEAN /\ 0 \in 0..MaxEvents
    BY <1>1
  <2>2. QED
    BY <2>1 DEF Spawned, ClientRecords
<1>4. ThreadInv'
  BY <1>2 DEF ThreadInv
<1>5. SlotInv'
  <2>1. ASSUME NEW s \in DOMAIN ClientConnection'
        PROVE  /\ ClientConnection'[s] \in Clients' \cup {NoClient}
               /\ ClientConnection'[s] # NoClient => SlotOf(ClientConnection'[s]) = s
    BY <1>2 DEF TypeInv, SlotInv
  <2>2. QED
    BY <2>1 DEF SlotInv, SlotOf
<1>6. ClientInv'
  <2>1. ASSUME NEW c \in Clients'
        PROVE  /\ c \in ClientIds /\ c.run <= creations'
               /\ clients'[c] \in ClientRecords
               /\ SlotOf(c) \in DOMAIN ClientConnection'
               /\ clients'[c].phase \in Working => ClientConnection'[SlotOf(c)] # NoClient
               /\ clients'[c].phase \in Working \ {"created"} \/ clients'[c].series # {} =>
                     clients'[c].labels # NoLabels
               /\ clients'[c].relabelling => clients'[c].series # {}
    <3>1. CASE c \in Clients
      <4>1. /\ c \in ClientIds /\ c.run \in Nat /\ c.run <= creations
            /\ clients[c] \in ClientRecords
            /\ SlotOf(c) \in DOMAIN ClientConnection
            /\ clients[c].phase \in Working => ClientConnection[SlotOf(c)] # NoClient
            /\ clients[c].phase \in Working \ {"created"} \/ clients[c].series # {} =>
                  clients[c].labels # NoLabels
            /\ clients[c].relabelling => clients[c].series # {}
        BY <3>1 DEF TypeInv, ClientInv, ClientIds
      <4>2. QED
        BY <1>1, <1>2, <3>1, <4>1
    <3>2. CASE c \notin Clients
      BY <1>2, <1>3, <3>2 DEF Working
    <3>3. QED
      BY <3>1, <3>2
  <2>2. threads'.handler.doing \in {"pairing", "restart"} => creations' < events'
    OBVIOUS
  <2>3. QED
    BY <1>2, <2>1, <2>2 DEF ClientInv, SlotOf
<1>7. LaunchInv'
  <2>1. ASSUME NEW c \in Clients'
        PROVE  clients'[c].launched <= Cardinality(LaunchedRuns(SlotOf(c))')
    <3>1. /\ Cardinality(LaunchedRuns(SlotOf(c))) <= Cardinality(LaunchedRuns(SlotOf(c))')
          /\ Cardinality(LaunchedRuns(SlotOf(c))) \in Nat
          /\ Cardinality(LaunchedRuns(SlotOf(c))') \in Nat
      <4>1. creations' \in Nat
        BY <1>1, <1>2
      <4>2. \A d \in Clients : clients[d].phase = "launched" => clients'[d].phase = "launched"
        BY <1>2
      <4>3. QED
        BY <1>1, <1>2, <4>1, <4>2, LaunchedRunsGrow DEF SlotOf
    <3>2. CASE c \in Clients
      <4>1. /\ clients'[c].launched = clients[c].launched /\ clients[c].launched \in Nat
            /\ clients[c].launched <= Cardinality(LaunchedRuns(SlotOf(c)))
        BY <1>1, <1>2, <3>2 DEF TypeInv, LaunchInv, ClientInv, ClientRecords
      <4>2. QED
        BY <3>1, <4>1
    <3>3. CASE c \notin Clients
      BY <1>2, <1>3, <3>1, <3>3
    <3>4. QED
      BY <3>2, <3>3
  <2>2. QED
    BY <2>1 DEF LaunchInv
<1>8. QED
  BY <1>4, <1>5, <1>6, <1>7 DEF TypeInv, RegistryInv

\* What handleNetBatPairingAddEvent does for the slots of a version that is new.
NewSlots(version, data, slots) ==
  /\ netBatPairs' = slots /\ pairsSet' = (data.bad = "nothing")
  /\ slots \subseteq Slots /\ \A s \in slots : s.version = version
  /\ slots \cap DOMAIN ClientConnection = {}
  /\ DOMAIN ClientConnection' = DOMAIN ClientConnection \cup slots
  /\ \A s \in DOMAIN ClientConnection : ClientConnection'[s] = ClientConnection[s]
  /\ \A s \in slots : ClientConnection'[s] = NoClient
  /\ \/ CreateNetBatTgenClients(slots) /\ config # NilConfig
     \/ UNCHANGED <<creations, clients>> /\ (config = NilConfig \/ slots = {})
  /\ pairsSet' \in BOOLEAN /\ (slots # {} => pairsSet')

\* A pairing that is handled makes slots that did not exist.
LEMMA PairingFacts ==
  ASSUME TypeInv, NEW version \in 1..MaxEvents, NEW data \in Pairings,
         \A s \in DOMAIN ClientConnection : s.version < version,
         HandleNetBatPairingAddEvent(version, data)
  PROVE  \E slots : NewSlots(version, data, slots)
<1> PICK slots : slots = {[version |-> version, pair |-> p] : p \in data.pairs}
  OBVIOUS
<1>1. data.pairs \subseteq Pairs /\ (data.bad # "nothing" => data.pairs = {})
  BY DEF Pairings, BadPairings
<1>2. /\ slots \subseteq Slots /\ \A s \in slots : s.version = version
      /\ data.bad # "nothing" => slots = {}
  BY <1>1 DEF Slots
<1>3. slots \cap DOMAIN ClientConnection = {}
  BY <1>2
<1>4. /\ netBatPairs' = slots /\ pairsSet' = (data.bad = "nothing")
      /\ ClientConnection' = [s \in DOMAIN ClientConnection \cup slots |->
            IF s \in slots THEN NoClient ELSE ClientConnection[s]]
      /\ \/ CreateNetBatTgenClients(slots) /\ config # NilConfig
         \/ UNCHANGED <<creations, clients>> /\ (config = NilConfig \/ data.bad # "nothing")
  BY DEF HandleNetBatPairingAddEvent
<1>5. pairsSet' \in BOOLEAN /\ (slots # {} => pairsSet')
  BY <1>2, <1>4
<1>6. NewSlots(version, data, slots)
  BY <1>2, <1>3, <1>4, <1>5 DEF NewSlots
<1>7. QED
  BY <1>6

\* Nothing of a thread that is idle is left.
LEMMA ThreadTypes ==
  /\ Idle \in Threads /\ Idle.todo = {} /\ Idle.waiting = NoClient /\ Idle.doing = "idle"
  /\ \A doing \in {"pairing", "delete", "restart"}, todo \in SUBSET Slots, data \in Pairings :
        LET t == [doing |-> doing, todo |-> todo, waiting |-> NoClient, data |-> data]
        IN  t \in Threads /\ t.todo = todo /\ t.waiting = NoClient /\ t.doing = doing
BY DEF Idle, Threads, Pairings

\* The ends of the handlers, and StopTGC.
LEMMA ThreadStep ==
  ASSUME TypeInv, UNCHANGED <<cm, events>>,
         PairsAreDeleted \/ PairsAreRestarted \/ StopTGC \/ StopTearsDown \/ StopFinishes
  PROVE  TypeInv'
<1>1. /\ events \in Nat /\ MaxEvents \in Nat /\ events <= MaxEvents
      /\ netPairResourceVersion \in 0..events /\ creations \in Nat /\ creations <= events
  BY EventAssumption DEF TypeInv, StoreInv, ClientInv
<1>2. /\ threads \in [handler : Threads, stopper : Threads]
      /\ \A th \in {"handler", "stopper"} :
            /\ threads[th].todo \subseteq DOMAIN ClientConnection
            /\ threads[th].waiting \in Clients \cup {NoClient}
  BY DEF TypeInv, ThreadInv
<1>3. \A s \in DOMAIN ClientConnection :
         /\ s \in Slots /\ s.version <= events /\ s.version \in Nat
         /\ threads.handler.doing = "pairing" => s.version < netPairResourceVersion
  BY DEF TypeInv, SlotInv, Slots
<1>4. /\ netBatPairs \subseteq DOMAIN ClientConnection /\ pairsSet \in BOOLEAN
      /\ netBatPairs # {} => pairsSet
      /\ threads.handler.doing \in {"pairing", "restart"} => creations < events
  BY DEF TypeInv, SlotInv, ClientInv
<1>5. ASSUME threads' = [threads EXCEPT !.handler = Idle]
      PROVE  /\ threads' \in [handler : Threads, stopper : Threads]
             /\ threads'.handler = Idle /\ threads'.stopper = threads.stopper
             /\ threads'.handler.doing = "idle"
             /\ \A th \in {"handler", "stopper"} :
                   /\ threads'[th].todo \subseteq DOMAIN ClientConnection
                   /\ threads'[th].waiting \in Clients \cup {NoClient}
  BY <1>2, <1>5, ThreadTypes
<1>6. CASE PairsAreDeleted
  <2>1. /\ UNCHANGED <<netPairResourceVersion, confVars, serverVars, registry, panic>>
        /\ threads' = [threads EXCEPT !.handler = Idle]
    BY <1>6 DEF PairsAreDeleted
  <2>2. StoreInv'
    BY <2>1 DEF TypeInv, StoreInv, confVars, serverVars
  <2>3. CASE /\ threads.handler.doing = "pairing"
             /\ HandleNetBatPairingAddEvent(netPairResourceVersion, threads.handler.data)
    <3>1. /\ threads.handler.data \in Pairings /\ creations < events
          /\ \A s \in DOMAIN ClientConnection : s.version < netPairResourceVersion
      BY <1>2, <1>3, <1>4, <2>3 DEF Threads
    <3> PICK version, data : version = netPairResourceVersion /\ data = threads.handler.data
      OBVIOUS
    <3>2. CASE netPairResourceVersion \in 1..MaxEvents
      <4>1. PICK slots : NewSlots(version, data, slots)
        <5>1. /\ version \in 1..MaxEvents /\ data \in Pairings
              /\ \A s \in DOMAIN ClientConnection : s.version < version
              /\ HandleNetBatPairingAddEvent(version, data)
          BY <2>3, <3>1, <3>2
        <5>2. QED
          BY <5>1, PairingFacts
      <4>2. \A s \in DOMAIN ClientConnection' :
               s \in Slots /\ s.version <= events'
        BY <1>1, <1>3, <4>1 DEF NewSlots
      <4>3. \A th \in {"handler", "stopper"} :
               /\ threads'[th].todo \subseteq DOMAIN ClientConnection'
               /\ threads'[th].waiting \in Clients \cup {NoClient}
        BY <1>5, <2>1, <4>1 DEF NewSlots
      <4>4. threads' \in [handler : Threads, stopper : Threads] /\ threads'.handler.doing = "idle"
        BY <1>5, <2>1
      <4>5. events <= events' /\ creations < events'
        BY <1>1, <3>1
      <4>6. QED
        BY <2>1, <2>2, <4>1, <4>2, <4>3, <4>4, <4>5, SlotsStep DEF NewSlots
    <3>3. netPairResourceVersion \in 1..MaxEvents
      BY <1>1, <2>3 DEF TypeInv, SlotInv
    <3>4. QED
      BY <3>2, <3>3
  <2>4. CASE /\ netBatPairs' = {} /\ pairsSet' = FALSE
             /\ UNCHANGED <<ClientConnection, creations, clients>>
    <3>1. pairsSet' \in BOOLEAN
      BY <2>4
    <3>2. QED
      BY <1>1, <1>3, <1>5, <2>1, <2>2, <2>4, <3>1, SlotsStep
  <2>5. QED
    BY <1>6, <2>3, <2>4 DEF PairsAreDeleted
<1>7. CASE PairsAreRestarted
  <2>1. /\ UNCHANGED <<pairVars, ClientConnection, confVars, serverVars, registry, panic>>
        /\ threads' = [threads EXCEPT !.handler = Idle]
        /\ CreateNetBatTgenClients(netBatPairs)
        /\ creations < events
    BY <1>4, <1>7 DEF PairsAreRestarted
  <2>2. StoreInv'
    BY <2>1 DEF TypeInv, StoreInv, pairVars, confVars, serverVars
  <2>3. netBatPairs' = netBatPairs /\ pairsSet' = pairsSet
    BY <2>1 DEF pairVars
  <2>4. QED
    BY <1>1, <1>3, <1>4, <1>5, <2>1, <2>2, <2>3, SlotsStep
<1>8. CASE StopTGC \/ StopTearsDown \/ StopFinishes
  <2>1. /\ UNCHANGED <<netPairResourceVersion, confVars, ClientConnection, creations, clients, registry,
                       panic>>
        /\ serversMap' = serversMap /\ listening' \subseteq listening
        /\ netBatPairs' \in {netBatPairs, {}}
        /\ \/ pairsSet' = pairsSet
           \/ netBatPairs' = {} /\ pairsSet' = FALSE
    BY <1>8 DEF StopTGC, StopTearsDown, StopFinishes, StopServers, pairVars, serverVars, clientVars
  <2>2. StoreInv'
    BY <2>1 DEF TypeInv, StoreInv, confVars
  <2>3. PICK doing \in {"closed", "stop", "stopped"}, todo \in {threads.stopper.todo, netBatPairs} :
           threads' = [threads EXCEPT !.stopper.doing = doing, !.stopper.todo = todo]
    <3>1. ASSUME NEW doing
          PROVE  [threads EXCEPT !.stopper.doing = doing]
                 = [threads EXCEPT !.stopper.doing = doing, !.stopper.todo = threads.stopper.todo]
      <4>1. [threads.stopper EXCEPT !.doing = doing]
            = [threads.stopper EXCEPT !.doing = doing, !.todo = threads.stopper.todo]
        BY <1>2 DEF Threads
      <4>2. QED
        BY <1>2, <4>1
    <3>2. CASE StopTGC
      <4>1. threads' = [threads EXCEPT !.stopper.doing = "closed"]
        BY <3>2 DEF StopTGC
      <4>2. QED
        BY <3>1, <4>1
    <3>3. CASE StopTearsDown
      BY <3>3 DEF StopTearsDown
    <3>4. CASE StopFinishes
      <4>1. threads' = [threads EXCEPT !.stopper.doing = "stopped"]
        BY <3>4 DEF StopFinishes
      <4>2. QED
        BY <3>1, <4>1
    <3>5. QED
      BY <1>8, <3>2, <3>3, <3>4
  <2>4. todo \in SUBSET Slots /\ todo \subseteq DOMAIN ClientConnection
    BY <1>2, <1>3, <1>4
  <2>5. threads'.stopper = [threads.stopper EXCEPT !.doing = doing, !.todo = todo]
    BY <1>2, <2>3 DEF Threads
  <2>6. threads'.stopper \in Threads /\ threads'.stopper.todo = todo
        /\ threads'.stopper.waiting = threads.stopper.waiting
    BY <1>2, <2>4, <2>5 DEF Threads
  <2>7. threads' \in [handler : Threads, stopper : Threads] /\ threads'.handler = threads.handler
    BY <1>2, <2>3, <2>6
  <2>8. \A th \in {"handler", "stopper"} :
           /\ threads'[th].todo \subseteq DOMAIN ClientConnection
           /\ threads'[th].waiting \in Clients \cup {NoClient}
    BY <1>2, <2>4, <2>6, <2>7
  <2>9. pairsSet' \in BOOLEAN /\ (netBatPairs' # {} => pairsSet')
    <3>1. CASE pairsSet' = pairsSet
      BY <1>4, <2>1, <3>1
    <3>2. CASE netBatPairs' = {} /\ pairsSet' = FALSE
      BY <3>2
    <3>3. QED
      BY <2>1, <3>1, <3>2
  <2>10. threads.handler.doing = "pairing" => netPairResourceVersion > 0
    BY DEF TypeInv, SlotInv
  <2>11. QED
    BY <1>1, <1>3, <1>4, <2>1, <2>2, <2>7, <2>8, <2>9, <2>10, SlotsStep
<1>9. QED
  BY <1>6, <1>7, <1>8

\* A config map of this version, or none, is put into the store.
LEMMA StoreTypes ==
  ASSUME TypeInv, events' = events + 1, events < MaxEvents
  PROVE  /\ events' \in 0..MaxEvents /\ events' \in Nat /\ events' \in 1..MaxEvents
         /\ netPairResourceVersion \in 0..events'
         /\ config \in [version : 0..events', suspendTraffic : BOOLEAN]
         /\ cm \in [pairing : [version : 1..events', data : Pairings] \cup {Absent},
                    profile : [version : 1..events', data : Profiles] \cup {Absent}]
<1>1. events \in Nat /\ MaxEvents \in Nat /\ netPairResourceVersion \in 0..events
  BY EventAssumption DEF TypeInv, StoreInv
<1>2. 0..events \subseteq 0..events' /\ 1..events \subseteq 1..events'
  BY <1>1
<1>3. config \in [version : 0..events, suspendTraffic : BOOLEAN]
      /\ cm \in [pairing : [version : 1..events, data : Pairings] \cup {Absent},
                 profile : [version : 1..events, data : Profiles] \cup {Absent}]
  BY DEF TypeInv, StoreInv
<1>4. config \in [version : 0..events', suspendTraffic : BOOLEAN]
  BY <1>2, <1>3
<1>5. /\ cm.pairing \in [version : 1..events', data : Pairings] \cup {Absent}
      /\ cm.profile \in [version : 1..events', data : Profiles] \cup {Absent}
  <2>1. \A D : [version : 1..events, data : D] \subseteq [version : 1..events', data : D]
    BY <1>2
  <2>2. QED
    BY <1>3, <2>1
<1>6. QED
  BY <1>1, <1>2, <1>3, <1>4, <1>5

\* A profile's settings.
LEMMA ProfileTypes ==
  ASSUME NEW data \in Profiles
  PROVE  data.rate \in Rates /\ data.suspend \in BOOLEAN
<1>1. CASE data \in GoodProfiles
  BY <1>1 DEF GoodProfiles
<1>2. CASE data \in BadProfiles
  <2>1. data.rate = DefaultRate /\ data.suspend = FALSE
    BY <1>2 DEF BadProfiles
  <2>2. data.suspend \in BOOLEAN
    BY <2>1
  <2>3. QED
    BY <2>1, <2>2, RateAssumption
<1>3. QED
  BY <1>1, <1>2 DEF Profiles

\* An event that leaves the clients, slots and threads alone, or begins a handler.
LEMMA QuietEvent ==
  ASSUME TypeInv, StoreInv', events' = events + 1, events < MaxEvents, threads.handler = Idle,
         UNCHANGED <<netBatPairs, pairsSet, clientVars>>,
         \/ UNCHANGED threads
         \/ \E doing \in {"pairing", "delete", "restart"}, data \in Pairings :
               /\ Handler(doing, data)
               /\ doing = "pairing" => netPairResourceVersion' = events'
  PROVE  TypeInv'
<1>1. /\ events' \in 0..MaxEvents /\ events' \in Nat
      /\ events \in Nat /\ creations \in Nat /\ creations < events'
  BY StoreTypes, EventAssumption DEF TypeInv, ClientInv, StoreInv
<1>2. /\ threads \in [handler : Threads, stopper : Threads]
      /\ \A th \in {"handler", "stopper"} :
            /\ threads[th].todo \subseteq DOMAIN ClientConnection
            /\ threads[th].waiting \in Clients \cup {NoClient}
  BY DEF TypeInv, ThreadInv
<1>3. /\ \A s \in DOMAIN ClientConnection : s \in Slots /\ s.version \in Nat /\ s.version < events'
      /\ netBatPairs \in SUBSET Slots /\ netBatPairs \subseteq DOMAIN ClientConnection
      /\ pairsSet \in BOOLEAN /\ (netBatPairs # {} => pairsSet)
  BY <1>1 DEF TypeInv, SlotInv, Slots
<1>4. UNCHANGED <<ClientConnection, creations, clients, registry>>
  BY DEF clientVars
<1>5. /\ threads' \in [handler : Threads, stopper : Threads]
      /\ \A th \in {"handler", "stopper"} :
            /\ threads'[th].todo \subseteq DOMAIN ClientConnection'
            /\ threads'[th].waiting \in Clients \cup {NoClient}
      /\ threads'.handler.doing = "pairing" => netPairResourceVersion' = events'
  <2>1. CASE UNCHANGED threads
    BY <1>2, <1>4, <2>1, ThreadTypes
  <2>2. ASSUME NEW doing \in {"pairing", "delete", "restart"}, NEW data \in Pairings,
               Handler(doing, data), doing = "pairing" => netPairResourceVersion' = events'
        PROVE  /\ threads' \in [handler : Threads, stopper : Threads]
               /\ \A th \in {"handler", "stopper"} :
                     /\ threads'[th].todo \subseteq DOMAIN ClientConnection'
                     /\ threads'[th].waiting \in Clients \cup {NoClient}
               /\ threads'.handler.doing = "pairing" => netPairResourceVersion' = events'
    <3> PICK t : t = [doing |-> doing, todo |-> netBatPairs, waiting |-> NoClient, data |-> data]
      OBVIOUS
    <3>1. t \in Threads /\ t.todo = netBatPairs /\ t.waiting = NoClient /\ t.doing = doing
      BY <1>3, ThreadTypes
    <3>2. threads' = [threads EXCEPT !.handler = t]
      BY <2>2 DEF Handler
    <3>3. threads'.handler = t /\ threads'.stopper = threads.stopper
      BY <1>2, <3>2
    <3>4. threads' \in [handler : Threads, stopper : Threads]
      BY <1>2, <3>1, <3>2
    <3>5. QED
      BY <1>2, <1>3, <1>4, <2>2, <3>1, <3>3, <3>4
  <2>3. QED
    BY <2>1, <2>2
<1>6. /\ \A s \in DOMAIN ClientConnection' :
            /\ s \in Slots /\ s.version <= events'
            /\ threads'.handler.doing = "pairing" => s.version < netPairResourceVersion'
      /\ threads'.handler.doing = "pairing" => netPairResourceVersion' > 0
  BY <1>1, <1>3, <1>4, <1>5
<1>7. events <= events'
  BY <1>1
<1>8. QED
  BY <1>1, <1>3, <1>4, <1>5, <1>6, <1>7, SlotsStep

\* A pairing config map is added, changed, deleted or listed again.
LEMMA PairingEvent ==
  ASSUME TypeInv, panic = "none",
         \/ \E data \in Pairings : PairingAdd(data) \/ PairingUpdate(data)
         \/ PairingDelete
         \/ Event("relist") /\ cm.pairing # Absent /\ UpdatePairing(cm.pairing) /\ UNCHANGED cm
  PROVE  TypeInv'
<1>1. events' = events + 1 /\ events < MaxEvents /\ threads.handler = Idle /\ events \in Nat
  BY DEF PairingAdd, PairingUpdate, PairingDelete, Event, TypeInv, StoreInv
<1>2. /\ events' \in 0..MaxEvents /\ events' \in Nat /\ events' \in 1..MaxEvents
      /\ netPairResourceVersion \in 0..events'
      /\ config \in [version : 0..events', suspendTraffic : BOOLEAN]
      /\ cm \in [pairing : [version : 1..events', data : Pairings] \cup {Absent},
                 profile : [version : 1..events', data : Profiles] \cup {Absent}]
  BY <1>1, StoreTypes
<1>3. /\ sendRate \in Rates \cup {-1}
      /\ serversMap \in SUBSET Interfaces /\ listening \in SUBSET Interfaces
      /\ cm.pairing # Absent => cm.pairing.version = netPairResourceVersion
  BY DEF TypeInv, StoreInv
<1>4. ASSUME NEW new, new \in [version : 1..events', data : Pairings] \cup {Absent},
             cm' = [cm EXCEPT !.pairing = new],
             UNCHANGED <<confVars, serverVars>>, panic' \in Causes \cup {"none"},
             netPairResourceVersion' \in 0..events',
             panic' = "none" /\ new # Absent => new.version = netPairResourceVersion'
      PROVE  StoreInv'
  <2>1. cm'.pairing = new
    BY <1>2, <1>4
  <2>2. cm' \in [pairing : [version : 1..events', data : Pairings] \cup {Absent},
                 profile : [version : 1..events', data : Profiles] \cup {Absent}]
    BY <1>2, <1>4
  <2>3. QED
    BY <1>2, <1>3, <1>4, <2>1, <2>2 DEF StoreInv, confVars, serverVars
<1>5. ASSUME NEW data \in Pairings, PairingAdd(data)
      PROVE  TypeInv'
  <2> PICK new : new = [version |-> events + 1, data |-> data]
    OBVIOUS
  <2>1. /\ new \in [version : 1..events', data : Pairings] /\ new.version = events'
        /\ cm' = [cm EXCEPT !.pairing = new]
    BY <1>1, <1>2, <1>5 DEF PairingAdd
  <2>2. CASE Panic("shortLine")
    <3>1. StoreInv'
      BY <1>2, <1>4, <2>1, <2>2 DEF Panic, Causes, pairVars
    <3>2. QED
      BY <1>1, <2>2, <3>1, QuietEvent DEF Panic, pairVars
  <2>3. CASE /\ netPairResourceVersion' = events + 1
             /\ HandleNetBatPairingAddEvent(events + 1, data)
             /\ UNCHANGED <<confVars, serverVars, registry, threads, panic>>
    <3>1. StoreInv'
      BY <1>1, <1>2, <1>4, <2>1, <2>3 DEF TypeInv, StoreInv
    <3>2. \A s \in DOMAIN ClientConnection : s \in Slots /\ s.version \in Nat /\ s.version < events'
      BY <1>1 DEF TypeInv, SlotInv, Slots
    <3> PICK version : version = events'
      OBVIOUS
    <3>3. PICK slots : NewSlots(version, data, slots)
      <4>1. /\ HandleNetBatPairingAddEvent(version, data) /\ version \in 1..MaxEvents
            /\ \A s \in DOMAIN ClientConnection : s.version < version
        <5>1. version = events + 1
          BY <1>1
        <5>2. HandleNetBatPairingAddEvent(version, data)
          BY <2>3, <5>1, Zenon
        <5>3. QED
          BY <1>2, <3>2, <5>2
      <4>2. QED
        BY <4>1, PairingFacts
    <3>4. /\ threads' = threads /\ threads'.handler.doing = "idle"
          /\ threads' \in [handler : Threads, stopper : Threads]
          /\ \A th \in {"handler", "stopper"} :
                /\ threads'[th].todo \subseteq DOMAIN ClientConnection'
                /\ threads'[th].waiting \in Clients \cup {NoClient}
      BY <1>1, <2>3, <3>3, ThreadTypes DEF TypeInv, ThreadInv, NewSlots
    <3>5. creations < events' /\ events <= events'
      BY <1>1 DEF TypeInv, ClientInv
    <3>6. \A s \in DOMAIN ClientConnection' : s \in Slots /\ s.version <= events'
      BY <1>2, <3>2, <3>3 DEF NewSlots
    <3>7. QED
      BY <2>3, <3>1, <3>3, <3>4, <3>5, <3>6, SlotsStep DEF NewSlots
  <2>4. QED
    BY <1>5, <2>2, <2>3 DEF PairingAdd
<1>6. ASSUME NEW new \in [version : 1..events', data : Pairings], cm' = [cm EXCEPT !.pairing = new],
             new.version \in {events', netPairResourceVersion}, UpdatePairing(new)
      PROVE  TypeInv'
  <2>1. /\ UNCHANGED <<netBatPairs, pairsSet, confVars, serverVars, clientVars, panic>>
        /\ \/ UNCHANGED <<netPairResourceVersion, threads>> /\ new.version = netPairResourceVersion
           \/ /\ netPairResourceVersion' = new.version /\ Handler("pairing", new.data)
              /\ new.version = events'
    BY <1>6 DEF UpdatePairing
  <2>2. /\ netPairResourceVersion' = new.version /\ new.version \in 0..events'
        /\ new \in [version : 1..events', data : Pairings] \cup {Absent}
        /\ new.data \in Pairings
    BY <1>2, <1>6, <2>1
  <2>3. StoreInv'
    BY <1>4, <1>6, <2>1, <2>2 DEF TypeInv, StoreInv
  <2>4. QED
    BY <1>1, <2>1, <2>2, <2>3, QuietEvent
<1>7. ASSUME NEW data \in Pairings, PairingUpdate(data)
      PROVE  TypeInv'
  <2> PICK new : new = [version |-> events + 1, data |-> data]
    OBVIOUS
  <2>1. /\ new \in [version : 1..events', data : Pairings] /\ new.version = events'
        /\ cm' = [cm EXCEPT !.pairing = new] /\ UpdatePairing(cm'.pairing)
    BY <1>1, <1>2, <1>7 DEF PairingUpdate
  <2>2. cm'.pairing = new
    BY <1>2, <2>1
  <2>3. QED
    BY <1>6, <2>1, <2>2
<1>8. CASE PairingDelete
  <2>1. /\ cm' = [cm EXCEPT !.pairing = Absent] /\ netPairResourceVersion' = 0
        /\ Handler("delete", NoData)
        /\ UNCHANGED <<netBatPairs, pairsSet, confVars, serverVars, clientVars, panic>>
    BY <1>8 DEF PairingDelete
  <2>2. 0 \in 0..events' /\ NoData \in Pairings
    BY <1>2, ThreadTypes DEF NoData, Threads
  <2>3. StoreInv'
    BY <1>4, <2>1, <2>2 DEF TypeInv, StoreInv
  <2>4. QED
    BY <1>1, <2>1, <2>2, <2>3, QuietEvent
<1>9. CASE cm.pairing # Absent /\ UpdatePairing(cm.pairing) /\ UNCHANGED cm
  <2>1. /\ cm.pairing \in [version : 1..events', data : Pairings]
        /\ cm.pairing.version = netPairResourceVersion
    BY <1>2, <1>3, <1>9
  <2>2. cm' = [cm EXCEPT !.pairing = cm.pairing]
    BY <1>2, <1>9
  <2>3. QED
    BY <1>6, <1>9, <2>1, <2>2
<1>10. QED
  BY <1>5, <1>7, <1>8, <1>9

\* A profile is added, changed, deleted or listed again, or a delete was missed.
LEMMA ProfileEvent ==
  ASSUME TypeInv, panic = "none",
         \/ \E data \in Profiles : ProfileAdd(data) \/ ProfileUpdate(data)
         \/ ProfileDelete
         \/ Event("relist") /\ cm.profile # Absent /\ UpdateProfile(cm.profile) /\ UNCHANGED cm
         \/ MissedDelete
  PROVE  TypeInv'
<1>1. events' = events + 1 /\ events < MaxEvents /\ threads.handler = Idle /\ events \in Nat
  BY DEF ProfileAdd, ProfileUpdate, ProfileDelete, MissedDelete, Event, TypeInv, StoreInv
<1>2. /\ events' \in 0..MaxEvents /\ events' \in Nat /\ events' \in 1..MaxEvents
      /\ netPairResourceVersion \in 0..events'
      /\ config \in [version : 0..events', suspendTraffic : BOOLEAN]
      /\ cm \in [pairing : [version : 1..events', data : Pairings] \cup {Absent},
                 profile : [version : 1..events', data : Profiles] \cup {Absent}]
  BY <1>1, StoreTypes
<1>3. /\ sendRate \in Rates \cup {-1}
      /\ serversMap \in SUBSET Interfaces /\ listening \in SUBSET Interfaces
      /\ cm.pairing # Absent => cm.pairing.version = netPairResourceVersion
      /\ panic \in Causes \cup {"none"} /\ FALSE \in BOOLEAN
  BY DEF TypeInv, StoreInv
<1>4. ASSUME NEW new, new \in [version : 1..events', data : Profiles] \cup {Absent},
             cm' = [cm EXCEPT !.profile = new],
             config' \in [version : 0..events', suspendTraffic : BOOLEAN],
             sendRate' \in Rates \cup {-1},
             serversMap' \in SUBSET Interfaces, listening' \in SUBSET Interfaces,
             panic' \in Causes \cup {"none"}, UNCHANGED netPairResourceVersion
      PROVE  StoreInv'
  <2>1. cm'.pairing = cm.pairing
    BY <1>2, <1>4
  <2>2. cm' \in [pairing : [version : 1..events', data : Pairings] \cup {Absent},
                 profile : [version : 1..events', data : Profiles] \cup {Absent}]
    BY <1>2, <1>4
  <2>3. QED
    BY <1>2, <1>3, <1>4, <2>1, <2>2 DEF StoreInv
<1>5. ASSUME NEW data \in Profiles, ProfileAdd(data)
      PROVE  TypeInv'
  <2> PICK new : new = [version |-> events + 1, data |-> data]
    OBVIOUS
  <2>1. /\ new \in [version : 1..events', data : Profiles] \cup {Absent}
        /\ cm' = [cm EXCEPT !.profile = new]
        /\ UNCHANGED <<netPairResourceVersion, netBatPairs, pairsSet, threads, panic>>
    BY <1>1, <1>2, <1>5 DEF ProfileAdd, pairVars
  <2>2. data.rate \in Rates /\ data.suspend \in BOOLEAN
    BY ProfileTypes
  <2>3. /\ \/ config' = config
           \/ config' = [version |-> events + 1, suspendTraffic |-> data.suspend]
        /\ sendRate' \in {sendRate, -1, data.rate}
        /\ \/ serversMap' = serversMap /\ listening' = listening
           \/ \E created \in SUBSET (Interfaces \ listening) :
                 serversMap' = created /\ listening' = listening \cup created
        /\ UNCHANGED <<ClientConnection, registry>>
        /\ CreateNetBatTgenClients(netBatPairs) \/ UNCHANGED <<creations, clients>>
    BY <1>5 DEF ProfileAdd, confVars, serverVars, clientVars
  <2>4. /\ config' \in [version : 0..events', suspendTraffic : BOOLEAN]
        /\ sendRate' \in Rates \cup {-1}
        /\ serversMap' \in SUBSET Interfaces /\ listening' \in SUBSET Interfaces
    BY <1>1, <1>2, <1>3, <2>2, <2>3
  <2>5. StoreInv'
    BY <1>3, <1>4, <2>1, <2>4
  <2>6. /\ \A s \in DOMAIN ClientConnection' : s \in Slots /\ s.version <= events'
        /\ netBatPairs \subseteq DOMAIN ClientConnection'
        /\ pairsSet \in BOOLEAN /\ (netBatPairs # {} => pairsSet)
    BY <1>1, <2>3 DEF TypeInv, SlotInv, Slots
  <2>7. /\ threads' = threads /\ threads'.handler.doing = "idle"
        /\ threads' \in [handler : Threads, stopper : Threads]
        /\ \A th \in {"handler", "stopper"} :
              /\ threads'[th].todo \subseteq DOMAIN ClientConnection'
              /\ threads'[th].waiting \in Clients \cup {NoClient}
    BY <1>1, <2>1, <2>3, ThreadTypes DEF TypeInv, ThreadInv
  <2>8. creations < events' /\ events <= events'
    BY <1>1 DEF TypeInv, ClientInv
  <2>9. QED
    BY <2>1, <2>3, <2>5, <2>6, <2>7, <2>8, SlotsStep
<1>6. ASSUME NEW new \in [version : 1..events', data : Profiles], cm' = [cm EXCEPT !.profile = new],
             UpdateProfile(new)
      PROVE  TypeInv'
  <2>1. /\ new.data.rate \in Rates /\ new.data.suspend \in BOOLEAN /\ new.version \in 0..events'
        /\ NoData \in Pairings
    BY <1>2, <1>6, ProfileTypes, ThreadTypes DEF NoData, Threads
  <2>2. /\ UNCHANGED <<netPairResourceVersion, netBatPairs, pairsSet, serverVars, clientVars>>
        /\ panic' = panic \/ panic' = "nilConfig"
        /\ UNCHANGED threads \/ Handler("restart", NoData)
        /\ sendRate' \in {sendRate, -1, new.data.rate}
        /\ \/ config' = config
           \/ config' = [config EXCEPT !.suspendTraffic = FALSE]
           \/ config' = [version |-> new.version, suspendTraffic |-> new.data.suspend]
    BY <1>6, Zenon DEF UpdateProfile, Panic, Restart, pairVars, confVars, serverVars, clientVars
  <2>3. config' \in [version : 0..events', suspendTraffic : BOOLEAN]
    <3>1. CASE config' = config
      BY <1>2, <3>1
    <3>2. CASE config' = [config EXCEPT !.suspendTraffic = FALSE]
      BY <1>2, <1>3, <3>2
    <3>3. CASE config' = [version |-> new.version, suspendTraffic |-> new.data.suspend]
      BY <2>1, <3>3
    <3>4. QED
      BY <2>2, <3>1, <3>2, <3>3
  <2>4. StoreInv'
    <3>1. panic' \in Causes \cup {"none"}
      BY <1>3, <2>2 DEF Causes
    <3>2. /\ sendRate' \in Rates \cup {-1} /\ UNCHANGED netPairResourceVersion
          /\ serversMap' \in SUBSET Interfaces /\ listening' \in SUBSET Interfaces
      BY <1>3, <2>1, <2>2 DEF serverVars
    <3>3. QED
      BY <1>4, <1>6, <2>3, <3>1, <3>2
  <2>5. QED
    BY <1>1, <2>1, <2>2, <2>4, QuietEvent
<1>7. ASSUME NEW data \in Profiles, ProfileUpdate(data)
      PROVE  TypeInv'
  <2> PICK new : new = [version |-> events + 1, data |-> data]
    OBVIOUS
  <2>1. /\ new \in [version : 1..events', data : Profiles]
        /\ cm' = [cm EXCEPT !.profile = new] /\ UpdateProfile(cm'.profile)
    BY <1>1, <1>2, <1>7 DEF ProfileUpdate
  <2>2. cm'.profile = new
    BY <1>2, <2>1
  <2>3. QED
    BY <1>6, <2>1, <2>2
<1>8. CASE ProfileDelete
  <2>1. /\ cm' = [cm EXCEPT !.profile = Absent] /\ config' = NilConfig
        /\ serversMap' = serversMap /\ listening' \subseteq listening
        /\ UNCHANGED <<pairVars, sendRate, clientVars, threads, panic>>
    BY <1>8 DEF ProfileDelete, StopServers
  <2>2. NilConfig \in [version : 0..events', suspendTraffic : BOOLEAN]
    BY <1>2, <1>3 DEF NilConfig
  <2>3. StoreInv'
    BY <1>3, <1>4, <2>1, <2>2 DEF pairVars
  <2>4. QED
    BY <1>1, <2>1, <2>3, QuietEvent DEF pairVars
<1>9. CASE cm.profile # Absent /\ UpdateProfile(cm.profile) /\ UNCHANGED cm
  <2>1. cm.profile \in [version : 1..events', data : Profiles]
    BY <1>2, <1>9
  <2>2. cm' = [cm EXCEPT !.profile = cm.profile]
    BY <1>2, <1>9
  <2>3. QED
    BY <1>6, <1>9, <2>1, <2>2
<1>10. CASE MissedDelete
  <2>1. Panic("missedDelete") /\ cm' = [cm EXCEPT !.profile = cm.profile]
        /\ cm.profile \in [version : 1..events', data : Profiles] \cup {Absent}
    BY <1>2, <1>10 DEF MissedDelete
  <2>2. StoreInv'
    BY <1>2, <1>3, <1>4, <2>1 DEF Panic, Causes, pairVars, confVars, serverVars
  <2>3. QED
    BY <1>1, <2>1, <2>2, QuietEvent DEF Panic, pairVars
<1>11. QED
  BY <1>5, <1>7, <1>8, <1>9, <1>10

\* Every step of the controller keeps the type invariant.
LEMMA TypeInvNext == TypeInv /\ [Next]_vars => TypeInv'
<1> SUFFICES ASSUME TypeInv, [Next]_vars
             PROVE  TypeInv'
  OBVIOUS
<1>1. CASE UNCHANGED vars
  <2>1. UNCHANGED <<cm, events, netPairResourceVersion, netBatPairs, pairsSet, config, sendRate,
                    serversMap, listening, ClientConnection, creations, clients, registry, threads,
                    panic>>
    BY <1>1 DEF vars, pairVars, confVars, serverVars, clientVars
  <2>2. QED
    BY <2>1 DEF TypeInv, StoreInv, ThreadInv, SlotInv, ClientInv, LaunchInv, RegistryInv, Clients,
                SlotOf, LaunchedRuns
<1>2. CASE ~Terminated /\ ConfigMapEvent
  BY <1>2, PairingEvent, ProfileEvent DEF Terminated, crashed, ConfigMapEvent, Relist
<1>3. CASE HandlerRuns /\ UNCHANGED <<cm, events>>
  BY <1>3, TearDownStep, ThreadStep, PanicStep DEF HandlerRuns, ShortLinePanics, Causes
<1>4. CASE (StopTGC \/ StopperRuns) /\ UNCHANGED <<cm, events>>
  BY <1>4, TearDownStep, ThreadStep DEF StopperRuns
<1>5. ASSUME NEW c \in Clients, UNCHANGED <<cm, events>>,
             CreateClient(c) \/ ClientReRegisters(c) \/ ClientHasNoCounters(c) \/ ClientExits(c)
      PROVE  TypeInv'
  BY <1>5, CreateStep, LaunchStep, RunStep DEF CreateClient
<1>6. ASSUME NEW c \in Clients, NEW server \in Servers, UNCHANGED <<cm, events>>,
             ClientRelabels(c, server)
      PROVE  TypeInv'
  BY <1>6, RunStep
<1>7. QED
  BY <1>1, <1>2, <1>3, <1>4, <1>5, <1>6 DEF Next

\* However the events follow each other and whatever they overtake, the fields of
\* podTGC and of its clients keep their types, pointers point to something, and no
\* goroutine is launched more often than there were creations.
THEOREM ControllerTypeCorrect == Spec => []TypeOK
BY TypeInvInit, TypeInvNext, TypeInvTypes, PTL DEF Spec
===============================================================================
