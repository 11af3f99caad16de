-------------------------- MODULE PodTGCPatientProofs --------------------------
(***************************************************************************)
(* Proofs about PodTGC when config maps change one at a time: a change     *)
(* waits until the clients of the last one have been created, and the      *)
(* profile stays once it is there.                                         *)
(***************************************************************************)
EXTENDS PodTGCProofs

Calm == Patient /\ "profileDelete" \notin EventKinds

\* An update of a profile changes suspend-traffic or another setting, not both.
Unmixed == "mixedUpdate" \notin EventKinds

\* No event makes a handler panic by itself.
Harmless == EventKinds \cap {"shortLine", "missedDelete"} = {}

\* The client's goroutine has ended, or its client has run and was stopped.
Dead(c) ==
  \/ clients[c].phase = "ended"
  \/ clients[c].phase = "launched" /\ clients[c].stop /\ clients[c].exited = 1

\* How far a client has come shows in its fields: nobody else launches it.
Life(c) ==
  /\ clients[c].launched = IF clients[c].phase = "launched" THEN 1 ELSE 0
  /\ clients[c].connected <=> clients[c].phase \in {"connected", "exported", "launched"}
  /\ clients[c].series # {} <=> clients[c].phase \in {"exported", "launched"}
  /\ clients[c].labels # NoLabels => clients[c].labels.pair = c.pair
  /\ clients[c].phase \in {"spawned", "created"} => clients[c].labels = NoLabels
  /\ clients[c].stop => clients[c].phase = "launched"
  /\ clients[c].exited = 1 => clients[c].stop
  /\ clients[c].phase # "launched" => clients[c].server = "none"
  /\ clients[c].relabelling => clients[c].phase = "launched" /\ clients[c].exited = 0
  /\ \A id \in clients[c].series : id.labels = clients[c].labels /\ id.server # "notStarted"
LifeInv == \A c \in Clients : Life(c)

\* A slot has one client that is not dead at most, and points to it.
OwnerInv ==
  /\ \A c \in Clients : ~Dead(c) =>
        /\ SlotOf(c) \in netBatPairs
        /\ clients[c].phase # "spawned" => ClientConnection[SlotOf(c)] = c
  /\ \A c, d \in Clients : ~Dead(c) /\ ~Dead(d) /\ SlotOf(c) = SlotOf(d) => c = d

\* The slots of netBatPairs are of one version, a slot points to a client that has
\* labels when it has been set up, and to one if it was created for the slot.
PairInv ==
  /\ \A s, t \in netBatPairs : s.version = t.version
  /\ \A slot \in DOMAIN ClientConnection : ClientConnection[slot] # NoClient =>
        /\ clients[ClientConnection[slot]].phase # "spawned"
        /\ clients[ClientConnection[slot]].phase # "created" =>
              clients[ClientConnection[slot]].labels # NoLabels
  /\ \A c \in Clients : clients[c].phase # "spawned" /\ c.pair \notin NoClientPairs =>
        ClientConnection[SlotOf(c)] # NoClient

\* One thread tears down at a time, and only when no client is being created.
AloneInv ==
  /\ threads.handler.doing \in {"idle", "pairing", "delete", "restart"}
  /\ threads.stopper.doing \in {"idle", "closed", "stop", "stopped"}
  /\ threads.handler.doing = "idle" => threads.handler = Idle
  /\ threads.stopper.doing = "idle" => threads.stopper = Idle
  /\ threads.stopper.doing # "stop" => threads.stopper.todo = {} /\ threads.stopper.waiting = NoClient
  /\ threads.stopper.doing \in {"stop", "stopped"} => threads.handler = Idle
  /\ \A th \in {"handler", "stopper"} :
        /\ threads[th].todo \subseteq netBatPairs
        /\ threads[th].waiting # NoClient =>
              /\ clients[threads[th].waiting].stop
              /\ SlotOf(threads[th].waiting) \in netBatPairs
              /\ ClientConnection[SlotOf(threads[th].waiting)] = threads[th].waiting
        /\ Busy(th) => \A c \in Clients : clients[c].phase \in {"ended", "launched"}

\* What a thread has torn down is dead.
TornInv ==
  \A th \in {"handler", "stopper"} : Busy(th) =>
     \A c \in Clients : ~Dead(c) => SlotOf(c) \in threads[th].todo \/ threads[th].waiting = c

\* What is in the registry belongs to the client of a slot, for which no other
\* client is about to be created, and which has not been torn down.
OwnedBy(id, slot) ==
  /\ ClientConnection[slot] # NoClient
  /\ clients[ClientConnection[slot]].labels = id.labels
  /\ id.server # "notStarted" => id \in clients[ClientConnection[slot]].series
  /\ \A d \in Clients : SlotOf(d) = slot => clients[d].phase # "spawned"
  /\ \A th \in {"handler", "stopper"} : Busy(th) =>
        \/ slot \in threads[th].todo
        \/ threads[th].waiting = ClientConnection[slot] /\ id.server # "notStarted"
OwnedInv == \A id \in registry : \E slot \in netBatPairs : OwnedBy(id, slot)

\* The metrics of a client that has not been told to stop are in the registry, but
\* for its series while it is between taking them out and putting in another.
Exported(c) ==
  /\ clients[c].phase \in Working \ {"created"} /\ ~clients[c].stop => NotStarted(c) \in registry
  /\ clients[c].phase \in {"exported", "launched"} /\ ~clients[c].stop /\ ~clients[c].relabelling =>
        Series(c, clients[c].server) \in registry
  /\ clients[c].relabelling => clients[c].series \cap registry = {}
ExportInv == \A c \in Clients : Exported(c)

\* Clients with the labels of an old rate are about to be torn down, unless an
\* update changed suspend-traffic too.
RateInv ==
  Unmixed /\ threads.handler = Idle /\ sendRate # -1 =>
     \A c \in Clients : ~Dead(c) /\ clients[c].labels # NoLabels => clients[c].labels.rate = sendRate

\* Without a config there is no client, and without a profile no config; what was
\* read without an error has been applied; without a pairing there are no pairs.
LoadedInv ==
  /\ cm.profile = Absent => config = NilConfig
  /\ config = NilConfig => Clients = {}
  /\ threads.handler.doing = "restart" => config # NilConfig
  /\ config # NilConfig => config.version > 0
  /\ cm.profile # Absent /\ config # NilConfig /\ cm.profile.data.bad = "nothing" =>
        cm.profile.version = config.version
  /\ cm.pairing = Absent /\ threads.handler.doing # "delete" => netBatPairs = {}
  /\ threads.handler.doing = "pairing" => cm.pairing # Absent

PanicInv == Harmless => OnlyNilPanics

CalmInv ==
  /\ LifeInv /\ OwnerInv /\ PairInv /\ AloneInv /\ TornInv /\ OwnedInv /\ ExportInv
  /\ RateInv /\ LoadedInv /\ PanicInv

-------------------------------------------------------------------------------
(* What the invariant says of running clients *)

\* A client that runs is not dead; its slot is one of the current pairs and points
\* to it, and it has metrics.
LEMMA RunningFacts ==
  ASSUME TypeInv, CalmInv, NEW c \in Clients, Running(c)
  PROVE  /\ clients[c].phase = "launched" /\ clients[c].exited = 0 /\ ~Dead(c)
         /\ SlotOf(c) \in netBatPairs /\ ClientConnection[SlotOf(c)] = c
         /\ clients[c].series # {} /\ clients[c].labels # NoLabels
<1>1. clients[c].exited \in 0..1 /\ Life(c)
  BY DEF TypeInv, ClientInv, ClientRecords, CalmInv, LifeInv
<1>2. clients[c].phase = "launched" /\ clients[c].exited = 0
  BY <1>1 DEF Running, Life
<1>3. ~Dead(c)
  BY <1>2 DEF Dead
<1>4. clients[c].labels # NoLabels
  BY <1>2 DEF TypeInv, ClientInv, Working
<1>5. SlotOf(c) \in netBatPairs /\ ClientConnection[SlotOf(c)] = c
  BY <1>2, <1>3 DEF CalmInv, OwnerInv
<1>6. QED
  BY <1>1, <1>2, <1>3, <1>4, <1>5 DEF Life

\* The invariant implies the properties.
LEMMA CalmInvProperties ==
  ASSUME TypeInv, CalmInv
  PROVE  /\ SendersArePaired /\ SendersAreExported /\ NothingStaleExported
         /\ Unmixed => RateLabelsTrue
         /\ Harmless => OnlyNilPanics
<1>1. SendersArePaired
  BY RunningFacts DEF SendersArePaired, Sending
<1>2. SendersAreExported
  BY RunningFacts DEF SendersAreExported, Sending, CalmInv, ExportInv, Exported, Working
<1>3. NothingStaleExported
  BY DEF NothingStaleExported, CalmInv, OwnedInv, OwnedBy
<1>4. Unmixed => RateLabelsTrue
  BY RunningFacts DEF RateLabelsTrue, Sending, CalmInv, RateInv
<1>5. QED
  BY <1>1, <1>2, <1>3, <1>4 DEF CalmInv, PanicInv

\* Slots of the current pairs are told apart by their pair.
LEMMA SlotOfPair ==
  ASSUME TypeInv, CalmInv, NEW s \in netBatPairs, NEW t \in netBatPairs, s.pair = t.pair
  PROVE  s = t
<1>1. s \in Slots /\ t \in Slots
  BY DEF TypeInv, SlotInv
<1>2. s.version = t.version
  BY DEF CalmInv, PairInv
<1>3. QED
  BY <1>1, <1>2 DEF Slots

\* A slot points to a client of its own.
LEMMA PointerFacts ==
  ASSUME TypeInv, CalmInv, NEW slot \in netBatPairs, ClientConnection[slot] # NoClient
  PROVE  /\ ClientConnection[slot] \in Clients /\ SlotOf(ClientConnection[slot]) = slot
         /\ ClientConnection[slot].pair = slot.pair
<1>1. ClientConnection[slot] \in Clients /\ SlotOf(ClientConnection[slot]) = slot
  BY DEF TypeInv, SlotInv
<1>2. QED
  BY <1>1 DEF SlotOf

\* What the registry has of a pair is owned by the slot of the pair.
LEMMA OwnerOf ==
  ASSUME TypeInv, CalmInv, NEW s \in netBatPairs, NEW id \in registry, id.labels.pair = s.pair
  PROVE  OwnedBy(id, s)
<1>1. PICK slot \in netBatPairs : OwnedBy(id, slot)
  BY DEF CalmInv, OwnedInv
<1> PICK o : o = ClientConnection[slot]
  OBVIOUS
<1>2. o \in Clients /\ o.pair = slot.pair /\ clients[o].labels = id.labels
  BY <1>1, PointerFacts DEF OwnedBy
<1>3. id.labels # NoLabels
  BY DEF TypeInv, RegistryInv, Ids, NoLabels
<1>4. id.labels.pair = slot.pair
  BY <1>2, <1>3 DEF CalmInv, LifeInv, Life
<1>5. slot = s
  BY <1>4, SlotOfPair
<1>6. QED
  BY <1>1, <1>5

\* Two clients of current slots with the same labels are of the same slot.
LEMMA LabelsDiffer ==
  ASSUME TypeInv, CalmInv, NEW c \in Clients, NEW d \in Clients,
         SlotOf(c) \in netBatPairs, SlotOf(d) \in netBatPairs,
         clients[c].labels # NoLabels, clients[c].labels = clients[d].labels
  PROVE  SlotOf(c) = SlotOf(d)
<1>1. c.pair = d.pair
  BY DEF CalmInv, LifeInv, Life
<1>2. SlotOf(c).pair = SlotOf(d).pair
  BY <1>1 DEF SlotOf
<1>3. QED
  BY <1>2, SlotOfPair

\* Nothing has happened yet.
LEMMA CalmInvInit == Init => CalmInv
<1> SUFFICES ASSUME Init
             PROVE  CalmInv
  OBVIOUS
<1>1. Clients = {} /\ DOMAIN ClientConnection = {} /\ netBatPairs = {} /\ registry = {}
  BY DEF Init, Clients
<1>2. /\ threads.handler = Idle /\ threads.stopper = Idle /\ config = NilConfig /\ panic = "none"
      /\ \A th \in {"handler", "stopper"} : threads[th] = Idle
  BY DEF Init
<1>3. /\ Idle.doing = "idle" /\ Idle.todo = {} /\ Idle.waiting = NoClient /\ Idle.data.bad = "nothing"
  BY DEF Idle
<1>4. LifeInv /\ OwnerInv /\ PairInv /\ TornInv /\ OwnedInv /\ ExportInv /\ RateInv
  BY <1>1 DEF LifeInv, OwnerInv, PairInv, TornInv, OwnedInv, ExportInv, RateInv
<1>5. AloneInv
  BY <1>1, <1>2, <1>3 DEF AloneInv
<1>6. LoadedInv /\ PanicInv
  BY <1>1, <1>2, <1>3 DEF LoadedInv, PanicInv, OnlyNilPanics
<1>7. QED
  BY <1>4, <1>5, <1>6 DEF CalmInv

-------------------------------------------------------------------------------
(* Steps of the handlers *)

\* Clients, slots and registry stay as they are; a thread may begin to tear down
\* what there is.
LEMMA StillStep ==
  ASSUME TypeInv, CalmInv,
         UNCHANGED <<ClientConnection, clients, registry, netBatPairs>>,
         \A th \in {"handler", "stopper"} : Busy(th)' =>
            \/ Busy(th) /\ threads'[th].todo = threads[th].todo /\ threads'[th].waiting = threads[th].waiting
            \/ threads'[th].todo = netBatPairs,
         AloneInv', RateInv', LoadedInv', PanicInv'
  PROVE  CalmInv'
<1>1. Clients' = Clients /\ \A c \in Clients : Dead(c)' <=> Dead(c)
  BY DEF Clients, Dead
<1>2. LifeInv' /\ ExportInv'
  BY <1>1 DEF CalmInv, LifeInv, Life, ExportInv, Exported, NotStarted, Series
<1>3. OwnerInv' /\ PairInv'
  BY <1>1 DEF CalmInv, OwnerInv, PairInv, SlotOf
<1>4. TornInv'
  <2>1. ASSUME NEW th \in {"handler", "stopper"}, Busy(th)', NEW c \in Clients, ~Dead(c)
        PROVE  SlotOf(c) \in threads'[th].todo \/ threads'[th].waiting = c
    <3>1. SlotOf(c) \in netBatPairs
      BY <2>1 DEF CalmInv, OwnerInv
    <3>2. CASE Busy(th) /\ threads'[th].todo = threads[th].todo /\ threads'[th].waiting = threads[th].waiting
      BY <2>1, <3>2 DEF CalmInv, TornInv
    <3>3. QED
      BY <2>1, <3>1, <3>2
  <2>2. QED
    BY <1>1, <2>1 DEF TornInv, SlotOf
<1>5. OwnedInv'
  <2>1. ASSUME NEW id \in registry
        PROVE  \E slot \in netBatPairs : OwnedBy(id, slot)'
    <3>1. PICK slot \in netBatPairs : OwnedBy(id, slot)
      BY DEF CalmInv, OwnedInv
    <3>2. ASSUME NEW th \in {"handler", "stopper"}, Busy(th)'
          PROVE  \/ slot \in threads'[th].todo
                 \/ threads'[th].waiting = ClientConnection[slot] /\ id.server # "notStarted"
      BY <3>1, <3>2 DEF OwnedBy
    <3>3. OwnedBy(id, slot)'
      BY <1>1, <3>1, <3>2 DEF OwnedBy, SlotOf
    <3>4. QED
      BY <3>3
  <2>2. QED
    BY <2>1 DEF OwnedInv
<1>6. QED
  BY <1>2, <1>3, <1>4, <1>5 DEF CalmInv

\* Every client is dead and the registry is empty; slots are added or replaced,
\* clients spawned for the current slots, and nothing is torn down afterwards.
LEMMA RespawnStep ==
  ASSUME TypeInv, CalmInv, TypeInv',
         \A c \in Clients : Dead(c), registry = {}, registry' = {},
         Clients \subseteq Clients', \A c \in Clients : clients'[c] = clients[c],
         \A c \in Clients' \ Clients :
            clients'[c] = Spawned /\ SlotOf(c) \in netBatPairs' /\ c.run = creations + 1,
         \A s, t \in netBatPairs' : s.version = t.version,
         \A s \in DOMAIN ClientConnection : ClientConnection'[s] = ClientConnection[s],
         \A s \in DOMAIN ClientConnection' : s \in DOMAIN ClientConnection \/ ClientConnection'[s] = NoClient,
         \A th \in {"handler", "stopper"} : ~Busy(th)',
         AloneInv', LoadedInv', panic' = "none"
  PROVE  CalmInv'
<1>1. /\ Spawned.phase = "spawned" /\ Spawned.series = {} /\ Spawned.launched = 0
      /\ Spawned.labels = NoLabels /\ Spawned.connected = FALSE /\ Spawned.stop = FALSE
      /\ Spawned.exited = 0 /\ Spawned.server = "none" /\ Spawned.relabelling = FALSE
  BY DEF Spawned
<1>2. \A c \in Clients : Dead(c)'
  BY DEF Dead
<1>3. LifeInv'
  <2>1. ASSUME NEW c \in Clients'
        PROVE  Life(c)'
    <3>1. CASE c \in Clients
      BY <3>1 DEF CalmInv, LifeInv, Life
    <3>2. CASE c \notin Clients
      <4>1. clients'[c] = Spawned
        BY <3>2
      <4>2. /\ clients'[c].phase = "spawned" /\ clients'[c].series = {} /\ clients'[c].launched = 0
            /\ clients'[c].labels = NoLabels /\ ~clients'[c].connected /\ ~clients'[c].stop
            /\ clients'[c].exited = 0 /\ clients'[c].server = "none" /\ ~clients'[c].relabelling
        BY <1>1, <4>1
      <4>3. QED
        BY <4>2 DEF Life
    <3>3. QED
      BY <3>1, <3>2
  <2>2. QED
    BY <2>1 DEF LifeInv
<1>4. OwnerInv'
  <2>1. ASSUME NEW c \in Clients', ~Dead(c)'
        PROVE  /\ c \notin Clients /\ SlotOf(c) \in netBatPairs'
               /\ clients'[c].phase = "spawned" /\ c.run = creations + 1
    BY <1>1, <1>2, <2>1
  <2>2. ASSUME NEW c \in Clients', NEW d \in Clients', ~Dead(c)', ~Dead(d)', SlotOf(c) = SlotOf(d)
        PROVE  c = d
    <3>1. c \in ClientIds /\ d \in ClientIds
      BY DEF TypeInv, ClientInv
    <3>2. c.run = d.run
      BY <2>1, <2>2
    <3>3. QED
      BY <2>2, <3>1, <3>2 DEF ClientIds, SlotOf
  <2>3. QED
    BY <2>1, <2>2 DEF OwnerInv, SlotOf
<1>5. PairInv'
  <2>1. ASSUME NEW s \in DOMAIN ClientConnection', ClientConnection'[s] # NoClient
        PROVE  /\ s \in DOMAIN ClientConnection /\ ClientConnection'[s] = ClientConnection[s]
               /\ clients'[ClientConnection'[s]] = clients[ClientConnection[s]]
    BY <2>1 DEF TypeInv, SlotInv
  <2>2. ASSUME NEW c \in Clients', clients'[c].phase # "spawned", c.pair \notin NoClientPairs
        PROVE  ClientConnection'[SlotOf(c)] # NoClient
    <3>1. c \in Clients /\ clients[c].phase # "spawned"
      BY <1>1, <2>2
    <3>2. SlotOf(c) \in DOMAIN ClientConnection /\ ClientConnection[SlotOf(c)] # NoClient
      BY <2>2, <3>1 DEF CalmInv, PairInv, TypeInv, ClientInv, SlotInv
    <3>3. QED
      BY <3>2
  <2>3. QED
    BY <2>1, <2>2 DEF CalmInv, PairInv, SlotOf
<1>6. TornInv' /\ OwnedInv'
  BY DEF TornInv, OwnedInv
<1>7. ExportInv' /\ RateInv'
  <2>1. ASSUME NEW c \in Clients'
        PROVE  Exported(c)' /\ (~Dead(c)' => clients'[c].labels = NoLabels)
    <3>1. CASE c \in Clients
      BY <1>2, <3>1 DEF Dead, Exported, Working
    <3>2. CASE c \notin Clients
      BY <1>1, <3>2 DEF Exported, Working
    <3>3. QED
      BY <3>1, <3>2
  <2>2. QED
    BY <2>1 DEF ExportInv, RateInv
<1>8. PanicInv'
  BY DEF PanicInv, OnlyNilPanics
<1>9. QED
  BY <1>3, <1>4, <1>5, <1>6, <1>7, <1>8 DEF CalmInv

\* createNetBatTgenClients spawns one client per slot.
LEMMA SpawnFacts ==
  ASSUME TypeInv, NEW slots, slots \subseteq Slots,
         CreateNetBatTgenClients(slots) \/ UNCHANGED <<creations, clients>>
  PROVE  /\ Clients \subseteq Clients' /\ \A c \in Clients : clients'[c] = clients[c]
         /\ \A c \in Clients' \ Clients :
               clients'[c] = Spawned /\ SlotOf(c) \in slots /\ c.run = creations + 1
<1>1. CASE UNCHANGED <<creations, clients>>
  BY <1>1 DEF Clients
<1>2. CASE CreateNetBatTgenClients(slots)
  <2> DEFINE New == {[version |-> s.version, pair |-> s.pair, run |-> creations + 1] : s \in slots}
  <2>1. clients' = [c \in Clients \cup New |-> IF c \in New THEN Spawned ELSE clients[c]]
    BY <1>2 DEF CreateNetBatTgenClients
  <2>2. ASSUME NEW c \in New
        PROVE  c.run = creations + 1 /\ SlotOf(c) \in slots
    <3>1. PICK s \in slots : c = [version |-> s.version, pair |-> s.pair, run |-> creations + 1]
      OBVIOUS
    <3>2. SlotOf(c) = s
      BY <3>1 DEF SlotOf, Slots
    <3>3. QED
      BY <3>1, <3>2
  <2> HIDE DEF New
  <2>3. creations \in Nat /\ \A c \in Clients : c.run \in Nat /\ c.run <= creations
    BY EventAssumption DEF TypeInv, ClientInv, ClientIds, StoreInv
  <2>4. \A c \in Clients : c \notin New
    BY <2>2, <2>3
  <2>5. Clients' = Clients \cup New
    BY <2>1 DEF Clients
  <2>6. QED
    BY <2>1, <2>2, <2>4, <2>5
<1>3. QED
  BY <1>1, <1>2

\* A thread that is done has torn down every client and emptied the registry.
LEMMA DoneFacts ==
  ASSUME TypeInv, CalmInv, NEW th \in {"handler", "stopper"}, Done(th)
  PROVE  (\A c \in Clients : Dead(c)) /\ registry = {}
<1>1. Busy(th) /\ threads[th].todo = {} /\ threads[th].waiting = NoClient
  BY DEF Done
<1>2. \A c \in Clients : Dead(c)
  <2>1. ASSUME NEW c \in Clients
        PROVE  c # NoClient
    BY DEF TypeInv, ClientInv, ClientIds, NoClient
  <2>2. QED
    BY <1>1, <2>1 DEF CalmInv, TornInv
<1>3. registry = {}
  <2>1. ASSUME NEW id \in registry
        PROVE  FALSE
    <3>1. PICK slot \in netBatPairs : OwnedBy(id, slot)
      BY DEF CalmInv, OwnedInv
    <3>2. QED
      BY <1>1, <3>1 DEF OwnedBy
  <2>2. QED
    BY <2>1
<1>4. QED
  BY <1>2, <1>3

\* With no current pair every client is dead and the registry is empty.
LEMMA NoPairsFacts ==
  ASSUME TypeInv, CalmInv, netBatPairs = {}
  PROVE  (\A c \in Clients : Dead(c)) /\ registry = {}
BY DEF CalmInv, OwnerInv, OwnedInv

\* An idle thread.
LEMMA IdleFacts ==
  Idle.doing = "idle" /\ Idle.todo = {} /\ Idle.waiting = NoClient /\ Idle.data.bad = "nothing"
BY DEF Idle

\* The handler returns and leaves the threads alone otherwise.
LEMMA HandlerReturns ==
  ASSUME TypeInv, CalmInv, threads' = [threads EXCEPT !.handler = Idle],
         threads.stopper.doing \in {"idle", "closed"}
  PROVE  AloneInv' /\ threads'.handler = Idle /\ \A th \in {"handler", "stopper"} : ~Busy(th)'
<1>1. threads'.handler = Idle /\ threads'.stopper = threads.stopper
      /\ DOMAIN threads' = {"handler", "stopper"}
  BY DEF TypeInv, ThreadInv
<1>2. /\ threads.stopper.todo = {} /\ threads.stopper.waiting = NoClient
      /\ threads.stopper.doing = "idle" => threads.stopper = Idle
  BY DEF CalmInv, AloneInv
<1>3. \A th \in {"handler", "stopper"} :
         /\ ~Busy(th)' /\ threads'[th].todo = {} /\ threads'[th].waiting = NoClient
  BY <1>1, <1>2, IdleFacts DEF Busy
<1>4. AloneInv'
  <2>1. /\ threads'.handler.doing = "idle" /\ threads'.handler.data.bad = "nothing"
        /\ threads'.stopper.doing \in {"idle", "closed"}
        /\ threads'.stopper.doing = "idle" => threads'.stopper = Idle
        /\ threads'.stopper.todo = {} /\ threads'.stopper.waiting = NoClient
    BY <1>1, <1>2, IdleFacts
  <2>2. QED
    BY <1>1, <1>3, <2>1 DEF AloneInv
<1>5. QED
  BY <1>1, <1>3, <1>4

\* The stopper has not begun while the handler is busy.
LEMMA HandlerAlone ==
  ASSUME CalmInv, Busy("handler")
  PROVE  threads.stopper.doing \in {"idle", "closed"}
BY IdleFacts DEF CalmInv, AloneInv, Busy

\* The ends of the handlers, and StopTGC.
LEMMA CalmThreadStep ==
  ASSUME Calm, TypeInv, CalmInv, TypeInv', panic = "none", UNCHANGED <<cm, events>>,
         PairsAreDeleted \/ PairsAreRestarted \/ StopTGC \/ StopTearsDown \/ StopFinishes
  PROVE  CalmInv'
<1>1. CASE PairsAreDeleted \/ PairsAreRestarted
  <2>1. /\ Done("handler") /\ Busy("handler")
        /\ UNCHANGED <<confVars, registry, panic>> /\ threads' = [threads EXCEPT !.handler = Idle]
    BY <1>1 DEF PairsAreDeleted, PairsAreRestarted, Done
  <2>2. (\A c \in Clients : Dead(c)) /\ registry = {}
    BY <2>1, DoneFacts
  <2>3. AloneInv' /\ threads'.handler = Idle /\ \A th \in {"handler", "stopper"} : ~Busy(th)'
    BY <2>1, HandlerAlone, HandlerReturns
  <2>4. config' = config
    BY <2>1 DEF confVars
  <2>5. CASE /\ threads.handler.doing = "pairing"
             /\ HandleNetBatPairingAddEvent(netPairResourceVersion, threads.handler.data)
             /\ UNCHANGED netPairResourceVersion
    <3> PICK version, data : version = netPairResourceVersion /\ data = threads.handler.data
      OBVIOUS
    <3>1. PICK slots : NewSlots(version, data, slots)
      <4>1. /\ version \in 1..MaxEvents /\ data \in Pairings
            /\ \A s \in DOMAIN ClientConnection : s.version < version
        BY <2>5, EventAssumption DEF TypeInv, StoreInv, SlotInv, ThreadInv, Threads
      <4>2. HandleNetBatPairingAddEvent(version, data)
        BY <2>5
      <4>3. QED
        BY <4>1, <4>2, PairingFacts
    <3>2. /\ netBatPairs' = slots /\ slots \subseteq Slots
          /\ \A s \in slots : s.version = version
          /\ \A s \in DOMAIN ClientConnection : ClientConnection'[s] = ClientConnection[s]
          /\ \A s \in DOMAIN ClientConnection' :
                s \in DOMAIN ClientConnection \/ ClientConnection'[s] = NoClient
          /\ \/ CreateNetBatTgenClients(slots) /\ config # NilConfig
             \/ UNCHANGED <<creations, clients>>
      BY <3>1 DEF NewSlots
    <3>3. /\ Clients \subseteq Clients' /\ \A c \in Clients : clients'[c] = clients[c]
          /\ \A c \in Clients' \ Clients :
                clients'[c] = Spawned /\ SlotOf(c) \in slots /\ c.run = creations + 1
      BY <3>2, SpawnFacts
    <3>4. LoadedInv'
      <4>1. config = NilConfig => Clients' = {}
        BY <3>2 DEF CalmInv, LoadedInv, Clients
      <4>2. cm.pairing # Absent
        BY <2>5 DEF CalmInv, LoadedInv
      <4>3. QED
        BY <2>3, <2>4, <4>1, <4>2, IdleFacts DEF CalmInv, LoadedInv
    <3>5. QED
      BY <2>1, <2>2, <2>3, <3>2, <3>3, <3>4, RespawnStep
  <2>6. CASE /\ threads.handler.doing = "delete"
             /\ netBatPairs' = {} /\ UNCHANGED <<ClientConnection, creations, clients>>
    <3>1. LoadedInv'
      BY <2>3, <2>4, <2>6, IdleFacts DEF CalmInv, LoadedInv, Clients
    <3>2. Clients' = Clients
      BY <2>6 DEF Clients
    <3>3. QED
      BY <2>1, <2>2, <2>3, <2>6, <3>1, <3>2, RespawnStep
  <2>7. CASE PairsAreRestarted
    <3>1. /\ threads.handler.doing = "restart" /\ CreateNetBatTgenClients(netBatPairs)
          /\ UNCHANGED <<netBatPairs, ClientConnection>>
          /\ netBatPairs \subseteq Slots
      BY <2>7 DEF PairsAreRestarted, pairVars, TypeInv, SlotInv
    <3>2. /\ Clients \subseteq Clients' /\ \A c \in Clients : clients'[c] = clients[c]
          /\ \A c \in Clients' \ Clients :
                clients'[c] = Spawned /\ SlotOf(c) \in netBatPairs /\ c.run = creations + 1
      BY <3>1, SpawnFacts
    <3>3. LoadedInv'
      BY <2>3, <2>4, <3>1, IdleFacts DEF CalmInv, LoadedInv
    <3>4. \A s, t \in netBatPairs : s.version = t.version
      BY DEF CalmInv, PairInv
    <3>5. QED
      BY <2>1, <2>2, <2>3, <3>1, <3>2, <3>3, <3>4, RespawnStep
  <2>8. QED
    BY <1>1, <2>5, <2>6, <2>7 DEF PairsAreDeleted
<1>2. CASE StopTGC \/ StopTearsDown
  <2>1. UNCHANGED <<ClientConnection, clients, registry, netBatPairs, creations, config, sendRate, panic>>
    BY <1>2 DEF StopTGC, StopTearsDown, pairVars, confVars, clientVars
  <2>2. PICK doing \in {"closed", "stop"}, todo \in {threads.stopper.todo, netBatPairs} :
           /\ threads' = [threads EXCEPT !.stopper.doing = doing, !.stopper.todo = todo]
           /\ \/ doing = "closed" /\ todo = threads.stopper.todo /\ threads.stopper.doing = "idle"
              \/ /\ doing = "stop" /\ todo = netBatPairs /\ threads.stopper.doing = "closed"
                 /\ Settled
    BY <1>2 DEF StopTGC, StopTearsDown, TypeInv, ThreadInv, Threads, Calm
  <2>3. /\ threads'.handler = threads.handler
        /\ threads'.stopper.doing = doing /\ threads'.stopper.todo = todo
        /\ threads'.stopper.waiting = threads.stopper.waiting
    BY <2>2 DEF TypeInv, ThreadInv, Threads
  <2>4. threads.stopper.todo = {} /\ threads.stopper.waiting = NoClient
    BY <2>2 DEF CalmInv, AloneInv
  <2>5. Busy("handler")' <=> Busy("handler")
    BY <2>3 DEF Busy
  <2>6. Clients' = Clients
    BY <2>1 DEF Clients
  <2>7. AloneInv'
    <3>1. doing = "stop" => Settled
      BY <2>2
    <3>2. ASSUME NEW th \in {"handler", "stopper"}
          PROVE  /\ threads'[th].todo \subseteq netBatPairs'
                 /\ threads'[th].waiting # NoClient =>
                       /\ clients'[threads'[th].waiting].stop
                       /\ SlotOf(threads'[th].waiting) \in netBatPairs'
                       /\ ClientConnection'[SlotOf(threads'[th].waiting)] = threads'[th].waiting
                 /\ Busy(th)' => \A c \in Clients' : clients'[c].phase \in {"ended", "launched"}
      <4>1. CASE th = "handler"
        BY <2>1, <2>3, <2>5, <2>6, <4>1 DEF CalmInv, AloneInv
      <4>2. CASE th = "stopper"
        <5>1. threads'[th].todo \subseteq netBatPairs' /\ threads'[th].waiting = NoClient
          BY <2>1, <2>2, <2>3, <2>4, <4>2
        <5>2. Busy(th)' => doing = "stop"
          BY <2>3, <4>2 DEF Busy
        <5>3. QED
          BY <2>1, <2>6, <3>1, <5>1, <5>2 DEF Settled
      <4>3. QED
        BY <4>1, <4>2
    <3>3. doing = "stop" => threads.handler = Idle
      BY <3>1 DEF Settled
    <3>4. QED
      BY <2>2, <2>3, <2>4, <3>2, <3>3 DEF CalmInv, AloneInv, SlotOf
  <2>8. RateInv' /\ LoadedInv' /\ PanicInv'
    BY <2>1, <2>3, <2>6 DEF CalmInv, RateInv, LoadedInv, PanicInv, OnlyNilPanics, Dead
  <2>9. \A th \in {"handler", "stopper"} : Busy(th)' =>
            \/ Busy(th) /\ threads'[th].todo = threads[th].todo /\ threads'[th].waiting = threads[th].waiting
            \/ threads'[th].todo = netBatPairs
    BY <2>2, <2>3, <2>5 DEF Busy
  <2>10. QED
    BY <2>1, <2>7, <2>8, <2>9, StillStep
<1>3. CASE StopFinishes
  <2>1. /\ Done("stopper") /\ Busy("stopper") /\ netBatPairs' = {}
        /\ UNCHANGED <<confVars, ClientConnection, clients, registry, panic>>
        /\ threads' = [threads EXCEPT !.stopper.doing = "stopped"]
        /\ threads.stopper.todo = {} /\ threads.stopper.waiting = NoClient
    BY <1>3 DEF StopFinishes, clientVars, Done
  <2>2. (\A c \in Clients : Dead(c)) /\ registry = {}
    BY <2>1, DoneFacts
  <2>3. threads.handler = Idle
    BY <2>1, IdleFacts DEF CalmInv, AloneInv, Busy
  <2>4. /\ threads'.handler = Idle
        /\ threads'.stopper.doing = "stopped" /\ threads'.stopper.todo = {}
        /\ threads'.stopper.waiting = NoClient
    BY <2>1, <2>3 DEF TypeInv, ThreadInv, Threads
  <2>5. \A th \in {"handler", "stopper"} :
           ~Busy(th)' /\ threads'[th].todo = {} /\ threads'[th].waiting = NoClient
    BY <2>4, IdleFacts DEF Busy
  <2>6. AloneInv'
    BY <2>4, <2>5, IdleFacts DEF AloneInv
  <2>7. Clients' = Clients /\ config' = config
    BY <2>1 DEF Clients, confVars
  <2>8. LoadedInv'
    BY <2>1, <2>4, <2>7, IdleFacts DEF CalmInv, LoadedInv
  <2>9. QED
    BY <2>1, <2>2, <2>5, <2>6, <2>7, <2>8, RespawnStep
<1>4. QED
  BY <1>1, <1>2, <1>3

-------------------------------------------------------------------------------
(* Steps of the clients *)

\* The goroutine of a client gets on with creating it, or gives up: it adds to the
\* registry what is labelled as the client is, and no thread is tearing down.
LEMMA ProgressStep ==
  ASSUME TypeInv, CalmInv, NEW c \in Clients,
         Clients' = Clients, \A d \in Clients \ {c} : clients'[d] = clients[d],
         clients[c].phase \notin {"launched", "ended"}, clients'[c].phase # "spawned",
         Life(c)', Exported(c)',
         DOMAIN ClientConnection' = DOMAIN ClientConnection,
         \A s \in DOMAIN ClientConnection \ {SlotOf(c)} : ClientConnection'[s] = ClientConnection[s],
         \/ ClientConnection'[SlotOf(c)] = c
         \/ /\ clients[c].phase = "spawned" /\ clients'[c].phase = "ended" /\ c.pair \in NoClientPairs
            /\ ClientConnection'[SlotOf(c)] = ClientConnection[SlotOf(c)]
            /\ registry' = registry,
         clients'[c].phase # "created" /\ ClientConnection'[SlotOf(c)] = c => clients'[c].labels # NoLabels,
         \/ clients'[c].labels = clients[c].labels
         \/ clients[c].labels = NoLabels /\ clients'[c].labels.rate = sendRate,
         clients[c].series \subseteq clients'[c].series,
         registry \subseteq registry',
         \A id \in registry' \ registry :
            id.labels = clients'[c].labels /\ (id.server # "notStarted" => id \in clients'[c].series),
         UNCHANGED <<cm, netBatPairs, config, sendRate, threads>>, panic' = "none"
  PROVE  CalmInv'
<1>1. ~Dead(c) /\ SlotOf(c) \in netBatPairs /\ SlotOf(c) \in DOMAIN ClientConnection
  BY DEF Dead, CalmInv, OwnerInv, TypeInv, SlotInv
<1>2. \A th \in {"handler", "stopper"} : ~Busy(th) /\ ~Busy(th)'
  BY DEF CalmInv, AloneInv, Busy
<1>3. \A d \in Clients : ~Dead(d) /\ SlotOf(d) = SlotOf(c) => d = c
  BY <1>1 DEF CalmInv, OwnerInv
<1>4. \A d \in Clients \ {c} : Dead(d)' <=> Dead(d)
  BY DEF Dead
<1>5. clients[c].phase # "spawned" => ClientConnection[SlotOf(c)] = c /\ ClientConnection'[SlotOf(c)] = c
  BY <1>1 DEF CalmInv, OwnerInv
<1>6. LifeInv'
  <2>1. \A d \in Clients \ {c} : Life(d)'
    BY DEF CalmInv, LifeInv, Life
  <2>2. QED
    BY <2>1 DEF LifeInv
<1>7. OwnerInv'
  <2>1. ASSUME NEW d \in Clients, ~Dead(d)'
        PROVE  ~Dead(d) /\ SlotOf(d) \in netBatPairs
    BY <1>1, <1>4, <2>1 DEF CalmInv, OwnerInv
  <2>2. ASSUME NEW d \in Clients, ~Dead(d)', clients'[d].phase # "spawned"
        PROVE  ClientConnection'[SlotOf(d)] = d
    <3>1. CASE d = c
      BY <2>2, <3>1 DEF Dead
    <3>2. CASE d # c
      <4>1. ~Dead(d) /\ SlotOf(d) # SlotOf(c) /\ SlotOf(d) \in netBatPairs /\ clients[d].phase # "spawned"
        BY <1>3, <2>1, <2>2, <3>2
      <4>2. ClientConnection[SlotOf(d)] = d /\ SlotOf(d) \in DOMAIN ClientConnection
        BY <4>1 DEF CalmInv, OwnerInv, TypeInv, SlotInv
      <4>3. QED
        BY <4>1, <4>2
    <3>3. QED
      BY <3>1, <3>2
  <2>3. \A d, e \in Clients : ~Dead(d)' /\ ~Dead(e)' /\ SlotOf(d) = SlotOf(e) => d = e
    BY <2>1 DEF CalmInv, OwnerInv
  <2>4. QED
    BY <2>1, <2>2, <2>3 DEF OwnerInv, SlotOf
<1>8. PairInv'
  <2>1. ASSUME NEW s \in DOMAIN ClientConnection, ClientConnection'[s] # NoClient
        PROVE  /\ clients'[ClientConnection'[s]].phase # "spawned"
               /\ clients'[ClientConnection'[s]].phase # "created" =>
                     clients'[ClientConnection'[s]].labels # NoLabels
    <3>1. CASE ClientConnection'[s] = c
      <4>1. s = SlotOf(c)
        BY <3>1 DEF TypeInv, SlotInv, ClientInv, ClientIds, NoClient
      <4>2. QED
        BY <3>1, <4>1
    <3>2. CASE ClientConnection'[s] # c
      <4>1. ClientConnection'[s] = ClientConnection[s]
        BY <3>2
      <4>2. ClientConnection[s] \in Clients
        BY <2>1, <4>1 DEF TypeInv, SlotInv
      <4>3. clients'[ClientConnection'[s]] = clients[ClientConnection[s]]
        BY <3>2, <4>1, <4>2
      <4>4. QED
        BY <2>1, <4>1, <4>3 DEF CalmInv, PairInv
    <3>3. QED
      BY <3>1, <3>2
  <2>2. ASSUME NEW d \in Clients, clients'[d].phase # "spawned", d.pair \notin NoClientPairs
        PROVE  ClientConnection'[SlotOf(d)] # NoClient
    <3>1. c # NoClient /\ SlotOf(d) \in DOMAIN ClientConnection
      BY DEF TypeInv, ClientInv, ClientIds, NoClient, SlotInv
    <3>2. CASE d = c
      BY <2>2, <3>1, <3>2
    <3>3. CASE d # c
      <4>1. ClientConnection[SlotOf(d)] # NoClient
        BY <2>2, <3>3 DEF CalmInv, PairInv
      <4>2. QED
        BY <3>1, <4>1
    <3>4. QED
      BY <3>2, <3>3
  <2>3. QED
    BY <2>1, <2>2 DEF CalmInv, PairInv, SlotOf
<1>9. AloneInv'
  <2>1. \A th \in {"handler", "stopper"} : threads[th].waiting = NoClient
    BY <1>2, IdleFacts DEF CalmInv, AloneInv, Busy
  <2>2. QED
    BY <1>2, <2>1 DEF CalmInv, AloneInv
<1>10. TornInv'
  BY <1>2 DEF TornInv
<1>11. OwnedInv'
  <2>1. ASSUME NEW id \in registry
        PROVE  \E s \in netBatPairs : OwnedBy(id, s)'
    <3>1. PICK s \in netBatPairs : OwnedBy(id, s)
      BY DEF CalmInv, OwnedInv
    <3>2. id.labels # NoLabels
      BY DEF TypeInv, RegistryInv, Ids, NoLabels
    <3>3. \A d \in Clients : SlotOf(d) = s => clients'[d].phase # "spawned"
      BY <3>1 DEF OwnedBy
    <3>4. CASE s = SlotOf(c)
      <4>1. ClientConnection[s] = c /\ ClientConnection'[s] = c
        BY <1>5, <3>1, <3>4 DEF OwnedBy
      <4>2. clients[c].labels = id.labels /\ (id.server # "notStarted" => id \in clients[c].series)
        BY <3>1, <4>1 DEF OwnedBy
      <4>3. clients'[c].labels = id.labels /\ (id.server # "notStarted" => id \in clients'[c].series)
        BY <3>2, <4>2
      <4>4. c # NoClient
        BY <3>1, <4>1 DEF OwnedBy
      <4>5. OwnedBy(id, s)'
        BY <1>2, <3>3, <4>1, <4>3, <4>4 DEF OwnedBy, SlotOf
      <4>6. QED
        BY <4>5
    <3>5. CASE s # SlotOf(c)
      <4>1. ClientConnection[s] \in Clients /\ SlotOf(ClientConnection[s]) = s
        BY <3>1, PointerFacts DEF OwnedBy
      <4>2. s \in DOMAIN ClientConnection
        BY DEF TypeInv, SlotInv
      <4>3. ClientConnection'[s] = ClientConnection[s]
            /\ clients'[ClientConnection[s]] = clients[ClientConnection[s]]
        BY <3>5, <4>1, <4>2
      <4>4. OwnedBy(id, s)'
        BY <1>2, <3>1, <3>3, <4>3 DEF OwnedBy, SlotOf
      <4>5. QED
        BY <4>4
    <3>6. QED
      BY <3>4, <3>5
  <2>2. ASSUME NEW id \in registry' \ registry
        PROVE  \E s \in netBatPairs : OwnedBy(id, s)'
    <3>1. ClientConnection'[SlotOf(c)] = c /\ c # NoClient
      BY <2>2 DEF TypeInv, ClientInv, ClientIds, NoClient
    <3>2. \A d \in Clients : SlotOf(d) = SlotOf(c) => clients'[d].phase # "spawned"
      BY <1>3 DEF Dead
    <3>3. id.labels = clients'[c].labels /\ (id.server # "notStarted" => id \in clients'[c].series)
      BY <2>2
    <3>4. OwnedBy(id, SlotOf(c))'
      BY <1>2, <3>1, <3>2, <3>3 DEF OwnedBy, SlotOf
    <3>5. PICK s : s = SlotOf(c)
      OBVIOUS
    <3>6. OwnedBy(id, s)'
      BY <3>4, <3>5 DEF OwnedBy, SlotOf
    <3>7. QED
      BY <1>1, <3>5, <3>6
  <2>3. QED
    BY <2>1, <2>2 DEF OwnedInv
<1>12. ExportInv'
  <2>1. ASSUME NEW d \in Clients \ {c}, clients[d].relabelling
        PROVE  clients[d].series \cap registry' = {}
    <3>1. ASSUME NEW id \in clients[d].series, id \in registry'
          PROVE  FALSE
      <4>1. Life(d) /\ Exported(d)
        BY DEF CalmInv, LifeInv, ExportInv
      <4>2. clients[d].phase = "launched" /\ ~Dead(d)
        BY <2>1, <4>1 DEF Life, Dead
      <4>3. SlotOf(d) \in netBatPairs /\ SlotOf(d) # SlotOf(c)
        BY <1>3, <4>2 DEF CalmInv, OwnerInv
      <4>4. id.labels = clients[d].labels /\ clients[d].labels # NoLabels
        BY <3>1, <4>1, <4>2 DEF Life, TypeInv, ClientInv, Working
      <4>5. id.labels = clients'[c].labels
        BY <2>1, <3>1, <4>1 DEF Exported
      <4>6. c.pair = d.pair
        BY <4>1, <4>4, <4>5 DEF Life
      <4>7. QED
        BY <1>1, <4>3, <4>6, SlotOfPair DEF SlotOf
    <3>2. QED
      BY <3>1
  <2>2. ASSUME NEW d \in Clients \ {c}
        PROVE  Exported(d)'
    <3>1. clients'[d] = clients[d] /\ Exported(d)
      BY DEF CalmInv, ExportInv
    <3>2. QED
      BY <2>1, <3>1 DEF Exported, NotStarted, Series
  <2>3. QED
    BY <2>2 DEF ExportInv
<1>13. RateInv'
  BY <1>1, <1>4 DEF CalmInv, RateInv
<1>14. LoadedInv' /\ PanicInv'
  BY DEF CalmInv, LoadedInv, PanicInv, OnlyNilPanics
<1>15. QED
  BY <1>6, <1>7, <1>8, <1>9, <1>10, <1>11, <1>12, <1>13, <1>14 DEF CalmInv

\* A client's goroutine creates it: its labels and series are those of no other
\* client, and it launches itself.
LEMMA CalmCreateStep ==
  ASSUME TypeInv, CalmInv, panic = "none", NEW c \in Clients, CreateClient(c), UNCHANGED <<cm, events>>
  PROVE  CalmInv'
<1>1. /\ Life(c) /\ c \in ClientIds /\ c # NoClient /\ c.pair \in Pairs
      /\ SlotOf(c) \in DOMAIN ClientConnection /\ clients[c] \in ClientRecords
      /\ clients[c].exited = 0 \/ clients[c].exited = 1
  BY DEF CalmInv, LifeInv, TypeInv, ClientInv, ClientIds, NoClient, ClientRecords
<1>2. clients[c].phase \in {"spawned", "created", "registered", "connected", "exported"}
  BY DEF CreateClient, ClientIsCreated, ClientRegisters, ClientDials, ClientExports, ClientLaunches
<1>3. /\ ~Dead(c) /\ SlotOf(c) \in netBatPairs /\ SlotOf(c).pair = c.pair /\ ~clients[c].stop
      /\ clients[c].exited = 0 /\ clients[c].launched = 0 /\ ~clients[c].relabelling
  BY <1>1, <1>2 DEF Dead, CalmInv, OwnerInv, SlotOf, Life
<1>4. clients[c].phase # "spawned" => ClientConnection[SlotOf(c)] = c
  BY <1>3 DEF CalmInv, OwnerInv
<1>5. /\ UNCHANGED <<cm, netBatPairs, config, sendRate, threads>> /\ panic' = "none"
      /\ Clients' = Clients /\ \A d \in Clients \ {c} : d # c
  BY <1>4 DEF CreateClient, ClientIsCreated, ClientRegisters, ClientDials, ClientExports, ClientLaunches,
         pairVars, confVars, Clients
<1>6. CASE ClientIsCreated(c)
  <2>1. clients[c].phase = "spawned" /\ registry' = registry
    BY <1>6 DEF ClientIsCreated
  <2>2. PICK phase \in {"created", "ended"} :
           /\ clients' = [clients EXCEPT ![c].phase = phase]
           /\ \/ phase = "created" /\ ClientConnection' = [ClientConnection EXCEPT ![SlotOf(c)] = c]
              \/ phase = "ended" /\ c.pair \in NoClientPairs /\ ClientConnection' = ClientConnection
    BY <1>6 DEF ClientIsCreated
  <2>3. /\ \A d \in Clients \ {c} : clients'[d] = clients[d]
        /\ clients'[c] = [clients[c] EXCEPT !.phase = phase]
    BY <2>2 DEF Clients
  <2>4. /\ clients'[c].phase = phase /\ clients'[c].labels = clients[c].labels
        /\ clients'[c].connected = clients[c].connected /\ clients'[c].series = clients[c].series
        /\ clients'[c].stop = clients[c].stop /\ clients'[c].launched = clients[c].launched
        /\ clients'[c].exited = clients[c].exited /\ clients'[c].server = clients[c].server
        /\ clients'[c].relabelling = clients[c].relabelling
    BY <1>1, <2>3 DEF ClientRecords
  <2>5. Life(c)' /\ Exported(c)'
    BY <1>1, <2>1, <2>4 DEF Life, Exported, Working
  <2>6. /\ DOMAIN ClientConnection' = DOMAIN ClientConnection
        /\ \A s \in DOMAIN ClientConnection \ {SlotOf(c)} : ClientConnection'[s] = ClientConnection[s]
        /\ \/ ClientConnection'[SlotOf(c)] = c /\ phase = "created"
           \/ /\ phase = "ended" /\ c.pair \in NoClientPairs
              /\ ClientConnection'[SlotOf(c)] = ClientConnection[SlotOf(c)]
    BY <1>1, <2>2
  <2>7. ClientConnection[SlotOf(c)] # c
    BY <1>1, <2>1 DEF CalmInv, PairInv
  <2>8. QED
    BY <1>5, <2>1, <2>3, <2>4, <2>5, <2>6, <2>7, ProgressStep
<1>7. CASE ClientRegisters(c)
  <2> PICK labels, id : labels = [pair |-> c.pair, rate |-> sendRate]
                        /\ id = [labels |-> labels, server |-> "notStarted"]
    OBVIOUS
  <2>1. /\ clients[c].phase = "created" /\ ClientConnection' = ClientConnection
        /\ clients' = [clients EXCEPT ![c].labels = labels,
                          ![c].phase = IF id \in registry THEN "ended" ELSE "registered"]
        /\ registry' = registry \cup {id}
    BY <1>7 DEF ClientRegisters
  <2>2. /\ labels # NoLabels /\ labels.pair = c.pair /\ labels.rate = sendRate
        /\ id.labels = labels /\ id.server = "notStarted" /\ clients[c].labels = NoLabels
        /\ clients[c].series = {}
    BY <1>1, <2>1 DEF NoLabels, Life
  <2>3. id \notin registry
    <3>1. ASSUME id \in registry
          PROVE  FALSE
      <4>1. OwnedBy(id, SlotOf(c))
        BY <1>3, <2>2, <3>1, OwnerOf
      <4>2. QED
        BY <1>4, <2>1, <2>2, <4>1 DEF OwnedBy
    <3>2. QED
      BY <3>1
  <2>4. /\ \A d \in Clients \ {c} : clients'[d] = clients[d]
        /\ clients'[c] = [clients[c] EXCEPT !.labels = labels, !.phase = "registered"]
    BY <2>1, <2>3 DEF Clients
  <2>5. /\ clients'[c].phase = "registered" /\ clients'[c].labels = labels
        /\ clients'[c].connected = clients[c].connected /\ clients'[c].series = clients[c].series
        /\ clients'[c].stop = clients[c].stop /\ clients'[c].launched = clients[c].launched
        /\ clients'[c].exited = clients[c].exited /\ clients'[c].server = clients[c].server
        /\ clients'[c].relabelling = clients[c].relabelling
    BY <1>1, <2>4 DEF ClientRecords
  <2>6. Life(c)'
    BY <1>1, <2>1, <2>2, <2>5 DEF Life
  <2>7. Exported(c)'
    <3>1. id = [labels |-> clients'[c].labels, server |-> "notStarted"]
      BY <2>5
    <3>2. id \in registry'
      BY <2>1
    <3>3. NotStarted(c)' \in registry'
      BY <3>1, <3>2, Zenon DEF NotStarted
    <3>4. ~clients'[c].relabelling
      BY <1>3, <2>5
    <3>5. QED
      BY <2>5, <3>3, <3>4 DEF Exported
  <2>8. QED
    BY <1>4, <1>5, <2>1, <2>2, <2>4, <2>5, <2>6, <2>7, ProgressStep
<1>8. CASE ClientDials(c)
  <2>1. /\ clients[c].phase = "registered" /\ ClientConnection' = ClientConnection
        /\ registry' = registry
    BY <1>8 DEF ClientDials
  <2>2. PICK phase \in {"connected", "ended"}, connected \in BOOLEAN :
           /\ clients'[c] = [clients[c] EXCEPT !.phase = phase, !.connected = connected]
           /\ \A d \in Clients \ {c} : clients'[d] = clients[d]
           /\ connected <=> phase = "connected"
    <3>1. ~clients[c].connected /\ clients[c].connected \in BOOLEAN
      BY <1>1, <2>1 DEF Life, ClientRecords
    <3>2. CASE clients' = [clients EXCEPT ![c].phase = "ended"]
      <4>1. clients[c] = [clients[c] EXCEPT !.connected = FALSE]
        BY <1>1, <3>1 DEF ClientRecords
      <4>2. clients'[c] = [clients[c] EXCEPT !.phase = "ended"]
        BY <3>2 DEF Clients
      <4>3. clients'[c] = [clients[c] EXCEPT !.phase = "ended", !.connected = FALSE]
        BY <1>1, <4>1, <4>2 DEF ClientRecords
      <4>4. \A d \in Clients \ {c} : clients'[d] = clients[d]
        BY <3>2 DEF Clients
      <4>5. QED
        BY <4>3, <4>4
    <3>3. CASE clients' = [clients EXCEPT ![c].phase = "connected", ![c].connected = TRUE]
      BY <3>3 DEF Clients
    <3>4. QED
      BY <1>8, <3>2, <3>3 DEF ClientDials
  <2>3. /\ clients'[c].phase = phase /\ clients'[c].labels = clients[c].labels
        /\ clients'[c].connected = connected /\ clients'[c].series = clients[c].series
        /\ clients'[c].stop = clients[c].stop /\ clients'[c].launched = clients[c].launched
        /\ clients'[c].exited = clients[c].exited /\ clients'[c].server = clients[c].server
        /\ clients'[c].relabelling = clients[c].relabelling
    BY <1>1, <2>2 DEF ClientRecords
  <2>4. Life(c)'
    BY <1>1, <2>1, <2>2, <2>3 DEF Life
  <2>5. Exported(c)'
    BY <2>1, <2>2, <2>3 DEF Exported, NotStarted, CalmInv, ExportInv, Working
  <2>6. clients[c].labels # NoLabels
    BY <2>1 DEF TypeInv, ClientInv, Working
  <2>7. QED
    BY <1>4, <1>5, <2>1, <2>2, <2>3, <2>4, <2>5, <2>6, ProgressStep
<1>9. CASE ClientExports(c)
  <2> PICK id : id = [labels |-> clients[c].labels, server |-> "none"]
    OBVIOUS
  <2>1. /\ clients[c].phase = "connected" /\ ClientConnection' = ClientConnection
        /\ IF id \in registry
           THEN clients' = [clients EXCEPT ![c].phase = "ended"] /\ UNCHANGED registry
           ELSE /\ clients' = [clients EXCEPT ![c].phase = "exported", ![c].series = {id}]
                /\ registry' = registry \cup {id}
    BY <1>9 DEF ClientExports, Series
  <2>2. /\ clients[c].labels # NoLabels /\ clients[c].labels.pair = c.pair
        /\ id.labels = clients[c].labels /\ id.server = "none" /\ clients[c].series = {}
    BY <1>1, <2>1 DEF Life, TypeInv, ClientInv, Working
  <2>3. id \notin registry
    <3>1. ASSUME id \in registry
          PROVE  FALSE
      <4>1. OwnedBy(id, SlotOf(c))
        BY <1>3, <2>2, <3>1, OwnerOf
      <4>2. QED
        BY <1>4, <2>1, <2>2, <4>1 DEF OwnedBy
    <3>2. QED
      BY <3>1
  <2>4. /\ \A d \in Clients \ {c} : clients'[d] = clients[d]
        /\ clients'[c] = [clients[c] EXCEPT !.phase = "exported", !.series = {id}]
        /\ registry' = registry \cup {id}
    BY <2>1, <2>3 DEF Clients
  <2>5. /\ clients'[c].phase = "exported" /\ clients'[c].labels = clients[c].labels
        /\ clients'[c].connected = clients[c].connected /\ clients'[c].series = {id}
        /\ clients'[c].stop = clients[c].stop /\ clients'[c].launched = clients[c].launched
        /\ clients'[c].exited = clients[c].exited /\ clients'[c].server = clients[c].server
        /\ clients'[c].relabelling = clients[c].relabelling
    BY <1>1, <2>4 DEF ClientRecords
  <2>6. Life(c)'
    BY <1>1, <2>1, <2>2, <2>5 DEF Life
  <2>7. clients[c].server = "none"
    BY <1>1, <2>1 DEF Life
  <2>8. Exported(c)'
    <3>1. [labels |-> clients'[c].labels, server |-> "notStarted"] \in registry'
      BY <1>3, <2>1, <2>4, <2>5 DEF Exported, NotStarted, CalmInv, ExportInv, Working
    <3>2. id = [labels |-> clients'[c].labels, server |-> clients'[c].server] /\ id \in registry'
      BY <2>4, <2>5, <2>7
    <3>3. [labels |-> clients'[c].labels, server |-> clients'[c].server] \in registry'
      BY <3>2, Zenon
    <3>4. ~clients'[c].relabelling
      BY <1>3, <2>5
    <3>5. QED
      BY <3>1, <3>3, <3>4, Zenon DEF Exported, NotStarted, Series
  <2>9. QED
    BY <1>4, <1>5, <2>1, <2>2, <2>4, <2>5, <2>6, <2>8, ProgressStep
<1>10. CASE ClientLaunches(c)
  <2>1. /\ clients[c].phase = "exported" /\ ClientConnection' = ClientConnection
        /\ registry' = registry /\ ClientConnection[SlotOf(c)] = c
        /\ clients' = [clients EXCEPT ![c].phase = "launched", ![c].launched = @ + 1]
    BY <1>4, <1>10 DEF ClientLaunches
  <2>2. /\ \A d \in Clients \ {c} : clients'[d] = clients[d]
        /\ clients'[c] = [clients[c] EXCEPT !.phase = "launched", !.launched = 1]
    BY <1>1, <1>3, <2>1 DEF Clients, ClientRecords
  <2>3. /\ clients'[c].phase = "launched" /\ clients'[c].labels = clients[c].labels
        /\ clients'[c].connected = clients[c].connected /\ clients'[c].series = clients[c].series
        /\ clients'[c].stop = clients[c].stop /\ clients'[c].launched = 1
        /\ clients'[c].exited = clients[c].exited /\ clients'[c].server = clients[c].server
        /\ clients'[c].relabelling = clients[c].relabelling
    BY <1>1, <2>2 DEF ClientRecords
  <2>4. Life(c)'
    BY <1>1, <2>1, <2>3 DEF Life
  <2>5. Exported(c)'
    <3>1. /\ [labels |-> clients[c].labels, server |-> "notStarted"] \in registry
          /\ [labels |-> clients[c].labels, server |-> clients[c].server] \in registry
      <4>1. Exported(c)
        BY DEF CalmInv, ExportInv
      <4>2. QED
        BY <1>3, <2>1, <4>1, Zenon DEF Exported, NotStarted, Series, Working
    <3>2. /\ NotStarted(c)' \in registry'
          /\ [labels |-> clients'[c].labels, server |-> clients'[c].server] \in registry'
      <4>1. registry' = registry /\ clients'[c].labels = clients[c].labels /\ clients'[c].server = clients[c].server
        BY <2>1, <2>3
      <4>2. QED
        BY <3>1, <4>1, Zenon DEF NotStarted
    <3>3. ~clients'[c].relabelling
      BY <1>3, <2>3
    <3>4. QED
      BY <3>2, <3>3, Zenon DEF Exported, Series
  <2>6. clients[c].labels # NoLabels
    BY <2>1 DEF TypeInv, ClientInv, Working
  <2>7. QED
    BY <1>5, <2>1, <2>2, <2>3, <2>4, <2>5, <2>6, ProgressStep
<1>11. QED
  BY <1>6, <1>7, <1>8, <1>9, <1>10 DEF CreateClient

\* A step that leaves slots and config alone and changes of a client no more than
\* its server, its series and whether it was stopped.
LEMMA LaunchedStep ==
  ASSUME TypeInv, CalmInv, NEW c \in Clients, Clients' = Clients,
         \A d \in Clients \ {c} : clients'[d] = clients[d],
         clients'[c].phase = clients[c].phase, clients'[c].labels = clients[c].labels,
         Life(c)', Dead(c) => Dead(c)',
         UNCHANGED <<cm, netBatPairs, ClientConnection, config, sendRate>>, panic' = "none",
         threads'.handler.doing = threads.handler.doing
  PROVE  /\ LifeInv' /\ OwnerInv' /\ PairInv' /\ LoadedInv' /\ PanicInv'
         /\ (threads'.handler = Idle => threads.handler = Idle) => RateInv'
         /\ \A d \in Clients : ~Dead(d)' => ~Dead(d)
         /\ \A d \in Clients : clients'[d].phase = clients[d].phase /\ clients'[d].labels = clients[d].labels
<1>1. \A d \in Clients : Dead(d) => Dead(d)'
  BY DEF Dead
<1>2. \A d \in Clients : clients'[d].phase = clients[d].phase /\ clients'[d].labels = clients[d].labels
  OBVIOUS
<1>3. LifeInv'
  <2>1. \A d \in Clients \ {c} : Life(d)'
    BY DEF CalmInv, LifeInv, Life
  <2>2. QED
    BY <2>1 DEF LifeInv
<1>4. OwnerInv'
  BY <1>1, <1>2 DEF CalmInv, OwnerInv, SlotOf
<1>5. PairInv'
  <2>1. \A slot \in DOMAIN ClientConnection : ClientConnection[slot] # NoClient =>
           ClientConnection[slot] \in Clients
    BY DEF TypeInv, SlotInv
  <2>2. QED
    BY <1>2, <2>1 DEF CalmInv, PairInv, SlotOf
<1>6. LoadedInv' /\ PanicInv'
  BY DEF CalmInv, LoadedInv, PanicInv, OnlyNilPanics
<1>7. (threads'.handler = Idle => threads.handler = Idle) => RateInv'
  BY <1>1, <1>2 DEF CalmInv, RateInv
<1>8. QED
  BY <1>1, <1>2, <1>3, <1>4, <1>5, <1>6, <1>7

\* A client that runs replaces its series: it takes out what it registered, or puts
\* in what is labelled as it is.
LEMMA RelabelStep ==
  ASSUME TypeInv, CalmInv, NEW c \in Clients, Running(c),
         Clients' = Clients, \A d \in Clients \ {c} : clients'[d] = clients[d],
         clients'[c].phase = clients[c].phase, clients'[c].labels = clients[c].labels,
         clients'[c].stop = clients[c].stop, clients[c].series \subseteq clients'[c].series,
         Life(c)', Exported(c)', ~Dead(c)',
         \A id \in registry' \ registry :
            id.labels = clients[c].labels /\ id \in clients'[c].series /\ id.server # "notStarted",
         \A id \in registry \ registry' : id \in clients[c].series,
         UNCHANGED <<cm, netBatPairs, ClientConnection, config, sendRate, threads>>, panic' = "none"
  PROVE  CalmInv'
<1>1. /\ clients[c].phase = "launched" /\ clients[c].exited = 0 /\ ~Dead(c)
      /\ SlotOf(c) \in netBatPairs /\ ClientConnection[SlotOf(c)] = c
      /\ clients[c].series # {} /\ clients[c].labels # NoLabels
  BY RunningFacts
<1>2. Life(c) /\ c # NoClient
  BY DEF CalmInv, LifeInv, TypeInv, ClientInv, ClientIds, NoClient
<1>3. /\ LifeInv' /\ OwnerInv' /\ PairInv' /\ LoadedInv' /\ PanicInv' /\ RateInv'
      /\ \A d \in Clients : ~Dead(d)' => ~Dead(d)
  BY <1>1, LaunchedStep
<1>4. \A d \in Clients : /\ clients'[d].phase = clients[d].phase /\ clients'[d].labels = clients[d].labels
                         /\ clients[d].series \subseteq clients'[d].series /\ clients'[d].stop = clients[d].stop
  OBVIOUS
<1>5. \A th \in {"handler", "stopper"} : Busy(th)' <=> Busy(th)
  BY DEF Busy
<1>6. AloneInv'
  <2>1. \A th \in {"handler", "stopper"} : threads[th].waiting # NoClient =>
           clients'[threads[th].waiting].stop = clients[threads[th].waiting].stop
    BY <1>4 DEF TypeInv, ThreadInv
  <2>2. \A d \in Clients : clients'[d].phase = clients[d].phase
    BY <1>4
  <2>3. QED
    BY <1>5, <2>1, <2>2 DEF CalmInv, AloneInv, SlotOf
<1>7. TornInv'
  BY <1>3, <1>5 DEF CalmInv, TornInv, SlotOf
<1>8. OwnedInv'
  <2>1. ASSUME NEW id \in registry
        PROVE  \E slot \in netBatPairs : OwnedBy(id, slot)'
    <3>1. PICK slot \in netBatPairs : OwnedBy(id, slot)
      BY DEF CalmInv, OwnedInv
    <3>2. ClientConnection[slot] \in Clients
      BY <3>1, PointerFacts DEF OwnedBy
    <3>3. OwnedBy(id, slot)'
      BY <1>4, <1>5, <3>1, <3>2 DEF OwnedBy, SlotOf
    <3>4. QED
      BY <3>3
  <2>2. ASSUME NEW id \in registry' \ registry
        PROVE  \E slot \in netBatPairs : OwnedBy(id, slot)'
    <3>1. PICK slot \in netBatPairs : slot = SlotOf(c)
      BY <1>1
    <3>2. /\ ClientConnection'[slot] = c /\ clients'[c].labels = id.labels /\ id \in clients'[c].series
          /\ c # NoClient /\ id.server # "notStarted"
      BY <1>1, <1>2, <2>2, <3>1
    <3>3. \A d \in Clients : SlotOf(d) = slot => clients'[d].phase # "spawned"
      BY <1>1, <1>4, <3>1 DEF CalmInv, OwnerInv, Dead
    <3>4. \A th \in {"handler", "stopper"} : Busy(th)' =>
             slot \in threads'[th].todo \/ threads'[th].waiting = c
      BY <1>1, <1>5, <3>1 DEF CalmInv, TornInv
    <3>5. OwnedBy(id, slot)'
      BY <3>2, <3>3, <3>4 DEF OwnedBy, SlotOf
    <3>6. QED
      BY <3>5
  <2>3. QED
    BY <2>1, <2>2 DEF OwnedInv
<1>9. ExportInv'
  <2>1. ASSUME NEW d \in Clients, d # c,
               (clients[d].phase = "launched" /\ ~Dead(d)) \/ clients[d].phase = "exported"
        PROVE  clients[d].labels # clients[c].labels
    <3>1. ~Dead(d) /\ SlotOf(d) \in netBatPairs
      BY <2>1 DEF Dead, CalmInv, OwnerInv
    <3>2. SlotOf(d) # SlotOf(c)
      BY <1>1, <2>1, <3>1 DEF CalmInv, OwnerInv
    <3>3. QED
      BY <1>1, <3>1, <3>2, LabelsDiffer
  <2>2. ASSUME NEW d \in Clients, d # c
        PROVE  Exported(d)'
    <3>1. clients'[d] = clients[d] /\ Exported(d) /\ Life(d)
      BY <2>2 DEF CalmInv, ExportInv, LifeInv
    <3>2. NotStarted(d) \in registry => NotStarted(d) \in registry'
      <4>1. NotStarted(d).server = "notStarted"
        BY DEF NotStarted
      <4>2. QED
        BY <1>2, <4>1 DEF Life
    <3>3. ASSUME clients[d].phase \in {"exported", "launched"}, ~clients[d].stop, ~clients[d].relabelling
          PROVE  Series(d, clients[d].server) \in registry'
      <4>1. /\ Series(d, clients[d].server) \in registry
            /\ Series(d, clients[d].server).labels = clients[d].labels
        BY <3>1, <3>3 DEF Exported, Series
      <4>2. clients[d].labels # clients[c].labels
        BY <2>1, <2>2, <3>3 DEF Dead
      <4>3. QED
        BY <1>2, <4>1, <4>2 DEF Life
    <3>4. ASSUME clients[d].relabelling
          PROVE  clients[d].series \cap registry' = {}
      <4>1. clients[d].phase = "launched" /\ ~Dead(d)
        BY <3>1, <3>4 DEF Life, Dead
      <4>2. clients[d].labels # clients[c].labels
        BY <2>1, <2>2, <4>1
      <4>3. ASSUME NEW id \in clients[d].series, id \in registry'
            PROVE  FALSE
        <5>1. id.labels = clients[d].labels
          BY <3>1, <4>3 DEF Life
        <5>2. id \notin registry
          BY <3>1, <3>4, <4>3 DEF Exported
        <5>3. QED
          BY <4>2, <4>3, <5>1, <5>2
      <4>4. QED
        BY <4>3
    <3>5. NotStarted(d)' = NotStarted(d) /\ Series(d, clients[d].server)' = Series(d, clients[d].server)
      BY <3>1 DEF NotStarted, Series
    <3>6. QED
      BY <3>1, <3>2, <3>3, <3>4, <3>5 DEF Exported, NotStarted, Series
  <2>3. QED
    BY <2>2 DEF ExportInv
<1>10. QED
  BY <1>3, <1>6, <1>7, <1>8, <1>9 DEF CalmInv

\* A running client exits once and never runs into a label of another one.
LEMMA CalmRunStep ==
  ASSUME TypeInv, CalmInv, panic = "none", NEW c \in Clients, NEW server,
         \/ server \in Servers /\ ClientRelabels(c, server)
         \/ ClientReRegisters(c) \/ ClientHasNoCounters(c) \/ ClientExits(c),
         UNCHANGED <<cm, events>>
  PROVE  CalmInv'
<1>1. Running(c)
  <2>1. CASE ClientReRegisters(c)
    <3>1. clients[c].phase = "launched" /\ clients[c].exited = 0 /\ clients[c].launched = 1
      BY <2>1 DEF ClientReRegisters, CalmInv, LifeInv, Life
    <3>2. QED
      BY <3>1 DEF Running
  <2>2. QED
    BY <2>1 DEF ClientRelabels, ClientHasNoCounters, ClientExits
<1>2. /\ clients[c].phase = "launched" /\ clients[c].exited = 0 /\ ~Dead(c)
      /\ SlotOf(c) \in netBatPairs /\ ClientConnection[SlotOf(c)] = c
      /\ clients[c].series # {} /\ clients[c].labels # NoLabels
  BY <1>1, RunningFacts
<1>3. /\ Life(c) /\ clients[c] \in ClientRecords /\ c # NoClient /\ SlotOf(c).pair = c.pair
  <2>1. Life(c) /\ clients[c] \in ClientRecords /\ SlotOf(c).pair = c.pair
    BY DEF CalmInv, LifeInv, TypeInv, ClientInv, SlotOf
  <2>2. c # NoClient
    BY DEF TypeInv, ClientInv, ClientIds, NoClient
  <2>3. QED
    BY <2>1, <2>2
<1>4. CASE ClientExits(c)
  <2>1. /\ clients[c].stop /\ ~clients[c].relabelling
        /\ clients' = [clients EXCEPT ![c].exited = Signal(c)]
        /\ UNCHANGED <<netBatPairs, ClientConnection, config, sendRate, registry, threads, panic>>
    BY <1>2, <1>4 DEF ClientExits, pairVars, confVars
  <2>2. Clients' = Clients /\ (\A d \in Clients \ {c} : clients'[d] = clients[d])
        /\ clients'[c] = [clients[c] EXCEPT !.exited = 1]
    BY <1>2, <2>1 DEF Clients, Signal
  <2>3. /\ clients'[c].phase = "launched" /\ clients'[c].labels = clients[c].labels
        /\ clients'[c].connected = clients[c].connected /\ clients'[c].series = clients[c].series
        /\ clients'[c].stop = clients[c].stop /\ clients'[c].launched = clients[c].launched
        /\ clients'[c].exited = 1 /\ clients'[c].server = clients[c].server
        /\ clients'[c].relabelling = clients[c].relabelling
    BY <1>2, <1>3, <2>2 DEF ClientRecords
  <2>4. Life(c)' /\ Dead(c)'
    BY <1>2, <1>3, <2>1, <2>3 DEF Life, Dead
  <2>5. /\ LifeInv' /\ OwnerInv' /\ PairInv' /\ LoadedInv' /\ PanicInv' /\ RateInv'
        /\ \A d \in Clients : ~Dead(d)' => ~Dead(d)
    BY <1>2, <2>1, <2>2, <2>3, <2>4, LaunchedStep
  <2>6. \A d \in Clients : /\ clients'[d].phase = clients[d].phase /\ clients'[d].labels = clients[d].labels
                           /\ clients'[d].series = clients[d].series /\ clients'[d].stop = clients[d].stop
                           /\ clients'[d].server = clients[d].server
                           /\ clients'[d].relabelling = clients[d].relabelling
    BY <1>2, <2>2, <2>3
  <2>7. \A th \in {"handler", "stopper"} : Busy(th)' <=> Busy(th)
    BY <2>1 DEF Busy
  <2>8. AloneInv'
    BY <2>1, <2>2, <2>6, <2>7 DEF CalmInv, AloneInv, SlotOf, TypeInv, ThreadInv
  <2>9. TornInv'
    BY <2>1, <2>2, <2>5, <2>7 DEF CalmInv, TornInv, SlotOf
  <2>10. OwnedInv'
    <3>1. ASSUME NEW id \in registry
          PROVE  \E slot \in netBatPairs : OwnedBy(id, slot)'
      <4>1. PICK slot \in netBatPairs : OwnedBy(id, slot)
        BY DEF CalmInv, OwnedInv
      <4>2. ClientConnection[slot] \in Clients
        BY <4>1, PointerFacts DEF OwnedBy
      <4>3. OwnedBy(id, slot)'
        BY <2>1, <2>2, <2>6, <2>7, <4>1, <4>2 DEF OwnedBy, SlotOf
      <4>4. QED
        BY <4>3
    <3>2. QED
      BY <2>1, <3>1 DEF OwnedInv
  <2>11. ExportInv'
    BY <2>1, <2>2, <2>6 DEF CalmInv, ExportInv, Exported, NotStarted, Series
  <2>12. QED
    BY <2>5, <2>8, <2>9, <2>10, <2>11 DEF CalmInv
<1>5. ~clients[c].stop => [labels |-> clients[c].labels, server |-> "notStarted"] \in registry \ clients[c].series
  <2> PICK own : own = [labels |-> clients[c].labels, server |-> "notStarted"]
    OBVIOUS
  <2>1. ~clients[c].stop => own \in registry
    BY <1>2 DEF CalmInv, ExportInv, Exported, NotStarted, Working
  <2>2. own \notin clients[c].series
    BY <1>3 DEF Life
  <2>3. QED
    BY <2>1, <2>2
<1>6. CASE server \in Servers /\ ClientRelabels(c, server)
  <2>1. /\ registry' = registry \ clients[c].series
        /\ clients' = [clients EXCEPT ![c].server = server, ![c].relabelling = TRUE]
        /\ UNCHANGED <<netBatPairs, ClientConnection, config, sendRate, threads, panic>>
    BY <1>6 DEF ClientRelabels, DeRegister, pairVars, confVars
  <2>2. Clients' = Clients /\ (\A d \in Clients \ {c} : clients'[d] = clients[d])
        /\ clients'[c] = [clients[c] EXCEPT !.server = server, !.relabelling = TRUE]
    BY <2>1 DEF Clients
  <2>3. /\ clients'[c].phase = clients[c].phase /\ clients'[c].labels = clients[c].labels
        /\ clients'[c].connected = clients[c].connected /\ clients'[c].series = clients[c].series
        /\ clients'[c].stop = clients[c].stop /\ clients'[c].launched = clients[c].launched
        /\ clients'[c].exited = clients[c].exited /\ clients'[c].server = server
        /\ clients'[c].relabelling = TRUE
    BY <1>3, <2>2 DEF ClientRecords
  <2>4. Life(c)' /\ ~Dead(c)'
    BY <1>2, <1>3, <2>3 DEF Life, Dead
  <2>5. Exported(c)'
    <3>1. ~clients'[c].stop => [labels |-> clients'[c].labels, server |-> "notStarted"] \in registry'
      BY <1>5, <2>1, <2>3
    <3>2. clients'[c].series \cap registry' = {}
      BY <2>1, <2>3
    <3>3. QED
      BY <2>3, <3>1, <3>2, Zenon DEF Exported, NotStarted
  <2>6. QED
    BY <1>1, <2>1, <2>2, <2>3, <2>4, <2>5, RelabelStep
<1>7. CASE ClientReRegisters(c)
  <2> PICK id : id = [labels |-> clients[c].labels, server |-> clients[c].server]
    OBVIOUS
  <2>1. /\ id.labels = clients[c].labels /\ id.server = clients[c].server
        /\ clients[c].labels.pair = c.pair
    BY <1>2, <1>3 DEF Life
  <2>2. id.server # "notStarted" /\ clients[c].relabelling
    BY <1>3, <1>7, <2>1, LabelAssumption DEF ClientRecords, ClientReRegisters
  <2>3. id \notin registry
    <3>1. ASSUME id \in registry
          PROVE  FALSE
      <4>1. OwnedBy(id, SlotOf(c))
        BY <1>2, <1>3, <2>1, <3>1, OwnerOf
      <4>2. id \in clients[c].series
        BY <1>2, <2>2, <4>1 DEF OwnedBy
      <4>3. QED
        BY <2>2, <3>1, <4>2 DEF CalmInv, ExportInv, Exported
    <3>2. QED
      BY <3>1
  <2>4. /\ registry' = registry \cup {id}
        /\ clients' = [clients EXCEPT ![c].series = @ \cup {id}, ![c].relabelling = FALSE]
        /\ UNCHANGED <<netBatPairs, ClientConnection, config, sendRate, threads, panic>>
    BY <1>7, <2>3 DEF ClientReRegisters, Registered, Series, pairVars, confVars
  <2>5. Clients' = Clients /\ (\A d \in Clients \ {c} : clients'[d] = clients[d])
        /\ clients'[c] = [clients[c] EXCEPT !.series = @ \cup {id}, !.relabelling = FALSE]
    BY <2>4 DEF Clients
  <2>6. /\ clients'[c].phase = clients[c].phase /\ clients'[c].labels = clients[c].labels
        /\ clients'[c].connected = clients[c].connected /\ clients'[c].series = clients[c].series \cup {id}
        /\ clients'[c].stop = clients[c].stop /\ clients'[c].launched = clients[c].launched
        /\ clients'[c].exited = clients[c].exited /\ clients'[c].server = clients[c].server
        /\ clients'[c].relabelling = FALSE
    BY <1>3, <2>5 DEF ClientRecords
  <2>7. Life(c)' /\ ~Dead(c)'
    BY <1>2, <1>3, <2>1, <2>2, <2>6 DEF Life, Dead
  <2>8. Exported(c)'
    <3>1. ~clients'[c].stop => [labels |-> clients'[c].labels, server |-> "notStarted"] \in registry'
      <4>1. registry \subseteq registry'
        BY <2>4
      <4>2. ~clients[c].stop => [labels |-> clients[c].labels, server |-> "notStarted"] \in registry'
        BY <1>5, <4>1
      <4>3. QED
        BY <2>6, <4>2, Zenon
    <3>2. id = [labels |-> clients'[c].labels, server |-> clients'[c].server]
      BY <2>6
    <3>3. id \in registry'
      BY <2>4
    <3>4. [labels |-> clients'[c].labels, server |-> clients'[c].server] \in registry'
      BY <3>2, <3>3, Zenon
    <3>5. QED
      BY <2>6, <3>1, <3>4, Zenon DEF Exported, NotStarted, Series
  <2>9. QED
    BY <1>1, <2>1, <2>2, <2>4, <2>5, <2>6, <2>7, <2>8, RelabelStep
<1>8. CASE ClientHasNoCounters(c)
  BY <1>2, <1>8 DEF ClientHasNoCounters
<1>9. QED
  BY <1>4, <1>6, <1>7, <1>8

-------------------------------------------------------------------------------
(* Tearing down *)

\* A panic leaves everything as it is.
LEMMA CalmPanic ==
  ASSUME TypeInv, CalmInv, NEW cause, Panic(cause), LoadedInv', PanicInv'
  PROVE  CalmInv'
<1>1. UNCHANGED <<ClientConnection, clients, registry, netBatPairs, threads, sendRate>>
  BY DEF Panic, pairVars, confVars, clientVars
<1>2. Clients' = Clients
  BY <1>1 DEF Clients
<1>3. \A th \in {"handler", "stopper"} : Busy(th)' <=> Busy(th)
  BY <1>1 DEF Busy
<1>4. AloneInv' /\ RateInv'
  BY <1>1, <1>2, <1>3 DEF CalmInv, AloneInv, RateInv, SlotOf, Dead
<1>5. QED
  BY <1>1, <1>3, <1>4, StillStep

\* One thread is busy at a time.
LEMMA BusyAlone ==
  ASSUME CalmInv, NEW th \in {"handler", "stopper"}, Busy(th)
  PROVE  /\ \A o \in {"handler", "stopper"} \ {th} : ~Busy(o)
         /\ th = "stopper" => threads.stopper.doing = "stop"
         /\ th = "handler" => threads.stopper.doing \in {"idle", "closed"}
<1>1. threads.stopper.doing \in {"idle", "closed", "stop", "stopped"}
      /\ (threads.stopper.doing = "stop" => threads.handler.doing = "idle")
  BY IdleFacts DEF CalmInv, AloneInv
<1>2. CASE th = "handler"
  BY <1>1, <1>2, HandlerAlone DEF Busy
<1>3. CASE th = "stopper"
  BY <1>1, <1>3 DEF Busy
<1>4. QED
  BY <1>2, <1>3

\* The current client of a slot is the one that is not dead.
LEMMA NotDead ==
  ASSUME TypeInv, CalmInv, NEW th \in {"handler", "stopper"}, Busy(th), NEW d \in Clients, ~Dead(d)
  PROVE  /\ clients[d].phase = "launched" /\ SlotOf(d) \in netBatPairs /\ ClientConnection[SlotOf(d)] = d
<1>1. clients[d].phase \in {"ended", "launched"}
  BY DEF CalmInv, AloneInv
<1>2. clients[d].phase = "launched"
  BY <1>1 DEF Dead
<1>3. QED
  BY <1>2 DEF CalmInv, OwnerInv

\* A busy thread gets on; the slots it has to do become fewer.
LEMMA BusyStep ==
  ASSUME TypeInv, CalmInv, NEW th \in {"handler", "stopper"}, Busy(th), Clients' = Clients,
         DOMAIN threads' = {"handler", "stopper"},
         \A o \in {"handler", "stopper"} \ {th} : threads'[o] = threads[o],
         threads'[th].doing = threads[th].doing, threads'[th].data = threads[th].data,
         threads'[th].todo \subseteq threads[th].todo,
         \/ threads'[th].waiting = NoClient
         \/ /\ clients'[threads'[th].waiting].stop /\ SlotOf(threads'[th].waiting) \in netBatPairs
            /\ ClientConnection[SlotOf(threads'[th].waiting)] = threads'[th].waiting,
         \A d \in Clients : clients'[d].phase = clients[d].phase,
         UNCHANGED <<ClientConnection, netBatPairs>>
  PROVE  /\ AloneInv' /\ threads'.handler.doing = threads.handler.doing
         /\ threads'.handler = Idle => threads.handler = Idle
         /\ Busy(th)' /\ \A o \in {"handler", "stopper"} : Busy(o)' => o = th
<1>1. \A o \in {"handler", "stopper"} : threads'[o].doing = threads[o].doing /\ threads'[o].data = threads[o].data
  OBVIOUS
<1>2. \A o \in {"handler", "stopper"} : Busy(o)' <=> Busy(o)
  BY <1>1 DEF Busy
<1>3. \A o \in {"handler", "stopper"} \ {th} : ~Busy(o) /\ threads[o].waiting = NoClient
  <2>1. \A o \in {"handler", "stopper"} \ {th} : ~Busy(o)
    BY BusyAlone
  <2>2. QED
    BY <2>1, IdleFacts DEF CalmInv, AloneInv, Busy
<1>4. th = "handler" => threads.handler.doing # "idle" /\ threads'.handler # Idle
  BY IdleFacts, <1>1 DEF Busy
<1>5. th = "stopper" => threads.stopper.doing = "stop"
  BY BusyAlone
<1>6. th = "handler" => threads.stopper.doing \in {"idle", "closed"}
  BY BusyAlone
<1>7. ASSUME NEW o \in {"handler", "stopper"}
      PROVE  /\ threads'[o].todo \subseteq netBatPairs'
             /\ threads'[o].waiting # NoClient =>
                   /\ clients'[threads'[o].waiting].stop
                   /\ SlotOf(threads'[o].waiting) \in netBatPairs'
                   /\ ClientConnection'[SlotOf(threads'[o].waiting)] = threads'[o].waiting
             /\ Busy(o)' => \A c \in Clients' : clients'[c].phase \in {"ended", "launched"}
  <2>1. threads[o].todo \subseteq netBatPairs
        /\ (Busy(o) => \A c \in Clients : clients[c].phase \in {"ended", "launched"})
    BY DEF CalmInv, AloneInv
  <2>2. CASE o = th
    BY <1>2, <2>1, <2>2
  <2>3. CASE o # th
    BY <1>2, <1>3, <2>1, <2>3
  <2>4. QED
    BY <2>2, <2>3
<1>8. /\ threads'.handler.doing \in {"idle", "pairing", "delete", "restart"}
      /\ threads'.stopper.doing \in {"idle", "closed", "stop", "stopped"}
      /\ threads'.handler.doing = "idle" => threads'.handler = Idle
      /\ threads'.stopper.doing = "idle" => threads'.stopper = Idle
      /\ threads'.stopper.doing # "stop" => threads'.stopper.todo = {} /\ threads'.stopper.waiting = NoClient
      /\ threads'.stopper.doing \in {"stop", "stopped"} => threads'.handler = Idle
  <2>1. /\ threads.handler.doing \in {"idle", "pairing", "delete", "restart"}
        /\ threads.stopper.doing \in {"idle", "closed", "stop", "stopped"}
        /\ threads.handler.doing = "idle" => threads.handler = Idle
        /\ threads.stopper.doing = "idle" => threads.stopper = Idle
        /\ threads.stopper.doing # "stop" => threads.stopper.todo = {} /\ threads.stopper.waiting = NoClient
        /\ threads.stopper.doing \in {"stop", "stopped"} => threads.handler = Idle
    BY DEF CalmInv, AloneInv
  <2>2. CASE th = "handler"
    <3>1. threads'.stopper = threads.stopper
      BY <2>2
    <3>2. QED
      BY <1>1, <1>4, <1>6, <2>1, <2>2, <3>1
  <2>3. CASE th = "stopper"
    <3>1. threads'.handler = threads.handler
      BY <2>3
    <3>2. QED
      BY <1>1, <1>5, <2>1, <2>3, <3>1
  <2>4. QED
    BY <2>2, <2>3
<1>9. AloneInv'
  BY <1>7, <1>8, Zenon DEF AloneInv, SlotOf
<1>10. threads'.handler = Idle => threads.handler = Idle
  BY <1>4
<1>11. QED
  BY <1>1, <1>2, <1>3, <1>9, <1>10

\* Clients that have not been told to stop keep their metrics when those of another
\* client of a current slot are taken out.
LEMMA OthersExported ==
  ASSUME TypeInv, CalmInv, NEW th \in {"handler", "stopper"}, Busy(th),
         NEW c \in Clients, SlotOf(c) \in netBatPairs, ClientConnection[SlotOf(c)] = c,
         clients[c].labels # NoLabels, Clients' = Clients,
         \A d \in Clients \ {c} : clients'[d] = clients[d],
         clients'[c].stop \/ clients'[c].phase = "ended",
         clients'[c].relabelling = clients[c].relabelling, clients'[c].series = clients[c].series,
         registry' \subseteq registry, \A id \in registry \ registry' : id.labels = clients[c].labels
  PROVE  ExportInv'
<1>1. ASSUME NEW d \in Clients, d # c
      PROVE  Exported(d)'
  <2>1. clients'[d] = clients[d] /\ Exported(d) /\ clients[d].phase \in {"ended", "launched"}
    BY <1>1 DEF CalmInv, ExportInv, AloneInv
  <2>2. CASE clients[d].phase = "launched" /\ ~clients[d].stop
    <3>1. ~Dead(d)
      BY <2>2 DEF Dead
    <3>2. SlotOf(d) \in netBatPairs /\ ClientConnection[SlotOf(d)] = d
      BY <3>1, NotDead
    <3>3. clients[d].labels # clients[c].labels
      BY <1>1, <3>2, LabelsDiffer
    <3>4. \A server : [labels |-> clients[d].labels, server |-> server] \in registry =>
                         [labels |-> clients[d].labels, server |-> server] \in registry'
      BY <3>3
    <3>5. /\ [labels |-> clients[d].labels, server |-> "notStarted"] \in registry
          /\ ~clients[d].relabelling => [labels |-> clients[d].labels, server |-> clients[d].server] \in registry
      BY <2>1, <2>2 DEF Exported, NotStarted, Series, Working
    <3>6. /\ [labels |-> clients[d].labels, server |-> "notStarted"] \in registry'
          /\ ~clients[d].relabelling => [labels |-> clients[d].labels, server |-> clients[d].server] \in registry'
      BY <3>4, <3>5
    <3>7. clients[d].relabelling => clients[d].series \cap registry' = {}
      BY <2>1 DEF Exported
    <3>8. QED
      BY <2>1, <3>6, <3>7, Zenon DEF Exported, NotStarted, Series
  <2>3. CASE ~(clients[d].phase = "launched" /\ ~clients[d].stop)
    BY <2>1, <2>3 DEF Exported, Working
  <2>4. QED
    BY <2>2, <2>3
<1>2. Exported(c)'
  BY DEF CalmInv, ExportInv, Exported, Working
<1>3. QED
  BY <1>1, <1>2 DEF ExportInv

\* TearDownConnection: what a thread has torn down is dead and has no metrics.
LEMMA CalmTearDownStep ==
  ASSUME TypeInv, CalmInv, panic = "none", NEW th \in {"handler", "stopper"}, UNCHANGED <<cm, events>>,
         TearDownPanics(th) \/ (\E slot \in threads[th].todo : TearDownBegins(th, slot)) \/ TearDownReturns(th)
  PROVE  CalmInv'
<1>1. CASE TearDownPanics(th)
  <2>1. PICK slot \in threads[th].todo :
           /\ ~IsSetUp(slot)
           /\ Panic(IF ClientConnection[slot] = NoClient THEN "nilClient" ELSE "nilCounter")
    BY <1>1 DEF TearDownPanics
  <2>2. Busy(th) /\ slot \in netBatPairs
    BY <1>1, <2>1 DEF TearDownPanics, CalmInv, AloneInv
  <2>3. ClientConnection[slot] = NoClient
    <3>1. ASSUME ClientConnection[slot] # NoClient
          PROVE  FALSE
      <4>1. ClientConnection[slot] \in Clients /\ slot \in DOMAIN ClientConnection
        BY <2>2, <3>1, PointerFacts DEF TypeInv, SlotInv
      <4>2. clients[ClientConnection[slot]].phase \in {"ended", "launched"}
        BY <2>2, <4>1 DEF CalmInv, AloneInv
      <4>3. clients[ClientConnection[slot]].labels # NoLabels
        BY <3>1, <4>1, <4>2 DEF CalmInv, PairInv
      <4>4. QED
        BY <2>1, <4>1, <4>3 DEF IsSetUp
    <3>2. QED
      BY <3>1
  <2>4. Panic("nilClient")
    BY <2>1, <2>3
  <2>5. /\ UNCHANGED <<cm, config, clients, netBatPairs, ClientConnection, threads>>
        /\ Clients' = Clients /\ panic' = "nilClient"
    BY <2>4 DEF Panic, pairVars, confVars, clientVars, Clients
  <2>6. ASSUME NEW s \in netBatPairs, ClientConnection[s] = NoClient
        PROVE  s.pair \in NoClientPairs \/ \A c \in Clients : SlotOf(c) # s
    <3>1. ASSUME NEW c \in Clients, SlotOf(c) = s
          PROVE  s.pair \in NoClientPairs
      <4>1. clients[c].phase # "spawned"
        BY <2>2 DEF CalmInv, AloneInv
      <4>2. c.pair \in NoClientPairs
        BY <2>6, <3>1, <4>1 DEF CalmInv, PairInv
      <4>3. QED
        BY <3>1, <4>2 DEF SlotOf
    <3>2. QED
      BY <3>1
  <2>7. OnlyNilPanics'
    BY <2>5, <2>6 DEF OnlyNilPanics, Unserved, SlotOf
  <2>8. LoadedInv' /\ PanicInv'
    BY <2>5, <2>7 DEF CalmInv, LoadedInv, PanicInv
  <2>9. QED
    BY <2>4, <2>8, CalmPanic
<1>2. ASSUME NEW slot \in threads[th].todo, TearDownBegins(th, slot)
      PROVE  CalmInv'
  <2> PICK c : c = ClientConnection[slot]
    OBVIOUS
  <2>1. /\ Busy(th) /\ threads[th].waiting = NoClient /\ slot \in netBatPairs
        /\ c \in Clients /\ clients[c].labels # NoLabels
        /\ UNCHANGED <<cm, netBatPairs, ClientConnection, config, sendRate, panic>>
    BY <1>2 DEF TearDownBegins, IsSetUp, CalmInv, AloneInv, pairVars, confVars
  <2>2. c # NoClient
    BY <2>1 DEF TypeInv, ClientInv, ClientIds, NoClient
  <2>3. SlotOf(c) = slot
    BY <2>1, <2>2, PointerFacts
  <2>4. /\ registry' = registry \ {[labels |-> clients[c].labels, server |-> "notStarted"]}
        /\ IF clients[c].connected
           THEN /\ clients' = [clients EXCEPT ![c].stop = TRUE]
                /\ threads' = [threads EXCEPT ![th].waiting = c, ![th].todo = @ \ {slot}]
           ELSE threads' = [threads EXCEPT ![th].todo = @ \ {slot}] /\ UNCHANGED clients
    BY <1>2 DEF TearDownBegins, NotStarted
  <2>5. /\ Life(c) /\ clients[c] \in ClientRecords /\ clients[c].phase \in {"ended", "launched"}
        /\ threads \in [handler : Threads, stopper : Threads]
        /\ threads[th] \in Threads /\ DOMAIN threads = {"handler", "stopper"}
    BY <2>1 DEF CalmInv, LifeInv, AloneInv, TypeInv, ClientInv, ThreadInv
  <2>6. PICK waiting \in {c, NoClient} :
           /\ DOMAIN threads' = {"handler", "stopper"}
           /\ \A o \in {"handler", "stopper"} \ {th} : threads'[o] = threads[o]
           /\ threads'[th].doing = threads[th].doing /\ threads'[th].data = threads[th].data
           /\ threads'[th].todo = threads[th].todo \ {slot} /\ threads'[th].waiting = waiting
           /\ waiting = IF clients[c].connected THEN c ELSE NoClient
    <3>1. CASE clients[c].connected
      <4>1. threads' = [threads EXCEPT ![th].waiting = c, ![th].todo = @ \ {slot}]
        BY <2>4, <3>1
      <4>2. threads'[th] = [threads[th] EXCEPT !.waiting = c, !.todo = @ \ {slot}]
        BY <2>5, <4>1
      <4>3. QED
        BY <2>5, <3>1, <4>1, <4>2 DEF Threads
    <3>2. CASE ~clients[c].connected
      <4>1. threads' = [threads EXCEPT ![th].todo = @ \ {slot}]
        BY <2>4, <3>2
      <4>2. threads'[th] = [threads[th] EXCEPT !.todo = @ \ {slot}]
        BY <2>5, <4>1
      <4>3. QED
        BY <2>1, <2>5, <3>2, <4>1, <4>2 DEF Threads
    <3>3. QED
      BY <3>1, <3>2
  <2>7. /\ Clients' = Clients /\ \A d \in Clients \ {c} : clients'[d] = clients[d]
        /\ clients'[c].phase = clients[c].phase /\ clients'[c].labels = clients[c].labels
        /\ clients'[c].series = clients[c].series /\ clients'[c].exited = clients[c].exited
        /\ clients'[c].relabelling = clients[c].relabelling
        /\ Life(c)' /\ (Dead(c) => Dead(c)')
        /\ \/ waiting = c /\ clients'[c].stop
           \/ waiting = NoClient /\ clients[c].phase = "ended" /\ clients[c].series = {}
    <3>1. CASE clients[c].connected
      <4>1. /\ Clients' = Clients /\ \A d \in Clients \ {c} : clients'[d] = clients[d]
            /\ clients'[c] = [clients[c] EXCEPT !.stop = TRUE]
        <5>1. clients' = [clients EXCEPT ![c].stop = TRUE]
          BY <2>4, <3>1
        <5>2. QED
          BY <2>1, <5>1 DEF Clients
      <4>2. /\ clients'[c].phase = clients[c].phase /\ clients'[c].labels = clients[c].labels
            /\ clients'[c].connected = clients[c].connected /\ clients'[c].series = clients[c].series
            /\ clients'[c].stop = TRUE /\ clients'[c].launched = clients[c].launched
            /\ clients'[c].exited = clients[c].exited /\ clients'[c].server = clients[c].server
            /\ clients'[c].relabelling = clients[c].relabelling
        BY <2>5, <4>1 DEF ClientRecords
      <4>3. clients[c].phase = "launched"
        BY <2>5, <3>1 DEF Life
      <4>4. Life(c)' /\ (Dead(c) => Dead(c)')
        BY <2>5, <4>2, <4>3 DEF Life, Dead
      <4>5. QED
        BY <2>6, <3>1, <4>1, <4>2, <4>4
    <3>2. CASE ~clients[c].connected
      <4>1. clients' = clients
        BY <2>4, <3>2
      <4>2. clients[c].phase = "ended" /\ clients[c].series = {}
        BY <2>5, <3>2 DEF Life
      <4>3. Life(c)' /\ (Dead(c) => Dead(c)')
        BY <2>5, <4>1 DEF Life, Dead
      <4>4. Clients' = Clients
        BY <4>1 DEF Clients
      <4>5. QED
        BY <2>6, <3>2, <4>1, <4>2, <4>3, <4>4
    <3>3. QED
      BY <3>1, <3>2
  <2>8. /\ AloneInv' /\ threads'.handler.doing = threads.handler.doing
        /\ threads'.handler = Idle => threads.handler = Idle
        /\ Busy(th)' /\ \A o \in {"handler", "stopper"} : Busy(o)' => o = th
    <3>1. \/ threads'[th].waiting = NoClient
          \/ /\ clients'[threads'[th].waiting].stop /\ SlotOf(threads'[th].waiting) \in netBatPairs
             /\ ClientConnection[SlotOf(threads'[th].waiting)] = threads'[th].waiting
      BY <2>1, <2>3, <2>6, <2>7
    <3>2. \A d \in Clients : clients'[d].phase = clients[d].phase
      BY <2>7
    <3>3. threads'[th].todo \subseteq threads[th].todo
      BY <2>6
    <3>4. QED
      BY <2>1, <2>6, <2>7, <3>1, <3>2, <3>3, BusyStep
  <2>9. /\ LifeInv' /\ OwnerInv' /\ PairInv' /\ LoadedInv' /\ PanicInv' /\ RateInv'
        /\ \A d \in Clients : ~Dead(d)' => ~Dead(d)
        /\ \A d \in Clients : clients'[d].phase = clients[d].phase /\ clients'[d].labels = clients[d].labels
    BY <2>1, <2>7, <2>8, LaunchedStep
  <2>10. TornInv'
    <3>1. ASSUME NEW d \in Clients, ~Dead(d)'
          PROVE  SlotOf(d) \in threads'[th].todo \/ threads'[th].waiting = d
      <4>1. ~Dead(d) /\ ClientConnection[SlotOf(d)] = d /\ clients[d].phase = "launched" /\ d # NoClient
        BY <2>1, <2>9, <3>1, NotDead DEF TypeInv, ClientInv, ClientIds, NoClient
      <4>2. SlotOf(d) \in threads[th].todo
        BY <2>1, <4>1 DEF CalmInv, TornInv
      <4>3. CASE SlotOf(d) = slot
        <5>1. d = c /\ clients[c].phase = "launched"
          BY <4>1, <4>3
        <5>2. waiting = c
          BY <2>7, <5>1
        <5>3. QED
          BY <2>6, <5>1, <5>2
      <4>4. CASE SlotOf(d) # slot
        BY <2>6, <4>2, <4>4
      <4>5. QED
        BY <4>3, <4>4
    <3>2. QED
      BY <2>7, <2>8, <3>1 DEF TornInv, SlotOf
  <2>11. OwnedInv'
    <3>1. ASSUME NEW id \in registry'
          PROVE  \E s \in netBatPairs : OwnedBy(id, s)'
      <4>1. PICK s \in netBatPairs : OwnedBy(id, s)
        BY <2>4 DEF CalmInv, OwnedInv
      <4>2. ClientConnection[s] \in Clients /\ s \in threads[th].todo
        BY <2>1, <4>1, PointerFacts DEF OwnedBy
      <4>3. s \in threads'[th].todo \/ (threads'[th].waiting = ClientConnection[s] /\ id.server # "notStarted")
        <5>1. CASE s = slot
          <6>1. id.labels = clients[c].labels /\ (id.server # "notStarted" => id \in clients[c].series)
            BY <4>1, <5>1 DEF OwnedBy
          <6>2. id \in Ids
            BY <2>4 DEF TypeInv, RegistryInv
          <6>3. id = [labels |-> id.labels, server |-> id.server]
            BY <6>2 DEF Ids
          <6>4. id.server # "notStarted"
            BY <2>4, <6>1, <6>3
          <6>5. waiting = c
            BY <2>7, <6>1, <6>4
          <6>6. QED
            BY <2>6, <5>1, <6>4, <6>5
        <5>2. CASE s # slot
          BY <2>6, <4>2, <5>2
        <5>3. QED
          BY <5>1, <5>2
      <4>4. clients'[ClientConnection[s]].labels = clients[ClientConnection[s]].labels
            /\ clients'[ClientConnection[s]].series = clients[ClientConnection[s]].series
        BY <2>7, <2>9, <4>2
      <4>5. OwnedBy(id, s)'
        BY <2>1, <2>7, <2>8, <2>9, <4>1, <4>3, <4>4 DEF OwnedBy, SlotOf
      <4>6. QED
        BY <4>5
    <3>2. QED
      BY <2>1, <3>1 DEF OwnedInv
  <2>12. ExportInv'
    <3>1. registry' \subseteq registry /\ \A id \in registry \ registry' : id.labels = clients[c].labels
      BY <2>4
    <3>2. clients'[c].stop \/ clients'[c].phase = "ended"
      BY <2>7
    <3>3. QED
      BY <2>1, <2>3, <2>7, <3>1, <3>2, OthersExported
  <2>13. QED
    BY <2>8, <2>9, <2>10, <2>11, <2>12 DEF CalmInv
<1>3. CASE TearDownReturns(th)
  <2> PICK c : c = threads[th].waiting
    OBVIOUS
  <2>1. /\ c # NoClient /\ clients[c].exited > 0 /\ registry' = registry \ clients[c].series
        /\ threads' = [threads EXCEPT ![th].waiting = NoClient] /\ UNCHANGED clients
        /\ UNCHANGED <<cm, netBatPairs, ClientConnection, config, sendRate, panic>>
    BY <1>3 DEF TearDownReturns, DeRegister, pairVars, confVars
  <2>2. /\ c \in Clients /\ clients[c].exited = 1 /\ clients[c] \in ClientRecords
        /\ clients[c].stop /\ SlotOf(c) \in netBatPairs /\ ClientConnection[SlotOf(c)] = c
    BY <2>1 DEF TypeInv, ThreadInv, ClientInv, ClientRecords, CalmInv, AloneInv
  <2>3. Busy(th)
    BY <2>1, IdleFacts DEF CalmInv, AloneInv, Busy
  <2>4. Life(c) /\ Dead(c) /\ clients[c].phase = "launched" /\ clients[c].labels # NoLabels
    BY <2>2 DEF CalmInv, LifeInv, Life, Dead, TypeInv, ClientInv, Working
  <2>5. /\ threads \in [handler : Threads, stopper : Threads]
        /\ threads[th] \in Threads /\ DOMAIN threads = {"handler", "stopper"}
    BY DEF TypeInv, ThreadInv
  <2>6. /\ DOMAIN threads' = {"handler", "stopper"}
        /\ \A o \in {"handler", "stopper"} \ {th} : threads'[o] = threads[o]
        /\ threads'[th].doing = threads[th].doing /\ threads'[th].data = threads[th].data
        /\ threads'[th].todo = threads[th].todo /\ threads'[th].waiting = NoClient
    <3>1. threads'[th] = [threads[th] EXCEPT !.waiting = NoClient]
      BY <2>1, <2>5
    <3>2. QED
      BY <2>1, <2>5, <3>1 DEF Threads
  <2>7. Clients' = Clients /\ (\A d \in Clients : clients'[d] = clients[d]) /\ Life(c)' /\ Dead(c)'
    BY <2>1, <2>4 DEF Clients, Life, Dead
  <2>8. /\ AloneInv' /\ threads'.handler.doing = threads.handler.doing
        /\ threads'.handler = Idle => threads.handler = Idle
        /\ Busy(th)' /\ \A o \in {"handler", "stopper"} : Busy(o)' => o = th
    BY <2>1, <2>3, <2>6, <2>7, BusyStep
  <2>9. /\ LifeInv' /\ OwnerInv' /\ PairInv' /\ LoadedInv' /\ PanicInv' /\ RateInv'
        /\ \A d \in Clients : ~Dead(d)' => ~Dead(d)
    BY <2>1, <2>2, <2>7, <2>8, LaunchedStep
  <2>10. TornInv'
    <3>1. ASSUME NEW d \in Clients, ~Dead(d)'
          PROVE  SlotOf(d) \in threads'[th].todo
      BY <2>3, <2>4, <2>6, <2>9, <3>1 DEF CalmInv, TornInv
    <3>2. QED
      BY <2>7, <2>8, <3>1 DEF TornInv, SlotOf
  <2>11. OwnedInv'
    <3>1. ASSUME NEW id \in registry'
          PROVE  \E s \in netBatPairs : OwnedBy(id, s)'
      <4>1. PICK s \in netBatPairs : OwnedBy(id, s)
        BY <2>1 DEF CalmInv, OwnedInv
      <4>2. s \in threads[th].todo
        BY <2>1, <2>3, <3>1, <4>1 DEF OwnedBy
      <4>3. OwnedBy(id, s)'
        BY <2>1, <2>6, <2>7, <2>8, <4>1, <4>2 DEF OwnedBy, SlotOf
      <4>4. QED
        BY <4>3
    <3>2. QED
      BY <2>1, <3>1 DEF OwnedInv
  <2>12. ExportInv'
    <3>1. \A id \in registry \ registry' : id.labels = clients[c].labels
      BY <2>1, <2>4 DEF Life
    <3>2. QED
      BY <2>1, <2>2, <2>3, <2>4, <2>7, <3>1, OthersExported
  <2>13. QED
    BY <2>8, <2>9, <2>10, <2>11, <2>12 DEF CalmInv
<1>4. QED
  BY <1>1, <1>2, <1>3

-------------------------------------------------------------------------------
(* The events *)

\* When an event comes nobody is at work.
LEMMA EventFacts ==
  ASSUME Calm, TypeInv, NEW kind, Event(kind)
  PROVE  /\ kind \in EventKinds /\ events' = events + 1 /\ events < MaxEvents
         /\ events \in Nat /\ events + 1 \in 1..MaxEvents /\ MaxEvents \in Nat
         /\ threads.handler = Idle /\ threads.stopper = Idle
         /\ \A c \in Clients : clients[c].phase \in {"ended", "launched"}
BY EventAssumption DEF Event, Calm, Settled, TypeInv, StoreInv

\* Both threads are idle.
LEMMA IdleThreads ==
  ASSUME threads'.handler = Idle, threads'.stopper = Idle
  PROVE  AloneInv' /\ \A th \in {"handler", "stopper"} : ~Busy(th)'
<1>1. \A th \in {"handler", "stopper"} : threads'[th] = Idle
  OBVIOUS
<1>2. \A th \in {"handler", "stopper"} :
         ~Busy(th)' /\ threads'[th].todo = {} /\ threads'[th].waiting = NoClient
  BY <1>1, IdleFacts DEF Busy
<1>3. AloneInv'
  BY <1>2, IdleFacts DEF AloneInv
<1>4. QED
  BY <1>2, <1>3

\* A pairing has a line that is too short only if there are such events.
LEMMA ShortLineKinds ==
  ASSUME NEW data \in Pairings, data.bad = "shortLine"
  PROVE  ~Harmless
BY DEF Harmless, Pairings, BadPairings

\* An event leaves clients and slots alone; the handler may go on to tear down.
LEMMA BeginStep ==
  ASSUME TypeInv, CalmInv, threads.handler = Idle, threads.stopper = Idle,
         \A c \in Clients : clients[c].phase \in {"ended", "launched"},
         UNCHANGED <<ClientConnection, clients, registry, netBatPairs>>,
         \/ UNCHANGED threads
         \/ \E doing \in {"pairing", "delete", "restart"}, data \in Pairings : Handler(doing, data),
         RateInv', LoadedInv', panic' = "none"
  PROVE  CalmInv'
<1>1. PanicInv'
  BY DEF PanicInv, OnlyNilPanics
<1>2. CASE UNCHANGED threads
  <2>1. AloneInv' /\ \A th \in {"handler", "stopper"} : ~Busy(th)'
    BY <1>2, IdleThreads
  <2>2. QED
    BY <1>1, <2>1, StillStep
<1>3. ASSUME NEW doing \in {"pairing", "delete", "restart"}, NEW data \in Pairings,
             Handler(doing, data)
      PROVE  CalmInv'
  <2>1. /\ threads'.handler = [doing |-> doing, todo |-> netBatPairs, waiting |-> NoClient, data |-> data]
        /\ threads'.stopper = Idle
    BY <1>3 DEF Handler, TypeInv, ThreadInv
  <2>2. /\ threads'.handler.doing = doing /\ threads'.handler.todo = netBatPairs
        /\ threads'.handler.waiting = NoClient
    BY <1>3, <2>1
  <2>3. ~Busy("stopper")'
    BY <2>1, IdleFacts DEF Busy
  <2>4. Clients' = Clients
    BY DEF Clients
  <2>5. \A th \in {"handler", "stopper"} :
           threads'[th].todo \subseteq netBatPairs' /\ threads'[th].waiting = NoClient
    BY <2>1, <2>2, IdleFacts
  <2>6. AloneInv'
    BY <2>1, <2>2, <2>3, <2>4, <2>5, IdleFacts DEF AloneInv
  <2>7. \A th \in {"handler", "stopper"} : Busy(th)' => threads'[th].todo = netBatPairs
    BY <2>2, <2>3
  <2>8. QED
    BY <1>1, <2>6, <2>7, StillStep
<1>4. QED
  BY <1>2, <1>3

\* A version makes a config map.
LEMMA Present ==
  ASSUME NEW version \in Nat \ {0}, NEW data
  PROVE  [version |-> version, data |-> data] # Absent
BY DEF Absent

\* The events of net-bat-pairing.
LEMMA CalmPairingEvent ==
  ASSUME Calm, TypeInv, CalmInv, TypeInv', panic = "none",
         \/ \E data \in Pairings : PairingAdd(data) \/ PairingUpdate(data)
         \/ PairingDelete
         \/ Event("relist") /\ cm.pairing # Absent /\ UpdatePairing(cm.pairing) /\ UNCHANGED cm
  PROVE  CalmInv'
<1>1. PICK kind : Event(kind)
  BY DEF PairingAdd, PairingUpdate, PairingDelete
<1>2. /\ kind \in EventKinds /\ events' = events + 1 /\ events < MaxEvents
      /\ events \in Nat /\ events + 1 \in 1..MaxEvents /\ MaxEvents \in Nat
      /\ threads.handler = Idle /\ threads.stopper = Idle
      /\ \A c \in Clients : clients[c].phase \in {"ended", "launched"}
  BY <1>1, EventFacts
<1>3. DOMAIN cm = {"pairing", "profile"} /\ Idle.doing = "idle"
  BY IdleFacts DEF TypeInv, StoreInv
<1>4. ASSUME NEW data \in Pairings, PairingAdd(data), data.bad # "shortLine"
      PROVE  CalmInv'
  <2>1. /\ cm.pairing = Absent /\ netPairResourceVersion' = events + 1
        /\ cm' = [cm EXCEPT !.pairing = [version |-> events + 1, data |-> data]]
        /\ HandleNetBatPairingAddEvent(events + 1, data)
        /\ UNCHANGED <<config, registry, threads, panic>>
    BY <1>4 DEF PairingAdd, confVars
  <2>2. netBatPairs = {}
    BY <1>2, <1>3, <2>1 DEF CalmInv, LoadedInv
  <2>3. (\A c \in Clients : Dead(c)) /\ registry = {}
    BY <2>2, NoPairsFacts
  <2>4. PICK slots : NewSlots(events + 1, data, slots)
    <3>1. \A s \in DOMAIN ClientConnection : s.version < events + 1
      BY <1>2 DEF TypeInv, SlotInv, Slots
    <3>2. QED
      BY <1>2, <2>1, <3>1, PairingFacts
  <2>5. /\ netBatPairs' = slots /\ slots \subseteq Slots
        /\ \A s \in slots : s.version = events + 1
        /\ \A s \in DOMAIN ClientConnection : ClientConnection'[s] = ClientConnection[s]
        /\ \A s \in DOMAIN ClientConnection' :
              s \in DOMAIN ClientConnection \/ ClientConnection'[s] = NoClient
        /\ \/ CreateNetBatTgenClients(slots) /\ config # NilConfig
           \/ UNCHANGED <<creations, clients>>
    BY <2>4 DEF NewSlots
  <2>6. /\ Clients \subseteq Clients' /\ \A c \in Clients : clients'[c] = clients[c]
        /\ \A c \in Clients' \ Clients :
              clients'[c] = Spawned /\ SlotOf(c) \in slots /\ c.run = creations + 1
    BY <2>5, SpawnFacts
  <2>7. LoadedInv'
    <3>1. config = NilConfig => Clients' = {}
      BY <2>5 DEF CalmInv, LoadedInv, Clients
    <3>2. cm'.pairing = [version |-> events + 1, data |-> data] /\ cm'.profile = cm.profile
      BY <1>3, <2>1
    <3>3. cm'.pairing # Absent
      BY <1>2, <3>2, Present
    <3>4. QED
      BY <2>1, <3>1, <3>2, <3>3 DEF CalmInv, LoadedInv
  <2>8. AloneInv' /\ \A th \in {"handler", "stopper"} : ~Busy(th)'
    BY <1>2, <2>1, IdleThreads
  <2>9. QED
    BY <2>1, <2>3, <2>5, <2>6, <2>7, <2>8, RespawnStep
<1>5. ASSUME NEW new, UpdatePairing(new), new.data \in Pairings,
             cm'.pairing # Absent, cm'.profile = cm.profile
      PROVE  CalmInv'
  <2>1. /\ UNCHANGED <<netBatPairs, config, sendRate, ClientConnection, clients, registry, panic>>
        /\ UNCHANGED threads \/ Handler("pairing", new.data)
    BY <1>5 DEF UpdatePairing, confVars, clientVars
  <2>2. Clients' = Clients
    BY <2>1 DEF Clients
  <2>3. threads'.handler = Idle \/ threads'.handler.doing = "pairing"
    BY <1>2, <2>1 DEF Handler, TypeInv, ThreadInv
  <2>4. RateInv' /\ LoadedInv'
    BY <1>2, <1>3, <1>5, <2>1, <2>2, <2>3 DEF CalmInv, RateInv, LoadedInv, Dead
  <2>5. QED
    BY <1>2, <1>5, <2>1, <2>4, BeginStep
<1>6. ASSUME NEW data \in Pairings, PairingUpdate(data)
      PROVE  CalmInv'
  <2>1. /\ cm' = [cm EXCEPT !.pairing = [version |-> events + 1, data |-> data]]
        /\ UpdatePairing(cm'.pairing)
    BY <1>6 DEF PairingUpdate
  <2>2. PICK new : new = [version |-> events + 1, data |-> data]
    OBVIOUS
  <2>3. cm'.pairing = new /\ cm'.profile = cm.profile /\ new.data \in Pairings
    BY <1>3, <2>1, <2>2
  <2>4. new # Absent
    BY <1>2, <2>2, Present
  <2>5. UpdatePairing(new)
    BY <2>1, <2>3
  <2>6. QED
    BY <1>5, <2>3, <2>4, <2>5
<1>7. CASE cm.pairing # Absent /\ UpdatePairing(cm.pairing) /\ UNCHANGED cm
  <2>1. PICK new : new = cm.pairing
    OBVIOUS
  <2>2. new.data \in Pairings
    BY <1>7, <2>1 DEF TypeInv, StoreInv
  <2>3. UpdatePairing(new)
    BY <1>7, <2>1
  <2>4. QED
    BY <1>5, <1>7, <2>2, <2>3
<1>8. CASE PairingDelete
  <2>1. /\ cm' = [cm EXCEPT !.pairing = Absent] /\ Handler("delete", NoData)
        /\ UNCHANGED <<netBatPairs, config, sendRate, ClientConnection, clients, registry, panic>>
    BY <1>8 DEF PairingDelete, confVars, clientVars
  <2>2. NoData \in Pairings
    BY DEF NoData, Idle, Pairings
  <2>3. Clients' = Clients /\ cm'.profile = cm.profile
    BY <1>3, <2>1 DEF Clients
  <2>4. threads'.handler.doing = "delete"
    BY <1>2, <2>1 DEF Handler, TypeInv, ThreadInv
  <2>5. RateInv' /\ LoadedInv'
    BY <1>2, <1>3, <2>1, <2>3, <2>4 DEF CalmInv, RateInv, LoadedInv, Dead
  <2>6. QED
    BY <1>2, <2>1, <2>2, <2>5, BeginStep
<1>9. ASSUME NEW data \in Pairings, PairingAdd(data), data.bad = "shortLine"
      PROVE  CalmInv'
  <2>1. /\ Panic("shortLine") /\ cm.pairing = Absent
        /\ cm' = [cm EXCEPT !.pairing = [version |-> events + 1, data |-> data]]
        /\ UNCHANGED <<config, clients, netBatPairs, threads>>
    BY <1>9 DEF PairingAdd, Panic, pairVars, confVars, clientVars
  <2>2. cm'.pairing = [version |-> events + 1, data |-> data] /\ cm'.profile = cm.profile
    BY <1>3, <2>1
  <2>3. cm'.pairing # Absent
    BY <1>2, <2>2, Present
  <2>4. LoadedInv'
    BY <2>1, <2>2, <2>3 DEF CalmInv, LoadedInv, Clients
  <2>5. PanicInv'
    BY <1>9, ShortLineKinds DEF PanicInv
  <2>6. QED
    BY <2>1, <2>4, <2>5, CalmPanic
<1>10. QED
  BY <1>4, <1>6, <1>7, <1>8, <1>9

\* net-bat-profile is added: no config was loaded before, hence there is no client.
LEMMA CalmProfileAdd ==
  ASSUME Calm, TypeInv, CalmInv, TypeInv', panic = "none", NEW data \in Profiles, ProfileAdd(data)
  PROVE  CalmInv'
<1>1. /\ Event("profileAdd") /\ cm.profile = Absent
      /\ cm' = [cm EXCEPT !.profile = [version |-> events + 1, data |-> data]]
      /\ UNCHANGED <<netBatPairs, pairsSet, threads, panic>>
  BY DEF ProfileAdd, pairVars
<1>2. /\ events \in Nat /\ threads.handler = Idle /\ threads.stopper = Idle
  BY <1>1, EventFacts
<1>3. config = NilConfig /\ Clients = {}
  BY <1>1 DEF CalmInv, LoadedInv
<1>4. registry = {}
  <2>1. ASSUME NEW id \in registry
        PROVE  FALSE
    <3>1. PICK slot \in netBatPairs : OwnedBy(id, slot)
      BY DEF CalmInv, OwnedInv
    <3>2. QED
      BY <1>3, <3>1, PointerFacts DEF OwnedBy
  <2>2. QED
    BY <2>1
<1>5. /\ UNCHANGED <<ClientConnection, registry>>
      /\ CreateNetBatTgenClients(netBatPairs) \/ UNCHANGED <<creations, clients>>
      /\ \/ config' = config /\ UNCHANGED <<creations, clients>>
         \/ config' = [version |-> events + 1, suspendTraffic |-> data.suspend]
  <2>1. CASE data.bad \in {"yaml", "suspend"}
    BY <2>1 DEF ProfileAdd, confVars, clientVars
  <2>2. CASE data.bad \notin {"yaml", "suspend"}
    <3>1. /\ config' = [version |-> events + 1, suspendTraffic |-> data.suspend]
          /\ \/ UNCHANGED clientVars
             \/ /\ UNCHANGED <<ClientConnection, registry>>
                /\ CreateNetBatTgenClients(netBatPairs) \/ UNCHANGED <<creations, clients>>
      BY <2>2, Zenon DEF ProfileAdd
    <3>2. QED
      BY <3>1 DEF clientVars
  <2>3. QED
    BY <2>1, <2>2
<1>6. netBatPairs \subseteq Slots
  BY DEF TypeInv, SlotInv
<1>7. /\ Clients \subseteq Clients' /\ \A c \in Clients : clients'[c] = clients[c]
      /\ \A c \in Clients' \ Clients :
            clients'[c] = Spawned /\ SlotOf(c) \in netBatPairs /\ c.run = creations + 1
  BY <1>5, <1>6, SpawnFacts
<1>8. /\ cm'.profile = [version |-> events + 1, data |-> data] /\ cm'.pairing = cm.pairing
      /\ cm'.profile.version = events + 1
  BY <1>1 DEF TypeInv, StoreInv
<1>9. cm'.profile # Absent
  BY <1>2, <1>8, Present
<1>10. LoadedInv'
  <2>1. /\ cm.pairing = Absent /\ threads.handler.doing # "delete" => netBatPairs = {}
        /\ threads.handler.doing = "idle"
    BY <1>2, IdleFacts DEF CalmInv, LoadedInv
  <2>2. CASE config' = config /\ UNCHANGED <<creations, clients>>
    <3>1. Clients' = {}
      BY <1>3, <2>2 DEF Clients
    <3>2. QED
      BY <1>1, <1>3, <1>8, <1>9, <2>1, <2>2, <3>1 DEF LoadedInv
  <2>3. CASE config' = [version |-> events + 1, suspendTraffic |-> data.suspend]
    <3>1. config'.version = events + 1 /\ config' # NilConfig
      BY <1>2, <2>3 DEF NilConfig
    <3>2. QED
      BY <1>1, <1>2, <1>8, <1>9, <2>1, <3>1 DEF LoadedInv
  <2>4. QED
    BY <1>5, <2>2, <2>3
<1>11. AloneInv' /\ \A th \in {"handler", "stopper"} : ~Busy(th)'
  BY <1>1, <1>2, IdleThreads
<1>12. \A s, t \in netBatPairs : s.version = t.version
  BY DEF CalmInv, PairInv
<1>13. QED
  BY <1>1, <1>3, <1>4, <1>5, <1>7, <1>10, <1>11, <1>12, RespawnStep

\* net-bat-profile is updated or relisted: when the rate changes and clients are
\* running, they are torn down and created again.
LEMMA CalmUpdateProfile ==
  ASSUME Calm, TypeInv, CalmInv, panic = "none", NEW kind, Event(kind),
         NEW new, UpdateProfile(new), new.data \in Profiles, new.version \in Nat \ {0}, new # Absent,
         cm'.profile = new, cm'.pairing = cm.pairing,
         Unmixed /\ new.data.bad = "nothing" /\ config # NilConfig /\ new.version # config.version =>
            new.data.rate = sendRate \/ new.data.suspend = config.suspendTraffic
  PROVE  CalmInv'
<1>1. /\ threads.handler = Idle /\ threads.stopper = Idle /\ threads.handler.doing = "idle"
      /\ \A c \in Clients : clients[c].phase \in {"ended", "launched"}
  BY EventFacts, IdleFacts
<1>2. /\ config = NilConfig => Clients = {}
      /\ config # NilConfig => config.version > 0
      /\ cm.pairing = Absent => netBatPairs = {}
  BY <1>1 DEF CalmInv, LoadedInv
<1>3. CASE config = NilConfig /\ Panic("nilConfig")
  <2>1. UNCHANGED <<config, netBatPairs, clients, threads>>
    BY <1>3 DEF Panic, pairVars, confVars, clientVars
  <2>2. Clients' = Clients
    BY <2>1 DEF Clients
  <2>3. LoadedInv' /\ PanicInv'
    <3>1. panic' = "nilConfig"
      BY <1>3 DEF Panic
    <3>2. QED
      BY <1>1, <1>2, <1>3, <2>1, <2>2, <3>1 DEF LoadedInv, PanicInv, OnlyNilPanics
  <2>4. QED
    BY <1>3, <2>3, CalmPanic
<1>4. CASE /\ config # NilConfig /\ config' # NilConfig /\ config'.version > 0
           /\ new.data.bad = "nothing" => config'.version = new.version
           /\ UNCHANGED <<netBatPairs, ClientConnection, clients, registry, panic>>
           /\ \/ UNCHANGED threads /\ (Unmixed => sendRate' \in {sendRate, -1} \/ \A c \in Clients : Dead(c))
              \/ Handler("restart", NoData)
  <2>1. NoData \in Pairings
    BY DEF NoData, Idle, Pairings
  <2>2. Clients' = Clients /\ \A c \in Clients : Dead(c)' <=> Dead(c)
    BY <1>4 DEF Clients, Dead
  <2>3. CASE UNCHANGED threads /\ (Unmixed => sendRate' \in {sendRate, -1} \/ \A c \in Clients : Dead(c))
    <3>1. RateInv'
      BY <1>4, <2>2, <2>3 DEF CalmInv, RateInv
    <3>2. LoadedInv'
      BY <1>1, <1>2, <1>4, <2>3 DEF LoadedInv
    <3>3. QED
      BY <1>1, <1>4, <2>3, <3>1, <3>2, BeginStep
  <2>4. CASE Handler("restart", NoData)
    <3>1. threads'.handler.doing = "restart"
      BY <2>4 DEF Handler, TypeInv, ThreadInv
    <3>2. RateInv' /\ LoadedInv'
      BY <1>1, <1>2, <1>4, <3>1 DEF RateInv, LoadedInv
    <3>3. QED
      BY <1>1, <1>4, <2>1, <2>4, <3>2, BeginStep
  <2>5. QED
    BY <1>4, <2>3, <2>4
<1>5. CASE /\ config # NilConfig /\ (new.version = config.version \/ new.data.bad = "yaml")
           /\ UNCHANGED <<pairVars, confVars, serverVars, clientVars, threads, panic>>
  BY <1>2, <1>4, <1>5 DEF pairVars, confVars, clientVars
<1>6. CASE /\ config # NilConfig /\ new.data.bad = "suspend"
           /\ config' = [config EXCEPT !.suspendTraffic = FALSE]
           /\ UNCHANGED <<pairVars, sendRate, serverVars, clientVars, threads, panic>>
  <2>1. config \in [version : 0..events, suspendTraffic : BOOLEAN]
    BY DEF TypeInv, StoreInv
  <2>2. config'.version = config.version
    BY <1>6, <2>1
  <2>3. config' # NilConfig
    BY <1>2, <1>6, <2>2 DEF NilConfig
  <2>4. QED
    BY <1>2, <1>4, <1>6, <2>2, <2>3 DEF pairVars, clientVars
<1>7. CASE /\ config # NilConfig /\ new.version # config.version
           /\ config' = [version |-> new.version, suspendTraffic |-> new.data.suspend]
           /\ \/ UNCHANGED <<sendRate, clientVars, threads>>
              \/ sendRate' = -1 /\ UNCHANGED <<clientVars, threads>>
              \/ /\ new.data.bad = "nothing"
                 /\ sendRate' = new.data.rate /\ Restart(new.data.suspend # config.suspendTraffic)
           /\ UNCHANGED <<pairVars, serverVars, panic>>
  <2>1. config'.version = new.version /\ config' # NilConfig /\ new.version > 0
    BY <1>7 DEF NilConfig
  <2>2. UNCHANGED <<netBatPairs, panic>>
    BY <1>7 DEF pairVars
  <2>3. CASE UNCHANGED <<sendRate, clientVars, threads>> \/ (sendRate' = -1 /\ UNCHANGED <<clientVars, threads>>)
    BY <1>4, <1>7, <2>1, <2>2, <2>3 DEF clientVars
  <2>4. CASE /\ new.data.bad = "nothing"
             /\ sendRate' = new.data.rate /\ Restart(new.data.suspend # config.suspendTraffic)
    <3>1. UNCHANGED <<ClientConnection, clients, registry>>
      BY <2>4 DEF Restart, clientVars
    <3>2. \/ Handler("restart", NoData)
          \/ UNCHANGED threads /\ (~pairsSet \/ new.data.suspend # config.suspendTraffic)
      BY <2>4 DEF Restart
    <3>3. ~pairsSet => \A c \in Clients : Dead(c)
      BY NoPairsFacts DEF TypeInv, SlotInv
    <3>4. Unmixed /\ new.data.suspend # config.suspendTraffic => sendRate' = sendRate
      BY <1>7, <2>4
    <3>5. QED
      BY <1>4, <1>7, <2>1, <2>2, <3>1, <3>2, <3>3, <3>4
  <2>5. QED
    BY <1>7, <2>3, <2>4
<1>8. \/ config = NilConfig /\ Panic("nilConfig")
      \/ /\ config # NilConfig /\ (new.version = config.version \/ new.data.bad = "yaml")
         /\ UNCHANGED <<pairVars, confVars, serverVars, clientVars, threads, panic>>
      \/ /\ config # NilConfig /\ new.data.bad = "suspend"
         /\ config' = [config EXCEPT !.suspendTraffic = FALSE]
         /\ UNCHANGED <<pairVars, sendRate, serverVars, clientVars, threads, panic>>
      \/ /\ config # NilConfig /\ new.version # config.version
         /\ config' = [version |-> new.version, suspendTraffic |-> new.data.suspend]
         /\ new.data.bad \in {"nothing", "buffer", "rate"}
         /\ CASE new.data.bad = "buffer" -> UNCHANGED <<sendRate, clientVars, threads>>
              [] new.data.bad = "rate" -> sendRate' = -1 /\ UNCHANGED <<clientVars, threads>>
              [] OTHER -> /\ sendRate' = new.data.rate
                          /\ Restart(new.data.suspend # config.suspendTraffic)
         /\ UNCHANGED <<pairVars, serverVars, panic>>
  BY Zenon DEF UpdateProfile
<1>9. CASE /\ config # NilConfig /\ new.version # config.version
           /\ config' = [version |-> new.version, suspendTraffic |-> new.data.suspend]
           /\ new.data.bad \in {"nothing", "buffer", "rate"}
           /\ CASE new.data.bad = "buffer" -> UNCHANGED <<sendRate, clientVars, threads>>
                [] new.data.bad = "rate" -> sendRate' = -1 /\ UNCHANGED <<clientVars, threads>>
                [] OTHER -> /\ sendRate' = new.data.rate
                            /\ Restart(new.data.suspend # config.suspendTraffic)
           /\ UNCHANGED <<pairVars, serverVars, panic>>
  <2>1. \/ UNCHANGED <<sendRate, clientVars, threads>>
        \/ sendRate' = -1 /\ UNCHANGED <<clientVars, threads>>
        \/ /\ new.data.bad = "nothing"
           /\ sendRate' = new.data.rate /\ Restart(new.data.suspend # config.suspendTraffic)
    <3>1. CASE new.data.bad = "buffer"
      BY <1>9, <3>1
    <3>2. CASE new.data.bad = "rate"
      BY <1>9, <3>2
    <3>3. CASE new.data.bad = "nothing"
      BY <1>9, <3>3
    <3>4. QED
      BY <1>9, <3>1, <3>2, <3>3
  <2>2. QED
    BY <1>7, <1>9, <2>1
<1>10. QED
  BY <1>3, <1>5, <1>6, <1>8, <1>9

\* The events of net-bat-profile.
LEMMA CalmProfileEvent ==
  ASSUME Calm, TypeInv, CalmInv, TypeInv', panic = "none",
         \/ \E data \in Profiles : ProfileAdd(data) \/ ProfileUpdate(data)
         \/ Event("relist") /\ cm.profile # Absent /\ UpdateProfile(cm.profile) /\ UNCHANGED cm
  PROVE  CalmInv'
<1>1. ASSUME NEW data \in Profiles, ProfileUpdate(data)
      PROVE  CalmInv'
  <2>1. /\ Event("profileUpdate") /\ UpdateProfile(cm'.profile)
        /\ Unmixed => data.rate = sendRate \/ data.suspend = config.suspendTraffic
        /\ cm' = [cm EXCEPT !.profile = [version |-> events + 1, data |-> data]]
    BY <1>1 DEF ProfileUpdate, Unmixed
  <2>2. events + 1 \in Nat \ {0}
    BY <2>1, EventFacts
  <2>3. PICK new : new = [version |-> events + 1, data |-> data]
    OBVIOUS
  <2>4. cm'.profile = new /\ cm'.pairing = cm.pairing
    BY <2>1, <2>3 DEF TypeInv, StoreInv
  <2>5. new # Absent /\ new.version \in Nat \ {0} /\ new.data = data
    BY <2>2, <2>3, Present
  <2>6. UpdateProfile(new)
    BY <2>1, <2>4
  <2>7. QED
    BY <2>1, <2>4, <2>5, <2>6, CalmUpdateProfile
<1>2. CASE Event("relist") /\ cm.profile # Absent /\ UpdateProfile(cm.profile) /\ UNCHANGED cm
  <2>1. PICK new : new = cm.profile
    OBVIOUS
  <2>2. new.data \in Profiles /\ new.version \in Nat \ {0}
    BY <1>2, <2>1 DEF TypeInv, StoreInv
  <2>3. new.data.bad = "nothing" /\ config # NilConfig => new.version = config.version
    BY <1>2, <2>1 DEF CalmInv, LoadedInv
  <2>4. UpdateProfile(new) /\ cm'.profile = new /\ cm'.pairing = cm.pairing /\ new # Absent
    BY <1>2, <2>1
  <2>5. QED
    BY <1>2, <2>2, <2>3, <2>4, CalmUpdateProfile
<1>3. QED
  BY <1>1, <1>2, CalmProfileAdd

\* Every step keeps the invariant.
LEMMA CalmInvNext == Calm /\ TypeInv /\ CalmInv /\ [Next]_vars => CalmInv'
<1> SUFFICES ASSUME Calm, TypeInv, CalmInv, [Next]_vars
             PROVE  CalmInv'
  OBVIOUS
<1>1. TypeInv'
  BY TypeInvNext
<1>2. CASE UNCHANGED vars
  <2>1. UNCHANGED <<cm, netBatPairs, config, sendRate, ClientConnection, clients, registry, threads,
                    panic>>
    BY <1>2 DEF vars, pairVars, confVars, clientVars
  <2>2. Clients' = Clients /\ \A th \in {"handler", "stopper"} : Busy(th)' <=> Busy(th)
    BY <2>1 DEF Clients, Busy
  <2>3. AloneInv' /\ RateInv' /\ LoadedInv'
    BY <2>1, <2>2 DEF CalmInv, AloneInv, RateInv, LoadedInv, SlotOf, Dead
  <2>4. PanicInv'
    BY <2>1, <2>2 DEF CalmInv, PanicInv, OnlyNilPanics, Unserved, SlotOf
  <2>5. QED
    BY <2>1, <2>2, <2>3, <2>4, StillStep
<1>3. CASE panic = "none" /\ ConfigMapEvent
  <2>1. ~ProfileDelete
    BY DEF ProfileDelete, Event, Calm
  <2>2. CASE MissedDelete
    <3>1. Panic("missedDelete") /\ UNCHANGED cm /\ ~Harmless
      BY <2>2 DEF MissedDelete, Event, Harmless
    <3>2. LoadedInv' /\ PanicInv'
      BY <3>1 DEF Panic, CalmInv, LoadedInv, PanicInv, Clients, pairVars, confVars, clientVars
    <3>3. QED
      BY <3>1, <3>2, CalmPanic
  <2>3. QED
    BY <1>1, <1>3, <2>1, <2>2, CalmPairingEvent, CalmProfileEvent DEF ConfigMapEvent, Relist
<1>4. CASE panic = "none" /\ HandlerRuns /\ UNCHANGED <<cm, events>>
  <2>1. CASE ShortLinePanics
    <3>1. Panic("shortLine") /\ UNCHANGED cm /\ ~Harmless
      BY <1>4, <2>1, ShortLineKinds DEF ShortLinePanics, TypeInv, ThreadInv, Threads
    <3>2. LoadedInv' /\ PanicInv'
      BY <3>1 DEF Panic, CalmInv, LoadedInv, PanicInv, Clients, pairVars, confVars, clientVars
    <3>3. QED
      BY <3>1, <3>2, CalmPanic
  <2>2. ASSUME NEW slot, TearDownBegins("handler", slot)
        PROVE  slot \in threads["handler"].todo
    BY <2>2 DEF TearDownBegins
  <2>3. QED
    BY <1>1, <1>4, <2>1, <2>2, CalmTearDownStep, CalmThreadStep DEF HandlerRuns
<1>5. CASE panic = "none" /\ (StopTGC \/ StopperRuns) /\ UNCHANGED <<cm, events>>
  BY <1>1, <1>5, CalmTearDownStep, CalmThreadStep DEF StopperRuns
<1>6. ASSUME NEW c \in Clients, panic = "none", UNCHANGED <<cm, events>>,
             CreateClient(c) \/ ClientReRegisters(c) \/ ClientHasNoCounters(c) \/ ClientExits(c)
      PROVE  CalmInv'
  BY <1>6, CalmCreateStep, CalmRunStep
<1>7. ASSUME NEW c \in Clients, NEW server \in Servers, panic = "none", UNCHANGED <<cm, events>>,
             ClientRelabels(c, server)
      PROVE  CalmInv'
  BY <1>7, CalmRunStep
<1>8. QED
  BY <1>2, <1>3, <1>4, <1>5, <1>6, <1>7 DEF Next, Terminated, crashed

\* Of a controller that is changed calmly the invariant always holds.
LEMMA CalmInvAlways ==
  ASSUME Calm
  PROVE  Spec => [](TypeInv /\ CalmInv)
<1>1. Init => TypeInv /\ CalmInv
  BY TypeInvInit, CalmInvInit
<1>2. TypeInv /\ CalmInv /\ [Next]_vars => (TypeInv /\ CalmInv)'
  BY TypeInvNext, CalmInvNext
<1>3. QED
  BY <1>1, <1>2, PTL DEF Spec

-------------------------------------------------------------------------------
(* The theorems *)

\* Whatever the updates, restarts and deletes were, every client that sends is the
\* client of a pair of the current configuration.
THEOREM NoSenderForgotten == ASSUME Calm PROVE Spec => []SendersArePaired
BY CalmInvAlways, CalmInvProperties, PTL

\* The metrics of a client that sends are in the registry, but for its series while
\* it replaces them: no other client takes them out.
THEOREM SendersExported == ASSUME Calm PROVE Spec => []SendersAreExported
BY CalmInvAlways, CalmInvProperties, PTL

\* TearDownConnection leaves nothing in the registry of a client that is not the one
\* of a current pair.
THEOREM RegistryIsCurrent == ASSUME Calm PROVE Spec => []NothingStaleExported
BY CalmInvAlways, CalmInvProperties, PTL

\* When the handler has returned, clients send at the rate they are labelled with.
THEOREM RatesAreLabelled == ASSUME Calm, Unmixed PROVE Spec => []RateLabelsTrue
BY CalmInvAlways, CalmInvProperties, PTL

\* The process panics for a nil config, or for the nil client of a pair for which there
\* was none to create; labels never collide, no wait group drops below zero and no
\* counter is missing.
THEOREM PanicsAreNil == ASSUME Calm, Harmless PROVE Spec => []OnlyNilPanics
BY CalmInvAlways, CalmInvProperties, PTL
===============================================================================
