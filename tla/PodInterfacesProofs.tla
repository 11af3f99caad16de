-------------------------- MODULE PodInterfacesProofs --------------------------
(***************************************************************************)
(* What GetInterfaces keeps true from step to step, for any annotations,   *)
(* any environment and any links.                                          *)
(***************************************************************************)
EXTENDS PodInterfaces, FiniteSetTheorems, SequenceTheorems, TLAPS

Collects == at \in {"collect", "ids"}

\* The types, and where the loops are.
LoopInv ==
  /\ interfaces \in Seq(Interfaces)
  /\ at \in {"begin", "annotations", "env"} => pciAddressSlice = <<>> /\ next = 1 /\ pciIndex = 0
  /\ at \in {"begin", "annotations"} => interfaces = <<>>
  /\ at \in {"collect", "ids", "assign", "links"} => envs \in Environments
  /\ Collects => todo \subseteq DOMAIN envs
  /\ at = "collect" => next = 1
  /\ at = "ids" => key \in DOMAIN envs \ todo /\ next \in 1..Len(envs[key])
  /\ Collects => pciIndex = 0
  /\ at \in {"assign", "links"} => todo = {}
  /\ pciAddressSlice \in Seq(STRING)
  /\ pciIndex \in 0..Len(pciAddressSlice) /\ next \in Nat \ {0}

\* What the annotations promise holds while addresses are collected: no device
\* has two interfaces, there is one default interface and no host interface.
AnnotatedInv ==
  at = "env" \/ Collects =>
     /\ \A i \in DOMAIN interfaces : interfaces[i].deviceType # "host"
     /\ \A i, j \in DOMAIN interfaces :
           (i # j /\ interfaces[i].info.kind \in {"pci", "vdpa"}) =>
              Fold[interfaces[i].info.address] # Fold[interfaces[j].info.address]

\* Addresses still to be looked at, the interfaces that have an address, and the
\* places at which it waits for one.
Pending(v, k) == v \in todo \/ (at = "ids" /\ v = key /\ k >= next)
Holders(id) == {i \in DOMAIN interfaces : HasDevice(interfaces[i], id)}
Waiting(id) == {j \in (pciIndex + 1)..Len(pciAddressSlice) : Fold[pciAddressSlice[j]] = Fold[id]}

\* An address is looked at later, or has an interface, or waits for one.
PlaceInv ==
  (Collects \/ at = "assign") =>
     \A v \in DOMAIN envs : \A k \in DOMAIN envs[v] :
        IF Pending(v, k)
        THEN Waiting(envs[v][k]) = {}
        ELSE \/ (\E i \in DOMAIN interfaces : Holders(envs[v][k]) = {i}) /\ Waiting(envs[v][k]) = {}
             \/ Holders(envs[v][k]) = {} /\ \E j \in DOMAIN pciAddressSlice : Waiting(envs[v][k]) = {j}

Unknown(from) == {i \in from..Len(interfaces) : interfaces[i].deviceType = "unknown"}
GivenFirst ==
  /\ interfaces # <<>> /\ interfaces[1].default
  /\ \E k \in DOMAIN pciAddressSlice : HasDevice(interfaces[1], pciAddressSlice[k])
NoHost == \A i \in DOMAIN interfaces : interfaces[i].deviceType # "host"

\* The default interface is looked at first, when unknownCnt is exact.  If it gets
\* an address then there is one for every unknown interface behind it.
DefaultInv ==
  /\ (at = "env" \/ Collects \/ at = "assign") =>
        \A i, j \in DOMAIN interfaces : i # j => ~(interfaces[i].default /\ interfaces[j].default)
  /\ (Collects \/ (at = "assign" /\ next = 1)) =>
        \A i \in DOMAIN interfaces : \A k \in DOMAIN pciAddressSlice :
           ~HasDevice(interfaces[i], pciAddressSlice[k])
  /\ (at = "assign" /\ next = 1) =>
        pciIndex = 0 /\ unknownCnt = Cardinality(Unknown(1)) /\ NoHost
  /\ (at = "assign" /\ next > 1 /\ GivenFirst) =>
        NoHost /\ Cardinality(Unknown(next)) <= Len(pciAddressSlice) - pciIndex

InterfacesInv == LoopInv /\ AnnotatedInv /\ PlaceInv /\ DefaultInv
-------------------------------------------------------------------------------
(* Types and loops.                                                         *)

LEMMA Retyped ==
  ASSUME NEW r \in Interfaces, NEW type \in DeviceTypes
  PROVE  /\ [r EXCEPT !.deviceType = type] \in Interfaces
         /\ [r EXCEPT !.deviceType = type].info = r.info
         /\ [r EXCEPT !.deviceType = type].default = r.default
         /\ [r EXCEPT !.deviceType = type].deviceType = type
BY DEF Interfaces

Redevice(r, type, info) == [r EXCEPT !.deviceType = type, !.info = info]

LEMMA Redeviced ==
  \A r \in Interfaces : \A type \in DeviceTypes : \A info \in Infos :
     /\ Redevice(r, type, info) \in Interfaces
     /\ Redevice(r, type, info).info = info
     /\ Redevice(r, type, info).default = r.default
     /\ Redevice(r, type, info).deviceType = type
BY DEF Interfaces, Redevice

LEMMA PciInfo == \A address \in STRING : Pci(address) \in Infos
BY DEF Pci, Infos, Words

LEMMA TypeNames == "sriov" \in DeviceTypes /\ "host" \in DeviceTypes
BY DEF DeviceTypes

\* Looking at an address changes device types only.
LEMMA CollectKeepsDevices ==
  ASSUME LoopInv, CollectPciAddress
  PROVE  /\ interfaces' \in Seq(Interfaces)
         /\ DOMAIN interfaces' = DOMAIN interfaces /\ Len(interfaces') = Len(interfaces)
         /\ \A i \in DOMAIN interfaces :
               /\ interfaces'[i].info = interfaces[i].info
               /\ interfaces'[i].default = interfaces[i].default
               /\ interfaces'[i].deviceType \in {interfaces[i].deviceType, "sriov"}
<1> DEFINE mark(i) == IF interfaces[i].info.kind = "pci" /\ FoundAt(envs[key][next], i)
                      THEN [interfaces[i] EXCEPT !.deviceType = "sriov"]
                      ELSE interfaces[i]
           n == Len(interfaces)
<1>1. interfaces' = [i \in 1..n |-> mark(i)] /\ n \in Nat /\ DOMAIN interfaces = 1..n
  BY DEF CollectPciAddress, LoopInv
<1>2. ASSUME NEW i \in 1..n
      PROVE  /\ mark(i) \in Interfaces
             /\ mark(i).info = interfaces[i].info /\ mark(i).default = interfaces[i].default
             /\ mark(i).deviceType \in {interfaces[i].deviceType, "sriov"}
  <2>1. interfaces[i] \in Interfaces
    BY <1>1 DEF LoopInv
  <2> QED BY <2>1, Retyped, TypeNames
<1> HIDE DEF mark
<1>3. interfaces' \in [1..n -> Interfaces]
  BY <1>1, <1>2
<1> QED BY <1>1, <1>2, <1>3

\* A round of the assigning loop changes the interface it is at.
LEMMA RoundKeepsOthers ==
  ASSUME LoopInv, AssignDevice
  PROVE  /\ interfaces' \in Seq(Interfaces)
         /\ DOMAIN interfaces' = DOMAIN interfaces /\ Len(interfaces') = Len(interfaces)
         /\ next \in DOMAIN interfaces /\ next' = next + 1
         /\ \A i \in DOMAIN interfaces \ {next} : interfaces'[i] = interfaces[i]
         /\ interfaces'[next].default = interfaces[next].default
<1>1. next \in DOMAIN interfaces /\ next' = next + 1 /\ interfaces[next] \in Interfaces
  BY DEF AssignDevice, LoopInv
<1>2. CASE UNCHANGED interfaces
  BY <1>1, <1>2 DEF LoopInv
<1>3. ASSUME NEW type \in DeviceTypes, NEW info \in Infos,
             Becomes(type, info)
      PROVE  /\ interfaces' \in Seq(Interfaces)
             /\ DOMAIN interfaces' = DOMAIN interfaces /\ Len(interfaces') = Len(interfaces)
             /\ \A i \in DOMAIN interfaces \ {next} : interfaces'[i] = interfaces[i]
             /\ interfaces'[next].default = interfaces[next].default
  <2> DEFINE new == Redevice(interfaces[next], type, info)
  <2>1. interfaces' = [interfaces EXCEPT ![next] = new]
    BY <1>1, <1>3 DEF Becomes, LoopInv, Redevice
  <2>2. new \in Interfaces /\ new.default = interfaces[next].default
    BY <1>1, Redeviced
  <2> HIDE DEF new
  <2>3. interfaces \in [1..Len(interfaces) -> Interfaces] /\ Len(interfaces) \in Nat
    BY DEF LoopInv
  <2>4. interfaces' \in [1..Len(interfaces) -> Interfaces]
    BY <2>1, <2>2, <2>3
  <2> QED BY <1>1, <2>1, <2>2, <2>3, <2>4
<1>4. CASE Becomes("host", interfaces[next].info)
  <2>1. interfaces[next].info \in Infos
    BY <1>1 DEF Interfaces
  <2> QED BY <1>1, <1>3, <1>4, <2>1, TypeNames
<1>5. CASE /\ pciIndex < Len(pciAddressSlice)
           /\ Becomes("sriov", Pci(pciAddressSlice[pciIndex + 1]))
  <2>1. Pci(pciAddressSlice[pciIndex + 1]) \in Infos
    <3>1. pciAddressSlice[pciIndex + 1] \in STRING
      BY <1>5 DEF LoopInv
    <3> QED BY <3>1, PciInfo
  <2> QED BY <1>1, <1>3, <1>5, <2>1, TypeNames
<1> QED BY <1>1, <1>2, <1>4, <1>5 DEF AssignDevice

\* The three things a round can do to that interface.
BecomesHost ==
  /\ interfaces[next].deviceType = "unknown"
  /\ DefaultIsHost(interfaces[next]) \/ pciIndex >= Len(pciAddressSlice)
  /\ interfaces'[next].info = interfaces[next].info
  /\ pciIndex' = pciIndex
BecomesSriov ==
  /\ interfaces[next].deviceType = "unknown" /\ interfaces[next].info = NoInfo
  /\ ~DefaultIsHost(interfaces[next])
  /\ interfaces'[next].info = Pci(pciAddressSlice[pciIndex + 1])
  /\ interfaces'[next].deviceType = "sriov"
  /\ pciIndex < Len(pciAddressSlice) /\ pciIndex' = pciIndex + 1
StaysAsItIs ==
  /\ interfaces' = interfaces /\ pciIndex' = pciIndex
  /\ interfaces[next].deviceType = "unknown" =>
        pciIndex < Len(pciAddressSlice) /\ ~DefaultIsHost(interfaces[next])
                                        /\ interfaces[next].info # NoInfo

LEMMA Round ==
  ASSUME LoopInv, AssignDevice
  PROVE  BecomesHost \/ BecomesSriov \/ StaysAsItIs
<1>1. next \in DOMAIN interfaces /\ interfaces[next] \in Interfaces
  BY DEF AssignDevice, LoopInv
<1>2. ASSUME NEW type \in DeviceTypes, NEW info \in Infos, Becomes(type, info)
      PROVE  interfaces'[next].deviceType = type /\ interfaces'[next].info = info
  <2> DEFINE new == Redevice(interfaces[next], type, info)
  <2>1. interfaces' = [interfaces EXCEPT ![next] = new]
    BY <1>1, <1>2 DEF Becomes, LoopInv, Redevice
  <2>2. new.deviceType = type /\ new.info = info
    BY <1>1, Redeviced
  <2> HIDE DEF new
  <2> QED BY <1>1, <2>1, <2>2 DEF LoopInv
<1>3. CASE /\ interfaces[next].deviceType = "unknown"
           /\ DefaultIsHost(interfaces[next]) \/ ~(pciIndex < Len(pciAddressSlice))
           /\ Becomes("host", interfaces[next].info)
           /\ pciIndex' = pciIndex
  <2>1. interfaces[next].info \in Infos
    BY <1>1 DEF Interfaces
  <2>2. interfaces'[next].info = interfaces[next].info
    BY <1>2, <1>3, <2>1, TypeNames
  <2> QED BY <1>3, <2>2 DEF BecomesHost, LoopInv
<1>4. CASE /\ interfaces[next].deviceType = "unknown" /\ interfaces[next].info = NoInfo
           /\ ~DefaultIsHost(interfaces[next]) /\ pciIndex < Len(pciAddressSlice)
           /\ Becomes("sriov", Pci(pciAddressSlice[pciIndex + 1]))
           /\ pciIndex' = pciIndex + 1
  <2>1. pciAddressSlice[pciIndex + 1] \in STRING
    BY <1>4 DEF LoopInv
  <2>2. Pci(pciAddressSlice[pciIndex + 1]) \in Infos
    BY <2>1, PciInfo
  <2>3. /\ interfaces'[next].info = Pci(pciAddressSlice[pciIndex + 1])
        /\ interfaces'[next].deviceType = "sriov"
    BY <1>2, <1>4, <2>2, TypeNames
  <2> QED BY <1>4, <2>3 DEF BecomesSriov
<1>5. CASE /\ interfaces[next].deviceType = "unknown" =>
                interfaces[next].info # NoInfo /\ ~DefaultIsHost(interfaces[next])
                                               /\ pciIndex < Len(pciAddressSlice)
           /\ UNCHANGED <<interfaces, unknownCnt, pciIndex>>
  BY <1>5 DEF StaysAsItIs
<1> QED BY <1>3, <1>4, <1>5 DEF AssignDevice

LEMMA LoopStep == LoopInv /\ InterfacesNext => LoopInv'
<1> SUFFICES ASSUME LoopInv, InterfacesNext PROVE LoopInv'
  OBVIOUS
<1> USE DEF LoopInv, Collects, localVars
<1>1. CASE ReadAnnotations
  BY <1>1, AnnotationAssumption DEF ReadAnnotations
<1>2. CASE GetEnv
  BY <1>2 DEF GetEnv
<1>3. ASSUME NEW v \in todo, TakeVariable(v) PROVE LoopInv'
  <2>1. envs[v] \in Seq(STRING) /\ envs[v] # <<>>
    BY <1>3, EnvironmentAssumption DEF TakeVariable
  <2>2. 1 \in 1..Len(envs[v])
    BY <2>1
  <2> QED BY <1>3, <2>2 DEF TakeVariable
<1>4. CASE CollectPciAddress
  <2>1. envs[key] \in Seq(STRING) /\ envs[key][next] \in STRING
    BY <1>4, EnvironmentAssumption DEF CollectPciAddress
  <2>2. pciAddressSlice' \in Seq(STRING) /\ pciIndex' \in 0..Len(pciAddressSlice')
    <3>1. pciIndex' = pciIndex /\ pciIndex = 0
      BY <1>4 DEF CollectPciAddress
    <3>2. \/ pciAddressSlice' = pciAddressSlice
          \/ pciAddressSlice' = Append(pciAddressSlice, envs[key][next])
      BY <1>4 DEF CollectPciAddress
    <3> QED BY <2>1, <3>1, <3>2
  <2>3. interfaces' \in Seq(Interfaces)
    BY <1>4, CollectKeepsDevices
  <2> QED BY <1>4, <2>1, <2>2, <2>3 DEF CollectPciAddress
<1>5. CASE CountUnknown
  BY <1>5 DEF CountUnknown
<1>6. CASE AssignDevice
  <2>1. interfaces' \in Seq(Interfaces)
    BY <1>6, RoundKeepsOthers
  <2> QED BY <1>6, <2>1 DEF AssignDevice, Becomes
<1>7. CASE AppendLeftovers
  <2> DEFINE m == Len(pciAddressSlice) - pciIndex
             more == [k \in 1..m |-> NewInterface(pciAddressSlice[pciIndex + k])]
  <2>1. m \in Nat /\ \A k \in 1..m : pciAddressSlice[pciIndex + k] \in STRING
    OBVIOUS
  <2>2. \A k \in 1..m : NewInterface(pciAddressSlice[pciIndex + k]) \in Interfaces
    <3> SUFFICES ASSUME NEW address \in STRING PROVE NewInterface(address) \in Interfaces
      BY <2>1
    <3>1. Unnamed \in Seq(STRING) /\ "none" \in Words
      BY DEF Unnamed, Words
    <3> QED BY <3>1, PciInfo, TypeNames DEF NewInterface, Interfaces
  <2>3. more \in Seq(Interfaces)
    BY <2>1, <2>2
  <2>4. interfaces' = interfaces \o more
    BY <1>7 DEF AppendLeftovers
  <2>5. interfaces' \in Seq(Interfaces)
    BY <2>3, <2>4, ConcatProperties
  <2> QED BY <1>7, <2>5 DEF AppendLeftovers
<1>8. CASE GetNetInterfaces
  BY <1>8 DEF GetNetInterfaces
<1> QED BY <1>1, <1>2, <1>3, <1>4, <1>5, <1>6, <1>7, <1>8 DEF InterfacesNext
-------------------------------------------------------------------------------
(* Where the addresses are.                                                 *)

\* With the annotations' promise, the interface that has a device is the only one.
LEMMA AnnotatedStep == LoopInv /\ AnnotatedInv /\ InterfacesNext => AnnotatedInv'
<1> SUFFICES ASSUME LoopInv, AnnotatedInv, InterfacesNext PROVE AnnotatedInv'
  OBVIOUS
<1> USE DEF AnnotatedInv, Collects
<1>1. CASE ReadAnnotations
  BY <1>1, AnnotationAssumption DEF ReadAnnotations
<1>2. CASE GetEnv
  BY <1>2 DEF GetEnv
<1>3. ASSUME NEW v \in todo, TakeVariable(v) PROVE AnnotatedInv'
  BY <1>3 DEF TakeVariable
<1>4. CASE CollectPciAddress
  <2>1. at = "ids"
    BY <1>4 DEF CollectPciAddress
  <2>2. /\ DOMAIN interfaces' = DOMAIN interfaces
        /\ \A i \in DOMAIN interfaces :
              /\ interfaces'[i].info = interfaces[i].info
              /\ interfaces'[i].deviceType \in {interfaces[i].deviceType, "sriov"}
    BY <1>4, CollectKeepsDevices
  <2> QED BY <2>1, <2>2
<1>5. CASE CountUnknown \/ AssignDevice \/ AppendLeftovers \/ GetNetInterfaces
  BY <1>5 DEF CountUnknown, AssignDevice, AppendLeftovers, GetNetInterfaces
<1> QED BY <1>1, <1>2, <1>3, <1>4, <1>5 DEF InterfacesNext

\* Two addresses of the environment are two devices.
LEMMA AddressesDiffer ==
  ASSUME LoopInv, at \in {"collect", "ids", "assign", "links"},
         NEW v \in DOMAIN envs, NEW k \in DOMAIN envs[v],
         NEW w \in DOMAIN envs, NEW l \in DOMAIN envs[w],
         Fold[envs[v][k]] = Fold[envs[w][l]]
  PROVE  v = w /\ k = l
<1>1. <<v, k>> = <<w, l>>
  BY EnvironmentAssumption DEF LoopInv
<1> QED BY <1>1

Placed(v, k) ==
  IF Pending(v, k)
  THEN Waiting(envs[v][k]) = {}
  ELSE \/ (\E i \in DOMAIN interfaces : Holders(envs[v][k]) = {i}) /\ Waiting(envs[v][k]) = {}
       \/ Holders(envs[v][k]) = {} /\ \E j \in DOMAIN pciAddressSlice : Waiting(envs[v][k]) = {j}

LEMMA PlaceEach ==
  PlaceInv <=> ((Collects \/ at = "assign") =>
                  \A v \in DOMAIN envs : \A k \in DOMAIN envs[v] : Placed(v, k))
BY DEF PlaceInv, Placed

\* An address is looked at: an interface has it, or it waits at the end.
LEMMA CollectPlaces ==
  ASSUME LoopInv, AnnotatedInv, PlaceInv, CollectPciAddress
  PROVE  PlaceInv'
<1> DEFINE id == envs[key][next]
           len == Len(pciAddressSlice)
<1>1. at = "ids" /\ Collects /\ pciIndex = 0 /\ UNCHANGED <<envs, todo, key, pciIndex>>
  BY DEF CollectPciAddress, LoopInv, Collects
<1>2. key \in DOMAIN envs /\ key \notin todo /\ envs[key] \in Seq(STRING)
  BY <1>1, EnvironmentAssumption DEF LoopInv
<1>3. next \in 1..Len(envs[key]) /\ next \in DOMAIN envs[key]
  BY <1>1, <1>2 DEF LoopInv
<1>4. \A x : Holders(x)' = Holders(x)
  BY CollectKeepsDevices DEF Holders, HasDevice
<1>5. ASSUME NEW v \in DOMAIN envs, NEW k \in DOMAIN envs[v]
      PROVE  Pending(v, k)' <=> (Pending(v, k) /\ ~(v = key /\ k = next))
  <2>1. CASE v = key
    <3>1. k \in 1..Len(envs[key])
      BY <1>2, <2>1
    <3>2. CASE next < Len(envs[key])
      BY <1>1, <1>2, <1>3, <2>1, <3>1, <3>2 DEF CollectPciAddress, Pending
    <3>3. CASE ~(next < Len(envs[key]))
      BY <1>1, <1>2, <1>3, <2>1, <3>1, <3>3 DEF CollectPciAddress, Pending
    <3> QED BY <3>2, <3>3
  <2>2. CASE v # key
    BY <1>1, <2>2 DEF Pending
  <2> QED BY <2>1, <2>2
<1>6. Pending(key, next) /\ Waiting(id) = {}
  BY <1>1, <1>2, <1>3 DEF Pending, PlaceInv, LoopInv
<1>7. ASSUME NEW v \in DOMAIN envs, NEW k \in DOMAIN envs[v], ~(v = key /\ k = next)
      PROVE  Fold[envs[v][k]] # Fold[id]
  BY <1>1, <1>2, <1>3, <1>7, AddressesDiffer
<1>8. len \in Nat /\ DOMAIN pciAddressSlice = 1..len
  BY DEF LoopInv
<1>9. SUFFICES ASSUME NEW v \in DOMAIN envs, NEW k \in DOMAIN envs[v] PROVE Placed(v, k)'
  BY <1>1, PlaceEach DEF PlaceInv, Placed
<1>10. Placed(v, k)
  BY <1>1, PlaceEach
<1>11. CASE Found(id)
  <2>1. UNCHANGED pciAddressSlice
    BY <1>11 DEF CollectPciAddress
  <2>2. \A x : Waiting(x)' = Waiting(x)
    BY <1>1, <2>1 DEF Waiting
  <2>3. PICK i \in DOMAIN interfaces : HasDevice(interfaces[i], id)
    BY <1>11 DEF Found, FoundAt
  <2>4. Holders(id) = {i}
    BY <1>1, <2>3 DEF Holders, HasDevice, AnnotatedInv
  <2>5. DOMAIN interfaces' = DOMAIN interfaces
    BY CollectKeepsDevices
  <2>6. CASE v = key /\ k = next
    BY <1>1, <1>4, <1>5, <1>6, <2>2, <2>4, <2>5, <2>6 DEF Placed
  <2>7. CASE ~(v = key /\ k = next)
    BY <1>1, <1>4, <1>5, <1>10, <2>1, <2>2, <2>5, <2>7 DEF Placed
  <2> QED BY <2>6, <2>7
<1>12. CASE ~Found(id)
  <2>1. pciAddressSlice' = Append(pciAddressSlice, id)
    BY <1>12 DEF CollectPciAddress
  <2>2. /\ Len(pciAddressSlice') = len + 1 /\ DOMAIN pciAddressSlice' = 1..(len + 1)
        /\ pciAddressSlice'[len + 1] = id
        /\ \A j \in 1..len : pciAddressSlice'[j] = pciAddressSlice[j]
    BY <2>1 DEF LoopInv
  <2>3. ASSUME NEW x
        PROVE  Waiting(x)' = Waiting(x) \cup (IF Fold[x] = Fold[id] THEN {len + 1} ELSE {})
    BY <1>1, <1>8, <2>2 DEF Waiting
  <2>4. Holders(id) = {}
    <3>1. ASSUME NEW i \in Holders(id) PROVE FALSE
      <4>1. i \in DOMAIN interfaces /\ HasDevice(interfaces[i], id)
        BY <3>1 DEF Holders
      <4>2. \A j \in 1..(i - 1) : ~HasDevice(interfaces[j], id)
        BY <1>1, <4>1 DEF HasDevice, AnnotatedInv, LoopInv
      <4> QED BY <1>12, <4>1, <4>2 DEF Found, FoundAt
    <3> QED BY <3>1
  <2>5. DOMAIN interfaces' = DOMAIN interfaces
    BY CollectKeepsDevices
  <2>6. CASE v = key /\ k = next
    <3>1. Waiting(envs[v][k])' = {len + 1}
      BY <1>1, <1>6, <2>3, <2>6
    <3>2. Holders(envs[v][k])' = {} /\ ~Pending(v, k)'
      BY <1>1, <1>4, <1>5, <2>4, <2>6
    <3> QED BY <1>8, <2>2, <3>1, <3>2 DEF Placed
  <2>7. CASE ~(v = key /\ k = next)
    <3>1. Waiting(envs[v][k])' = Waiting(envs[v][k])
      BY <1>1, <1>7, <2>3, <2>7
    <3>2. Holders(envs[v][k])' = Holders(envs[v][k]) /\ (Pending(v, k)' <=> Pending(v, k))
      BY <1>1, <1>4, <1>5, <2>7
    <3>3. DOMAIN pciAddressSlice \subseteq DOMAIN pciAddressSlice'
      BY <1>8, <2>2
    <3> QED BY <1>1, <1>10, <2>5, <3>1, <3>2, <3>3 DEF Placed
  <2> QED BY <2>6, <2>7
<1> QED BY <1>11, <1>12
\* A waiting address is given to an interface without a device, or none moves.
LEMMA AssignPlaces ==
  ASSUME LoopInv, PlaceInv, AssignDevice
  PROVE  PlaceInv'
<1>1. at = "assign" /\ todo = {} /\ UNCHANGED <<at, envs, todo, key, pciAddressSlice>>
  BY DEF AssignDevice, LoopInv
<1>2. SUFFICES ASSUME NEW v \in DOMAIN envs, NEW k \in DOMAIN envs[v] PROVE Placed(v, k)'
  BY <1>1, PlaceEach DEF PlaceInv, Placed
<1>3. ~Pending(v, k) /\ ~Pending(v, k)' /\ Placed(v, k)
  BY <1>1, PlaceEach DEF Pending
<1>4. /\ DOMAIN interfaces' = DOMAIN interfaces /\ next \in DOMAIN interfaces
      /\ \A i \in DOMAIN interfaces \ {next} : interfaces'[i] = interfaces[i]
  BY RoundKeepsOthers
<1> DEFINE id == envs[v][k]
<1>5. CASE BecomesHost \/ StaysAsItIs
  <2>1. pciIndex' = pciIndex /\ interfaces'[next].info = interfaces[next].info
    BY <1>5 DEF BecomesHost, StaysAsItIs
  <2>2. Holders(id)' = Holders(id)
    BY <1>1, <1>4, <2>1 DEF Holders, HasDevice
  <2>3. Waiting(id)' = Waiting(id)
    BY <1>1, <2>1 DEF Waiting
  <2> QED BY <1>1, <1>3, <1>4, <2>2, <2>3 DEF Placed
<1>6. CASE BecomesSriov
  <2> DEFINE given == pciAddressSlice[pciIndex + 1]
  <2>1. /\ pciIndex \in Nat /\ Len(pciAddressSlice) \in Nat /\ pciIndex < Len(pciAddressSlice)
        /\ pciIndex' = pciIndex + 1 /\ DOMAIN pciAddressSlice = 1..Len(pciAddressSlice)
    BY <1>6 DEF BecomesSriov, LoopInv
  <2>2. Waiting(id)' = Waiting(id) \ {pciIndex + 1}
    BY <1>1, <2>1 DEF Waiting
  <2>3. next \notin Holders(id)
    BY <1>6 DEF BecomesSriov, Holders, HasDevice, NoInfo
  <2>4. Holders(id)' = Holders(id) \cup (IF Fold[given] = Fold[id] THEN {next} ELSE {})
    <3>1. HasDevice(interfaces'[next], id) <=> Fold[given] = Fold[id]
      BY <1>6 DEF BecomesSriov, HasDevice, Pci
    <3> QED BY <1>1, <1>4, <2>3, <3>1 DEF Holders, HasDevice
  <2>5. CASE Fold[given] = Fold[id]
    <3>1. pciIndex + 1 \in Waiting(id)
      BY <2>1, <2>5 DEF Waiting
    <3>2. Waiting(id) = {pciIndex + 1} /\ Holders(id) = {}
      BY <1>3, <3>1 DEF Placed
    <3> QED BY <1>1, <1>3, <1>4, <2>2, <2>4, <2>5, <3>2 DEF Placed
  <2>6. CASE Fold[given] # Fold[id]
    <3>1. Waiting(id)' = Waiting(id) /\ Holders(id)' = Holders(id)
      BY <2>2, <2>4, <2>6 DEF Waiting
    <3> QED BY <1>1, <1>3, <1>4, <3>1 DEF Placed
  <2> QED BY <2>5, <2>6
<1> QED BY <1>5, <1>6, Round

LEMMA PlaceStep == LoopInv /\ AnnotatedInv /\ PlaceInv /\ InterfacesNext => PlaceInv'
<1> SUFFICES ASSUME LoopInv, AnnotatedInv, PlaceInv, InterfacesNext PROVE PlaceInv'
  OBVIOUS
<1>1. CASE ReadAnnotations \/ AppendLeftovers \/ GetNetInterfaces
  BY <1>1 DEF ReadAnnotations, AppendLeftovers, GetNetInterfaces, PlaceInv, Collects
<1>2. CASE GetEnv
  <2>1. CASE at' = "failed"
    BY <2>1 DEF PlaceInv, Collects
  <2>2. CASE at' = "collect" /\ todo' = DOMAIN envs'
    <3>1. pciAddressSlice' = <<>> /\ pciIndex' = 0
      BY <1>2 DEF GetEnv, LoopInv
    <3>2. \A x : Waiting(x)' = {}
      BY <3>1 DEF Waiting
    <3> QED BY <2>2, <3>2 DEF PlaceInv, Pending
  <2> QED BY <1>2, <2>1, <2>2 DEF GetEnv
<1>3. ASSUME NEW x \in todo, TakeVariable(x) PROVE PlaceInv'
  <2>1. /\ at = "collect" /\ at' = "ids" /\ key' = x /\ todo' = todo \ {x} /\ next' = 1
        /\ UNCHANGED <<interfaces, envs, pciAddressSlice, pciIndex>>
    BY <1>3 DEF TakeVariable, LoopInv
  <2>2. ASSUME NEW v \in DOMAIN envs, NEW k \in DOMAIN envs[v]
        PROVE  Pending(v, k)' <=> Pending(v, k)
    <3>1. k >= 1
      BY <2>1, EnvironmentAssumption DEF LoopInv
    <3> QED BY <1>3, <2>1, <3>1 DEF Pending
  <2>3. \A y : Holders(y)' = Holders(y) /\ Waiting(y)' = Waiting(y)
    BY <2>1 DEF Holders, Waiting, HasDevice
  <2>4. \A v \in DOMAIN envs : \A k \in DOMAIN envs[v] : Placed(v, k)
    BY <2>1, PlaceEach DEF Collects
  <2>5. \A v \in DOMAIN envs : \A k \in DOMAIN envs[v] : Placed(v, k)'
    BY <2>1, <2>2, <2>3, <2>4 DEF Placed
  <2> QED BY <2>1, <2>5 DEF PlaceInv, Placed
<1>4. CASE CollectPciAddress
  BY <1>4, CollectPlaces
<1>5. CASE CountUnknown
  <2>1. /\ at = "collect" /\ at' = "assign" /\ todo = {}
        /\ UNCHANGED <<interfaces, envs, todo, key, pciAddressSlice, pciIndex>>
    BY <1>5 DEF CountUnknown
  <2>2. \A v, k : ~Pending(v, k) /\ ~Pending(v, k)'
    BY <2>1 DEF Pending
  <2>3. \A y : Holders(y)' = Holders(y) /\ Waiting(y)' = Waiting(y)
    BY <2>1 DEF Holders, Waiting, HasDevice
  <2>4. \A v \in DOMAIN envs : \A k \in DOMAIN envs[v] : Placed(v, k)
    BY <2>1, PlaceEach DEF Collects
  <2>5. \A v \in DOMAIN envs : \A k \in DOMAIN envs[v] : Placed(v, k)'
    BY <2>1, <2>2, <2>3, <2>4 DEF Placed
  <2> QED BY <2>1, <2>5 DEF PlaceInv, Placed
<1>6. CASE AssignDevice
  BY <1>6, AssignPlaces
<1> QED BY <1>1, <1>2, <1>3, <1>4, <1>5, <1>6 DEF InterfacesNext

\* The last step of GetInterfaces: what still waits gets an interface of its own.
LEMMA LeftoversPlaced == LoopInv /\ PlaceInv /\ AppendLeftovers => AddressesPlacedOnce'
<1> SUFFICES ASSUME LoopInv, PlaceInv, AppendLeftovers,
                    NEW v \in DOMAIN envs, NEW k \in DOMAIN envs[v]
             PROVE  \E i \in DOMAIN interfaces' :
                       /\ HasDevice(interfaces'[i], envs[v][k])
                       /\ \A j \in DOMAIN interfaces' :
                             HasDevice(interfaces'[j], envs[v][k]) => j = i
  <2>1. ASSUME AppendLeftovers PROVE envs' = envs
    BY <2>1 DEF AppendLeftovers, localVars
  <2> QED BY <2>1 DEF AddressesPlacedOnce, HasDevice
<1> DEFINE id == envs[v][k]
           n == Len(interfaces)
           m == Len(pciAddressSlice) - pciIndex
           more == [l \in 1..m |-> NewInterface(pciAddressSlice[pciIndex + l])]
<1>1. at = "assign" /\ todo = {}
  BY DEF AppendLeftovers, LoopInv
<1>2. n \in Nat /\ m \in Nat /\ DOMAIN interfaces = 1..n /\ pciIndex \in Nat
  BY DEF LoopInv
<1>3. /\ DOMAIN interfaces' = 1..(n + m)
      /\ \A i \in 1..n : interfaces'[i] = interfaces[i]
      /\ \A l \in 1..m : interfaces'[n + l] = NewInterface(pciAddressSlice[pciIndex + l])
  <2>1. interfaces' = interfaces \o more
    BY DEF AppendLeftovers
  <2>2. Len(more) = m
    BY <1>2
  <2> QED BY <1>2, <2>1, <2>2
<1>4. \A l \in 1..m :
         HasDevice(interfaces'[n + l], id) <=> Fold[pciAddressSlice[pciIndex + l]] = Fold[id]
  <2> SUFFICES ASSUME NEW l \in 1..m
               PROVE  HasDevice(interfaces'[n + l], id) <=>
                        Fold[pciAddressSlice[pciIndex + l]] = Fold[id]
    OBVIOUS
  <2>1. interfaces'[n + l] = NewInterface(pciAddressSlice[pciIndex + l])
    BY <1>3
  <2> QED BY <2>1 DEF HasDevice, NewInterface, Pci
<1>5. ~Pending(v, k) /\ Placed(v, k)
  BY <1>1, PlaceEach DEF Pending
<1> HIDE DEF id, n, m
<1>6. ASSUME NEW j \in 1..(n + m) PROVE j \in 1..n \/ \E l \in 1..m : j = n + l
  <2>1. CASE j > n
    <3>1. j - n \in 1..m /\ j = n + (j - n)
      BY <1>2, <2>1
    <3> QED BY <3>1
  <2> QED BY <1>2, <2>1
<1>7. \A i \in 1..n : HasDevice(interfaces'[i], id) <=> i \in Holders(id)
  BY <1>2, <1>3 DEF Holders, HasDevice
<1>8. \A l \in 1..m : HasDevice(interfaces'[n + l], id) <=> pciIndex + l \in Waiting(id)
  <2>1. \A l \in 1..m : pciIndex + l \in (pciIndex + 1)..Len(pciAddressSlice)
    BY <1>2 DEF LoopInv, m
  <2> QED BY <1>4, <2>1 DEF Waiting
<1>9. CASE (\E i \in DOMAIN interfaces : Holders(id) = {i}) /\ Waiting(id) = {}
  <2>1. PICK i \in DOMAIN interfaces : Holders(id) = {i}
    BY <1>9
  <2>2. i \in 1..(n + m) /\ HasDevice(interfaces'[i], id)
    BY <1>2, <1>7, <2>1
  <2>3. \A j \in 1..(n + m) : HasDevice(interfaces'[j], id) => j = i
    BY <1>6, <1>7, <1>8, <1>9, <2>1
  <2> QED BY <1>3, <2>2, <2>3 DEF id
<1>10. CASE Holders(id) = {} /\ \E j \in DOMAIN pciAddressSlice : Waiting(id) = {j}
  <2>1. PICK w \in DOMAIN pciAddressSlice : Waiting(id) = {w}
    BY <1>10
  <2>2. w \in (pciIndex + 1)..Len(pciAddressSlice)
    BY <2>1 DEF Waiting
  <2>3. w - pciIndex \in 1..m /\ pciIndex + (w - pciIndex) = w
    BY <1>2, <2>2 DEF LoopInv, m
  <2>4. /\ n + (w - pciIndex) \in 1..(n + m)
        /\ HasDevice(interfaces'[n + (w - pciIndex)], id)
    BY <1>2, <1>8, <2>1, <2>3
  <2>5. \A j \in 1..(n + m) : HasDevice(interfaces'[j], id) => j = n + (w - pciIndex)
    <3> SUFFICES ASSUME NEW j \in 1..(n + m), HasDevice(interfaces'[j], id)
                 PROVE  j = n + (w - pciIndex)
      OBVIOUS
    <3>1. j \notin 1..n
      BY <1>7, <1>10
    <3>2. PICK l \in 1..m : j = n + l
      BY <1>6, <3>1
    <3>3. pciIndex + l = w
      BY <1>8, <2>1, <3>2
    <3> QED BY <1>2, <3>2, <3>3
  <2> QED BY <1>3, <2>4, <2>5 DEF id
<1> QED BY <1>5, <1>9, <1>10 DEF Placed, id
-------------------------------------------------------------------------------
(* Who gets an address.                                                     *)

\* The unknown interfaces from one on, and without it.
LEMMA UnknownFinite ==
  ASSUME LoopInv, NEW from \in Nat
  PROVE  IsFiniteSet(Unknown(from)) /\ Cardinality(Unknown(from)) \in Nat
<1>1. IsFiniteSet(from..Len(interfaces))
  BY FS_Interval DEF LoopInv
<1>2. Unknown(from) \subseteq from..Len(interfaces)
  BY DEF Unknown
<1> QED BY <1>1, <1>2, FS_Subset, FS_CardinalityType

LEMMA UnknownBehind ==
  ASSUME LoopInv, AssignDevice
  PROVE  /\ Unknown(next)' = Unknown(next) \ {next}
         /\ IsFiniteSet(Unknown(next)) /\ Cardinality(Unknown(next)) \in Nat
         /\ Cardinality(Unknown(next)') \in Nat
         /\ next \in Unknown(next) => Cardinality(Unknown(next)') = Cardinality(Unknown(next)) - 1
         /\ next \notin Unknown(next) => Cardinality(Unknown(next)') = Cardinality(Unknown(next))
<1>1. next \in Nat /\ Len(interfaces) \in Nat /\ DOMAIN interfaces = 1..Len(interfaces)
  BY DEF LoopInv
<1>2. /\ Len(interfaces') = Len(interfaces) /\ next' = next + 1 /\ next \in DOMAIN interfaces
      /\ \A i \in DOMAIN interfaces \ {next} : interfaces'[i] = interfaces[i]
  BY RoundKeepsOthers
<1>3. Unknown(next)' = {i \in (next + 1)..Len(interfaces) : interfaces'[i].deviceType = "unknown"}
  BY <1>2 DEF Unknown
<1>4. \A i \in (next + 1)..Len(interfaces) : interfaces'[i] = interfaces[i]
  BY <1>1, <1>2
<1>5. Unknown(next)' = Unknown(next) \ {next}
  BY <1>1, <1>3, <1>4 DEF Unknown
<1>6. IsFiniteSet(Unknown(next)) /\ Cardinality(Unknown(next)) \in Nat
  BY <1>1, UnknownFinite
<1>7. /\ IsFiniteSet(Unknown(next) \ {next})
      /\ Cardinality(Unknown(next) \ {next}) =
           IF next \in Unknown(next) THEN Cardinality(Unknown(next)) - 1
                                     ELSE Cardinality(Unknown(next))
  BY <1>6, FS_RemoveElement
<1>8. Cardinality(Unknown(next) \ {next}) \in Nat
  BY <1>7, FS_CardinalityType
<1> QED BY <1>5, <1>6, <1>7, <1>8

\* The first interface is given an address only if there is one for each unknown
\* interface, and the later rounds keep it so.
LEMMA AssignDefault ==
  ASSUME LoopInv, DefaultInv, AssignDevice
  PROVE  DefaultInv'
<1>1. at = "assign" /\ at' = "assign" /\ pciAddressSlice' = pciAddressSlice
  BY DEF AssignDevice
<1>2. /\ Len(interfaces') = Len(interfaces) /\ next' = next + 1 /\ next \in DOMAIN interfaces
      /\ DOMAIN interfaces' = DOMAIN interfaces
      /\ \A i \in DOMAIN interfaces \ {next} : interfaces'[i] = interfaces[i]
      /\ interfaces'[next].default = interfaces[next].default
  BY RoundKeepsOthers
<1>3. /\ next \in Nat /\ next >= 1 /\ pciIndex \in Nat /\ Len(pciAddressSlice) \in Nat
      /\ DOMAIN interfaces = 1..Len(interfaces) /\ Len(interfaces) \in Nat
  BY DEF LoopInv
<1>4. \A i \in DOMAIN interfaces : interfaces'[i].default = interfaces[i].default
  BY <1>2
<1>5. \A i, j \in DOMAIN interfaces' : i # j => ~(interfaces'[i].default /\ interfaces'[j].default)
  BY <1>1, <1>2, <1>4 DEF DefaultInv
<1>6. next' > 1
  BY <1>2, <1>3
<1>7. ASSUME GivenFirst'
      PROVE  NoHost' /\ Cardinality(Unknown(next)') <= Len(pciAddressSlice) - pciIndex'
  <2>1. 1 \in DOMAIN interfaces /\ interfaces[1].default
    BY <1>2, <1>3, <1>4, <1>7 DEF GivenFirst
  <2>2. PICK k \in DOMAIN pciAddressSlice : HasDevice(interfaces'[1], pciAddressSlice[k])
    BY <1>1, <1>7 DEF GivenFirst, HasDevice
  <2>3. CASE next = 1
    <3>1. /\ pciIndex = 0 /\ unknownCnt = Cardinality(Unknown(next)) /\ NoHost
          /\ ~HasDevice(interfaces[1], pciAddressSlice[k])
      BY <1>1, <2>1, <2>2, <2>3 DEF DefaultInv
    <3>2. BecomesSriov
      BY <2>2, <2>3, <3>1, Round DEF BecomesHost, StaysAsItIs, HasDevice
    <3>3. Cardinality(Unknown(next)) <= Len(pciAddressSlice)
      <4>1. ~(unknownCnt > Len(pciAddressSlice))
        BY <2>1, <2>3, <3>2 DEF BecomesSriov, DefaultIsHost
      <4> QED BY <1>3, <3>1, <4>1, UnknownBehind
    <3>4. next \in Unknown(next)
      BY <1>2, <1>3, <3>2 DEF BecomesSriov, Unknown
    <3>5. NoHost'
      BY <1>2, <3>1, <3>2 DEF NoHost, BecomesSriov
    <3>6. pciIndex' = 1
      BY <3>1, <3>2 DEF BecomesSriov
    <3> QED BY <1>3, <3>3, <3>4, <3>5, <3>6, UnknownBehind
  <2>4. CASE next > 1
    <3>1. GivenFirst
      BY <1>1, <1>2, <2>1, <2>2, <2>4 DEF GivenFirst
    <3>2. NoHost /\ Cardinality(Unknown(next)) <= Len(pciAddressSlice) - pciIndex
      BY <1>1, <2>4, <3>1 DEF DefaultInv
    <3>3. ~DefaultIsHost(interfaces[next])
      BY <1>1, <1>2, <2>1, <2>4 DEF DefaultInv, DefaultIsHost
    <3>4. interfaces[next].deviceType = "unknown" <=> next \in Unknown(next)
      BY <1>2, <1>3 DEF Unknown
    <3>5. CASE BecomesHost
      <4>1. next \in Unknown(next) /\ pciIndex >= Len(pciAddressSlice)
        BY <3>3, <3>4, <3>5 DEF BecomesHost
      <4> QED BY <1>3, <3>2, <4>1, UnknownBehind
    <3>6. CASE BecomesSriov
      <4>1. NoHost' /\ pciIndex' = pciIndex + 1 /\ next \in Unknown(next)
        BY <1>2, <3>2, <3>4, <3>6 DEF NoHost, BecomesSriov
      <4> QED BY <1>3, <3>2, <4>1, UnknownBehind
    <3>7. CASE StaysAsItIs
      <4>1. NoHost' /\ pciIndex' = pciIndex
        BY <3>2, <3>7 DEF NoHost, StaysAsItIs
      <4> QED BY <1>3, <3>2, <4>1, UnknownBehind
    <3> QED BY <3>5, <3>6, <3>7, Round
  <2> QED BY <1>3, <2>3, <2>4
<1>8. ~(at' = "assign" /\ next' = 1) /\ ~Collects'
  BY <1>1, <1>2, <1>3 DEF Collects
<1> QED BY <1>1, <1>5, <1>7, <1>8 DEF DefaultInv

LEMMA DefaultStep == LoopInv /\ AnnotatedInv /\ DefaultInv /\ InterfacesNext => DefaultInv'
<1> SUFFICES ASSUME LoopInv, AnnotatedInv, DefaultInv, InterfacesNext PROVE DefaultInv'
  OBVIOUS
<1>1. CASE ReadAnnotations
  BY <1>1, AnnotationAssumption DEF ReadAnnotations, DefaultInv, Collects
<1>2. CASE GetEnv
  BY <1>2 DEF GetEnv, DefaultInv, Collects, LoopInv
<1>3. ASSUME NEW v \in todo, TakeVariable(v) PROVE DefaultInv'
  BY <1>3 DEF TakeVariable, DefaultInv, Collects, HasDevice
<1>4. CASE CollectPciAddress
  <2> DEFINE id == envs[key][next]
  <2>1. at = "ids" /\ at' \in {"ids", "collect"}
    BY <1>4 DEF CollectPciAddress
  <2>2. /\ DOMAIN interfaces' = DOMAIN interfaces
        /\ \A i \in DOMAIN interfaces :
              /\ interfaces'[i].info = interfaces[i].info
              /\ interfaces'[i].default = interfaces[i].default
    BY <1>4, CollectKeepsDevices
  <2>3. \A i \in DOMAIN interfaces : \A k \in DOMAIN pciAddressSlice :
           ~HasDevice(interfaces[i], pciAddressSlice[k])
    BY <2>1 DEF DefaultInv, Collects
  <2>4. \A i \in DOMAIN interfaces : \A k \in DOMAIN pciAddressSlice' :
           ~HasDevice(interfaces[i], pciAddressSlice'[k])
    <3>1. CASE pciAddressSlice' = pciAddressSlice
      BY <2>3, <3>1
    <3>2. CASE ~Found(id) /\ pciAddressSlice' = Append(pciAddressSlice, id)
      <4>1. \A i \in DOMAIN interfaces : ~HasDevice(interfaces[i], id)
        <5> SUFFICES ASSUME NEW i \in DOMAIN interfaces, HasDevice(interfaces[i], id) PROVE FALSE
          OBVIOUS
        <5>1. \A j \in 1..(i - 1) : ~HasDevice(interfaces[j], id)
          BY <2>1 DEF HasDevice, AnnotatedInv, Collects, LoopInv
        <5> QED BY <3>2, <5>1 DEF Found, FoundAt
      <4>2. /\ DOMAIN pciAddressSlice' = DOMAIN pciAddressSlice \cup {Len(pciAddressSlice) + 1}
            /\ pciAddressSlice'[Len(pciAddressSlice) + 1] = id
            /\ \A k \in DOMAIN pciAddressSlice : pciAddressSlice'[k] = pciAddressSlice[k]
        BY <3>2 DEF LoopInv
      <4> QED BY <2>3, <4>1, <4>2
    <3> QED BY <1>4, <3>1, <3>2 DEF CollectPciAddress
  <2> QED BY <2>1, <2>2, <2>4 DEF DefaultInv, Collects, HasDevice
<1>5. CASE CountUnknown
  <2>1. /\ at = "collect" /\ at' = "assign" /\ UNCHANGED <<interfaces, pciAddressSlice, next, pciIndex>>
        /\ next = 1 /\ pciIndex = 0 /\ DOMAIN interfaces = 1..Len(interfaces)
    BY <1>5 DEF CountUnknown, LoopInv, Collects
  <2>2. unknownCnt' = Cardinality(Unknown(1)')
    BY <1>5, <2>1 DEF CountUnknown, Unknown
  <2>3. NoHost'
    BY <2>1 DEF NoHost, AnnotatedInv, Collects
  <2> QED BY <2>1, <2>2, <2>3 DEF DefaultInv, Collects, HasDevice, Unknown
<1>6. CASE AssignDevice
  BY <1>6, AssignDefault
<1>7. CASE AppendLeftovers \/ GetNetInterfaces
  BY <1>7 DEF AppendLeftovers, GetNetInterfaces, DefaultInv, Collects
<1> QED BY <1>1, <1>2, <1>3, <1>4, <1>5, <1>6, <1>7 DEF InterfacesNext

\* Interfaces made for leftover addresses are neither default nor host ones.
LEMMA LeftoversGiveWay == LoopInv /\ DefaultInv /\ AppendLeftovers => DefaultGivesWay'
<1> DEFINE n == Len(interfaces)
           m == Len(pciAddressSlice) - pciIndex
           more == [l \in 1..m |-> NewInterface(pciAddressSlice[pciIndex + l])]
<1> SUFFICES ASSUME LoopInv, DefaultInv, AppendLeftovers,
                    1 \in DOMAIN interfaces', interfaces'[1].default,
                    NEW k \in DOMAIN pciAddressSlice,
                    HasDevice(interfaces'[1], pciAddressSlice[k]),
                    NEW i \in DOMAIN interfaces'
             PROVE  interfaces'[i].deviceType # "host"
  <2>1. ASSUME LoopInv, AppendLeftovers, interfaces' # <<>>
        PROVE  1 \in DOMAIN interfaces' /\ pciAddressSlice' = pciAddressSlice
    <3>1. interfaces' \in Seq(Interfaces)
      BY <2>1, LoopStep DEF LoopInv, InterfacesNext
    <3>2. 1 \in DOMAIN interfaces'
      BY <2>1, <3>1
    <3> QED BY <2>1, <3>2 DEF AppendLeftovers, localVars
  <2> QED BY <2>1 DEF DefaultGivesWay, HasDevice
<1>1. n \in Nat /\ m \in Nat /\ DOMAIN interfaces = 1..n
  BY DEF LoopInv
<1>2. /\ DOMAIN interfaces' = 1..(n + m)
      /\ \A j \in 1..n : interfaces'[j] = interfaces[j]
      /\ \A j \in (n + 1)..(n + m) :
            interfaces'[j].deviceType = "sriov" /\ interfaces'[j].default = FALSE
  <2>1. interfaces' = interfaces \o more
    BY DEF AppendLeftovers
  <2>2. Len(more) = m
    BY <1>1
  <2>3. \A j \in (n + 1)..(n + m) : interfaces'[j] = NewInterface(pciAddressSlice[pciIndex + (j - n)])
    BY <1>1, <2>1, <2>2
  <2> QED BY <1>1, <2>1, <2>2, <2>3 DEF NewInterface
<1> HIDE DEF n, m, more
<1>3. n >= 1 /\ interfaces'[1] = interfaces[1]
  BY <1>1, <1>2
<1>4. next > 1 /\ at = "assign"
  BY <1>3 DEF AppendLeftovers, n, LoopInv
<1>5. NoHost
  <2>1. GivenFirst
    BY <1>1, <1>3 DEF GivenFirst
  <2> QED BY <1>4, <2>1 DEF DefaultInv
<1>6. i \in 1..n \/ i \in (n + 1)..(n + m)
  BY <1>1, <1>2
<1> QED BY <1>1, <1>2, <1>5, <1>6 DEF NoHost

-------------------------------------------------------------------------------
(* All of GetInterfaces.                                                    *)

\* Every step of GetInterfaces and GetNetInterfaces keeps the invariant, and what
\* GetInterfaces returns is right.
LEMMA InterfacesStep ==
  InterfacesInv /\ InterfacesNext => InterfacesInv' /\ AddressesPlacedOnce' /\ DefaultGivesWay'
<1> SUFFICES ASSUME InterfacesInv, InterfacesNext
             PROVE  InterfacesInv' /\ AddressesPlacedOnce' /\ DefaultGivesWay'
  OBVIOUS
<1>1. LoopInv /\ AnnotatedInv /\ PlaceInv /\ DefaultInv
  BY DEF InterfacesInv
<1>2. InterfacesInv'
  BY <1>1, LoopStep, AnnotatedStep, PlaceStep, DefaultStep DEF InterfacesInv
<1>3. CASE AppendLeftovers
  BY <1>1, <1>2, <1>3, LeftoversPlaced, LeftoversGiveWay
<1>4. CASE at' # "links"
  BY <1>2, <1>4 DEF AddressesPlacedOnce, DefaultGivesWay
<1>5. at' = "links" => AppendLeftovers
  BY DEF InterfacesNext, ReadAnnotations, GetEnv, TakeVariable, CollectPciAddress, CountUnknown,
         AssignDevice, GetNetInterfaces
<1> QED BY <1>3, <1>4, <1>5
===============================================================================
