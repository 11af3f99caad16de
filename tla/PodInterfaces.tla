----------------------------- MODULE PodInterfaces -----------------------------
(***************************************************************************)
(* GetInterfaces and GetNetInterfaces of pkg/util/util.go: the network     *)
(* interfaces of the pod, from its annotations, from the PCI addresses in  *)
(* its environment and from the network stack.                             *)
(*                                                                         *)
(* An interface has the network it is attached to (namespace and name;     *)
(* Unnamed when the annotations do not tell), its name in the pod, whether *)
(* it is the default one, a device type and its DeviceInfo: kind "none"    *)
(* for nil, "pci", "vdpa" or "other", and an address.                      *)
(***************************************************************************)
EXTENDS Integers, Sequences, FiniteSets

CONSTANTS
  Annotations,  \* interface lists the annotations of a pod may hold
  Environments, \* PCIDEVICE variables of a pod: their addresses, by variable
  LinkSets,     \* links of a pod: name to address, "none", "error" or "loopback"
  Fold          \* strings.EqualFold: what a string is with its case ignored

Words == STRING \cup {"none"}  \* "none" where there is none
Infos == [kind : {"none", "pci", "vdpa", "other"}, address : Words]
DeviceTypes == {"unknown", "host", "sriov", "vdpa", "vhost", "memif"}
Interfaces ==
  [network : Seq(STRING), interface : Words, default : BOOLEAN, deviceType : DeviceTypes,
   info : Infos]

\* A device belongs to one resource and to one interface, a pod has one default
\* interface at most, and app-netutil calls no interface a host interface.
ASSUME AnnotationAssumption ==
  \A list \in Annotations :
     /\ list \in Seq(Interfaces)
     /\ \A i \in DOMAIN list : list[i].deviceType # "host"
     /\ \A i, j \in DOMAIN list :
           i # j => /\ ~(list[i].default /\ list[j].default)
                    /\ list[i].info.kind \in {"pci", "vdpa"} =>
                          Fold[list[i].info.address] # Fold[list[j].info.address]
\* strings.Split returns at least one part.
ASSUME EnvironmentAssumption ==
  \A env \in Environments :
     /\ \A v \in DOMAIN env : env[v] \in Seq(STRING) /\ env[v] # <<>>
     /\ \A v, w \in DOMAIN env : \A k \in DOMAIN env[v], l \in DOMAIN env[w] :
           <<v, k>> # <<w, l>> => Fold[env[v][k]] # Fold[env[w][l]]

VARIABLES
  at,               \* where the caller, or GetInterfaces for it, is
  interfaces,       \* response.Interface
  envs,             \* getEnv's answer: the PCIDEVICE variables
  todo,             \* variables not yet looked at
  key,              \* the variable whose addresses are looked at
  pciAddressSlice,  \* addresses no interface has
  next,             \* address or interface the loop is at
  unknownCnt,
  pciIndex,
  ifNameAddressMap  \* GetNetInterfaces' answer

localVars == <<envs, todo, key, pciAddressSlice, next, unknownCnt, pciIndex>>
interfaceVars == <<at, interfaces, localVars, ifNameAddressMap>>

Unnamed == <<>>
Empty == [x \in {} |-> "none"]
NoInfo == [kind |-> "none", address |-> "none"]
Pci(address) == [kind |-> "pci", address |-> address]

InterfacesInit ==
  /\ interfaces = <<>> /\ ifNameAddressMap = Empty
  /\ envs = Empty /\ todo = {} /\ key = "none" /\ pciAddressSlice = <<>>
  /\ next = 1 /\ unknownCnt = 0 /\ pciIndex = 0

-------------------------------------------------------------------------------
(* GetInterfaces *)

\* No file is no error; a file that cannot be opened is.  The lists are what
\* networkstatus and userplugin of app-netutil make of the file.
ReadAnnotations ==
  /\ at = "annotations"
  /\ \/ /\ at' = "env"
        /\ interfaces' \in Annotations \cup {<<>>}
     \/ /\ at' = "failed"
        /\ UNCHANGED interfaces
  /\ UNCHANGED <<localVars, ifNameAddressMap>>

GetEnv ==
  /\ at = "env"
  /\ \/ /\ at' = "collect"
        /\ envs' \in Environments
        /\ todo' = DOMAIN envs'
     \/ /\ at' = "failed"
        /\ UNCHANGED <<envs, todo>>
  /\ UNCHANGED <<interfaces, key, pciAddressSlice, next, unknownCnt, pciIndex, ifNameAddressMap>>

HasDevice(iface, id) ==
  /\ iface.info.kind \in {"pci", "vdpa"}
  /\ Fold[iface.info.address] = Fold[id]

\* The loop over the interfaces stops at the first that has the device.
FoundAt(id, i) ==
  /\ HasDevice(interfaces[i], id)
  /\ \A j \in 1..(i - 1) : ~HasDevice(interfaces[j], id)

\* Mutant: addresses are compared with their case.
FoundAsSpelled(id) == \E i \in DOMAIN interfaces : interfaces[i].info.address = id
Found(id) == \E i \in DOMAIN interfaces : FoundAt(id, i)

\* The variables are a Go map: they come in any order.
TakeVariable(v) ==
  /\ at = "collect" /\ v \in todo
  /\ at' = "ids" /\ key' = v
  /\ todo' = todo \ {v}
  /\ UNCHANGED <<interfaces, envs, pciAddressSlice, next, unknownCnt, pciIndex, ifNameAddressMap>>

\* The next address of the variable: the interface that has it is an SR-IOV
\* one, unless it is a vDPA device; an address nobody has is kept.
CollectPciAddress ==
  /\ at = "ids"
  /\ LET id == envs[key][next]
     IN  /\ interfaces' = [i \in DOMAIN interfaces |->
              IF interfaces[i].info.kind = "pci" /\ FoundAt(id, i)
              THEN [interfaces[i] EXCEPT !.deviceType = "sriov"]
              ELSE interfaces[i]]
         /\ pciAddressSlice' = IF Found(id) THEN pciAddressSlice ELSE Append(pciAddressSlice, id)
  /\ IF next < Len(envs[key])
     THEN next' = next + 1 /\ UNCHANGED at
     ELSE next' = 1 /\ at' = "collect"
  /\ UNCHANGED <<envs, todo, key, unknownCnt, pciIndex, ifNameAddressMap>>

CountUnknown ==
  /\ at = "collect" /\ todo = {}
  /\ at' = "assign"
  /\ unknownCnt' = Cardinality({i \in DOMAIN interfaces : interfaces[i].deviceType = "unknown"})
  /\ UNCHANGED <<interfaces, envs, todo, key, pciAddressSlice, next, pciIndex, ifNameAddressMap>>

\* When the unknown interfaces outnumber the addresses, the default one is host.
\* Mutant: off by one.
DefaultIsHostLate(iface) == iface.default /\ unknownCnt > Len(pciAddressSlice) + 1
DefaultIsHost(iface) == iface.default /\ unknownCnt > Len(pciAddressSlice)

Becomes(deviceType, info) ==
  /\ interfaces' = [interfaces EXCEPT ![next].deviceType = deviceType, ![next].info = info]
  /\ unknownCnt' = unknownCnt - 1

\* One round of the loop.  An unknown interface that has a DeviceInfo is only
\* warned about while addresses are left.
AssignDevice ==
  /\ at = "assign" /\ next <= Len(interfaces)
  /\ LET iface == interfaces[next]
         left == pciIndex < Len(pciAddressSlice)
     IN  \/ /\ iface.deviceType = "unknown"
            /\ DefaultIsHost(iface) \/ ~left
            /\ Becomes("host", iface.info)
            /\ UNCHANGED pciIndex
         \/ /\ iface.deviceType = "unknown" /\ iface.info = NoInfo
            /\ ~DefaultIsHost(iface) /\ left
            /\ Becomes("sriov", Pci(pciAddressSlice[pciIndex + 1]))
            /\ pciIndex' = pciIndex + 1
         \/ /\ iface.deviceType = "unknown" => iface.info # NoInfo /\ ~DefaultIsHost(iface) /\ left
            /\ UNCHANGED <<interfaces, unknownCnt, pciIndex>>
  /\ next' = next + 1
  /\ UNCHANGED <<at, envs, todo, key, pciAddressSlice, ifNameAddressMap>>

NewInterface(address) ==
  [network |-> Unnamed, interface |-> "none", default |-> FALSE,
   deviceType |-> "sriov", info |-> Pci(address)]

\* The addresses behind pciIndex become interfaces of their own.
AppendLeftovers ==
  /\ at = "assign" /\ next > Len(interfaces)
  /\ at' = "links"
  /\ interfaces' = interfaces \o [k \in 1..(Len(pciAddressSlice) - pciIndex) |->
                                    NewInterface(pciAddressSlice[pciIndex + k])]
  /\ UNCHANGED <<localVars, ifNameAddressMap>>

-------------------------------------------------------------------------------
(* GetNetInterfaces *)

\* Links whose addresses cannot be read, that have none, or whose first one is
\* a loopback address, are left out.
Addresses(links) ==
  [n \in {m \in DOMAIN links : links[m] \notin {"error", "none", "loopback"}} |-> links[n]]

\* The locals of GetInterfaces are gone.
GetNetInterfaces ==
  /\ at = "links"
  /\ \/ \E links \in LinkSets :
           /\ DOMAIN links # {}
           /\ at' = "networks"
           /\ ifNameAddressMap' = Addresses(links)
     \/ /\ at' = "failed"
        /\ UNCHANGED ifNameAddressMap
  /\ envs' = Empty /\ todo' = {} /\ key' = "none" /\ pciAddressSlice' = <<>>
  /\ next' = 1 /\ unknownCnt' = 0 /\ pciIndex' = 0
  /\ UNCHANGED interfaces

InterfacesNext ==
  \/ ReadAnnotations \/ GetEnv
  \/ \E v \in todo : TakeVariable(v)
  \/ CollectPciAddress \/ CountUnknown \/ AssignDevice \/ AppendLeftovers
  \/ GetNetInterfaces

-------------------------------------------------------------------------------
(* Properties *)

\* When GetInterfaces returns, every PCI address of the environment is the
\* device of exactly one interface: one the annotations gave it to, an unknown
\* one that got it, or one made for it.  None is lost and none is given twice.
AddressesPlacedOnce ==
  at = "links" => \A v \in DOMAIN envs : \A k \in DOMAIN envs[v] :
     \E i \in DOMAIN interfaces :
        /\ HasDevice(interfaces[i], envs[v][k])
        /\ \A j \in DOMAIN interfaces : HasDevice(interfaces[j], envs[v][k]) => j = i

\* The default interface takes a PCI address only when no other interface goes
\* without: it is never marked as an SR-IOV interface while one that could have
\* been is marked as a host interface.  That is so when the default interface
\* comes first, where Multus puts it; the count and the number of addresses that
\* the code compares are not of the same moment for a later one.
DefaultGivesWay ==
  (at = "links" /\ interfaces # <<>>) =>
     LET first == interfaces[1]
         given(iface) == iface.deviceType = "sriov" /\ \E k \in DOMAIN pciAddressSlice :
                            HasDevice(iface, pciAddressSlice[k])
     IN  (first.default /\ given(first)) =>
            \A i \in DOMAIN interfaces : interfaces[i].deviceType # "host"
===============================================================================
