----------------------------- MODULE PairingParser -----------------------------
(***************************************************************************)
(* handleAddNetBatConfigMap and getAvailableNetBatPairings of              *)
(* pkg/tgc/tgc.go: which lines of the pairing config map are this pod's,   *)
(* the interface and address each of them sends from, and the one pair     *)
(* that is kept of the lines with the same source.                         *)
(*                                                                         *)
(* A line is the text of its source (sourceStr) and the fields behind it.  *)
(* Lines are grouped by that text, so that two spellings of one source are *)
(* two texts with the same SourceOf.                                       *)
(***************************************************************************)
EXTENDS PodInterfaces

CONSTANTS
  Namespace,        \* of this pod
  PodName,
  PodNamePrefixes,  \* names that are a prefix of PodName
  SourceOf,         \* by text: what json.Unmarshal makes of it, or NotJson
  Lines,            \* lines a config map may have
  MaxLines          \* bound: lines of a config map

NotJson == [type |-> "notJson"]
Blank == [text |-> "blank", fields |-> <<>>]  \* an empty line, or a comment

\* The fields of Source, which are all strings.
Sources ==
  [type : STRING, ns : STRING, name : STRING, net : STRING, interface : STRING, ip : STRING]

ASSUME LineAssumption ==
  /\ \A text \in DOMAIN SourceOf : SourceOf[text] \in Sources \cup {NotJson}
  /\ \A line \in Lines \ {Blank} : line.text \in DOMAIN SourceOf /\ line.fields \in Seq(STRING)
  /\ PodName \in PodNamePrefixes
  /\ MaxLines \in Nat

VARIABLES
  netIfNameMap,  \* network to name of its interface
  lines,         \* the lines read so far
  pairMap,       \* by text: its pairs
  pairs          \* by text: the pair picked

vars == <<interfaceVars, netIfNameMap, lines, pairMap, pairs>>

Init ==
  /\ at = "begin" /\ InterfacesInit
  /\ netIfNameMap = Empty /\ lines = <<>> /\ pairMap = Empty /\ pairs = Empty

\* The data is plain or gzipped; what is neither, or cannot be decoded, is an
\* error.
HandleAddNetBatConfigMap ==
  /\ at = "begin"
  /\ at' \in {"annotations", "failed"}
  /\ UNCHANGED <<interfaces, localVars, ifNameAddressMap, netIfNameMap, lines, pairMap, pairs>>

CollectInterfaces ==
  /\ InterfacesNext
  /\ UNCHANGED <<netIfNameMap, lines, pairMap, pairs>>

\* The last interface of a network is the one that counts.
WinningInterface(network) ==
  CHOOSE i \in DOMAIN interfaces :
     /\ interfaces[i].network = network
     /\ \A j \in DOMAIN interfaces : interfaces[j].network = network => j <= i

MapNetworks ==
  /\ at = "networks"
  /\ at' = "lines"
  /\ netIfNameMap' = [n \in {interfaces[i].network : i \in DOMAIN interfaces} |->
                        interfaces[WinningInterface(n)].interface]
  /\ interfaces' = <<>>
  /\ UNCHANGED <<localVars, ifNameAddressMap, lines, pairMap, pairs>>

-------------------------------------------------------------------------------
(* The loop over the lines *)

\* A deployment or daemon set is recognised by its name being a prefix of the
\* name of the pod.
IsMine(source) ==
  /\ source # NotJson
  /\ source.ns = Namespace
  /\ \/ Fold[source.type] = "pod" /\ source.name = PodName
     \/ Fold[source.type] \in {"deployment", "daemonset"} /\ source.name \in PodNamePrefixes

AddressOf(iface, declared) ==
  IF iface \in DOMAIN ifNameAddressMap THEN ifNameAddressMap[iface] ELSE declared

\* Mutant: source.Interface is not set.
ResolveAddressOnly(source) ==
  LET network == <<Namespace, source.net>>
  IN  IF source.net # "" /\ network \in DOMAIN netIfNameMap
      THEN [source EXCEPT !.ip = AddressOf(netIfNameMap[network], source.ip)]
      ELSE source

\* The interface and address of a source, from its network, from its interface,
\* or the primary ones.  What is not found stays as the line has it.
Resolve(source) ==
  LET network == <<Namespace, source.net>>
      from(iface) == [source EXCEPT !.interface = iface, !.ip = AddressOf(iface, source.ip)]
  IN  CASE source.net # "" /\ network \in DOMAIN netIfNameMap -> from(netIfNameMap[network])
        [] source.net # "" /\ network \notin DOMAIN netIfNameMap -> source
        [] source.net = "" /\ source.interface # "" -> from(source.interface)
        [] source.net = "" /\ source.interface = "" ->
             IF "eth0" \in DOMAIN ifNameAddressMap THEN from("eth0") ELSE source

BatPair(line) ==
  [Source |-> Resolve(SourceOf[line.text]), Destination |-> line.fields[1],
   TrafficProfile |-> line.fields[2], TrafficScenario |-> line.fields[3]]

\* Mutant: the pairs that are there are overwritten.
WithPairOnly(line) ==
  [t \in DOMAIN pairMap \cup {line.text} |->
     IF t = line.text THEN <<BatPair(line)>> ELSE pairMap[t]]

WithPair(line) ==
  LET text == line.text
      before == IF text \in DOMAIN pairMap THEN pairMap[text] ELSE <<>>
  IN  [t \in DOMAIN pairMap \cup {text} |->
         IF t = text THEN Append(before, BatPair(line)) ELSE pairMap[t]]

Skipped(line) == line # Blank => ~IsMine(SourceOf[line.text])

\* The fields behind the source are taken without looking how many there are.
TooShort(line) == ~Skipped(line) /\ Len(line.fields) < 3

ReadLine(line) ==
  /\ at = "lines" /\ Len(lines) < MaxLines
  /\ lines' = Append(lines, line)
  /\ \/ /\ TooShort(line)
        /\ at' = "panicked"
        /\ UNCHANGED pairMap
     \/ /\ Skipped(line) /\ ~TooShort(line)
        /\ UNCHANGED <<at, pairMap>>
     \/ /\ ~Skipped(line) /\ ~TooShort(line)
        /\ pairMap' = WithPair(line)
        /\ UNCHANGED at
  /\ UNCHANGED <<interfaces, localVars, ifNameAddressMap, netIfNameMap, pairs>>

EndOfLines ==
  /\ at = "lines"
  /\ at' = "pick"
  /\ UNCHANGED <<interfaces, localVars, ifNameAddressMap, netIfNameMap, lines, pairMap, pairs>>

\* pairMap is a Go map: its texts come in any order.
PickPair(text) ==
  /\ at = "pick" /\ text \in DOMAIN pairMap \ DOMAIN pairs
  /\ \E k \in DOMAIN pairMap[text] :
        pairs' = [t \in DOMAIN pairs \cup {text} |->
                    IF t = text THEN pairMap[text][k] ELSE pairs[t]]
  /\ UNCHANGED <<interfaceVars, netIfNameMap, lines, pairMap>>

ReturnPairs ==
  /\ at = "pick" /\ DOMAIN pairs = DOMAIN pairMap
  /\ at' = "done"
  /\ UNCHANGED <<interfaces, localVars, ifNameAddressMap, netIfNameMap, lines, pairMap, pairs>>

Next ==
  \/ HandleAddNetBatConfigMap \/ CollectInterfaces \/ MapNetworks
  \/ \E line \in Lines : ReadLine(line)
  \/ EndOfLines
  \/ \E text \in DOMAIN pairMap : PickPair(text)
  \/ ReturnPairs

Spec == Init /\ [][Next]_vars

-------------------------------------------------------------------------------
(* Properties *)

\* The lines read so far that are this pod's and have this source.
OwnLines(text) == {k \in DOMAIN lines : lines[k].text = text /\ ~Skipped(lines[k])}
Kept(text) == IF text \in DOMAIN pairMap THEN pairMap[text] ELSE <<>>

\* The pairs kept for a source are those of all its lines that are this pod's, in
\* order: each destination of a source has its chance in the random pick, whatever
\* lines of other pods, comments and unreadable lines stand between them.
EveryLineCounts ==
  at # "panicked" => \A text \in DOMAIN SourceOf :
     /\ Len(Kept(text)) = Cardinality(OwnLines(text))
     /\ \A k \in OwnLines(text) :
           LET pair == Kept(text)[Cardinality({j \in OwnLines(text) : j <= k})]
           IN  /\ pair.Destination = lines[k].fields[1]
               /\ pair.TrafficProfile = lines[k].fields[2]
               /\ pair.TrafficScenario = lines[k].fields[3]

\* A stream sends from the interface its labels name: an address that the line did
\* not give itself is the one of the interface in the pair's source, and when that
\* interface has an address the pair has it, whatever the line declares; a line whose
\* network the pod is not attached to stays as it is.
AddressOfInterface ==
  \A text \in DOMAIN pairs :
     LET source == pairs[text].Source
         attached == source.net = "" \/ <<Namespace, source.net>> \in DOMAIN netIfNameMap
         addressed == source.interface \in DOMAIN ifNameAddressMap
     IN  \/ attached /\ source.interface # "" /\ addressed
         \/ source.ip # SourceOf[text].ip
         => addressed /\ source.ip = ifNameAddressMap[source.interface]
===============================================================================
