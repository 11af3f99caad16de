-------------------------- MODULE PairingParserProofs --------------------------
(***************************************************************************)
(* Theorems about PairingParser, for any pod, any links and any lines.     *)
(***************************************************************************)
EXTENDS PairingParser, PodInterfacesProofs

Before == {"begin", "annotations", "env", "collect", "ids", "assign", "links", "networks", "failed"}

\* The loop over the lines starts with nothing read and nothing paired, and
\* pairs are picked only behind it.
StageInv ==
  /\ at \in Before \cup {"lines", "pick", "done", "panicked"}
  /\ at \in Before => lines = <<>> /\ pairMap = Empty
  /\ at \notin {"pick", "done"} => pairs = Empty
  /\ lines \in Seq(Lines)

\* Interfaces are collected before the lines are read.
LEMMA Collecting ==
  ASSUME InterfacesNext, at \in Before \cup {"lines", "pick", "done", "panicked"}
  PROVE  at \in Before \ {"failed"} /\ at' \in Before
BY DEF InterfacesNext, ReadAnnotations, GetEnv, TakeVariable, CollectPciAddress, CountUnknown,
       AssignDevice, AppendLeftovers, GetNetInterfaces, Before

LEMMA StageInvInit == Init => StageInv
BY DEF Init, StageInv, Before, Empty

LEMMA StageInvNext == StageInv /\ [Next]_vars => StageInv'
<1> SUFFICES ASSUME StageInv, [Next]_vars PROVE StageInv'
  OBVIOUS
<1> USE DEF StageInv
<1>1. CASE CollectInterfaces
  BY <1>1, Collecting DEF CollectInterfaces, Before
<1>2. CASE HandleAddNetBatConfigMap \/ MapNetworks \/ EndOfLines \/ ReturnPairs
  BY <1>2 DEF HandleAddNetBatConfigMap, MapNetworks, EndOfLines, ReturnPairs, Before
<1>3. ASSUME NEW line \in Lines, ReadLine(line) PROVE StageInv'
  BY <1>3 DEF ReadLine, Before
<1>4. ASSUME NEW text, PickPair(text) PROVE StageInv'
  BY <1>4 DEF PickPair, interfaceVars, Before
<1>5. CASE UNCHANGED vars
  BY <1>5 DEF vars, interfaceVars
<1> QED BY <1>1, <1>2, <1>3, <1>4, <1>5 DEF Next
-------------------------------------------------------------------------------
(* Which source a pair has.                                                 *)

PairsOf(text) ==
  [Source : {Resolve(SourceOf[text])}, Destination : STRING, TrafficProfile : STRING,
   TrafficScenario : STRING]

\* All pairs of a text have the source that its text resolves to, and a picked
\* pair is one of them.  Once lines are read the maps do not change any more.
SourceInv ==
  /\ DOMAIN pairMap \subseteq {t \in DOMAIN SourceOf : SourceOf[t] \in Sources}
  /\ \A t \in DOMAIN pairMap : pairMap[t] \in Seq(PairsOf(t))
  /\ \A t \in DOMAIN pairs : t \in DOMAIN pairMap /\ pairs[t] \in PairsOf(t)

\* A line of this pod can be read, and its source is one.
LEMMA OwnLine ==
  ASSUME NEW line \in Lines, ~Skipped(line), ~TooShort(line)
  PROVE  /\ line.text \in DOMAIN SourceOf /\ SourceOf[line.text] \in Sources
         /\ BatPair(line) \in PairsOf(line.text)
<1>1. /\ line.text \in DOMAIN SourceOf /\ SourceOf[line.text] \in Sources
      /\ line.fields \in Seq(STRING)
  BY LineAssumption DEF Skipped, IsMine
<1>2. Len(line.fields) \in Nat /\ Len(line.fields) >= 3
  BY <1>1 DEF TooShort
<1>3. line.fields[1] \in STRING /\ line.fields[2] \in STRING /\ line.fields[3] \in STRING
  BY <1>1, <1>2
<1> QED BY <1>1, <1>3 DEF BatPair, PairsOf

\* What WithPair does to the pairs: the new one comes behind those of its text.
LEMMA PairAdded ==
  ASSUME NEW line, SourceInv, pairMap' = WithPair(line)
  PROVE  /\ Kept(line.text) \in Seq(PairsOf(line.text))
         /\ DOMAIN pairMap' = DOMAIN pairMap \cup {line.text}
         /\ \A u \in DOMAIN pairMap \ {line.text} : pairMap'[u] = pairMap[u]
         /\ pairMap'[line.text] = Append(Kept(line.text), BatPair(line))
<1>1. Kept(line.text) \in Seq(PairsOf(line.text))
  <2>1. CASE line.text \in DOMAIN pairMap
    BY <2>1, Zenon DEF Kept, SourceInv
  <2>2. CASE line.text \notin DOMAIN pairMap
    <3>1. Kept(line.text) = <<>>
      BY <2>2, Zenon DEF Kept
    <3> QED BY <3>1
  <2> QED BY <2>1, <2>2
<1>2. pairMap' = [t \in DOMAIN pairMap \cup {line.text} |->
                    IF t = line.text THEN Append(Kept(line.text), BatPair(line)) ELSE pairMap[t]]
  BY Zenon DEF WithPair, Kept
<1> QED BY <1>1, <1>2

LEMMA SourceInvNext == StageInv /\ SourceInv /\ [Next]_vars => SourceInv'
<1> SUFFICES ASSUME StageInv, SourceInv, [Next]_vars PROVE SourceInv'
  OBVIOUS
<1>1. ASSUME pairMap' = Empty, pairs' = Empty PROVE SourceInv'
  BY <1>1 DEF SourceInv, Empty
<1>2. ASSUME UNCHANGED <<pairMap, pairs, netIfNameMap, ifNameAddressMap>> PROVE SourceInv'
  <2>1. \A t : PairsOf(t)' = PairsOf(t)
    BY <1>2, Zenon DEF PairsOf, Resolve, AddressOf
  <2> QED BY <1>2, <2>1 DEF SourceInv
<1>3. CASE CollectInterfaces
  BY <1>1, <1>3, Collecting DEF CollectInterfaces, StageInv, Before
<1>4. CASE MapNetworks
  BY <1>1, <1>4 DEF MapNetworks, StageInv, Before
<1>5. CASE HandleAddNetBatConfigMap \/ EndOfLines \/ ReturnPairs \/ UNCHANGED vars
  BY <1>2, <1>5
     DEF HandleAddNetBatConfigMap, EndOfLines, ReturnPairs, vars, interfaceVars
<1>6. ASSUME NEW line \in Lines, ReadLine(line) PROVE SourceInv'
  <2>1. UNCHANGED <<pairs, netIfNameMap, ifNameAddressMap>> /\ pairs = Empty
    BY <1>6 DEF ReadLine, StageInv
  <2>2. CASE UNCHANGED pairMap
    BY <1>2, <2>1, <2>2
  <2>3. CASE pairMap' = WithPair(line) /\ ~Skipped(line) /\ ~TooShort(line)
    <3>1. \A t : PairsOf(t)' = PairsOf(t)
      BY <2>1 DEF PairsOf, Resolve, AddressOf
    <3>2. pairMap'[line.text] \in Seq(PairsOf(line.text))
      <4>1. pairMap'[line.text] = Append(Kept(line.text), BatPair(line))
        BY <2>3, PairAdded
      <4>2. Kept(line.text) \in Seq(PairsOf(line.text)) /\ BatPair(line) \in PairsOf(line.text)
        BY <2>3, PairAdded, OwnLine
      <4> QED BY <4>1, <4>2, AppendProperties
    <3>3. \A t \in DOMAIN pairMap' : pairMap'[t] \in Seq(PairsOf(t))
      BY <2>3, <3>2, PairAdded DEF SourceInv
    <3>4. DOMAIN pairMap' \subseteq {t \in DOMAIN SourceOf : SourceOf[t] \in Sources}
      <4>1. line.text \in DOMAIN SourceOf /\ SourceOf[line.text] \in Sources
        BY <2>3, OwnLine
      <4>2. DOMAIN pairMap' = DOMAIN pairMap \cup {line.text}
        BY <2>3, PairAdded
      <4> QED BY <4>1, <4>2 DEF SourceInv
    <3> QED BY <2>1, <3>1, <3>3, <3>4 DEF SourceInv, Empty
  <2> QED BY <1>6, <2>2, <2>3 DEF ReadLine
<1>7. ASSUME NEW text, PickPair(text) PROVE SourceInv'
  <2>1. UNCHANGED <<pairMap, netIfNameMap, ifNameAddressMap>>
    BY <1>7 DEF PickPair, interfaceVars
  <2>2. \A t : PairsOf(t)' = PairsOf(t)
    BY <2>1 DEF PairsOf, Resolve, AddressOf
  <2>3. PICK k \in DOMAIN pairMap[text] :
          pairs' = [t \in DOMAIN pairs \cup {text} |->
                      IF t = text THEN pairMap[text][k] ELSE pairs[t]]
    BY <1>7 DEF PickPair
  <2>4. text \in DOMAIN pairMap
    BY <1>7 DEF PickPair
  <2>5. pairMap[text] \in Seq(PairsOf(text))
    BY <2>4 DEF SourceInv
  <2>6. pairMap[text][k] \in PairsOf(text)
    BY <2>3, <2>5
  <2>7. \A t \in DOMAIN pairs' : t \in DOMAIN pairMap /\ pairs'[t] \in PairsOf(t)
    BY <2>3, <2>4, <2>6 DEF SourceInv
  <2> QED BY <2>1, <2>2, <2>7 DEF SourceInv
<1> QED BY <1>3, <1>4, <1>5, <1>6, <1>7 DEF Next

\* What Resolve does: it leaves a source alone that has no interface it could find,
\* or sets its interface and takes the address of that if there is one.
LEMMA Resolved ==
  ASSUME NEW source \in Sources
  PROVE  \/ /\ Resolve(source) = source
            /\ \/ source.net # "" /\ <<Namespace, source.net>> \notin DOMAIN netIfNameMap
               \/ source.net = "" /\ source.interface = ""
         \/ \E iface : /\ Resolve(source).interface = iface /\ Resolve(source).net = source.net
                       /\ Resolve(source).ip = AddressOf(iface, source.ip)
<1> DEFINE network == <<Namespace, source.net>>
           from(iface) == [source EXCEPT !.interface = iface, !.ip = AddressOf(iface, source.ip)]
<1>1. \A iface : /\ from(iface).interface = iface /\ from(iface).net = source.net
                 /\ from(iface).ip = AddressOf(iface, source.ip)
  BY DEF Sources
<1>2. ASSUME NEW iface, Resolve(source) = from(iface)
      PROVE  \E i : /\ Resolve(source).interface = i /\ Resolve(source).net = source.net
                    /\ Resolve(source).ip = AddressOf(i, source.ip)
  <2>1. /\ from(iface).interface = iface /\ from(iface).net = source.net
        /\ from(iface).ip = AddressOf(iface, source.ip)
    BY <1>1
  <2> HIDE DEF from
  <2>2. /\ Resolve(source).interface = iface /\ Resolve(source).net = source.net
        /\ Resolve(source).ip = AddressOf(iface, source.ip)
    BY <1>2, <2>1
  <2> QED BY <2>2
<1> HIDE DEF from
<1>3. CASE source.net # "" /\ network \in DOMAIN netIfNameMap
  <2>1. Resolve(source) = from(netIfNameMap[network])
    BY <1>3 DEF Resolve, from
  <2> QED BY <1>2, <2>1
<1>4. CASE source.net # "" /\ network \notin DOMAIN netIfNameMap
  BY <1>4 DEF Resolve
<1>5. CASE source.net = "" /\ source.interface # ""
  <2>1. Resolve(source) = from(source.interface)
    BY <1>5 DEF Resolve, from
  <2> QED BY <1>2, <2>1
<1>6. CASE source.net = "" /\ source.interface = ""
  <2>1. Resolve(source) = from("eth0") \/ Resolve(source) = source
    BY <1>6 DEF Resolve, from
  <2> QED BY <1>2, <1>6, <2>1
<1> QED BY <1>3, <1>4, <1>5, <1>6

\* A pair sends from the address of the interface its source names; only where that
\* has none, or the pod is not attached to the network, from the one its line gave.
THEOREM AddressFollowsInterface == Spec => []AddressOfInterface
<1>1. Init => SourceInv
  BY DEF Init, SourceInv, Empty
<1>2. SourceInv => AddressOfInterface
  <2> SUFFICES ASSUME SourceInv, NEW text \in DOMAIN pairs,
                      \/ /\ \/ pairs[text].Source.net = ""
                            \/ <<Namespace, pairs[text].Source.net>> \in DOMAIN netIfNameMap
                         /\ pairs[text].Source.interface # ""
                         /\ pairs[text].Source.interface \in DOMAIN ifNameAddressMap
                      \/ pairs[text].Source.ip # SourceOf[text].ip
               PROVE  /\ pairs[text].Source.interface \in DOMAIN ifNameAddressMap
                      /\ pairs[text].Source.ip = ifNameAddressMap[pairs[text].Source.interface]
    BY DEF AddressOfInterface
  <2>1. SourceOf[text] \in Sources /\ pairs[text].Source = Resolve(SourceOf[text])
    BY DEF SourceInv, PairsOf
  <2> PICK source, found : source = SourceOf[text] /\ found = Resolve(source)
    OBVIOUS
  <2>2. CASE found = source
    BY <2>1, <2>2, Resolved DEF AddressOf
  <2>3. CASE \E iface : found.interface = iface /\ found.ip = AddressOf(iface, source.ip)
    BY <2>1, <2>3 DEF AddressOf
  <2> QED BY <2>1, <2>2, <2>3, Resolved
<1> QED BY <1>1, <1>2, StageInvInit, StageInvNext, SourceInvNext, PTL DEF Spec
-------------------------------------------------------------------------------
(* Which lines have a pair.                                                 *)

Rank(text, k) == Cardinality({j \in OwnLines(text) : j <= k})

Matches(pair, line) ==
  /\ pair.Destination = line.fields[1]
  /\ pair.TrafficProfile = line.fields[2]
  /\ pair.TrafficScenario = line.fields[3]

\* EveryLineCounts for one source.
Complete(text) ==
  /\ Len(Kept(text)) = Cardinality(OwnLines(text))
  /\ \A k \in OwnLines(text) : Matches(Kept(text)[Rank(text, k)], lines[k])

LEMMA CountsEach ==
  EveryLineCounts <=> (at # "panicked" => \A text \in DOMAIN SourceOf : Complete(text))
BY DEF EveryLineCounts, Complete, Matches, Rank

\* A line of the pod that is read comes last, behind all the ranks there are.
LEMMA LineCounted ==
  ASSUME NEW line \in Lines, NEW text \in DOMAIN SourceOf, StageInv, SourceInv, Complete(text),
         lines' = Append(lines, line), pairMap' = WithPair(line),
         ~Skipped(line), ~TooShort(line), line.text = text
  PROVE  Complete(text)'
<1> DEFINE n == Len(lines)
           own == OwnLines(text)
           kept == Kept(text)
<1>1. /\ n \in Nat /\ DOMAIN lines = 1..n /\ DOMAIN lines' = 1..(n + 1)
      /\ lines'[n + 1] = line /\ \A k \in 1..n : lines'[k] = lines[k]
  BY DEF StageInv
<1>2. OwnLines(text)' = own \cup {n + 1} /\ own \subseteq 1..n
  <2>1. \A l : Skipped(l)' <=> Skipped(l)
    BY Zenon DEF Skipped, IsMine
  <2>2. n + 1 \in OwnLines(text)'
    BY <1>1, <2>1 DEF OwnLines
  <2>3. \A k \in 1..n : k \in OwnLines(text)' <=> k \in own
    BY <1>1, <2>1 DEF OwnLines
  <2>4. OwnLines(text)' \subseteq 1..(n + 1) /\ own \subseteq 1..n
    BY <1>1 DEF OwnLines
  <2>5. \A k \in 1..(n + 1) : k = n + 1 \/ k \in 1..n
    BY <1>1
  <2> QED BY <2>2, <2>3, <2>4, <2>5
<1>3. IsFiniteSet(own) /\ Cardinality(own) \in Nat
  <2>1. IsFiniteSet(1..n)
    BY <1>1, FS_Interval
  <2> HIDE DEF own, n
  <2>2. IsFiniteSet(own)
    BY <1>2, <2>1, FS_Subset
  <2> QED BY <2>2, FS_CardinalityType
<1>4. Cardinality(own \cup {n + 1}) = Cardinality(own) + 1
  <2>1. n + 1 \notin own
    BY <1>1, <1>2
  <2> QED BY <1>3, <2>1, FS_AddElement
<1>5. /\ kept \in Seq(PairsOf(text)) /\ Len(kept) = Cardinality(own)
      /\ Kept(text)' = Append(kept, BatPair(line))
  <2>1. /\ kept \in Seq(PairsOf(text)) /\ text \in DOMAIN pairMap'
        /\ pairMap'[text] = Append(kept, BatPair(line))
    BY PairAdded
  <2>2. Kept(text)' = pairMap'[text]
    BY <2>1, Zenon DEF Kept
  <2> QED BY <2>1, <2>2 DEF Complete
<1>6. Len(Kept(text)') = Cardinality(own) + 1
  BY <1>5
<1>7. ASSUME NEW k \in own
      PROVE  Matches(Kept(text)'[Rank(text, k)'], lines'[k])
  <2>1. Rank(text, k)' = Rank(text, k)
    <3>1. {j \in own \cup {n + 1} : j <= k} = {j \in own : j <= k}
      BY <1>1, <1>2
    <3> QED BY <1>2, <3>1 DEF Rank
  <2>2. Rank(text, k) \in 1..Len(kept)
    <3> DEFINE below == {j \in own : j <= k}
    <3>1. IsFiniteSet(below) /\ Cardinality(below) <= Cardinality(own)
      BY <1>3, FS_Subset
    <3>2. k \in below
      BY <1>1, <1>2
    <3>3. Cardinality(below) \in Nat /\ Cardinality(below) # 0
      BY <3>1, <3>2, FS_CardinalityType, FS_EmptySet
    <3> HIDE DEF below
    <3>4. Cardinality(below) \in 1..Len(kept)
      BY <1>3, <1>5, <3>1, <3>3
    <3> QED BY <3>4 DEF Rank, below
  <2>3. Kept(text)'[Rank(text, k)] = kept[Rank(text, k)]
    BY <1>5, <2>2
  <2>4. Matches(kept[Rank(text, k)], lines[k]) /\ lines'[k] = lines[k]
    BY <1>1, <1>2 DEF Complete
  <2> QED BY <2>1, <2>3, <2>4 DEF Matches
<1>8. Matches(Kept(text)'[Cardinality({j \in OwnLines(text)' : j <= n + 1})], lines'[n + 1])
  <2>1. {j \in own \cup {n + 1} : j <= n + 1} = own \cup {n + 1}
    BY <1>1, <1>2
  <2>2. Cardinality({j \in OwnLines(text)' : j <= n + 1}) = Len(kept) + 1
    BY <1>2, <1>4, <1>5, <2>1
  <2>3. Kept(text)'[Len(kept) + 1] = BatPair(line)
    BY <1>5
  <2>4. Matches(BatPair(line), line)
    BY DEF BatPair, Matches
  <2> QED BY <1>1, <2>2, <2>3, <2>4
<1>9. \A k \in OwnLines(text)' : Matches(Kept(text)'[Rank(text, k)'], lines'[k])
  <2> SUFFICES ASSUME NEW k \in OwnLines(text)'
               PROVE  Matches(Kept(text)'[Rank(text, k)'], lines'[k])
    OBVIOUS
  <2>1. CASE k = n + 1
    BY <1>8, <2>1 DEF Rank
  <2>2. CASE k \in own
    BY <1>7, <2>2
  <2> QED BY <1>2, <2>1, <2>2
<1> QED BY <1>2, <1>4, <1>6, <1>9 DEF Complete, Matches

\* A line that is not of this source leaves its pairs alone.
LEMMA LineNotCounted ==
  ASSUME NEW line \in Lines, NEW text \in DOMAIN SourceOf, StageInv, SourceInv, Complete(text),
         lines' = Append(lines, line), Skipped(line) \/ line.text # text,
         UNCHANGED pairMap \/ (pairMap' = WithPair(line) /\ line.text # text)
  PROVE  Complete(text)'
<1> DEFINE n == Len(lines)
           own == OwnLines(text)
<1>1. /\ n \in Nat /\ DOMAIN lines = 1..n /\ DOMAIN lines' = 1..(n + 1)
      /\ lines'[n + 1] = line /\ \A k \in 1..n : lines'[k] = lines[k]
  BY DEF StageInv
<1>2. OwnLines(text)' = own /\ own \subseteq 1..n
  <2>1. \A l : Skipped(l)' <=> Skipped(l)
    BY Zenon DEF Skipped, IsMine
  <2>2. n + 1 \notin OwnLines(text)'
    BY <1>1, <2>1 DEF OwnLines
  <2>3. \A k \in 1..n : k \in OwnLines(text)' <=> k \in own
    BY <1>1, <2>1 DEF OwnLines
  <2>4. OwnLines(text)' \subseteq 1..(n + 1) /\ own \subseteq 1..n
    BY <1>1 DEF OwnLines
  <2>5. \A k \in 1..(n + 1) : k = n + 1 \/ k \in 1..n
    BY <1>1
  <2> QED BY <2>2, <2>3, <2>4, <2>5
<1>3. Kept(text)' = Kept(text)
  <2>1. CASE UNCHANGED pairMap
    BY <2>1 DEF Kept
  <2>2. CASE pairMap' = WithPair(line) /\ line.text # text
    <3>1. /\ DOMAIN pairMap' = DOMAIN pairMap \cup {line.text}
          /\ \A u \in DOMAIN pairMap \ {line.text} : pairMap'[u] = pairMap[u]
      BY <2>2, PairAdded
    <3> QED BY <2>2, <3>1, Zenon DEF Kept
  <2> QED BY <2>1, <2>2
<1>4. \A k \in own : lines'[k] = lines[k]
  BY <1>1, <1>2
<1> QED BY <1>2, <1>3, <1>4 DEF Complete, Rank, Matches

LEMMA CountsNext ==
  StageInv /\ SourceInv /\ EveryLineCounts /\ [Next]_vars => EveryLineCounts'
<1> SUFFICES ASSUME StageInv, SourceInv, EveryLineCounts, [Next]_vars PROVE EveryLineCounts'
  OBVIOUS
<1>1. ASSUME UNCHANGED <<lines, pairMap>>, at # "panicked" \/ at' = "panicked"
      PROVE  EveryLineCounts'
  <2>1. \A text : OwnLines(text)' = OwnLines(text) /\ Kept(text)' = Kept(text)
    BY <1>1, Zenon DEF OwnLines, Kept, Skipped, IsMine
  <2> QED BY <1>1, <2>1 DEF EveryLineCounts
<1>2. CASE CollectInterfaces
  BY <1>1, <1>2, Collecting DEF CollectInterfaces, StageInv, Before
<1>3. CASE HandleAddNetBatConfigMap \/ MapNetworks \/ EndOfLines \/ ReturnPairs
  BY <1>1, <1>3 DEF HandleAddNetBatConfigMap, MapNetworks, EndOfLines, ReturnPairs
<1>4. ASSUME NEW line \in Lines, ReadLine(line) PROVE EveryLineCounts'
  <2>1. at = "lines" /\ lines' = Append(lines, line)
    BY <1>4 DEF ReadLine
  <2>2. SUFFICES ASSUME at' # "panicked", NEW text \in DOMAIN SourceOf PROVE Complete(text)'
    BY CountsEach DEF EveryLineCounts, Complete, Matches, Rank
  <2>3. Complete(text)
    BY <2>1, CountsEach
  <2>4. CASE Skipped(line) /\ UNCHANGED pairMap
    BY <2>1, <2>3, <2>4, LineNotCounted
  <2>5. CASE ~Skipped(line) /\ ~TooShort(line) /\ pairMap' = WithPair(line)
    BY <2>1, <2>3, <2>5, LineCounted, LineNotCounted
  <2> QED BY <1>4, <2>2, <2>4, <2>5 DEF ReadLine
<1>5. ASSUME NEW text, PickPair(text) PROVE EveryLineCounts'
  BY <1>1, <1>5 DEF PickPair, interfaceVars
<1>6. CASE UNCHANGED vars
  BY <1>1, <1>6 DEF vars, interfaceVars
<1> QED BY <1>2, <1>3, <1>4, <1>5, <1>6 DEF Next

\* Every line of the pod has its pair, in the order of the lines.
THEOREM LinesComplete == Spec => []EveryLineCounts
<1>1. Init => SourceInv
  BY DEF Init, SourceInv, Empty
<1>2. Init => EveryLineCounts
  <2> SUFFICES ASSUME Init, NEW text \in DOMAIN SourceOf PROVE Complete(text)
    BY CountsEach
  <2>1. OwnLines(text) = {} /\ Kept(text) = <<>>
    BY DEF Init, OwnLines, Kept, Empty
  <2> QED BY <2>1, FS_EmptySet DEF Complete
<1> QED
  BY <1>1, <1>2, StageInvInit, StageInvNext, SourceInvNext, CountsNext, PTL DEF Spec
-------------------------------------------------------------------------------
(* The interfaces the parser works with.                                    *)

\* The parser's own steps come before GetInterfaces and behind it.
LEMMA InterfacesKept ==
  ASSUME InterfacesInv, UNCHANGED localVars, interfaces' \in {interfaces, <<>>},
         \/ at' \in {"lines", "pick", "done", "panicked", "failed"}
         \/ at = "begin" /\ at' = "annotations" /\ UNCHANGED interfaces
  PROVE  InterfacesInv' /\ AddressesPlacedOnce' /\ DefaultGivesWay'
<1>1. LoopInv'
  <2>1. interfaces' \in Seq(Interfaces)
    <3>1. interfaces \in Seq(Interfaces)
      BY DEF InterfacesInv, LoopInv
    <3>2. <<>> \in Seq(Interfaces)
      OBVIOUS
    <3> QED BY <3>1, <3>2, Zenon
  <2> QED BY <2>1 DEF InterfacesInv, LoopInv, Collects, localVars
<1>2. AnnotatedInv' /\ PlaceInv' /\ DefaultInv'
  BY DEF AnnotatedInv, PlaceInv, DefaultInv, Collects
<1>3. AddressesPlacedOnce' /\ DefaultGivesWay'
  BY DEF AddressesPlacedOnce, DefaultGivesWay
<1> QED BY <1>1, <1>2, <1>3 DEF InterfacesInv

PodInv == StageInv /\ InterfacesInv /\ AddressesPlacedOnce /\ DefaultGivesWay

LEMMA PodInvInit == Init => PodInv
<1> SUFFICES ASSUME Init PROVE PodInv
  OBVIOUS
<1>1. at = "begin" /\ InterfacesInit
  BY DEF Init
<1>2. LoopInv
  BY <1>1 DEF InterfacesInit, LoopInv, Collects
<1>3. AnnotatedInv /\ PlaceInv /\ DefaultInv /\ AddressesPlacedOnce /\ DefaultGivesWay
  BY <1>1 DEF AnnotatedInv, PlaceInv, DefaultInv, Collects, AddressesPlacedOnce, DefaultGivesWay
<1> QED BY <1>2, <1>3, StageInvInit DEF PodInv, InterfacesInv

LEMMA PodInvNext == PodInv /\ [Next]_vars => PodInv'
<1> SUFFICES ASSUME PodInv, [Next]_vars PROVE PodInv'
  OBVIOUS
<1>1. StageInv /\ StageInv'
  BY StageInvNext DEF PodInv
<1>2. SUFFICES InterfacesInv' /\ AddressesPlacedOnce' /\ DefaultGivesWay'
  BY <1>1 DEF PodInv
<1>3. CASE CollectInterfaces
  BY <1>3, InterfacesStep DEF PodInv, CollectInterfaces
<1>4. CASE HandleAddNetBatConfigMap \/ MapNetworks \/ EndOfLines \/ ReturnPairs
  BY <1>4, InterfacesKept
     DEF PodInv, HandleAddNetBatConfigMap, MapNetworks, EndOfLines, ReturnPairs
<1>5. ASSUME NEW line \in Lines, ReadLine(line)
      PROVE  InterfacesInv' /\ AddressesPlacedOnce' /\ DefaultGivesWay'
  BY <1>5, InterfacesKept DEF PodInv, ReadLine
<1>6. ASSUME NEW text, PickPair(text)
      PROVE  InterfacesInv' /\ AddressesPlacedOnce' /\ DefaultGivesWay'
  BY <1>6, InterfacesKept DEF PodInv, PickPair, interfaceVars
<1>7. CASE UNCHANGED vars
  <2>1. UNCHANGED <<at, interfaces, envs, todo, key, pciAddressSlice, next, unknownCnt, pciIndex>>
    BY <1>7 DEF vars, interfaceVars, localVars
  <2> QED
    BY <2>1, SMTT(30)
       DEF PodInv, InterfacesInv, LoopInv, AnnotatedInv, PlaceInv, DefaultInv, Collects, Pending,
           Holders, Waiting, Unknown, GivenFirst, NoHost, HasDevice, AddressesPlacedOnce,
           DefaultGivesWay
<1> QED BY <1>3, <1>4, <1>5, <1>6, <1>7 DEF Next

\* GetInterfaces gives every PCI address of the environment one interface.
THEOREM AddressesHaveOneInterface == Spec => []AddressesPlacedOnce
<1>1. PodInv => AddressesPlacedOnce
  BY DEF PodInv
<1> QED BY <1>1, PodInvInit, PodInvNext, PTL DEF Spec

\* A default interface that comes first takes an address only if all others can
\* have one.
THEOREM DefaultComesLast == Spec => []DefaultGivesWay
<1>1. PodInv => DefaultGivesWay
  BY DEF PodInv
<1> QED BY <1>1, PodInvInit, PodInvNext, PTL DEF Spec
===============================================================================
