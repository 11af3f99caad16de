-------------------------- MODULE PacketLedgerProofs --------------------------
(***************************************************************************)
(* The books of PacketLedger balance, for any number of packets.           *)
(***************************************************************************)
EXTENDS PacketLedger, FiniteSetTheorems, TLAPS

LedgerInv == LedgerTypeOK /\ Balanced

\* The set of outstanding packets is finite: it has the newest one as bound.
LEMMA OutstandingFinite ==
  ASSUME NEW n \in Nat, NEW S \in SUBSET (1..n)
  PROVE  IsFiniteSet(S)
<1>1. IsFiniteSet(1..n)
  BY 1 \in Int, n \in Int, FS_Interval
<1> QED BY <1>1, FS_Subset

\* Settling a packet takes exactly one out of the outstanding ones.
LEMMA SettleTakesOne ==
  ASSUME LedgerTypeOK, NEW p, Settle(p)
  PROVE  /\ outstanding' \subseteq 1..issued'
         /\ issued' \in Nat
         /\ Cardinality(outstanding) \in Nat
         /\ Cardinality(outstanding') = Cardinality(outstanding) - 1
<1>1. IsFiniteSet(outstanding)
  BY OutstandingFinite DEF LedgerTypeOK
<1>2. Cardinality(outstanding') = Cardinality(outstanding) - 1
  BY <1>1, FS_RemoveElement DEF Settle
<1> QED BY <1>1, <1>2, FS_CardinalityType DEF Settle, LedgerTypeOK

\* The initial books balance: nothing is issued and every counter is zero.
LEMMA LedgerInvInit == LedgerInit => LedgerInv
BY FS_EmptySet DEF LedgerInit, LedgerInv, LedgerTypeOK, Balanced

\* Issuing, receiving, dropping and failing a packet keep the books balanced.
LEMMA LedgerInvNext == LedgerInv /\ [LedgerNext]_ledger => LedgerInv'
<1> SUFFICES ASSUME LedgerInv, [LedgerNext]_ledger PROVE LedgerInv'
  OBVIOUS
<1>0. LedgerTypeOK /\ Balanced
  BY DEF LedgerInv
<1> USE DEF LedgerInv, Balanced
<1>1. CASE Issue
  <2>1. issued \in Nat /\ outstanding \subseteq 1..issued
    BY <1>0 DEF LedgerTypeOK
  <2>2. IsFiniteSet(outstanding)
    BY <2>1, OutstandingFinite
  <2>3. issued + 1 \notin outstanding
    BY <2>1
  <2>4. Cardinality(outstanding') = Cardinality(outstanding) + 1
    BY <1>1, <2>2, <2>3, FS_AddElement DEF Issue
  <2>5. Cardinality(outstanding) \in Nat
    BY <2>2, FS_CardinalityType
  <2>6. issued' \in Nat /\ outstanding' \subseteq 1..issued'
    <3>1. issued' \in Nat /\ \A q \in outstanding' : q \in 1..issued'
      BY <1>1, <2>1 DEF Issue
    <3> QED BY <3>1
  <2>7. LedgerTypeOK'
    <3>1. received' \in Nat /\ dropped' \in Nat /\ failed' \in Nat
      BY <1>0, <1>1 DEF Issue, LedgerTypeOK
    <3> QED BY <2>6, <3>1 DEF LedgerTypeOK
  <2> QED BY <1>0, <1>1, <2>1, <2>4, <2>5, <2>7 DEF Issue, LedgerTypeOK
<1>2. CASE Receive
  <2>1. PICK p \in outstanding : Settle(p)
    BY <1>2 DEF Receive
  <2>2. /\ outstanding' \subseteq 1..issued' /\ issued' \in Nat
        /\ Cardinality(outstanding) \in Nat
        /\ Cardinality(outstanding') = Cardinality(outstanding) - 1
    BY <1>0, <2>1, SettleTakesOne
  <2>3. issued' = issued
    BY <2>1 DEF Settle
  <2> QED BY <1>0, <1>2, <2>2, <2>3 DEF Receive, LedgerTypeOK
<1>3. CASE Drop
  <2>1. PICK p \in outstanding : Settle(p)
    BY <1>3 DEF Drop
  <2>2. /\ outstanding' \subseteq 1..issued' /\ issued' \in Nat
        /\ Cardinality(outstanding) \in Nat
        /\ Cardinality(outstanding') = Cardinality(outstanding) - 1
    BY <1>0, <2>1, SettleTakesOne
  <2>3. issued' = issued
    BY <2>1 DEF Settle
  <2> QED BY <1>0, <1>3, <2>2, <2>3 DEF Drop, LedgerTypeOK
<1>4. CASE Fail
  <2>1. Settle(issued)
    BY <1>4 DEF Fail
  <2>2. /\ outstanding' \subseteq 1..issued' /\ issued' \in Nat
        /\ Cardinality(outstanding) \in Nat
        /\ Cardinality(outstanding') = Cardinality(outstanding) - 1
    BY <1>0, <2>1, SettleTakesOne
  <2>3. issued' = issued
    BY <2>1 DEF Settle
  <2> QED BY <1>0, <1>4, <2>2, <2>3 DEF Fail, LedgerTypeOK
<1>5. CASE UNCHANGED ledger
  BY <1>0, <1>5 DEF ledger, LedgerTypeOK
<1> QED BY <1>1, <1>2, <1>3, <1>4, <1>5 DEF LedgerNext

\* The issued packets are at every moment the outstanding ones and those in
\* the three counters: none is lost and none is counted twice.
THEOREM LedgerBalanced == LedgerSpec => []Balanced
<1>1. LedgerInv => Balanced
  BY DEF LedgerInv
<1> QED BY <1>1, LedgerInvInit, LedgerInvNext, PTL DEF LedgerSpec
===============================================================================
