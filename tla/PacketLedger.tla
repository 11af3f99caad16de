----------------------------- MODULE PacketLedger -----------------------------
(***************************************************************************)
(* What one traffic stream of package tgen promises about its packets,     *)
(* with the goroutines, the mutex, the socket and the clock left out.      *)
(*                                                                         *)
(* Packets are numbered 1, 2, 3, ... in the order they are issued.  An     *)
(* issued packet is outstanding until it is settled, and it is settled     *)
(* once: as received (its reply arrived in time), as dropped (it timed     *)
(* out) or as failed (it could not be written).  Timeouts are declared     *)
(* oldest first, and never for the newest packet.                          *)
(*                                                                         *)
(* The code keeps three counters and not the fate of each packet, so this  *)
(* specification does too.  Module UdpStream is shown to implement it.     *)
(***************************************************************************)
EXTENDS Integers, FiniteSets

VARIABLES
  issued,       \* number of the newest packet
  outstanding,  \* packets issued and not yet settled
  received,     \* packets settled as received
  dropped,      \* packets settled as dropped
  failed        \* packets settled as failed to send

ledger == <<issued, outstanding, received, dropped, failed>>

LedgerInit ==
  /\ issued = 0
  /\ outstanding = {}
  /\ received = 0
  /\ dropped = 0
  /\ failed = 0

Issue ==
  /\ issued' = issued + 1
  /\ outstanding' = outstanding \cup {issued + 1}
  /\ UNCHANGED <<received, dropped, failed>>

Settle(p) ==
  /\ p \in outstanding
  /\ outstanding' = outstanding \ {p}
  /\ UNCHANGED issued

Receive ==
  /\ \E p \in outstanding : Settle(p)
  /\ received' = received + 1
  /\ UNCHANGED <<dropped, failed>>

\* A timeout settles the oldest outstanding packet, and not the newest one.
Drop ==
  /\ \E p \in outstanding :
        /\ p < issued
        /\ \A q \in outstanding : p <= q
        /\ Settle(p)
  /\ dropped' = dropped + 1
  /\ UNCHANGED <<received, failed>>

\* Only the newest packet can fail to be sent.
Fail ==
  /\ Settle(issued)
  /\ failed' = failed + 1
  /\ UNCHANGED <<received, dropped>>

LedgerNext == Issue \/ Receive \/ Drop \/ Fail

LedgerSpec == LedgerInit /\ [][LedgerNext]_ledger

LedgerTypeOK ==
  /\ issued \in Nat
  /\ outstanding \subseteq 1..issued
  /\ received \in Nat
  /\ dropped \in Nat
  /\ failed \in Nat

\* No packet is lost from the books and none is counted twice: the issued
\* packets are the outstanding ones and those in the three counters.
Balanced == issued = Cardinality(outstanding) + received + dropped + failed
===============================================================================
