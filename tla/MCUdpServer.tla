----------------------------- MODULE MCUdpServer -----------------------------
(***************************************************************************)
(* UdpServer for TLC: the addresses the streams of a run have.             *)
(***************************************************************************)
EXTENDS UdpServer, TLC

CONSTANTS st1, st2, ip1, ip2

OneStream == st1 :> ip1

\* Two streams with an address each.
TwoAddresses == (st1 :> ip1) @@ (st2 :> ip2)
==============================================================================
