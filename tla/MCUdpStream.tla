----------------------------- MODULE MCUdpStream -----------------------------
(***************************************************************************)
(* UdpStream for TLC.  The pods that can answer are interchangeable.       *)
(***************************************************************************)
EXTENDS UdpStream, TLC

Symmetry == Permutations(Servers)

\* The value of a setting that does not parse.
NotParsed == -1

\* The send rate changes, to one that does not parse and back.
ChangingRates == {NotParsed, 2}
===============================================================================
