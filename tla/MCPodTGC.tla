------------------------------- MODULE MCPodTGC -------------------------------
(***************************************************************************)
(* PodTGC for TLC: the kinds of events of each run.                        *)
(***************************************************************************)
EXTENDS PodTGC

\* The profile stays once it is there, and what the controller cannot cope with
\* does not happen.
ProfileStays == AllKinds \ {"profileDelete", "mixedUpdate", "shortLine", "missedDelete"}

\* Nor does it here, but for updates of suspend-traffic and another setting.
MixedUpdates == ProfileStays \cup {"mixedUpdate"}
===============================================================================
