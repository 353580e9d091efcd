----------------------------- MODULE MCTopology -----------------------------
(* Values for the constants of Topology that a .cfg file cannot write.     *)
EXTENDS Topology, TLC

MCHostnameSets == {{"h1"}, {"h1", "h2"}}
MCAnyHosts == {{"h1"}, {"h2"}, {"h1", "h2"}}
MCTwoHosts == {{"h1"}, {"h2"}}
MCAll == AllRequests
\* nodes stay online
MCOnline == AllRequests \ {"NodeSetState"}
MCUp == AllRequests \ {"Restart"}
MCSymmetry == Permutations(Slots)
=============================================================================
