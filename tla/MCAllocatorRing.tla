-------------------------- MODULE MCAllocatorRing --------------------------
(* Symmetry for the model checker: only Init and quantifiers mention ids.  *)
EXTENDS AllocatorRing, TLC

MCSymmetry == Permutations(ZoneIds) \cup Permutations(NodeIds) \cup Permutations(DeviceIds)
=============================================================================
