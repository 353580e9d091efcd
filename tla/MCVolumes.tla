----------------------------- MODULE MCVolumes -----------------------------
(* Values for the constants of Volumes that a .cfg file cannot write.      *)
EXTENDS Volumes, TLC

MCHome == [d \in DeviceIds |-> d \div 10]
MCHostnameSets == {{k} : k \in HostKeys}
MCSymmetry ==
  Permutations(Workers) \cup Permutations(VolumeIds) \cup Permutations(VolumeNames)
=============================================================================
