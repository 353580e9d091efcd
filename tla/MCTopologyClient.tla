-------------------------- MODULE MCTopologyClient --------------------------
(* A file of two clusters for TopologyClient; one of the three nodes has   *)
(* no device.                                                              *)
EXTENDS TopologyClient

MCFile == << <<1, 0>>, <<1>> >>
=============================================================================
