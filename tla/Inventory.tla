----------------------------- MODULE Inventory -----------------------------
(***************************************************************************)
(* What the REST interface promises about the inventory, each operation in *)
(* one step: a cluster, node or device is there from the moment its add    *)
(* succeeds to the moment its delete succeeds, what is added is added to   *)
(* something that is there, and only what is empty is deleted.             *)
(***************************************************************************)
CONSTANTS ClusterIds, NodeIds, DeviceIds, None

VARIABLES
  live,   \* the clusters that exist
  owner,  \* the cluster of each node, None when the node does not exist
  home    \* the node of each device, None when the device does not exist

vars == <<live, owner, home>>

Init ==
  /\ live  = {}
  /\ owner = [n \in NodeIds |-> None]
  /\ home  = [d \in DeviceIds |-> None]

AddCluster(c) == live' = live \cup {c} /\ UNCHANGED <<owner, home>>

DeleteCluster(c) ==
  /\ \A n \in NodeIds : owner[n] # c
  /\ live' = live \ {c}
  /\ UNCHANGED <<owner, home>>

AddNode(n, c) ==
  /\ c \in live /\ owner[n] = None
  /\ owner' = [owner EXCEPT ![n] = c]
  /\ UNCHANGED <<live, home>>

DeleteNode(n) ==
  /\ \A d \in DeviceIds : home[d] # n
  /\ owner' = [owner EXCEPT ![n] = None]
  /\ UNCHANGED <<live, home>>

AddDevice(d, n) ==
  /\ owner[n] # None /\ home[d] = None
  /\ home' = [home EXCEPT ![d] = n]
  /\ UNCHANGED <<live, owner>>

DeleteDevice(d) ==
  /\ home' = [home EXCEPT ![d] = None]
  /\ UNCHANGED <<live, owner>>

Next ==
  \/ \E c \in ClusterIds : AddCluster(c) \/ DeleteCluster(c)
  \/ \E n \in NodeIds : DeleteNode(n) \/ \E c \in ClusterIds : AddNode(n, c)
  \/ \E d \in DeviceIds : DeleteDevice(d) \/ \E n \in NodeIds : AddDevice(d, n)

Spec == Init /\ [][Next]_vars
=============================================================================
