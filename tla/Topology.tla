------------------------------ MODULE Topology ------------------------------
(***************************************************************************)
(* The storage inventory of the server: clusters, nodes and devices in the *)
(* bolt database, the names registered for them, the allocator's rings in  *)
(* memory, and what the executor has done on the storage nodes (trusted    *)
(* pool, LVM volume groups).                                               *)
(*                                                                         *)
(* A REST request runs as a handler and, for the slow ones, a goroutine    *)
(* started by the async manager. One action stands for one stretch of that *)
(* code that nothing can interrupt: a bolt Update or View transaction (one *)
(* writer at a time), a call of the allocator (one mutex), or a remote     *)
(* command. What the code keeps in local variables from one stretch to the *)
(* next is kept in the job record, stale or not. Requests the handlers     *)
(* refuse change nothing and are not steps.                                *)
(*                                                                         *)
(* Abstractions:                                                           *)
(*  - a node's manage and storage hostnames are one set of keys;           *)
(*  - ids are numbers, ordered like the hexadecimal ids the code sorts,    *)
(*    and GenUUID never returns the same one twice;                        *)
(*  - the database does not fail: an Update commits unless its function    *)
(*    returns an error or panics.                                          *)
(***************************************************************************)
EXTENDS Naturals, Sequences, FiniteSets, RingList

CONSTANTS
  ClusterIds, NodeIds, DeviceIds, VolumeIds, BrickIds,
  HostKeys,      \* keys a hostname is registered under (node bucket)
  HostnameSets,  \* the sets of keys a node request may ask for
  DeviceNames,   \* names of disks, such as /dev/sdb
  DeviceSize,    \* size DeviceSetup reports, in units of the accounting
  Slots,         \* activities (handlers or goroutines) in flight at once
  Requests,      \* the kinds of request the clients send
  None

AllRequests ==
  {"ClusterCreate", "ClusterDelete", "NodeAdd", "NodeDelete", "NodeSetState",
   "DeviceAdd", "DeviceDelete", "DeviceSetState", "Restart"}

ASSUME IdsAssumption ==
  /\ NodeIds \subseteq Nat /\ DeviceIds \subseteq Nat
  /\ NodeIds \cap DeviceIds = {}
  /\ ClusterIds \cap (NodeIds \cup DeviceIds) = {}
  /\ None \notin ClusterIds \cup NodeIds \cup DeviceIds \cup DeviceNames
  /\ DeviceSize \in Nat
ASSUME RequestsAssumption ==
  /\ Requests \subseteq AllRequests
  /\ HostnameSets \subseteq (SUBSET HostKeys) \ {{}}

VARIABLES
  clusters,    \* cluster bucket
  nodes,       \* node bucket, by id
  devices,     \* device bucket, by id
  nodeKeys,    \* MANAGE<host> and STORAGE<host> keys in the node bucket
  deviceKeys,  \* DEVICE<node><name> keys in the device bucket
  rings,       \* SimpleAllocator.rings, in memory
  pool,        \* gluster trusted pools: the members of each node's pool
  vgs,         \* devices whose volume group exists on the storage node
  jobs,        \* activities in flight
  uuids        \* ids GenUUID has handed out

dbVars   == <<clusters, nodes, devices, nodeKeys, deviceKeys>>
hostVars == <<pool, vgs>>
vars     == <<dbVars, rings, hostVars, jobs, uuids>>

States == {"online", "offline", "failed"}
Opt(S) == S \cup {None}

Cluster == [nodes : SUBSET NodeIds, volumes : SUBSET VolumeIds]
Node    == [cluster : ClusterIds, keys : SUBSET HostKeys, state : States,
            devices : SUBSET DeviceIds]
Device  == [node : NodeIds, name : DeviceNames, state : States,
            bricks : SUBSET BrickIds, free : Nat]

Steps ==
  {"ClusterDelete.ring",
   "NodeAdd.probe", "NodeAdd.commit", "NodeAdd.undo",
   "NodeDelete.detach", "NodeDelete.commit",
   "DeviceAdd.setup", "DeviceAdd.commit", "DeviceAdd.teardown", "DeviceAdd.undo",
   "DeviceDelete.teardown", "DeviceDelete.ring", "DeviceDelete.commit"}
Job == [at : Steps, cluster : Opt(ClusterIds), node : Opt(NodeIds),
        keys : SUBSET HostKeys, peer : Opt(NodeIds),
        device : Opt(DeviceIds), name : Opt(DeviceNames)]

ASSUME NoneAssumption ==
  /\ None \notin Cluster
  /\ None \notin Node
  /\ None \notin Device
  /\ None \notin Job

Init ==
  /\ clusters   = [c \in ClusterIds |-> None]
  /\ nodes      = [n \in NodeIds |-> None]
  /\ devices    = [d \in DeviceIds |-> None]
  /\ nodeKeys   = {}
  /\ deviceKeys = {}
  /\ rings      = [c \in ClusterIds |-> None]
  /\ pool       = [n \in NodeIds |-> {n}]
  /\ vgs        = {}
  /\ jobs       = [s \in Slots |-> None]
  /\ uuids      = {}

-----------------------------------------------------------------------------
(* Jobs                                                                    *)

At(s, step) == jobs[s] # None /\ jobs[s].at = step
Begin(s, job) == jobs[s] = None /\ jobs' = [jobs EXCEPT ![s] = job]
Goto(s, step) == jobs' = [jobs EXCEPT ![s].at = step]
End(s) == jobs' = [jobs EXCEPT ![s] = None]

NewJob(step, c, n, ks, p, d, name) ==
  [at |-> step, cluster |-> c, node |-> n, keys |-> ks, peer |-> p,
   device |-> d, name |-> name]

(* p is the first id of the sorted list that holds the ids in S.           *)
IsFirst(p, S) ==
  IF S = {} THEN p = None ELSE p \in S /\ \A m \in S : p <= m

-----------------------------------------------------------------------------
(* Rings                                                                   *)

EmptyRing == [n \in NodeIds |-> <<>>]
RingOf(c) == IF rings[c] = None THEN EmptyRing ELSE rings[c]

(* SimpleAllocator.AddDevice for the devices ds of node n, in that order.  *)
AddDevices(c, n, ds) ==
  IF ds = <<>> THEN rings
  ELSE [rings EXCEPT ![c] = [RingOf(c) EXCEPT ![n] = @ \o ds]]

SetRing(c, n, list) == [rings EXCEPT ![c] = [RingOf(c) EXCEPT ![n] = list]]

(* Mutant: everything that is not offline counts as online.                *)
DevicesNotOffline(n) == {d \in nodes[n].devices : devices[d].state # "offline"}

OnlineDevices(n) == {d \in nodes[n].devices : devices[d].state = "online"}

(* NewSimpleAllocatorFromDb: the online devices of the online nodes. It    *)
(* gives up on an id that is not in the database, and the server then runs *)
(* with a nil allocator; ReferentialIntegrity below says this never        *)
(* happens.                                                                *)
RingsFromDb ==
  LET Listed(c) == {n \in clusters[c].nodes : nodes[n].state = "online"}
  IN  [c \in ClusterIds |->
        IF clusters[c] = None \/ \A n \in Listed(c) : OnlineDevices(n) = {}
        THEN None
        ELSE [n \in NodeIds |->
               IF n \in Listed(c) THEN Sorted(OnlineDevices(n)) ELSE <<>>]]

-----------------------------------------------------------------------------
(* Clusters                                                                *)

ClusterCreate(c) ==
  /\ c \notin uuids
  /\ uuids' = uuids \cup {c}
  /\ clusters' = [clusters EXCEPT ![c] = [nodes |-> {}, volumes |-> {}]]
  /\ UNCHANGED <<nodes, devices, nodeKeys, deviceKeys, rings, hostVars, jobs>>

(* Mutant: looks for volumes only.                                         *)
NoVolumesDeleteOk(c) == clusters[c].volumes = {}

(* ClusterEntry.Delete: refused unless the cluster is empty.               *)
ClusterIsDeleteOk(c) == clusters[c].nodes = {} /\ clusters[c].volumes = {}

ClusterDelete(s, c) ==
  /\ clusters[c] # None
  /\ ClusterIsDeleteOk(c)
  /\ clusters' = [clusters EXCEPT ![c] = None]
  /\ Begin(s, NewJob("ClusterDelete.ring", c, None, {}, None, None, None))
  /\ UNCHANGED <<nodes, devices, nodeKeys, deviceKeys, rings, hostVars, uuids>>

(* allocator.RemoveCluster, after the transaction; its error is ignored.   *)
ClusterDeleteRing(s) ==
  /\ At(s, "ClusterDelete.ring")
  /\ rings' = [rings EXCEPT ![jobs[s].cluster] = None]
  /\ End(s)
  /\ UNCHANGED <<dbVars, hostVars, uuids>>

-----------------------------------------------------------------------------
(* Nodes                                                                   *)

(* NodeEntry.Register: neither hostname may be in use.                     *)
(* Mutant: refuses only when both are.                                     *)
SomeHostnameFree(ks) == ~(ks \subseteq nodeKeys)
HostnamesFree(ks) == ks \cap nodeKeys = {}

(* NodeEntry.Deregister. Mutant: gives back one of the hostnames.          *)
DeregisterOne(ks) == nodeKeys \ {CHOOSE k \in ks : TRUE}
NodeDeregister(ks) == nodeKeys \ ks

(* ClusterEntry.NodeDelete. Mutant: the list is not changed.               *)
ClusterKeepsNode(c, n) == clusters
ClusterNodeDelete(c, n) == [clusters EXCEPT ![c].nodes = @ \ {n}]

(* NodeEntry.IsDeleteOk. Mutant: devices that are not in use do not count. *)
UnusedDeleteOk(n) == \A d \in nodes[n].devices : devices[d].state # "online"
NodeIsDeleteOk(n) == nodes[n].devices = {}

(* The peer is the first node the cluster lists, if it lists any.          *)
NodeAdd(s, c, n, ks) ==
  /\ clusters[c] # None
  /\ n \notin uuids
  /\ HostnamesFree(ks)
  /\ uuids' = uuids \cup {n}
  /\ nodeKeys' = nodeKeys \cup ks
  /\ \E peer \in Opt(NodeIds) :
       /\ IsFirst(peer, clusters[c].nodes)
       /\ Begin(s, NewJob(IF peer = None THEN "NodeAdd.commit" ELSE "NodeAdd.probe",
                          c, n, ks, peer, None, None))
  /\ UNCHANGED <<clusters, nodes, devices, deviceKeys, rings, hostVars>>

(* gluster peer probe, run on p: n joins the pool p is in.                 *)
PeerProbe(p, n) ==
  LET joined == pool[p] \cup {n}
  IN  [m \in NodeIds |-> IF m \in joined THEN joined ELSE pool[m]]

(* gluster peer detach: n leaves its pool.                                 *)
PeerDetach(n) ==
  [m \in NodeIds |-> IF m = n THEN {n} ELSE pool[m] \ {n}]

(* A command that reports an error, a timeout say, may have taken effect.  *)
NodeAddProbe(s) ==
  /\ At(s, "NodeAdd.probe")
  /\ \/ /\ pool' = PeerProbe(jobs[s].peer, jobs[s].node)
        /\ Goto(s, "NodeAdd.commit")
     \/ /\ pool' \in {pool, PeerProbe(jobs[s].peer, jobs[s].node)}
        /\ Goto(s, "NodeAdd.undo")
  /\ UNCHANGED <<dbVars, rings, vgs, uuids>>

NodeAddCommit(s) ==
  LET c == jobs[s].cluster
      n == jobs[s].node
  IN  /\ At(s, "NodeAdd.commit")
      /\ \/ /\ clusters[c] # None
            /\ clusters' = [clusters EXCEPT ![c].nodes = @ \cup {n}]
            /\ nodes' = [nodes EXCEPT ![n] =
                 [cluster |-> c, keys |-> jobs[s].keys, state |-> "online",
                  devices |-> {}]]
            /\ End(s)
         \/ /\ clusters[c] = None
            /\ Goto(s, "NodeAdd.undo")
            /\ UNCHANGED <<clusters, nodes>>
      /\ UNCHANGED <<devices, nodeKeys, deviceKeys, rings, hostVars, uuids>>

(* Mutant: the deferred function looks the node up, which is not stored.   *)
NodeAddUndoStored(s) ==
  /\ At(s, "NodeAdd.undo")
  /\ nodes[jobs[s].node] # None
  /\ nodeKeys' = NodeDeregister(jobs[s].keys)
  /\ End(s)
  /\ UNCHANGED <<clusters, nodes, devices, deviceKeys, rings, hostVars, uuids>>

(* The deferred node.Deregister.                                           *)
NodeAddUndo(s) ==
  /\ At(s, "NodeAdd.undo")
  /\ nodeKeys' = NodeDeregister(jobs[s].keys)
  /\ End(s)
  /\ UNCHANGED <<clusters, nodes, devices, deviceKeys, rings, hostVars, uuids>>

(* The checks run in a View; node, cluster and peer are used long after.   *)
NodeDelete(s, n) ==
  LET c == nodes[n].cluster
  IN  /\ nodes[n] # None
      /\ NodeIsDeleteOk(n)
      /\ clusters[c] # None
      /\ \E peer \in Opt(NodeIds) :
           /\ IsFirst(peer, clusters[c].nodes \ {n})
           /\ Begin(s, NewJob(IF peer = None THEN "NodeDelete.commit"
                              ELSE "NodeDelete.detach",
                              c, n, nodes[n].keys, peer, None, None))
      /\ UNCHANGED <<dbVars, rings, hostVars, uuids>>

(* PeerDetach logs an error of the command and returns nil.                *)
NodeDeleteDetach(s) ==
  /\ At(s, "NodeDelete.detach")
  /\ pool' \in {pool, PeerDetach(jobs[s].node)}
  /\ Goto(s, "NodeDelete.commit")
  /\ UNCHANGED <<dbVars, rings, vgs, uuids>>

(* node is the entry read in NodeDelete: its devices were empty then, so   *)
(* node.Delete does not refuse, whatever the database says now.            *)
NodeDeleteCommit(s) ==
  LET c == jobs[s].cluster
      n == jobs[s].node
  IN  /\ At(s, "NodeDelete.commit")
      /\ IF clusters[c] # None
         THEN /\ clusters' = ClusterNodeDelete(c, n)
              /\ nodeKeys' = NodeDeregister(jobs[s].keys)
              /\ nodes' = [nodes EXCEPT ![n] = None]
         ELSE UNCHANGED <<clusters, nodeKeys, nodes>>
      /\ End(s)
      /\ UNCHANGED <<devices, deviceKeys, rings, hostVars, uuids>>

(* Online to offline or failed: every device of the node leaves the ring.  *)
(* RemoveDevice fails when the cluster has no ring; when it panics the     *)
(* transaction is rolled back and the HTTP server's recovery ends the      *)
(* request, but the ring keeps what was removed.                           *)
NodeSetOff(n, st) ==
  LET c       == nodes[n].cluster
      removed == RemoveEach(RingOf(c)[n], Sorted(nodes[n].devices))
  IN  /\ nodes[n] # None /\ nodes[n].state = "online" /\ st # "online"
      /\ clusters[c] # None
      /\ nodes[n].devices # {} => rings[c] # None
      /\ nodes' = IF removed.panic THEN nodes
                  ELSE [nodes EXCEPT ![n].state = st]
      /\ rings' = IF nodes[n].devices = {} THEN rings
                  ELSE SetRing(c, n, removed.list)
      /\ UNCHANGED <<clusters, devices, nodeKeys, deviceKeys, hostVars, jobs, uuids>>

(* Offline to online: the online devices of the node go back to the ring.  *)
NodeSetOnline(n) ==
  LET c == nodes[n].cluster
  IN  /\ nodes[n] # None /\ nodes[n].state = "offline"
      /\ clusters[c] # None
      /\ nodes' = [nodes EXCEPT ![n].state = "online"]
      /\ rings' = AddDevices(c, n, Sorted(OnlineDevices(n)))
      /\ UNCHANGED <<clusters, devices, nodeKeys, deviceKeys, hostVars, jobs, uuids>>

NodeSetFailed(n) ==
  /\ nodes[n] # None /\ nodes[n].state = "offline"
  /\ nodes' = [nodes EXCEPT ![n].state = "failed"]
  /\ UNCHANGED <<clusters, devices, nodeKeys, deviceKeys, rings, hostVars, jobs, uuids>>

NodeSetState(n) ==
  \/ \E st \in {"offline", "failed"} : NodeSetOff(n, st)
  \/ NodeSetOnline(n)
  \/ NodeSetFailed(n)

-----------------------------------------------------------------------------
(* Devices                                                                 *)

(* DeviceEntry.registerKey. Mutant: without the node.                      *)
DeviceKeyAnyNode(n, name) == <<name>>
DeviceKey(n, name) == <<n, name>>

(* DeviceEntry.Register.                                                   *)
DeviceNameFree(n, name) == DeviceKey(n, name) \notin deviceKeys

DeviceAdd(s, n, d, name) ==
  /\ nodes[n] # None
  /\ d \notin uuids
  /\ DeviceNameFree(n, name)
  /\ uuids' = uuids \cup {d}
  /\ deviceKeys' = deviceKeys \cup {DeviceKey(n, name)}
  /\ Begin(s, NewJob("DeviceAdd.setup", None, n, {}, None, d, name))
  /\ UNCHANGED <<clusters, nodes, devices, nodeKeys, rings, hostVars>>

(* Mutant: the error of DeviceSetup is not looked at.                      *)
DeviceAddSetupUnchecked(s) ==
  /\ At(s, "DeviceAdd.setup")
  /\ vgs' \in {vgs, vgs \cup {jobs[s].device}}
  /\ Goto(s, "DeviceAdd.commit")
  /\ UNCHANGED <<dbVars, rings, pool, uuids>>

(* When pvcreate or vgcreate reports an error nothing is cleaned up, and   *)
(* the clean-up after a later error may fail: the volume group can stay.   *)
DeviceAddSetup(s) ==
  /\ At(s, "DeviceAdd.setup")
  /\ \/ /\ vgs' = vgs \cup {jobs[s].device}
        /\ Goto(s, "DeviceAdd.commit")
     \/ /\ vgs' \in {vgs, vgs \cup {jobs[s].device}}
        /\ Goto(s, "DeviceAdd.undo")
  /\ UNCHANGED <<dbVars, rings, pool, uuids>>

(* The device joins the ring whatever the state of its node.               *)
DeviceAddCommit(s) ==
  LET n == jobs[s].node
      d == jobs[s].device
      c == nodes[n].cluster
  IN  /\ At(s, "DeviceAdd.commit")
      /\ \/ /\ nodes[n] # None /\ clusters[c] # None
            /\ nodes' = [nodes EXCEPT ![n].devices = @ \cup {d}]
            /\ devices' = [devices EXCEPT ![d] =
                 [node |-> n, name |-> jobs[s].name, state |-> "online",
                  bricks |-> {}, free |-> DeviceSize]]
            /\ rings' = AddDevices(c, n, <<d>>)
            /\ End(s)
         \/ /\ nodes[n] # None => clusters[c] = None
            /\ Goto(s, "DeviceAdd.teardown")
            /\ UNCHANGED <<nodes, devices, rings>>
      /\ UNCHANGED <<clusters, nodeKeys, deviceKeys, hostVars, uuids>>

(* The two deferred clean-ups, last registered first. DeviceTeardown       *)
(* returns nil even when its commands fail.                                *)
DeviceAddTeardown(s) ==
  /\ At(s, "DeviceAdd.teardown")
  /\ vgs' \in {vgs, vgs \ {jobs[s].device}}
  /\ Goto(s, "DeviceAdd.undo")
  /\ UNCHANGED <<dbVars, rings, pool, uuids>>

DeviceAddUndo(s) ==
  /\ At(s, "DeviceAdd.undo")
  /\ deviceKeys' = deviceKeys \ {DeviceKey(jobs[s].node, jobs[s].name)}
  /\ End(s)
  /\ UNCHANGED <<clusters, nodes, devices, nodeKeys, rings, hostVars, uuids>>

(* The checks run in a View; the entries are used long after.              *)
DeviceDelete(s, d) ==
  LET n == devices[d].node
      c == nodes[n].cluster
  IN  /\ devices[d] # None
      /\ devices[d].bricks = {}
      /\ nodes[n] # None
      /\ clusters[c] # None
      /\ Begin(s, NewJob("DeviceDelete.teardown", c, n, {}, None, d,
                         devices[d].name))
      /\ UNCHANGED <<dbVars, rings, hostVars, uuids>>

DeviceDeleteTeardown(s) ==
  /\ At(s, "DeviceDelete.teardown")
  /\ vgs' \in {vgs, vgs \ {jobs[s].device}}
  /\ Goto(s, "DeviceDelete.ring")
  /\ UNCHANGED <<dbVars, rings, pool, uuids>>

(* allocator.RemoveDevice: without a ring for the cluster the job ends     *)
(* with an error, after the disk has been torn down.                       *)
DeviceDeleteRing(s) ==
  LET c == jobs[s].cluster
      n == jobs[s].node
      d == jobs[s].device
  IN  /\ At(s, "DeviceDelete.ring")
      /\ \/ /\ rings[c] = None
            /\ End(s)
            /\ UNCHANGED rings
         \/ /\ rings[c] # None
            /\ ~RemovePanics(rings[c][n], d)
            /\ rings' = SetRing(c, n, AfterRemove(rings[c][n], d))
            /\ Goto(s, "DeviceDelete.commit")
      /\ UNCHANGED <<dbVars, hostVars, uuids>>

(* The process starts again: goroutines and rings are gone, the database   *)
(* and the storage nodes are as they were.                                 *)
Reboot ==
  /\ jobs' = [s \in Slots |-> None]
  /\ rings' = RingsFromDb
  /\ UNCHANGED <<dbVars, hostVars, uuids>>

(* A panic in Remove is not recovered in a goroutine: it ends the server.  *)
RemovePanicsIn(s) ==
  LET c == jobs[s].cluster
  IN  /\ At(s, "DeviceDelete.ring")
      /\ rings[c] # None
      /\ RemovePanics(rings[c][jobs[s].node], jobs[s].device)

DeviceDeletePanic(s) == RemovePanicsIn(s) /\ Reboot

(* device is the entry read in DeviceDelete: device.Delete does not see    *)
(* bricks placed on it since.                                              *)
DeviceDeleteCommit(s) ==
  LET n == jobs[s].node
      d == jobs[s].device
  IN  /\ At(s, "DeviceDelete.commit")
      /\ IF nodes[n] # None
         THEN /\ nodes' = [nodes EXCEPT ![n].devices = @ \ {d}]
              /\ devices' = [devices EXCEPT ![d] = None]
              /\ deviceKeys' = deviceKeys \ {DeviceKey(n, jobs[s].name)}
         ELSE UNCHANGED <<nodes, devices, deviceKeys>>
      /\ End(s)
      /\ UNCHANGED <<clusters, nodeKeys, rings, hostVars, uuids>>

(* Online to offline or failed; see NodeSetOff for what a panic leaves.    *)
DeviceSetOff(d, st) ==
  LET n == devices[d].node
      c == nodes[n].cluster
  IN  /\ devices[d] # None /\ devices[d].state = "online" /\ st # "online"
      /\ nodes[n] # None /\ clusters[c] # None /\ rings[c] # None
      /\ devices' = IF RemovePanics(rings[c][n], d) THEN devices
                    ELSE [devices EXCEPT ![d].state = st]
      /\ rings' = SetRing(c, n, AfterRemove(rings[c][n], d))
      /\ UNCHANGED <<clusters, nodes, nodeKeys, deviceKeys, hostVars, jobs, uuids>>

(* Offline to online: back to the ring, whatever the state of the node.    *)
DeviceSetOnline(d) ==
  LET n == devices[d].node
      c == nodes[n].cluster
  IN  /\ devices[d] # None /\ devices[d].state = "offline"
      /\ nodes[n] # None /\ clusters[c] # None
      /\ devices' = [devices EXCEPT ![d].state = "online"]
      /\ rings' = AddDevices(c, n, <<d>>)
      /\ UNCHANGED <<clusters, nodes, nodeKeys, deviceKeys, hostVars, jobs, uuids>>

DeviceSetFailed(d) ==
  /\ devices[d] # None /\ devices[d].state = "offline"
  /\ devices' = [devices EXCEPT ![d].state = "failed"]
  /\ UNCHANGED <<clusters, nodes, nodeKeys, deviceKeys, rings, hostVars, jobs, uuids>>

DeviceSetState(d) ==
  \/ \E st \in {"offline", "failed"} : DeviceSetOff(d, st)
  \/ DeviceSetOnline(d)
  \/ DeviceSetFailed(d)

-----------------------------------------------------------------------------
(* The server                                                              *)

(* A step of the activity in slot s.                                       *)
JobStep(s) ==
  \/ ClusterDeleteRing(s)
  \/ NodeAddProbe(s) \/ NodeAddCommit(s) \/ NodeAddUndo(s)
  \/ NodeDeleteDetach(s) \/ NodeDeleteCommit(s)
  \/ DeviceAddSetup(s) \/ DeviceAddCommit(s)
  \/ DeviceAddTeardown(s) \/ DeviceAddUndo(s)
  \/ DeviceDeleteTeardown(s) \/ DeviceDeleteRing(s)
  \/ DeviceDeletePanic(s) \/ DeviceDeleteCommit(s)

(* A handler that finishes in one step needs a free slot for that step.    *)
SlotFree == \E s \in Slots : jobs[s] = None

(* A request a client sends and a handler accepts.                         *)
Request ==
  \/ "ClusterCreate" \in Requests /\ SlotFree /\
       \E c \in ClusterIds : ClusterCreate(c)
  \/ "ClusterDelete" \in Requests /\
       \E s \in Slots, c \in ClusterIds : ClusterDelete(s, c)
  \/ "NodeAdd" \in Requests /\
       \E s \in Slots, c \in ClusterIds, n \in NodeIds, ks \in HostnameSets :
          NodeAdd(s, c, n, ks)
  \/ "NodeDelete" \in Requests /\
       \E s \in Slots, n \in NodeIds : NodeDelete(s, n)
  \/ "NodeSetState" \in Requests /\ SlotFree /\
       \E n \in NodeIds : NodeSetState(n)
  \/ "DeviceAdd" \in Requests /\
       \E s \in Slots, n \in NodeIds, d \in DeviceIds, name \in DeviceNames :
          DeviceAdd(s, n, d, name)
  \/ "DeviceDelete" \in Requests /\
       \E s \in Slots, d \in DeviceIds : DeviceDelete(s, d)
  \/ "DeviceSetState" \in Requests /\ SlotFree /\
       \E d \in DeviceIds : DeviceSetState(d)

Restart == "Restart" \in Requests /\ Reboot

Next == Request \/ Restart \/ \E s \in Slots : JobStep(s)

Spec == Init /\ [][Next]_vars

(* Goroutines are scheduled and every remote command ends, by itself or by *)
(* the timeout its caller gives it.                                        *)
FairSpec == Spec /\ \A s \in Slots : WF_vars(JobStep(s))

-----------------------------------------------------------------------------
(* Properties                                                              *)

DbTypeOK ==
  /\ clusters   \in [ClusterIds -> Opt(Cluster)]
  /\ nodes      \in [NodeIds -> Opt(Node)]
  /\ devices    \in [DeviceIds -> Opt(Device)]
  /\ nodeKeys   \subseteq HostKeys
  /\ deviceKeys \subseteq NodeIds \X DeviceNames
  /\ jobs       \in [Slots -> Opt(Job)]
  /\ uuids      \subseteq ClusterIds \cup NodeIds \cup DeviceIds

(* TypeOK: every bucket, ring, pool and job record has the shape the code  *)
(* gives it.                                                               *)
TypeOK ==
  /\ DbTypeOK
  /\ rings \in [ClusterIds -> Opt([NodeIds -> Seq(DeviceIds)])]
  /\ pool  \in [NodeIds -> SUBSET NodeIds]
  /\ vgs   \subseteq DeviceIds

(* ReferentialIntegrity: an id that a cluster or a node lists is in the    *)
(* database and its entry points back, and a node is listed by the cluster *)
(* it names, however requests, failures and restarts interleave. It is     *)
(* what NewSimpleAllocatorFromDb needs at start, and what NodeInfo and     *)
(* NodeDelete rely on when they follow the lists.                          *)
ReferentialIntegrity ==
  /\ \A c \in ClusterIds : clusters[c] # None =>
       \A n \in clusters[c].nodes : nodes[n] # None /\ nodes[n].cluster = c
  /\ \A n \in NodeIds : nodes[n] # None =>
       /\ clusters[nodes[n].cluster] # None
       /\ n \in clusters[nodes[n].cluster].nodes
       /\ \A d \in nodes[n].devices : devices[d] # None /\ devices[d].node = n

(* NoOrphanDevice: a device in the database belongs to a node that is in   *)
(* the database and lists it. NodeEntry.Delete refuses "because it         *)
(* contains devices" to keep this so.                                      *)
NoOrphanDevice ==
  \A d \in DeviceIds : devices[d] # None =>
    /\ nodes[devices[d].node] # None
    /\ d \in nodes[devices[d].node].devices

(* NamesHeld: the hostnames of a node in the database are registered, and  *)
(* no two nodes share one, so a second NodeAdd for a host in use is always *)
(* refused. The same for disks: the name of a device in the database is    *)
(* registered for its node, and no two devices are the same disk, so one   *)
(* disk is never handed out as two volume groups.                          *)
NamesHeld ==
  /\ \A n \in NodeIds : nodes[n] # None =>
       /\ nodes[n].keys \subseteq nodeKeys
       /\ \A m \in NodeIds \ {n} :
            nodes[m] # None => nodes[m].keys \cap nodes[n].keys = {}
  /\ \A d \in DeviceIds : devices[d] # None =>
       /\ <<devices[d].node, devices[d].name>> \in deviceKeys
       /\ \A e \in DeviceIds \ {d} : devices[e] # None =>
            <<devices[e].node, devices[e].name>> # <<devices[d].node, devices[d].name>>

Adding(s, kind) ==
  /\ jobs[s] # None
  /\ jobs[s].at \in
       IF kind = "node" THEN {"NodeAdd.probe", "NodeAdd.commit", "NodeAdd.undo"}
       ELSE {"DeviceAdd.setup", "DeviceAdd.commit", "DeviceAdd.teardown",
             "DeviceAdd.undo"}

(* Registered names that no entry in the database and no add in flight     *)
(* accounts for: the host or disk cannot be added again.                   *)
LostHostnames ==
  {k \in nodeKeys :
     /\ \A n \in NodeIds : nodes[n] # None => k \notin nodes[n].keys
     /\ \A s \in Slots : Adding(s, "node") => k \notin jobs[s].keys}
LostDeviceNames ==
  {k \in deviceKeys :
     /\ \A d \in DeviceIds : devices[d] # None => k # <<devices[d].node, devices[d].name>>
     /\ \A s \in Slots : Adding(s, "device") => k # <<jobs[s].node, jobs[s].name>>}

(* NamesLostOnlyByCrash: the server must stop in the middle of an add, or  *)
(* no name is lost: the deferred Deregister of a failed add and the        *)
(* deletes release every name they should, however requests overlap and    *)
(* whatever earlier crashes left behind.                                   *)
NamesLostOnlyByCrash ==
  [][\/ Reboot
     \/ /\ LostHostnames' \subseteq LostHostnames
        /\ LostDeviceNames' \subseteq LostDeviceNames]_vars

Deleting(d) ==
  \E s \in Slots : /\ jobs[s] # None
                   /\ jobs[s].device = d
                   /\ jobs[s].at \in {"DeviceDelete.teardown",
                        "DeviceDelete.ring", "DeviceDelete.commit"}

Usable(c, d) ==
  /\ devices[d] # None /\ devices[d].state = "online"
  /\ nodes[devices[d].node] # None
  /\ nodes[devices[d].node].cluster = c
  /\ nodes[devices[d].node].state = "online"

Copies(c, d) ==
  IF rings[c] = None THEN 0
  ELSE LET places == UNION {{n} \X DOMAIN rings[c][n] : n \in NodeIds}
       IN  Cardinality({p \in places : rings[c][p[1]][p[2]] = d})

(* RingMatchesDb: what the server has accumulated in the allocator's ring  *)
(* is what a restart would build from the database: every online device of *)
(* an online node exactly once, and nothing else (a device whose deletion  *)
(* is under way may be out already).                                       *)
RingMatchesDb ==
  \A c \in ClusterIds, d \in DeviceIds :
    IF Usable(c, d) THEN Copies(c, d) = 1 \/ (Deleting(d) /\ Copies(c, d) = 0)
    ELSE Copies(c, d) = 0

(* OfflineNodeUnused: no device of a node that is offline or failed is     *)
(* offered to the allocator: placing a node offline disallows its usage.   *)
OfflineNodeUnused ==
  \A c \in ClusterIds, d \in DeviceIds :
    (devices[d] # None /\ nodes[devices[d].node] # None
       /\ nodes[devices[d].node].state # "online") => Copies(c, d) = 0

(* FailedIsFinal: SetState lets nothing leave the failed state, and a      *)
(* failed device is never put back into a ring, whatever its node does.    *)
FailedIsFinal ==
  [][/\ \A n \in NodeIds : (nodes[n] # None /\ nodes[n].state = "failed") =>
          nodes'[n] = None \/ nodes'[n].state = "failed"
     /\ \A d \in DeviceIds : (devices[d] # None /\ devices[d].state = "failed") =>
          /\ devices'[d] = None \/ devices'[d].state = "failed"
          /\ \A c \in ClusterIds : Copies(c, d)' <= Copies(c, d)]_vars

(* ClusterInOnePool: the nodes of a cluster are in one trusted pool, so    *)
(* that volumes can be created across them. NodeAdd probes the new node    *)
(* "if there is at least one other node" to keep this so; a node being     *)
(* deleted may have left already.                                          *)
ClusterInOnePool ==
  \A c \in ClusterIds : clusters[c] # None =>
    LET staying == {n \in clusters[c].nodes :
                      ~\E s \in Slots : At(s, "NodeDelete.commit")
                                        /\ jobs[s].node = n}
    IN  \A n, m \in staying : m \in pool[n]

(* DeviceBacked: a device in the database has its volume group on the      *)
(* node, unless its deletion is under way: DeviceDelete tears the disk     *)
(* down first and must then also remove the entry.                         *)
DeviceBacked ==
  \A d \in DeviceIds : devices[d] # None => d \in vgs \/ Deleting(d)

(* DeviceDelete goes no further than the teardown: after a restart with    *)
(* every device of the cluster offline the allocator has no ring for it.   *)
DeleteStuck(s) == At(s, "DeviceDelete.ring") /\ rings[jobs[s].cluster] = None

(* HostsLostOnlyByCrash: trusted pools and volume groups are what the      *)
(* database says until the server stops between a command and the          *)
(* transaction that records it, or a delete is stuck without a ring;       *)
(* nothing else takes them apart, failed commands included.                *)
HostsLostOnlyByCrash ==
  [][(ClusterInOnePool /\ DeviceBacked) =>
       \/ (ClusterInOnePool /\ DeviceBacked)'
       \/ Reboot
       \/ \E s \in Slots : DeleteStuck(s)]_vars

(* JobsEnd: every request that was accepted is carried out, given up or    *)
(* lost in a crash; no clean-up waits for ever for its turn.               *)
JobsEnd == \A s \in Slots : jobs[s] # None ~> jobs[s] = None

(* ImplementsInventory: seen through the database, requests served one at  *)
(* a time behave like the atomic operations of Inventory, in spite of      *)
(* failing commands and restarts in the middle of them.                    *)
Inv == INSTANCE Inventory WITH
  live  <- {c \in ClusterIds : clusters[c] # None},
  owner <- [n \in NodeIds |-> IF nodes[n] = None THEN None ELSE nodes[n].cluster],
  home  <- [d \in DeviceIds |-> IF devices[d] = None THEN None ELSE devices[d].node]
ImplementsInventory == Inv!Spec
=============================================================================
