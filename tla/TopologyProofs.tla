--------------------------- MODULE TopologyProofs ---------------------------
(***************************************************************************)
(* ReferentialIntegrity for every number of clusters, nodes, devices and   *)
(* concurrent activities, and every mix of requests and restarts.          *)
(*                                                                         *)
(* The handlers check in one transaction and act in a later one, so the    *)
(* lists in the database stay consistent only because of what a job in     *)
(* flight carries: the id of an add is its own and not in the database     *)
(* yet, and a delete holds the cluster or node its entry really points to. *)
(* JobsSound says this, Issued says ids in use came from GenUUID, and the  *)
(* three together with DbTypeOK are inductive.                             *)
(***************************************************************************)
EXTENDS Topology, TLAPS

AddsNode(s) ==
  jobs[s] # None /\ jobs[s].at \in {"NodeAdd.probe", "NodeAdd.commit", "NodeAdd.undo"}
DeletesNode(s) ==
  jobs[s] # None /\ jobs[s].at \in {"NodeDelete.detach", "NodeDelete.commit"}
AddsDevice(s) ==
  jobs[s] # None /\ jobs[s].at \in
    {"DeviceAdd.setup", "DeviceAdd.commit", "DeviceAdd.teardown", "DeviceAdd.undo"}
DeletesDevice(s) ==
  jobs[s] # None /\ jobs[s].at \in
    {"DeviceDelete.teardown", "DeviceDelete.ring", "DeviceDelete.commit"}

Issued ==
  /\ \A c \in ClusterIds : clusters[c] # None => c \in uuids
  /\ \A n \in NodeIds : nodes[n] # None => n \in uuids
  /\ \A d \in DeviceIds : devices[d] # None => d \in uuids

(* What a job in flight knows of the database.                             *)
NodeAddSound(s) ==
  AddsNode(s) =>
    /\ jobs[s].cluster \in ClusterIds /\ jobs[s].node \in NodeIds
    /\ jobs[s].node \in uuids /\ nodes[jobs[s].node] = None
NodeDeleteSound(s) ==
  DeletesNode(s) =>
    /\ jobs[s].cluster \in ClusterIds /\ jobs[s].node \in NodeIds
    /\ jobs[s].node \in uuids
    /\ nodes[jobs[s].node] # None => nodes[jobs[s].node].cluster = jobs[s].cluster
DeviceAddSound(s) ==
  AddsDevice(s) =>
    /\ jobs[s].node \in NodeIds /\ jobs[s].device \in DeviceIds
    /\ jobs[s].name \in DeviceNames
    /\ jobs[s].device \in uuids /\ devices[jobs[s].device] = None
DeviceDeleteSound(s) ==
  DeletesDevice(s) =>
    /\ jobs[s].node \in NodeIds /\ jobs[s].device \in DeviceIds
    /\ jobs[s].device \in uuids
    /\ devices[jobs[s].device] # None => devices[jobs[s].device].node = jobs[s].node
Sound(s) ==
  NodeAddSound(s) /\ NodeDeleteSound(s) /\ DeviceAddSound(s) /\ DeviceDeleteSound(s)

(* The id of an add is in no other job.                                    *)
Apart(s, t) ==
  /\ AddsNode(s) /\ (AddsNode(t) \/ DeletesNode(t)) => jobs[t].node # jobs[s].node
  /\ AddsDevice(s) /\ (AddsDevice(t) \/ DeletesDevice(t)) => jobs[t].device # jobs[s].device

JobsSound ==
  /\ \A s \in Slots : Sound(s)
  /\ \A s, t \in Slots : s # t => Apart(s, t)

IInv == DbTypeOK /\ ReferentialIntegrity /\ Issued /\ JobsSound

(* A step of the job in slot s leaves the other jobs alone: what is to be  *)
(* shown is that the database still suits them and that s is sound again.  *)
LEMMA Frame ==
  ASSUME JobsSound, NEW s \in Slots,
         \A t \in Slots \ {s} : jobs'[t] = jobs[t],
         \A t \in Slots : Sound(t)',
         \A t \in Slots \ {s} : Apart(s, t)' /\ Apart(t, s)'
  PROVE  JobsSound'
<1>1. ASSUME NEW t \in Slots, NEW u \in Slots, t # u PROVE Apart(t, u)'
  <2>1. CASE t = s \/ u = s
    BY <1>1, <2>1, Zenon
  <2>2. CASE t # s /\ u # s
    <3>1. Apart(t, u) /\ jobs'[t] = jobs[t] /\ jobs'[u] = jobs[u]
      BY <1>1, <2>2, Zenon DEF JobsSound
    <3> QED BY <3>1, Zenon DEF Apart, AddsNode, DeletesNode, AddsDevice, DeletesDevice
  <2> QED BY <2>1, <2>2, Zenon
<1> QED BY <1>1, Zenon DEF JobsSound

(* A job that did not move is sound as long as the entries it is about are *)
(* as they were.                                                           *)
LEMMA StillSound ==
  ASSUME NEW t \in Slots, Sound(t), jobs'[t] = jobs[t], uuids \subseteq uuids',
         AddsNode(t) => nodes'[jobs[t].node] = None,
         DeletesNode(t) => \/ nodes'[jobs[t].node] = None
                           \/ nodes'[jobs[t].node].cluster = jobs[t].cluster,
         AddsDevice(t) => devices'[jobs[t].device] = None,
         DeletesDevice(t) => \/ devices'[jobs[t].device] = None
                             \/ devices'[jobs[t].device].node = jobs[t].node
  PROVE  Sound(t)'
<1>1. NodeAddSound(t)'
  BY Zenon DEF Sound, NodeAddSound, AddsNode
<1>2. NodeDeleteSound(t)'
  BY Zenon DEF Sound, NodeDeleteSound, DeletesNode
<1>3. DeviceAddSound(t)'
  BY Zenon DEF Sound, DeviceAddSound, AddsDevice
<1>4. DeviceDeleteSound(t)'
  BY Zenon DEF Sound, DeviceDeleteSound, DeletesDevice
<1> QED BY <1>1, <1>2, <1>3, <1>4, Zenon DEF Sound

(* The same when the step does not touch nodes and devices at all.         *)
LEMMA SameSound ==
  ASSUME NEW t \in Slots, Sound(t), jobs'[t] = jobs[t], uuids \subseteq uuids',
         nodes' = nodes, devices' = devices
  PROVE  Sound(t)'
<1>1. /\ AddsNode(t) => nodes'[jobs[t].node] = None
      /\ DeletesNode(t) => \/ nodes'[jobs[t].node] = None
                           \/ nodes'[jobs[t].node].cluster = jobs[t].cluster
  BY Zenon DEF Sound, NodeAddSound, NodeDeleteSound
<1>2. /\ AddsDevice(t) => devices'[jobs[t].device] = None
      /\ DeletesDevice(t) => \/ devices'[jobs[t].device] = None
                             \/ devices'[jobs[t].device].node = jobs[t].node
  BY Zenon DEF Sound, DeviceAddSound, DeviceDeleteSound
<1> QED BY <1>1, <1>2, StillSound, Zenon

(* A job that is over, or that is none of the four kinds, is sound.        *)
LEMMA IdleSound ==
  ASSUME NEW s \in Slots,
         ~AddsNode(s)', ~DeletesNode(s)', ~AddsDevice(s)', ~DeletesDevice(s)'
  PROVE  Sound(s)' /\ \A t \in Slots : Apart(s, t)' /\ Apart(t, s)'
<1>1. Sound(s)'
  BY Zenon DEF Sound, NodeAddSound, NodeDeleteSound, DeviceAddSound, DeviceDeleteSound
<1>2. ASSUME NEW t \in Slots PROVE Apart(s, t)' /\ Apart(t, s)'
  BY Zenon DEF Apart
<1> QED BY <1>1, <1>2, Zenon

(* The same for a step that changes neither nodes nor devices.             *)
LEMMA JobFrame ==
  ASSUME JobsSound, NEW s \in Slots,
         \A t \in Slots \ {s} : jobs'[t] = jobs[t],
         uuids \subseteq uuids', nodes' = nodes, devices' = devices,
         Sound(s)',
         \A t \in Slots \ {s} : Apart(s, t)' /\ Apart(t, s)'
  PROVE  JobsSound'
<1>1. ASSUME NEW t \in Slots PROVE Sound(t)'
  <2>1. CASE t # s
    BY <2>1, SameSound, Zenon DEF JobsSound
  <2> QED BY <2>1, Zenon
<1> QED BY <1>1, Frame, Zenon

(* A step that leaves all jobs where they are.                             *)
LEMMA JobsStay ==
  ASSUME JobsSound, jobs' = jobs, \A t \in Slots : Sound(t)'
  PROVE  JobsSound'
<1>1. ASSUME NEW t \in Slots, NEW u \in Slots, t # u PROVE Apart(t, u)'
  <2>1. Apart(t, u)
    BY <1>1, Zenon DEF JobsSound
  <2> QED BY <2>1, Zenon DEF Apart, AddsNode, DeletesNode, AddsDevice, DeletesDevice
<1> QED BY <1>1, Zenon DEF JobsSound

(* A job that moves on within its handler, or ends, keeps what JobsSound   *)
(* says of it as long as the database does not change.                     *)
LEMMA GotoKeeps ==
  ASSUME IInv, NEW s \in Slots, NEW step \in Steps, jobs[s] # None,
         UNCHANGED <<dbVars, uuids>>,
         jobs' = [jobs EXCEPT ![s].at = step],
         AddsNode(s)' => AddsNode(s),
         DeletesNode(s)' => DeletesNode(s),
         AddsDevice(s)' => AddsDevice(s),
         DeletesDevice(s)' => DeletesDevice(s)
  PROVE  IInv'
<1>1. DbTypeOK'
  BY DEF IInv, DbTypeOK, dbVars, Opt, Job
<1>2. ReferentialIntegrity' /\ Issued'
  BY DEF IInv, ReferentialIntegrity, Issued, dbVars
<1>3. /\ \A t \in Slots \ {s} : jobs'[t] = jobs[t]
      /\ jobs'[s].cluster = jobs[s].cluster /\ jobs'[s].node = jobs[s].node
      /\ jobs'[s].device = jobs[s].device /\ jobs'[s].name = jobs[s].name
  BY Zenon DEF IInv, DbTypeOK, Opt, Job
<1>4. \A t \in Slots : /\ AddsNode(t)' => AddsNode(t)
                       /\ DeletesNode(t)' => DeletesNode(t)
                       /\ AddsDevice(t)' => AddsDevice(t)
                       /\ DeletesDevice(t)' => DeletesDevice(t)
  BY <1>3 DEF AddsNode, DeletesNode, AddsDevice, DeletesDevice
<1>5. Sound(s)'
  <2>1. Sound(s) /\ UNCHANGED <<nodes, devices, uuids>>
    BY Zenon DEF IInv, JobsSound, dbVars
  <2>2. NodeAddSound(s)'
    BY <1>3, <2>1, Zenon DEF Sound, NodeAddSound
  <2>3. NodeDeleteSound(s)'
    BY <1>3, <2>1, Zenon DEF Sound, NodeDeleteSound
  <2>4. DeviceAddSound(s)'
    BY <1>3, <2>1, Zenon DEF Sound, DeviceAddSound
  <2>5. DeviceDeleteSound(s)'
    BY <1>3, <2>1, Zenon DEF Sound, DeviceDeleteSound
  <2> QED BY <2>2, <2>3, <2>4, <2>5, Zenon DEF Sound
<1>6. ASSUME NEW t \in Slots \ {s} PROVE Apart(s, t)' /\ Apart(t, s)'
  <2>1. Apart(s, t) /\ Apart(t, s)
    BY Zenon DEF IInv, JobsSound
  <2> QED BY <1>3, <1>4, <2>1, Zenon DEF Apart
<1>7. JobsSound'
  BY <1>3, <1>5, <1>6, JobFrame, Zenon DEF IInv, dbVars
<1> QED BY <1>1, <1>2, <1>7, Zenon DEF IInv

(* A job that ends with the entries as they were.                          *)
LEMMA EndKeeps ==
  ASSUME IInv, NEW s \in Slots, End(s), UNCHANGED <<clusters, nodes, devices, uuids>>
  PROVE  ReferentialIntegrity' /\ Issued' /\ JobsSound' /\ jobs' \in [Slots -> Opt(Job)]
<1>1. ReferentialIntegrity' /\ Issued'
  BY DEF IInv, ReferentialIntegrity, Issued
<1>2. /\ \A t \in Slots \ {s} : jobs'[t] = jobs[t]
      /\ jobs'[s] = None
      /\ jobs' \in [Slots -> Opt(Job)]
  BY Zenon DEF IInv, DbTypeOK, End, Opt
<1>3. ~AddsNode(s)' /\ ~DeletesNode(s)' /\ ~AddsDevice(s)' /\ ~DeletesDevice(s)'
  BY <1>2, Zenon DEF AddsNode, DeletesNode, AddsDevice, DeletesDevice
<1>4. JobsSound'
  BY <1>2, <1>3, IdleSound, JobFrame, Zenon DEF IInv
<1> QED BY <1>1, <1>2, <1>4, Zenon

(* A handler that changes nothing but the state of nodes and devices.      *)
LEMMA StateKeeps ==
  ASSUME IInv, UNCHANGED <<clusters, nodeKeys, deviceKeys, jobs, uuids>>,
         nodes' \in [NodeIds -> Opt(Node)],
         devices' \in [DeviceIds -> Opt(Device)],
         \A n \in NodeIds : nodes[n] = None <=> nodes'[n] = None,
         \A n \in NodeIds : nodes[n] # None =>
           nodes'[n].cluster = nodes[n].cluster /\ nodes'[n].devices = nodes[n].devices,
         \A d \in DeviceIds : devices[d] = None <=> devices'[d] = None,
         \A d \in DeviceIds : devices[d] # None => devices'[d].node = devices[d].node
  PROVE  IInv'
<1>1. DbTypeOK'
  BY Zenon DEF IInv, DbTypeOK
<1>2. ReferentialIntegrity'
  BY DEF IInv, ReferentialIntegrity, DbTypeOK, Opt, Cluster, Node
<1>3. Issued'
  BY Zenon DEF IInv, Issued
<1>4. ASSUME NEW t \in Slots PROVE Sound(t)'
  <2>1. Sound(t)
    BY Zenon DEF IInv, JobsSound
  <2>2. /\ AddsNode(t) => nodes'[jobs[t].node] = None
        /\ DeletesNode(t) => \/ nodes'[jobs[t].node] = None
                             \/ nodes'[jobs[t].node].cluster = jobs[t].cluster
    BY <2>1, Zenon DEF Sound, NodeAddSound, NodeDeleteSound
  <2>3. /\ AddsDevice(t) => devices'[jobs[t].device] = None
        /\ DeletesDevice(t) => \/ devices'[jobs[t].device] = None
                               \/ devices'[jobs[t].device].node = jobs[t].node
    BY <2>1, Zenon DEF Sound, DeviceAddSound, DeviceDeleteSound
  <2> QED BY <2>1, <2>2, <2>3, StillSound, Zenon
<1>5. JobsSound'
  BY <1>4, JobsStay, Zenon DEF IInv
<1> QED BY <1>1, <1>2, <1>3, <1>5, Zenon DEF IInv

(* The empty database at first start.                                      *)
LEMMA InitSound == Init => IInv
<1> SUFFICES ASSUME Init PROVE IInv
  BY Zenon
<1>1. DbTypeOK
  BY Zenon DEF Init, DbTypeOK, Opt
<1>2. ReferentialIntegrity /\ Issued
  BY Zenon DEF Init, ReferentialIntegrity, Issued
<1>3. JobsSound
  BY Zenon DEF Init, JobsSound, Sound, NodeAddSound, NodeDeleteSound, DeviceAddSound,
         DeviceDeleteSound, Apart, AddsNode, DeletesNode, AddsDevice, DeletesDevice
<1> QED BY <1>1, <1>2, <1>3, Zenon DEF IInv

(* ClusterCreate stores a cluster under an id never used before.           *)
LEMMA ClusterCreateKeeps ==
  ASSUME IInv, NEW c \in ClusterIds, ClusterCreate(c)
  PROVE  IInv'
<1>1. DbTypeOK'
  BY IdsAssumption, NoneAssumption, RequestsAssumption, Zenon
  DEF IInv, DbTypeOK, ClusterCreate, Opt, Cluster
<1>2. ReferentialIntegrity'
  BY IdsAssumption, NoneAssumption
  DEF IInv, DbTypeOK, ReferentialIntegrity, Issued, ClusterCreate, Opt, Cluster
<1>3. Issued'
  BY NoneAssumption, Zenon DEF IInv, DbTypeOK, Issued, ClusterCreate, Opt, Cluster
<1>4. JobsSound'
  BY SameSound, JobsStay, Zenon DEF IInv, JobsSound, ClusterCreate
<1> QED BY <1>1, <1>2, <1>3, <1>4, Zenon DEF IInv

(* ClusterDelete removes a cluster only when no node is listed, so no node *)
(* points to it.                                                           *)
LEMMA ClusterDeleteKeeps ==
  ASSUME IInv, NEW s \in Slots, NEW c \in ClusterIds, ClusterDelete(s, c)
  PROVE  IInv'
<1>1. DbTypeOK'
  BY IdsAssumption, NoneAssumption, RequestsAssumption, Zenon
  DEF IInv, DbTypeOK, ClusterDelete, Opt, Cluster, Job, Steps, Begin, NewJob, dbVars
<1>2. ReferentialIntegrity'
  BY DEF IInv, DbTypeOK, ReferentialIntegrity, ClusterDelete, ClusterIsDeleteOk, Opt, Cluster
<1>3. Issued'
  BY Zenon DEF IInv, DbTypeOK, Issued, ClusterDelete
<1>4. JobsSound'
  <2>1. /\ \A t \in Slots \ {s} : jobs'[t] = jobs[t]
        /\ jobs'[s].at = "ClusterDelete.ring"
    BY Zenon DEF IInv, DbTypeOK, ClusterDelete, Begin, NewJob
  <2>2. ~AddsNode(s)' /\ ~DeletesNode(s)' /\ ~AddsDevice(s)' /\ ~DeletesDevice(s)'
    BY <2>1, Zenon DEF AddsNode, DeletesNode, AddsDevice, DeletesDevice
  <2> QED BY <2>1, <2>2, IdleSound, JobFrame, Zenon DEF IInv, ClusterDelete
<1> QED BY <1>1, <1>2, <1>3, <1>4, Zenon DEF IInv

(* NodeAdd registers names and a new id; the id is in no entry and no job. *)
LEMMA NodeAddKeeps ==
  ASSUME IInv, NEW s \in Slots, NEW c \in ClusterIds, NEW n \in NodeIds,
         NEW ks \in HostnameSets, NodeAdd(s, c, n, ks)
  PROVE  IInv'
<1>1. DbTypeOK'
  BY IdsAssumption, NoneAssumption, RequestsAssumption, SMTT(30)
  DEF IInv, DbTypeOK, NodeAdd, Opt, Cluster, Job, Steps, Begin, NewJob, IsFirst
<1>2. ReferentialIntegrity'
  BY DEF IInv, ReferentialIntegrity, NodeAdd
<1>3. Issued'
  BY Zenon DEF IInv, Issued, NodeAdd
<1>4. /\ \A t \in Slots \ {s} : jobs'[t] = jobs[t]
      /\ jobs'[s].at \in {"NodeAdd.probe", "NodeAdd.commit"}
      /\ jobs'[s].cluster = c /\ jobs'[s].node = n
      /\ nodes' = nodes /\ devices' = devices /\ uuids' = uuids \cup {n}
  BY DEF IInv, DbTypeOK, NodeAdd, Begin, NewJob
<1>5. ~DeletesNode(s)' /\ ~AddsDevice(s)' /\ ~DeletesDevice(s)'
  BY <1>4, Zenon DEF DeletesNode, AddsDevice, DeletesDevice
<1>6. nodes[n] = None /\ n \notin uuids
  BY Zenon DEF IInv, Issued, NodeAdd
<1>7. Sound(s)'
  BY <1>4, <1>5, <1>6, Zenon
  DEF Sound, NodeAddSound, NodeDeleteSound, DeviceAddSound, DeviceDeleteSound
<1>8. ASSUME NEW t \in Slots \ {s} PROVE Apart(s, t)' /\ Apart(t, s)'
  <2>1. AddsNode(t)' \/ DeletesNode(t)' => jobs[t].node \in uuids
    BY <1>4, Zenon DEF IInv, JobsSound, Sound, NodeAddSound, NodeDeleteSound, AddsNode,
        DeletesNode
  <2> QED BY <1>4, <1>5, <1>6, <2>1, Zenon DEF Apart
<1>9. JobsSound'
  BY <1>4, <1>7, <1>8, JobFrame, Zenon DEF IInv
<1> QED BY <1>1, <1>2, <1>3, <1>9, Zenon DEF IInv

(* The last transaction of NodeAdd lists and stores the node, or fails     *)
(* because the cluster is gone.                                            *)
LEMMA NodeAddCommitKeeps ==
  ASSUME IInv, NEW s \in Slots, NodeAddCommit(s)
  PROVE  IInv'
<1> DEFINE c == jobs[s].cluster
           n == jobs[s].node
<1>1. CASE clusters[c] = None
  <2>1. AddsNode(s) /\ clusters' = clusters /\ nodes' = nodes /\ Goto(s, "NodeAdd.undo")
    BY <1>1, Zenon DEF NodeAddCommit, AddsNode, At
  <2>2. jobs'[s].at = "NodeAdd.undo"
    BY <2>1, Zenon DEF IInv, DbTypeOK, Goto, Opt, Job, AddsNode
  <2> QED
    BY <1>1, <2>1, <2>2, GotoKeeps, Zenon
    DEF NodeAddCommit, Goto, dbVars, Steps, AddsNode, DeletesNode, AddsDevice,
        DeletesDevice
<1>2. CASE clusters[c] # None
  <2>1. /\ AddsNode(s) /\ c \in ClusterIds /\ n \in NodeIds
        /\ n \in uuids /\ nodes[n] = None /\ jobs[s] \in Job
    BY Zenon DEF IInv, DbTypeOK, JobsSound, Sound, NodeAddSound, NodeAddCommit, At,
        AddsNode, Opt
  <2> DEFINE new == [cluster |-> c, keys |-> jobs[s].keys, state |-> "online",
                     devices |-> {}]
  <2>2. /\ clusters' = [clusters EXCEPT ![c].nodes = @ \cup {n}]
        /\ nodes' = [nodes EXCEPT ![n] = new]
        /\ jobs' = [jobs EXCEPT ![s] = None]
        /\ UNCHANGED <<devices, nodeKeys, deviceKeys, uuids>>
    BY <1>2, Zenon DEF NodeAddCommit, End
  <2>3. new \in Node /\ new # None /\ new.cluster = c /\ new.devices = {}
    BY <2>1, NoneAssumption, SMTT(30) DEF Job, Node, States
  <2>4. clusters[c] \in Cluster /\ clusters'[c] \in Cluster /\ clusters'[c] # None
    BY <1>2, <2>1, <2>2, NoneAssumption, SMTT(30) DEF IInv, DbTypeOK, Opt, Cluster
  <2> HIDE DEF new
  <2>5. DbTypeOK'
    BY <2>1, <2>2, <2>3, <2>4, ZenonT(40) DEF IInv, DbTypeOK, Opt
  <2>6. ReferentialIntegrity'
    BY <1>2, <2>1, <2>2, <2>3, <2>4, SMTT(30) DEF IInv, DbTypeOK, ReferentialIntegrity, Opt, Cluster
  <2>7. Issued'
    BY <1>2, <2>1, <2>2, Zenon DEF IInv, DbTypeOK, Issued
  <2>8. /\ \A t \in Slots \ {s} : jobs'[t] = jobs[t]
        /\ jobs'[s] = None
        /\ \A m \in NodeIds \ {n} : nodes'[m] = nodes[m]
    BY <2>1, <2>2, Zenon DEF IInv, DbTypeOK
  <2>9. ~AddsNode(s)' /\ ~DeletesNode(s)' /\ ~AddsDevice(s)' /\ ~DeletesDevice(s)'
    BY <2>8, Zenon DEF AddsNode, DeletesNode, AddsDevice, DeletesDevice
  <2>10. ASSUME NEW t \in Slots \ {s} PROVE Sound(t)'
    <3>1. Sound(t) /\ Apart(s, t)
      BY Zenon DEF IInv, JobsSound
    <3>2. /\ AddsNode(t) => nodes'[jobs[t].node] = None
          /\ DeletesNode(t) => \/ nodes'[jobs[t].node] = None
                               \/ nodes'[jobs[t].node].cluster = jobs[t].cluster
      BY <2>1, <2>8, <3>1, Zenon DEF Sound, NodeAddSound, NodeDeleteSound, Apart
    <3>3. /\ AddsDevice(t) => devices'[jobs[t].device] = None
          /\ DeletesDevice(t) => \/ devices'[jobs[t].device] = None
                                 \/ devices'[jobs[t].device].node = jobs[t].node
      BY <2>2, <3>1, Zenon DEF Sound, DeviceAddSound, DeviceDeleteSound
    <3> QED BY <2>2, <2>8, <3>1, <3>2, <3>3, StillSound, Zenon
  <2>11. JobsSound'
    BY <2>8, <2>9, <2>10, IdleSound, Frame, Zenon DEF IInv
  <2> QED BY <2>5, <2>6, <2>7, <2>11, Zenon DEF IInv
<1> QED BY <1>1, <1>2, Zenon

(* NodeDelete starts with the cluster the entry points to; the node        *)
(* exists, so no add holds its id.                                         *)
LEMMA NodeDeleteKeeps ==
  ASSUME IInv, NEW s \in Slots, NEW n \in NodeIds, NodeDelete(s, n)
  PROVE  IInv'
<1>1. DbTypeOK'
  BY IdsAssumption, NoneAssumption, SMTT(30)
  DEF IInv, DbTypeOK, NodeDelete, Opt, Node, Cluster, Job, Steps, Begin, NewJob,
      IsFirst, dbVars
<1>2. ReferentialIntegrity' /\ Issued'
  BY DEF IInv, ReferentialIntegrity, Issued, NodeDelete, dbVars
<1>3. /\ \A t \in Slots \ {s} : jobs'[t] = jobs[t]
      /\ jobs'[s].at \in {"NodeDelete.detach", "NodeDelete.commit"}
      /\ jobs'[s].node = n /\ jobs'[s].cluster = nodes[n].cluster
  BY DEF IInv, DbTypeOK, NodeDelete, Begin, NewJob
<1>4. n \in uuids /\ nodes[n] # None /\ nodes[n].cluster \in ClusterIds
  BY Zenon DEF IInv, DbTypeOK, Issued, NodeDelete, Opt, Node
<1>5. ~AddsNode(s)' /\ ~AddsDevice(s)' /\ ~DeletesDevice(s)'
  BY <1>3, Zenon DEF AddsNode, AddsDevice, DeletesDevice
<1>6. UNCHANGED <<nodes, devices, uuids>>
  BY Zenon DEF NodeDelete, dbVars
<1>7. Sound(s)'
  BY <1>3, <1>4, <1>5, <1>6, Zenon
  DEF Sound, NodeAddSound, NodeDeleteSound, DeviceAddSound, DeviceDeleteSound
<1>8. ASSUME NEW t \in Slots \ {s} PROVE Apart(s, t)' /\ Apart(t, s)'
  <2>1. AddsNode(t)' => nodes[jobs[t].node] = None
    BY <1>3, Zenon DEF IInv, JobsSound, Sound, NodeAddSound, AddsNode
  <2> QED BY <1>3, <1>4, <1>5, <2>1, Zenon DEF Apart
<1>9. JobsSound'
  BY <1>3, <1>6, <1>7, <1>8, JobFrame, Zenon DEF IInv
<1> QED BY <1>1, <1>2, <1>9, Zenon DEF IInv

(* The last transaction of NodeDelete takes the node off the list of the   *)
(* right cluster.                                                          *)
LEMMA NodeDeleteCommitKeeps ==
  ASSUME IInv, NEW s \in Slots, NodeDeleteCommit(s)
  PROVE  IInv'
<1> DEFINE c == jobs[s].cluster
           n == jobs[s].node
<1>1. CASE clusters[c] = None
  <2>1. UNCHANGED <<clusters, nodes, devices, nodeKeys, deviceKeys, uuids>> /\ End(s)
    BY <1>1, Zenon DEF NodeDeleteCommit
  <2> QED BY <2>1, EndKeeps, Zenon DEF IInv, DbTypeOK
<1>2. CASE clusters[c] # None
  <2>1. /\ DeletesNode(s) /\ c \in ClusterIds /\ n \in NodeIds
        /\ nodes[n] # None => nodes[n].cluster = c
    BY Zenon DEF IInv, JobsSound, Sound, NodeDeleteSound, NodeDeleteCommit, At, DeletesNode
  <2>2. /\ clusters' = [clusters EXCEPT ![c].nodes = @ \ {n}]
        /\ nodes' = [nodes EXCEPT ![n] = None]
        /\ nodeKeys' \subseteq nodeKeys
        /\ jobs' = [jobs EXCEPT ![s] = None]
        /\ UNCHANGED <<devices, deviceKeys, uuids>>
    BY <1>2, Zenon DEF NodeDeleteCommit, ClusterNodeDelete, NodeDeregister, End
  <2>3. clusters[c] \in Cluster /\ clusters'[c] \in Cluster /\ clusters'[c] # None
    BY <1>2, <2>1, <2>2, NoneAssumption, SMTT(30) DEF IInv, DbTypeOK, Opt, Cluster
  <2>4. DbTypeOK'
    BY <2>1, <2>2, <2>3, ZenonT(40) DEF IInv, DbTypeOK, Opt
  <2>5. ReferentialIntegrity'
    BY <1>2, <2>1, <2>2, <2>3, SMTT(30)
    DEF IInv, DbTypeOK, ReferentialIntegrity, Opt, Cluster, Node
  <2>6. Issued'
    BY <1>2, <2>1, <2>2, Zenon DEF IInv, DbTypeOK, Issued
  <2>7. /\ \A t \in Slots \ {s} : jobs'[t] = jobs[t]
        /\ jobs'[s] = None
        /\ nodes'[n] = None
        /\ \A m \in NodeIds \ {n} : nodes'[m] = nodes[m]
    BY <2>1, <2>2, Zenon DEF IInv, DbTypeOK
  <2>8. ~AddsNode(s)' /\ ~DeletesNode(s)' /\ ~AddsDevice(s)' /\ ~DeletesDevice(s)'
    BY <2>7, Zenon DEF AddsNode, DeletesNode, AddsDevice, DeletesDevice
  <2>9. ASSUME NEW t \in Slots \ {s} PROVE Sound(t)'
    <3>1. Sound(t)
      BY Zenon DEF IInv, JobsSound
    <3>2. /\ AddsNode(t) => nodes'[jobs[t].node] = None
          /\ DeletesNode(t) => \/ nodes'[jobs[t].node] = None
                               \/ nodes'[jobs[t].node].cluster = jobs[t].cluster
      BY <2>7, <3>1, Zenon DEF Sound, NodeAddSound, NodeDeleteSound
    <3>3. /\ AddsDevice(t) => devices'[jobs[t].device] = None
          /\ DeletesDevice(t) => \/ devices'[jobs[t].device] = None
                                 \/ devices'[jobs[t].device].node = jobs[t].node
      BY <2>2, <3>1, Zenon DEF Sound, DeviceAddSound, DeviceDeleteSound
    <3> QED BY <2>2, <2>7, <3>1, <3>2, <3>3, StillSound, Zenon
  <2>10. JobsSound'
    BY <2>7, <2>8, <2>9, IdleSound, Frame, Zenon DEF IInv
  <2> QED BY <2>4, <2>5, <2>6, <2>10, Zenon DEF IInv
<1> QED BY <1>1, <1>2, Zenon

(* DeviceAdd registers the name and a new id.                              *)
LEMMA DeviceAddKeeps ==
  ASSUME IInv, NEW s \in Slots, NEW n \in NodeIds, NEW d \in DeviceIds,
         NEW name \in DeviceNames, DeviceAdd(s, n, d, name)
  PROVE  IInv'
<1>1. DbTypeOK'
  BY SMTT(30) DEF IInv, DbTypeOK, DeviceAdd, DeviceKey, Opt, Job, Steps, Begin, NewJob
<1>2. ReferentialIntegrity' /\ Issued'
  BY DEF IInv, ReferentialIntegrity, Issued, DeviceAdd
<1>3. /\ \A t \in Slots \ {s} : jobs'[t] = jobs[t]
      /\ jobs'[s].at = "DeviceAdd.setup" /\ jobs'[s].node = n
      /\ jobs'[s].device = d /\ jobs'[s].name = name
  BY Zenon DEF IInv, DbTypeOK, DeviceAdd, Begin, NewJob
<1>4. d \notin uuids /\ devices[d] = None /\ uuids' = uuids \cup {d}
  BY Zenon DEF IInv, Issued, DeviceAdd
<1>5. ~AddsNode(s)' /\ ~DeletesNode(s)' /\ ~DeletesDevice(s)'
  BY <1>3, Zenon DEF AddsNode, DeletesNode, DeletesDevice
<1>6. UNCHANGED <<nodes, devices>>
  BY Zenon DEF DeviceAdd
<1>7. Sound(s)'
  BY <1>3, <1>4, <1>5, <1>6, Zenon
  DEF Sound, NodeAddSound, NodeDeleteSound, DeviceAddSound, DeviceDeleteSound
<1>8. ASSUME NEW t \in Slots \ {s} PROVE Apart(s, t)' /\ Apart(t, s)'
  <2>1. AddsDevice(t)' \/ DeletesDevice(t)' => jobs[t].device \in uuids
    BY <1>3, Zenon DEF IInv, JobsSound, Sound, DeviceAddSound, DeviceDeleteSound, AddsDevice,
                DeletesDevice
  <2> QED BY <1>3, <1>4, <1>5, <2>1, Zenon DEF Apart
<1>9. JobsSound'
  BY <1>3, <1>4, <1>6, <1>7, <1>8, JobFrame, Zenon DEF IInv
<1> QED BY <1>1, <1>2, <1>9, Zenon DEF IInv

(* The last transaction of DeviceAdd lists and stores the device, or fails *)
(* because the node is gone.                                               *)
LEMMA DeviceAddCommitKeeps ==
  ASSUME IInv, NEW s \in Slots, DeviceAddCommit(s)
  PROVE  IInv'
<1> DEFINE n == jobs[s].node
           d == jobs[s].device
<1>1. CASE nodes[n] # None => clusters[nodes[n].cluster] = None
  <2>1. /\ AddsDevice(s) /\ Goto(s, "DeviceAdd.teardown")
        /\ UNCHANGED <<dbVars, uuids>>
    BY <1>1, Zenon DEF DeviceAddCommit, AddsDevice, At, dbVars
  <2>2. jobs'[s].at = "DeviceAdd.teardown"
    BY <2>1, Zenon DEF IInv, DbTypeOK, Goto, Opt, Job, AddsDevice
  <2> QED
    BY <2>1, <2>2, GotoKeeps, Zenon
    DEF Goto, Steps, AddsNode, DeletesNode, AddsDevice, DeletesDevice
<1>2. CASE nodes[n] # None /\ clusters[nodes[n].cluster] # None
  <2>1. /\ AddsDevice(s) /\ n \in NodeIds /\ d \in DeviceIds
        /\ jobs[s].name \in DeviceNames /\ d \in uuids /\ devices[d] = None
    BY Zenon DEF IInv, JobsSound, Sound, DeviceAddSound, DeviceAddCommit, At, AddsDevice
  <2> DEFINE new == [node |-> n, name |-> jobs[s].name, state |-> "online",
                     bricks |-> {}, free |-> DeviceSize]
  <2>2. /\ nodes' = [nodes EXCEPT ![n].devices = @ \cup {d}]
        /\ devices' = [devices EXCEPT ![d] = new]
        /\ jobs' = [jobs EXCEPT ![s] = None]
        /\ UNCHANGED <<clusters, nodeKeys, deviceKeys, uuids>>
    BY <1>2, Zenon DEF DeviceAddCommit, End
  <2>3. new \in Device /\ new # None /\ new.node = n
    BY <2>1, NoneAssumption, IdsAssumption, SMTT(30) DEF Device, States
  <2>4. /\ nodes[n] \in Node /\ nodes'[n] \in Node /\ nodes'[n] # None
        /\ nodes'[n].cluster = nodes[n].cluster
        /\ nodes'[n].devices = nodes[n].devices \cup {d}
    BY <1>2, <2>1, <2>2, NoneAssumption, SMTT(30) DEF IInv, DbTypeOK, Opt, Node
  <2> HIDE DEF new
  <2>5. DbTypeOK'
    BY <2>1, <2>2, <2>3, <2>4, Zenon DEF IInv, DbTypeOK, Opt
  <2>6. /\ \A t \in Slots \ {s} : jobs'[t] = jobs[t]
        /\ jobs'[s] = None
        /\ \A m \in NodeIds \ {n} : nodes'[m] = nodes[m]
        /\ \A e \in DeviceIds \ {d} : devices'[e] = devices[e]
        /\ devices'[d] = new
    BY <2>1, <2>2, Zenon DEF IInv, DbTypeOK
  <2>7. \A m \in NodeIds : /\ nodes'[m] = None <=> nodes[m] = None
                           /\ nodes'[m].cluster = nodes[m].cluster
    BY <1>2, <2>4, <2>6, Zenon
  <2>8. ReferentialIntegrity'
    <3>1. ASSUME NEW k \in ClusterIds, clusters'[k] # None, NEW m \in clusters'[k].nodes
          PROVE  nodes'[m] # None /\ nodes'[m].cluster = k
      BY <3>1, <2>2, <2>7, SMTT(30) DEF IInv, DbTypeOK, ReferentialIntegrity, Opt, Cluster
    <3>2. ASSUME NEW m \in NodeIds, nodes'[m] # None
          PROVE  /\ clusters'[nodes'[m].cluster] # None
                 /\ m \in clusters'[nodes'[m].cluster].nodes
      BY <3>2, <2>2, <2>7, SMTT(30) DEF IInv, ReferentialIntegrity
    <3>3. ASSUME NEW m \in NodeIds, nodes'[m] # None, NEW e \in nodes'[m].devices
          PROVE  devices'[e] # None /\ devices'[e].node = m
      <4>1. CASE m = n /\ e = d
        BY <4>1, <2>3, <2>6, Zenon
      <4>2. CASE ~(m = n /\ e = d)
        <5>1. nodes[m] \in Node /\ e \in nodes[m].devices /\ e \in DeviceIds
          BY <4>2, <3>3, <2>4, <2>6, <2>7, SMTT(30) DEF IInv, DbTypeOK, Opt, Node
        <5>2. devices[e] # None /\ devices[e].node = m /\ e # d
          BY <5>1, <2>1, <2>7, <3>3, SMTT(30) DEF IInv, ReferentialIntegrity
        <5> QED BY <5>1, <5>2, <2>6, Zenon
      <4> QED BY <4>1, <4>2, Zenon
    <3> QED BY <3>1, <3>2, <3>3, Zenon DEF ReferentialIntegrity
  <2>9. Issued'
    BY <1>2, <2>1, <2>2, <2>6, SMTT(30) DEF IInv, Issued
  <2>10. ~AddsNode(s)' /\ ~DeletesNode(s)' /\ ~AddsDevice(s)' /\ ~DeletesDevice(s)'
    BY <2>6, Zenon DEF AddsNode, DeletesNode, AddsDevice, DeletesDevice
  <2>11. ASSUME NEW t \in Slots \ {s} PROVE Sound(t)'
    <3>1. Sound(t) /\ Apart(s, t)
      BY Zenon DEF IInv, JobsSound
    <3>2. /\ AddsNode(t) => nodes'[jobs[t].node] = None
          /\ DeletesNode(t) => \/ nodes'[jobs[t].node] = None
                               \/ nodes'[jobs[t].node].cluster = jobs[t].cluster
      BY <2>7, <3>1, Zenon DEF Sound, NodeAddSound, NodeDeleteSound
    <3>3. /\ AddsDevice(t) => devices'[jobs[t].device] = None
          /\ DeletesDevice(t) => \/ devices'[jobs[t].device] = None
                                 \/ devices'[jobs[t].device].node = jobs[t].node
      BY <2>1, <2>6, <3>1, Zenon DEF Sound, DeviceAddSound, DeviceDeleteSound, Apart
    <3> QED BY <2>2, <2>6, <3>1, <3>2, <3>3, StillSound, Zenon
  <2>12. JobsSound'
    BY <2>6, <2>10, <2>11, IdleSound, Frame, SMTT(30) DEF IInv
  <2> QED BY <2>5, <2>8, <2>9, <2>12, Zenon DEF IInv
<1> QED BY <1>1, <1>2, Zenon

(* DeviceDelete starts with the node the entry points to.                  *)
LEMMA DeviceDeleteKeeps ==
  ASSUME IInv, NEW s \in Slots, NEW d \in DeviceIds, DeviceDelete(s, d)
  PROVE  IInv'
<1> DEFINE n == devices[d].node
<1>1. /\ devices[d] \in Device /\ n \in NodeIds /\ d \in uuids
      /\ nodes[n] \in Node /\ nodes[n].cluster \in ClusterIds
      /\ devices[d] # None
  BY Zenon DEF IInv, DbTypeOK, Issued, DeviceDelete, Opt, Node, Device
<1> DEFINE job == NewJob("DeviceDelete.teardown", nodes[n].cluster, n, {}, None, d,
                         devices[d].name)
<1>2. jobs' = [jobs EXCEPT ![s] = job] /\ UNCHANGED <<dbVars, uuids>>
  BY Zenon DEF DeviceDelete, Begin
<1>3. job \in Job /\ job.at = "DeviceDelete.teardown" /\ job.node = n /\ job.device = d
  BY <1>1, Zenon DEF NewJob, Job, Steps, Opt, Device
<1> HIDE DEF job
<1>4. DbTypeOK'
  BY <1>2, <1>3, Zenon DEF IInv, DbTypeOK, Opt, dbVars
<1>5. ReferentialIntegrity' /\ Issued'
  BY <1>2 DEF IInv, ReferentialIntegrity, Issued, dbVars
<1>6. \A t \in Slots \ {s} : jobs'[t] = jobs[t]
  BY <1>2, Zenon DEF IInv, DbTypeOK
<1>7. jobs'[s] = job
  BY <1>2, Zenon DEF IInv, DbTypeOK
<1>8. ~AddsNode(s)' /\ ~DeletesNode(s)' /\ ~AddsDevice(s)'
  BY <1>3, <1>7, Zenon DEF AddsNode, DeletesNode, AddsDevice
<1>9. UNCHANGED <<nodes, devices, uuids>>
  BY <1>2, Zenon DEF dbVars
<1>10. Sound(s)'
  BY <1>1, <1>3, <1>7, <1>8, <1>9, Zenon
  DEF Sound, NodeAddSound, NodeDeleteSound, DeviceAddSound, DeviceDeleteSound
<1>11. ASSUME NEW t \in Slots \ {s} PROVE Apart(s, t)' /\ Apart(t, s)'
  <2>1. AddsDevice(t)' => devices[jobs[t].device] = None
    BY <1>6, Zenon DEF IInv, JobsSound, Sound, DeviceAddSound, AddsDevice
  <2> QED BY <1>1, <1>3, <1>6, <1>7, <1>8, <2>1, Zenon DEF Apart
<1>12. JobsSound'
  BY <1>6, <1>9, <1>10, <1>11, JobFrame, Zenon DEF IInv
<1> QED BY <1>4, <1>5, <1>12, SMTT(30) DEF IInv

(* The last transaction of DeviceDelete takes the device off the list of   *)
(* the right node.                                                         *)
LEMMA DeviceDeleteCommitKeeps ==
  ASSUME IInv, NEW s \in Slots, DeviceDeleteCommit(s)
  PROVE  IInv'
<1> DEFINE n == jobs[s].node
           d == jobs[s].device
<1>1. CASE nodes[n] = None
  <2>1. UNCHANGED <<clusters, nodes, devices, nodeKeys, deviceKeys, uuids>> /\ End(s)
    BY <1>1, Zenon DEF DeviceDeleteCommit
  <2> QED BY <2>1, EndKeeps, Zenon DEF IInv, DbTypeOK
<1>2. CASE nodes[n] # None
  <2>1. /\ DeletesDevice(s) /\ n \in NodeIds /\ d \in DeviceIds
        /\ devices[d] # None => devices[d].node = n
    BY Zenon DEF IInv, JobsSound, Sound, DeviceDeleteSound, DeviceDeleteCommit, At,
        DeletesDevice
  <2>2. /\ nodes' = [nodes EXCEPT ![n].devices = @ \ {d}]
        /\ devices' = [devices EXCEPT ![d] = None]
        /\ deviceKeys' \subseteq deviceKeys
        /\ jobs' = [jobs EXCEPT ![s] = None]
        /\ UNCHANGED <<clusters, nodeKeys, uuids>>
    BY <1>2, Zenon DEF DeviceDeleteCommit, End
  <2>3. /\ nodes[n] \in Node /\ nodes'[n] \in Node /\ nodes'[n] # None
        /\ nodes'[n].cluster = nodes[n].cluster
        /\ nodes'[n].devices = nodes[n].devices \ {d}
    BY <1>2, <2>1, <2>2, NoneAssumption, SMTT(30) DEF IInv, DbTypeOK, Opt, Node
  <2>4. DbTypeOK'
    BY <2>1, <2>2, <2>3, Zenon DEF IInv, DbTypeOK, Opt
  <2>5. /\ \A t \in Slots \ {s} : jobs'[t] = jobs[t]
        /\ jobs'[s] = None
        /\ \A m \in NodeIds \ {n} : nodes'[m] = nodes[m]
        /\ \A e \in DeviceIds \ {d} : devices'[e] = devices[e]
        /\ devices'[d] = None
    BY <2>1, <2>2, Zenon DEF IInv, DbTypeOK
  <2>6. \A m \in NodeIds : /\ nodes'[m] = None <=> nodes[m] = None
                           /\ nodes'[m].cluster = nodes[m].cluster
    BY <1>2, <2>3, <2>5, Zenon
  <2>7. ReferentialIntegrity'
    <3>1. ASSUME NEW k \in ClusterIds, clusters'[k] # None, NEW m \in clusters'[k].nodes
          PROVE  nodes'[m] # None /\ nodes'[m].cluster = k
      BY <3>1, <2>2, <2>6, SMTT(30) DEF IInv, DbTypeOK, ReferentialIntegrity, Opt, Cluster
    <3>2. ASSUME NEW m \in NodeIds, nodes'[m] # None
          PROVE  /\ clusters'[nodes'[m].cluster] # None
                 /\ m \in clusters'[nodes'[m].cluster].nodes
      BY <3>2, <2>2, <2>6 DEF IInv, ReferentialIntegrity
    <3>3. ASSUME NEW m \in NodeIds, nodes'[m] # None, NEW e \in nodes'[m].devices
          PROVE  devices'[e] # None /\ devices'[e].node = m
      <4>1. nodes[m] \in Node /\ e \in nodes[m].devices /\ e \in DeviceIds
        BY <3>3, <2>3, <2>5, <2>6, SMTT(30) DEF IInv, DbTypeOK, Opt, Node
      <4>2. devices[e] # None /\ devices[e].node = m
        BY <4>1, <2>6, <3>3, Zenon DEF IInv, ReferentialIntegrity
      <4>3. e # d
        BY <4>2, <2>1, <2>3, <3>3, Zenon
      <4> QED BY <4>1, <4>2, <4>3, <2>5, Zenon
    <3> QED BY <3>1, <3>2, <3>3, Zenon DEF ReferentialIntegrity
  <2>8. Issued'
    BY <1>2, <2>1, <2>2, <2>5, SMTT(30) DEF IInv, Issued
  <2>9. ~AddsNode(s)' /\ ~DeletesNode(s)' /\ ~AddsDevice(s)' /\ ~DeletesDevice(s)'
    BY <2>5, Zenon DEF AddsNode, DeletesNode, AddsDevice, DeletesDevice
  <2>10. ASSUME NEW t \in Slots \ {s} PROVE Sound(t)'
    <3>1. Sound(t)
      BY Zenon DEF IInv, JobsSound
    <3>2. /\ AddsNode(t) => nodes'[jobs[t].node] = None
          /\ DeletesNode(t) => \/ nodes'[jobs[t].node] = None
                               \/ nodes'[jobs[t].node].cluster = jobs[t].cluster
      BY <2>6, <3>1, Zenon DEF Sound, NodeAddSound, NodeDeleteSound
    <3>3. /\ AddsDevice(t) => devices'[jobs[t].device] = None
          /\ DeletesDevice(t) => \/ devices'[jobs[t].device] = None
                                 \/ devices'[jobs[t].device].node = jobs[t].node
      BY <2>5, <3>1, Zenon DEF Sound, DeviceAddSound, DeviceDeleteSound
    <3> QED BY <2>2, <2>5, <3>1, <3>2, <3>3, StillSound, Zenon
  <2>11. JobsSound'
    BY <2>5, <2>9, <2>10, IdleSound, Frame, Zenon DEF IInv
  <2> QED BY <2>4, <2>7, <2>8, <2>11, Zenon DEF IInv
<1> QED BY <1>1, <1>2, Zenon

(* A step of a handler that issues a remote command and moves on.          *)
LEMMA CommandKeeps ==
  ASSUME IInv, NEW s \in Slots, NEW step \in Steps, jobs[s] # None,
         UNCHANGED <<dbVars, uuids>>, Goto(s, step),
         \/ AddsNode(s) /\ step \in {"NodeAdd.commit", "NodeAdd.undo"}
         \/ DeletesNode(s) /\ step = "NodeDelete.commit"
         \/ AddsDevice(s) /\ step \in {"DeviceAdd.commit", "DeviceAdd.undo"}
         \/ DeletesDevice(s) /\ step \in {"DeviceDelete.ring", "DeviceDelete.commit"}
  PROVE  IInv'
<1>1. jobs'[s].at = step
  BY Zenon DEF IInv, DbTypeOK, Goto, Opt, Job
<1> QED
  BY <1>1, GotoKeeps, Zenon DEF Goto, AddsNode, DeletesNode, AddsDevice, DeletesDevice

(* A restart drops the jobs and keeps the database.                        *)
LEMMA RebootKeeps == IInv /\ Reboot => IInv'
<1> SUFFICES ASSUME IInv, Reboot PROVE IInv'
  BY Zenon
<1>1. DbTypeOK' /\ ReferentialIntegrity' /\ Issued'
  BY DEF IInv, DbTypeOK, ReferentialIntegrity, Issued, Reboot, dbVars, Opt
<1>2. \A s \in Slots : /\ ~AddsNode(s)' /\ ~DeletesNode(s)'
                       /\ ~AddsDevice(s)' /\ ~DeletesDevice(s)'
  BY Zenon DEF Reboot, AddsNode, DeletesNode, AddsDevice, DeletesDevice
<1>3. JobsSound'
  BY <1>2, IdleSound, Zenon DEF JobsSound
<1> QED BY <1>1, <1>3, Zenon DEF IInv

(* Every step of a goroutine, by handler.                                  *)
LEMMA JobStepKeeps ==
  ASSUME IInv, NEW s \in Slots, JobStep(s)
  PROVE  IInv'
<1>1. CASE ClusterDeleteRing(s)
  BY <1>1, EndKeeps, Zenon DEF ClusterDeleteRing, dbVars, IInv, DbTypeOK
<1>2. CASE NodeAddProbe(s)
  BY <1>2, CommandKeeps, Zenon DEF NodeAddProbe, At, AddsNode, Steps
<1>3. CASE NodeAddCommit(s)
  BY <1>3, NodeAddCommitKeeps, Zenon
<1>4. CASE NodeAddUndo(s)
  BY <1>4, EndKeeps, Zenon DEF NodeAddUndo, NodeDeregister, IInv, DbTypeOK
<1>5. CASE NodeDeleteDetach(s)
  BY <1>5, CommandKeeps, Zenon DEF NodeDeleteDetach, At, DeletesNode, Steps
<1>6. CASE NodeDeleteCommit(s)
  BY <1>6, NodeDeleteCommitKeeps, Zenon
<1>7. CASE DeviceAddSetup(s)
  BY <1>7, CommandKeeps, Zenon DEF DeviceAddSetup, At, AddsDevice, Steps
<1>8. CASE DeviceAddCommit(s)
  BY <1>8, DeviceAddCommitKeeps, Zenon
<1>9. CASE DeviceAddTeardown(s)
  BY <1>9, CommandKeeps, Zenon DEF DeviceAddTeardown, At, AddsDevice, Steps
<1>10. CASE DeviceAddUndo(s)
  BY <1>10, EndKeeps, Zenon DEF DeviceAddUndo, IInv, DbTypeOK
<1>11. CASE DeviceDeleteTeardown(s)
  BY <1>11, CommandKeeps, Zenon DEF DeviceDeleteTeardown, At, DeletesDevice, Steps
<1>12. CASE DeviceDeleteRing(s)
  <2>1. CASE rings[jobs[s].cluster] = None
    BY <1>12, <2>1, EndKeeps, Zenon DEF DeviceDeleteRing, dbVars, IInv, DbTypeOK
  <2>2. CASE rings[jobs[s].cluster] # None
    BY <1>12, <2>2, CommandKeeps, Zenon DEF DeviceDeleteRing, At, DeletesDevice, Steps
  <2> QED BY <2>1, <2>2, Zenon
<1>13. CASE DeviceDeletePanic(s)
  BY <1>13, RebootKeeps, Zenon DEF DeviceDeletePanic
<1>14. CASE DeviceDeleteCommit(s)
  BY <1>14, DeviceDeleteCommitKeeps, Zenon
<1> QED
  BY <1>1, <1>2, <1>3, <1>4, <1>5, <1>6, <1>7, <1>8, <1>9, <1>10, <1>11, <1>12,
     <1>13, <1>14, Zenon DEF JobStep

(* Setting the state of a node changes its state only.                     *)
LEMMA NodeSetStateKeeps ==
  ASSUME IInv, NEW n \in NodeIds, NodeSetState(n)
  PROVE  IInv'
<1>1. PICK st \in States : nodes[n] # None /\
        (nodes' = nodes \/ nodes' = [nodes EXCEPT ![n].state = st])
  BY Zenon DEF NodeSetState, NodeSetOff, NodeSetOnline, NodeSetFailed, States
<1>2. UNCHANGED <<clusters, devices, nodeKeys, deviceKeys, jobs, uuids>>
  BY Zenon DEF NodeSetState, NodeSetOff, NodeSetOnline, NodeSetFailed
<1>3. nodes[n] \in Node
  BY <1>1, Zenon DEF IInv, DbTypeOK, Opt
<1>4. /\ nodes' \in [NodeIds -> Opt(Node)]
      /\ \A m \in NodeIds : nodes[m] = None <=> nodes'[m] = None
      /\ \A m \in NodeIds : nodes[m] # None =>
           nodes'[m].cluster = nodes[m].cluster /\ nodes'[m].devices = nodes[m].devices
  BY <1>1, <1>3, NoneAssumption, SMTT(30) DEF IInv, DbTypeOK, Opt, Node
<1> QED BY <1>2, <1>4, StateKeeps, Zenon DEF IInv, DbTypeOK

(* Setting the state of a device changes its state only.                   *)
LEMMA DeviceSetStateKeeps ==
  ASSUME IInv, NEW d \in DeviceIds, DeviceSetState(d)
  PROVE  IInv'
<1>1. PICK st \in States : devices[d] # None /\
        (devices' = devices \/ devices' = [devices EXCEPT ![d].state = st])
  BY Zenon DEF DeviceSetState, DeviceSetOff, DeviceSetOnline, DeviceSetFailed, States
<1>2. UNCHANGED <<clusters, nodes, nodeKeys, deviceKeys, jobs, uuids>>
  BY Zenon DEF DeviceSetState, DeviceSetOff, DeviceSetOnline, DeviceSetFailed
<1>3. devices[d] \in Device
  BY <1>1, Zenon DEF IInv, DbTypeOK, Opt
<1>4. /\ devices' \in [DeviceIds -> Opt(Device)]
      /\ \A e \in DeviceIds : devices[e] = None <=> devices'[e] = None
      /\ \A e \in DeviceIds : devices[e] # None => devices'[e].node = devices[e].node
  BY <1>1, <1>3, NoneAssumption, SMTT(30) DEF IInv, DbTypeOK, Opt, Device
<1> QED BY <1>2, <1>4, StateKeeps, Zenon DEF IInv, DbTypeOK

(* IInv is inductive.                                                      *)
LEMMA NextKeeps == IInv /\ [Next]_vars => IInv'
<1> SUFFICES ASSUME IInv, [Next]_vars PROVE IInv'
  BY Zenon
<1>1. CASE Request
  BY <1>1, ClusterCreateKeeps, ClusterDeleteKeeps, NodeAddKeeps, NodeDeleteKeeps,
     NodeSetStateKeeps, DeviceAddKeeps, DeviceDeleteKeeps, DeviceSetStateKeeps, SMTT(30)
  DEF Request
<1>2. CASE Restart
  BY <1>2, RebootKeeps, Zenon DEF Restart
<1>3. CASE \E s \in Slots : JobStep(s)
  BY <1>3, JobStepKeeps, Zenon
<1>4. CASE UNCHANGED vars
  <2>1. DbTypeOK' /\ ReferentialIntegrity' /\ Issued'
    BY <1>4 DEF vars, dbVars, IInv, DbTypeOK, ReferentialIntegrity, Issued
  <2>2. JobsSound'
    BY <1>4, SameSound, JobsStay, Zenon DEF vars, dbVars, IInv, JobsSound
  <2> QED BY <2>1, <2>2, Zenon DEF IInv
<1> QED BY <1>1, <1>2, <1>3, <1>4, Zenon DEF Next

(* DbTypeCorrect: the buckets of the database, the registered names and    *)
(* the records of the activities in flight keep their types, for any       *)
(* number of clusters, nodes, devices and concurrent requests.             *)
THEOREM DbTypeCorrect == Spec => []DbTypeOK
<1>1. IInv => DbTypeOK
  BY Zenon DEF IInv
<1> QED BY InitSound, NextKeeps, <1>1, PTL DEF Spec

(* ReferencesHold: NodeAdd, NodeDelete, DeviceAdd, DeviceDelete and the    *)
(* rest keep the lists of clusters and nodes consistent with the entries   *)
(* they name although every one of them checks in one transaction and      *)
(* writes in a later one, for any number of them in flight, with failing   *)
(* commands and a restart at any point.                                    *)
THEOREM ReferencesHold == Spec => []ReferentialIntegrity
<1>1. IInv => ReferentialIntegrity
  BY Zenon DEF IInv
<1> QED BY InitSound, NextKeeps, <1>1, PTL DEF Spec
=============================================================================
