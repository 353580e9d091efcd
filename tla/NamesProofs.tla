---------------------------- MODULE NamesProofs -----------------------------
(***************************************************************************)
(* NamesLostOnlyByCrash, for every number of clusters, nodes and devices   *)
(* and of concurrent activities.                                           *)
(*                                                                         *)
(* Register and Deregister run in transactions of their own, some of them  *)
(* in deferred functions, so a registered name may for a while belong to   *)
(* no entry.  It then belongs to an add in flight.  The proof accounts for *)
(* every registered name step by step; what it needs besides the invariant *)
(* IInv of TopologyProofs is NamesKnown: the names a delete read in its    *)
(* first transaction are still those of the entry when it deregisters      *)
(* them.                                                                   *)
(***************************************************************************)
EXTENDS TopologyProofs

-----------------------------------------------------------------------------
(* Registered names                                                        *)

(* A delete carries the names of the entry it read; as long as the entry   *)
(* is there they are its names, which never change.                        *)
NamesKnown ==
  \A s \in Slots :
    /\ DeletesNode(s) /\ nodes[jobs[s].node] # None => jobs[s].keys = nodes[jobs[s].node].keys
    /\ DeletesDevice(s) /\ devices[jobs[s].device] # None =>
         jobs[s].name = devices[jobs[s].device].name

NamesKeep ==
  /\ LostHostnames' \subseteq LostHostnames
  /\ LostDeviceNames' \subseteq LostDeviceNames

(* HostsAccounted: every registered hostname that an entry or an add       *)
(* accounted for is released or still accounted for.                       *)
LEMMA HostsAccounted ==
  ASSUME \A k \in nodeKeys' : k \in nodeKeys \/ \E s \in Slots : AddsNode(s)' /\ k \in jobs'[s].keys,
         \A n \in NodeIds : nodes[n] # None => \A k \in nodes[n].keys :
           k \notin nodeKeys' \/ (nodes'[n] # None /\ k \in nodes'[n].keys),
         \A s \in Slots : AddsNode(s) => \A k \in jobs[s].keys :
           \/ k \notin nodeKeys'
           \/ \E n \in NodeIds : nodes'[n] # None /\ k \in nodes'[n].keys
           \/ AddsNode(s)' /\ k \in jobs'[s].keys
  PROVE  LostHostnames' \subseteq LostHostnames
<1>1. \A s \in Slots : (Adding(s, "node") <=> AddsNode(s)) /\ (Adding(s, "node")' <=> AddsNode(s)')
  BY Zenon DEF Adding, AddsNode
<1> QED  BY <1>1, Zenon DEF LostHostnames

(* DisksAccounted: the same for the names of disks.                        *)
LEMMA DisksAccounted ==
  ASSUME \A k \in deviceKeys' :
           k \in deviceKeys \/ \E s \in Slots : AddsDevice(s)' /\ k = <<jobs'[s].node, jobs'[s].name>>,
         \A d \in DeviceIds : devices[d] # None =>
           \/ <<devices[d].node, devices[d].name>> \notin deviceKeys'
           \/ /\ devices'[d] # None
              /\ devices'[d].node = devices[d].node /\ devices'[d].name = devices[d].name,
         \A s \in Slots : AddsDevice(s) =>
           \/ <<jobs[s].node, jobs[s].name>> \notin deviceKeys'
           \/ \E d \in DeviceIds : /\ devices'[d] # None
                                   /\ devices'[d].node = jobs[s].node /\ devices'[d].name = jobs[s].name
           \/ AddsDevice(s)' /\ jobs'[s].node = jobs[s].node /\ jobs'[s].name = jobs[s].name
  PROVE  LostDeviceNames' \subseteq LostDeviceNames
<1>1. \A s \in Slots : (Adding(s, "device") <=> AddsDevice(s)) /\ (Adding(s, "device")' <=> AddsDevice(s)')
  BY Zenon DEF Adding, AddsDevice
<1> QED  BY <1>1 DEF LostDeviceNames

(* Nothing about names changes but, perhaps, that a delete has begun.      *)
QuietJob(t) ==
  /\ AddsNode(t) => AddsNode(t)' /\ jobs'[t].keys = jobs[t].keys
  /\ AddsDevice(t) => AddsDevice(t)' /\ jobs'[t].node = jobs[t].node /\ jobs'[t].name = jobs[t].name
  /\ DeletesNode(t)' =>
       \/ DeletesNode(t) /\ jobs'[t].node = jobs[t].node /\ jobs'[t].keys = jobs[t].keys
       \/ jobs'[t].node \in NodeIds /\ jobs'[t].keys = nodes[jobs'[t].node].keys
  /\ DeletesDevice(t)' =>
       \/ DeletesDevice(t) /\ jobs'[t].device = jobs[t].device /\ jobs'[t].name = jobs[t].name
       \/ jobs'[t].device \in DeviceIds /\ jobs'[t].name = devices[jobs'[t].device].name
SameNames ==
  /\ \A n \in NodeIds : /\ nodes'[n] = None <=> nodes[n] = None
                        /\ nodes[n] # None => nodes'[n].keys = nodes[n].keys
  /\ \A d \in DeviceIds : /\ devices'[d] = None <=> devices[d] = None
                          /\ devices[d] # None => /\ devices'[d].node = devices[d].node
                                                  /\ devices'[d].name = devices[d].name
  /\ nodeKeys' = nodeKeys /\ deviceKeys' = deviceKeys

(* A step after which the nodes list the same devices.                     *)
SameLists == \A n \in NodeIds : nodes[n] # None => nodes'[n].devices = nodes[n].devices

(* A step after which the clusters and the clusters of nodes are the same. *)
SameClusters ==
  /\ clusters' = clusters
  /\ \A n \in NodeIds : nodes[n] # None => nodes'[n].cluster = nodes[n].cluster

(* QuietNames: a step that changes no entry's names and no registration    *)
(* loses no name, whichever handlers are between their transactions.       *)
LEMMA QuietNames ==
  ASSUME IInv, NamesKnown, SameNames, \A t \in Slots : QuietJob(t)
  PROVE  NamesKnown' /\ NamesKeep
<1>1. LostHostnames' \subseteq LostHostnames
  BY HostsAccounted, Zenon DEF SameNames, QuietJob
<1>2. LostDeviceNames' \subseteq LostDeviceNames
  BY DisksAccounted, Zenon DEF SameNames, QuietJob
<1>3. ASSUME NEW t \in Slots, DeletesNode(t)', nodes'[jobs'[t].node] # None
      PROVE  jobs'[t].keys = nodes'[jobs'[t].node].keys
  <2>1. DeletesNode(t) => jobs[t].node \in NodeIds
    BY Zenon DEF IInv, JobsSound, Sound, NodeDeleteSound
  <2>2. \/ /\ DeletesNode(t) /\ jobs'[t].node = jobs[t].node /\ jobs'[t].keys = jobs[t].keys
        \/ jobs'[t].node \in NodeIds /\ jobs'[t].keys = nodes[jobs'[t].node].keys
    BY <1>3, Zenon DEF QuietJob
  <2>3. jobs'[t].node \in NodeIds
    BY <2>1, <2>2, Zenon
  <2>4. nodes[jobs'[t].node] # None /\ nodes'[jobs'[t].node].keys = nodes[jobs'[t].node].keys
    BY <1>3, <2>3, Zenon DEF SameNames
  <2>5. jobs'[t].keys = nodes[jobs'[t].node].keys
    BY <2>2, <2>4, Zenon DEF NamesKnown
  <2> QED  BY <2>4, <2>5, Zenon
<1>4. ASSUME NEW t \in Slots, DeletesDevice(t)', devices'[jobs'[t].device] # None
      PROVE  jobs'[t].name = devices'[jobs'[t].device].name
  <2>1. DeletesDevice(t) => jobs[t].device \in DeviceIds
    BY Zenon DEF IInv, JobsSound, Sound, DeviceDeleteSound
  <2> QED  BY <1>4, <2>1 DEF SameNames, QuietJob, NamesKnown
<1> QED  BY <1>1, <1>2, <1>3, <1>4, Zenon DEF NamesKnown, NamesKeep

(* QuietOthers: the jobs that do not move.                                 *)
LEMMA QuietOthers ==
  ASSUME NEW t \in Slots, jobs'[t] = jobs[t]
  PROVE  QuietJob(t)
  BY Zenon DEF QuietJob, AddsNode, AddsDevice, DeletesNode, DeletesDevice

(* OnlyJob: a step of the job in slot s that changes no entry and no name. *)
LEMMA OnlyJob ==
  ASSUME IInv, NamesKnown, NEW s \in Slots, UNCHANGED <<nodes, devices, nodeKeys, deviceKeys>>,
         \A t \in Slots \ {s} : jobs'[t] = jobs[t], QuietJob(s)
  PROVE  NamesKnown' /\ NamesKeep
  BY QuietOthers, QuietNames, Zenon DEF SameNames

(* GoesOn: the job in slot s moves on within its handler.                  *)
LEMMA GoesOn ==
  ASSUME IInv, NamesKnown, NEW s \in Slots, NEW step \in Steps, jobs[s] # None, Goto(s, step),
         UNCHANGED <<nodes, devices, nodeKeys, deviceKeys>>,
         \/ AddsNode(s) /\ step \in {"NodeAdd.commit", "NodeAdd.undo"}
         \/ DeletesNode(s) /\ step = "NodeDelete.commit"
         \/ AddsDevice(s) /\ step \in {"DeviceAdd.commit", "DeviceAdd.teardown", "DeviceAdd.undo"}
         \/ DeletesDevice(s) /\ step \in {"DeviceDelete.ring", "DeviceDelete.commit"}
  PROVE  NamesKnown' /\ NamesKeep
<1>1. /\ \A t \in Slots \ {s} : jobs'[t] = jobs[t]
      /\ jobs'[s].node = jobs[s].node /\ jobs'[s].keys = jobs[s].keys
      /\ jobs'[s].device = jobs[s].device /\ jobs'[s].name = jobs[s].name
      /\ jobs'[s].at = step /\ jobs'[s] # None
  BY NoneAssumption DEF Goto, IInv, DbTypeOK, Opt, Job
<1>2. QuietJob(s)
  BY <1>1, Zenon DEF QuietJob, AddsNode, AddsDevice, DeletesNode, DeletesDevice
<1> QED  BY <1>1, <1>2, OnlyJob, Zenon

(* Ends: a job that has no names to release ends.                          *)
LEMMA Ends ==
  ASSUME IInv, NamesKnown, NEW s \in Slots, End(s), ~AddsNode(s), ~AddsDevice(s),
         UNCHANGED <<nodes, devices, nodeKeys, deviceKeys>>
  PROVE  NamesKnown' /\ NamesKeep
<1>1. (\A t \in Slots \ {s} : jobs'[t] = jobs[t]) /\ jobs'[s] = None
  BY Zenon DEF End, IInv, DbTypeOK
<1>2. QuietJob(s)
  BY <1>1, Zenon DEF QuietJob, DeletesNode, DeletesDevice
<1> QED  BY <1>1, <1>2, OnlyJob, Zenon

(* Begins: a job begins that adds nothing; a delete takes the names of the *)
(* entry it has read.                                                      *)
LEMMA Begins ==
  ASSUME IInv, NamesKnown, NEW s \in Slots, NEW job, Begin(s, job),
         UNCHANGED <<nodes, devices, nodeKeys, deviceKeys>>,
         \/ job.at = "ClusterDelete.ring"
         \/ /\ job.at \in {"NodeDelete.detach", "NodeDelete.commit"}
            /\ job.node \in NodeIds /\ job.keys = nodes[job.node].keys
         \/ /\ job.at = "DeviceDelete.teardown"
            /\ job.device \in DeviceIds /\ job.name = devices[job.device].name
  PROVE  NamesKnown' /\ NamesKeep
<1>1. (\A t \in Slots \ {s} : jobs'[t] = jobs[t]) /\ jobs'[s] = job /\ jobs[s] = None
  BY Zenon DEF Begin, IInv, DbTypeOK
<1>2. QuietJob(s)
  BY <1>1, Zenon DEF QuietJob, AddsNode, AddsDevice, DeletesNode, DeletesDevice
<1> QED  BY <1>1, <1>2, OnlyJob, Zenon

(* SamePhase: what a job that does not move is about.                      *)
LEMMA SamePhase ==
  ASSUME NEW t \in Slots, jobs'[t] = jobs[t]
  PROVE  /\ AddsNode(t) <=> AddsNode(t)'
         /\ AddsDevice(t) <=> AddsDevice(t)'
         /\ DeletesNode(t) <=> DeletesNode(t)'
         /\ DeletesDevice(t) <=> DeletesDevice(t)'
  BY Zenon DEF AddsNode, AddsDevice, DeletesNode, DeletesDevice

(* Over: what a job that has ended is about.                               *)
LEMMA Over ==
  ASSUME NEW s \in Slots, jobs'[s] = None
  PROVE  ~AddsNode(s)' /\ ~AddsDevice(s)' /\ ~DeletesNode(s)' /\ ~DeletesDevice(s)'
  BY Zenon DEF AddsNode, AddsDevice, DeletesNode, DeletesDevice

(* What the transactions that register, store and remove entries do, as    *)
(* far as names and lists of devices are concerned.                        *)
NodeAdds(s, n, ks) ==
  /\ ks \cap nodeKeys = {}
  /\ \A t \in Slots \ {s} : jobs'[t] = jobs[t]
  /\ jobs[s] = None /\ jobs'[s].at \in {"NodeAdd.probe", "NodeAdd.commit"}
  /\ jobs'[s].keys = ks /\ jobs'[s] # None
  /\ nodes' = nodes /\ devices' = devices /\ deviceKeys' = deviceKeys
  /\ nodeKeys' = nodeKeys \cup ks

(* NodeAddEffect: what NodeAdd writes, and the job it leaves behind.       *)
LEMMA NodeAddEffect ==
  ASSUME IInv, NEW s \in Slots, NEW c \in ClusterIds, NEW n \in NodeIds,
         NEW ks \in HostnameSets, NodeAdd(s, c, n, ks)
  PROVE  NodeAdds(s, n, ks)
<1>1. PICK peer \in Opt(NodeIds) :
        Begin(s, NewJob(IF peer = None THEN "NodeAdd.commit" ELSE "NodeAdd.probe",
                        c, n, ks, peer, None, None))
  BY Zenon DEF NodeAdd
<1> DEFINE job == NewJob(IF peer = None THEN "NodeAdd.commit" ELSE "NodeAdd.probe",
                         c, n, ks, peer, None, None)
<1>2. job \in Job /\ job.keys = ks /\ job.at \in {"NodeAdd.probe", "NodeAdd.commit"}
  BY RequestsAssumption, Zenon DEF NewJob, Job, Steps, Opt
<1> HIDE DEF job
<1>3. jobs[s] = None /\ jobs' = [jobs EXCEPT ![s] = job]
  BY <1>1, Zenon DEF Begin, job
<1> QED  BY <1>2, <1>3, NoneAssumption, Zenon DEF NodeAdds, NodeAdd, HostnamesFree, IInv, DbTypeOK

(* NodeAddNames: the hostnames registered are those of the new job.        *)
LEMMA NodeAddNames ==
  ASSUME IInv, NamesKnown, NEW s \in Slots, NEW c \in ClusterIds, NEW n \in NodeIds,
         NEW ks \in HostnameSets, NodeAdd(s, c, n, ks)
  PROVE  NamesKnown' /\ NamesKeep
<1>1. NodeAdds(s, n, ks)
  BY NodeAddEffect, Zenon
<1> USE DEF NodeAdds
<1>2. AddsNode(s)' /\ ~DeletesNode(s)' /\ ~DeletesDevice(s)' /\ ~AddsNode(s) /\ ~AddsDevice(s)
  BY <1>1, Zenon DEF AddsNode, AddsDevice, DeletesNode, DeletesDevice
<1>3. \A t \in Slots \ {s} : /\ AddsNode(t) <=> AddsNode(t)'
                             /\ AddsDevice(t) <=> AddsDevice(t)'
                             /\ DeletesNode(t) <=> DeletesNode(t)'
                             /\ DeletesDevice(t) <=> DeletesDevice(t)'
  BY <1>1, SamePhase, Zenon
<1>4. LostHostnames' \subseteq LostHostnames
  BY <1>1, <1>2, <1>3, HostsAccounted, Zenon
<1>5. LostDeviceNames' \subseteq LostDeviceNames
  BY <1>1, <1>2, <1>3, DisksAccounted, Zenon
<1>6. NamesKnown'
  BY <1>1, <1>2, <1>3, SMTT(30) DEF NamesKnown
<1> QED  BY <1>4, <1>5, <1>6, Zenon DEF NamesKeep

NodeStored(s) ==
  LET n == jobs[s].node
  IN  /\ AddsNode(s) /\ n \in NodeIds /\ nodes[n] = None /\ jobs[s] \in Job
      /\ \A t \in Slots \ {s} : jobs'[t] = jobs[t]
      /\ jobs'[s] = None
      /\ \A m \in NodeIds \ {n} : nodes'[m] = nodes[m]
      /\ nodes'[n] # None /\ nodes'[n].keys = jobs[s].keys /\ nodes'[n].devices = {}
      /\ UNCHANGED <<devices, nodeKeys, deviceKeys>>

(* NodeAddCommitEffect: the transaction that stores the node.              *)
LEMMA NodeAddCommitEffect ==
  ASSUME IInv, NEW s \in Slots, NodeAddCommit(s), clusters[jobs[s].cluster] # None
  PROVE  NodeStored(s)
<1> DEFINE n == jobs[s].node
<1>0. AddsNode(s) /\ n \in NodeIds /\ nodes[n] = None /\ jobs[s] \in Job
  BY Zenon DEF IInv, DbTypeOK, JobsSound, Sound, NodeAddSound, NodeAddCommit, At, AddsNode, Opt
<1> DEFINE new == [cluster |-> jobs[s].cluster, keys |-> jobs[s].keys, state |-> "online",
                   devices |-> {}]
<1>1. /\ nodes' = [nodes EXCEPT ![n] = new] /\ jobs' = [jobs EXCEPT ![s] = None]
      /\ UNCHANGED <<devices, nodeKeys, deviceKeys>>
  BY Zenon DEF NodeAddCommit, End
<1>2. new \in Node /\ new.keys = jobs[s].keys /\ new.devices = {}
  <2>1. jobs[s].cluster \in ClusterIds
    BY <1>0, Zenon DEF IInv, JobsSound, Sound, NodeAddSound
  <2> QED  BY <1>0, <2>1, Zenon DEF Job, Node, States
<1> HIDE DEF new
<1> QED  BY <1>0, <1>1, <1>2, NoneAssumption, Zenon DEF NodeStored, IInv, DbTypeOK

(* NodeAddCommitNames: the hostnames pass from the job to the entry, or    *)
(* stay with the job when the cluster is gone.                             *)
LEMMA NodeAddCommitNames ==
  ASSUME IInv, NamesKnown, NEW s \in Slots, NodeAddCommit(s), clusters[jobs[s].cluster] # None
  PROVE  NamesKnown' /\ NamesKeep
<1> DEFINE n == jobs[s].node
<1>1. NodeStored(s)
  BY NodeAddCommitEffect, Zenon
<1> USE DEF NodeStored
<1>2. ~AddsNode(s)' /\ ~AddsDevice(s)' /\ ~DeletesNode(s)' /\ ~DeletesDevice(s)' /\ ~AddsDevice(s)
  BY <1>1, Over, Zenon DEF AddsNode, AddsDevice
<1>3. \A t \in Slots \ {s} : /\ AddsNode(t) <=> AddsNode(t)'
                             /\ AddsDevice(t) <=> AddsDevice(t)'
                             /\ DeletesNode(t) <=> DeletesNode(t)'
                             /\ DeletesDevice(t) <=> DeletesDevice(t)'
  BY <1>1, SamePhase, Zenon
<1>4. LostHostnames' \subseteq LostHostnames
  BY <1>1, <1>2, <1>3, HostsAccounted, SMTT(30)
<1>5. LostDeviceNames' \subseteq LostDeviceNames
  BY <1>1, <1>2, <1>3, DisksAccounted, Zenon
<1>6. NamesKnown'
  <2>1. \A t \in Slots \ {s} : DeletesNode(t) => jobs[t].node \in NodeIds \ {n}
    BY <1>1, Zenon DEF IInv, JobsSound, Sound, NodeDeleteSound, Apart
  <2> QED  BY <1>1, <1>2, <1>3, <2>1, SMTT(30) DEF NamesKnown
<1> QED  BY <1>4, <1>5, <1>6, Zenon DEF NamesKeep

NodeForgotten(s) ==
  /\ \A t \in Slots \ {s} : jobs'[t] = jobs[t]
  /\ jobs'[s] = None /\ AddsNode(s)
  /\ nodeKeys' = nodeKeys \ jobs[s].keys
  /\ UNCHANGED <<nodes, devices, deviceKeys>>

(* NodeAddUndoEffect: the deferred Deregister of NodeAdd.                  *)
LEMMA NodeAddUndoEffect ==
  ASSUME IInv, NEW s \in Slots, NodeAddUndo(s)
  PROVE  NodeForgotten(s)
  BY Zenon DEF NodeForgotten, NodeAddUndo, NodeDeregister, End, At, AddsNode, IInv, DbTypeOK

(* NodeAddUndoNames: the deferred Deregister.                              *)
LEMMA NodeAddUndoNames ==
  ASSUME IInv, NamesKnown, NEW s \in Slots, NodeAddUndo(s)
  PROVE  NamesKnown' /\ NamesKeep
<1>1. NodeForgotten(s)
  BY NodeAddUndoEffect, Zenon
<1> USE DEF NodeForgotten
<1>2. ~AddsNode(s)' /\ ~AddsDevice(s)' /\ ~DeletesNode(s)' /\ ~DeletesDevice(s)' /\ ~AddsDevice(s)
  BY <1>1, Over, Zenon DEF AddsNode, AddsDevice
<1>3. \A t \in Slots \ {s} : /\ AddsNode(t) <=> AddsNode(t)'
                             /\ AddsDevice(t) <=> AddsDevice(t)'
                             /\ DeletesNode(t) <=> DeletesNode(t)'
                             /\ DeletesDevice(t) <=> DeletesDevice(t)'
  BY <1>1, SamePhase, Zenon
<1>4. LostHostnames' \subseteq LostHostnames
  BY <1>1, <1>2, <1>3, HostsAccounted, Zenon
<1>5. LostDeviceNames' \subseteq LostDeviceNames
  BY <1>1, <1>2, <1>3, DisksAccounted, Zenon
<1>6. NamesKnown'
  BY <1>1, <1>2, <1>3, SMTT(30) DEF NamesKnown
<1> QED  BY <1>4, <1>5, <1>6, Zenon DEF NamesKeep

NodeRemoved(s) ==
  LET n == jobs[s].node
  IN  /\ DeletesNode(s) /\ n \in NodeIds
      /\ nodes[n] # None => jobs[s].keys = nodes[n].keys
      /\ \A t \in Slots \ {s} : jobs'[t] = jobs[t]
      /\ jobs'[s] = None
      /\ \A m \in NodeIds \ {n} : nodes'[m] = nodes[m]
      /\ nodes'[n] = None /\ nodeKeys' = nodeKeys \ jobs[s].keys
      /\ UNCHANGED <<devices, deviceKeys>>

(* NodeDeleteCommitEffect: the transaction that removes the node.          *)
LEMMA NodeDeleteCommitEffect ==
  ASSUME IInv, NamesKnown, NEW s \in Slots, NodeDeleteCommit(s), clusters[jobs[s].cluster] # None
  PROVE  NodeRemoved(s)
<1> DEFINE n == jobs[s].node
<1>0. /\ DeletesNode(s) /\ n \in NodeIds
      /\ nodes[n] # None => jobs[s].keys = nodes[n].keys
  <2>1. DeletesNode(s)
    BY Zenon DEF NodeDeleteCommit, At, DeletesNode
  <2> QED  BY <2>1, Zenon DEF IInv, JobsSound, Sound, NodeDeleteSound, NamesKnown
<1> QED  BY <1>0, Zenon DEF NodeRemoved, NodeDeleteCommit, NodeDeregister, End, IInv, DbTypeOK

(* NodeDeleteCommitNames: the entry goes, and the names the job carries,   *)
(* which are those of the entry.                                           *)
LEMMA NodeDeleteCommitNames ==
  ASSUME IInv, NamesKnown, NEW s \in Slots, NodeDeleteCommit(s), clusters[jobs[s].cluster] # None
  PROVE  NamesKnown' /\ NamesKeep
<1> DEFINE n == jobs[s].node
<1>1. NodeRemoved(s)
  BY NodeDeleteCommitEffect, Zenon
<1> USE DEF NodeRemoved
<1>2. /\ ~AddsNode(s)' /\ ~AddsDevice(s)' /\ ~DeletesNode(s)' /\ ~DeletesDevice(s)'
      /\ ~AddsNode(s) /\ ~AddsDevice(s)
  BY <1>1, Over, Zenon DEF AddsNode, AddsDevice, DeletesNode
<1>3. \A t \in Slots \ {s} : /\ AddsNode(t) <=> AddsNode(t)'
                             /\ AddsDevice(t) <=> AddsDevice(t)'
                             /\ DeletesNode(t) <=> DeletesNode(t)'
                             /\ DeletesDevice(t) <=> DeletesDevice(t)'
  BY <1>1, SamePhase, Zenon
<1>4. LostHostnames' \subseteq LostHostnames
  BY <1>1, <1>2, <1>3, HostsAccounted, Zenon
<1>5. LostDeviceNames' \subseteq LostDeviceNames
  BY <1>1, <1>2, <1>3, DisksAccounted, Zenon
<1>6. NamesKnown'
  <2>1. \A t \in Slots : DeletesNode(t) => jobs[t].node \in NodeIds
    BY Zenon DEF IInv, JobsSound, Sound, NodeDeleteSound
  <2> QED  BY <1>1, <1>2, <1>3, <2>1, SMTT(30) DEF NamesKnown
<1> QED  BY <1>4, <1>5, <1>6, Zenon DEF NamesKeep

DeviceAdds(s, n, d, name) ==
  /\ <<n, name>> \notin deviceKeys
  /\ \A t \in Slots \ {s} : jobs'[t] = jobs[t]
  /\ jobs[s] = None /\ jobs'[s].at = "DeviceAdd.setup"
  /\ jobs'[s].node = n /\ jobs'[s].name = name /\ jobs'[s] # None
  /\ nodes' = nodes /\ devices' = devices /\ nodeKeys' = nodeKeys
  /\ deviceKeys' = deviceKeys \cup {<<n, name>>}

(* DeviceAddEffect: what DeviceAdd writes, and its job.                    *)
LEMMA DeviceAddEffect ==
  ASSUME IInv, NEW s \in Slots, NEW n \in NodeIds, NEW d \in DeviceIds,
         NEW name \in DeviceNames, DeviceAdd(s, n, d, name)
  PROVE  DeviceAdds(s, n, d, name)
<1> DEFINE job == NewJob("DeviceAdd.setup", None, n, {}, None, d, name)
<1>1. job \in Job /\ job.at = "DeviceAdd.setup" /\ job.node = n /\ job.name = name
  BY Zenon DEF NewJob, Job, Steps, Opt
<1> HIDE DEF job
<1>2. jobs[s] = None /\ jobs' = [jobs EXCEPT ![s] = job]
  BY Zenon DEF DeviceAdd, Begin, job
<1> QED  BY <1>1, <1>2, NoneAssumption, Zenon DEF DeviceAdds, DeviceAdd, DeviceNameFree, DeviceKey, IInv, DbTypeOK

(* DeviceAddNames: the name registered is that of the new job.             *)
LEMMA DeviceAddNames ==
  ASSUME IInv, NamesKnown, NEW s \in Slots, NEW n \in NodeIds, NEW d \in DeviceIds,
         NEW name \in DeviceNames, DeviceAdd(s, n, d, name)
  PROVE  NamesKnown' /\ NamesKeep
<1>1. DeviceAdds(s, n, d, name)
  BY DeviceAddEffect, Zenon
<1> USE DEF DeviceAdds
<1>2. /\ AddsDevice(s)' /\ ~AddsNode(s)' /\ ~DeletesNode(s)' /\ ~DeletesDevice(s)'
      /\ ~AddsNode(s) /\ ~AddsDevice(s)
  BY <1>1, Zenon DEF AddsNode, AddsDevice, DeletesNode, DeletesDevice
<1>3. \A t \in Slots \ {s} : /\ AddsNode(t) <=> AddsNode(t)'
                             /\ AddsDevice(t) <=> AddsDevice(t)'
                             /\ DeletesNode(t) <=> DeletesNode(t)'
                             /\ DeletesDevice(t) <=> DeletesDevice(t)'
  BY <1>1, SamePhase, Zenon
<1>4. LostHostnames' \subseteq LostHostnames
  BY <1>1, <1>2, <1>3, HostsAccounted, Zenon
<1>5. LostDeviceNames' \subseteq LostDeviceNames
  BY <1>1, <1>2, <1>3, DisksAccounted, SMTT(30)
<1>6. NamesKnown'
  BY <1>1, <1>2, <1>3, SMTT(30) DEF NamesKnown
<1> QED  BY <1>4, <1>5, <1>6, Zenon DEF NamesKeep

DeviceStored(s) ==
  LET n == jobs[s].node
      d == jobs[s].device
  IN  /\ AddsDevice(s) /\ n \in NodeIds /\ d \in DeviceIds /\ devices[d] = None
      /\ jobs[s].name \in DeviceNames
      /\ \A t \in Slots \ {s} : jobs'[t] = jobs[t]
      /\ jobs'[s] = None
      /\ \A e \in DeviceIds \ {d} : devices'[e] = devices[e]
      /\ devices'[d] # None /\ devices'[d].node = n /\ devices'[d].name = jobs[s].name
      /\ \A m \in NodeIds \ {n} : nodes'[m] = nodes[m]
      /\ nodes[n] # None /\ nodes'[n] # None
      /\ nodes'[n].keys = nodes[n].keys /\ nodes'[n].devices = nodes[n].devices \cup {d}
      /\ UNCHANGED <<nodeKeys, deviceKeys>>

(* DeviceAddCommitEffect: the transaction that stores the device.          *)
LEMMA DeviceAddCommitEffect ==
  ASSUME IInv, NEW s \in Slots, DeviceAddCommit(s),
         nodes[jobs[s].node] # None, clusters[nodes[jobs[s].node].cluster] # None
  PROVE  DeviceStored(s)
<1> DEFINE n == jobs[s].node
           d == jobs[s].device
<1>0. /\ AddsDevice(s) /\ n \in NodeIds /\ d \in DeviceIds /\ devices[d] = None
      /\ jobs[s].name \in DeviceNames
  BY Zenon DEF IInv, JobsSound, Sound, DeviceAddSound, DeviceAddCommit, At, AddsDevice
<1> DEFINE new == [node |-> n, name |-> jobs[s].name, state |-> "online",
                   bricks |-> {}, free |-> DeviceSize]
<1>1. /\ devices' = [devices EXCEPT ![d] = new] /\ jobs' = [jobs EXCEPT ![s] = None]
      /\ nodes' = [nodes EXCEPT ![n].devices = @ \cup {d}]
      /\ UNCHANGED <<nodeKeys, deviceKeys>>
  BY Zenon DEF DeviceAddCommit, End
<1>2. new \in Device /\ new.node = n /\ new.name = jobs[s].name
  BY <1>0, IdsAssumption, Zenon DEF Device, States
<1> HIDE DEF new
<1>3. nodes[n] \in Node
  BY <1>0, Zenon DEF IInv, DbTypeOK, Opt
<1>4. /\ nodes'[n] \in Node
      /\ nodes'[n].keys = nodes[n].keys /\ nodes'[n].devices = nodes[n].devices \cup {d}
  BY <1>0, <1>1, <1>3, SMTT(30) DEF IInv, DbTypeOK, Node
<1>5. nodes'[n] # None
  BY <1>4, NoneAssumption, SMTT(30)
<1>6. \A m \in NodeIds \ {n} : nodes'[m] = nodes[m]
  BY <1>1, Zenon DEF IInv, DbTypeOK
<1> QED  BY <1>0, <1>1, <1>2, <1>4, <1>5, <1>6, NoneAssumption, SMTT(30) DEF DeviceStored, IInv, DbTypeOK

(* DeviceAddCommitNames: the name passes from the job to the entry.        *)
LEMMA DeviceAddCommitNames ==
  ASSUME IInv, NamesKnown, NEW s \in Slots, DeviceAddCommit(s),
         nodes[jobs[s].node] # None, clusters[nodes[jobs[s].node].cluster] # None
  PROVE  NamesKnown' /\ NamesKeep
<1> DEFINE n == jobs[s].node
           d == jobs[s].device
<1>1. DeviceStored(s)
  BY DeviceAddCommitEffect, Zenon
<1> USE DEF DeviceStored
<1>2. ~AddsNode(s)' /\ ~AddsDevice(s)' /\ ~DeletesNode(s)' /\ ~DeletesDevice(s)' /\ ~AddsNode(s)
  BY <1>1, Over, Zenon DEF AddsNode, AddsDevice
<1>3. \A t \in Slots \ {s} : /\ AddsNode(t) <=> AddsNode(t)'
                             /\ AddsDevice(t) <=> AddsDevice(t)'
                             /\ DeletesNode(t) <=> DeletesNode(t)'
                             /\ DeletesDevice(t) <=> DeletesDevice(t)'
  BY <1>1, SamePhase, Zenon
<1>4. LostHostnames' \subseteq LostHostnames
  BY <1>1, <1>2, <1>3, HostsAccounted, SMTT(30)
<1>5. LostDeviceNames' \subseteq LostDeviceNames
  BY <1>1, <1>2, <1>3, DisksAccounted, SMTT(30)
<1>6. NamesKnown'
  <2>1. \A t \in Slots \ {s} :
          /\ DeletesDevice(t) => jobs[t].device \in DeviceIds \ {d}
          /\ DeletesNode(t) => jobs[t].node \in NodeIds
    BY <1>1, SMTT(30) DEF IInv, JobsSound, Sound, NodeDeleteSound, DeviceDeleteSound, Apart
  <2> QED  BY <1>1, <1>2, <1>3, <2>1, SMTT(30) DEF NamesKnown
<1> QED  BY <1>4, <1>5, <1>6, Zenon DEF NamesKeep

DeviceForgotten(s) ==
  /\ \A t \in Slots \ {s} : jobs'[t] = jobs[t]
  /\ jobs'[s] = None /\ AddsDevice(s)
  /\ deviceKeys' = deviceKeys \ {<<jobs[s].node, jobs[s].name>>}
  /\ UNCHANGED <<nodes, devices, nodeKeys>>

(* DeviceAddUndoEffect: the deferred Deregister of DeviceAdd.              *)
LEMMA DeviceAddUndoEffect ==
  ASSUME IInv, NEW s \in Slots, DeviceAddUndo(s)
  PROVE  DeviceForgotten(s)
  BY Zenon DEF DeviceForgotten, DeviceAddUndo, DeviceKey, End, At, AddsDevice, IInv, DbTypeOK

(* DeviceAddUndoNames: the deferred Deregister of DeviceAdd.               *)
LEMMA DeviceAddUndoNames ==
  ASSUME IInv, NamesKnown, NEW s \in Slots, DeviceAddUndo(s)
  PROVE  NamesKnown' /\ NamesKeep
<1>1. DeviceForgotten(s)
  BY DeviceAddUndoEffect, Zenon
<1> USE DEF DeviceForgotten
<1>2. ~AddsNode(s)' /\ ~AddsDevice(s)' /\ ~DeletesNode(s)' /\ ~DeletesDevice(s)' /\ ~AddsNode(s)
  BY <1>1, Over, Zenon DEF AddsNode, AddsDevice
<1>3. \A t \in Slots \ {s} : /\ AddsNode(t) <=> AddsNode(t)'
                             /\ AddsDevice(t) <=> AddsDevice(t)'
                             /\ DeletesNode(t) <=> DeletesNode(t)'
                             /\ DeletesDevice(t) <=> DeletesDevice(t)'
  BY <1>1, SamePhase, Zenon
<1>4. LostHostnames' \subseteq LostHostnames
  BY <1>1, <1>2, <1>3, HostsAccounted, Zenon
<1>5. LostDeviceNames' \subseteq LostDeviceNames
  BY <1>1, <1>2, <1>3, DisksAccounted, SMTT(30)
<1>6. NamesKnown'
  BY <1>1, <1>2, <1>3, SMTT(30) DEF NamesKnown
<1> QED  BY <1>4, <1>5, <1>6, Zenon DEF NamesKeep

DeviceRemoved(s) ==
  LET n == jobs[s].node
      d == jobs[s].device
  IN  /\ DeletesDevice(s) /\ n \in NodeIds /\ d \in DeviceIds
      /\ devices[d] # None => devices[d].node = n /\ devices[d].name = jobs[s].name
      /\ \A t \in Slots \ {s} : jobs'[t] = jobs[t]
      /\ jobs'[s] = None
      /\ \A e \in DeviceIds \ {d} : devices'[e] = devices[e]
      /\ devices'[d] = None /\ deviceKeys' = deviceKeys \ {<<n, jobs[s].name>>}
      /\ \A m \in NodeIds \ {n} : nodes'[m] = nodes[m]
      /\ nodes[n] # None /\ nodes'[n] # None
      /\ nodes'[n].keys = nodes[n].keys /\ nodes'[n].devices = nodes[n].devices \ {d}
      /\ UNCHANGED nodeKeys

(* DeviceDeleteCommitEffect: the transaction that removes the device.      *)
LEMMA DeviceDeleteCommitEffect ==
  ASSUME IInv, NamesKnown, NEW s \in Slots, DeviceDeleteCommit(s), nodes[jobs[s].node] # None
  PROVE  DeviceRemoved(s)
<1> DEFINE n == jobs[s].node
           d == jobs[s].device
<1>0. /\ DeletesDevice(s) /\ n \in NodeIds /\ d \in DeviceIds
      /\ devices[d] # None => devices[d].node = n /\ devices[d].name = jobs[s].name
  <2>1. DeletesDevice(s)
    BY Zenon DEF DeviceDeleteCommit, At, DeletesDevice
  <2> QED  BY <2>1, Zenon DEF IInv, JobsSound, Sound, DeviceDeleteSound, NamesKnown
<1>1. /\ devices' = [devices EXCEPT ![d] = None] /\ jobs' = [jobs EXCEPT ![s] = None]
      /\ nodes' = [nodes EXCEPT ![n].devices = @ \ {d}]
      /\ deviceKeys' = deviceKeys \ {<<n, jobs[s].name>>} /\ UNCHANGED nodeKeys
  BY Zenon DEF DeviceDeleteCommit, DeviceKey, End
<1>2. nodes[n] \in Node
  BY <1>0, SMTT(30) DEF IInv, DbTypeOK, Opt
<1>3. /\ nodes'[n] \in Node
      /\ nodes'[n].keys = nodes[n].keys /\ nodes'[n].devices = nodes[n].devices \ {d}
  BY <1>0, <1>1, <1>2, SMTT(30) DEF IInv, DbTypeOK, Node
<1>4. nodes'[n] # None
  BY <1>3, NoneAssumption, Zenon
<1>5. \A m \in NodeIds \ {n} : nodes'[m] = nodes[m]
  BY <1>1, Zenon DEF IInv, DbTypeOK
<1> QED  BY <1>0, <1>1, <1>3, <1>4, <1>5, SMTT(30) DEF DeviceRemoved, IInv, DbTypeOK

(* DeviceDeleteCommitNames: the entry goes, and its name.                  *)
LEMMA DeviceDeleteCommitNames ==
  ASSUME IInv, NamesKnown, NEW s \in Slots, DeviceDeleteCommit(s), nodes[jobs[s].node] # None
  PROVE  NamesKnown' /\ NamesKeep
<1> DEFINE n == jobs[s].node
           d == jobs[s].device
<1>1. DeviceRemoved(s)
  BY DeviceDeleteCommitEffect, Zenon
<1> USE DEF DeviceRemoved
<1>2. /\ ~AddsNode(s)' /\ ~AddsDevice(s)' /\ ~DeletesNode(s)' /\ ~DeletesDevice(s)'
      /\ ~AddsNode(s) /\ ~AddsDevice(s)
  BY <1>1, Over, Zenon DEF AddsNode, AddsDevice, DeletesDevice
<1>3. \A t \in Slots \ {s} : /\ AddsNode(t) <=> AddsNode(t)'
                             /\ AddsDevice(t) <=> AddsDevice(t)'
                             /\ DeletesNode(t) <=> DeletesNode(t)'
                             /\ DeletesDevice(t) <=> DeletesDevice(t)'
  BY <1>1, SamePhase, Zenon
<1>4. LostHostnames' \subseteq LostHostnames
  BY <1>1, <1>2, <1>3, HostsAccounted, Zenon
<1>5. LostDeviceNames' \subseteq LostDeviceNames
  BY <1>1, <1>2, <1>3, DisksAccounted, ZenonT(40)
<1>6. NamesKnown'
  <2>1. \A t \in Slots : /\ DeletesDevice(t) => jobs[t].device \in DeviceIds
                         /\ DeletesNode(t) => jobs[t].node \in NodeIds
    BY Zenon DEF IInv, JobsSound, Sound, NodeDeleteSound, DeviceDeleteSound
  <2> QED  BY <1>1, <1>2, <1>3, <2>1, SMTT(30) DEF NamesKnown
<1> QED  BY <1>4, <1>5, <1>6, Zenon DEF NamesKeep

(* NodeStateEffect: setting a state changes no name and no list.           *)
LEMMA NodeStateEffect ==
  ASSUME IInv, NEW n \in NodeIds, NodeSetState(n)
  PROVE  SameNames /\ SameLists /\ SameClusters /\ jobs' = jobs
<1>1. PICK st \in States :
        nodes[n] # None /\ (nodes' = nodes \/ nodes' = [nodes EXCEPT ![n].state = st])
  BY Zenon DEF NodeSetState, NodeSetOff, NodeSetOnline, NodeSetFailed, States
<1>2. UNCHANGED <<clusters, devices, nodeKeys, deviceKeys, jobs>>
  BY Zenon DEF NodeSetState, NodeSetOff, NodeSetOnline, NodeSetFailed
<1>3. nodes[n] \in Node
  BY <1>1, Zenon DEF IInv, DbTypeOK, Opt
<1>4. \A m \in NodeIds : /\ nodes'[m] = None <=> nodes[m] = None
                         /\ nodes[m] # None => /\ nodes'[m].keys = nodes[m].keys
                                               /\ nodes'[m].devices = nodes[m].devices
                                               /\ nodes'[m].cluster = nodes[m].cluster
  BY <1>1, <1>3, NoneAssumption, SMTT(30) DEF IInv, DbTypeOK, Node
<1> QED  BY <1>2, <1>4, Zenon DEF SameNames, SameLists, SameClusters

(* DeviceStateEffect: the same for devices.                                *)
LEMMA DeviceStateEffect ==
  ASSUME IInv, NEW d \in DeviceIds, DeviceSetState(d)
  PROVE  SameNames /\ SameLists /\ SameClusters /\ jobs' = jobs
<1>1. PICK st \in States :
        devices[d] # None /\ (devices' = devices \/ devices' = [devices EXCEPT ![d].state = st])
  <2>1. CASE DeviceSetOnline(d) \/ DeviceSetFailed(d)
    BY <2>1, Zenon DEF DeviceSetOnline, DeviceSetFailed, States
  <2>2. CASE \E st \in {"offline", "failed"} : DeviceSetOff(d, st)
    <3>1. PICK st \in {"offline", "failed"} : DeviceSetOff(d, st)
      BY <2>2, SMTT(30)
    <3>2. devices[d] # None /\ (devices' = devices \/ devices' = [devices EXCEPT ![d].state = st])
      BY <3>1, Zenon DEF DeviceSetOff
    <3> QED  BY <3>2, Zenon DEF States
  <2> QED  BY <2>1, <2>2, Zenon DEF DeviceSetState
<1>2. UNCHANGED <<clusters, nodes, nodeKeys, deviceKeys, jobs>>
  BY Zenon DEF DeviceSetState, DeviceSetOff, DeviceSetOnline, DeviceSetFailed
<1>3. devices[d] \in Device
  BY <1>1, Zenon DEF IInv, DbTypeOK, Opt
<1>4. \A e \in DeviceIds : /\ devices'[e] = None <=> devices[e] = None
                           /\ devices[e] # None => /\ devices'[e].node = devices[e].node
                                                   /\ devices'[e].name = devices[e].name
  BY <1>1, <1>3, NoneAssumption, SMTT(30) DEF IInv, DbTypeOK, Device
<1> QED  BY <1>2, <1>4, Zenon DEF SameNames, SameLists, SameClusters

(* RequestNames: the first transactions of the handlers.                   *)
LEMMA RequestNames ==
  ASSUME IInv, NamesKnown, Request
  PROVE  NamesKnown' /\ NamesKeep
<1>1. CASE \E c \in ClusterIds : ClusterCreate(c)
  <2>1. SameNames /\ jobs' = jobs
    BY <1>1, Zenon DEF ClusterCreate, SameNames
  <2> QED  BY <2>1, QuietOthers, QuietNames, Zenon
<1>2. CASE \E s \in Slots, c \in ClusterIds : ClusterDelete(s, c)
  <2>1. PICK s \in Slots, c \in ClusterIds : ClusterDelete(s, c)
    BY <1>2, Zenon
  <2> DEFINE job == NewJob("ClusterDelete.ring", c, None, {}, None, None, None)
  <2>2. Begin(s, job) /\ UNCHANGED <<nodes, devices, nodeKeys, deviceKeys>>
    BY <2>1, Zenon DEF ClusterDelete
  <2>3. job.at = "ClusterDelete.ring"
    BY Zenon DEF NewJob
  <2> HIDE DEF job
  <2> QED  BY <2>2, <2>3, Begins, Zenon
<1>3. CASE \E s \in Slots, c \in ClusterIds, n \in NodeIds, ks \in HostnameSets : NodeAdd(s, c, n, ks)
  BY <1>3, NodeAddNames, SMTT(30)
<1>4. CASE \E s \in Slots, n \in NodeIds : NodeDelete(s, n)
  <2>1. PICK s \in Slots, n \in NodeIds : NodeDelete(s, n)
    BY <1>4, Zenon
  <2>2. PICK peer \in Opt(NodeIds) :
          Begin(s, NewJob(IF peer = None THEN "NodeDelete.commit" ELSE "NodeDelete.detach",
                          nodes[n].cluster, n, nodes[n].keys, peer, None, None))
    BY <2>1, Zenon DEF NodeDelete
  <2> DEFINE job == NewJob(IF peer = None THEN "NodeDelete.commit" ELSE "NodeDelete.detach",
                           nodes[n].cluster, n, nodes[n].keys, peer, None, None)
  <2>3. /\ job.at \in {"NodeDelete.detach", "NodeDelete.commit"}
        /\ job.node = n /\ job.keys = nodes[n].keys
    BY Zenon DEF NewJob
  <2>4. Begin(s, job) /\ UNCHANGED <<nodes, devices, nodeKeys, deviceKeys>>
    BY <2>1, <2>2, Zenon DEF NodeDelete, dbVars
  <2> HIDE DEF job
  <2> QED  BY <2>3, <2>4, Begins, SMTT(30)
<1>5. CASE \E s \in Slots, n \in NodeIds, d \in DeviceIds, name \in DeviceNames :
             DeviceAdd(s, n, d, name)
  BY <1>5, DeviceAddNames, Zenon
<1>6. CASE \E s \in Slots, d \in DeviceIds : DeviceDelete(s, d)
  <2>1. PICK s \in Slots, d \in DeviceIds : DeviceDelete(s, d)
    BY <1>6, Zenon
  <2> DEFINE job == NewJob("DeviceDelete.teardown", nodes[devices[d].node].cluster,
                           devices[d].node, {}, None, d, devices[d].name)
  <2>2. Begin(s, job) /\ UNCHANGED <<nodes, devices, nodeKeys, deviceKeys>>
    BY <2>1, Zenon DEF DeviceDelete, dbVars
  <2>3. job.at = "DeviceDelete.teardown" /\ job.device = d /\ job.name = devices[d].name
    BY Zenon DEF NewJob
  <2> HIDE DEF job
  <2> QED  BY <2>2, <2>3, Begins, SMTT(30)
<1>7. CASE (\E n \in NodeIds : NodeSetState(n)) \/ (\E d \in DeviceIds : DeviceSetState(d))
  <2>1. SameNames /\ jobs' = jobs
    BY <1>7, NodeStateEffect, DeviceStateEffect, Zenon
  <2> QED  BY <2>1, QuietOthers, QuietNames, Zenon
<1> QED  BY <1>1, <1>2, <1>3, <1>4, <1>5, <1>6, <1>7, Zenon DEF Request

(* JobStepNames: the later steps of the handlers.                          *)
LEMMA JobStepNames ==
  ASSUME IInv, NamesKnown, NEW s \in Slots, JobStep(s), ~Reboot
  PROVE  NamesKnown' /\ NamesKeep
<1>1. CASE ClusterDeleteRing(s)
  BY <1>1, Ends, SMTT(30) DEF ClusterDeleteRing, At, AddsNode, AddsDevice, dbVars
<1>2. CASE NodeAddProbe(s)
  BY <1>2, GoesOn, SMTT(30) DEF NodeAddProbe, At, AddsNode, Steps, dbVars
<1>3. CASE NodeAddCommit(s)
  <2>1. CASE clusters[jobs[s].cluster] = None
    BY <1>3, <2>1, GoesOn, SMTT(30) DEF NodeAddCommit, At, AddsNode, Steps
  <2> QED  BY <1>3, <2>1, NodeAddCommitNames, SMTT(30)
<1>5. CASE NodeDeleteDetach(s)
  BY <1>5, GoesOn, SMTT(30) DEF NodeDeleteDetach, At, DeletesNode, Steps, dbVars
<1>6. CASE NodeDeleteCommit(s)
  <2>1. CASE clusters[jobs[s].cluster] = None
    BY <1>6, <2>1, Ends, SMTT(30) DEF NodeDeleteCommit, At, AddsNode, AddsDevice
  <2> QED  BY <1>6, <2>1, NodeDeleteCommitNames, Zenon
<1>7. CASE DeviceAddSetup(s) \/ DeviceAddTeardown(s)
  BY <1>7, GoesOn, SMTT(30) DEF DeviceAddSetup, DeviceAddTeardown, At, AddsDevice, Steps, dbVars
<1>8. CASE DeviceAddCommit(s)
  <2>1. CASE nodes[jobs[s].node] # None => clusters[nodes[jobs[s].node].cluster] = None
    BY <1>8, <2>1, GoesOn, SMTT(30) DEF DeviceAddCommit, At, AddsDevice, Steps
  <2> QED  BY <1>8, <2>1, DeviceAddCommitNames, SMTT(30)
<1>11. CASE DeviceDeleteTeardown(s)
  BY <1>11, GoesOn, SMTT(30) DEF DeviceDeleteTeardown, At, DeletesDevice, Steps, dbVars
<1>12. CASE DeviceDeleteRing(s)
  <2>1. CASE rings[jobs[s].cluster] = None
    BY <1>12, <2>1, Ends, SMTT(30) DEF DeviceDeleteRing, At, AddsNode, AddsDevice, dbVars
  <2>2. CASE rings[jobs[s].cluster] # None
    BY <1>12, <2>2, GoesOn, Zenon DEF DeviceDeleteRing, At, DeletesDevice, Steps, dbVars
  <2> QED  BY <2>1, <2>2, Zenon
<1>14. CASE DeviceDeleteCommit(s)
  <2>1. CASE nodes[jobs[s].node] = None
    BY <1>14, <2>1, Ends, SMTT(30) DEF DeviceDeleteCommit, At, AddsNode, AddsDevice
  <2> QED  BY <1>14, <2>1, DeviceDeleteCommitNames, SMTT(30)
<1> QED
  BY <1>1, <1>2, <1>3, <1>5, <1>6, <1>7, <1>8, <1>11, <1>12, <1>14,
     NodeAddUndoNames, DeviceAddUndoNames, SMTT(30) DEF JobStep, DeviceDeletePanic

(* NamesReleased: whatever requests overlap, no step but a crash leaves a  *)
(* hostname or the name of a disk registered for nothing: the deferred     *)
(* Deregister of a failed add and the deletes release what they must.      *)
THEOREM NamesReleased == Spec => NamesLostOnlyByCrash
<1>1. Init => NamesKnown
  BY Zenon DEF Init, NamesKnown, DeletesNode, DeletesDevice
<1>2. ASSUME IInv, NamesKnown, [Next]_vars, ~UNCHANGED vars, ~Reboot
      PROVE  NamesKnown' /\ NamesKeep
  BY <1>2, RequestNames, JobStepNames, SMTT(30) DEF Next, Restart
<1>3. NamesKnown /\ (Reboot \/ UNCHANGED vars) => NamesKnown'
  BY DEF NamesKnown, DeletesNode, DeletesDevice, Reboot, vars, dbVars
<1>4. IInv /\ NamesKnown /\ [Next]_vars =>
        NamesKnown' /\ [Reboot \/ (LostHostnames' \subseteq LostHostnames
                                   /\ LostDeviceNames' \subseteq LostDeviceNames)]_vars
  BY <1>2, <1>3, Zenon DEF NamesKeep
<1> QED  BY <1>1, <1>4, InitSound, NextKeeps, PTL DEF Spec, NamesLostOnlyByCrash
=============================================================================
