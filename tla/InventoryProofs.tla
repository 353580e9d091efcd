-------------------------- MODULE InventoryProofs ---------------------------
(***************************************************************************)
(* What clients see of the inventory when requests are served one at a     *)
(* time, with commands that fail and restarts in the middle of them, for   *)
(* every number of clusters, nodes and devices: no orphans, no host or     *)
(* disk registered twice, and the inventory of module Inventory is         *)
(* implemented.  A delete checks in one transaction and acts in a later    *)
(* one, so this needs SerialInv: what the check saw still holds.           *)
(***************************************************************************)
EXTENDS NamesProofs

-----------------------------------------------------------------------------
(* Requests served one at a time                                           *)

OneAtATime == \A s, t \in Slots : s = t

(* What a job has made sure of when its request was accepted still holds.  *)
HostsHeld(s) ==
  AddsNode(s) =>
    /\ jobs[s].keys \subseteq nodeKeys
    /\ \A n \in NodeIds : nodes[n] # None => nodes[n].keys \cap jobs[s].keys = {}
DiskHeld(s) ==
  AddsDevice(s) =>
    /\ <<jobs[s].node, jobs[s].name>> \in deviceKeys
    /\ \A d \in DeviceIds : devices[d] # None =>
         <<devices[d].node, devices[d].name>> # <<jobs[s].node, jobs[s].name>>
StillEmpty(s) ==
  DeletesNode(s) => nodes[jobs[s].node] # None /\ nodes[jobs[s].node].devices = {}
StillThere(s) ==
  DeletesDevice(s) => devices[jobs[s].device] # None
Holds(s) == HostsHeld(s) /\ DiskHeld(s) /\ StillEmpty(s) /\ StillThere(s)

SerialInv == NoOrphanDevice /\ NamesHeld /\ \A s \in Slots : Holds(s)

(* The job in slot t goes on, ends, or is a delete that has just looked.   *)
HoldsOn(t) ==
  /\ AddsNode(t)' => AddsNode(t) /\ jobs'[t].keys = jobs[t].keys
  /\ AddsDevice(t)' => AddsDevice(t) /\ jobs'[t].node = jobs[t].node /\ jobs'[t].name = jobs[t].name
  /\ DeletesNode(t)' =>
       \/ DeletesNode(t) /\ jobs'[t].node = jobs[t].node
       \/ /\ jobs'[t].node \in NodeIds /\ nodes[jobs'[t].node] # None
          /\ nodes[jobs'[t].node].devices = {}
  /\ DeletesDevice(t)' =>
       \/ DeletesDevice(t) /\ jobs'[t].device = jobs[t].device
       \/ jobs'[t].device \in DeviceIds /\ devices[jobs'[t].device] # None

(* QuietSerial: a step that changes no name, no registration and no list   *)
(* of devices keeps what one handler at a time relies on.                  *)
LEMMA QuietSerial ==
  ASSUME IInv, SerialInv, SameNames, SameLists, \A t \in Slots : HoldsOn(t)
  PROVE  SerialInv'
<1>1. NoOrphanDevice'
  <2>1. \A d \in DeviceIds : devices[d] # None => devices[d].node \in NodeIds
    BY Zenon DEF IInv, DbTypeOK, Opt, Device
  <2> QED  BY <2>1, SMTT(30) DEF SerialInv, NoOrphanDevice, SameNames, SameLists
<1>2. NamesHeld'
  <2>1. ASSUME NEW n \in NodeIds, nodes'[n] # None
        PROVE  /\ nodes'[n].keys \subseteq nodeKeys'
               /\ \A m \in NodeIds \ {n} : nodes'[m] # None => nodes'[m].keys \cap nodes'[n].keys = {}
    BY <2>1, Zenon DEF SerialInv, NamesHeld, SameNames
  <2>2. ASSUME NEW d \in DeviceIds, devices'[d] # None
        PROVE  /\ <<devices'[d].node, devices'[d].name>> \in deviceKeys'
               /\ \A e \in DeviceIds \ {d} : devices'[e] # None =>
                    <<devices'[e].node, devices'[e].name>> # <<devices'[d].node, devices'[d].name>>
    BY <2>2, SMTT(30) DEF SerialInv, NamesHeld, SameNames
  <2> QED  BY <2>1, <2>2, Zenon DEF NamesHeld
<1>3. ASSUME NEW t \in Slots PROVE Holds(t)'
  <2>1. Holds(t) /\ HoldsOn(t)
    BY Zenon DEF SerialInv
  <2>2. HostsHeld(t)'
    BY <2>1, Zenon DEF Holds, HoldsOn, HostsHeld, SameNames
  <2>3. DiskHeld(t)'
    BY <2>1, SMTT(30) DEF Holds, HoldsOn, DiskHeld, SameNames
  <2>4. StillEmpty(t)'
    <3>1. DeletesNode(t) => jobs[t].node \in NodeIds
      BY Zenon DEF IInv, JobsSound, Sound, NodeDeleteSound
    <3> QED  BY <2>1, <3>1, SMTT(30) DEF Holds, HoldsOn, StillEmpty, SameNames, SameLists
  <2>5. StillThere(t)'
    <3>1. DeletesDevice(t) => jobs[t].device \in DeviceIds
      BY DEF IInv, JobsSound, Sound, DeviceDeleteSound
    <3> QED  BY <2>1, <3>1, SMTT(30) DEF Holds, HoldsOn, StillThere, SameNames
  <2> QED  BY <2>2, <2>3, <2>4, <2>5, Zenon DEF Holds
<1> QED  BY <1>1, <1>2, <1>3, Zenon DEF SerialInv

(* NodeAddSerial: the hostnames of the new job were free.                  *)
LEMMA NodeAddSerial ==
  ASSUME OneAtATime, IInv, SerialInv, NEW s \in Slots, NEW c \in ClusterIds, NEW n \in NodeIds,
         NEW ks \in HostnameSets, NodeAdd(s, c, n, ks)
  PROVE  SerialInv'
<1>1. NodeAdds(s, n, ks)
  BY NodeAddEffect, Zenon
<1>2. AddsNode(s)' /\ ~AddsDevice(s)' /\ ~DeletesNode(s)' /\ ~DeletesDevice(s)'
  BY <1>1, Zenon DEF NodeAdds, AddsNode, AddsDevice, DeletesNode, DeletesDevice
<1>3. NoOrphanDevice' /\ NamesHeld'
  BY <1>1, SMTT(30) DEF NodeAdds, SerialInv, NoOrphanDevice, NamesHeld
<1>4. Holds(s)'
  BY <1>1, <1>2, SMTT(30) DEF NodeAdds, Holds, HostsHeld, DiskHeld, StillEmpty, StillThere, SerialInv, NamesHeld
<1> QED  BY <1>3, <1>4, SMTT(30) DEF SerialInv, OneAtATime

(* OverHolds: a job that has ended has nothing to rely on.                 *)
LEMMA OverHolds ==
  ASSUME OneAtATime, NEW s \in Slots, jobs'[s] = None, NoOrphanDevice', NamesHeld'
  PROVE  SerialInv'
<1>1. Holds(s)'
  BY Over, Zenon DEF Holds, HostsHeld, DiskHeld, StillEmpty, StillThere
<1> QED  BY <1>1, Zenon DEF SerialInv, OneAtATime

(* NodeStoredSerial: the node takes over the names its add has held.       *)
LEMMA NodeStoredSerial ==
  ASSUME OneAtATime, IInv, SerialInv, NEW s \in Slots, NodeStored(s)
  PROVE  SerialInv'
<1> DEFINE n == jobs[s].node
<1>1. /\ n \in NodeIds /\ nodes[n] = None /\ nodes'[n].keys = jobs[s].keys
      /\ \A m \in NodeIds \ {n} : nodes'[m] = nodes[m]
      /\ UNCHANGED <<devices, nodeKeys, deviceKeys>>
  BY Zenon DEF NodeStored
<1>2. HostsHeld(s) /\ AddsNode(s)
  BY Zenon DEF SerialInv, Holds, NodeStored
<1>3. NoOrphanDevice'
  BY <1>1, SMTT(30) DEF SerialInv, NoOrphanDevice, IInv, DbTypeOK, Opt, Device
<1>4. NamesHeld'
  BY <1>1, <1>2, SMTT(30) DEF HostsHeld, SerialInv, NamesHeld
<1> QED  BY <1>3, <1>4, OverHolds, SMTT(30) DEF NodeStored

(* NodeForgottenSerial: a failed add gives back only its own names.        *)
LEMMA NodeForgottenSerial ==
  ASSUME OneAtATime, IInv, SerialInv, NEW s \in Slots, NodeForgotten(s)
  PROVE  SerialInv'
<1>1. HostsHeld(s) /\ AddsNode(s)
  BY Zenon DEF SerialInv, Holds, NodeForgotten
<1>2. NoOrphanDevice' /\ NamesHeld'
  BY <1>1, SMTT(30) DEF NodeForgotten, HostsHeld, SerialInv, NoOrphanDevice, NamesHeld
<1> QED  BY <1>2, OverHolds, Zenon DEF NodeForgotten

(* NodeRemovedSerial: the node still has no devices, and its names are its *)
(* own.                                                                    *)
LEMMA NodeRemovedSerial ==
  ASSUME OneAtATime, IInv, SerialInv, NEW s \in Slots, NodeRemoved(s)
  PROVE  SerialInv'
<1> DEFINE n == jobs[s].node
<1>1. /\ n \in NodeIds /\ nodes'[n] = None /\ nodes[n].keys = jobs[s].keys
      /\ nodes[n] # None /\ nodes[n].devices = {}
      /\ \A m \in NodeIds \ {n} : nodes'[m] = nodes[m]
      /\ nodeKeys' = nodeKeys \ jobs[s].keys
      /\ UNCHANGED <<devices, deviceKeys>>
  BY SMTT(30) DEF NodeRemoved, SerialInv, Holds, StillEmpty
<1>2. NoOrphanDevice'
  BY <1>1, SMTT(30) DEF SerialInv, NoOrphanDevice, IInv, DbTypeOK, Opt, Device
<1>3. NamesHeld'
  BY <1>1, SMTT(30) DEF SerialInv, NamesHeld
<1> QED  BY <1>2, <1>3, OverHolds, Zenon DEF NodeRemoved
(* DeviceAddSerial: the name of the disk was free on the node.             *)
LEMMA DeviceAddSerial ==
  ASSUME OneAtATime, IInv, SerialInv, NEW s \in Slots, NEW n \in NodeIds, NEW d \in DeviceIds,
         NEW name \in DeviceNames, DeviceAdd(s, n, d, name)
  PROVE  SerialInv'
<1>1. DeviceAdds(s, n, d, name)
  BY DeviceAddEffect, Zenon
<1>2. AddsDevice(s)' /\ ~AddsNode(s)' /\ ~DeletesNode(s)' /\ ~DeletesDevice(s)'
  BY <1>1, Zenon DEF DeviceAdds, AddsNode, AddsDevice, DeletesNode, DeletesDevice
<1>3. NoOrphanDevice' /\ NamesHeld'
  BY <1>1, SMTT(30) DEF DeviceAdds, SerialInv, NoOrphanDevice, NamesHeld
<1>4. Holds(s)'
  BY <1>1, <1>2, SMTT(30) DEF DeviceAdds, Holds, HostsHeld, DiskHeld, StillEmpty, StillThere, SerialInv, NamesHeld
<1> QED  BY <1>3, <1>4, Zenon DEF SerialInv, OneAtATime

(* DeviceStoredSerial: the node lists the device, which takes over the     *)
(* name its add has held.                                                  *)
LEMMA DeviceStoredSerial ==
  ASSUME OneAtATime, IInv, SerialInv, NEW s \in Slots, DeviceStored(s)
  PROVE  SerialInv'
<1> DEFINE n == jobs[s].node
           d == jobs[s].device
<1>1. /\ n \in NodeIds /\ d \in DeviceIds /\ devices[d] = None
      /\ devices'[d].node = n /\ devices'[d].name = jobs[s].name
      /\ \A e \in DeviceIds \ {d} : devices'[e] = devices[e]
      /\ \A m \in NodeIds \ {n} : nodes'[m] = nodes[m]
      /\ nodes[n] # None /\ nodes'[n] # None
      /\ nodes'[n].keys = nodes[n].keys /\ nodes'[n].devices = nodes[n].devices \cup {d}
      /\ UNCHANGED <<nodeKeys, deviceKeys>>
  BY Zenon DEF DeviceStored
<1>2. DiskHeld(s) /\ AddsDevice(s)
  BY Zenon DEF SerialInv, Holds, DeviceStored
<1>3. NoOrphanDevice'
  <2>1. \A e \in DeviceIds : devices[e] # None => devices[e].node \in NodeIds
    BY Zenon DEF IInv, DbTypeOK, Opt, Device
  <2> QED  BY <1>1, <2>1, SMTT(30) DEF SerialInv, NoOrphanDevice
<1>4. NamesHeld'
  <2>1. ASSUME NEW m \in NodeIds, nodes'[m] # None
        PROVE  /\ nodes'[m].keys \subseteq nodeKeys'
               /\ \A k \in NodeIds \ {m} : nodes'[k] # None => nodes'[k].keys \cap nodes'[m].keys = {}
    BY <1>1, <2>1, SMTT(30) DEF SerialInv, NamesHeld
  <2>2. ASSUME NEW e \in DeviceIds, devices'[e] # None
        PROVE  /\ <<devices'[e].node, devices'[e].name>> \in deviceKeys'
               /\ \A f \in DeviceIds \ {e} : devices'[f] # None =>
                    <<devices'[f].node, devices'[f].name>> # <<devices'[e].node, devices'[e].name>>
    BY <1>1, <1>2, <2>2, SMTT(30) DEF DiskHeld, SerialInv, NamesHeld
  <2> QED  BY <2>1, <2>2, ZenonT(40) DEF NamesHeld
<1> QED  BY <1>3, <1>4, OverHolds, SMTT(30) DEF DeviceStored

(* DeviceForgottenSerial: a failed add gives back its own disk's name.     *)
LEMMA DeviceForgottenSerial ==
  ASSUME OneAtATime, IInv, SerialInv, NEW s \in Slots, DeviceForgotten(s)
  PROVE  SerialInv'
<1>1. DiskHeld(s) /\ AddsDevice(s)
  BY Zenon DEF SerialInv, Holds, DeviceForgotten
<1>2. NoOrphanDevice' /\ NamesHeld'
  BY <1>1, SMTT(30) DEF DeviceForgotten, DiskHeld, SerialInv, NoOrphanDevice, NamesHeld
<1> QED  BY <1>2, OverHolds, Zenon DEF DeviceForgotten

(* DeviceRemovedSerial: the device goes from its node's list, and its name *)
(* with it.                                                                *)
LEMMA DeviceRemovedSerial ==
  ASSUME OneAtATime, IInv, SerialInv, NEW s \in Slots, DeviceRemoved(s)
  PROVE  SerialInv'
<1> DEFINE n == jobs[s].node
           d == jobs[s].device
<1>1. /\ n \in NodeIds /\ d \in DeviceIds /\ devices[d] # None /\ devices'[d] = None
      /\ devices[d].node = n /\ devices[d].name = jobs[s].name
      /\ \A e \in DeviceIds \ {d} : devices'[e] = devices[e]
      /\ \A m \in NodeIds \ {n} : nodes'[m] = nodes[m]
      /\ nodes[n] # None /\ nodes'[n] # None
      /\ nodes'[n].keys = nodes[n].keys /\ nodes'[n].devices = nodes[n].devices \ {d}
      /\ deviceKeys' = deviceKeys \ {<<n, jobs[s].name>>} /\ UNCHANGED nodeKeys
  BY Zenon DEF DeviceRemoved, SerialInv, Holds, StillThere
<1>2. NoOrphanDevice'
  <2>1. \A e \in DeviceIds : devices[e] # None => devices[e].node \in NodeIds
    BY Zenon DEF IInv, DbTypeOK, Opt, Device
  <2> QED  BY <1>1, <2>1, SMTT(30) DEF SerialInv, NoOrphanDevice
<1>3. NamesHeld'
  <2>1. ASSUME NEW m \in NodeIds, nodes'[m] # None
        PROVE  /\ nodes'[m].keys \subseteq nodeKeys'
               /\ \A k \in NodeIds \ {m} : nodes'[k] # None => nodes'[k].keys \cap nodes'[m].keys = {}
    BY <1>1, <2>1, SMTT(30) DEF SerialInv, NamesHeld
  <2>2. ASSUME NEW e \in DeviceIds, devices'[e] # None
        PROVE  /\ <<devices'[e].node, devices'[e].name>> \in deviceKeys'
               /\ \A f \in DeviceIds \ {e} : devices'[f] # None =>
                    <<devices'[f].node, devices'[f].name>> # <<devices'[e].node, devices'[e].name>>
    BY <1>1, <2>2, SMTT(30) DEF SerialInv, NamesHeld
  <2> QED  BY <2>1, <2>2, Zenon DEF NamesHeld
<1> QED  BY <1>2, <1>3, OverHolds, SMTT(30) DEF DeviceRemoved

(* OnlyJobSerial: a step that changes nothing but the job in slot s, and   *)
(* perhaps rings, pools or volume groups.                                  *)
LEMMA OnlyJobSerial ==
  ASSUME OneAtATime, IInv, SerialInv, NEW s \in Slots, HoldsOn(s),
         UNCHANGED <<nodes, devices, nodeKeys, deviceKeys>>
  PROVE  SerialInv'
  BY QuietSerial, Zenon DEF OneAtATime, SameNames, SameLists

(* GoesOnSerial: the job in slot s moves on within its handler.            *)
LEMMA GoesOnSerial ==
  ASSUME OneAtATime, IInv, SerialInv, NEW s \in Slots, NEW step \in Steps, jobs[s] # None,
         Goto(s, step), UNCHANGED <<nodes, devices, nodeKeys, deviceKeys>>,
         \/ AddsNode(s) /\ step \in {"NodeAdd.commit", "NodeAdd.undo"}
         \/ DeletesNode(s) /\ step = "NodeDelete.commit"
         \/ AddsDevice(s) /\ step \in {"DeviceAdd.commit", "DeviceAdd.teardown", "DeviceAdd.undo"}
         \/ DeletesDevice(s) /\ step \in {"DeviceDelete.ring", "DeviceDelete.commit"}
  PROVE  SerialInv'
<1>1. /\ jobs'[s].node = jobs[s].node /\ jobs'[s].keys = jobs[s].keys
      /\ jobs'[s].device = jobs[s].device /\ jobs'[s].name = jobs[s].name
      /\ jobs'[s].at = step
  BY Zenon DEF Goto, IInv, DbTypeOK, Opt, Job
<1>2. HoldsOn(s)
  BY <1>1, Zenon DEF HoldsOn, AddsNode, AddsDevice, DeletesNode, DeletesDevice
<1> QED  BY <1>2, OnlyJobSerial, Zenon

(* EndsSerial: the job in slot s ends and leaves the database alone.       *)
LEMMA EndsSerial ==
  ASSUME OneAtATime, IInv, SerialInv, NEW s \in Slots, End(s),
         UNCHANGED <<nodes, devices, nodeKeys, deviceKeys>>
  PROVE  SerialInv'
<1>1. jobs'[s] = None
  BY Zenon DEF End, IInv, DbTypeOK
<1>2. HoldsOn(s)
  BY <1>1, Over, SMTT(30) DEF HoldsOn
<1> QED  BY <1>2, OnlyJobSerial, Zenon
(* RequestSerial: what the first transaction of a handler has looked at.   *)
LEMMA RequestSerial ==
  ASSUME OneAtATime, IInv, SerialInv, Request
  PROVE  SerialInv'
<1>0. ASSUME jobs' = jobs, SameNames, SameLists PROVE SerialInv'
  <2>1. \A t \in Slots : HoldsOn(t)
    BY <1>0, Zenon DEF HoldsOn, AddsNode, AddsDevice, DeletesNode, DeletesDevice
  <2> QED  BY <1>0, <2>1, QuietSerial, SMTT(30)
<1>1. CASE \E c \in ClusterIds : ClusterCreate(c)
  BY <1>0, <1>1, SMTT(30) DEF ClusterCreate, SameNames, SameLists
<1>2. CASE \E s \in Slots, c \in ClusterIds : ClusterDelete(s, c)
  <2>1. PICK s \in Slots, c \in ClusterIds : ClusterDelete(s, c)
    BY <1>2, SMTT(30)
  <2>2. jobs'[s].at = "ClusterDelete.ring" /\ UNCHANGED <<nodes, devices, nodeKeys, deviceKeys>>
    BY <2>1, SMTT(30) DEF ClusterDelete, Begin, NewJob, IInv, DbTypeOK
  <2>3. HoldsOn(s)
    BY <2>2, SMTT(30) DEF HoldsOn, AddsNode, AddsDevice, DeletesNode, DeletesDevice
  <2> QED  BY <2>2, <2>3, OnlyJobSerial, SMTT(30)
<1>3. CASE \E s \in Slots, c \in ClusterIds, n \in NodeIds, ks \in HostnameSets : NodeAdd(s, c, n, ks)
  BY <1>3, NodeAddSerial, SMTT(30)
<1>4. CASE \E s \in Slots, n \in NodeIds : NodeDelete(s, n)
  <2>1. PICK s \in Slots, n \in NodeIds : NodeDelete(s, n)
    BY <1>4, Zenon
  <2>2. nodes[n] # None /\ nodes[n].devices = {} /\ UNCHANGED <<nodes, devices, nodeKeys, deviceKeys>>
    BY <2>1, SMTT(30) DEF NodeDelete, NodeIsDeleteOk, dbVars
  <2>3. jobs'[s].at \in {"NodeDelete.detach", "NodeDelete.commit"} /\ jobs'[s].node = n
    BY <2>1, SMTT(30) DEF NodeDelete, Begin, NewJob, IInv, DbTypeOK
  <2>4. HoldsOn(s)
    BY <2>2, <2>3, Zenon DEF HoldsOn, AddsNode, AddsDevice, DeletesNode, DeletesDevice
  <2> QED  BY <2>2, <2>4, OnlyJobSerial, SMTT(30)
<1>5. CASE \E s \in Slots, n \in NodeIds, d \in DeviceIds, name \in DeviceNames :
             DeviceAdd(s, n, d, name)
  BY <1>5, DeviceAddSerial, Zenon
<1>6. CASE \E s \in Slots, d \in DeviceIds : DeviceDelete(s, d)
  <2>1. PICK s \in Slots, d \in DeviceIds : DeviceDelete(s, d)
    BY <1>6, Zenon
  <2>2. devices[d] # None /\ UNCHANGED <<nodes, devices, nodeKeys, deviceKeys>>
    BY <2>1, Zenon DEF DeviceDelete, dbVars
  <2>3. jobs'[s].at = "DeviceDelete.teardown" /\ jobs'[s].device = d
    BY <2>1, SMTT(30) DEF DeviceDelete, Begin, NewJob, IInv, DbTypeOK
  <2>4. HoldsOn(s)
    BY <2>2, <2>3, SMTT(30) DEF HoldsOn, AddsNode, AddsDevice, DeletesNode, DeletesDevice
  <2> QED  BY <2>2, <2>4, OnlyJobSerial, Zenon
<1>7. CASE (\E n \in NodeIds : NodeSetState(n)) \/ (\E d \in DeviceIds : DeviceSetState(d))
  BY <1>0, <1>7, NodeStateEffect, DeviceStateEffect, SMTT(30)
<1> QED  BY <1>1, <1>2, <1>3, <1>4, <1>5, <1>6, <1>7, SMTT(30) DEF Request

(* JobStepSerial: the later steps of the handlers.                         *)
LEMMA JobStepSerial ==
  ASSUME OneAtATime, IInv, NamesKnown, SerialInv, NEW s \in Slots, JobStep(s), ~Reboot
  PROVE  SerialInv'
<1>1. CASE ClusterDeleteRing(s)
  BY <1>1, EndsSerial, Zenon DEF ClusterDeleteRing, dbVars
<1>2. CASE NodeAddProbe(s)
  BY <1>2, GoesOnSerial, Zenon DEF NodeAddProbe, At, AddsNode, Steps, dbVars
<1>3. CASE NodeAddCommit(s)
  <2>1. CASE clusters[jobs[s].cluster] = None
    BY <1>3, <2>1, GoesOnSerial, SMTT(30) DEF NodeAddCommit, At, AddsNode, Steps
  <2> QED  BY <1>3, <2>1, NodeAddCommitEffect, NodeStoredSerial, SMTT(30)
<1>4. CASE NodeAddUndo(s)
  BY <1>4, NodeAddUndoEffect, NodeForgottenSerial, SMTT(30)
<1>5. CASE NodeDeleteDetach(s)
  BY <1>5, GoesOnSerial, SMTT(30) DEF NodeDeleteDetach, At, DeletesNode, Steps, dbVars
<1>6. CASE NodeDeleteCommit(s)
  <2>1. CASE clusters[jobs[s].cluster] = None
    BY <1>6, <2>1, EndsSerial, SMTT(30) DEF NodeDeleteCommit
  <2> QED  BY <1>6, <2>1, NodeDeleteCommitEffect, NodeRemovedSerial, SMTT(30)
<1>7. CASE DeviceAddSetup(s) \/ DeviceAddTeardown(s)
  BY <1>7, GoesOnSerial, Zenon DEF DeviceAddSetup, DeviceAddTeardown, At, AddsDevice, Steps, dbVars
<1>8. CASE DeviceAddCommit(s)
  <2>1. CASE nodes[jobs[s].node] # None => clusters[nodes[jobs[s].node].cluster] = None
    BY <1>8, <2>1, GoesOnSerial, SMTT(30) DEF DeviceAddCommit, At, AddsDevice, Steps
  <2> QED  BY <1>8, <2>1, DeviceAddCommitEffect, DeviceStoredSerial, SMTT(30)
<1>9. CASE DeviceAddUndo(s)
  BY <1>9, DeviceAddUndoEffect, DeviceForgottenSerial
<1>11. CASE DeviceDeleteTeardown(s)
  BY <1>11, GoesOnSerial, SMTT(30) DEF DeviceDeleteTeardown, At, DeletesDevice, Steps, dbVars
<1>12. CASE DeviceDeleteRing(s)
  <2>1. CASE rings[jobs[s].cluster] = None
    BY <1>12, <2>1, EndsSerial, SMTT(30) DEF DeviceDeleteRing, dbVars
  <2>2. CASE rings[jobs[s].cluster] # None
    BY <1>12, <2>2, GoesOnSerial, SMTT(30) DEF DeviceDeleteRing, At, DeletesDevice, Steps, dbVars
  <2> QED  BY <2>1, <2>2, SMTT(30)
<1>14. CASE DeviceDeleteCommit(s)
  <2>1. CASE nodes[jobs[s].node] = None
    BY <1>14, <2>1, EndsSerial, SMTT(30) DEF DeviceDeleteCommit
  <2> QED  BY <1>14, <2>1, DeviceDeleteCommitEffect, DeviceRemovedSerial, SMTT(30)
<1> QED
  BY <1>1, <1>2, <1>3, <1>4, <1>5, <1>6, <1>7, <1>8, <1>9, <1>11, <1>12, <1>14, SMTT(30)
  DEF JobStep, DeviceDeletePanic

(* SerialInvariance: with requests served one at a time, SerialInv and     *)
(* what it rests on hold in every state of the server.                     *)
THEOREM SerialInvariance ==
  ASSUME OneAtATime
  PROVE  Spec => [](IInv /\ NamesKnown /\ SerialInv)
<1>1. Init => NamesKnown /\ SerialInv
  BY SMTT(30) DEF Init, NamesKnown, SerialInv, NoOrphanDevice, NamesHeld, Holds, HostsHeld, DiskHeld,
         StillEmpty, StillThere, AddsNode, AddsDevice, DeletesNode, DeletesDevice
<1>2. NamesKnown /\ SerialInv /\ (Reboot \/ UNCHANGED vars) => NamesKnown' /\ SerialInv'
  BY SMTT(30) DEF NamesKnown, SerialInv, NoOrphanDevice, NamesHeld, Holds, HostsHeld, DiskHeld,
         StillEmpty, StillThere, AddsNode, AddsDevice, DeletesNode, DeletesDevice,
         Reboot, vars, dbVars
<1>3. ASSUME IInv, NamesKnown, SerialInv, Next, ~Reboot
      PROVE  NamesKnown' /\ SerialInv'
  BY <1>3, RequestNames, JobStepNames, RequestSerial, JobStepSerial, Zenon DEF Next, Restart
<1>4. IInv /\ NamesKnown /\ SerialInv /\ [Next]_vars => NamesKnown' /\ SerialInv'
  BY <1>2, <1>3, Zenon
<1> QED  BY <1>1, <1>4, InitSound, NextKeeps, PTL DEF Spec

(* NoDeviceOrphaned: NodeEntry.Delete refuses a node that has devices, and *)
(* when no other request comes between that check and the transaction that *)
(* removes the node, no device is left without its node.                   *)
THEOREM NoDeviceOrphaned ==
  ASSUME OneAtATime
  PROVE  Spec => []NoOrphanDevice
<1>1. SerialInv => NoOrphanDevice
  BY Zenon DEF SerialInv
<1> QED  BY <1>1, SerialInvariance, PTL

(* NamesAreHeld: served one at a time, with commands that fail and         *)
(* restarts in the middle, Register and Deregister never let two nodes     *)
(* share a hostname or two devices be the same disk.                       *)
THEOREM NamesAreHeld ==
  ASSUME OneAtATime
  PROVE  Spec => []NamesHeld
<1>1. SerialInv => NamesHeld
  BY Zenon DEF SerialInv
<1> QED  BY <1>1, SerialInvariance, PTL
-----------------------------------------------------------------------------
(* The inventory is implemented                                            *)

(* The state of Inventory, as ImplementsInventory maps it.                 *)
Live  == {c \in ClusterIds : clusters[c] # None}
Owner == [n \in NodeIds |-> IF nodes[n] = None THEN None ELSE nodes[n].cluster]
Home  == [d \in DeviceIds |-> IF devices[d] = None THEN None ELSE devices[d].node]

(* A step that clients do not see in the inventory.                        *)
Unseen == Live' = Live /\ Owner' = Owner /\ Home' = Home

(* UnseenIsStutter: such a step is a stuttering step of Inventory.         *)
LEMMA UnseenIsStutter ==
  ASSUME Unseen
  PROVE  [Inv!Next]_(Inv!vars)
  BY Zenon DEF Unseen, Live, Owner, Home, Inv!vars

(* The operations of Inventory, over the mapped state.                     *)
AddsOneCluster(c) == Live' = Live \cup {c} /\ Owner' = Owner /\ Home' = Home
DeletesOneCluster(c) ==
  /\ \A n \in NodeIds : Owner[n] # c
  /\ Live' = Live \ {c} /\ Owner' = Owner /\ Home' = Home
AddsOneNode(n, c) ==
  /\ c \in Live /\ Owner[n] = None
  /\ Owner' = [Owner EXCEPT ![n] = c] /\ Live' = Live /\ Home' = Home
DeletesOneNode(n) ==
  /\ \A d \in DeviceIds : Home[d] # n
  /\ Owner' = [Owner EXCEPT ![n] = None] /\ Live' = Live /\ Home' = Home
AddsOneDevice(d, n) ==
  /\ Owner[n] # None /\ Home[d] = None
  /\ Home' = [Home EXCEPT ![d] = n] /\ Live' = Live /\ Owner' = Owner
DeletesOneDevice(d) ==
  Home' = [Home EXCEPT ![d] = None] /\ Live' = Live /\ Owner' = Owner

(* SeenIsOperation: each of them is a step of Inventory.                   *)
LEMMA SeenIsOperation ==
  ASSUME \/ \E c \in ClusterIds : AddsOneCluster(c) \/ DeletesOneCluster(c)
         \/ \E n \in NodeIds : DeletesOneNode(n) \/ \E c \in ClusterIds : AddsOneNode(n, c)
         \/ \E d \in DeviceIds : DeletesOneDevice(d) \/ \E n \in NodeIds : AddsOneDevice(d, n)
  PROVE  [Inv!Next]_(Inv!vars)
<1>1. CASE \E c \in ClusterIds : AddsOneCluster(c)
  <2>1. PICK c \in ClusterIds : AddsOneCluster(c)
    BY <1>1, Zenon
  <2>2. Inv!AddCluster(c)
    BY <2>1, Zenon DEF AddsOneCluster, Live, Owner, Home, Inv!AddCluster
  <2> QED  BY <2>2, Zenon DEF Inv!Next
<1>2. CASE \E c \in ClusterIds : DeletesOneCluster(c)
  <2>1. PICK c \in ClusterIds : DeletesOneCluster(c)
    BY <1>2, Zenon
  <2>2. Inv!DeleteCluster(c)
    BY <2>1, Zenon DEF DeletesOneCluster, Live, Owner, Home, Inv!DeleteCluster
  <2> QED  BY <2>2, Zenon DEF Inv!Next
<1>3. CASE \E n \in NodeIds : DeletesOneNode(n)
  <2>1. PICK n \in NodeIds : DeletesOneNode(n)
    BY <1>3, Zenon
  <2>2. Inv!DeleteNode(n)
    BY <2>1, Zenon DEF DeletesOneNode, Live, Owner, Home, Inv!DeleteNode
  <2> QED  BY <2>2, Zenon DEF Inv!Next
<1>4. CASE \E n \in NodeIds, c \in ClusterIds : AddsOneNode(n, c)
  <2>1. PICK n \in NodeIds, c \in ClusterIds : AddsOneNode(n, c)
    BY <1>4, SMTT(30)
  <2>2. Inv!AddNode(n, c)
    BY <2>1, Zenon DEF AddsOneNode, Live, Owner, Home, Inv!AddNode
  <2> QED  BY <2>2, Zenon DEF Inv!Next
<1>5. CASE \E d \in DeviceIds : DeletesOneDevice(d)
  <2>1. PICK d \in DeviceIds : DeletesOneDevice(d)
    BY <1>5, ZenonT(40)
  <2>2. Inv!DeleteDevice(d)
    BY <2>1, SMTT(30) DEF DeletesOneDevice, Live, Owner, Home, Inv!DeleteDevice
  <2> QED  BY <2>2, SMTT(30) DEF Inv!Next
<1>6. CASE \E d \in DeviceIds, n \in NodeIds : AddsOneDevice(d, n)
  <2>1. PICK d \in DeviceIds, n \in NodeIds : AddsOneDevice(d, n)
    BY <1>6, Zenon
  <2>2. Inv!AddDevice(d, n)
    BY <2>1, Zenon DEF AddsOneDevice, Live, Owner, Home, Inv!AddDevice
  <2> QED  BY <2>2, SMTT(30) DEF Inv!Next
<1> QED  BY <1>1, <1>2, <1>3, <1>4, <1>5, <1>6, SMTT(30)
(* SameIsUnseen: names, states and lists of devices apart, nothing changes.*)
LEMMA SameIsUnseen ==
  ASSUME SameNames, SameClusters
  PROVE  Unseen
  BY Zenon DEF SameNames, SameClusters, Unseen, Live, Owner, Home

(* ClusterSeen: creating and deleting a cluster are the operations of      *)
(* Inventory; no node names a cluster that lists none.                     *)
LEMMA ClusterSeen ==
  ASSUME IInv, NEW c \in ClusterIds,
         ClusterCreate(c) \/ \E s \in Slots : ClusterDelete(s, c)
  PROVE  AddsOneCluster(c) \/ DeletesOneCluster(c)
<1>1. CASE ClusterCreate(c)
  <2>1. [nodes |-> {}, volumes |-> {}] # None
    BY NoneAssumption, SMTT(30) DEF Cluster
  <2>2. Live' = Live \cup {c}
    BY <1>1, <2>1, Zenon DEF ClusterCreate, Live, IInv, DbTypeOK
  <2> QED  BY <1>1, <2>2, SMTT(30) DEF ClusterCreate, AddsOneCluster, Owner, Home
<1>2. CASE \E s \in Slots : ClusterDelete(s, c)
  <2>1. Live' = Live \ {c}
    BY <1>2, Zenon DEF ClusterDelete, Live, IInv, DbTypeOK
  <2>2. \A n \in NodeIds : Owner[n] # c
    BY <1>2, IdsAssumption, SMTT(30)
    DEF ClusterDelete, ClusterIsDeleteOk, Owner, IInv, ReferentialIntegrity
  <2> QED  BY <1>2, <2>1, <2>2, Zenon DEF ClusterDelete, DeletesOneCluster, Owner, Home
<1> QED  BY <1>1, <1>2, SMTT(30)

(* ListsKeepLive: a cluster whose list of nodes changes is still there.    *)
LEMMA ListsKeepLive ==
  ASSUME NEW c \in ClusterIds, clusters[c] # None, clusters'[c] \in Cluster,
         \A e \in ClusterIds \ {c} : clusters'[e] = clusters[e]
  PROVE  Live' = Live
  BY NoneAssumption, ZenonT(40) DEF Live

(* NodeStoredSeen: the transaction of NodeAdd that stores the node adds it *)
(* to the inventory.                                                       *)
LEMMA NodeStoredSeen ==
  ASSUME IInv, NEW s \in Slots, NodeAddCommit(s), clusters[jobs[s].cluster] # None
  PROVE  AddsOneNode(jobs[s].node, jobs[s].cluster) /\ jobs[s].cluster \in ClusterIds
<1> DEFINE n == jobs[s].node
           c == jobs[s].cluster
<1>1. AddsNode(s) /\ c \in ClusterIds /\ n \in NodeIds /\ nodes[n] = None
  BY SMTT(30) DEF IInv, JobsSound, Sound, NodeAddSound, NodeAddCommit, At, AddsNode
<1>2. NodeStored(s) /\ nodes'[n].cluster = c
  BY <1>1, NodeAddCommitEffect, SMTT(30) DEF NodeAddCommit, IInv, DbTypeOK
<1>3. Live' = Live
  <2>1. clusters' = [clusters EXCEPT ![c].nodes = @ \cup {n}]
    BY Zenon DEF NodeAddCommit
  <2>2. clusters[c] \in Cluster
    BY <1>1, Zenon DEF IInv, DbTypeOK, Opt
  <2>3. clusters'[c] \in Cluster /\ \A e \in ClusterIds \ {c} : clusters'[e] = clusters[e]
    BY <1>1, <2>1, <2>2, Zenon DEF IInv, DbTypeOK, Cluster
  <2> QED  BY <1>1, <2>3, ListsKeepLive, Zenon
<1>4. Owner' = [Owner EXCEPT ![n] = c]
  <2>1. /\ nodes'[n] # None /\ nodes'[n].cluster = c
        /\ \A m \in NodeIds \ {n} : nodes'[m] = nodes[m]
    BY <1>2, Zenon DEF NodeStored
  <2>2. \A m \in NodeIds : Owner'[m] = IF m = n THEN c ELSE Owner[m]
    BY <2>1, Zenon DEF Owner
  <2>3. Owner = [m \in NodeIds |-> Owner[m]] /\ Owner' = [m \in NodeIds |-> Owner'[m]]
    BY Zenon DEF Owner
  <2> QED  BY <2>2, <2>3, Zenon
<1>5. Home' = Home
  BY <1>2, Zenon DEF NodeStored, Home
<1> QED  BY <1>1, <1>3, <1>4, <1>5, SMTT(30) DEF AddsOneNode, Live, Owner

(* NodeRemovedSeen: the transaction of NodeDelete that removes the node    *)
(* deletes it from the inventory, and it is the home of no device.         *)
LEMMA NodeRemovedSeen ==
  ASSUME IInv, NamesKnown, SerialInv, NEW s \in Slots, NodeDeleteCommit(s),
         clusters[jobs[s].cluster] # None
  PROVE  DeletesOneNode(jobs[s].node) /\ jobs[s].node \in NodeIds
<1> DEFINE n == jobs[s].node
           c == jobs[s].cluster
<1>1. DeletesNode(s)
  BY ZenonT(40) DEF NodeDeleteCommit, At, DeletesNode
<1>2. c \in ClusterIds /\ n \in NodeIds /\ nodes[n] # None /\ nodes[n].devices = {}
  BY <1>1, SMTT(30) DEF IInv, JobsSound, Sound, NodeDeleteSound, SerialInv, Holds, StillEmpty
<1>3. NodeRemoved(s)
  BY NodeDeleteCommitEffect, Zenon
<1>4. Live' = Live
  <2>1. clusters' = [clusters EXCEPT ![c].nodes = @ \ {n}]
    BY Zenon DEF NodeDeleteCommit, ClusterNodeDelete
  <2>2. clusters[c] \in Cluster
    BY <1>2, SMTT(30) DEF IInv, DbTypeOK, Opt
  <2>3. clusters'[c] \in Cluster /\ \A e \in ClusterIds \ {c} : clusters'[e] = clusters[e]
    BY <1>2, <2>1, <2>2, SMTT(30) DEF IInv, DbTypeOK, Cluster
  <2> QED  BY <1>2, <2>3, ListsKeepLive, SMTT(30)
<1>5. Owner' = [Owner EXCEPT ![n] = None]
  <2>1. nodes'[n] = None /\ \A m \in NodeIds \ {n} : nodes'[m] = nodes[m]
    BY <1>3, SMTT(30) DEF NodeRemoved
  <2>2. \A m \in NodeIds : Owner'[m] = IF m = n THEN None ELSE Owner[m]
    BY <2>1, SMTT(30) DEF Owner
  <2>3. Owner = [m \in NodeIds |-> Owner[m]] /\ Owner' = [m \in NodeIds |-> Owner'[m]]
    BY Zenon DEF Owner
  <2> QED  BY <2>2, <2>3, SMTT(30)
<1>6. Home' = Home
  BY <1>3, Zenon DEF NodeRemoved, Home
<1>7. ASSUME NEW d \in DeviceIds PROVE Home[d] # n
  <2>1. n # None
    BY <1>2, IdsAssumption, SMTT(30)
  <2>2. devices[d] # None => devices[d].node # n
    BY <1>2, SMTT(30) DEF SerialInv, NoOrphanDevice
  <2> QED  BY <2>1, <2>2, SMTT(30) DEF Home
<1> QED  BY <1>2, <1>4, <1>5, <1>6, <1>7, SMTT(30) DEF DeletesOneNode

(* DeviceStoredSeen: DeviceAdd's transaction adds the device to a node     *)
(* that is there.                                                          *)
LEMMA DeviceStoredSeen ==
  ASSUME IInv, NEW s \in Slots, DeviceAddCommit(s),
         nodes[jobs[s].node] # None, clusters[nodes[jobs[s].node].cluster] # None
  PROVE  /\ AddsOneDevice(jobs[s].device, jobs[s].node)
         /\ jobs[s].device \in DeviceIds /\ jobs[s].node \in NodeIds
<1> DEFINE n == jobs[s].node
           d == jobs[s].device
<1>1. DeviceStored(s)
  BY DeviceAddCommitEffect, SMTT(30)
<1>2. n \in NodeIds /\ nodes[n] \in Node
  BY <1>1, SMTT(30) DEF DeviceStored, IInv, DbTypeOK, Opt
<1>3. nodes'[n].cluster = nodes[n].cluster /\ clusters' = clusters
  BY <1>2, SMTT(30) DEF DeviceAddCommit, IInv, DbTypeOK, Node
<1>4. Owner' = Owner /\ Live' = Live /\ Owner[n] # None
  BY <1>1, <1>2, <1>3, IdsAssumption, SMTT(30) DEF DeviceStored, Owner, Live, Node
<1>5. Home' = [Home EXCEPT ![d] = n] /\ Home[d] = None
  BY <1>1, SMTT(30) DEF DeviceStored, Home
<1> QED  BY <1>1, <1>4, <1>5, SMTT(30) DEF AddsOneDevice, DeviceStored

(* DeviceRemovedSeen: DeviceDelete's transaction deletes the device.       *)
LEMMA DeviceRemovedSeen ==
  ASSUME IInv, NamesKnown, NEW s \in Slots, DeviceDeleteCommit(s), nodes[jobs[s].node] # None
  PROVE  DeletesOneDevice(jobs[s].device) /\ jobs[s].device \in DeviceIds
<1> DEFINE n == jobs[s].node
           d == jobs[s].device
<1>1. DeviceRemoved(s)
  BY DeviceDeleteCommitEffect, SMTT(30)
<1>2. n \in NodeIds /\ nodes[n] \in Node
  BY <1>1, SMTT(30) DEF DeviceRemoved, IInv, DbTypeOK, Opt
<1>3. nodes'[n].cluster = nodes[n].cluster /\ clusters' = clusters
  BY <1>2, SMTT(30) DEF DeviceDeleteCommit, IInv, DbTypeOK, Node
<1>4. Owner' = Owner /\ Live' = Live
  BY <1>1, <1>2, <1>3, SMTT(30) DEF DeviceRemoved, Owner, Live
<1>5. Home' = [Home EXCEPT ![d] = None]
  <2>1. /\ d \in DeviceIds /\ devices'[d] = None
        /\ \A e \in DeviceIds \ {d} : devices'[e] = devices[e]
    BY <1>1, SMTT(30) DEF DeviceRemoved
  <2>2. \A e \in DeviceIds : Home'[e] = IF e = d THEN None ELSE Home[e]
    BY <2>1, SMTT(30) DEF Home
  <2>3. Home = [e \in DeviceIds |-> Home[e]] /\ Home' = [e \in DeviceIds |-> Home'[e]]
    BY Zenon DEF Home
  <2> QED  BY <2>2, <2>3, SMTT(30)
<1> QED  BY <1>1, <1>4, <1>5, ZenonT(40) DEF DeletesOneDevice, DeviceRemoved
(* StepImplements: every step of the server is an operation of Inventory   *)
(* or is not seen in it.                                                   *)
LEMMA StepImplements ==
  ASSUME IInv, NamesKnown, SerialInv, [Next]_vars
  PROVE  [Inv!Next]_(Inv!vars)
<1>1. CASE UNCHANGED <<clusters, nodes, devices>>
  BY <1>1, UnseenIsStutter, SMTT(30) DEF Unseen, Live, Owner, Home
<1>2. CASE Request
  <2>1. CASE \E c \in ClusterIds : ClusterCreate(c) \/ \E s \in Slots : ClusterDelete(s, c)
    BY <2>1, ClusterSeen, SeenIsOperation, SMTT(30)
  <2>2. CASE \E n \in NodeIds : NodeSetState(n)
    BY <2>2, NodeStateEffect, SameIsUnseen, UnseenIsStutter, SMTT(30)
  <2>3. CASE \E d \in DeviceIds : DeviceSetState(d)
    BY <2>3, DeviceStateEffect, SameIsUnseen, UnseenIsStutter, SMTT(30)
  <2>4. CASE \E s \in Slots, c \in ClusterIds, n \in NodeIds, ks \in HostnameSets :
               NodeAdd(s, c, n, ks)
    BY <1>1, <2>4, SMTT(30) DEF NodeAdd
  <2>5. CASE \E s \in Slots, n \in NodeIds : NodeDelete(s, n)
    <3>1. UNCHANGED dbVars
      BY <2>5, Zenon DEF NodeDelete
    <3> QED  BY <1>1, <3>1, SMTT(30) DEF dbVars
  <2>6. CASE \E s \in Slots, n \in NodeIds, d \in DeviceIds, name \in DeviceNames :
               DeviceAdd(s, n, d, name)
    BY <1>1, <2>6, SMTT(30) DEF DeviceAdd
  <2>7. CASE \E s \in Slots, d \in DeviceIds : DeviceDelete(s, d)
    <3>1. UNCHANGED dbVars
      BY <2>7, Zenon DEF DeviceDelete
    <3> QED  BY <1>1, <3>1 DEF dbVars
  <2> QED  BY <1>2, <2>1, <2>2, <2>3, <2>4, <2>5, <2>6, <2>7, SMTT(30) DEF Request
<1>3. CASE \E s \in Slots : JobStep(s)
  <2>1. PICK s \in Slots : JobStep(s)
    BY <1>3, Zenon
  <2>2. CASE NodeAddCommit(s)
    <3>1. AddsNode(s)
      BY <2>2, Zenon DEF NodeAddCommit, At, AddsNode
    <3>2. jobs[s].node \in NodeIds
      BY <3>1, Zenon DEF IInv, JobsSound, Sound, NodeAddSound
    <3>3. CASE clusters[jobs[s].cluster] = None
      BY <1>1, <2>2, <3>3, SMTT(30) DEF NodeAddCommit
    <3> QED  BY <2>2, <3>2, <3>3, NodeStoredSeen, SeenIsOperation, SMTT(30)
  <2>3. CASE NodeDeleteCommit(s)
    <3>1. CASE clusters[jobs[s].cluster] = None
      BY <1>1, <2>3, <3>1, SMTT(30) DEF NodeDeleteCommit
    <3> QED  BY <2>3, <3>1, NodeRemovedSeen, SeenIsOperation, SMTT(30)
  <2>4. CASE DeviceAddCommit(s)
    <3>1. CASE nodes[jobs[s].node] # None => clusters[nodes[jobs[s].node].cluster] = None
      BY <1>1, <2>4, <3>1, SMTT(30) DEF DeviceAddCommit
    <3> QED  BY <2>4, <3>1, DeviceStoredSeen, SeenIsOperation, SMTT(30)
  <2>5. CASE DeviceDeleteCommit(s)
    <3>1. CASE nodes[jobs[s].node] = None
      BY <1>1, <2>5, <3>1, SMTT(30) DEF DeviceDeleteCommit
    <3> QED  BY <2>5, <3>1, DeviceRemovedSeen, SeenIsOperation, SMTT(30)
  <2>6. CASE \/ ClusterDeleteRing(s) \/ NodeAddProbe(s) \/ NodeAddUndo(s) \/ NodeDeleteDetach(s)
             \/ DeviceAddSetup(s) \/ DeviceAddTeardown(s) \/ DeviceAddUndo(s)
             \/ DeviceDeleteTeardown(s) \/ DeviceDeleteRing(s) \/ DeviceDeletePanic(s)
    <3>1. UNCHANGED <<clusters, nodes, devices>>
      BY <2>6, Zenon DEF ClusterDeleteRing, NodeAddProbe, NodeAddUndo, NodeDeleteDetach,
         DeviceAddSetup, DeviceAddTeardown, DeviceAddUndo, DeviceDeleteTeardown,
         DeviceDeleteRing, DeviceDeletePanic, Reboot, dbVars
    <3> QED  BY <1>1, <3>1, SMTT(30)
  <2> QED  BY <2>1, <2>2, <2>3, <2>4, <2>5, <2>6, SMTT(30) DEF JobStep
<1>4. CASE Restart \/ UNCHANGED vars
  BY <1>1, <1>4, SMTT(30) DEF Restart, Reboot, vars, dbVars
<1> QED  BY <1>2, <1>3, <1>4, SMTT(30) DEF Next

(* InventoryImplemented: served one at a time, the handlers with their     *)
(* several transactions each, failing commands and restarts between them   *)
(* look to a client like the atomic operations of Inventory.               *)
THEOREM InventoryImplemented ==
  ASSUME OneAtATime
  PROVE  Spec => ImplementsInventory
<1>1. Init => Inv!Init
  BY Zenon DEF Init, Inv!Init
<1>2. IInv /\ NamesKnown /\ SerialInv /\ [Next]_vars => [Inv!Next]_(Inv!vars)
  BY StepImplements, Zenon
<1> QED  BY <1>1, <1>2, SerialInvariance, PTL DEF Spec, ImplementsInventory, Inv!Spec
=============================================================================
