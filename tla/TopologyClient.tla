--------------------------- MODULE TopologyClient ---------------------------
(***************************************************************************)
(* The two commands of heketi-cli that take many requests: `topology load` *)
(* creates what a file lists, one request after the other; `topology info` *)
(* (TopologyInfo) lists the clusters and then asks for everything it was   *)
(* told of. Between two requests other clients change the inventory, and   *)
(* any request can fail, before or after it has taken effect.              *)
(*                                                                         *)
(* The server is the abstract one: Inventory, which Topology implements,   *)
(* and for volumes, which belong to clusters, the shape of VolumeStore.    *)
(* Each request reads or changes it in one step, as one bolt transaction   *)
(* does; an id is never used again.                                        *)
(***************************************************************************)
EXTENDS Inventory, Naturals, Sequences, FiniteSets, Functions

CONSTANTS
  VolumeIds,
  File,       \* per cluster, per node of it: how many devices it lists
  MaxChanges, \* bound: changes by other clients
  MaxFaults   \* bound: requests that fail without a reason in the inventory

ASSUME TopologyClientAssumption ==
  /\ File \in Seq(Seq(Nat)) /\ {MaxChanges, MaxFaults} \subseteq Nat
  /\ LET ids == ClusterIds \cup NodeIds \cup DeviceIds \cup VolumeIds
     IN  ids \subseteq Nat /\ IsFiniteSet(ids) /\ None \notin ids

VARIABLES
  volumeIn,   \* the cluster of each volume, None when it does not exist
  used,       \* ids that have been given out
  changes, faults,
  load,       \* topology load: see LoadInit
  info,       \* topology info, None until it is called
  kept, seen  \* history: what there was all the time since info was called,
              \* and what there was at any time since

inventory  == <<live, owner, home, volumeIn, used>>
clientVars == <<inventory, changes, faults, load, info, kept, seen>>

(* What there is: each thing with the thing it belongs to.                 *)
Facts ==
  {<<"cluster", c, c>> : c \in live}
  \cup {<<"node", n, owner[n]>> : n \in {m \in NodeIds : owner[m] # None}}
  \cup {<<"device", d, home[d]>> : d \in {e \in DeviceIds : home[e] # None}}
  \cup {<<"volume", v, volumeIn[v]>> : v \in {u \in VolumeIds : volumeIn[u] # None}}

(* What a loop does that does lists[1], lists[2], ...                       *)
Loop(lists) ==
  LET upto[i \in 0..Len(lists)] == IF i = 0 THEN <<>> ELSE upto[i - 1] \o lists[i]
  IN  upto[Len(lists)]

(* The three nested loops over the file, as the list of their requests.    *)
Steps ==
  Loop([i \in DOMAIN File |->
    <<"cluster">> \o Loop([j \in DOMAIN File[i] |->
      <<"node">> \o [k \in 1..File[i][j] |-> "device"]])])

LoadInit ==
  [at     |-> 1,          \* the next of the steps
   id     |-> [kind \in {"cluster", "node", "device"} |-> None], \* the last made
   made   |-> <<>>,       \* what the requests so far have answered
   lost   |-> {},         \* what a request made that was reported as failed
   result |-> "running"]

ClientInit ==
  /\ Init
  /\ volumeIn = [v \in VolumeIds |-> None]
  /\ used = {} /\ changes = 0 /\ faults = 0
  /\ load = LoadInit /\ info = None
  /\ kept = {} /\ seen = {}

-----------------------------------------------------------------------------
(* The server's side of a request                                          *)

(* The next id out of a set. Ids are random in the code, which decides the *)
(* order they are listed in: see Orders.                                   *)
IsNext(x, ids) == x \in ids \ used /\ \A y \in ids \ used : x <= y

(* A thing of a kind is added to thing p, under an id that is new.         *)
Create(kind, x, p) ==
  /\ used' = used \cup {x}
  /\ \/ kind = "cluster" /\ IsNext(x, ClusterIds) /\ AddCluster(x) /\ p = x /\ UNCHANGED volumeIn
     \/ /\ kind = "node" /\ IsNext(x, NodeIds) /\ p \in ClusterIds
        /\ AddNode(x, p) /\ UNCHANGED volumeIn
     \/ /\ kind = "device" /\ IsNext(x, DeviceIds) /\ p \in NodeIds
        /\ AddDevice(x, p) /\ UNCHANGED volumeIn
     \/ /\ kind = "volume" /\ IsNext(x, VolumeIds) /\ p \in live
        /\ volumeIn' = [volumeIn EXCEPT ![x] = p]
        /\ UNCHANGED <<live, owner, home>>

Delete(kind, x) ==
  /\ UNCHANGED used
  /\ \/ /\ kind = "cluster" /\ x \in live /\ \A v \in VolumeIds : volumeIn[v] # x
        /\ DeleteCluster(x) /\ UNCHANGED volumeIn
     \/ kind = "node" /\ owner[x] # None /\ DeleteNode(x) /\ UNCHANGED volumeIn
     \/ kind = "device" /\ home[x] # None /\ DeleteDevice(x) /\ UNCHANGED volumeIn
     \/ /\ kind = "volume" /\ volumeIn' = [volumeIn EXCEPT ![x] = None]
        /\ UNCHANGED <<live, owner, home>>

(* What the handlers ClusterInfo, NodeInfo and VolumeInfo answer.          *)
ClusterInfo(c) ==
  [volumes |-> {v \in VolumeIds : volumeIn[v] = c},
   nodes   |-> {n \in NodeIds : owner[n] = c}]
NodeInfo(n) == [devices |-> {d \in DeviceIds : home[d] = n}]
VolumeInfo(v) == [cluster |-> volumeIn[v]]

(* A request fails, or its answer does not arrive.                         *)
Fault == faults < MaxFaults /\ faults' = faults + 1

(* The histories of info, when it has been called.                         *)
Observe ==
  IF info = None THEN UNCHANGED <<kept, seen>>
  ELSE kept' = kept \cap Facts' /\ seen' = seen \cup Facts'

-----------------------------------------------------------------------------
(* topology load                                                           *)

Kind == Steps[load.at]

(* The id the request names: the cluster of a node, the node of a device.  *)
Parent(x) ==
  CASE Kind = "cluster" -> x
    [] Kind = "node"    -> load.id["cluster"]
    [] Kind = "device"  -> load.id["node"]

(* Mutant: the nodes go on into the first cluster.                         *)
Remember(x) == [load.id EXCEPT ![Kind] = IF Kind = "cluster" /\ @ # None THEN @ ELSE x]

(* clusterInfo and nodeInfo.                                               *)
NewIds(x) == [load.id EXCEPT ![Kind] = x]

(* An error is returned, but for a device there is none to return.         *)
Failed == IF Kind = "device" THEN "nil" ELSE "error"

(* ClusterCreate, NodeAdd or DeviceAdd takes effect and answers.           *)
LoadAnswered ==
  /\ load.result = "running" /\ load.at <= Len(Steps)
  /\ \E x \in ClusterIds \cup NodeIds \cup DeviceIds :
       /\ Create(Kind, x, Parent(x))
       /\ load' = [load EXCEPT !.at = @ + 1, !.id = NewIds(x),
                               !.made = Append(@, <<Kind, x, Parent(x)>>)]
  /\ UNCHANGED <<changes, faults, info>>
  /\ Observe

(* It takes effect and is reported as failed: the answer is lost, or the   *)
(* polling of the asynchronous operation breaks.                           *)
LoadLost ==
  /\ load.result = "running" /\ load.at <= Len(Steps)
  /\ \E x \in ClusterIds \cup NodeIds \cup DeviceIds :
       /\ Create(Kind, x, Parent(x))
       /\ load' = [load EXCEPT !.lost = {<<Kind, x, Parent(x)>>}, !.result = Failed]
  /\ Fault
  /\ UNCHANGED <<changes, info>>
  /\ Observe

(* It is refused, because the cluster or the node is gone or for a reason  *)
(* of its own.                                                             *)
LoadRefused ==
  /\ load.result = "running" /\ load.at <= Len(Steps)
  /\ \/ Kind = "node" /\ load.id["cluster"] \notin live /\ UNCHANGED faults
     \/ Kind = "device" /\ owner[load.id["node"]] = None /\ UNCHANGED faults
     \/ Fault
  /\ load' = [load EXCEPT !.result = Failed]
  /\ UNCHANGED <<inventory, changes, info>>
  /\ Observe

LoadEnds ==
  /\ load.result = "running" /\ load.at > Len(Steps)
  /\ load' = [load EXCEPT !.result = "nil"]
  /\ UNCHANGED <<inventory, changes, faults, info>>
  /\ Observe

-----------------------------------------------------------------------------
(* topology info: the requests still to make, the answer so far            *)

(* The requests for the things of a kind that c was said to have, in every *)
(* order their ids may have.                                               *)
Orders(kind, ids, c) ==
  {[i \in DOMAIN s |-> <<kind, s[i], c>>] : s \in Bijection(1..Cardinality(ids), ids)}

(* The call: ClusterList.                                                  *)
InfoCall ==
  /\ info = None
  /\ \/ /\ \E todo \in Orders("cluster", live, None) :
             info' = [todo |-> todo, answer |-> {}, result |-> "running"]
        /\ UNCHANGED faults
     \/ info' = [todo |-> <<>>, answer |-> {}, result |-> "error"] /\ Fault
  /\ kept' = Facts /\ seen' = Facts
  /\ UNCHANGED <<inventory, changes, load>>

(* Mutant: NodeInfo fails when a node has lost its devices.                *)
FoundFull(kind, x) ==
  CASE kind = "cluster" -> x \in live
    [] kind = "node"    -> NodeInfo(x).devices # {}
    [] kind = "volume"  -> volumeIn[x] # None

(* What a request still finds there.                                       *)
Found(kind, x) ==
  CASE kind = "cluster" -> x \in live
    [] kind = "node"    -> owner[x] # None
    [] kind = "volume"  -> volumeIn[x] # None

(* Mutant: what a cluster has replaces the clusters still to be asked for. *)
LastCluster(x) ==
  {vs \o ns : vs \in Orders("volume", ClusterInfo(x).volumes, x),
              ns \in Orders("node", ClusterInfo(x).nodes, x)}

(* What the loops over the volumes and the nodes of a cluster ask for      *)
(* before the next cluster.                                                *)
AfterCluster(x) ==
  UNION {{vs \o ns \o Tail(info.todo) : ns \in Orders("node", ClusterInfo(x).nodes, x)} :
           vs \in Orders("volume", ClusterInfo(x).volumes, x)}

(* What the answer to a request adds: a node comes with its devices, and a *)
(* volume is left out unless it says that it is in this cluster.           *)
Adds(kind, x, c) ==
  CASE kind = "cluster" -> {<<"cluster", x, x>>}
    [] kind = "node"    -> {<<"node", x, c>>}
                           \cup {<<"device", d, x>> : d \in NodeInfo(x).devices}
    [] kind = "volume"  -> IF VolumeInfo(x).cluster = c THEN {<<"volume", x, c>>} ELSE {}

InfoAnswered ==
  /\ info # None /\ info.result = "running" /\ info.todo # <<>>
  /\ LET kind == Head(info.todo)[1]
         x    == Head(info.todo)[2]
         c    == Head(info.todo)[3]
     IN  /\ Found(kind, x)
         /\ \E todo \in IF kind = "cluster" THEN AfterCluster(x) ELSE {Tail(info.todo)} :
              info' = [info EXCEPT !.answer = @ \cup Adds(kind, x, c), !.todo = todo]
  /\ UNCHANGED <<inventory, changes, faults, load>>
  /\ Observe

(* The first error ends the call, and there is no answer.                  *)
InfoFails ==
  /\ info # None /\ info.result = "running" /\ info.todo # <<>>
  /\ \/ ~Found(Head(info.todo)[1], Head(info.todo)[2]) /\ UNCHANGED faults
     \/ Fault
  /\ info' = [info EXCEPT !.todo = <<>>, !.answer = {}, !.result = "error"]
  /\ UNCHANGED <<inventory, changes, load>>
  /\ Observe

InfoEnds ==
  /\ info # None /\ info.result = "running" /\ info.todo = <<>>
  /\ info' = [info EXCEPT !.result = "nil"]
  /\ UNCHANGED <<inventory, changes, faults, load>>
  /\ Observe

-----------------------------------------------------------------------------
(* Another client adds or deletes something.                               *)
Other ==
  /\ changes < MaxChanges /\ changes' = changes + 1
  /\ \E kind \in {"cluster", "node", "device", "volume"},
        x \in ClusterIds \cup NodeIds \cup DeviceIds \cup VolumeIds :
       \/ <<kind, x>> \in {<<f[1], f[2]>> : f \in Facts} /\ Delete(kind, x)
       \/ \E p \in live \cup {n \in NodeIds : owner[n] # None} \cup {x} : Create(kind, x, p)
  /\ UNCHANGED <<faults, load, info>>
  /\ Observe

Load == LoadAnswered \/ LoadLost \/ LoadRefused \/ LoadEnds
Info == InfoCall \/ InfoAnswered \/ InfoFails \/ InfoEnds

ClientNext == Load \/ Info \/ Other

ClientSpec == ClientInit /\ [][ClientNext]_clientVars

-----------------------------------------------------------------------------
(* Properties                                                              *)

(* The step of the file that step i belongs to.                            *)
Above(i) ==
  LET kind == IF Steps[i] = "device" THEN "node" ELSE "cluster"
      before == {j \in 1..i : Steps[j] = kind}
  IN  CHOOSE j \in before : \A k \in before : k <= j

(* LoadAccount: what topology load has been told it made is the beginning  *)
(* of the file, every node in its cluster and every device on its node, as *)
(* the file nests them. All else that its requests left behind is the one  *)
(* thing whose answer was lost. It reports no error only if it came to the *)
(* end of the file, or stopped at a device (which it does not report).     *)
LoadAccount ==
  /\ Len(load.made) = load.at - 1 /\ Cardinality(load.lost) <= 1
  /\ \A i \in DOMAIN load.made :
       load.made[i][1] = Steps[i] /\ load.made[i][3] = load.made[Above(i)][2]
  /\ \A f \in load.lost : f[1] = Steps[load.at]
  /\ load.result = "nil" => load.at > Len(Steps) \/ Steps[load.at] = "device"

(* InfoExact: an answer of TopologyInfo, put together from many requests,  *)
(* lists everything that was there from its first request to its last, and *)
(* nothing that was not there at some time between, each in its place:     *)
(* what holds a thing cannot be deleted before it.                         *)
InfoExact ==
  (info # None /\ info.result = "nil") => kept \subseteq info.answer /\ info.answer \subseteq seen

(* InfoFailure: TopologyInfo fails only if a request was not answered or a *)
(* cluster, node or volume was deleted while it ran. What other clients    *)
(* add meanwhile, and devices they delete, do not disturb it: those come   *)
(* with their node, in one transaction.                                    *)
InfoFailure ==
  (info # None /\ info.result = "error" /\ faults = 0)
    => \E f \in seen \ Facts : f[1] # "device"
=============================================================================
