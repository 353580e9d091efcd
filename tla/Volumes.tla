------------------------------ MODULE Volumes ------------------------------
(***************************************************************************)
(* Volumes and bricks: VolumeCreate, VolumeExpand and VolumeDelete, from   *)
(* the request to the last deferred clean-up, running beside the handlers  *)
(* of Topology. The conventions are those of Topology: one action is one   *)
(* transaction, one call of the allocator or one remote command, and the   *)
(* VolumeEntry a goroutine works on is its own copy, stale or not.         *)
(*                                                                         *)
(* Abstractions:                                                           *)
(*  - the commands that create, check or destroy the bricks of one volume  *)
(*    run in parallel and touch different disks: they are one step, each   *)
(*    brick with its own outcome;                                          *)
(*  - a brick id is fresh when nothing refers to it any more;              *)
(*  - lvs forgets a logical volume when its brick leaves the database: one *)
(*    left behind then only takes space, and commands may fail anyway.     *)
(***************************************************************************)
EXTENDS Topology, BrickSizing

CONSTANTS
  Home,            \* initial topology: the node of every device
  VolumeNames, VolumeSizes,
  BricksInSet,     \* replicas, or data and redundancy bricks, per set
  SetsPerCommand,  \* sets one add-brick command adds
  BrickMaxNum,
  SnapFactors,     \* snapshot factors of requests, at least 1
  Workers,         \* volume goroutines in flight at once
  VolumeRequests   \* the kinds of volume request the clients send

ASSUME VolumesAssumption ==
  /\ BrickIds \subseteq Nat
  /\ DOMAIN Home = DeviceIds
  /\ {BricksInSet, SetsPerCommand} \cup VolumeSizes \subseteq Nat \ {0}
  /\ \A f \in SnapFactors : f \in Nat /\ f >= FactorUnit

VARIABLES
  volumes,  \* volume bucket
  bricks,   \* brick bucket
  lvs,      \* bricks whose logical volume exists on their node
  gvols,    \* gluster volumes: for cluster and name, the bricks, in order
  work      \* volume goroutines in flight

volVars == <<volumes, bricks, lvs, gvols, work>>
allVars == <<vars, volVars>>

Perm == INSTANCE SequencesExt

(* What a VolumeEntry in memory holds.                                     *)
Volume == [name : VolumeNames, cluster : Opt(ClusterIds), size : Nat,
           factor : SnapFactors, bricks : SUBSET BrickIds]
(* What a BrickEntry holds.                                                *)
Brick == [device : DeviceIds, node : NodeIds, size : Nat, tp : Nat, meta : Nat]

Ids(entries) == {entries[i].id : i \in DOMAIN entries}
EntryOf(e) ==
  [device |-> e.device, node |-> e.node, size |-> e.size, tp |-> e.tp, meta |-> e.meta]

OneToOne(S, T) ==
  CHOOSE f \in [S -> T] : \A x, y \in S : x # y => f[x] # f[y]

(* The server at work on one cluster: nodes probed, devices added.         *)
VolumesInit ==
  LET host == OneToOne(NodeIds, HostKeys)
      disk == OneToOne(DeviceIds, DeviceNames)
      here == [n \in NodeIds |-> {d \in DeviceIds : Home[d] = n}]
  IN  \E c \in ClusterIds :
        /\ clusters   = [k \in ClusterIds |->
                           IF k = c THEN [nodes |-> NodeIds, volumes |-> {}] ELSE None]
        /\ nodes      = [n \in NodeIds |->
                           [cluster |-> c, keys |-> {host[n]}, state |-> "online",
                            devices |-> here[n]]]
        /\ devices    = [d \in DeviceIds |->
                           [node |-> Home[d], name |-> disk[d], state |-> "online",
                            bricks |-> {}, free |-> DeviceSize]]
        /\ nodeKeys   = {host[n] : n \in NodeIds}
        /\ deviceKeys = {DeviceKey(Home[d], disk[d]) : d \in DeviceIds}
        /\ rings      = [k \in ClusterIds |->
                           IF k = c THEN [n \in NodeIds |-> Sorted(here[n])] ELSE None]
        /\ pool       = [n \in NodeIds |-> NodeIds]
        /\ vgs        = DeviceIds
        /\ jobs       = [s \in Slots |-> None]
        /\ uuids      = {c} \cup NodeIds \cup DeviceIds
        /\ volumes    = [v \in VolumeIds |-> None]
        /\ bricks     = [b \in BrickIds |-> None]
        /\ lvs        = {}
        /\ gvols      = [p \in ClusterIds \X VolumeNames |-> <<>>]
        /\ work       = [w \in Workers |-> None]

-----------------------------------------------------------------------------
(* Goroutines. A work record holds the step, the operation, the volume id  *)
(* and the copy v of its entry, the size wanted, the clusters to look at   *)
(* (todo) and to try (tries), the sets of the present attempt, the devices *)
(* the allocator's channel still offers (None: it had no ring), the nodes  *)
(* of the present set, the bricks allocated so far in order, and whether a *)
(* panic is under way.                                                     *)

Doing(w, step) == work[w] # None /\ work[w].at = step
Become(w, r) == work' = [work EXCEPT ![w] = r]
Finish(w) == Become(w, None)
Turn(w, step) == Become(w, [work[w] EXCEPT !.at = step])

NewWork(op, step, vol, v, want) ==
  [at |-> step, op |-> op, vol |-> vol, v |-> v, want |-> want,
   todo |-> <<>>, tries |-> <<>>, sets |-> 1, devs |-> <<>>, entries |-> <<>>,
   doomed |-> FALSE]

(* Nothing refers to brick b.                                              *)
Unused(b) ==
  /\ \A d \in DeviceIds : devices[d] # None => b \notin devices[d].bricks
  /\ \A v \in VolumeIds : volumes[v] # None => b \notin volumes[v].bricks
  /\ \A p \in DOMAIN gvols : \A i \in DOMAIN gvols[p] : gvols[p][i] # b
  /\ \A w \in Workers : work[w] # None => b \notin work[w].v.bricks \cup Ids(work[w].entries)
  /\ bricks[b] = None

(* GenUUID.                                                                *)
IsNewBrick(b) == Unused(b) /\ \A a \in BrickIds : a < b => ~Unused(a)

IsNewVolume(v) ==
  /\ volumes[v] = None
  /\ \A c \in ClusterIds : clusters[c] # None => v \notin clusters[c].volumes
  /\ \A w \in Workers : work[w] # None => work[w].vol # v

-----------------------------------------------------------------------------
(* Allocation                                                              *)

(* The size of the bricks of the present attempt.                          *)
Amount(r) == BrickSize(RequestSize(r.want), r.sets)

(* BrickEntry.TotalSize.                                                   *)
TotalSize(e) == Unsigned(e.tp + e.meta)

(* Mutant: the pool's metadata is not counted.                             *)
CheckPoolOnly(d, e) == devices[d].free > e.tp

(* DeviceEntry.StorageCheck, for the brick of entry e.                     *)
StorageCheck(d, e) == devices[d].free > TotalSize(e)

(* Mutant: only the pool itself is taken.                                  *)
AllocatePoolOnly(free, e) == free - e.tp

(* DeviceEntry.StorageAllocate.                                            *)
StorageAllocate(free, e) == free - TotalSize(e)

(* DeviceEntry.NewBrickEntry: the entry of brick b on device d.            *)
NewBrickEntry(r, b, d) ==
  LET tp == TpSize(Amount(r), r.v.factor)
  IN  [id |-> b, device |-> d, node |-> devices[d].node, size |-> Amount(r),
       tp |-> tp, meta |-> PoolMetadataSize(tp)]

(* One more attempt in the same cluster, with more and smaller bricks; the *)
(* goroutine's record r is as the clean-up left it. None: it gives up.     *)
Attempt(r) ==
  LET sets == NextSets(r.sets, RequestSize(r.want))
  IN  IF sets = 0 \/ sets * BricksInSet + Cardinality(r.v.bricks) > BrickMaxNum
      THEN None
      ELSE [r EXCEPT !.at = "nodes", !.entries = <<>>, !.sets = sets]

(* The first attempt in the next cluster on the list.                      *)
NextCluster(r) ==
  IF r.tries = <<>> THEN None
  ELSE Attempt([r EXCEPT !.v.cluster = Head(r.tries), !.tries = Tail(r.tries),
                         !.sets = 1])

(* The devices the ring of cluster c lists, in an order that the brick id  *)
(* and the order of Go maps decide (see AllocatorRing).                    *)
Offers(c) ==
  LET all == Perm!FlattenSeq([i \in 1..Cardinality(NodeIds) |->
                                rings[c][Sorted(NodeIds)[i]]])
  IN  {[i \in DOMAIN all |-> all[p[i]]] : p \in Perm!SetToSeqs(DOMAIN all)}

(* allocator.GetNodes: the list is a snapshot of the ring.                 *)
GetNodes(w) ==
  /\ Doing(w, "nodes")
  /\ LET c == work[w].v.cluster
     IN  \E devs \in IF rings[c] = None THEN {None} ELSE Offers(c) :
           Become(w, [work[w] EXCEPT !.at = "place", !.devs = devs])
  /\ UNCHANGED <<vars, volumes, bricks, lvs, gvols>>

(* Mutant: the set list stays empty.                                       *)
NoSetNodes(r) == {}

(* The nodes of the bricks already in the set that is being filled.        *)
SetNodes(r) ==
  LET full == Len(r.entries) - (Len(r.entries) % BricksInSet)
  IN  {r.entries[i].node : i \in full + 1..Len(r.entries)}

(* A device the loop over the channel does not skip: one that is gone from *)
(* the database, or one that takes the brick.                              *)
Stops(r, d) ==
  devices[d] # None =>
    /\ devices[d].node \notin SetNodes(r)
    /\ StorageCheck(d, NewBrickEntry(r, None, d))

(* The transaction that places one brick.                                  *)
PlaceBrick(w) ==
  LET r == work[w]
  IN  /\ Doing(w, "place") /\ r.devs # None
      /\ \E i \in DOMAIN r.devs, id \in BrickIds :
           LET d == r.devs[i]
               e == NewBrickEntry(r, id, d)
               n == Len(r.entries) + 1
           IN  /\ Stops(r, d) /\ \A j \in 1..i - 1 : ~Stops(r, r.devs[j])
               /\ devices[d] # None
               /\ IsNewBrick(id)
               /\ devices' = [devices EXCEPT ![d].free = StorageAllocate(@, e),
                                             ![d].bricks = @ \cup {id}]
               /\ Become(w, [r EXCEPT
                    !.at = IF n = r.sets * BricksInSet THEN "make"
                           ELSE IF n % BricksInSet = 0 THEN "nodes" ELSE "place",
                    !.devs = SubSeq(@, i + 1, Len(@)),
                    !.entries = Append(@, e),
                    !.v.bricks = @ \cup {id}])
      /\ UNCHANGED <<clusters, nodes, nodeKeys, deviceKeys, rings, hostVars, jobs, uuids>>
      /\ UNCHANGED <<volumes, bricks, lvs, gvols>>

(* The channel is used up: ErrNoSpace, or the allocator's error when it    *)
(* had no ring; or a device is gone: ErrNotFound.                          *)
PlaceFails(w) ==
  LET r == work[w]
  IN  /\ Doing(w, "place")
      /\ \/ r.devs = None /\ Turn(w, "release")
         \/ /\ r.devs # None /\ \A i \in DOMAIN r.devs : ~Stops(r, r.devs[i])
            /\ Turn(w, "retry")
         \/ /\ r.devs # None
            /\ \E i \in DOMAIN r.devs :
                 /\ devices[r.devs[i]] = None
                 /\ \A j \in 1..i - 1 : ~Stops(r, r.devs[j])
            /\ Turn(w, "release")
      /\ UNCHANGED <<vars, volumes, bricks, lvs, gvols>>

(* removeBrickFromDb for every entry: a brick whose device is gone stays   *)
(* where it is, in the brick bucket and in the volume's list.              *)
Removable(entries) ==
  {i \in DOMAIN entries : devices[entries[i].device] # None}

(* Mutant: the pool's metadata is not given back.                          *)
FreedPoolOnly(entries, d) ==
  LET here == {i \in Removable(entries) : entries[i].device = d}
  IN  Perm!FoldSet(LAMBDA i, sum : sum + entries[i].tp, 0, here)

(* What StorageFree gives back to device d.                                *)
Freed(entries, d) ==
  LET here == {i \in Removable(entries) : entries[i].device = d}
  IN  Perm!FoldSet(LAMBDA i, sum : sum + TotalSize(entries[i]), 0, here)

RemoveBricksFromDb(entries) ==
  LET ids == {entries[i].id : i \in Removable(entries)}
  IN  /\ devices' = [d \in DeviceIds |->
                       IF devices[d] = None THEN None
                       ELSE [devices[d] EXCEPT !.free = @ + Freed(entries, d),
                                               !.bricks = @ \ ids]]
      /\ bricks' = [b \in BrickIds |-> IF b \in ids THEN None ELSE bricks[b]]
      /\ lvs' = lvs \ ids

Without(v, entries) ==
  [v EXCEPT !.bricks = @ \ {entries[i].id : i \in Removable(entries)}]

(* The deferred clean-up of allocBricks, and the loop's next turn.         *)
AllocUndo(w) ==
  LET r    == [work[w] EXCEPT !.v = Without(@, work[w].entries)]
      next == IF Doing(w, "retry") /\ Attempt(r) # None THEN Attempt(r)
              ELSE NextCluster(r)
  IN  /\ Doing(w, "retry") \/ Doing(w, "release")
      /\ RemoveBricksFromDb(work[w].entries)
      /\ Become(w, next)
      /\ UNCHANGED <<clusters, nodes, nodeKeys, deviceKeys, rings, hostVars, jobs, uuids>>
      /\ UNCHANGED <<volumes, gvols>>

-----------------------------------------------------------------------------
(* Create and Expand                                                       *)

(* The lists of clusters a request can name.                               *)
Orders(S) == UNION {Perm!SetToSeqs(T) : T \in SUBSET S}

(* Bound of the model: two deletions of one volume give its space back     *)
(* twice; no volume is created once a device claims more than it has.      *)
FreeBounded == \A d \in DeviceIds : devices[d] # None => devices[d].free <= DeviceSize

(* The handler's View: the clusters asked for exist, or some cluster does. *)
VolumeCreate(w, v, name, size, factor, asked) ==
  /\ work[w] = None
  /\ IsNewVolume(v) /\ FreeBounded
  /\ \E c \in ClusterIds : clusters[c] # None
  /\ \A i \in DOMAIN asked : clusters[asked[i]] # None
  /\ Become(w, [NewWork("create", IF asked = <<>> THEN "clusters" ELSE "names", v,
                        [name |-> name, cluster |-> None, size |-> size,
                         factor |-> factor, bricks |-> {}],
                        size)
                EXCEPT !.todo = asked])
  /\ UNCHANGED <<vars, volumes, bricks, lvs, gvols>>

(* Without clusters in the request, all there are now.                     *)
ListClusters(w) ==
  /\ Doing(w, "clusters")
  /\ LET all == {c \in ClusterIds : clusters[c] # None}
     IN  IF all = {} THEN Finish(w)
         ELSE \E list \in Perm!SetToSeqs(all) :
                Become(w, [work[w] EXCEPT !.at = "names", !.todo = list])
  /\ UNCHANGED <<vars, volumes, bricks, lvs, gvols>>

(* Mutant: the name is not compared.                                       *)
AnyName(c, name) == clusters[c] # None

(* The name is not taken in cluster c: no volume on its list has it; a     *)
(* cluster or a volume that is not in the database counts as a conflict.   *)
NameFree(c, name) ==
  /\ clusters[c] # None
  /\ \A v \in clusters[c].volumes : volumes[v] # None /\ volumes[v].name # name

(* One View per cluster; the clusters that pass are tried in this order.   *)
CheckName(w) ==
  LET r     == work[w]
      c     == Head(r.todo)
      tries == IF NameFree(c, r.v.name) THEN Append(r.tries, c) ELSE r.tries
      next  == [r EXCEPT !.todo = Tail(@), !.tries = tries]
  IN  /\ Doing(w, "names")
      /\ Become(w, IF Tail(r.todo) # <<>> THEN next ELSE NextCluster(next))
      /\ UNCHANGED <<vars, volumes, bricks, lvs, gvols>>

(* The handler's View. The entry it reads is the one Expand works on.      *)
VolumeExpand(w, v, size) ==
  /\ work[w] = None
  /\ volumes[v] # None
  /\ Become(w, Attempt(NewWork("expand", "nodes", v, volumes[v], size)))
  /\ UNCHANGED <<vars, volumes, bricks, lvs, gvols>>

NodesKnown(entries) == \A i \in DOMAIN entries : nodes[entries[i].node] # None
(* The bricks whose node the code can still name.                          *)
Reached(entries) ==
  {entries[i].id : i \in {j \in DOMAIN entries : nodes[entries[j].node] # None}}

(* CreateBricks. A command may fail half way, and so may the clean-up that *)
(* BrickCreate then attempts.                                              *)
MakeBricks(w) ==
  LET r == work[w]
  IN  /\ Doing(w, "make")
      /\ \/ /\ NodesKnown(r.entries)
            /\ \A i \in DOMAIN r.entries : r.entries[i].device \in vgs
            /\ lvs' = lvs \cup Ids(r.entries)
            /\ Turn(w, "gluster")
         \/ /\ \E made \in SUBSET Reached(r.entries) : lvs' = lvs \cup made
            /\ Turn(w, "unmake")
      /\ UNCHANGED <<vars, volumes, bricks, gvols>>

(* createVolume. gluster refuses a name in use; on any error VolumeCreate  *)
(* calls VolumeDestroy, which goes by the name and ignores errors.         *)
GlusterCreate(w) ==
  LET r == work[w]
      g == <<r.v.cluster, r.v.name>>
      b == [i \in DOMAIN r.entries |-> r.entries[i].id]
  IN  /\ Doing(w, "gluster") /\ r.op = "create"
      /\ \/ /\ NodesKnown(r.entries) /\ gvols[g] = <<>>
            /\ gvols' = [gvols EXCEPT ![g] = b]
            /\ Turn(w, "save")
         \/ /\ NodesKnown(r.entries)
            /\ \E left \in {<<>>, IF gvols[g] = <<>> THEN b ELSE gvols[g]} :
                 gvols' = [gvols EXCEPT ![g] = left]
            /\ Turn(w, "unmake")
         \/ ~NodesKnown(r.entries) /\ UNCHANGED gvols /\ Turn(w, "unmake")
      /\ UNCHANGED <<vars, volumes, bricks, lvs>>

(* VolumeExpand: add-brick, some of it or all; it fails without a volume.  *)
GlusterExpand(w) ==
  LET r == work[w]
      g == <<r.v.cluster, r.v.name>>
      b == [i \in DOMAIN r.entries |-> r.entries[i].id]
  IN  /\ Doing(w, "gluster") /\ r.op = "expand"
      /\ \/ /\ NodesKnown(r.entries) /\ gvols[g] # <<>>
            /\ gvols' = [gvols EXCEPT ![g] = @ \o b]
            /\ Turn(w, "save")
         \/ /\ NodesKnown(r.entries) /\ gvols[g] # <<>>
            /\ \E k \in {j \in 0..r.sets : j % SetsPerCommand = 0} \cup {r.sets} :
                 gvols' = [gvols EXCEPT ![g] = @ \o SubSeq(b, 1, k * BricksInSet)]
            /\ Turn(w, "unmake")
         \/ /\ NodesKnown(r.entries) => gvols[g] = <<>>
            /\ UNCHANGED gvols /\ Turn(w, "unmake")
      /\ UNCHANGED <<vars, volumes, bricks, lvs>>

SaveBricks(entries) ==
  bricks' = [b \in BrickIds |->
    IF b \in Ids(entries)
    THEN EntryOf(CHOOSE e \in {entries[i] : i \in DOMAIN entries} : e.id = b)
    ELSE bricks[b]]

(* The last transaction of Create. When the cluster is gone the deferred   *)
(* v.Destroy finds no brick in the database, so it has no host to talk to  *)
(* and panics; the remaining deferred functions still run.                 *)
SaveCreated(w) ==
  LET r == work[w]
      c == r.v.cluster
  IN  /\ Doing(w, "save") /\ r.op = "create"
      /\ \/ /\ clusters[c] # None
            /\ SaveBricks(r.entries)
            /\ volumes' = [volumes EXCEPT ![r.vol] = r.v]
            /\ clusters' = [clusters EXCEPT ![c].volumes = @ \cup {r.vol}]
            /\ Finish(w)
         \/ /\ clusters[c] = None
            /\ Become(w, [r EXCEPT !.at = "unmake", !.doomed = TRUE])
            /\ UNCHANGED <<clusters, volumes, bricks>>
      /\ UNCHANGED <<nodes, devices, nodeKeys, deviceKeys, rings, hostVars, jobs, uuids>>
      /\ UNCHANGED <<lvs, gvols>>

(* Mutant: the size is set, not increased.                                 *)
Resized(v, want) == [v EXCEPT !.size = want]

Grown(v, want) == [v EXCEPT !.size = @ + want]

(* The last transaction of Expand saves the entry read at the start.       *)
SaveExpanded(w) ==
  LET r == work[w]
  IN  /\ Doing(w, "save") /\ r.op = "expand"
      /\ SaveBricks(r.entries)
      /\ volumes' = [volumes EXCEPT ![r.vol] = Grown(r.v, r.want)]
      /\ Finish(w)
      /\ UNCHANGED <<vars, lvs, gvols>>

(* DestroyBricks after an error; BrickDestroy swallows errors.             *)
UnmakeBricks(w) ==
  /\ Doing(w, "unmake")
  /\ \E gone \in SUBSET Reached(work[w].entries) : lvs' = lvs \ gone
  /\ Turn(w, "undo")
  /\ UNCHANGED <<vars, volumes, bricks, gvols>>

RebootAll ==
  /\ Reboot
  /\ work' = [w \in Workers |-> None]

(* Mutant: Create saves its copy, too.                                     *)
SavedAnyway(r) == Without(r.v, r.entries)

Undone(r) == IF r.op = "create" THEN None ELSE Without(r.v, r.entries)

(* The deferred transactions: the bricks leave the database; Create then   *)
(* deletes its volume entry, Expand saves its copy of it.                  *)
UndoVolume(w) ==
  LET r == work[w]
  IN  /\ Doing(w, "undo") /\ ~r.doomed
      /\ RemoveBricksFromDb(r.entries)
      /\ volumes' = [volumes EXCEPT ![r.vol] = Undone(r)]
      /\ Finish(w)
      /\ UNCHANGED <<clusters, nodes, nodeKeys, deviceKeys, rings, hostVars, jobs, uuids>>
      /\ UNCHANGED gvols

(* The same when a panic is under way: then the server ends and starts.    *)
UndoAndDie(w) ==
  LET r == work[w]
  IN  /\ Doing(w, "undo") /\ r.doomed
      /\ RemoveBricksFromDb(r.entries)
      /\ work' = [x \in Workers |-> None]
      /\ jobs' = [s \in Slots |-> None]
      /\ rings' = RingsFromDb
      /\ UNCHANGED <<clusters, nodes, nodeKeys, deviceKeys, hostVars, uuids>>
      /\ UNCHANGED <<volumes, gvols>>

-----------------------------------------------------------------------------
(* Delete                                                                  *)

VolumeDelete(w, v) ==
  /\ work[w] = None
  /\ volumes[v] # None
  /\ Become(w, NewWork("delete", "read", v, volumes[v], 0))
  /\ UNCHANGED <<vars, volumes, bricks, lvs, gvols>>

(* Destroy looks its bricks up, in the order of their ids, and takes the   *)
(* host from the first one there; a missing node ends the look-up. What it *)
(* did not find stays nil.                                                 *)
FoundBricks(ids) ==
  LET there == {b \in ids : bricks[b] # None}
  IN  IF \E b \in there : (\A a \in there : b <= a) /\ nodes[bricks[b].node] = None
      THEN {b \in there : \A a \in there : b <= a}
      ELSE there
Host(ids) == \E b \in FoundBricks(ids) : (\A a \in FoundBricks(ids) : b <= a)
                                         /\ nodes[bricks[b].node] # None

(* Without a host VolumeDestroyCheck panics, and so does the check of a    *)
(* nil brick, unless VolumeDestroyCheck reported an error before.          *)
DestroyRead(w) ==
  LET r     == work[w]
      found == Sorted(FoundBricks(r.v.bricks))
      entry(b) == [id |-> b, device |-> bricks[b].device, node |-> bricks[b].node,
                   size |-> bricks[b].size, tp |-> bricks[b].tp, meta |-> bricks[b].meta]
  IN  /\ Doing(w, "read")
      /\ IF Host(r.v.bricks) /\ FoundBricks(r.v.bricks) = r.v.bricks
         THEN Become(w, [r EXCEPT !.at = "check",
                                  !.entries = [i \in DOMAIN found |-> entry(found[i])]])
         ELSE Become(w, [r EXCEPT !.at = "crash", !.doomed = ~Host(r.v.bricks)])
      /\ UNCHANGED <<vars, volumes, bricks, lvs, gvols>>

DestroyCrash(w) ==
  /\ Doing(w, "crash")
  /\ \/ RebootAll
     \/ ~work[w].doomed /\ Finish(w) /\ UNCHANGED vars
  /\ UNCHANGED <<volumes, bricks, lvs, gvols>>

(* VolumeDestroyCheck and the check of every brick: the volume must be     *)
(* there without snapshots, the bricks with nothing else in their pools.   *)
DestroyCheck(w) ==
  LET r == work[w]
      g == <<r.v.cluster, r.v.name>>
  IN  /\ Doing(w, "check")
      /\ \/ /\ gvols[g] # <<>> /\ NodesKnown(r.entries) /\ Ids(r.entries) \subseteq lvs
            /\ Turn(w, "stop")
         \/ Finish(w)
      /\ UNCHANGED <<vars, volumes, bricks, lvs, gvols>>

(* VolumeDestroy returns nil whatever its commands do.                     *)
DestroyGluster(w) ==
  LET r == work[w]
  IN  /\ Doing(w, "stop")
      /\ \E left \in {<<>>, gvols[<<r.v.cluster, r.v.name>>]} :
           gvols' = [gvols EXCEPT ![<<r.v.cluster, r.v.name>>] = left]
      /\ Turn(w, "bricks")
      /\ UNCHANGED <<vars, volumes, bricks, lvs>>

(* DestroyBricks: an error only when a node is not in the database.        *)
DestroyBricks(w) ==
  LET r == work[w]
  IN  /\ Doing(w, "bricks")
      /\ \E gone \in SUBSET Reached(r.entries) : lvs' = lvs \ gone
      /\ IF NodesKnown(r.entries) THEN Turn(w, "commit") ELSE Finish(w)
      /\ UNCHANGED <<vars, volumes, bricks, gvols>>

(* Mutant: the cluster is not saved.                                       *)
StillListed(c, v) == clusters

(* cluster.VolumeDelete.                                                   *)
Unlisted(c, v) == [clusters EXCEPT ![c].volumes = @ \ {v}]

(* The last transaction of Destroy. Without the cluster in the database it *)
(* follows a nil pointer and the server ends, the transaction undone.      *)
DestroyCommit(w) ==
  LET r == work[w]
      c == r.v.cluster
  IN  /\ Doing(w, "commit")
      /\ clusters[c] # None
      /\ RemoveBricksFromDb(r.entries)
      /\ clusters' = Unlisted(c, r.vol)
      /\ volumes' = [volumes EXCEPT ![r.vol] = None]
      /\ Finish(w)
      /\ UNCHANGED <<nodes, nodeKeys, deviceKeys, rings, hostVars, jobs, uuids>>
      /\ UNCHANGED gvols

DestroyPanic(w) ==
  /\ Doing(w, "commit")
  /\ clusters[work[w].v.cluster] = None
  /\ RebootAll
  /\ UNCHANGED <<volumes, bricks, lvs, gvols>>

-----------------------------------------------------------------------------
(* The server                                                              *)

WorkStep(w) ==
  \/ ListClusters(w) \/ CheckName(w)
  \/ GetNodes(w) \/ PlaceBrick(w) \/ PlaceFails(w) \/ AllocUndo(w)
  \/ MakeBricks(w) \/ GlusterCreate(w) \/ GlusterExpand(w)
  \/ SaveCreated(w) \/ SaveExpanded(w)
  \/ UnmakeBricks(w) \/ UndoVolume(w) \/ UndoAndDie(w)
  \/ DestroyRead(w) \/ DestroyCrash(w) \/ DestroyCheck(w) \/ DestroyGluster(w)
  \/ DestroyBricks(w) \/ DestroyCommit(w) \/ DestroyPanic(w)

VolumeRequest ==
  \/ "VolumeCreate" \in VolumeRequests /\
       \E w \in Workers, v \in VolumeIds, name \in VolumeNames, size \in VolumeSizes :
       \E factor \in SnapFactors, asked \in Orders(ClusterIds) :
          VolumeCreate(w, v, name, size, factor, asked)
  \/ "VolumeExpand" \in VolumeRequests /\
       \E w \in Workers, v \in VolumeIds, size \in VolumeSizes : VolumeExpand(w, v, size)
  \/ "VolumeDelete" \in VolumeRequests /\
       \E w \in Workers, v \in VolumeIds : VolumeDelete(w, v)

(* A step of an activity of Topology; a panic ends the volume goroutines.  *)
JobStepBeside(s) ==
  /\ JobStep(s)
  /\ work' = IF RemovePanicsIn(s) THEN [w \in Workers |-> None] ELSE work
  /\ UNCHANGED <<volumes, bricks, lvs, gvols>>

RestartAll ==
  /\ "Restart" \in Requests
  /\ RebootAll
  /\ UNCHANGED <<volumes, bricks, lvs, gvols>>

VolumesNext ==
  \/ VolumeRequest
  \/ Request /\ UNCHANGED volVars
  \/ RestartAll
  \/ \E s \in Slots : JobStepBeside(s)
  \/ \E w \in Workers : WorkStep(w)

VolumesSpec == VolumesInit /\ [][VolumesNext]_allVars

(* Goroutines are scheduled and remote commands end.                       *)
FairVolumesSpec ==
  /\ VolumesSpec
  /\ \A w \in Workers : WF_allVars(WorkStep(w))
  /\ \A s \in Slots : WF_allVars(JobStepBeside(s))
-----------------------------------------------------------------------------
(* Properties                                                              *)

WorkSteps == {"clusters", "names", "nodes", "place", "retry", "release", "make",
              "gluster", "save", "unmake", "undo", "read", "crash", "check",
              "stop", "bricks", "commit"}

(* VolumesTypeOK: the buckets and the work records have the shape the code *)
(* gives them; in particular no device's free space goes below zero, where *)
(* the uint64 of StorageInfo would wrap.                                   *)
VolumesTypeOK ==
  /\ DbTypeOK
  /\ volumes \in [VolumeIds -> Opt(Volume)]
  /\ bricks  \in [BrickIds -> Opt(Brick)]
  /\ lvs     \subseteq BrickIds
  /\ gvols   \in [ClusterIds \X VolumeNames -> Seq(BrickIds)]
  /\ \A w \in Workers : work[w] # None =>
       /\ work[w].at \in WorkSteps
       /\ work[w].vol \in VolumeIds /\ work[w].v \in Volume
       /\ \A i \in DOMAIN work[w].entries :
            EntryOf(work[w].entries[i]) \in Brick /\ work[w].entries[i].id \in BrickIds

(* Entries a goroutine holds for bricks that are not saved yet.            *)
InFlight ==
  UNION {{work[w].entries[i] : i \in DOMAIN work[w].entries} :
           w \in {x \in Workers : work[x] # None /\ work[x].op # "delete"}}

BrickOf(b) ==
  IF bricks[b] # None THEN bricks[b]
  ELSE CHOOSE e \in InFlight : e.id = b

(* SpaceAccounted: what a device has given away is what the bricks on its  *)
(* list take, saved ones and ones being created: every failure path of     *)
(* Create, Expand and Destroy gives back exactly what allocBricks took.    *)
SpaceAccounted ==
  \A d \in DeviceIds : devices[d] # None =>
    /\ \A b \in devices[d].bricks : bricks[b] # None \/ \E e \in InFlight : e.id = b
    /\ devices[d].free +
         Perm!FoldSet(LAMBDA b, sum : sum + TotalSize(BrickOf(b)), 0, devices[d].bricks)
       = DeviceSize

(* NothingOvercommitted: even after restarts, which lose the goroutines    *)
(* that would give space back, a device never promises more than it has.   *)
NothingOvercommitted ==
  \A d \in DeviceIds : devices[d] # None =>
    LET saved == {b \in BrickIds : bricks[b] # None /\ bricks[b].device = d}
    IN  devices[d].free +
          Perm!FoldSet(LAMBDA b, sum : sum + TotalSize(bricks[b]), 0, saved)
        <= DeviceSize

(* BricksTracked: cluster, volume, brick and device agree: a volume in the *)
(* database is on its cluster's list, each brick it lists is in the        *)
(* database and on its device's list, and each brick in the database       *)
(* belongs to exactly one volume. Destroy and the info handlers follow     *)
(* these ids.                                                              *)
BricksTracked ==
  /\ \A v \in VolumeIds : volumes[v] # None =>
       /\ clusters[volumes[v].cluster] # None
       /\ v \in clusters[volumes[v].cluster].volumes
       /\ \A b \in volumes[v].bricks :
            /\ bricks[b] # None
            /\ devices[bricks[b].device] # None
            /\ b \in devices[bricks[b].device].bricks
  /\ \A b \in BrickIds : bricks[b] # None =>
       Cardinality({v \in VolumeIds : volumes[v] # None /\ b \in volumes[v].bricks}) = 1
  /\ \A c \in ClusterIds : clusters[c] # None =>
       \A v \in clusters[c].volumes : volumes[v] # None /\ volumes[v].cluster = c

BeingDeleted(v) ==
  \E w \in Workers : /\ work[w] # None /\ work[w].vol = v /\ work[w].op = "delete"
                     /\ work[w].at \in {"bricks", "commit"}

(* VolumeServed: a volume in the database that nobody is deleting has its  *)
(* gluster volume, and all its bricks are part of it and exist on their    *)
(* nodes: no failure of another operation takes them away.                 *)
VolumeServed ==
  \A v \in VolumeIds : (volumes[v] # None /\ ~BeingDeleted(v)) =>
    LET g == gvols[<<volumes[v].cluster, volumes[v].name>>]
    IN  volumes[v].bricks \subseteq lvs \cap {g[i] : i \in DOMAIN g}

(* SetsSpread: the bricks of one replica or disperse set, which gluster    *)
(* takes from the order of the bricks, are on different nodes, so that one *)
(* node's failure costs a set one brick. Expansions and expansions that    *)
(* failed half way keep the sets aligned.                                  *)
SetsSpread ==
  \A p \in DOMAIN gvols : \A i, j \in DOMAIN gvols[p] :
    LET a == gvols[p][i]
        b == gvols[p][j]
    IN  (i < j /\ (i - 1) \div BricksInSet = (j - 1) \div BricksInSet
           /\ bricks[a] # None /\ bricks[b] # None) => bricks[a].node # bricks[b].node

(* VolumesOnlyGrow: until it is deleted, a volume in the database keeps    *)
(* its bricks and its size: Expand adds to them.                           *)
VolumesOnlyGrow ==
  [][\A v \in VolumeIds : (volumes[v] # None /\ volumes'[v] # None) =>
       /\ volumes[v].bricks \subseteq volumes'[v].bricks
       /\ volumes[v].size <= volumes'[v].size]_allVars

(* NoResurrection: a volume appears in the database only because Create    *)
(* saves it; one that was deleted does not come back.                      *)
NoResurrection ==
  [][\A v \in VolumeIds : (volumes[v] = None /\ volumes'[v] # None) =>
       \E w \in Workers : Doing(w, "save") /\ work[w].op = "create" /\ work[w].vol = v]_allVars

Extents(n) == (n + ExtentSize - 1) \div ExtentSize

(* PoolsFit: LVM hands out whole extents, and the volume group of a device *)
(* has enough of them for the pools and the metadata of all bricks that    *)
(* exist on it, although heketi only compares kilobytes; and every pool    *)
(* holds its brick, which BrickCreate requires.                            *)
PoolsFit ==
  /\ \A d \in DeviceIds :
       LET here == {b \in lvs : BrickOf(b).device = d}
       IN  Perm!FoldSet(LAMBDA b, sum : sum + Extents(BrickOf(b).tp) + Extents(BrickOf(b).meta),
                        0, here) <= DeviceSize \div ExtentSize
  /\ \A b \in lvs : BrickOf(b).tp >= BrickOf(b).size

(* VolumeCapacity: the sets of bricks of a volume hold the size that       *)
(* Create and each Expand were asked for, less than a kilobyte per data    *)
(* brick lost to rounding, however often the size was halved and whatever  *)
(* failed in between. (A size that does not fit into Width bits wraps and  *)
(* the volume is smaller than its entry says.)                             *)
VolumeCapacity ==
  \A v \in VolumeIds : (volumes[v] # None /\ volumes[v].size * GB < 2^Width) =>
    LET sets == Cardinality(volumes[v].bricks) \div BricksInSet
        room == Data * (Perm!FoldSet(LAMBDA b, sum : sum + bricks[b].size, 0,
                                     volumes[v].bricks) \div BricksInSet)
        lost == Data * sets
    IN  room <= volumes[v].size * GB /\ volumes[v].size * GB < room + lost

(* BrickHasDevice: a device with bricks cannot be deleted, so a brick in   *)
(* the database is on a device in the database.                            *)
BrickHasDevice ==
  \A b \in BrickIds : bricks[b] # None => devices[bricks[b].device] # None

(* OfflineDeviceUnused: a device that is offline or failed gets no new     *)
(* brick: placing it offline disallows its usage.                          *)
OfflineDeviceUnused ==
  [][\A d \in DeviceIds :
       (devices[d] # None /\ devices'[d] # None /\ devices[d].state # "online") =>
         devices'[d].bricks \subseteq devices[d].bricks]_allVars

(* VolumeWorkEnds: every accepted volume request ends: the search for      *)
(* smaller and smaller bricks in one cluster after the other gives up, and *)
(* every clean-up finishes.                                                *)
VolumeWorkEnds == \A w \in Workers : work[w] # None ~> work[w] = None

(* ImplementsVolumeStore: seen through the database, volume requests       *)
(* served one at a time behave like the atomic operations of VolumeStore,  *)
(* whatever commands fail and whenever the server restarts.                *)
Store == INSTANCE VolumeStore WITH store <- volumes
ImplementsVolumeStore == Store!Spec
=============================================================================
