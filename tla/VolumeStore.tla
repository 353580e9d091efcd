---------------------------- MODULE VolumeStore ----------------------------
(***************************************************************************)
(* What heketi promises of volumes, without goroutines, devices or failing *)
(* commands: a volume appears at once and complete, under a name that is   *)
(* free in its cluster and on bricks nobody else has; it grows; it goes.   *)
(***************************************************************************)
EXTENDS Naturals

CONSTANTS VolumeIds, None

VARIABLE store   \* per volume id: None, or name, cluster, size and bricks

Init == store = [v \in VolumeIds |-> None]

Others(v) == {u \in VolumeIds \ {v} : store[u] # None}

(* No other volume has a brick of entry e.                                 *)
OwnBricks(v, e) == \A u \in Others(v) : store[u].bricks \cap e.bricks = {}

(* Only volume v changes, and this is its entry afterwards.                *)
Becomes(v, e) == store' = [store EXCEPT ![v] = e]

Create(v) ==
  /\ store[v] = None /\ store'[v] # None
  /\ Becomes(v, store'[v])
  /\ store'[v].bricks # {} /\ OwnBricks(v, store'[v])
  /\ \A u \in Others(v) : store[u].cluster = store'[v].cluster
                            => store[u].name # store'[v].name

Expand(v) ==
  /\ store[v] # None /\ store'[v] # None
  /\ Becomes(v, [store[v] EXCEPT !.size = store'[v].size, !.bricks = store'[v].bricks])
  /\ store'[v].size > store[v].size
  /\ store[v].bricks \subseteq store'[v].bricks /\ store[v].bricks # store'[v].bricks
  /\ OwnBricks(v, store'[v])

Delete(v) == store[v] # None /\ Becomes(v, None)

Next == \E v \in VolumeIds : Create(v) \/ Expand(v) \/ Delete(v)

Spec == Init /\ [][Next]_store
=============================================================================
