--------------------------- MODULE AllocatorRing ---------------------------
(***************************************************************************)
(* SimpleAllocatorRing (apps/glusterfs/allocator_simple_ring.go): the map  *)
(* of one cluster from zone to node to a slice of devices, and the         *)
(* balanced list cached from it. Every call runs under the mutex of        *)
(* SimpleAllocator, so every call is one action; the loops inside are      *)
(* recursive operators. A Go map is ranged over in any order.              *)
(***************************************************************************)
EXTENDS Naturals, Sequences, FiniteSets

R == INSTANCE RingList
S == INSTANCE SequencesExt

CONSTANTS
  ZoneIds, NodeIds, DeviceIds,
  MaxSlice,   \* bound: entries in the slice of one node
  Nil

VARIABLES
  place,         \* zone and node of every device; never changes
  ring,          \* zone -> node -> slice of device ids; absent keys are absent
  balancedList,  \* the cached list, or Nil
  offered,       \* what the last call returned, <<>> unless GetDeviceList
  recovered      \* the last Remove panicked and the panic was recovered

vars == <<place, ring, balancedList, offered, recovered>>

(* A node is in one zone.                                                  *)
Places ==
  {f \in [DeviceIds -> [zone : ZoneIds, node : NodeIds]] :
     \A d, e \in DeviceIds : f[d].node = f[e].node => f[d].zone = f[e].zone}

Init ==
  /\ place \in Places
  /\ ring = <<>>
  /\ balancedList = Nil
  /\ offered = <<>>
  /\ recovered = FALSE

Slice(z, n) ==
  IF z \in DOMAIN ring /\ n \in DOMAIN ring[z] THEN ring[z][n] ELSE <<>>

(* The map after the slice of node n of zone z became s: an empty slice    *)
(* and an empty zone are deleted.                                          *)
Stored(z, n, s) ==
  LET inZone == IF z \in DOMAIN ring THEN ring[z] ELSE <<>>
      keys   == IF s = <<>> THEN DOMAIN inZone \ {n} ELSE DOMAIN inZone \cup {n}
      zone   == [m \in keys |-> IF m = n THEN s ELSE inZone[m]]
  IN  [x \in IF keys = {} THEN DOMAIN ring \ {z} ELSE DOMAIN ring \cup {z} |->
        IF x = z THEN zone ELSE ring[x]]

(* Mutant: the cached list survives.                                       *)
AddKeepsList(d) ==
  LET z == place[d].zone
      n == place[d].node
  IN  /\ Len(Slice(z, n)) < MaxSlice
      /\ ring' = Stored(z, n, Append(Slice(z, n), d))
      /\ offered' = <<>> /\ recovered' = FALSE
      /\ UNCHANGED <<place, balancedList>>

Add(d) ==
  LET z == place[d].zone
      n == place[d].node
  IN  /\ Len(Slice(z, n)) < MaxSlice
      /\ ring' = Stored(z, n, Append(Slice(z, n), d))
      /\ balancedList' = Nil
      /\ offered' = <<>> /\ recovered' = FALSE
      /\ UNCHANGED place

(* Mutant: the loop ends with the first copy.                              *)
RemoveFirst(old, len, index, d) ==
  LET at == {i \in DOMAIN old : old[i] = d}
  IN  [list |-> IF at = {} THEN old
                ELSE S!RemoveAt(old, CHOOSE i \in at : \A j \in at : i <= j),
       panic |-> FALSE]

(* The loop of Remove: old is the backing array, which the range reads to  *)
(* the length the slice had before the loop, len the present length of the *)
(* slice. Deleting index shifts old[index+1..len] one to the left.         *)
RECURSIVE RemoveLoop(_, _, _, _)
RemoveLoop(old, len, index, d) ==
  IF index > Len(old) THEN [list |-> SubSeq(old, 1, len), panic |-> FALSE]
  ELSE IF old[index] # d THEN RemoveLoop(old, len, index + 1, d)
  ELSE IF index > len THEN [list |-> SubSeq(old, 1, len), panic |-> TRUE]
  ELSE RemoveLoop([i \in DOMAIN old |->
                     IF i >= index /\ i < len THEN old[i + 1] ELSE old[i]],
                  len - 1, index + 1, d)

Remove(d) ==
  LET z    == place[d].zone
      n    == place[d].node
      done == RemoveLoop(Slice(z, n), Len(Slice(z, n)), 1, d)
  IN  /\ ring' = IF z \in DOMAIN ring /\ n \in DOMAIN ring[z]
                 THEN Stored(z, n, done.list) ELSE ring
      /\ balancedList' = IF done.panic THEN balancedList ELSE Nil
      /\ offered' = <<>> /\ recovered' = done.panic
      /\ UNCHANGED place

(* createZoneLists: the map as a list of zones of lists of slices.         *)
ZoneLists ==
  UNION {{[i \in DOMAIN zs |-> [j \in DOMAIN ns[zs[i]] |-> ring[zs[i]][ns[zs[i]][j]]]] :
            ns \in {f \in [DOMAIN ring -> UNION {S!SetToSeqs(DOMAIN ring[z]) : z \in DOMAIN ring}] :
                      \A z \in DOMAIN ring : f[z] \in S!SetToSeqs(DOMAIN ring[z])}} :
          zs \in S!SetToSeqs(DOMAIN ring)}

(* The loop of Rebalance, from round i on.                                 *)
(* Mutant: goes on with the next node only when one is used up.            *)
RECURSIVE DrainInTurn(_, _)
DrainInTurn(zones, i) ==
  IF zones = <<>> THEN <<>>
  ELSE LET left == S!Front(zones[1][1])
           zone == IF left = <<>> THEN Tail(zones[1]) ELSE S!ReplaceAt(zones[1], 1, left)
       IN  <<S!Last(zones[1][1])>> \o
           DrainInTurn(IF zone = <<>> THEN Tail(zones) ELSE S!ReplaceAt(zones, 1, zone), i + 1)

RECURSIVE Drain(_, _)
Drain(zones, i) ==
  IF zones = <<>> THEN <<>>
  ELSE LET z    == 1 + (i % Len(zones))
           n    == 1 + (i % Len(zones[z]))
           left == S!Front(zones[z][n])
           zone == IF left = <<>> THEN S!RemoveAt(zones[z], n)
                   ELSE S!ReplaceAt(zones[z], n, left)
       IN  <<S!Last(zones[z][n])>> \o
           Drain(IF zone = <<>> THEN S!RemoveAt(zones, z) ELSE S!ReplaceAt(zones, z, zone), i + 1)

(* getDeviceList: Rebalance unless the list is cached, then the list from  *)
(* a position the brick id decides, which may be any.                      *)
GetDeviceList ==
  /\ balancedList' \in IF balancedList # Nil THEN {balancedList}
                       ELSE {Drain(zones, 0) : zones \in ZoneLists}
  /\ offered' \in IF balancedList' = <<>> THEN {<<>>}
                  ELSE {SubSeq(balancedList', k + 1, Len(balancedList'))
                          \o SubSeq(balancedList', 1, k) : k \in 0..Len(balancedList') - 1}
  /\ UNCHANGED <<place, ring, recovered>>

Next ==
  \/ \E d \in DeviceIds : Add(d) \/ Remove(d)
  \/ GetDeviceList

Spec == Init /\ [][Next]_vars

-----------------------------------------------------------------------------
(* Properties                                                              *)

Slices == UNION {{ring[z][n] : n \in DOMAIN ring[z]} : z \in DOMAIN ring}

Occurrences(s, d) == Cardinality({i \in DOMAIN s : s[i] = d})

Listed(d) == Occurrences(Slice(place[d].zone, place[d].node), d)

(* OfferedIsRing: GetDeviceList returns the devices of the map, each as    *)
(* often as it was added, although the list it rotates may have been built *)
(* many calls ago: every Add and Remove drops the cached list. (A Remove   *)
(* that panicked does not.) And no zone and no slice of the map is empty,  *)
(* even after a panic: Rebalance pops from every one of them.              *)
OfferedIsRing ==
  /\ offered # <<>> /\ ~recovered =>
       \A d \in DeviceIds : Occurrences(offered, d) = Listed(d)
  /\ \A z \in DOMAIN ring : ring[z] # <<>> /\ <<>> \notin Slices

(* RemoveClosedForm: for every slice that can arise, duplicates included,  *)
(* the loop of Remove does what AfterRemove and RemovePanics of RingList   *)
(* say, which the module Topology uses.                                    *)
RemoveClosedForm ==
  \A s \in Slices, d \in DeviceIds :
    RemoveLoop(s, Len(s), 1, d) =
      [list |-> R!AfterRemove(s, d), panic |-> R!RemovePanics(s, d)]

Apart(d, e) == place[d].node # place[e].node

(* SpreadWhenEven: when every zone has the same number of nodes, and every *)
(* node the same number of devices, and there are at least two nodes, two  *)
(* neighbours in what is offered are never on one node, the seam of the    *)
(* rotation included: "each continguous SimpleDevice is from either a      *)
(* different zone, or node".                                               *)
SpreadWhenEven ==
  LET even == /\ \A s, t \in Slices : Len(s) = Len(t)
              /\ \A y, z \in DOMAIN ring :
                   Cardinality(DOMAIN ring[y]) = Cardinality(DOMAIN ring[z])
      many == \E d, e \in S!ToSet(offered) : Apart(d, e)
  IN  (even /\ many /\ ~recovered) =>
        \A i \in 1..Len(offered) - 1 : Apart(offered[i], offered[i + 1])

(* SpreadWhenPossible: the list Rebalance builds has no two neighbours on  *)
(* one node whenever it could be built so: no device is listed twice and   *)
(* no node has more than half of the devices, rounded up.                  *)
SpreadWhenPossible ==
  (/\ balancedList # Nil /\ ~recovered
   /\ \A d \in DeviceIds : Listed(d) <= 1
   /\ \A s \in Slices : 2 * Len(s) <= Len(balancedList) + 1) =>
     \A i \in 1..Len(balancedList) - 1 : Apart(balancedList[i], balancedList[i + 1])
=============================================================================
