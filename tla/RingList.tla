------------------------------ MODULE RingList ------------------------------
(***************************************************************************)
(* The allocator's ring for one cluster, as far as the rest of the server  *)
(* sees it: for every node the slice of device ids that Add appended and   *)
(* Remove has not taken out yet (apps/glusterfs/allocator_simple_ring.go). *)
(* A node's zone never changes, so the zone level of the map is left to    *)
(* module AllocatorRing, which also checks that the closed form of Remove  *)
(* below is what the Go loop computes.                                     *)
(*                                                                         *)
(* Add does not look for the device first, so a slice can hold a device    *)
(* twice; Remove shifts the slice while it ranges over it, so what it does *)
(* to such a slice depends on where the copies stand.                      *)
(***************************************************************************)
LOCAL INSTANCE Naturals
LOCAL INSTANCE Sequences
LOCAL INSTANCE FiniteSets
LOCAL INSTANCE Folds

(* Number of entries of s at or just before position j that follow the     *)
(* last entry other than d: the length of the run of d's ending at j.      *)
LOCAL RunLength(s, d, j) ==
  j - (CHOOSE i \in 0..j :
         /\ i = 0 \/ s[i] # d
         /\ \A k \in (i + 1)..j : s[k] = d)

(* The positions Remove deletes. Deleting position j shifts the rest left, *)
(* so the loop skips the entry that followed it: in a run of copies of d   *)
(* every second one goes.                                                  *)
RemovedAt(s, d) ==
  {j \in DOMAIN s : s[j] = d /\ RunLength(s, d, j) % 2 = 1}

(* Mutant: the shortened slice is not stored back.                         *)
NotStored(s, d) == s

(* What is left of slice s after Remove(d), panic or not.                  *)
AfterRemove(s, d) ==
  LET kept == SelectSeq([j \in 1..Len(s) |-> j],
                        LAMBDA j : j \notin RemovedAt(s, d))
  IN  [i \in 1..Len(kept) |-> s[kept[i]]]

(* The range keeps reading the old backing array after the slice became    *)
(* shorter; when its last entry is d and an earlier copy was deleted, the  *)
(* loop slices beyond the new length and panics.                           *)
RemovePanics(s, d) ==
  /\ s # <<>>
  /\ s[Len(s)] = d
  /\ \E j \in RemovedAt(s, d) : j < Len(s)

(* Remove applied to every device of the sequence ds in turn, stopping at  *)
(* the first panic: removeAllDisksFromRing.                                *)
RemoveEach(s, ds) ==
  MapThenFoldSet(LAMBDA d, st :
                   IF st.panic THEN st
                   ELSE [list  |-> AfterRemove(st.list, d),
                         panic |-> RemovePanics(st.list, d)],
                 [list |-> s, panic |-> FALSE],
                 LAMBDA i : ds[i],
                 LAMBDA I : CHOOSE i \in I : \A j \in I : j <= i,
                 DOMAIN ds)

(* A set of device ids in the order sort.StringSlice keeps them.           *)
Sorted(ids) ==
  [i \in 1..Cardinality(ids) |->
     CHOOSE x \in ids : Cardinality({y \in ids : y < x}) = i - 1]
=============================================================================
