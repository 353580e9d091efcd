------------------------ MODULE TopologyClientProofs ------------------------
(***************************************************************************)
(* Proofs about TopologyClient for every file, every number of clients and *)
(* of failing requests.                                                    *)
(*                                                                         *)
(* LoadAccount follows from what the two variables clusterInfo and         *)
(* nodeInfo hold: the last cluster and the last node that was made.        *)
(* InfoExact is shown by following, from request to request, what is still *)
(* to be asked for: what was there all the time is in the answer, or some  *)
(* request on the list will bring it.                                      *)
(***************************************************************************)
EXTENDS TopologyClient, ListTheorems

-----------------------------------------------------------------------------
(* topology load                                                           *)

Kinds == {"cluster", "node", "device"}

(* LoopStarts: a loop goes on from list to list, up to any of them.        *)
LEMMA LoopStarts ==
  ASSUME NEW S, NEW q \in Seq(S), NEW n \in 0..Len(q)
  PROVE  \E f : f = [i \in 0..n |-> IF i = 0 THEN <<>> ELSE f[i - 1] \o q[i]]
<1> DEFINE Ok(k) == \E f : f = [i \in 0..k |-> IF i = 0 THEN <<>> ELSE f[i - 1] \o q[i]]
           Bad == {k \in 0..Len(q) : ~Ok(k)}
<1>1. Ok(0)
  <2> DEFINE g == [i \in 0..0 |-> <<>>]
  <2>1. g = [i \in 0..0 |-> IF i = 0 THEN <<>> ELSE g[i - 1] \o q[i]]
    OBVIOUS
  <2> QED  BY <2>1, Zenon
<1>2. ASSUME NEW k \in 0..Len(q), k + 1 \in 0..Len(q), Ok(k)
      PROVE  Ok(k + 1)
  <2>1. PICK f : f = [i \in 0..k |-> IF i = 0 THEN <<>> ELSE f[i - 1] \o q[i]]
    BY <1>2, Zenon
  <2> DEFINE g == [i \in 0..(k + 1) |-> IF i = 0 THEN <<>> ELSE f[i - 1] \o q[i]]
  <2>2. \A i \in 0..k : g[i] = f[i]
    <3>1. \A i \in 0..k : f[i] = IF i = 0 THEN <<>> ELSE f[i - 1] \o q[i]
      BY <2>1, Zenon
    <3>2. \A i \in 0..k : g[i] = IF i = 0 THEN <<>> ELSE f[i - 1] \o q[i]
      OBVIOUS
    <3> HIDE DEF g
    <3> QED  BY <3>1, <3>2, Zenon
  <2>3. \A i \in 0..(k + 1) : i # 0 => i - 1 \in 0..k
    OBVIOUS
  <2>4. g = [i \in 0..(k + 1) |-> IF i = 0 THEN <<>> ELSE g[i - 1] \o q[i]]
    <3> HIDE DEF g
    <3>1. g = [i \in 0..(k + 1) |-> IF i = 0 THEN <<>> ELSE f[i - 1] \o q[i]]
      BY Zenon DEF g
    <3> QED  BY <2>2, <2>3, <3>1, Zenon
  <2> HIDE DEF g
  <2> QED  BY <2>4, Zenon
<1> SUFFICES Bad = {}
  BY Zenon
<1> HIDE DEF Ok
<1>3. SUFFICES ASSUME Bad # {}
               PROVE  FALSE
  BY Zenon
<1>4. PICK k \in Bad : \A j \in Bad : k <= j
  <2>1. Bad \in SUBSET Nat
    OBVIOUS
  <2> QED  BY <1>3, <2>1, LeastNat, Zenon
<1>5. k # 0 /\ k \in 0..Len(q)
  BY <1>1, Zenon
<1>6. k - 1 \in 0..Len(q) /\ k - 1 \notin Bad
  BY <1>4, <1>5
<1>7. Ok(k - 1) /\ (k - 1) + 1 = k
  BY <1>5, <1>6
<1> QED  BY <1>2, <1>4, <1>5, <1>6, <1>7, Zenon

(* LoopKeeps: what each of the lists has, and joining two lists keeps, the *)
(* list of all that the loop does has.                                     *)
LEMMA LoopKeeps ==
  ASSUME NEW G, NEW q \in Seq(G), <<>> \in G, \A s, t \in G : s \o t \in G
  PROVE  Loop(q) \in G
<1>1. Len(q) \in 0..Len(q)
  OBVIOUS
<1> DEFINE J(f) == f = [i \in 0..Len(q) |-> IF i = 0 THEN <<>> ELSE f[i - 1] \o q[i]]
<1>2. \E f : J(f)
  BY <1>1, LoopStarts, Zenon
<1>3. Loop(q) = (CHOOSE f : J(f))[Len(q)]
  BY Zenon DEF Loop
<1> HIDE DEF J
<1>4. PICK f : J(f) /\ Loop(q) = f[Len(q)]
  BY <1>2, <1>3, Zenon
<1>5. \A i \in 0..Len(q) : f[i] = IF i = 0 THEN <<>> ELSE f[i - 1] \o q[i]
  BY <1>4, Zenon DEF J
<1> DEFINE Bad == {k \in 0..Len(q) : f[k] \notin G}
<1>6. ASSUME Bad # {}
      PROVE  FALSE
  <2>1. Bad \in SUBSET Nat
    OBVIOUS
  <2>2. PICK k \in Bad : \A j \in Bad : k <= j
    BY <1>6, <2>1, LeastNat, Zenon
  <2>3. k \in 0..Len(q) /\ f[k] \notin G
    BY Zenon
  <2>4. k # 0 /\ q[k] \in G
    BY <1>5, <2>3
  <2>5. k - 1 \in 0..Len(q) /\ k - 1 \notin Bad
    BY <2>2, <2>3, <2>4
  <2>6. f[k - 1] \in G /\ f[k] = f[k - 1] \o q[k]
    BY <1>5, <2>3, <2>4, <2>5, Zenon
  <2> QED  BY <2>4, <2>3, <2>6, Zenon
<1> QED  BY <1>1, <1>4, <1>6, Zenon

(* In a list of steps a node comes after a cluster and a device after a    *)
(* node.                                                                   *)
Nested(t) ==
  \A i \in DOMAIN t :
    /\ t[i] = "node" => \E j \in 1..(i - 1) : t[j] = "cluster"
    /\ t[i] = "device" => \E j \in 1..(i - 1) : t[j] = "node"

(* The same inside of a cluster.                                           *)
NestedNodes(t) ==
  \A i \in DOMAIN t :
    /\ t[i] # "cluster"
    /\ t[i] = "device" => \E j \in 1..(i - 1) : t[j] = "node"

(* JoinNodes: what NestedNodes says is kept when lists are joined.         *)
LEMMA JoinNodes ==
  ASSUME NEW s \in Seq(Kinds), NEW t \in Seq(Kinds), NestedNodes(s), NestedNodes(t)
  PROVE  NestedNodes(s \o t)
<1> DEFINE r == s \o t
<1>1. /\ Len(s) \in Nat /\ Len(t) \in Nat /\ DOMAIN s = 1..Len(s) /\ DOMAIN t = 1..Len(t)
      /\ DOMAIN r = 1..(Len(s) + Len(t))
      /\ \A i \in 1..Len(s) : r[i] = s[i]
      /\ \A i \in 1..Len(t) : r[Len(s) + i] = t[i]
  OBVIOUS
<1> HIDE DEF r
<1> SUFFICES ASSUME NEW i \in DOMAIN r
             PROVE  /\ r[i] # "cluster"
                    /\ r[i] = "device" => \E j \in 1..(i - 1) : r[j] = "node"
  BY Zenon DEF NestedNodes, r
<1>2. CASE i <= Len(s)
  BY <1>1, <1>2 DEF NestedNodes
<1>3. CASE i > Len(s)
  <2>1. i - Len(s) \in 1..Len(t) /\ Len(s) + (i - Len(s)) = i
    BY <1>1, <1>3
  <2>2. r[i] = t[i - Len(s)]
    BY <1>1, <2>1, Zenon
  <2>3. r[i] # "cluster"
    BY <1>1, <2>1, <2>2, Zenon DEF NestedNodes
  <2>4. ASSUME r[i] = "device"
        PROVE  \E j \in 1..(i - 1) : r[j] = "node"
    <3>1. PICK j \in 1..((i - Len(s)) - 1) : t[j] = "node"
      BY <1>1, <2>1, <2>2, <2>4, Zenon DEF NestedNodes
    <3>2. Len(s) + j \in 1..(i - 1) /\ j \in 1..Len(t)
      BY <1>1, <2>1, <3>1, SMTT(30)
    <3> QED  BY <1>1, <3>1, <3>2, Zenon
  <2> QED  BY <2>3, <2>4, Zenon
<1> QED  BY <1>1, <1>2, <1>3

(* JoinClusters: and what Nested says.                                     *)
LEMMA JoinClusters ==
  ASSUME NEW s \in Seq(Kinds), NEW t \in Seq(Kinds), Nested(s), Nested(t)
  PROVE  Nested(s \o t)
<1> DEFINE r == s \o t
<1>1. /\ Len(s) \in Nat /\ Len(t) \in Nat /\ DOMAIN s = 1..Len(s) /\ DOMAIN t = 1..Len(t)
      /\ DOMAIN r = 1..(Len(s) + Len(t))
      /\ \A i \in 1..Len(s) : r[i] = s[i]
      /\ \A i \in 1..Len(t) : r[Len(s) + i] = t[i]
  OBVIOUS
<1> HIDE DEF r
<1> SUFFICES ASSUME NEW i \in DOMAIN r
             PROVE  /\ r[i] = "node" => \E j \in 1..(i - 1) : r[j] = "cluster"
                    /\ r[i] = "device" => \E j \in 1..(i - 1) : r[j] = "node"
  BY Zenon DEF Nested, r
<1>2. CASE i <= Len(s)
  <2>1. i \in 1..Len(s) /\ r[i] = s[i] /\ \A j \in 1..(i - 1) : r[j] = s[j]
    BY <1>1, <1>2
  <2> QED  BY <1>1, <2>1, SMTT(30) DEF Nested
<1>3. CASE i > Len(s)
  <2>1. i - Len(s) \in 1..Len(t) /\ Len(s) + (i - Len(s)) = i
    BY <1>1, <1>3
  <2>2. r[i] = t[i - Len(s)]
    BY <1>1, <2>1, Zenon
  <2>3. ASSUME r[i] = "node"
        PROVE  \E j \in 1..(i - 1) : r[j] = "cluster"
    <3>1. PICK j \in 1..((i - Len(s)) - 1) : t[j] = "cluster"
      BY <1>1, <2>1, <2>2, <2>3, Zenon DEF Nested
    <3>2. Len(s) + j \in 1..(i - 1) /\ j \in 1..Len(t)
      BY <1>1, <2>1, <3>1, SMTT(30)
    <3> QED  BY <1>1, <3>1, <3>2, Zenon
  <2>4. ASSUME r[i] = "device"
        PROVE  \E j \in 1..(i - 1) : r[j] = "node"
    <3>1. PICK j \in 1..((i - Len(s)) - 1) : t[j] = "node"
      BY <1>1, <2>1, <2>2, <2>4, Zenon DEF Nested
    <3>2. Len(s) + j \in 1..(i - 1) /\ j \in 1..Len(t)
      BY <1>1, <2>1, <3>1
    <3> QED  BY <1>1, <3>1, <3>2, Zenon
  <2> QED  BY <2>3, <2>4, Zenon
<1> QED  BY <1>1, <1>2, <1>3

(* StepsNested: so it is in the list of all requests of a file.            *)
LEMMA StepsNested == Steps \in Seq(Kinds) /\ Nested(Steps)
<1> DEFINE Device(n) == [k \in 1..n |-> "device"]
           OfNode(n) == <<"node">> \o Device(n)
           OfNodes(c) == Loop([j \in DOMAIN c |-> OfNode(c[j])])
           OfCluster(c) == <<"cluster">> \o OfNodes(c)
           G == {t \in Seq(Kinds) : NestedNodes(t)}
           H == {t \in Seq(Kinds) : Nested(t)}
<1>1. ASSUME NEW n \in Nat
      PROVE  OfNode(n) \in G
  <2>1. Device(n) \in Seq(Kinds) /\ Len(Device(n)) = n /\ DOMAIN Device(n) = 1..n
    BY DEF Kinds
  <2>2. <<"node">> \in Seq(Kinds) /\ Len(<<"node">>) = 1
    BY SMTT(30) DEF Kinds
  <2> DEFINE r == OfNode(n)
  <2>3. /\ r \in Seq(Kinds) /\ DOMAIN r = 1..(n + 1) /\ r[1] = "node"
        /\ \A i \in 2..(n + 1) : r[i] = "device"
    BY <2>1, <2>2
  <2> HIDE DEF r
  <2>4. NestedNodes(r)
    BY <2>3 DEF NestedNodes
  <2> QED  BY <2>3, <2>4, Zenon DEF r
<1>2. \A s, t \in G : s \o t \in G
  BY JoinNodes
<1>3. \A s, t \in H : s \o t \in H
  BY JoinClusters
<1>4. <<>> \in G /\ <<>> \in H
  BY DEF NestedNodes, Nested
<1>6. ASSUME NEW c \in Seq(Nat)
      PROVE  OfCluster(c) \in H
  <2>1. [j \in DOMAIN c |-> OfNode(c[j])] \in Seq(G)
    <3> HIDE DEF G, OfNode
    <3> QED  BY <1>1, SMTT(30)
  <2>2. OfNodes(c) \in G
    <3> DEFINE q == [j \in DOMAIN c |-> OfNode(c[j])]
    <3> HIDE DEF G, OfNode
    <3> QED  BY <1>2, <1>4, <2>1, LoopKeeps, Zenon
  <2> DEFINE t == OfNodes(c)
             r == <<"cluster">> \o t
  <2>3. t \in Seq(Kinds) /\ NestedNodes(t)
    BY <2>2, Zenon
  <2> HIDE DEF t
  <2>4. /\ r \in Seq(Kinds) /\ DOMAIN r = 1..(Len(t) + 1) /\ Len(t) \in Nat
        /\ r[1] = "cluster" /\ \A i \in 1..Len(t) : r[i + 1] = t[i]
    BY <2>3 DEF Kinds
  <2> HIDE DEF r
  <2>5. Nested(r)
    <3> SUFFICES ASSUME NEW i \in DOMAIN r
                 PROVE  /\ r[i] = "node" => \E j \in 1..(i - 1) : r[j] = "cluster"
                        /\ r[i] = "device" => \E j \in 1..(i - 1) : r[j] = "node"
      BY Zenon DEF Nested
    <3>1. CASE i = 1
      BY <2>4, <3>1, Zenon
    <3>2. CASE i # 1
      <4>1. i - 1 \in 1..Len(t) /\ i = (i - 1) + 1 /\ 1 \in 1..(i - 1)
        BY <2>4, <3>2
      <4>2. r[i] = t[i - 1]
        BY <2>4, <4>1, Zenon
      <4>3. ASSUME r[i] = "device"
            PROVE  \E j \in 1..(i - 1) : r[j] = "node"
        <5>1. PICK j \in 1..((i - 1) - 1) : t[j] = "node"
          BY <2>3, <2>4, <4>1, <4>2, <4>3, SMTT(30) DEF NestedNodes
        <5>2. j + 1 \in 1..(i - 1) /\ j \in 1..Len(t)
          BY <2>4, <4>1, <5>1, SMTT(30)
        <5> QED  BY <2>4, <5>1, <5>2, Zenon
      <4> QED  BY <2>4, <4>1, <4>3, Zenon
    <3> QED  BY <3>1, <3>2, Zenon
  <2> QED  BY <2>4, <2>5, Zenon DEF r, t
<1>7. [i \in DOMAIN File |-> OfCluster(File[i])] \in Seq(H)
  <2> HIDE DEF H, OfCluster
  <2>1. File \in Seq(Seq(Nat)) /\ \A i \in DOMAIN File : OfCluster(File[i]) \in H
    BY <1>6, TopologyClientAssumption
  <2>2. DOMAIN File = 1..Len(File) /\ Len(File) \in Nat
    BY <2>1
  <2>3. [i \in 1..Len(File) |-> OfCluster(File[i])] \in Seq(H)
    <3>1. \A i \in 1..Len(File) : OfCluster(File[i]) \in H
      BY <2>1, <2>2, Zenon
    <3>2. Len(File) \in Nat
      BY <2>2, Zenon
    <3> QED  BY <3>1, <3>2
  <2> QED  BY <2>2, <2>3, Zenon
<1>8. Steps = Loop([i \in DOMAIN File |-> OfCluster(File[i])])
  BY Zenon DEF Steps
<1>9. Steps \in H
  <2> HIDE DEF H, OfCluster
  <2> QED  BY <1>3, <1>4, <1>7, <1>8, LoopKeeps, Zenon
<1> QED  BY <1>9, Zenon

(* Step j is the last of a kind up to step n.                              *)
IsLast(kind, j, n) ==
  j \in 1..n /\ Steps[j] = kind /\ \A k \in 1..n : Steps[k] = kind => k <= j

(* AboveIsLast: the step above step i is the last cluster before a node,   *)
(* the last node before a device, and a cluster itself.                    *)
LEMMA AboveIsLast ==
  ASSUME NEW i \in 1..Len(Steps)
  PROVE  /\ Steps[i] = "cluster" => Above(i) = i
         /\ Steps[i] = "node" => IsLast("cluster", Above(i), i - 1)
         /\ Steps[i] = "device" => IsLast("node", Above(i), i - 1)
<1> DEFINE kind == IF Steps[i] = "device" THEN "node" ELSE "cluster"
           before == {j \in 1..i : Steps[j] = kind}
<1>1. /\ Steps[i] \in Kinds /\ Len(Steps) \in Nat /\ DOMAIN Steps = 1..Len(Steps)
      /\ Steps[i] = "node" => \E j \in 1..(i - 1) : Steps[j] = "cluster"
      /\ Steps[i] = "device" => \E j \in 1..(i - 1) : Steps[j] = "node"
  BY StepsNested DEF Nested
<1>2. before # {} /\ before \in SUBSET (1..i)
  BY <1>1 DEF Kinds
<1>3. \E m \in before : \A k \in before : k <= m
  <2>1. i \in Nat
    BY <1>1
  <2> HIDE DEF before
  <2> QED  BY <1>2, <2>1, GreatestBelow, Zenon
<1>4. Above(i) \in before /\ \A k \in before : k <= Above(i)
  BY <1>3, Zenon DEF Above
<1>5. ASSUME Steps[i] = "cluster"
      PROVE  Above(i) = i
  <2>1. i \in before /\ Above(i) \in 1..i
    BY <1>4, <1>5
  <2> QED  BY <1>4, <2>1
<1>6. ASSUME Steps[i] # "cluster"
      PROVE  IsLast(kind, Above(i), i - 1)
  <2>1. Above(i) \in 1..i /\ Steps[Above(i)] = kind /\ Steps[i] # kind
    BY <1>1, <1>4, <1>6, Zenon DEF Kinds
  <2>2. Above(i) \in 1..(i - 1)
    BY <2>1
  <2>3. \A k \in 1..(i - 1) : Steps[k] = kind => k <= Above(i)
    BY <1>4
  <2> QED  BY <2>1, <2>2, <2>3, Zenon DEF IsLast
<1> QED  BY <1>5, <1>6, Zenon

Ids == ClusterIds \cup NodeIds \cup DeviceIds
Entries == Kinds \X Ids \X (Ids \cup {None})

(* What topology load keeps: clusterInfo and nodeInfo are the last cluster *)
(* and the last node that it was told of.                                  *)
LoadInv ==
  /\ load.at \in 1..(Len(Steps) + 1)
  /\ load.made \in Seq(Entries) /\ Len(load.made) = load.at - 1
  /\ load.id \in [Kinds -> Ids \cup {None}]
  /\ \A i \in 1..(load.at - 1) :
       load.made[i][1] = Steps[i] /\ load.made[i][3] = load.made[Above(i)][2]
  /\ \A kind \in {"cluster", "node"}, j \in 1..(load.at - 1) :
       IsLast(kind, j, load.at - 1) => load.id[kind] = load.made[j][2]
  /\ load.lost = {} \/ \E f \in Entries : load.lost = {f} /\ f[1] = Steps[load.at]
  /\ load.result = "running" => load.lost = {}
  /\ load.result = "nil" => load.at > Len(Steps) \/ Steps[load.at] = "device"

(* LoadInvGives: this is more than LoadAccount says.                       *)
LEMMA LoadInvGives == LoadInv => LoadAccount
<1> SUFFICES ASSUME LoadInv
             PROVE  LoadAccount
  BY Zenon
<1>1. Cardinality(load.lost) <= 1 /\ \A f \in load.lost : f[1] = Steps[load.at]
  <2>1. CASE load.lost = {}
    BY <2>1, FS_EmptySet
  <2>2. CASE \E f \in Entries : load.lost = {f} /\ f[1] = Steps[load.at]
    <3>1. PICK f \in Entries : load.lost = {f} /\ f[1] = Steps[load.at]
      BY <2>2, Zenon
    <3>2. Cardinality({f}) = 1
      BY FS_Singleton, Zenon
    <3> QED  BY <3>1, <3>2
  <2> QED  BY <2>1, <2>2, Zenon DEF LoadInv
<1>2. DOMAIN load.made = 1..(load.at - 1)
  BY DEF LoadInv
<1> QED  BY <1>1, <1>2, Zenon DEF LoadInv, LoadAccount

(* LoadStarts: nothing has been made.                                      *)
LEMMA LoadStarts == ClientInit => LoadInv
<1> SUFFICES ASSUME ClientInit
             PROVE  LoadInv
  BY Zenon
<1>1. Len(Steps) \in Nat
  BY StepsNested
<1>2. /\ load.at = 1 /\ load.made = <<>> /\ load.lost = {} /\ load.result = "running"
      /\ load.id = [kind \in Kinds |-> None]
  BY Zenon DEF ClientInit, LoadInit, Kinds
<1> QED  BY <1>1, <1>2 DEF LoadInv

(* CreateGives: the id of what a request of topology load has made.        *)
LEMMA CreateGives ==
  ASSUME LoadInv, load.at <= Len(Steps), NEW x \in Ids
  PROVE  /\ load.at \in 1..Len(Steps) /\ Kind = Steps[load.at] /\ Kind \in Kinds
         /\ <<Kind, x, Parent(x)>> \in Entries
         /\ Kind = "cluster" => Parent(x) = x
         /\ Kind = "node" => Parent(x) = load.id["cluster"]
         /\ Kind = "device" => Parent(x) = load.id["node"]
<1>1. Len(Steps) \in Nat /\ load.at \in 1..Len(Steps) /\ Kind = Steps[load.at] /\ Kind \in Kinds
  BY StepsNested DEF LoadInv, Kind
<1>2. /\ Kind = "cluster" => Parent(x) = x
      /\ Kind = "node" => Parent(x) = load.id["cluster"]
      /\ Kind = "device" => Parent(x) = load.id["node"]
  BY <1>1, Zenon DEF Parent, Kinds
<1>3. Parent(x) \in Ids \cup {None}
  BY <1>1, <1>2, Zenon DEF LoadInv, Kinds
<1> QED  BY <1>1, <1>2, <1>3, Zenon DEF Entries

(* LoadStepKeeps: the requests of topology load, one after the other.      *)
LEMMA LoadStepKeeps ==
  ASSUME LoadInv, Load
  PROVE  LoadInv'
<1>0. Len(Steps) \in Nat /\ load.at \in 1..(Len(Steps) + 1) /\ Steps' = Steps
  <2>1. Len(Steps) \in Nat
    BY StepsNested
  <2>2. load.at \in 1..(Len(Steps) + 1)
    BY Zenon DEF LoadInv
  <2>3. Steps' = Steps
    BY Zenon DEF Steps
  <2> QED  BY <2>1, <2>2, <2>3, Zenon
<1>1. CASE LoadAnswered
  <2>1. /\ load.result = "running" /\ load.at <= Len(Steps)
        /\ \E x \in Ids :
             load' = [load EXCEPT !.at = @ + 1, !.id = NewIds(x),
                                  !.made = Append(@, <<Kind, x, Parent(x)>>)]
    BY <1>1, Zenon DEF LoadAnswered, Ids
  <2>2. PICK x \in Ids :
             load' = [load EXCEPT !.at = @ + 1, !.id = NewIds(x),
                                  !.made = Append(@, <<Kind, x, Parent(x)>>)]
    BY <2>1, Zenon
  <2> DEFINE n == load.at
             q == load.made
             y == <<Kind, x, Parent(x)>>
  <2>3. /\ n \in 1..Len(Steps) /\ Kind = Steps[n] /\ Kind \in Kinds /\ y \in Entries
        /\ Kind = "cluster" => Parent(x) = x
        /\ Kind = "node" => Parent(x) = load.id["cluster"]
        /\ Kind = "device" => Parent(x) = load.id["node"]
    BY <2>1, CreateGives, Zenon
  <2>4. q \in Seq(Entries) /\ Len(q) = n - 1 /\ load.id \in [Kinds -> Ids \cup {None}]
    BY Zenon DEF LoadInv
  <2>5. /\ load'.at = n + 1 /\ load'.id = NewIds(x) /\ load'.made = Append(q, y)
        /\ load'.lost = load.lost /\ load'.result = load.result
    BY <2>2 DEF LoadInv
  <2>6. NewIds(x) \in [Kinds -> Ids \cup {None}] /\ NewIds(x)[Kind] = x
        /\ \A k \in Kinds \ {Kind} : NewIds(x)[k] = load.id[k]
    BY <2>3, <2>4, Zenon DEF NewIds
  <2>7. /\ Append(q, y) \in Seq(Entries) /\ Len(Append(q, y)) = n
        /\ Append(q, y)[n] = y /\ \A i \in 1..(n - 1) : Append(q, y)[i] = q[i]
        /\ y[1] = Steps[n] /\ y[2] = x /\ y[3] = Parent(x)
    <3> HIDE DEF q, y
    <3>1. y \in Entries /\ n \in Nat
      BY <2>3
    <3>2. y[1] = Steps[n] /\ y[2] = x /\ y[3] = Parent(x)
      BY <2>3, Zenon DEF y
    <3> QED  BY <2>4, <3>1, <3>2, SMTT(30)
  <2> DEFINE m == Append(q, y)
  <2> HIDE DEF n, q, y, m
  <2>8. \A kind \in {"cluster", "node"}, j \in 1..(n - 1) : IsLast(kind, j, n - 1) => load.id[kind] = q[j][2]
    BY Zenon DEF LoadInv, n, q
  <2>9. \A i \in 1..(n - 1) : q[i][1] = Steps[i] /\ q[i][3] = q[Above(i)][2] /\ Above(i) \in 1..(n - 1)
    <3> TAKE i \in 1..(n - 1)
    <3>1. i \in 1..Len(Steps) /\ i \in 1..(n - 1)
      BY <1>0, <2>3
    <3>2. Steps[i] \in Kinds
      BY <3>1, StepsNested
    <3>3. Above(i) = i \/ Above(i) \in 1..(i - 1)
      BY <3>1, <3>2, AboveIsLast, Zenon DEF Kinds, IsLast
    <3>4. Above(i) \in 1..(n - 1)
      BY <1>0, <2>3, <3>1, <3>3, SMTT(30)
    <3> QED  BY <3>1, <3>4, Zenon DEF LoadInv, n, q
  <2>10. m[n][3] = m[Above(n)][2]
    <3>1. CASE Kind = "cluster"
      BY <2>3, <2>7, <3>1, AboveIsLast, Zenon DEF m
    <3>2. CASE Kind = "node"
      <4>1. IsLast("cluster", Above(n), n - 1) /\ Above(n) \in 1..(n - 1)
        BY <2>3, <3>2, AboveIsLast, Zenon DEF IsLast
      <4> QED  BY <2>3, <2>7, <2>8, <3>2, <4>1, SMTT(30) DEF m
    <3>3. CASE Kind = "device"
      <4>1. IsLast("node", Above(n), n - 1) /\ Above(n) \in 1..(n - 1)
        BY <2>3, <3>3, AboveIsLast, Zenon DEF IsLast
      <4> QED  BY <2>3, <2>7, <2>8, <3>3, <4>1, SMTT(30) DEF m
    <3> QED  BY <2>3, <3>1, <3>2, <3>3, Zenon DEF Kinds
  <2>11. \A i \in 1..n : m[i][1] = Steps[i] /\ m[i][3] = m[Above(i)][2]
    <3> TAKE i \in 1..n
    <3>1. CASE i = n
      BY <2>7, <2>10, <3>1, Zenon DEF m
    <3>2. CASE i # n
      <4>1. i \in 1..(n - 1)
        BY <1>0, <2>3, <3>2, SMTT(30)
      <4> QED  BY <2>7, <2>9, <4>1, Zenon DEF m
    <3> QED  BY <3>1, <3>2, Zenon
  <2>12. \A kind \in {"cluster", "node"}, j \in 1..n : IsLast(kind, j, n) => NewIds(x)[kind] = m[j][2]
    <3> SUFFICES ASSUME NEW kind \in {"cluster", "node"}, NEW j \in 1..n, IsLast(kind, j, n)
                 PROVE  NewIds(x)[kind] = m[j][2]
      BY Zenon
    <3>0. n \in Nat /\ n \in 1..n /\ kind \in Kinds
      BY <2>3 DEF Kinds
    <3>1. CASE kind = Kind
      <4>1. j = n
        BY <2>3, <3>0, <3>1, SMTT(30) DEF IsLast
      <4> QED  BY <2>6, <2>7, <3>1, <4>1, Zenon DEF m
    <3>2. CASE kind # Kind
      <4>1. j # n /\ j \in 1..(n - 1)
        BY <2>3, <3>0, <3>2, SMTT(30) DEF IsLast
      <4>2. IsLast(kind, j, n - 1)
        BY <3>0, <4>1, SMTT(30) DEF IsLast
      <4> QED  BY <2>6, <2>7, <2>8, <3>0, <3>2, <4>1, <4>2, SMTT(30) DEF m
    <3> QED  BY <3>1, <3>2, Zenon
  <2>13. n + 1 \in 1..(Len(Steps) + 1) /\ (n + 1) - 1 = n
    BY <1>0, <2>3
  <2>14. /\ load'.at = n + 1 /\ load'.made = m /\ load'.id = NewIds(x)
         /\ load'.lost = {} /\ load'.result = "running"
    BY <2>1, <2>5, Zenon DEF LoadInv, m, n, q
  <2>15. m \in Seq(Entries) /\ Len(m) = n
    BY <2>7, Zenon DEF m
  <2> QED  BY <2>6, <2>11, <2>12, <2>13, <2>14, <2>15, SMTT(30) DEF LoadInv
<1>2. CASE LoadLost
  <2>1. /\ load.result = "running" /\ load.at <= Len(Steps)
        /\ \E x \in Ids :
             load' = [load EXCEPT !.lost = {<<Kind, x, Parent(x)>>}, !.result = Failed]
    BY <1>2, Zenon DEF LoadLost, Ids
  <2>2. PICK x \in Ids :
             load' = [load EXCEPT !.lost = {<<Kind, x, Parent(x)>>}, !.result = Failed]
    BY <2>1, Zenon
  <2> DEFINE y == <<Kind, x, Parent(x)>>
  <2>3. Kind = Steps[load.at] /\ y \in Entries /\ y[1] = Kind
    BY <2>1, CreateGives, Zenon
  <2>4. /\ load'.at = load.at /\ load'.made = load.made /\ load'.id = load.id
        /\ load'.lost = {y} /\ load'.result = Failed
    BY <2>2
  <2> HIDE DEF y
  <2>5. Failed # "running" /\ (Failed = "nil" => Kind = "device")
    BY Zenon DEF Failed
  <2> QED  BY <2>3, <2>4, <2>5, SMTT(30) DEF LoadInv
<1>3. CASE LoadRefused
  <2>1. /\ load.result = "running" /\ load'.at = load.at /\ load'.made = load.made
        /\ load'.id = load.id /\ load'.lost = load.lost /\ load'.result = Failed
    BY <1>3 DEF LoadRefused
  <2>2. Failed # "running" /\ (Failed = "nil" => Steps[load.at] = "device")
    BY Zenon DEF Failed, Kind
  <2> QED  BY <2>1, <2>2 DEF LoadInv
<1>4. CASE LoadEnds
  <2>1. /\ load.result = "running" /\ load.at > Len(Steps)
        /\ load'.at = load.at /\ load'.made = load.made
        /\ load'.id = load.id /\ load'.lost = load.lost /\ load'.result = "nil"
    BY <1>4 DEF LoadEnds
  <2> QED  BY <2>1 DEF LoadInv
<1> QED  BY <1>1, <1>2, <1>3, <1>4, Zenon DEF Load

(* LoadAccounted: however many of its requests fail or lose their answer,  *)
(* and whatever other clients do meanwhile, topology load can tell what it *)
(* has made, but for the one thing of the request that failed.             *)
THEOREM LoadAccounted == ClientSpec => []LoadAccount
<1>1. LoadInv /\ [ClientNext]_clientVars => LoadInv'
  <2> SUFFICES ASSUME LoadInv, [ClientNext]_clientVars
               PROVE  LoadInv'
    BY Zenon
  <2>1. CASE Load
    BY <2>1, LoadStepKeeps, Zenon
  <2>2. CASE UNCHANGED load
    BY <2>2, Zenon DEF LoadInv
  <2>3. Info \/ Other \/ UNCHANGED clientVars => UNCHANGED load
    BY Zenon DEF Info, InfoCall, InfoAnswered, InfoFails, InfoEnds, Other, clientVars
  <2> QED  BY <2>1, <2>2, <2>3, Zenon DEF ClientNext
<1> QED  BY <1>1, LoadStarts, LoadInvGives, PTL DEF ClientSpec

-----------------------------------------------------------------------------
(* The inventory                                                           *)

(* What is there belongs to something that is there.                       *)
InventoryInv ==
  /\ live \in SUBSET ClusterIds
  /\ owner \in [NodeIds -> ClusterIds \cup {None}]
  /\ home \in [DeviceIds -> NodeIds \cup {None}]
  /\ volumeIn \in [VolumeIds -> ClusterIds \cup {None}]
  /\ \A n \in NodeIds : owner[n] # None => owner[n] \in live
  /\ \A d \in DeviceIds : home[d] # None => owner[home[d]] # None
  /\ \A v \in VolumeIds : volumeIn[v] # None => volumeIn[v] \in live

IdsUsed ==
  /\ live \subseteq used
  /\ \A n \in NodeIds : owner[n] # None => n \in used
  /\ \A d \in DeviceIds : home[d] # None => d \in used
  /\ \A v \in VolumeIds : volumeIn[v] # None => v \in used

(* A step that other steps of the inventory are compared with: something   *)
(* with a new id is added, or something goes; what stays keeps its place.  *)
Changes ==
  /\ used \subseteq used'
  /\ \A c \in live' \ live : c \notin used
  /\ \A n \in NodeIds : owner'[n] \in {owner[n], None} \/ n \notin used
  /\ \A d \in DeviceIds : home'[d] \in {home[d], None} \/ d \notin used
  /\ \A v \in VolumeIds : volumeIn'[v] \in {volumeIn[v], None} \/ v \notin used

(* NoneApart: None is not an id.                                           *)
LEMMA NoneApart ==
  None \notin ClusterIds /\ None \notin NodeIds /\ None \notin DeviceIds /\ None \notin VolumeIds
  BY TopologyClientAssumption, Zenon

(* CreateKeeps: ClusterCreate, NodeAdd, DeviceAdd and VolumeCreate.        *)
LEMMA CreateKeeps ==
  ASSUME InventoryInv, IdsUsed, NEW kind, NEW x, NEW p, Create(kind, x, p)
  PROVE  InventoryInv' /\ IdsUsed' /\ Changes
<1> USE NoneApart DEF InventoryInv, IdsUsed, Changes, IsNext
<1>0. used' = used \cup {x}
  BY Zenon DEF Create
<1>1. CASE kind = "cluster" /\ IsNext(x, ClusterIds) /\ AddCluster(x) /\ UNCHANGED volumeIn
  BY <1>0, <1>1, Zenon DEF AddCluster
<1>2. CASE IsNext(x, NodeIds) /\ p \in ClusterIds /\ AddNode(x, p) /\ UNCHANGED volumeIn
  BY <1>0, <1>2, SMTT(30) DEF AddNode
<1>3. CASE IsNext(x, DeviceIds) /\ p \in NodeIds /\ AddDevice(x, p) /\ UNCHANGED volumeIn
  BY <1>0, <1>3 DEF AddDevice
<1>4. CASE /\ IsNext(x, VolumeIds) /\ p \in live
           /\ volumeIn' = [volumeIn EXCEPT ![x] = p] /\ UNCHANGED <<live, owner, home>>
  BY <1>0, <1>4, Zenon
<1> QED  BY <1>1, <1>2, <1>3, <1>4, Zenon DEF Create

(* DeleteKeeps: a cluster or a node is deleted when it is empty.           *)
LEMMA DeleteKeeps ==
  ASSUME InventoryInv, IdsUsed, NEW kind, NEW x, Delete(kind, x)
  PROVE  InventoryInv' /\ IdsUsed' /\ Changes
<1> USE NoneApart DEF InventoryInv, IdsUsed, Changes
<1>0. used' = used
  BY Zenon DEF Delete
<1>1. CASE /\ x \in live /\ (\A v \in VolumeIds : volumeIn[v] # x)
           /\ DeleteCluster(x) /\ UNCHANGED volumeIn
  BY <1>0, <1>1, Zenon DEF DeleteCluster
<1>2. CASE DeleteNode(x) /\ UNCHANGED volumeIn
  BY <1>0, <1>2, Zenon DEF DeleteNode
<1>3. CASE DeleteDevice(x) /\ UNCHANGED volumeIn
  BY <1>0, <1>3, Zenon DEF DeleteDevice
<1>4. CASE volumeIn' = [volumeIn EXCEPT ![x] = None] /\ UNCHANGED <<live, owner, home>>
  BY <1>0, <1>4, Zenon
<1> QED  BY <1>1, <1>2, <1>3, <1>4, Zenon DEF Delete

(* FactsAre: what there is, one kind after the other.                      *)
LEMMA FactsAre ==
  \A f : f \in Facts <=>
    \/ \E c \in live : f = <<"cluster", c, c>>
    \/ \E n \in NodeIds : owner[n] # None /\ f = <<"node", n, owner[n]>>
    \/ \E d \in DeviceIds : home[d] # None /\ f = <<"device", d, home[d]>>
    \/ \E v \in VolumeIds : volumeIn[v] # None /\ f = <<"volume", v, volumeIn[v]>>
  BY Zenon DEF Facts

(* NewFacts: what is added has an id that was not in use.                  *)
LEMMA NewFacts ==
  ASSUME IdsUsed, Changes, NEW f \in Facts', f \notin Facts
  PROVE  f[2] \notin used
<1>1. \/ \E c \in live' : f = <<"cluster", c, c>>
      \/ \E n \in NodeIds : owner'[n] # None /\ f = <<"node", n, owner'[n]>>
      \/ \E d \in DeviceIds : home'[d] # None /\ f = <<"device", d, home'[d]>>
      \/ \E v \in VolumeIds : volumeIn'[v] # None /\ f = <<"volume", v, volumeIn'[v]>>
  BY Zenon DEF Facts
<1>2. CASE \E c \in live' : f = <<"cluster", c, c>>
  <2>1. PICK c \in live' : f = <<"cluster", c, c>>
    BY <1>2, Zenon
  <2>2. c \notin live /\ f[2] = c
    BY <2>1, FactsAre, Zenon
  <2> QED  BY <2>2, Zenon DEF Changes
<1>3. CASE \E n \in NodeIds : owner'[n] # None /\ f = <<"node", n, owner'[n]>>
  <2>1. PICK n \in NodeIds : owner'[n] # None /\ f = <<"node", n, owner'[n]>>
    BY <1>3, Zenon
  <2>2. owner'[n] # owner[n] /\ f[2] = n
    BY <2>1, FactsAre, Zenon
  <2> QED  BY <2>1, <2>2, Zenon DEF Changes
<1>4. CASE \E d \in DeviceIds : home'[d] # None /\ f = <<"device", d, home'[d]>>
  <2>1. PICK d \in DeviceIds : home'[d] # None /\ f = <<"device", d, home'[d]>>
    BY <1>4, Zenon
  <2>2. home'[d] # home[d] /\ f[2] = d
    BY <2>1, FactsAre, Zenon
  <2> QED  BY <2>1, <2>2, Zenon DEF Changes
<1>5. CASE \E v \in VolumeIds : volumeIn'[v] # None /\ f = <<"volume", v, volumeIn'[v]>>
  <2>1. PICK v \in VolumeIds : volumeIn'[v] # None /\ f = <<"volume", v, volumeIn'[v]>>
    BY <1>5, Zenon
  <2>2. volumeIn'[v] # volumeIn[v] /\ f[2] = v
    BY <2>1, FactsAre, Zenon
  <2> QED  BY <2>1, <2>2, Zenon DEF Changes
<1> QED  BY <1>1, <1>2, <1>3, <1>4, <1>5, Zenon

(* FactsUsed: what there is has an id that is in use.                      *)
LEMMA FactsUsed == IdsUsed => \A f \in Facts : f[2] \in used
  BY DEF Facts, IdsUsed

(* InventoryStep: every step of the two commands and of other clients is a *)
(* request to the server, or leaves the inventory as it is.                *)
LEMMA InventoryStep ==
  ASSUME InventoryInv, IdsUsed, [ClientNext]_clientVars
  PROVE  InventoryInv' /\ IdsUsed' /\ Changes
<1>1. CASE UNCHANGED inventory
  BY <1>1, Zenon DEF inventory, InventoryInv, IdsUsed, Changes
<1>2. CASE LoadAnswered \/ LoadLost
  BY <1>2, CreateKeeps, Zenon DEF LoadAnswered, LoadLost
<1>3. CASE Other
  BY <1>3, CreateKeeps, DeleteKeeps, Zenon DEF Other
<1>4. LoadRefused \/ LoadEnds \/ Info \/ UNCHANGED clientVars => UNCHANGED inventory
  BY Zenon DEF LoadRefused, LoadEnds, Info, InfoCall, InfoAnswered, InfoFails, InfoEnds, clientVars
<1> QED  BY <1>1, <1>2, <1>3, <1>4, Zenon DEF ClientNext, Load

-----------------------------------------------------------------------------
(* topology info                                                           *)

(* The requests it makes after the list of the clusters.                   *)
Asks ==
  ({"cluster"} \X ClusterIds \X {None}) \cup ({"node"} \X NodeIds \X ClusterIds)
    \cup ({"volume"} \X VolumeIds \X ClusterIds)

(* The thing that a request asks for.                                      *)
Asked(t) == IF t[1] = "cluster" THEN <<"cluster", t[2], t[2]>> ELSE t

(* Its answer has f, or the requests that follow from it will.             *)
Brings(t, f) ==
  \/ f = Asked(t)
  \/ t[1] = "cluster" /\ f[1] \in {"node", "volume"} /\ f[3] = t[2]
  \/ t[1] = "cluster" /\ f[1] = "device" /\ owner[f[3]] = t[2]
  \/ t[1] = "node" /\ f[1] = "device" /\ f[3] = t[2]

(* The answer so far, and the requests still to make.                      *)
Progress ==
  /\ info.todo \in Seq(Asks)
  /\ \A t \in Range(info.todo) : Asked(t) \in seen
  /\ info.answer \subseteq seen
  /\ \A f \in kept : f \in info.answer \/ \E t \in Range(info.todo) : Brings(t, f)

InfoInv ==
  /\ faults \in Nat
  /\ info # None =>
       /\ Facts \subseteq seen /\ kept \subseteq Facts
       /\ \A f \in seen : f[2] \in used
       /\ info.result \in {"running", "nil", "error"}
       /\ info.result # "error" => Progress
       /\ info.result = "nil" => info.todo = <<>>
       /\ info.result = "error" /\ faults = 0 => \E f \in seen \ Facts : f[1] # "device"

(* BringsStill: a device stays on its node and the node in its cluster     *)
(* while the device is there.                                              *)
LEMMA BringsStill ==
  ASSUME InventoryInv, IdsUsed, InventoryInv', Changes,
         NEW f \in Facts, f \in Facts', NEW t \in Asks, Brings(t, f)
  PROVE  Brings(t, f)'
<1>1. CASE f[1] # "device"
  BY <1>1, Zenon DEF Brings, Asked
<1>2. CASE f[1] = "device"
  <2>1. PICK d \in DeviceIds : home[d] # None /\ f = <<"device", d, home[d]>>
    BY <1>2, FactsAre, SMTT(30)
  <2>2. PICK g \in DeviceIds : home'[g] # None /\ f = <<"device", g, home'[g]>>
    BY <1>2, SMTT(30) DEF Facts
  <2>3. g = d /\ f[3] = home[d] /\ home'[d] = home[d] /\ home[d] \in NodeIds
    BY <2>1, <2>2, SMTT(30) DEF InventoryInv
  <2>4. owner[home[d]] # None /\ owner'[home[d]] # None
    BY <2>1, <2>2, <2>3, Zenon DEF InventoryInv
  <2>5. owner'[home[d]] = owner[home[d]]
    BY <2>3, <2>4, Zenon DEF IdsUsed, Changes
  <2> QED  BY <2>3, <2>5, Zenon DEF Brings, Asked
<1> QED  BY <1>1, <1>2, Zenon

(* OtherStepKeeps: between two requests of topology info the inventory may *)
(* change; what it was told stays what was there at some time.             *)
LEMMA OtherStepKeeps ==
  ASSUME InfoInv, InventoryInv, IdsUsed, InventoryInv', IdsUsed', Changes,
         info' = info, faults' \in Nat, faults' = 0 => faults = 0, Observe
  PROVE  InfoInv'
<1> SUFFICES ASSUME info # None
             PROVE  /\ Facts' \subseteq seen' /\ kept' \subseteq Facts'
                    /\ \A f \in seen' : f[2] \in used'
                    /\ info.result # "error" => Progress'
                    /\ info.result = "error" /\ faults' = 0 =>
                         \E f \in seen' \ Facts' : f[1] # "device"
  BY Zenon DEF InfoInv
<1>1. /\ kept' = kept \cap Facts' /\ seen' = seen \cup Facts'
      /\ Facts \subseteq seen /\ kept \subseteq Facts /\ used \subseteq used'
      /\ \A f \in seen : f[2] \in used
  BY Zenon DEF Observe, InfoInv, Changes
<1>2. \A f \in seen' : f[2] \in used'
  <2>1. \A f \in Facts' : f[2] \in used'
    BY DEF Facts, IdsUsed
  <2> QED  BY <1>1, <2>1, Zenon
<1>3. ASSUME info.result # "error"
      PROVE  Progress'
  <2>1. Progress
    BY <1>3, Zenon DEF InfoInv
  <2>2. info.todo \in Seq(Asks) /\ \A t \in Range(info.todo) : t \in Asks
    BY <2>1 DEF Progress, Range
  <2>3. ASSUME NEW f \in kept'
        PROVE  f \in info.answer \/ \E t \in Range(info.todo) : Brings(t, f)'
    <3>1. f \in kept /\ f \in Facts /\ f \in Facts'
      BY <1>1, Zenon
    <3>2. CASE \E t \in Range(info.todo) : Brings(t, f)
      BY <2>2, <3>1, <3>2, BringsStill, Zenon
    <3> QED  BY <2>1, <3>1, <3>2, Zenon DEF Progress
  <2> QED  BY <1>1, <2>1, <2>2, <2>3, Zenon DEF Progress
<1>4. ASSUME info.result = "error", faults' = 0
      PROVE  \E f \in seen' \ Facts' : f[1] # "device"
  <2>1. PICK f \in seen \ Facts : f[1] # "device"
    BY <1>4, Zenon DEF InfoInv
  <2>2. f \notin Facts'
    BY <1>1, <2>1, NewFacts, Zenon
  <2> QED  BY <1>1, <2>1, <2>2, Zenon
<1> QED  BY <1>1, <1>2, <1>3, <1>4, Zenon

(* q asks for the things of a kind that c has, and for all of them.        *)
AsksFor(q, kind, ids, c) ==
  q \in Seq({kind} \X ids \X {c}) /\ Range(q) = {<<kind, x, c>> : x \in ids}

(* OrdersList: the requests for the things of a kind, all of them.         *)
LEMMA OrdersList ==
  ASSUME NEW kind, NEW ids, IsFiniteSet(ids), NEW c, NEW q \in Orders(kind, ids, c)
  PROVE  AsksFor(q, kind, ids, c)
<1>1. PICK s \in Bijection(1..Cardinality(ids), ids) : q = [i \in DOMAIN s |-> <<kind, s[i], c>>]
  BY Zenon DEF Orders
<1>2. s \in Seq(ids) /\ \A x \in ids : \E i \in DOMAIN s : s[i] = x
  BY OrderLists
<1>3. Len(s) \in Nat /\ DOMAIN s = 1..Len(s) /\ \A i \in 1..Len(s) : s[i] \in ids
  BY <1>2
<1>4. q = [i \in 1..Len(s) |-> <<kind, s[i], c>>]
  BY <1>1, <1>3, Zenon
<1>5. q \in Seq({kind} \X ids \X {c})
  BY <1>3, <1>4, SMTT(30)
<1>6. Range(q) = {<<kind, x, c>> : x \in ids}
  BY <1>2, <1>3, <1>4, Zenon DEF Range
<1> QED  BY <1>5, <1>6, Zenon DEF AsksFor

(* FiniteIds: what is listed is finite.                                    *)
LEMMA FiniteIds ==
  \A S : S \subseteq ClusterIds \/ S \subseteq NodeIds \/ S \subseteq VolumeIds => IsFiniteSet(S)
  BY TopologyClientAssumption, FS_Subset, Zenon

(* AsksMore: a list of requests of one kind is a list of requests.         *)
LEMMA AsksMore ==
  ASSUME NEW T \in SUBSET Asks, NEW q \in Seq(T)
  PROVE  q \in Seq(Asks)
  OBVIOUS

(* InfoCallKeeps: ClusterList.                                             *)
LEMMA InfoCallKeeps ==
  ASSUME InfoInv, InventoryInv, IdsUsed, InfoCall
  PROVE  InfoInv'
<1>0. /\ kept' = Facts /\ seen' = Facts /\ Facts' = Facts /\ used' = used /\ owner' = owner
      /\ faults \in Nat
  BY DEF InfoCall, inventory, Facts, InfoInv
<1>1. \A f \in seen' : f[2] \in used'
  BY <1>0, FactsUsed, Zenon
<1>2. CASE (\E todo \in Orders("cluster", live, None) :
             info' = [todo |-> todo, answer |-> {}, result |-> "running"]) /\ UNCHANGED faults
  <2>1. PICK todo \in Orders("cluster", live, None) :
             info' = [todo |-> todo, answer |-> {}, result |-> "running"]
    BY <1>2, Zenon
  <2>2. live \subseteq ClusterIds /\ IsFiniteSet(live)
    BY FiniteIds, Zenon DEF InventoryInv
  <2>3. /\ todo \in Seq({"cluster"} \X live \X {None})
        /\ Range(todo) = {<<"cluster", c, None>> : c \in live}
    <3>1. AsksFor(todo, "cluster", live, None)
      BY <2>2, OrdersList, Zenon
    <3> QED  BY <3>1, Zenon DEF AsksFor
  <2>4. todo \in Seq(Asks)
    <3>1. {"cluster"} \X live \X {None} \in SUBSET Asks
      BY <2>2, Zenon DEF Asks
    <3> QED  BY <2>3, <3>1, AsksMore, Zenon
  <2>5. \A t \in Range(todo) : Asked(t) \in Facts
    BY <2>3, FactsAre, SMTT(30) DEF Asked
  <2>6. ASSUME NEW f \in Facts
        PROVE  \E t \in Range(todo) : Brings(t, f)
    <3>1. ASSUME NEW c \in live
          PROVE  <<"cluster", c, None>> \in Range(todo)
      BY <2>3, Zenon
    <3>2. CASE \E c \in live : f = <<"cluster", c, c>>
      <4>1. PICK c \in live : f = <<"cluster", c, c>>
        BY <3>2, Zenon
      <4>2. Brings(<<"cluster", c, None>>, f)
        BY <4>1, Zenon DEF Brings, Asked
      <4> QED  BY <3>1, <4>2, Zenon
    <3>3. CASE \E n \in NodeIds : owner[n] # None /\ f = <<"node", n, owner[n]>>
      <4>1. PICK n \in NodeIds : owner[n] # None /\ f = <<"node", n, owner[n]>>
        BY <3>3, Zenon
      <4>2. owner[n] \in live /\ Brings(<<"cluster", owner[n], None>>, f)
        BY <4>1, Zenon DEF Brings, InventoryInv
      <4> QED  BY <3>1, <4>2, Zenon
    <3>4. CASE \E d \in DeviceIds : home[d] # None /\ f = <<"device", d, home[d]>>
      <4>1. PICK d \in DeviceIds : home[d] # None /\ f = <<"device", d, home[d]>>
        BY <3>4, Zenon
      <4>2. home[d] \in NodeIds /\ owner[home[d]] \in live
        BY <4>1, Zenon DEF InventoryInv
      <4>3. Brings(<<"cluster", owner[home[d]], None>>, f)
        BY <4>1, Zenon DEF Brings
      <4> QED  BY <3>1, <4>2, <4>3, Zenon
    <3>5. CASE \E v \in VolumeIds : volumeIn[v] # None /\ f = <<"volume", v, volumeIn[v]>>
      <4>1. PICK v \in VolumeIds : volumeIn[v] # None /\ f = <<"volume", v, volumeIn[v]>>
        BY <3>5, Zenon
      <4>2. volumeIn[v] \in live /\ Brings(<<"cluster", volumeIn[v], None>>, f)
        BY <4>1, Zenon DEF Brings, InventoryInv
      <4> QED  BY <3>1, <4>2, Zenon
    <3> QED  BY <3>2, <3>3, <3>4, <3>5, FactsAre, Zenon
  <2>7. info'.todo = todo /\ info'.answer = {} /\ info'.result = "running"
    BY <2>1, Zenon
  <2>8. \A f \in kept' : \E t \in Range(info'.todo) : Brings(t, f)'
    BY <1>0, <2>6, <2>7, SMTT(30) DEF Brings, Asked
  <2>9. Progress'
    BY <1>0, <2>4, <2>5, <2>7, <2>8, Zenon DEF Progress, Asked
  <2> QED  BY <1>0, <1>1, <1>2, <2>7, <2>9, Zenon DEF InfoInv
<1>3. CASE info' = [todo |-> <<>>, answer |-> {}, result |-> "error"] /\ Fault
  <2>1. faults' \in Nat /\ faults' # 0
    BY <1>0, <1>3, SMTT(30) DEF Fault
  <2>2. info'.result = "error"
    BY <1>3, Zenon
  <2> QED  BY <1>0, <1>1, <2>1, <2>2, Zenon DEF InfoInv
<1> QED  BY <1>2, <1>3, ZenonT(40) DEF InfoCall

(* InfoFailsKeeps: a request finds that what was listed before is gone.    *)
LEMMA InfoFailsKeeps ==
  ASSUME InfoInv, InventoryInv, InfoFails
  PROVE  InfoInv'
<1>0. /\ Facts' = Facts /\ used' = used /\ info # None /\ info.result = "running"
      /\ info.todo # <<>> /\ faults \in Nat /\ info'.result = "error"
  BY DEF InfoFails, inventory, Facts, InfoInv
<1>1. Facts \subseteq seen /\ kept \subseteq Facts /\ Progress /\ \A f \in seen : f[2] \in used
  BY <1>0, Zenon DEF InfoInv
<1>2. kept' = kept /\ seen' = seen
  <2>1. kept' = kept \cap Facts' /\ seen' = seen \cup Facts'
    BY <1>0, Zenon DEF InfoFails, Observe
  <2> QED  BY <1>0, <1>1, <2>1, Zenon
<1>3. CASE ~Found(Head(info.todo)[1], Head(info.todo)[2]) /\ UNCHANGED faults
  <2> DEFINE t == Head(info.todo)
  <2>1. t \in Asks /\ Asked(t) \in seen
    BY <1>0, <1>1, HeadElements, SMTT(30) DEF Progress
  <2> HIDE DEF t
  <2>2. ~Found(t[1], t[2])
    BY <1>3, Zenon DEF t
  <2>3. Asked(t)[1] # "device" /\ Asked(t) \notin Facts
    <3>1. CASE t \in {"cluster"} \X ClusterIds \X {None}
      <4>0. t[1] = "cluster"
        BY <3>1, Zenon
      <4>1. t[1] = "cluster" /\ t[2] \notin live
        BY <2>2, <4>0, Zenon DEF Found
      <4>2. Asked(t) = <<"cluster", t[2], t[2]>>
        BY <4>1, Zenon DEF Asked
      <4> QED  BY <4>1, <4>2, SMTT(30) DEF Facts
    <3>2. CASE t \in {"node"} \X NodeIds \X ClusterIds
      <4>0. t[1] = "node"
        BY <3>2, Zenon
      <4>1. Asked(t) = t /\ t[1] = "node" /\ owner[t[2]] = None
        BY <2>2, <4>0, Zenon DEF Found, Asked
      <4> QED  BY <3>2, <4>1, SMTT(30) DEF Facts
    <3>3. CASE t \in {"volume"} \X VolumeIds \X ClusterIds
      <4>1. Asked(t) = t /\ t[1] = "volume" /\ volumeIn[t[2]] = None
        BY <2>2, <3>3, Zenon DEF Found, Asked
      <4> QED  BY <3>3, <4>1, SMTT(30) DEF Facts
    <3> QED  BY <2>1, <3>1, <3>2, <3>3, Zenon DEF Asks
  <2> QED  BY <1>0, <1>1, <1>2, <1>3, <2>1, <2>3, Zenon DEF InfoInv
<1>4. CASE Fault
  <2>1. faults' \in Nat /\ faults' # 0
    BY <1>0, <1>4 DEF Fault
  <2> QED  BY <1>0, <1>1, <1>2, <2>1, Zenon DEF InfoInv
<1> QED  BY <1>3, <1>4, Zenon DEF InfoFails

(* InfoEndsKeeps: nothing is left to ask for.                              *)
LEMMA InfoEndsKeeps ==
  ASSUME InfoInv, InfoEnds
  PROVE  InfoInv'
<1>0. /\ Facts' = Facts /\ used' = used /\ owner' = owner /\ info # None /\ info.result = "running"
      /\ info.todo = <<>> /\ faults \in Nat /\ faults' = faults
      /\ info'.result = "nil" /\ info'.todo = info.todo /\ info'.answer = info.answer
  BY DEF InfoEnds, inventory, Facts, InfoInv
<1>1. Facts \subseteq seen /\ kept \subseteq Facts /\ Progress /\ \A f \in seen : f[2] \in used
  BY <1>0, Zenon DEF InfoInv
<1>2. kept' = kept /\ seen' = seen
  <2>1. kept' = kept \cap Facts' /\ seen' = seen \cup Facts'
    BY <1>0, Zenon DEF InfoEnds, Observe
  <2> QED  BY <1>0, <1>1, <2>1, Zenon
<1>3. Progress'
  BY <1>0, <1>1, <1>2, SMTT(30) DEF Progress, Brings, Asked
<1> QED  BY <1>0, <1>1, <1>2, <1>3, Zenon DEF InfoInv

(* InfoAnsweredKeeps: the answer to the first request on the list, and the *)
(* requests that follow from it. What the request was to bring is in the   *)
(* one or brought by the others.                                           *)
LEMMA InfoAnsweredKeeps ==
  ASSUME InfoInv, InventoryInv, InfoAnswered
  PROVE  InfoInv'
<1> DEFINE t == Head(info.todo)
           rest == Tail(info.todo)
<1>0. /\ Facts' = Facts /\ used' = used /\ owner' = owner /\ faults' = faults
      /\ info # None /\ info.result = "running" /\ info.todo # <<>> /\ faults \in Nat
      /\ info' # None => info'.result = "running"
  BY DEF InfoAnswered, inventory, Facts, InfoInv
<1>1. Facts \subseteq seen /\ kept \subseteq Facts /\ Progress /\ \A f \in seen : f[2] \in used
  BY <1>0, Zenon DEF InfoInv
<1>2. kept' = kept /\ seen' = seen
  <2>1. kept' = kept \cap Facts' /\ seen' = seen \cup Facts'
    BY <1>0, Zenon DEF InfoAnswered, Observe
  <2> QED  BY <1>0, <1>1, <2>1, Zenon
<1>3. /\ t \in Asks /\ rest \in Seq(Asks) /\ Range(info.todo) = {t} \cup Range(rest)
      /\ Asked(t) \in seen /\ \A u \in Range(rest) : Asked(u) \in seen
  BY <1>0, <1>1, HeadElements, SMTT(30) DEF Progress
<1>4. /\ Found(t[1], t[2])
      /\ info'.answer = info.answer \cup Adds(t[1], t[2], t[3])
      /\ t[1] = "cluster" => info'.todo \in AfterCluster(t[2])
      /\ t[1] # "cluster" => info'.todo = rest
  BY DEF InfoAnswered
<1> HIDE DEF t
<1>5. SUFFICES
        /\ info'.todo \in Seq(Asks)
        /\ \A u \in Range(info'.todo) : u \in Range(rest) \/ Asked(u) \in Facts
        /\ Range(rest) \subseteq Range(info'.todo)
        /\ Adds(t[1], t[2], t[3]) \subseteq Facts \cup {Asked(t)}
        /\ \A f \in Facts : Brings(t, f) =>
             f \in Adds(t[1], t[2], t[3]) \/ \E u \in Range(info'.todo) : Brings(u, f)
  <2>1. info'.answer \subseteq seen'
    BY <1>1, <1>2, <1>3, <1>4, <1>5, Zenon DEF Progress
  <2>2. \A u \in Range(info'.todo) : Asked(u) \in seen'
    BY <1>1, <1>2, <1>3, <1>5, Zenon
  <2>3. ASSUME NEW f \in kept
        PROVE  f \in info'.answer \/ \E u \in Range(info'.todo) : Brings(u, f)
    <3>1. f \in info.answer \/ Brings(t, f) \/ \E u \in Range(rest) : Brings(u, f)
      BY <1>1, <1>3, Zenon DEF Progress
    <3> QED  BY <1>1, <1>4, <1>5, <3>1, Zenon
  <2>4. \A u, f : Brings(u, f)' = Brings(u, f)
    BY <1>0 DEF Brings, Asked
  <2>5. Progress'
    BY <1>2, <1>5, <2>1, <2>2, <2>3, <2>4, Zenon DEF Progress, Asked
  <2> QED  BY <1>0, <1>1, <1>2, <2>5, Zenon DEF InfoInv
<1> HIDE DEF rest
<1>6. CASE t \in {"node"} \X NodeIds \X ClusterIds
  <2>1. t[1] = "node" /\ Asked(t) = t
    BY <1>6, Zenon DEF Asked
  <2>2. Adds(t[1], t[2], t[3])
          = {<<"node", t[2], t[3]>>} \cup {<<"device", d, t[2]>> : d \in {e \in DeviceIds : home[e] = t[2]}}
    BY <2>1, Zenon DEF Adds, NodeInfo
  <2>3. t = <<"node", t[2], t[3]>> /\ t[2] # None
    BY <1>6, NoneApart
  <2>4. Adds(t[1], t[2], t[3]) \subseteq Facts \cup {Asked(t)}
    BY <2>1, <2>2, <2>3, Zenon DEF Facts
  <2>5. ASSUME NEW f \in Facts, Brings(t, f)
        PROVE  f \in Adds(t[1], t[2], t[3])
    <3>1. CASE f = t
      BY <2>2, <2>3, <3>1, Zenon
    <3>2. CASE f[1] = "device" /\ f[3] = t[2]
      <4>1. PICK d \in DeviceIds : home[d] # None /\ f = <<"device", d, home[d]>>
        BY <3>2, FactsAre, SMTT(30)
      <4> QED  BY <2>2, <3>2, <4>1, Zenon
    <3> QED  BY <2>1, <2>5, <3>1, <3>2, Zenon DEF Brings
  <2>6. info'.todo = rest
    BY <1>4, <2>1, Zenon
  <2> QED  BY <1>3, <2>4, <2>5, <2>6, Zenon
<1>7. CASE t \in {"volume"} \X VolumeIds \X ClusterIds
  <2>1. t[1] = "volume" /\ Asked(t) = t /\ t = <<"volume", t[2], t[3]>>
    BY <1>7 DEF Asked
  <2>2. Adds(t[1], t[2], t[3]) = IF volumeIn[t[2]] = t[3] THEN {<<"volume", t[2], t[3]>>} ELSE {}
    BY <2>1, Zenon DEF Adds, VolumeInfo
  <2>3. ASSUME NEW f \in Facts, Brings(t, f)
        PROVE  f \in Adds(t[1], t[2], t[3])
    <3>1. f = t
      BY <2>1, <2>3, Zenon DEF Brings
    <3>2. PICK v \in VolumeIds : volumeIn[v] # None /\ f = <<"volume", v, volumeIn[v]>>
      BY <2>1, <3>1, FactsAre, SMTT(30)
    <3> QED  BY <2>1, <2>2, <3>1, <3>2, SMTT(30)
  <2>4. info'.todo = rest
    BY <1>4, <2>1, Zenon
  <2> QED  BY <1>3, <2>1, <2>2, <2>3, <2>4, Zenon
<1>8. CASE t \in {"cluster"} \X ClusterIds \X {None}
  <2> DEFINE x == t[2]
             V == {v \in VolumeIds : volumeIn[v] = x}
             N == {n \in NodeIds : owner[n] = x}
  <2>1. t[1] = "cluster" /\ Asked(t) = <<"cluster", x, x>> /\ x \in ClusterIds /\ x # None
    BY <1>8, NoneApart, Zenon DEF Asked
  <2>2. x \in live
    BY <1>4, <2>1, Zenon DEF Found
  <2>3. Adds(t[1], t[2], t[3]) = {<<"cluster", x, x>>}
    BY <2>1, Zenon DEF Adds
  <2>4. ClusterInfo(x).volumes = V /\ ClusterInfo(x).nodes = N
    BY Zenon DEF ClusterInfo
  <2> HIDE DEF x
  <2>5. PICK vs \in Orders("volume", V, x), ns \in Orders("node", N, x) :
               info'.todo = vs \o ns \o rest
    <3> HIDE DEF V, N
    <3> DEFINE A == Orders("volume", ClusterInfo(x).volumes, x)
               B == Orders("node", ClusterInfo(x).nodes, x)
               R(vs, ns) == vs \o ns \o Tail(info.todo)
    <3>1. info'.todo \in AfterCluster(x)
      BY <1>4, <2>1, Zenon DEF x
    <3>2. info'.todo \in UNION {{R(vs, ns) : ns \in B} : vs \in A}
      BY <3>1, Zenon DEF AfterCluster
    <3> HIDE DEF A, B, R
    <3>3. \E vs \in A, ns \in B : info'.todo = R(vs, ns)
      BY <3>2, Zenon
    <3>4. A = Orders("volume", V, x) /\ B = Orders("node", N, x)
      BY <2>4, Zenon DEF A, B
    <3>5. \A vs, ns : R(vs, ns) = vs \o ns \o rest
      BY Zenon DEF R, rest
    <3> QED  BY <3>3, <3>4, <3>5, Zenon
  <2>6. IsFiniteSet(V) /\ IsFiniteSet(N)
    BY FiniteIds, Zenon
  <2>7. AsksFor(vs, "volume", V, x) /\ AsksFor(ns, "node", N, x)
    <3> HIDE DEF V, N
    <3>1. AsksFor(vs, "volume", V, x)
      BY <2>6, OrdersList, Zenon
    <3>2. AsksFor(ns, "node", N, x)
      BY <2>6, OrdersList, Zenon
    <3> QED  BY <3>1, <3>2, Zenon
  <2>8. vs \in Seq(Asks) /\ ns \in Seq(Asks)
    <3>1. {"volume"} \X V \X {x} \in SUBSET Asks /\ {"node"} \X N \X {x} \in SUBSET Asks
      BY <2>1, Zenon DEF Asks
    <3>2. vs \in Seq({"volume"} \X V \X {x}) /\ ns \in Seq({"node"} \X N \X {x})
      BY <2>7, Zenon DEF AsksFor
    <3> HIDE DEF V, N
    <3> QED  BY <3>1, <3>2, AsksMore, Zenon
  <2>9. /\ info'.todo \in Seq(Asks)
        /\ Range(info'.todo) = Range(vs) \cup Range(ns) \cup Range(rest)
    <3> DEFINE w == vs \o ns
    <3>1. w \in Seq(Asks) /\ Range(w) = Range(vs) \cup Range(ns)
      BY <2>8, JoinedElements
    <3>2. info'.todo = w \o rest
      BY <2>5, Zenon
    <3> HIDE DEF w
    <3>3. w \o rest \in Seq(Asks) /\ Range(w \o rest) = Range(w) \cup Range(rest)
      BY <1>3, <3>1, JoinedElements, SMTT(30)
    <3> QED  BY <3>1, <3>2, <3>3, SMTT(30)
  <2>10. Range(vs) = {<<"volume", v, x>> : v \in V} /\ Range(ns) = {<<"node", n, x>> : n \in N}
    BY <2>7, Zenon DEF AsksFor
  <2>11. \A u \in Range(info'.todo) : u \in Range(rest) \/ Asked(u) \in Facts
    <3>1. ASSUME NEW v \in V
          PROVE  Asked(<<"volume", v, x>>) \in Facts
      BY <2>1, Zenon DEF Asked, Facts
    <3>2. ASSUME NEW n \in N
          PROVE  Asked(<<"node", n, x>>) \in Facts
      BY <2>1, Zenon DEF Asked, Facts
    <3> HIDE DEF V, N
    <3> QED  BY <2>9, <2>10, <3>1, <3>2, SMTT(30)
  <2>12. ASSUME NEW f \in Facts, Brings(t, f)
         PROVE  f \in {<<"cluster", x, x>>} \/ \E u \in Range(info'.todo) : Brings(u, f)
    <3>1. CASE f = <<"cluster", x, x>>
      BY <3>1, Zenon
    <3>2. CASE f[1] = "node" /\ f[3] = x
      <4>1. PICK n \in NodeIds : owner[n] # None /\ f = <<"node", n, owner[n]>>
        BY <3>2, FactsAre, SMTT(30)
      <4>2. n \in N /\ Brings(<<"node", n, x>>, f)
        BY <3>2, <4>1, Zenon DEF Brings, Asked
      <4> HIDE DEF N
      <4> QED  BY <2>9, <2>10, <4>2, Zenon
    <3>3. CASE f[1] = "volume" /\ f[3] = x
      <4>1. PICK v \in VolumeIds : volumeIn[v] # None /\ f = <<"volume", v, volumeIn[v]>>
        BY <3>3, FactsAre, SMTT(30)
      <4>2. v \in V /\ Brings(<<"volume", v, x>>, f)
        BY <3>3, <4>1, Zenon DEF Brings, Asked
      <4> HIDE DEF V
      <4> QED  BY <2>9, <2>10, <4>2, Zenon
    <3>4. CASE f[1] = "device" /\ owner[f[3]] = x
      <4>1. PICK d \in DeviceIds : home[d] # None /\ f = <<"device", d, home[d]>>
        BY <3>4, FactsAre, SMTT(30)
      <4>2. home[d] \in N /\ Brings(<<"node", home[d], x>>, f)
        BY <3>4, <4>1, Zenon DEF Brings, InventoryInv
      <4> HIDE DEF N
      <4> QED  BY <2>9, <2>10, <4>2, Zenon
    <3> QED  BY <2>1, <2>12, <3>1, <3>2, <3>3, <3>4, SMTT(30) DEF Brings, x
  <2>13. {<<"cluster", x, x>>} \subseteq Facts \cup {Asked(t)}
    BY <2>1, Zenon
  <2>14. Range(rest) \subseteq Range(info'.todo)
    BY <2>9, Zenon
  <2> HIDE DEF V, N
  <2> QED  BY <2>3, <2>9, <2>11, <2>12, <2>13, <2>14, Zenon
<1> QED  BY <1>3, <1>6, <1>7, <1>8, Zenon DEF Asks

-----------------------------------------------------------------------------
(* What holds of the inventory and of topology info together.              *)
ReadInv == InventoryInv /\ IdsUsed /\ InfoInv

(* ReadStarts: nothing is used, asked for or answered at the start.        *)
LEMMA ReadStarts == ClientInit => ReadInv
  BY NoneApart DEF ClientInit, Init, ReadInv, InventoryInv, IdsUsed, InfoInv

(* ReadStepKeeps: the steps of topology info, and those of the others      *)
(* between them.                                                           *)
LEMMA ReadStepKeeps ==
  ASSUME ReadInv, [ClientNext]_clientVars
  PROVE  ReadInv'
<1>1. InventoryInv /\ IdsUsed /\ InfoInv
  BY Zenon DEF ReadInv
<1>2. InventoryInv' /\ IdsUsed' /\ Changes
  BY <1>1, InventoryStep, Zenon
<1>3. CASE Info
  BY <1>1, <1>2, <1>3, InfoCallKeeps, InfoAnsweredKeeps, InfoFailsKeeps, InfoEndsKeeps, Zenon
     DEF Info, ReadInv
<1>4. CASE Load \/ Other
  <2>1. info' = info /\ Observe
    BY <1>4, Zenon DEF Load, LoadAnswered, LoadLost, LoadRefused, LoadEnds, Other
  <2>2. faults \in Nat /\ (faults' = faults \/ Fault)
    <3>1. LoadRefused \/ Other \/ LoadEnds => faults' = faults \/ Fault
      BY Zenon DEF LoadRefused, LoadEnds, Other
    <3>2. LoadAnswered \/ LoadLost => faults' = faults \/ Fault
      BY Zenon DEF LoadAnswered, LoadLost
    <3> QED  BY <1>1, <1>4, <3>1, <3>2, SMTT(30) DEF InfoInv, Load
  <2>3. faults' \in Nat /\ (faults' = 0 => faults = 0)
    BY <2>2, SMTT(30) DEF Fault
  <2> QED  BY <1>1, <1>2, <2>1, <2>3, OtherStepKeeps, Zenon DEF ReadInv
<1>5. CASE UNCHANGED clientVars
  <2>1. /\ info' = info /\ kept' = kept /\ seen' = seen /\ used' = used /\ faults' = faults
        /\ live' = live /\ owner' = owner /\ home' = home /\ volumeIn' = volumeIn
    BY <1>5, Zenon DEF clientVars, inventory
  <2>2. Facts' = Facts
    BY <2>1, Zenon DEF Facts
  <2>3. \A t, f : Brings(t, f)' <=> Brings(t, f)
    BY <2>1 DEF Brings
  <2>4. Progress' <=> Progress
    BY <2>1, <2>3, Zenon DEF Progress, Asked
  <2>5. InfoInv'
    BY <1>1, <2>1, <2>2, <2>4, Zenon DEF InfoInv
  <2> QED  BY <1>2, <2>5, Zenon DEF ReadInv
<1> QED  BY <1>3, <1>4, <1>5, Zenon DEF ClientNext

(* InfoIsExact: what topology info answers, whatever the other clients     *)
(* change between its requests and in whatever order the ids are listed.   *)
THEOREM InfoIsExact == ClientSpec => []InfoExact
<1>1. ReadInv => InfoExact
  <2> SUFFICES ASSUME ReadInv, info # None, info.result = "nil"
               PROVE  kept \subseteq info.answer /\ info.answer \subseteq seen
    BY Zenon DEF InfoExact
  <2>1. Progress /\ info.todo = <<>>
    BY Zenon DEF ReadInv, InfoInv
  <2>2. Range(info.todo) = {}
    BY <2>1, SMTT(30) DEF Range
  <2> QED  BY <2>1, <2>2, Zenon DEF Progress
<1> QED  BY <1>1, ReadStarts, ReadStepKeeps, PTL DEF ClientSpec

(* InfoFailureHasReason: when topology info fails though every request was *)
(* answered, a cluster, a node or a volume that it was told of is gone.    *)
THEOREM InfoFailureHasReason == ClientSpec => []InfoFailure
<1>1. ReadInv => InfoFailure
  BY Zenon DEF ReadInv, InfoInv, InfoFailure
<1> QED  BY <1>1, ReadStarts, ReadStepKeeps, PTL DEF ClientSpec
=============================================================================
