-------------------------- MODULE PlacementProofs --------------------------
(***************************************************************************)
(* Proofs about Placement for any number of workers, handlers, devices and *)
(* sets of bricks.                                                         *)
(*                                                                         *)
(* OfferedOnce is about the set a worker is placing; to be kept it needs   *)
(* what the generator of that set has told by now, that the sets to come   *)
(* have none yet, and that done is closed only behind the last device. The *)
(* two locks have an invariant of their own.                               *)
(***************************************************************************)
EXTENDS Placement, TLAPS

Places == {"list", "copy", "begin", "range", "commit", "rollback", "return", "undo", "gone",
           "change"}

Generators == [at : {"select", "report", "close", "ended"}, next : Nat]

(* The values of the variables.                                            *)
TypeOK ==
  /\ ring \in BOOLEAN
  /\ pc \in [Workers \cup Handlers -> Places]
  /\ set \in [Workers -> 1..Sets]
  /\ placed \in [Workers -> Seq(Nat)]
  /\ e \in [Workers -> BOOLEAN]
  /\ gen \in [Workers -> [1..Sets -> Generators]]
  /\ errc \in [Workers -> [1..Sets -> {<<>>, <<"nil">>, <<"ErrNotFound">>}]]
  /\ device \in [Workers -> [1..Sets -> {"open", "closed"}]]
  /\ done \in [Workers -> [1..Sets -> {"open", "closed"}]]

(* A set for which GetNodes has not been called.                           *)
Untried(w, s) ==
  gen[w][s] = NoGenerator /\ errc[w][s] = <<>> /\ device[w][s] = "open" /\ done[w][s] = "open"

(* What generator, errc and device of a set that is being placed agree on: *)
(* a generator that has stopped has offered the whole list, and without    *)
(* one errc holds the reason.                                              *)
Offers(w, s) ==
  /\ gen[w][s].next >= 1
  /\ gen[w][s].at \in {"report", "close"} => gen[w][s].next > Len(Devices)
  /\ gen[w][s].at \in {"select", "report", "close"} => device[w][s] = "open"
  /\ gen[w][s].at = "ended" =>
       /\ device[w][s] = "closed"
       /\ gen[w][s].next > Len(Devices) \/ errc[w][s] = <<"ErrNotFound">>

(* A generator finds room in errc.                                         *)
RoomToReport(w, s) == gen[w][s].at \in {"select", "report"} => errc[w][s] = <<>>

WorkerInv(w) ==
  /\ \A s \in 1..Sets : s > set[w] => Untried(w, s)
  /\ pc[w] \in {"list", "copy"} => Untried(w, set[w]) /\ placed[w] = <<>>
  /\ pc[w] \in {"begin", "range", "commit"} =>
       /\ Offers(w, set[w])
       /\ \A i \in DOMAIN placed[w] : placed[w][i] < gen[w][set[w]].next
  /\ pc[w] \notin {"undo", "gone"} => \A s \in 1..Sets : done[w][s] = "open"
  /\ \A i, j \in DOMAIN placed[w] : i < j => placed[w][i] < placed[w][j]
  /\ \A s \in 1..Sets : RoomToReport(w, s)

IInv == TypeOK /\ \A w \in Workers : WorkerInv(w)

(* Who is inside a write transaction, and who is inside the allocator.     *)
Writing(t) == pc[t] \in IF t \in Workers THEN {"range", "commit", "rollback"}
                                         ELSE {"change", "commit"}
Listing(t) == pc[t] = IF t \in Workers THEN "copy" ELSE "commit"

(* Each lock is with the goroutine that is inside it, and with no other.   *)
LocksMatch ==
  \A t \in Workers \cup Handlers : (writer = t <=> Writing(t)) /\ (lock = t <=> Listing(t))

-----------------------------------------------------------------------------
(* Typing                                                                  *)

(* UpdateTyped: what changes when one set of one worker does.              *)
LEMMA UpdateTyped ==
  ASSUME NEW S, NEW f \in [Workers -> [1..Sets -> S]], NEW w \in Workers, NEW s \in 1..Sets,
         NEW x \in S, NEW g, g = [f EXCEPT ![w][s] = x]
  PROVE  /\ g \in [Workers -> [1..Sets -> S]]
         /\ g[w][s] = x
         /\ \A r \in 1..Sets \ {s} : g[w][r] = f[w][r]
         /\ \A q \in Workers \ {w} : g[q] = f[q]
  BY Zenon

(* GeneratorSteps: a generator stays one when it moves on.                 *)
LEMMA GeneratorSteps ==
  ASSUME NEW g \in Generators
  PROVE  /\ g.next \in Nat
         /\ LET n == [g EXCEPT !.next = @ + 1]
            IN  n \in Generators /\ n.at = g.at /\ n.next = g.next + 1
         /\ \A to \in {"report", "close", "ended"} :
              LET m == [g EXCEPT !.at = to]
              IN  m \in Generators /\ m.at = to /\ m.next = g.next
  BY DEF Generators

(* Starter: GetNodes starts a generator at the first device.               *)
LEMMA Starter == [at |-> "select", next |-> 1] \in Generators
  BY Zenon DEF Generators

(* InitTyped: the goroutines start without generators.                     *)
LEMMA InitTyped == Init => TypeOK
  BY PlacementAssumption DEF Init, TypeOK, Places, Generators, NoGenerator, Each

(* WorkerTyped: the steps of a placing goroutine keep the typing.          *)
LEMMA WorkerTyped ==
  ASSUME TypeOK, NEW w \in Workers, Worker(w)
  PROVE  TypeOK'
<1> USE DEF Move, Update, lockVars, workVars, chanVars
<1>n. Sets \in Nat \ {0} /\ BricksInSet \in Nat \ {0}
  BY PlacementAssumption, Zenon
<1>p. pc \in [Workers \cup Handlers -> Places] /\ set \in [Workers -> 1..Sets]
  BY Zenon DEF TypeOK
<1>g. gen \in [Workers -> [1..Sets -> Generators]]
  BY Zenon DEF TypeOK
<1>s. set[w] \in 1..Sets
  BY <1>n, <1>p, Zenon
<1>1. CASE TakeLock(w)
  BY <1>1, Zenon DEF TypeOK, TakeLock, Places
<1>2. CASE GetNodes(w)
  <2>2. gen' \in [Workers -> [1..Sets -> Generators]]
    <3>1. gen' = gen \/ gen' = [gen EXCEPT ![w][set[w]] = [at |-> "select", next |-> 1]]
      BY <1>2, Zenon DEF GetNodes
    <3>2. CASE gen' = [gen EXCEPT ![w][set[w]] = [at |-> "select", next |-> 1]]
      BY <1>s, <1>g, <3>2, Starter, UpdateTyped, Zenon
    <3> QED  BY <1>g, <3>1, <3>2, Zenon
  <2>3. errc' \in [Workers -> [1..Sets -> {<<>>, <<"nil">>, <<"ErrNotFound">>}]]
    <3>1. errc \in [Workers -> [1..Sets -> {<<>>, <<"nil">>, <<"ErrNotFound">>}]]
      BY Zenon DEF TypeOK
    <3>2. errc' = errc \/ errc' = [errc EXCEPT ![w][set[w]] = <<"ErrNotFound">>]
      BY <1>2, Zenon DEF GetNodes
    <3>3. CASE errc' = [errc EXCEPT ![w][set[w]] = <<"ErrNotFound">>]
      BY <1>s, <3>1, <3>3, UpdateTyped, Zenon
    <3> QED  BY <3>1, <3>2, <3>3, Zenon
  <2>4. device' \in [Workers -> [1..Sets -> {"open", "closed"}]]
    <3>1. device \in [Workers -> [1..Sets -> {"open", "closed"}]]
      BY Zenon DEF TypeOK
    <3>2. device' = device \/ device' = [device EXCEPT ![w][set[w]] = "closed"]
      BY <1>2, Zenon DEF GetNodes
    <3>3. CASE device' = [device EXCEPT ![w][set[w]] = "closed"]
      BY <1>s, <3>1, <3>3, UpdateTyped, Zenon
    <3> QED  BY <3>1, <3>2, <3>3, Zenon
  <2>5. pc' \in [Workers \cup Handlers -> Places]
    BY <1>2, <1>p, Zenon DEF GetNodes, Places
  <2> QED  BY <1>2, <2>2, <2>3, <2>4, <2>5, Zenon DEF GetNodes, TypeOK
<1>3. CASE Begin(w)
  BY <1>3, Zenon DEF TypeOK, Begin, Places
<1>4. CASE Receive(w)
  <2>0. gen[w][set[w]] \in Generators
    BY <1>n, <1>p, <1>g, Zenon
  <2>1. [gen[w][set[w]] EXCEPT !.next = @ + 1] \in Generators /\ gen[w][set[w]].next \in Nat
    BY <2>0, GeneratorSteps, Zenon
  <2>2. gen' \in [Workers -> [1..Sets -> Generators]]
    BY <1>4, <1>p, <1>g, <2>1, UpdateTyped, Zenon DEF Receive
  <2>3. placed' \in [Workers -> Seq(Nat)]
    <3>1. Append(placed[w], gen[w][set[w]].next) \in Seq(Nat)
      BY <2>1 DEF TypeOK
    <3> QED  BY <1>4, <3>1, Zenon DEF Receive, TypeOK
  <2>4. pc' \in [Workers \cup Handlers -> Places] /\ e' \in [Workers -> BOOLEAN]
    BY <1>4, <1>p, Zenon DEF Receive, Places, TypeOK
  <2> QED  BY <1>4, <2>2, <2>3, <2>4, Zenon DEF Receive, TypeOK
<1>5. CASE Exhausted(w)
  <2>1. errc' \in [Workers -> [1..Sets -> {<<>>, <<"nil">>, <<"ErrNotFound">>}]]
    <3>1. errc \in [Workers -> [1..Sets -> {<<>>, <<"nil">>, <<"ErrNotFound">>}]]
      BY Zenon DEF TypeOK
    <3> QED  BY <1>5, <1>p, <3>1, UpdateTyped, Zenon DEF Exhausted
  <2>2. pc' \in [Workers \cup Handlers -> Places] /\ e' \in [Workers -> BOOLEAN]
    BY <1>5, <1>p, Zenon DEF Exhausted, Places, TypeOK
  <2> QED  BY <1>5, <2>1, <2>2, Zenon DEF Exhausted, TypeOK
<1>6. CASE Commit(w)
  <2>1. set' \in [Workers -> 1..Sets]
    BY <1>n, <1>p, <1>6, SMTT(30) DEF Commit
  <2>2. placed' \in [Workers -> Seq(Nat)]
    <3>1. placed \in [Workers -> Seq(Nat)] /\ <<>> \in Seq(Nat)
      BY DEF TypeOK
    <3> QED  BY <1>6, <3>1, Zenon DEF Commit
  <2>3. pc' \in [Workers \cup Handlers -> Places]
    BY <1>p, <1>6, Zenon DEF Commit, NextBrick, Places
  <2> QED  BY <1>6, <2>1, <2>2, <2>3, Zenon DEF Commit, TypeOK
<1>7. CASE Rollback(w)
  BY <1>7, Zenon DEF TypeOK, Rollback, Places
<1>8. CASE Return(w)
  <2>1. done' \in [Workers -> [1..Sets -> {"open", "closed"}]]
    BY <1>8, Zenon DEF TypeOK, Return
  <2>2. pc' \in [Workers \cup Handlers -> Places]
    BY <1>p, <1>8, Zenon DEF Return, Places
  <2> QED  BY <1>8, <2>1, <2>2, Zenon DEF Return, TypeOK
<1>9. CASE Undo(w)
  BY <1>9, Zenon DEF TypeOK, Undo, Places
<1> QED  BY <1>1, <1>2, <1>3, <1>4, <1>5, <1>6, <1>7, <1>8, <1>9, Zenon DEF Worker

(* GeneratorTyped: so do the steps of a generator.                         *)
LEMMA GeneratorTyped ==
  ASSUME TypeOK, NEW w \in Workers, NEW s \in 1..Sets, Generator(w, s)
  PROVE  TypeOK'
<1>g. gen \in [Workers -> [1..Sets -> Generators]]
  BY Zenon DEF TypeOK
<1>0. \A to \in {"report", "close", "ended"} : [gen[w][s] EXCEPT !.at = to] \in Generators
  <2>1. gen[w][s] \in Generators
    BY <1>g, PlacementAssumption, Zenon
  <2> QED  BY <2>1, GeneratorSteps, Zenon
<1>1. CASE Stop(w, s)
  <2>1. gen' \in [Workers -> [1..Sets -> Generators]]
    BY <1>0, <1>1, <1>g, UpdateTyped, Zenon DEF Stop
  <2> QED  BY <1>1, <2>1, Zenon DEF Stop, TypeOK, lockVars, workVars, chanVars
<1>2. CASE Report(w, s)
  <2>1. gen' \in [Workers -> [1..Sets -> Generators]]
    BY <1>0, <1>2, <1>g, UpdateTyped, Zenon DEF Report
  <2>2. errc' \in [Workers -> [1..Sets -> {<<>>, <<"nil">>, <<"ErrNotFound">>}]]
    BY <1>2, Zenon DEF Report, TypeOK
  <2> QED  BY <1>2, <2>1, <2>2, Zenon DEF Report, TypeOK, lockVars, workVars
<1>3. CASE Close(w, s)
  <2>1. gen' \in [Workers -> [1..Sets -> Generators]]
    BY <1>0, <1>3, <1>g, UpdateTyped, Zenon DEF Close
  <2>2. device' \in [Workers -> [1..Sets -> {"open", "closed"}]]
    BY <1>3, Zenon DEF Close, TypeOK
  <2> QED  BY <1>3, <2>1, <2>2, Zenon DEF Close, TypeOK, lockVars, workVars
<1> QED  BY <1>1, <1>2, <1>3, Zenon DEF Generator

(* HandlerTyped: and those of a request that changes the ring.             *)
LEMMA HandlerTyped ==
  ASSUME TypeOK, NEW h \in Handlers, Handler(h)
  PROVE  TypeOK'
  BY Zenon DEF TypeOK, Handler, HandlerWaits, HandlerLocks, HandlerEnds, Move, Places, workVars,
         chanVars, lockVars

-----------------------------------------------------------------------------
(* The generators                                                          *)

(* What WorkerInv says of a worker is left alone.                          *)
Untouched(q) ==
  /\ pc'[q] = pc[q] /\ set'[q] = set[q] /\ placed'[q] = placed[q]
  /\ gen'[q] = gen[q] /\ errc'[q] = errc[q] /\ device'[q] = device[q] /\ done'[q] = done[q]

(* UntouchedKept: then it still holds.                                     *)
LEMMA UntouchedKept ==
  ASSUME NEW q \in Workers, WorkerInv(q), Untouched(q)
  PROVE  WorkerInv(q)'
  BY DEF WorkerInv, Untouched, Untried, Offers, RoomToReport

(* OthersAlone: a placing goroutine and its generators leave the other     *)
(* workers alone.                                                          *)
LEMMA OthersAlone ==
  ASSUME TypeOK, NEW w \in Workers, NEW q \in Workers \ {w},
         Worker(w) \/ \E s \in 1..Sets : Generator(w, s)
  PROVE  Untouched(q)
<1>t. /\ pc \in [Workers \cup Handlers -> Places] /\ set \in [Workers -> 1..Sets]
      /\ placed \in [Workers -> Seq(Nat)]
      /\ gen \in [Workers -> [1..Sets -> Generators]]
      /\ errc \in [Workers -> [1..Sets -> {<<>>, <<"nil">>, <<"ErrNotFound">>}]]
      /\ device \in [Workers -> [1..Sets -> {"open", "closed"}]]
      /\ done \in [Workers -> [1..Sets -> {"open", "closed"}]]
  BY Zenon DEF TypeOK
<1>1. CASE TakeLock(w) \/ GetNodes(w) \/ Begin(w) \/ Rollback(w) \/ Undo(w)
  BY <1>t, <1>1, Zenon DEF TakeLock, GetNodes, Begin, Rollback, Undo, Untouched, Move, Update, lockVars,
                    workVars, chanVars
<1>2. CASE Receive(w)
  BY <1>t, <1>2, Zenon DEF Receive, Untouched, Move, Update, lockVars, chanVars
<1>3. CASE Exhausted(w)
  BY <1>t, <1>3, Zenon DEF Exhausted, Untouched, Move, Update, lockVars
<1>4. CASE Commit(w)
  BY <1>t, <1>4, Zenon DEF Commit, Untouched, Move, chanVars
<1>5. CASE Return(w)
  BY <1>t, <1>5, Zenon DEF Return, Untouched, Move, lockVars, workVars
<1>6. ASSUME NEW s \in 1..Sets, Generator(w, s)
      PROVE  Untouched(q)
  BY <1>t, <1>6 DEF Generator, Stop, Report, Close, Untouched, lockVars, workVars, chanVars
<1> QED  BY <1>1, <1>2, <1>3, <1>4, <1>5, <1>6, Zenon DEF Worker

(* HandlersAlone: a request that changes the ring leaves them all alone.   *)
LEMMA HandlersAlone ==
  ASSUME TypeOK, NEW h \in Handlers, NEW q \in Workers, Handler(h)
  PROVE  Untouched(q)
<1>1. pc \in [Workers \cup Handlers -> Places] /\ q # h
  BY PlacementAssumption, Zenon DEF TypeOK
<1> QED  BY <1>1, Zenon DEF Handler, HandlerWaits, HandlerLocks, HandlerEnds, Untouched, Move, workVars,
                     chanVars

(* InitInv: no set has been tried.                                         *)
LEMMA InitInv == Init => \A w \in Workers : WorkerInv(w)
<1> SUFFICES ASSUME Init, NEW w \in Workers
             PROVE  WorkerInv(w)
  BY Zenon
<1>1. /\ pc[w] = "list" /\ set[w] = 1 /\ placed[w] = <<>>
      /\ \A s \in 1..Sets : Untried(w, s)
  BY Zenon DEF Init, Each, Untried
<1>2. 1 \in 1..Sets
  BY PlacementAssumption
<1> QED  BY <1>1, <1>2 DEF WorkerInv, RoomToReport, Untried, NoGenerator

(* GeneratorKeeps: a generator moves only for a set that has been tried,   *)
(* and before its worker returns it stops only behind the last device.     *)
LEMMA GeneratorKeeps ==
  ASSUME TypeOK, NEW w \in Workers, WorkerInv(w), NEW s \in 1..Sets, Generator(w, s)
  PROVE  WorkerInv(w)'
<1>n. Sets \in Nat \ {0} /\ Len(Devices) \in Nat
  BY PlacementAssumption
<1>t. /\ set[w] \in 1..Sets
      /\ gen[w] \in [1..Sets -> Generators]
      /\ errc[w] \in [1..Sets -> {<<>>, <<"nil">>, <<"ErrNotFound">>}]
      /\ device[w] \in [1..Sets -> {"open", "closed"}]
  BY <1>n, Zenon DEF TypeOK
<1>f. /\ gen \in [Workers -> [1..Sets -> Generators]]
      /\ errc \in [Workers -> [1..Sets -> {<<>>, <<"nil">>, <<"ErrNotFound">>}]]
      /\ device \in [Workers -> [1..Sets -> {"open", "closed"}]]
  BY Zenon DEF TypeOK
<1>g. /\ \A to \in {"report", "close", "ended"} :
           LET m == [gen[w][s] EXCEPT !.at = to]
           IN  m \in Generators /\ m.at = to /\ m.next = gen[w][s].next
      /\ gen[w][s].next \in Nat
  BY <1>t, GeneratorSteps, Zenon
<1>a. gen[w][s].at # "ended"
  BY <1>t, <1>n, Zenon DEF Generator, Stop, Report, Close
<1>b. pc[w] \notin {"list", "copy"} \/ s # set[w]
  BY <1>a DEF WorkerInv, Untried, NoGenerator
<1>c. s <= set[w]
  <2>1. ~Untried(w, s)
    BY <1>a DEF Untried, NoGenerator
  <2>2. ~(s > set[w])
    BY <2>1, Zenon DEF WorkerInv
  <2> QED  BY <1>n, <1>t, <2>2
<1>same. /\ pc' = pc /\ set' = set /\ placed' = placed /\ done' = done
         /\ \A r \in 1..Sets \ {s} : gen'[w][r] = gen[w][r] /\ errc'[w][r] = errc[w][r]
                                  /\ device'[w][r] = device[w][r]
  <2>1. CASE Stop(w, s)
    BY <1>f, <2>1, Zenon DEF Stop, workVars, chanVars
  <2>2. CASE Report(w, s)
    BY <1>f, <2>2, Zenon DEF Report, workVars
  <2>3. CASE Close(w, s)
    BY <1>f, <2>3, Zenon DEF Close, workVars
  <2> QED  BY <2>1, <2>2, <2>3, Zenon DEF Generator
<1>own. \/ /\ gen[w][s].at = "select" /\ gen'[w][s].at = "report"
           /\ gen[w][s].next > Len(Devices) \/ done[w][s] = "closed"
           /\ gen'[w][s].next = gen[w][s].next
           /\ errc'[w][s] = errc[w][s] /\ device'[w][s] = device[w][s]
        \/ /\ gen[w][s].at = "report" /\ gen'[w][s].at = "close"
           /\ gen'[w][s].next = gen[w][s].next
           /\ device'[w][s] = device[w][s]
        \/ /\ gen[w][s].at = "close" /\ gen'[w][s].at = "ended"
           /\ gen'[w][s].next = gen[w][s].next
           /\ errc'[w][s] = errc[w][s] /\ device'[w][s] = "closed"
  <2>1. CASE Stop(w, s)
    BY <1>f, <1>g, <2>1, Zenon DEF Stop, chanVars
  <2>2. CASE Report(w, s)
    BY <1>f, <1>g, <2>2, Zenon DEF Report
  <2>3. CASE Close(w, s)
    BY <1>f, <1>g, <2>3, Zenon DEF Close
  <2> QED  BY <2>1, <2>2, <2>3, Zenon DEF Generator
<1>1. \A r \in 1..Sets : r > set'[w] => Untried(w, r)'
  BY <1>n, <1>t, <1>c, <1>same DEF WorkerInv, Untried
<1>2. pc'[w] \in {"list", "copy"} => Untried(w, set[w])' /\ placed'[w] = <<>>
  BY <1>b, <1>t, <1>same, Zenon DEF WorkerInv, Untried
<1>3. ASSUME pc'[w] \in {"begin", "range", "commit"}
      PROVE  /\ Offers(w, set[w])'
             /\ \A i \in DOMAIN placed'[w] : placed'[w][i] < gen'[w][set'[w]].next
  <2>1. /\ Offers(w, set[w]) /\ done[w][s] = "open"
        /\ \A i \in DOMAIN placed[w] : placed[w][i] < gen[w][set[w]].next
    BY <1>3, <1>same, Zenon DEF WorkerInv
  <2>2. CASE s # set[w]
    BY <1>same, <1>t, <2>1, <2>2, SMTT(30) DEF Offers
  <2>3. CASE s = set[w]
    BY <1>same, <1>own, <2>1, <2>3, Zenon DEF Offers
  <2> QED  BY <2>2, <2>3, Zenon
<1>4. pc'[w] \notin {"undo", "gone"} => \A r \in 1..Sets : done'[w][r] = "open"
  BY <1>same, Zenon DEF WorkerInv
<1>5. \A i, j \in DOMAIN placed'[w] : i < j => placed'[w][i] < placed'[w][j]
  BY <1>same, Zenon DEF WorkerInv
<1>6. \A r \in 1..Sets : RoomToReport(w, r)'
  BY <1>same, <1>own DEF WorkerInv, RoomToReport
<1> QED  BY <1>same, <1>1, <1>2, <1>3, <1>4, <1>5, <1>6, Zenon DEF WorkerInv

(* AppendIncreases: the position that the generator hands out next is      *)
(* above those of the bricks that are placed.                              *)
LEMMA AppendIncreases ==
  ASSUME NEW q \in Seq(Nat), NEW n \in Nat,
         \A i \in DOMAIN q : q[i] < n,
         \A i, j \in DOMAIN q : i < j => q[i] < q[j],
         NEW r, r = q \/ r = Append(q, n)
  PROVE  /\ \A i \in DOMAIN r : r[i] < n + 1
         /\ \A i, j \in DOMAIN r : i < j => r[i] < r[j]
<1>1. CASE r = q
  BY <1>1
<1>2. CASE r = Append(q, n)
  <2>1. /\ DOMAIN r = 1..(Len(q) + 1) /\ DOMAIN q = 1..Len(q) /\ Len(q) \in Nat
        /\ r[Len(q) + 1] = n /\ \A i \in 1..Len(q) : r[i] = q[i] /\ q[i] \in Nat
    BY <1>2
  <2> QED  BY <2>1, SMTT(30)
<1> QED  BY <1>1, <1>2, Zenon

(* WorkerKeeps: GetNodes starts the generator of a set that was not tried, *)
(* a device is taken from it once, and nothing asks for more after done is *)
(* closed.                                                                 *)
LEMMA WorkerKeeps ==
  ASSUME TypeOK, NEW w \in Workers, WorkerInv(w), Worker(w)
  PROVE  WorkerInv(w)'
<1> USE DEF Move, Update, lockVars, workVars, chanVars
<1>n. Sets \in Nat \ {0} /\ Len(Devices) \in Nat
  BY PlacementAssumption
<1>f. /\ pc \in [Workers \cup Handlers -> Places] /\ set \in [Workers -> 1..Sets]
      /\ placed \in [Workers -> Seq(Nat)]
      /\ gen \in [Workers -> [1..Sets -> Generators]]
      /\ errc \in [Workers -> [1..Sets -> {<<>>, <<"nil">>, <<"ErrNotFound">>}]]
      /\ device \in [Workers -> [1..Sets -> {"open", "closed"}]]
      /\ done \in [Workers -> [1..Sets -> {"open", "closed"}]]
  BY Zenon DEF TypeOK
<1>t. set[w] \in 1..Sets /\ gen[w][set[w]] \in Generators /\ placed[w] \in Seq(Nat)
  BY <1>n, <1>f
<1>1. CASE TakeLock(w) \/ Begin(w) \/ Rollback(w) \/ Undo(w)
  <2>1. /\ set' = set /\ placed' = placed /\ gen' = gen /\ errc' = errc /\ device' = device
        /\ done' = done
        /\ \/ pc[w] = "list" /\ pc'[w] = "copy"
           \/ pc[w] = "begin" /\ pc'[w] = "range"
           \/ pc[w] = "rollback" /\ pc'[w] = "return"
           \/ pc[w] = "undo" /\ pc'[w] = "gone"
    BY <1>1, <1>f, Zenon DEF TakeLock, Begin, Rollback, Undo
  <2> QED  BY <2>1, Zenon DEF WorkerInv, Untried, Offers, RoomToReport
<1>2. CASE GetNodes(w)
  <2>1. /\ set' = set /\ placed' = placed /\ done' = done
        /\ pc[w] = "copy" /\ pc'[w] = "begin"
    BY <1>2, <1>f, Zenon DEF GetNodes
  <2>2. \A r \in 1..Sets \ {set[w]} : gen'[w][r] = gen[w][r] /\ errc'[w][r] = errc[w][r]
                                     /\ device'[w][r] = device[w][r]
    <3>1. CASE ring
      <4>1. /\ gen' = [gen EXCEPT ![w][set[w]] = [at |-> "select", next |-> 1]]
            /\ errc' = errc /\ device' = device
        BY <1>2, <3>1, Zenon DEF GetNodes
      <4> QED  BY <1>f, <1>t, <4>1, Starter, UpdateTyped
    <3>2. CASE ~ring
      <4>1. /\ errc' = [errc EXCEPT ![w][set[w]] = <<"ErrNotFound">>]
            /\ device' = [device EXCEPT ![w][set[w]] = "closed"]
            /\ gen' = gen
        BY <1>2, <3>2, Zenon DEF GetNodes
      <4>2. \A r \in 1..Sets \ {set[w]} : errc'[w][r] = errc[w][r]
        BY <1>f, <1>t, <4>1, UpdateTyped
      <4>3. \A r \in 1..Sets \ {set[w]} : device'[w][r] = device[w][r]
        BY <1>f, <1>t, <4>1, UpdateTyped
      <4> QED  BY <4>1, <4>2, <4>3, Zenon
    <3> QED  BY <3>1, <3>2, Zenon
  <2>3. /\ Untried(w, set[w]) /\ placed[w] = <<>>
        /\ \A r \in 1..Sets : r > set[w] => Untried(w, r)
        /\ \A r \in 1..Sets : done[w][r] = "open" /\ RoomToReport(w, r)
    BY <2>1, Zenon DEF WorkerInv
  <2>4. \/ /\ gen'[w][set[w]] = [at |-> "select", next |-> 1]
           /\ errc'[w][set[w]] = <<>> /\ device'[w][set[w]] = "open"
        \/ /\ gen'[w][set[w]] = NoGenerator
           /\ errc'[w][set[w]] = <<"ErrNotFound">> /\ device'[w][set[w]] = "closed"
    <3>0. gen[w][set[w]] = NoGenerator /\ errc[w][set[w]] = <<>> /\ device[w][set[w]] = "open"
      BY <2>3, Zenon DEF Untried
    <3>1. CASE ring
      <4>1. /\ gen' = [gen EXCEPT ![w][set[w]] = [at |-> "select", next |-> 1]]
            /\ errc' = errc /\ device' = device
        BY <1>2, <3>1, Zenon DEF GetNodes
      <4>2. gen'[w][set[w]] = [at |-> "select", next |-> 1]
        BY <1>f, <1>t, <4>1, Zenon
      <4> QED  BY <3>0, <4>1, <4>2, Zenon
    <3>2. CASE ~ring
      <4>1. /\ errc' = [errc EXCEPT ![w][set[w]] = <<"ErrNotFound">>]
            /\ device' = [device EXCEPT ![w][set[w]] = "closed"]
            /\ gen' = gen
        BY <1>2, <3>2, Zenon DEF GetNodes
      <4>2. errc'[w][set[w]] = <<"ErrNotFound">>
        BY <1>f, <1>t, <4>1, Zenon
      <4>3. device'[w][set[w]] = "closed"
        BY <1>f, <1>t, <4>1, Zenon
      <4> QED  BY <3>0, <4>1, <4>2, <4>3, Zenon
    <3> QED  BY <3>1, <3>2, Zenon
  <2>5. Offers(w, set[w])' /\ RoomToReport(w, set[w])'
    BY <2>1, <2>4, SMTT(30) DEF Offers, RoomToReport, NoGenerator
  <2>6. \A r \in 1..Sets : r > set[w] => Untried(w, r)'
    BY <1>n, <1>t, <2>1, <2>2, <2>3 DEF Untried
  <2>7. \A r \in 1..Sets : RoomToReport(w, r)'
    BY <2>2, <2>3, <2>5, <2>1, Zenon DEF RoomToReport
  <2> QED  BY <2>1, <2>3, <2>5, <2>6, <2>7 DEF WorkerInv
<1>3. CASE Receive(w)
  <2> DEFINE g == gen[w][set[w]]
  <2>1. /\ set' = set /\ done' = done /\ errc' = errc /\ device' = device
        /\ pc[w] = "range" /\ pc'[w] \in {"range", "commit", "rollback"}
        /\ g.at = "select" /\ g.next <= Len(Devices)
    BY <1>3, <1>f, Zenon DEF Receive
  <2>2. g.next \in Nat /\ [g EXCEPT !.next = @ + 1].at = g.at
                       /\ [g EXCEPT !.next = @ + 1].next = g.next + 1
    BY <1>t, GeneratorSteps, Zenon
  <2>3. /\ gen'[w][set[w]].at = "select" /\ gen'[w][set[w]].next = g.next + 1
        /\ \A r \in 1..Sets \ {set[w]} : gen'[w][r] = gen[w][r]
    BY <1>3, <1>f, <1>t, <2>1, <2>2, ZenonT(40) DEF Receive
  <2>4. placed'[w] = placed[w] \/ placed'[w] = Append(placed[w], g.next)
    BY <1>3, <1>f, Zenon DEF Receive
  <2>5. /\ Offers(w, set[w])
        /\ \A i \in DOMAIN placed[w] : placed[w][i] < g.next
        /\ \A i, j \in DOMAIN placed[w] : i < j => placed[w][i] < placed[w][j]
        /\ \A r \in 1..Sets : r > set[w] => Untried(w, r)
        /\ \A r \in 1..Sets : done[w][r] = "open" /\ RoomToReport(w, r)
    BY <2>1, Zenon DEF WorkerInv
  <2>6. /\ \A i \in DOMAIN placed'[w] : placed'[w][i] < g.next + 1
        /\ \A i, j \in DOMAIN placed'[w] : i < j => placed'[w][i] < placed'[w][j]
    BY <1>t, <2>2, <2>4, <2>5, AppendIncreases, Zenon
  <2>7. Offers(w, set[w])'
    BY <2>1, <2>2, <2>3, <2>5 DEF Offers
  <2>8. \A r \in 1..Sets : r > set[w] => Untried(w, r)'
    BY <1>n, <1>t, <2>1, <2>3, <2>5 DEF Untried
  <2>9. \A r \in 1..Sets : RoomToReport(w, r)'
    BY <1>t, <2>1, <2>3, <2>5, Zenon DEF RoomToReport
  <2> QED  BY <2>1, <2>3, <2>5, <2>6, <2>7, <2>8, <2>9, Zenon DEF WorkerInv
<1>4. CASE Exhausted(w)
  <2>1. /\ set' = set /\ placed' = placed /\ gen' = gen /\ done' = done /\ device' = device
        /\ pc[w] = "range" /\ pc'[w] = "rollback"
    BY <1>4, <1>f, Zenon DEF Exhausted
  <2>2. /\ errc'[w][set[w]] = <<>>
        /\ \A r \in 1..Sets \ {set[w]} : errc'[w][r] = errc[w][r]
    BY <1>4, <1>f, <1>t, Zenon DEF Exhausted
  <2>3. \A r \in 1..Sets : r > set[w] => Untried(w, r)'
    BY <1>n, <1>t, <2>1, <2>2, Zenon DEF WorkerInv, Untried
  <2>4. \A r \in 1..Sets : RoomToReport(w, r)'
    BY <1>t, <2>1, <2>2, Zenon DEF WorkerInv, RoomToReport
  <2> QED  BY <2>1, <2>3, <2>4, Zenon DEF WorkerInv
<1>5. CASE Commit(w)
  <2>1. /\ gen' = gen /\ errc' = errc /\ device' = device /\ done' = done
        /\ pc[w] = "commit"
    BY <1>5, Zenon DEF Commit
  <2>2. \/ set'[w] = set[w] /\ placed'[w] = placed[w] /\ pc'[w] = "begin"
        \/ set'[w] = set[w] /\ placed'[w] = placed[w] /\ pc'[w] = "return"
        \/ /\ set[w] < Sets /\ set'[w] = set[w] + 1
           /\ placed'[w] = <<>> /\ pc'[w] = "list"
    BY <1>5, <1>n, <1>f, <1>t, Zenon DEF Commit, NextBrick
  <2>3. \A r \in 1..Sets : (Untried(w, r) <=> Untried(w, r)')
                           /\ (RoomToReport(w, r) <=> RoomToReport(w, r)')
    BY <2>1, Zenon DEF Untried, RoomToReport
  <2>4. CASE set'[w] = set[w] /\ placed'[w] = placed[w] /\ pc'[w] \in {"begin", "return"}
    BY <2>1, <2>3, <2>4, Zenon DEF WorkerInv, Offers
  <2>5. CASE set[w] < Sets /\ set'[w] = set[w] + 1 /\ placed'[w] = <<>> /\ pc'[w] = "list"
    <3>1. set'[w] \in 1..Sets /\ set'[w] > set[w]
      BY <1>n, <1>t, <2>5
    <3>2. Untried(w, set[w])' /\ \A r \in 1..Sets : r > set'[w] => Untried(w, r)'
      BY <1>n, <1>t, <2>1, <2>5, <3>1 DEF WorkerInv, Untried
    <3> QED  BY <2>1, <2>3, <2>5, <3>2 DEF WorkerInv
  <2> QED  BY <2>2, <2>4, <2>5, Zenon
<1>6. CASE Return(w)
  <2>1. /\ set' = set /\ placed' = placed /\ gen' = gen /\ errc' = errc /\ device' = device
        /\ pc'[w] \in {"undo", "gone"}
    BY <1>6, <1>f, Zenon DEF Return
  <2>2. \A r \in 1..Sets : r > set[w] => done'[w][r] = done[w][r]
    BY <1>6, <1>n, <1>f, <1>t DEF Return, Told
  <2>3. \A r \in 1..Sets : r > set[w] => Untried(w, r)'
    BY <2>1, <2>2, Zenon DEF WorkerInv, Untried
  <2> QED  BY <2>1, <2>3, Zenon DEF WorkerInv, RoomToReport
<1> QED  BY <1>1, <1>2, <1>3, <1>4, <1>5, <1>6, Zenon DEF Worker

(* Invariance: in every reachable state the generators are where IInv has  *)
(* them, however the goroutines of allocBricks are interleaved.            *)
THEOREM Invariance == Spec => []IInv
<1>1. Init => IInv
  BY InitTyped, InitInv, Zenon DEF IInv
<1>2. IInv /\ [Next]_vars => IInv'
  <2> SUFFICES ASSUME IInv, [Next]_vars
               PROVE  IInv'
    BY Zenon
  <2>1. TypeOK /\ \A q \in Workers : WorkerInv(q)
    BY Zenon DEF IInv
  <2>2. ASSUME NEW w \in Workers, Worker(w)
        PROVE  IInv'
    <3>1. \A q \in Workers \ {w} : WorkerInv(q)'
      BY <2>1, <2>2, OthersAlone, UntouchedKept, Zenon
    <3> QED  BY <2>1, <2>2, <3>1, WorkerTyped, WorkerKeeps, Zenon DEF IInv
  <2>3. ASSUME NEW w \in Workers, NEW s \in 1..Sets, Generator(w, s)
        PROVE  IInv'
    <3>1. \A q \in Workers \ {w} : WorkerInv(q)'
      BY <2>1, <2>3, OthersAlone, UntouchedKept, Zenon
    <3> QED  BY <2>1, <2>3, <3>1, GeneratorTyped, GeneratorKeeps, Zenon DEF IInv
  <2>4. ASSUME NEW h \in Handlers, Handler(h)
        PROVE  IInv'
    BY <2>1, <2>4, HandlersAlone, HandlerTyped, UntouchedKept, ZenonT(40) DEF IInv
  <2>5. CASE UNCHANGED vars
    BY <2>1, <2>5 DEF IInv, TypeOK, WorkerInv, Untried, Offers, RoomToReport, vars, lockVars,
                      workVars, chanVars
  <2> QED  BY <2>2, <2>3, <2>4, <2>5, Zenon DEF Next
<1> QED  BY <1>1, <1>2, PTL DEF Spec

(* OfferedOnceHolds: allocBricks is offered every device of the list that  *)
(* GetNodes copied, in order and once, before it runs out of devices.      *)
THEOREM OfferedOnceHolds == Spec => []OfferedOnce
<1>1. IInv => OfferedOnce
  <2> SUFFICES ASSUME IInv, NEW w \in Workers
               PROVE  /\ \A i, j \in DOMAIN placed[w] : i < j => placed[w][i] < placed[w][j]
                      /\ pc[w] = "range" /\ device[w][set[w]] = "closed" =>
                           \/ gen[w][set[w]].next > Len(Devices)
                           \/ errc[w][set[w]] = <<"ErrNotFound">>
    BY Zenon DEF OfferedOnce
  <2>1. WorkerInv(w)
    BY Zenon DEF IInv
  <2>2. set[w] \in 1..Sets /\ gen[w][set[w]].at \in {"select", "report", "close", "ended"}
    <3>1. set \in [Workers -> 1..Sets] /\ gen \in [Workers -> [1..Sets -> Generators]]
      BY Zenon DEF IInv, TypeOK
    <3>2. set[w] \in 1..Sets /\ gen[w][set[w]] \in Generators
      BY <3>1, Zenon
    <3> QED  BY <3>2, Zenon DEF Generators
  <2> QED  BY <2>1, <2>2, Zenon DEF WorkerInv, Offers
<1> QED  BY <1>1, Invariance, PTL

(* NoGeneratorBlocks: errc has room whenever a generator has yet to report *)
(* to it, so the deferred send of GetNodes never blocks, whether the       *)
(* worker is still there to read or has returned.                          *)
THEOREM NoGeneratorBlocks ==
  Spec => [](\A w \in Workers, s \in 1..Sets : gen[w][s].at = "report" => Buffered(w, s))
<1>1. IInv => \A w \in Workers, s \in 1..Sets : gen[w][s].at = "report" => Buffered(w, s)
  BY Zenon DEF IInv, WorkerInv, RoomToReport, Buffered
<1> QED  BY <1>1, Invariance, PTL

-----------------------------------------------------------------------------
(* The locks                                                               *)

(* InitLocks: nobody is inside a lock.                                     *)
LEMMA InitLocks == Init => LocksMatch
  BY PlacementAssumption, SMTT(30) DEF Init, LocksMatch, Writing, Listing

(* StepLocks: a goroutine takes a lock that is free and gives back its     *)
(* own.                                                                    *)
LEMMA StepLocks ==
  ASSUME pc \in [Workers \cup Handlers -> Places], LocksMatch, [Next]_vars
  PROVE  LocksMatch'
<1> SUFFICES ASSUME NEW t \in Workers \cup Handlers
             PROVE  (writer' = t <=> Writing(t)') /\ (lock' = t <=> Listing(t)')
  BY Zenon DEF LocksMatch
<1>m. /\ \A q \in Workers \cup Handlers : (writer = q <=> Writing(q)) /\ (lock = q <=> Listing(q))
      /\ None \notin Workers \cup Handlers /\ Workers \cap Handlers = {}
  BY PlacementAssumption, Zenon DEF LocksMatch
<1>1. ASSUME NEW w \in Workers, Worker(w)
      PROVE  (writer' = t <=> Writing(t)') /\ (lock' = t <=> Listing(t)')
  <2> USE DEF Move, lockVars, workVars, chanVars
  <2>1. CASE TakeLock(w) \/ GetNodes(w)
    BY <1>m, <2>1 DEF TakeLock, GetNodes, Writing, Listing
  <2>2. CASE Begin(w) \/ Rollback(w) \/ Undo(w)
    BY <1>m, <2>2, Zenon DEF Begin, Rollback, Undo, Writing, Listing
  <2>3. CASE Receive(w) \/ Exhausted(w)
    BY <1>m, <2>3 DEF Receive, Exhausted, Writing, Listing
  <2>4. CASE Commit(w)
    BY <1>m, <2>4 DEF Commit, NextBrick, Writing, Listing
  <2>5. CASE Return(w)
    BY <1>m, <2>5, Zenon DEF Return, Writing, Listing
  <2> QED  BY <1>1, <2>1, <2>2, <2>3, <2>4, <2>5, Zenon DEF Worker
<1>2. ASSUME NEW w \in Workers, NEW s \in 1..Sets, Generator(w, s)
      PROVE  (writer' = t <=> Writing(t)') /\ (lock' = t <=> Listing(t)')
  BY <1>m, <1>2, Zenon DEF Generator, Stop, Report, Close, Writing, Listing, lockVars
<1>3. ASSUME NEW h \in Handlers, Handler(h)
      PROVE  (writer' = t <=> Writing(t)') /\ (lock' = t <=> Listing(t)')
  BY <1>m, <1>3 DEF Handler, HandlerWaits, HandlerLocks, HandlerEnds, Move, Writing, Listing
<1>4. CASE UNCHANGED vars
  BY <1>m, <1>4, Zenon DEF vars, lockVars, Writing, Listing
<1> QED  BY <1>1, <1>2, <1>3, <1>4, Zenon DEF Next

(* LocksHeld: bolt's writer lock and the allocator's are each with the     *)
(* goroutine whose code is between taking it and giving it back.           *)
THEOREM LocksHeld == Spec => []LocksMatch
<1>1. IInv => pc \in [Workers \cup Handlers -> Places]
  BY Zenon DEF IInv, TypeOK
<1> QED  BY <1>1, Invariance, InitLocks, StepLocks, PTL DEF Spec

(* A goroutine waits for a lock: it cannot take its next step until the    *)
(* holder of that lock has given it back.                                  *)
WaitsForWriter(t) == pc[t] \in IF t \in Workers THEN {"begin", "undo"} ELSE {"begin"}
WaitsForLock(t)   == pc[t] = IF t \in Workers THEN "list" ELSE "change"

(* NoCircularWait: the allocator's lock is the inner one: who holds it     *)
(* waits for neither lock, and who holds the writer lock waits at most for *)
(* the allocator's. No goroutines of allocBricks and of requests that      *)
(* change the ring can wait for each other's locks.                        *)
THEOREM NoCircularWait ==
  Spec => [](\A t \in Workers \cup Handlers :
               /\ lock = t => ~WaitsForWriter(t) /\ ~WaitsForLock(t)
               /\ writer = t => ~WaitsForWriter(t))
<1>1. LocksMatch => \A t \in Workers \cup Handlers :
        /\ lock = t => ~WaitsForWriter(t) /\ ~WaitsForLock(t)
        /\ writer = t => ~WaitsForWriter(t)
  BY Zenon DEF LocksMatch, Writing, Listing, WaitsForWriter, WaitsForLock
<1> QED  BY <1>1, LocksHeld, PTL
=============================================================================
