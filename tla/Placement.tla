----------------------------- MODULE Placement ------------------------------
(***************************************************************************)
(* The goroutines, channels and locks below allocBricks. For every set of  *)
(* bricks GetNodes takes the allocator's lock, copies the list of devices  *)
(* and starts a generator, a goroutine that hands them out one by one. The *)
(* placing goroutine receives them inside a bolt transaction, that is with *)
(* the database's writer lock held, and tells its generators to stop only  *)
(* when it returns. Requests that change the ring take the writer lock     *)
(* first and the allocator's lock inside it.                               *)
(*                                                                         *)
(* Volumes takes each transaction of allocBricks as one step; this module  *)
(* is why it can: whoever waits is served, and nothing stays behind.       *)
(* Whether a device takes a brick is left open here.                       *)
(***************************************************************************)
EXTENDS Naturals, Sequences

CONSTANTS
  Workers,      \* goroutines in allocBricks
  Handlers,     \* goroutines that change the ring
  Devices,      \* the ring's list of devices
  Sets,         \* sets of bricks that a worker places
  BricksInSet,
  None

ASSUME PlacementAssumption ==
  /\ Devices \in Seq(Nat) /\ {Sets, BricksInSet} \subseteq Nat \ {0}
  /\ None \notin Workers \cup Handlers /\ Workers \cap Handlers = {}

VARIABLES
  writer,   \* who has bolt's writer lock, or None
  lock,     \* who has the allocator's lock, or None
  ring,     \* the cluster has a ring
  pc,       \* per worker and handler, where it is
  set,      \* per worker, the set it is placing
  placed,   \* per worker, the positions in Devices of the bricks of that set
  e,        \* per worker, allocBricks returns an error
  gen,      \* per worker and set, its generator: see NoGenerator
  errc, device, done   \* its channels: what errc holds, whether the other
                       \* two are closed

lockVars == <<writer, lock, ring>>
workVars == <<set, placed, e>>
chanVars == <<errc, device, done>>
vars     == <<lockVars, pc, workVars, gen, chanVars>>

(* A generator is at "select", "report" or "close" of its deferred         *)
(* function, or "ended"; next is the position in its list of devices.      *)
NoGenerator == [at |-> "ended", next |-> 1]

Each(x) == [w \in Workers |-> [s \in 1..Sets |-> x]]

Init ==
  /\ writer = None /\ lock = None /\ ring \in BOOLEAN
  /\ pc = [t \in Workers \cup Handlers |-> IF t \in Workers THEN "list" ELSE "begin"]
  /\ set = [w \in Workers |-> 1] /\ placed = [w \in Workers |-> <<>>]
  /\ e = [w \in Workers |-> FALSE]
  /\ gen = Each(NoGenerator)
  /\ errc = Each(<<>>) /\ device = Each("open") /\ done = Each("open")

Move(t, from, to) == pc[t] = from /\ pc' = [pc EXCEPT ![t] = to]

Update(f, w, x) == [f EXCEPT ![w][set[w]] = x]

-----------------------------------------------------------------------------
(* The placing goroutine                                                   *)

(* getDeviceList.                                                          *)
TakeLock(w) ==
  /\ lock = None /\ lock' = w
  /\ Move(w, "list", "copy")
  /\ UNCHANGED <<writer, ring, workVars, gen, chanVars>>

(* The rest of GetNodes: without a ring there is an error and no generator.*)
GetNodes(w) ==
  /\ Move(w, "copy", "begin")
  /\ lock' = None
  /\ IF ring
     THEN /\ gen' = Update(gen, w, [at |-> "select", next |-> 1])
          /\ UNCHANGED <<errc, device>>
     ELSE /\ errc' = Update(errc, w, <<"ErrNotFound">>)
          /\ device' = Update(device, w, "closed")
          /\ UNCHANGED gen
  /\ UNCHANGED <<writer, ring, workVars, done>>

(* db.Update waits for the writer lock.                                    *)
Begin(w) ==
  /\ writer = None /\ writer' = w
  /\ Move(w, "begin", "range")
  /\ UNCHANGED <<lock, ring, workVars, gen, chanVars>>

(* A generator and its worker meet at the unbuffered channel. The worker   *)
(* passes the device over, places a brick on it, or finds that its entry   *)
(* is gone.                                                                *)
Receive(w) ==
  LET g == gen[w][set[w]]
  IN  /\ g.at = "select" /\ g.next <= Len(Devices)
      /\ gen' = Update(gen, w, [g EXCEPT !.next = @ + 1])
      /\ \/ Move(w, "range", "range") /\ UNCHANGED <<placed, e>>
         \/ /\ Move(w, "range", "commit")
            /\ placed' = [placed EXCEPT ![w] = Append(@, g.next)]
            /\ UNCHANGED e
         \/ /\ Move(w, "range", "rollback")
            /\ e' = [e EXCEPT ![w] = TRUE]
            /\ UNCHANGED placed
      /\ UNCHANGED <<lockVars, set, chanVars>>

(* The channel is closed: what errc says is the error, or it is            *)
(* ErrNoSpace.                                                             *)
Exhausted(w) ==
  /\ device[w][set[w]] = "closed" /\ errc[w][set[w]] # <<>>
  /\ Move(w, "range", "rollback")
  /\ errc' = Update(errc, w, <<>>)
  /\ e' = [e EXCEPT ![w] = TRUE]
  /\ UNCHANGED <<lockVars, set, placed, gen, device, done>>

(* Mutant: a generator for each brick.                                     *)
ListAgain == "list"

(* The bricks of a set share their generator.                              *)
NextBrick == "begin"

(* The transaction ends; the next brick, the next set, or the end.         *)
Commit(w) ==
  /\ writer' = None
  /\ IF Len(placed[w]) < BricksInSet
     THEN Move(w, "commit", NextBrick) /\ UNCHANGED <<set, placed>>
     ELSE /\ Move(w, "commit", IF set[w] < Sets THEN "list" ELSE "return")
          /\ set' = [set EXCEPT ![w] = IF @ < Sets THEN @ + 1 ELSE @]
          /\ placed' = [placed EXCEPT ![w] = IF set[w] < Sets THEN <<>> ELSE @]
  /\ UNCHANGED <<lock, ring, e, gen, chanVars>>

Rollback(w) ==
  /\ writer' = None
  /\ Move(w, "rollback", "return")
  /\ UNCHANGED <<lock, ring, workVars, gen, chanVars>>

(* The sets whose done is closed on return: one deferred call for each.    *)
Told(w) == 1..set[w]

(* The deferred functions run last in, first out: every done is closed     *)
(* before the transaction that cleans up after an error.                   *)
Return(w) ==
  /\ Move(w, "return", IF e[w] THEN "undo" ELSE "gone")
  /\ done' = [done EXCEPT ![w] = [s \in 1..Sets |-> IF s \in Told(w) THEN "closed" ELSE @[s]]]
  /\ UNCHANGED <<lockVars, workVars, gen, errc, device>>

(* The clean-up, a transaction of its own.                                 *)
Undo(w) ==
  /\ writer = None
  /\ Move(w, "undo", "gone")
  /\ UNCHANGED <<lockVars, workVars, gen, chanVars>>

-----------------------------------------------------------------------------
(* The generator of worker w and set s                                     *)

(* The list is used up, or done is closed.                                 *)
Stop(w, s) ==
  /\ gen[w][s].at = "select"
  /\ gen[w][s].next > Len(Devices) \/ done[w][s] = "closed"
  /\ gen' = [gen EXCEPT ![w][s].at = "report"]
  /\ UNCHANGED <<lockVars, pc, workVars, chanVars>>

(* Mutant: errc has no buffer, and its reader waits for device first.      *)
NoBuffer(w, s) == pc[w] = "errc"

(* errc holds one.                                                         *)
Buffered(w, s) == errc[w][s] = <<>>

Report(w, s) ==
  /\ gen[w][s].at = "report"
  /\ Buffered(w, s)
  /\ errc' = [errc EXCEPT ![w][s] = <<"nil">>]
  /\ gen' = [gen EXCEPT ![w][s].at = "close"]
  /\ UNCHANGED <<lockVars, pc, workVars, device, done>>

Close(w, s) ==
  /\ gen[w][s].at = "close"
  /\ device' = [device EXCEPT ![w][s] = "closed"]
  /\ gen' = [gen EXCEPT ![w][s].at = "ended"]
  /\ UNCHANGED <<lockVars, pc, workVars, errc, done>>

-----------------------------------------------------------------------------
(* A request that changes the ring, such as DeviceSetState                 *)

(* The transaction, and AddDevice or RemoveDevice inside it.               *)
HandlerLocks(h) ==
  \/ writer = None /\ writer' = h /\ Move(h, "begin", "change") /\ UNCHANGED lock
  \/ lock = None /\ lock' = h /\ Move(h, "change", "commit") /\ UNCHANGED writer

HandlerWaits(h) ==
  /\ HandlerLocks(h)
  /\ UNCHANGED <<ring, workVars, gen, chanVars>>

(* The change is made, both locks are given back.                          *)
HandlerEnds(h) ==
  /\ Move(h, "commit", "gone")
  /\ lock' = None /\ writer' = None
  /\ ring' \in BOOLEAN
  /\ UNCHANGED <<workVars, gen, chanVars>>

-----------------------------------------------------------------------------
Worker(w) ==
  \/ TakeLock(w) \/ GetNodes(w) \/ Begin(w) \/ Receive(w) \/ Exhausted(w)
  \/ Commit(w) \/ Rollback(w) \/ Return(w) \/ Undo(w)

Generator(w, s) == Stop(w, s) \/ Report(w, s) \/ Close(w, s)

Handler(h) == HandlerWaits(h) \/ HandlerEnds(h)

Next ==
  \/ \E w \in Workers : Worker(w) \/ \E s \in 1..Sets : Generator(w, s)
  \/ \E h \in Handlers : Handler(h)

Spec == Init /\ [][Next]_vars

(* Every goroutine that can go on some time does.                          *)
FairSpec ==
  /\ Spec
  /\ \A w \in Workers :
       WF_vars(Worker(w)) /\ WF_vars(\E s \in 1..Sets : Generator(w, s))
  /\ \A h \in Handlers : WF_vars(Handler(h))

-----------------------------------------------------------------------------
(* Properties                                                              *)

(* OfferedOnce: the bricks of a set go to devices further and further down *)
(* the list that was copied, so none is offered to a set twice; and the    *)
(* list ends early for no worker: when it finds the channel closed, every  *)
(* device was offered, or errc says that there is no ring.                 *)
OfferedOnce ==
  \A w \in Workers :
    /\ \A i, j \in DOMAIN placed[w] : i < j => placed[w][i] < placed[w][j]
    /\ pc[w] = "range" /\ device[w][set[w]] = "closed" =>
         \/ gen[w][set[w]].next > Len(Devices)
         \/ errc[w][set[w]] = <<"ErrNotFound">>

AllGone ==
  /\ \A t \in Workers \cup Handlers : pc[t] = "gone"
  /\ \A w \in Workers, s \in 1..Sets : gen[w][s].at = "ended"

(* PlacementEnds: everything comes to an end: no worker waits for ever for *)
(* a device with the database locked, no two goroutines wait for each      *)
(* other's lock, and no generator is left behind when its worker has gone. *)
PlacementEnds == <>[]AllGone
=============================================================================
