-------------------------- MODULE BrickWorkProofs --------------------------
(***************************************************************************)
(* Proofs about BrickWork for any number of bricks, hosts and faults.      *)
(*                                                                         *)
(* The invariant has one part per concern: the typing, what the WaitGroup  *)
(* counts, where the errors of the goroutines that have sent theirs are,   *)
(* and what is on the host of a brick at each point of its goroutine.      *)
(***************************************************************************)
EXTENDS BrickWork, FiniteSetTheorems, TLAPS

Places == {"idle", "view", "access", "dial", "run", "free", "send", "finish", "gone"}

AllParts == Parts \cup {"stray"}

Commands == {"mkdir", "lvcreate", "mkfs", "fstab", "mount", "mkbrick",
             "umount", "lvremove", "rmdir", "sed"}

(* The values of the variables.                                            *)
TypeOK ==
  /\ job \in {"create", "destroy"} /\ round \in {"create", "destroy", "done"}
  /\ phase \in {"spawn", "collect"}
  /\ pc \in [Bricks -> Places]
  /\ calls \in [Bricks -> 0..4] /\ left \in [Bricks -> 0..6]
  /\ failed \in [Bricks -> BOOLEAN]
  /\ err \in [Bricks -> Bricks \cup {None}]
  /\ slot \in [Hosts -> Bricks \cup {None}]
  /\ wg \in Nat
  /\ results = <<>> \/ \E e \in Bricks \cup {None} : results = <<e>>
  /\ closed \in BOOLEAN
  /\ status \in Bricks \cup {None} /\ answer \in Bricks \cup {None}
  /\ disk \in [Bricks -> SUBSET AllParts]
  /\ late \in [Bricks -> Commands \cup {None}]
  /\ faults \in Nat /\ timedOut \subseteq Bricks /\ hindered \subseteq Bricks

(* The goroutines that have been spawned and are not gone.                 *)
Live == {b \in Bricks : pc[b] \notin {"idle", "gone"}}

(* What the WaitGroup and the channel say of the goroutines.               *)
GroupInv ==
  /\ wg = Cardinality(Live)
  /\ closed => phase = "collect" /\ Live = {}
  /\ phase = "collect" => round # "done" /\ \A b \in Bricks : pc[b] # "idle"
  /\ round = "done" => \A b \in Bricks : pc[b] = "gone"

(* An error that has been sent is in the channel or has been saved.        *)
Reported == status # None \/ (results # <<>> /\ Head(results) # None)

Sent(b) == pc[b] \in {"finish", "gone"}

ErrorInv ==
  /\ round # "done" => (Reported <=> \E b \in Bricks : Sent(b) /\ err[b] # None)
  /\ round = "create" => job = "create"
  /\ round = "destroy" /\ job = "create" => answer # None

-----------------------------------------------------------------------------
(* The parts there are when k commands of BrickCreate have worked.         *)
Made(k) ==
  {p \in Parts : \/ p = "dir" /\ k >= 1
                 \/ p = "lv" /\ k >= 2
                 \/ p = "fs" /\ k >= 3
                 \/ p = "fstab" /\ k >= 4
                 \/ p = "mount" /\ k >= 5
                 \/ p = "brick" /\ k >= 6}

(* What BrickDestroy can take away, whatever part of it has been tried     *)
(* before: only on a thin volume is there a file system with a brick.      *)
Removable(parts) ==
  "stray" \notin parts /\ (parts \cap {"fs", "brick"} # {} => "lv" \in parts)

(* What is gone when c calls of BrickDestroy are left.                     *)
Removed(c, parts) ==
  /\ c <= 3 => "mount" \notin parts
  /\ c <= 2 => parts \cap {"lv", "fs", "brick"} = {}
  /\ c <= 1 => "dir" \notin parts
  /\ c = 0 => parts = {}

Calling == {"access", "dial", "run", "free"}
Ending  == {"send", "finish", "gone"}

(* The commands left agree with the calls left.                            *)
CallInv(b) ==
  /\ pc[b] \in {"access", "dial"} => left[b] = IF calls[b] = 0 THEN 6 ELSE 1
  /\ pc[b] = "run" => IF calls[b] = 0 THEN left[b] \in 1..6 ELSE left[b] = 1
  /\ pc[b] \in Calling /\ round = "destroy" => calls[b] # 0
  /\ pc[b] \in Calling /\ calls[b] # 0 /\ round = "create" => err[b] # None

(* No command of the brick has timed out: what BrickDestroy meets.         *)
QuietInv(b) == b \notin timedOut => late[b] = None /\ Removable(disk[b])

(* The creating round: a brick whose goroutine has no error to report yet. *)
CreateInv(b) ==
  round = "create" =>
    /\ pc[b] \in {"idle", "view"} => b \notin timedOut /\ disk[b] = {}
    /\ pc[b] \in {"access", "dial", "run"} /\ calls[b] = 0 =>
         b \notin timedOut /\ disk[b] = Made(6 - left[b])
    /\ pc[b] = "free" /\ calls[b] = 0 /\ ~failed[b] => b \notin timedOut /\ disk[b] = Parts
    /\ pc[b] \in Ending /\ err[b] = None => b \notin timedOut /\ disk[b] = Parts

(* The destroying round: a brick for which nothing went wrong.             *)
DestroyInv(b) ==
  round = "destroy" /\ b \notin hindered \cup timedOut =>
    /\ pc[b] \in {"access", "dial", "run"} => Removed(calls[b], disk[b])
    /\ pc[b] = "free" => Removed(calls[b] - 1, disk[b])
    /\ pc[b] \in Ending => disk[b] = {}

(* The end.                                                                *)
DoneInv(b) ==
  round = "done" =>
    IF job = "create" /\ answer = None
    THEN b \notin timedOut /\ disk[b] = Parts
    ELSE b \in hindered \cup timedOut \/ disk[b] = {}

BrickInv(b) == CallInv(b) /\ QuietInv(b) /\ CreateInv(b) /\ DestroyInv(b) /\ DoneInv(b)

DiskInv == \A b \in Bricks : BrickInv(b)

IInv == TypeOK /\ GroupInv /\ OnePerHost /\ ErrorInv /\ DiskInv

-----------------------------------------------------------------------------
(* Typing                                                                  *)

(* InitTyped: what the caller starts with.                                 *)
LEMMA InitTyped == Init => TypeOK
<1> SUFFICES ASSUME Init PROVE TypeOK
  BY Zenon
<1>1. disk \in [Bricks -> SUBSET AllParts]
  BY Zenon DEF Init, AllParts, Parts
<1>2. pc \in [Bricks -> Places] /\ calls \in [Bricks -> 0..4] /\ left \in [Bricks -> 0..6]
  BY DEF Init, Places
<1> QED  BY <1>1, <1>2, Zenon DEF Init, TypeOK

(* CommandTyped: what a goroutine runs is one of the commands.             *)
LEMMA CommandTyped ==
  ASSUME NEW b \in Bricks, calls[b] \in 0..4, left[b] \in 0..6, CallInv(b), pc[b] = "run"
  PROVE  Command(b) \in Commands
  BY DEF CallInv, Command, CreateCommands, DestroyCommands, Commands

(* EffectTyped: commands leave nothing but the parts of a brick, or the    *)
(* stray directory of a brick that is not mounted.                         *)
LEMMA EffectTyped ==
  ASSUME NEW parts \in SUBSET AllParts, NEW command \in Commands
  PROVE  Effect(command, parts) \in SUBSET AllParts
<1> USE DEF AllParts, Parts
<1>1. CASE command \in {"mkdir", "lvcreate", "mkfs", "fstab", "mount"}
  BY <1>1, Zenon DEF Effect
<1>2. CASE command = "mkbrick"
  BY <1>2, Zenon DEF Effect
<1>3. CASE command \in {"umount", "lvremove", "rmdir", "sed"}
  BY <1>3, Zenon DEF Effect
<1> QED  BY <1>1, <1>2, <1>3, Zenon DEF Commands

(* GoroutineTyped: the steps of a goroutine keep the typing.               *)
LEMMA GoroutineTyped ==
  ASSUME TypeOK, NEW b \in Bricks, CallInv(b), Goroutine(b) \/ LateEnd(b),
         wg = Cardinality(Live)
  PROVE  TypeOK'
<1> USE BrickWorkAssumption DEF TypeOK, Move, Fault, callVars, goVars, sgVars, hostVars
<1>1. CASE Spawn(b)
  BY <1>1, SMTT(30) DEF Spawn, Places
<1>2. CASE View(b)
  BY <1>2 DEF View, Places, CreateCommands, DestroyCommands
<1>3. CASE AccessConnection(b)
  BY <1>3, Zenon DEF AccessConnection, Places
<1>4. CASE Dial(b)
  <2>1. CASE Move(b, "dial", "run")
    BY <1>4, <2>1 DEF Dial, Places
  <2>2. CASE Move(b, "dial", "free") /\ failed' = [failed EXCEPT ![b] = TRUE] /\ Fault(b)
    <3>1. pc' \in [Bricks -> Places] /\ failed' \in [Bricks -> BOOLEAN]
      BY <2>2, Zenon DEF Places
    <3>2. faults' \in Nat /\ hindered' \subseteq Bricks
      BY <2>2, SMTT(30)
    <3> QED  BY <1>4, <3>1, <3>2, Zenon DEF Dial
  <2> QED  BY <1>4, <2>1, <2>2, Zenon DEF Dial
<1>5. CASE CommandWorks(b)
  <2>1. left[b] \in 1..6
    BY <1>5 DEF CommandWorks, CallInv
  <2>2. Effect(Command(b), disk[b]) \in SUBSET AllParts
    BY <1>5, EffectTyped, CommandTyped, Zenon DEF CommandWorks
  <2> QED  BY <1>5, <2>1, <2>2, SMTT(30) DEF CommandWorks, Places
<1>6. CASE CommandFails(b)
  BY <1>6, SMTT(30) DEF CommandFails, Places
<1>7. CASE CommandTimesOut(b)
  BY <1>7, CommandTyped, SMTT(30) DEF CommandTimesOut, Places
<1>8. CASE FreeConnection(b)
  BY <1>8 DEF FreeConnection, CallsAfter, DestroyCommands, Places
<1>9. CASE SendErr(b)
  <2>1. results = <<>>
    BY <1>9, SMTT(30) DEF SendErr, Room
  <2>2. results' = <<err[b]>>
    BY <1>9, <2>1, SMTT(30) DEF SendErr
  <2> QED  BY <1>9, <2>2, Zenon DEF SendErr, Places
<1>10. CASE Done(b)
  <2>1. b \in Live /\ IsFiniteSet(Live)
    BY <1>10, FS_Subset, Zenon DEF Done, Live
  <2>2. wg # 0
    BY <2>1, FS_EmptySet, Zenon DEF Live
  <2> QED  BY <1>10, <2>2 DEF Done, Places
<1>11. CASE LateEnd(b)
  <2>1. Effect(late[b], disk[b]) \in SUBSET AllParts
    BY <1>11, EffectTyped, Zenon DEF LateEnd
  <2> QED  BY <1>11, <2>1 DEF LateEnd
<1> QED  BY <1>1, <1>2, <1>3, <1>4, <1>5, <1>6, <1>7, <1>8, <1>9, <1>10, <1>11, Zenon DEF Goroutine

(* CallerTyped: the steps of the caller keep the typing.                   *)
LEMMA CallerTyped ==
  ASSUME TypeOK, Caller
  PROVE  TypeOK'
<1> USE DEF TypeOK, callVars, goVars, sgVars, hostVars
<1>1. CASE Result
  BY <1>1, Zenon DEF Result
<1>2. CASE Close
  BY <1>2, Zenon DEF Close
<1>3. CASE Receive
  <2>1. PICK e \in Bricks \cup {None} : results = <<e>>
    BY <1>3, Zenon DEF Receive
  <2>2. Head(results) = e /\ Tail(results) = <<>>
    BY <2>1
  <2> QED  BY <1>3, <2>1, <2>2, Zenon DEF Receive, SaveError
<1>4. CASE Return
  BY <1>4, Zenon DEF Return, Places
<1> QED  BY <1>1, <1>2, <1>3, <1>4, Zenon DEF Caller

-----------------------------------------------------------------------------
(* The WaitGroup                                                           *)

(* BetweenSteps: a goroutine that was spawned and has not called sg.Done   *)
(* stays among the live ones until it does.                                *)
LEMMA BetweenSteps ==
  ASSUME TypeOK, NEW b \in Bricks,
         \/ View(b) \/ AccessConnection(b) \/ Dial(b) \/ CommandWorks(b) \/ CommandFails(b)
         \/ CommandTimesOut(b) \/ FreeConnection(b) \/ SendErr(b)
  PROVE  /\ b \in Live /\ Live' = Live /\ pc'[b] \notin {"idle", "gone"}
         /\ \A q \in Bricks \ {b} : pc'[q] = pc[q]
         /\ UNCHANGED <<callVars, wg, closed>>
<1>1. PICK to \in {"access", "send", "dial", "run", "free", "finish"} :
        pc' = [pc EXCEPT ![b] = to]
  BY Zenon DEF View, AccessConnection, Dial, CommandWorks, CommandFails, CommandTimesOut,
         FreeConnection, SendErr, Move
<1>2. pc[b] \notin {"idle", "gone"}
  BY Zenon DEF View, AccessConnection, Dial, CommandWorks, CommandFails, CommandTimesOut,
         FreeConnection, SendErr, Move
<1>3. UNCHANGED <<callVars, wg, closed>>
  BY Zenon DEF View, AccessConnection, Dial, CommandWorks, CommandFails, CommandTimesOut,
         FreeConnection, SendErr, sgVars
<1> QED  BY <1>1, <1>2, <1>3, Zenon DEF TypeOK, Live

(* GoroutineCounted: the WaitGroup counts the live goroutines, and none    *)
(* is live when the channel is closed.                                     *)
LEMMA GoroutineCounted ==
  ASSUME TypeOK, GroupInv, NEW b \in Bricks, Goroutine(b) \/ LateEnd(b)
  PROVE  GroupInv'
<1>0. IsFiniteSet(Live)
  BY BrickWorkAssumption, FS_Subset, Zenon DEF Live
<1>1. CASE Spawn(b)
  <2>1. Live' = Live \cup {b} /\ b \notin Live
    BY <1>1, Zenon DEF Spawn, Move, TypeOK, Live
  <2>2. wg' = Cardinality(Live')
    BY <1>0, <1>1, <2>1, FS_AddElement, Zenon DEF Spawn, GroupInv
  <2>3. phase' = "spawn" /\ closed' = closed /\ round' = round /\ phase = "spawn"
    BY <1>1, Zenon DEF Spawn, callVars
  <2>4. round # "done"
    BY <1>1, Zenon DEF GroupInv, Spawn, Move
  <2> QED  BY <2>2, <2>3, <2>4, Zenon DEF GroupInv
<1>2. CASE Done(b)
  <2>1. Live' = Live \ {b} /\ b \in Live
    BY <1>2, Zenon DEF Done, Move, TypeOK, Live
  <2>2. wg' = Cardinality(Live')
    BY <1>0, <1>2, <2>1, FS_RemoveElement, Zenon DEF Done, GroupInv
  <2>3. UNCHANGED <<phase, closed, round>> /\ ~closed
    BY <1>2, <2>1, Zenon DEF Done, callVars, GroupInv, TypeOK
  <2>4. \A q \in Bricks : pc'[q] = "idle" => pc[q] = "idle"
    BY <1>2, Zenon DEF Done, Move, TypeOK
  <2>5. round # "done"
    BY <1>2, Zenon DEF GroupInv, Done, Move
  <2> QED  BY <2>2, <2>3, <2>4, <2>5, Zenon DEF GroupInv
<1>3. CASE LateEnd(b)
  BY <1>3, Zenon DEF LateEnd, goVars, sgVars, callVars, GroupInv, Live
<1>4. CASE Live' = Live /\ b \in Live /\ pc'[b] \notin {"idle", "gone"}
           /\ (\A q \in Bricks \ {b} : pc'[q] = pc[q]) /\ UNCHANGED <<callVars, wg, closed>>
  BY <1>4, Zenon DEF GroupInv, callVars, Live
<1> QED  BY <1>1, <1>2, <1>3, <1>4, BetweenSteps, Zenon DEF Goroutine

(* CallerCounted: the caller closes the channel when no goroutine is live, *)
(* and starts the second round when it is empty.                           *)
LEMMA CallerCounted ==
  ASSUME TypeOK, GroupInv, Caller
  PROVE  GroupInv'
<1>0. IsFiniteSet(Live)
  BY BrickWorkAssumption, FS_Subset, Zenon DEF Live
<1>1. CASE Result
  BY <1>1, Zenon DEF Result, GroupInv, goVars, sgVars, Live
<1>2. CASE Close
  <2>1. Live = {}
    BY <1>0, <1>2, FS_EmptySet, Zenon DEF Close, AllDone, GroupInv
  <2> QED  BY <1>2, <2>1, Zenon DEF Close, GroupInv, goVars, callVars, Live
<1>3. CASE Receive
  BY <1>3, Zenon DEF Receive, GroupInv, goVars, callVars, Live
<1>4. CASE Return
  <2>1. Live = {} /\ wg = Cardinality(Live) /\ \A b \in Bricks : pc[b] = "gone"
    BY <1>4, Zenon DEF Return, GroupInv, Live
  <2>2. Live' = {}
    BY <1>4, <2>1, Zenon DEF Return, Live
  <2> QED  BY <1>4, <2>1, <2>2, Zenon DEF Return, GroupInv
<1> QED  BY <1>1, <1>2, <1>3, <1>4, Zenon DEF Caller

-----------------------------------------------------------------------------
(* The slots of the hosts                                                  *)

(* HostKept: AccessConnection takes a slot that nobody has, FreeConnection *)
(* gives back the goroutine's own.                                         *)
LEMMA HostKept ==
  ASSUME TypeOK, OnePerHost, NEW b \in Bricks, Goroutine(b) \/ LateEnd(b)
  PROVE  OnePerHost'
<1> USE BrickWorkAssumption DEF TypeOK, OnePerHost, Move
<1>1. CASE AccessConnection(b)
  BY <1>1, Zenon DEF AccessConnection, Open
<1>2. CASE FreeConnection(b)
  BY <1>2, Zenon DEF FreeConnection
<1>3. CASE slot' = slot /\ (pc'[b] \in {"dial", "run", "free"} => pc[b] \in {"dial", "run", "free"})
           /\ \A q \in Bricks \ {b} : pc'[q] = pc[q]
  BY <1>3, Zenon
<1>4. CASE LateEnd(b)
  BY <1>4, Zenon DEF LateEnd, goVars
<1>5. CASE \/ Spawn(b) \/ View(b) \/ Dial(b) \/ CommandWorks(b) \/ CommandFails(b)
           \/ CommandTimesOut(b) \/ SendErr(b) \/ Done(b)
  <2>1. slot' = slot
    BY <1>5, Zenon DEF Spawn, View, Dial, CommandWorks, CommandFails, CommandTimesOut, SendErr, Done
  <2>2. pc'[b] \in {"dial", "run", "free"} => pc[b] \in {"dial", "run", "free"}
    BY <1>5 DEF Spawn, View, Dial, CommandWorks, CommandFails, CommandTimesOut, SendErr, Done
  <2>3. \A q \in Bricks \ {b} : pc'[q] = pc[q]
    BY <1>5, ZenonT(40) DEF Spawn, View, Dial, CommandWorks, CommandFails, CommandTimesOut, SendErr, Done
  <2> QED  BY <1>3, <2>1, <2>2, <2>3, Zenon
<1> QED  BY <1>1, <1>2, <1>4, <1>5, Zenon DEF Goroutine

-----------------------------------------------------------------------------
(* The errors                                                              *)

(* GoroutineReports: an error is recorded before it is sent, and sending   *)
(* it puts it into the channel.                                            *)
LEMMA GoroutineReports ==
  ASSUME TypeOK, ErrorInv, NEW b \in Bricks, Goroutine(b) \/ LateEnd(b)
  PROVE  ErrorInv'
<1> USE DEF TypeOK, Move
<1>1. CASE SendErr(b)
  <2>0. results = <<>>
    BY <1>1 DEF SendErr, Room
  <2>1. results' = <<err[b]>> /\ Head(results') = err[b]
    BY <1>1, <2>0, SMTT(30) DEF SendErr
  <2>2. /\ Sent(b)' /\ \A q \in Bricks \ {b} : Sent(q)' <=> Sent(q)
        /\ UNCHANGED <<err, status, callVars>> /\ ~Sent(b)
    BY <1>1, Zenon DEF SendErr, Sent
  <2>3. (\E q \in Bricks : Sent(q) /\ err[q] # None)' <=>
          (\E q \in Bricks : Sent(q) /\ err[q] # None) \/ err[b] # None
    BY <2>2, Zenon
  <2>4. Reported' <=> Reported \/ err[b] # None
    BY <2>0, <2>1, <2>2, Zenon DEF Reported
  <2> QED  BY <2>2, <2>3, <2>4, Zenon DEF ErrorInv, callVars
<1>2. ASSUME UNCHANGED <<results, status, callVars>>,
             \A q \in Bricks : Sent(q)' <=> Sent(q),
             \A q \in Bricks : Sent(q) => err'[q] = err[q]
      PROVE  ErrorInv'
  BY <1>2, Zenon DEF ErrorInv, Reported, callVars
<1>3. CASE \/ Spawn(b) \/ View(b) \/ AccessConnection(b) \/ Dial(b) \/ CommandWorks(b)
           \/ CommandFails(b) \/ CommandTimesOut(b) \/ FreeConnection(b) \/ Done(b)
  <2>1. UNCHANGED <<results, status, callVars>>
    BY <1>3, Zenon DEF Spawn, View, AccessConnection, Dial, CommandWorks, CommandFails,
                CommandTimesOut, FreeConnection, Done, sgVars
  <2>2. \A q \in Bricks : Sent(q)' <=> Sent(q)
    BY <1>3, Zenon DEF Spawn, View, AccessConnection, Dial, CommandWorks, CommandFails,
                CommandTimesOut, FreeConnection, Done, Sent
  <2>3. \A q \in Bricks : Sent(q) => err'[q] = err[q]
    BY <1>3, Zenon DEF Spawn, View, AccessConnection, Dial, CommandWorks, CommandFails,
                CommandTimesOut, FreeConnection, Done, Sent
  <2> QED  BY <1>2, <2>1, <2>2, <2>3, Zenon
<1>4. CASE LateEnd(b)
  BY <1>2, <1>4, Zenon DEF LateEnd, goVars, sgVars, Sent
<1> QED  BY <1>1, <1>3, <1>4, Zenon DEF Goroutine

(* CallerReports: Receive saves an error for good, Return begins a round   *)
(* without errors or ends the job.                                         *)
LEMMA CallerReports ==
  ASSUME TypeOK, ErrorInv, Caller
  PROVE  ErrorInv'
<1>1. CASE Result
  BY <1>1, Zenon DEF Result, ErrorInv, Reported, Sent, goVars, sgVars
<1>2. CASE Close
  BY <1>2, Zenon DEF Close, ErrorInv, Reported, Sent, goVars, callVars
<1>3. CASE Receive
  <2>1. PICK e \in Bricks \cup {None} : results = <<e>>
    BY <1>3, Zenon DEF Receive, TypeOK
  <2>2. Head(results) = e /\ results' = <<>> /\ status' = IF e # None THEN e ELSE status
    BY <1>3, <2>1 DEF Receive, SaveError
  <2>3. Reported' <=> Reported
    BY <2>1, <2>2, Zenon DEF Reported
  <2> QED  BY <1>3, <2>3, Zenon DEF Receive, ErrorInv, Sent, goVars, callVars
<1>4. CASE Return
  <2>1. CASE round' = "done"
    BY <1>4, <2>1, Zenon DEF ErrorInv
  <2>2. CASE round' # "done"
    <3>1. round = "create" /\ status # None /\ round' = "destroy"
      BY <1>4, <2>2, Zenon DEF Return
    <3>2. ~Reported'
      BY <1>4, Zenon DEF Return, Reported
    <3>3. \A b \in Bricks : ~Sent(b)'
      BY <1>4, <2>2, Zenon DEF Return, Sent
    <3>4. job' = "create" /\ answer' # None
      BY <1>4, <3>1, Zenon DEF Return, ErrorInv
    <3> QED  BY <3>1, <3>2, <3>3, <3>4, Zenon DEF ErrorInv
  <2> QED  BY <2>1, <2>2, Zenon
<1> QED  BY <1>1, <1>2, <1>3, <1>4, Zenon DEF Caller

-----------------------------------------------------------------------------
(* What is on the hosts                                                    *)

(* MadeStep: each command of BrickCreate works on what the ones before it  *)
(* have made, and adds its part; with all of them the brick is complete.   *)
LEMMA MadeStep ==
  /\ Made(0) = {} /\ Made(6) = Parts
  /\ \A n \in 1..6 : LET c == CreateCommands[7 - n]
                     IN  Works(c, Made(6 - n)) /\ Effect(c, Made(6 - n)) = Made(7 - n)
<1>1. Made(0) = {} /\ Made(6) = Parts
  BY DEF Made, Parts
<1>2. ASSUME NEW n \in 1..6
      PROVE  LET c == CreateCommands[7 - n]
             IN  Works(c, Made(6 - n)) /\ Effect(c, Made(6 - n)) = Made(7 - n)
  <2> USE DEF CreateCommands, Works, Effect, Made, Parts
  <2>1. CASE n = 6  BY <2>1
  <2>2. CASE n = 5  BY <2>2
  <2>3. CASE n = 4  BY <2>3
  <2>4. CASE n = 3  BY <2>4, SMTT(30)
  <2>5. CASE n = 2  BY <2>5, SMTT(30)
  <2>6. CASE n = 1  BY <2>6
  <2> HIDE DEF CreateCommands, Works, Effect, Made, Parts
  <2> QED  BY <2>1, <2>2, <2>3, <2>4, <2>5, <2>6, SMTT(30)
<1> QED  BY <1>1, <1>2, Zenon

(* MadeRemovable: BrickDestroy can remove what BrickCreate has made,       *)
(* however far it came.                                                    *)
LEMMA MadeRemovable == \A k \in 0..6 : Removable(Made(k))
  BY SMTT(30) DEF Made, Parts, Removable

(* RemoveStep: a call of BrickDestroy keeps a brick removable; whether its *)
(* command works or finds nothing to do, what the call is for is gone.     *)
LEMMA RemoveStep ==
  ASSUME NEW c \in 1..4, NEW parts \in SUBSET AllParts, Removable(parts)
  PROVE  LET d == DestroyCommands[5 - c]
         IN  /\ Removable(Effect(d, parts))
             /\ Removed(c, parts) =>
                  IF Works(d, parts) THEN Removed(c - 1, Effect(d, parts))
                                     ELSE Removed(c - 1, parts)
<1> USE DEF DestroyCommands, Works, Effect, Removable, Removed, AllParts, Parts
<1>1. CASE c = 4  BY <1>1
<1>2. CASE c = 3  BY <1>2, SMTT(30)
<1>3. CASE c = 2  BY <1>3, SMTT(30)
<1>4. CASE c = 1  BY <1>4
<1> HIDE DEF DestroyCommands, Works, Effect, Removable, Removed, AllParts, Parts
<1> QED  BY <1>1, <1>2, <1>3, <1>4, SMTT(30)

(* A step that has nothing to do with brick q.                             *)
Untouched(q) ==
  /\ pc'[q] = pc[q] /\ calls'[q] = calls[q] /\ left'[q] = left[q] /\ failed'[q] = failed[q]
  /\ err'[q] = err[q] /\ disk'[q] = disk[q] /\ late'[q] = late[q]
  /\ q \in timedOut' <=> q \in timedOut
  /\ q \in hindered' <=> q \in hindered
  /\ job' = job /\ round' = round /\ answer' = answer

(* UntouchedKept: the goroutines of other bricks change nothing for q.     *)
LEMMA UntouchedKept ==
  ASSUME NEW q, BrickInv(q), Untouched(q)
  PROVE  BrickInv(q)'
<1> USE DEF BrickInv, Untouched
<1>1. CallInv(q)'
  BY Zenon DEF CallInv
<1>2. QuietInv(q)'
  BY Zenon DEF QuietInv
<1>3. CreateInv(q)'
  BY Zenon DEF CreateInv
<1>4. DestroyInv(q)'
  BY Zenon DEF DestroyInv
<1>5. DoneInv(q)'
  BY Zenon DEF DoneInv
<1> QED  BY <1>1, <1>2, <1>3, <1>4, <1>5, Zenon

(* OthersUntouched: a goroutine works on its own brick only.               *)
LEMMA OthersUntouched ==
  ASSUME TypeOK, NEW b \in Bricks, Goroutine(b) \/ LateEnd(b), NEW q \in Bricks \ {b}
  PROVE  Untouched(q)
<1> USE DEF TypeOK, Move, Untouched, Fault, callVars, goVars, sgVars, hostVars
<1>1. CASE Spawn(b)             BY <1>1, Zenon DEF Spawn
<1>2. CASE View(b)              BY <1>2, Zenon DEF View
<1>3. CASE AccessConnection(b)  BY <1>3, Zenon DEF AccessConnection
<1>4. CASE Dial(b)              BY <1>4, Zenon DEF Dial
<1>5. CASE CommandWorks(b)      BY <1>5, Zenon DEF CommandWorks
<1>6. CASE CommandFails(b)      BY <1>6, Zenon DEF CommandFails
<1>7. CASE CommandTimesOut(b)   BY <1>7, Zenon DEF CommandTimesOut
<1>8. CASE FreeConnection(b)    BY <1>8, Zenon DEF FreeConnection
<1>9. CASE SendErr(b)           BY <1>9, Zenon DEF SendErr
<1>10. CASE Done(b)             BY <1>10, Zenon DEF Done
<1>11. CASE LateEnd(b)          BY <1>11, Zenon DEF LateEnd
<1> HIDE DEF TypeOK, Move, Untouched, Fault, callVars, goVars, sgVars, hostVars
<1> QED  BY <1>1, <1>2, <1>3, <1>4, <1>5, <1>6, <1>7, <1>8, <1>9, <1>10, <1>11, Zenon DEF Goroutine

(* What most steps of a goroutine leave as it is.                          *)
SameJob == UNCHANGED <<job, round, answer>>

SameDisk(b) == disk'[b] = disk[b] /\ late'[b] = late[b] /\ timedOut' = timedOut

(* The values of the variables of one brick.                               *)
BrickTyped(b) ==
  /\ calls[b] \in 0..4 /\ left[b] \in 0..6 /\ failed[b] \in BOOLEAN
  /\ disk[b] \in SUBSET AllParts

(* SpawnOnDisk: the go statement starts a goroutine; its brick is as it    *)
(* was.                                                                    *)
LEMMA SpawnOnDisk ==
  ASSUME TypeOK, GroupInv, NEW b \in Bricks, BrickInv(b), Spawn(b)
  PROVE  BrickInv(b)'
<1> USE DEF SameJob, SameDisk
<1>1. SameJob /\ SameDisk(b) /\ hindered' = hindered /\ pc[b] = "idle" /\ pc'[b] = "view"
  BY Zenon DEF TypeOK, Spawn, Move, callVars, hostVars
<1>2. round # "done"
  BY <1>1, Zenon DEF GroupInv
<1> QED  BY <1>1, <1>2, Zenon DEF BrickInv, CallInv, QuietInv, CreateInv, DestroyInv, DoneInv,
                           Calling, Ending

(* ViewOnDisk: the View of the brick fixes the commands to run, or is the  *)
(* error to report.                                                        *)
LEMMA ViewOnDisk ==
  ASSUME TypeOK, GroupInv, NEW b \in Bricks, BrickInv(b), View(b)
  PROVE  BrickInv(b)'
<1> USE DEF SameJob, SameDisk
<1>1. SameJob /\ SameDisk(b) /\ pc[b] = "view" /\ round # "done"
  BY Zenon DEF TypeOK, View, Move, callVars, GroupInv
<1>2. \/ /\ pc'[b] = "access" /\ hindered' = hindered
         /\ calls'[b] = IF round = "create" THEN 0 ELSE 4
         /\ left'[b] = IF round = "create" THEN 6 ELSE 1
      \/ /\ pc'[b] = "send" /\ err'[b] # None
         /\ round = "destroy" => b \in hindered'
  BY BrickWorkAssumption, SMTT(30)
     DEF TypeOK, View, Move, Fault, CreateCommands, DestroyCommands
<1>3. CASE pc'[b] = "access"
  <2>1. round \in {"create", "destroy"}
    BY <1>1, Zenon DEF TypeOK
  <2> QED  BY <1>1, <1>2, <1>3, <2>1, MadeStep, SMTT(30)
           DEF BrickInv, CallInv, QuietInv, CreateInv, DestroyInv, DoneInv, Calling, Ending,
               Removed
<1>4. CASE pc'[b] = "send"
  BY <1>1, <1>2, <1>4, Zenon
     DEF BrickInv, CallInv, QuietInv, CreateInv, DestroyInv, DoneInv, Calling, Ending
<1> QED  BY <1>2, <1>3, <1>4, Zenon

(* AccessOnDisk: waiting for the host changes nothing on it.               *)
LEMMA AccessOnDisk ==
  ASSUME TypeOK, GroupInv, NEW b \in Bricks, BrickInv(b), AccessConnection(b)
  PROVE  BrickInv(b)'
<1> USE DEF SameJob, SameDisk
<1>1. /\ SameJob /\ SameDisk(b) /\ pc[b] = "access" /\ pc'[b] = "dial" /\ hindered' = hindered
      /\ calls'[b] = calls[b] /\ left'[b] = left[b] /\ err'[b] = err[b] /\ round # "done"
  BY SMTT(30) DEF TypeOK, AccessConnection, Move, callVars, hostVars, GroupInv
<1> QED  BY <1>1, Zenon DEF BrickInv, CallInv, QuietInv, CreateInv, DestroyInv, DoneInv, Calling,
                     Ending

(* DialOnDisk: a connection that fails ends the call before any command.   *)
LEMMA DialOnDisk ==
  ASSUME TypeOK, GroupInv, NEW b \in Bricks, BrickInv(b), Dial(b)
  PROVE  BrickInv(b)'
<1> USE DEF SameJob, SameDisk, BrickTyped
<1>0. BrickTyped(b)
  BY Zenon DEF TypeOK
<1>1. /\ SameJob /\ SameDisk(b) /\ pc[b] = "dial" /\ round # "done"
      /\ calls'[b] = calls[b] /\ left'[b] = left[b] /\ err'[b] = err[b]
  BY Zenon DEF TypeOK, Dial, Move, callVars, GroupInv
<1>2. \/ pc'[b] = "run" /\ hindered' = hindered
      \/ /\ pc'[b] = "free" /\ failed'[b] = TRUE
         /\ round = "destroy" => b \in hindered'
  BY Zenon DEF TypeOK, Dial, Move, Fault
<1>3. left[b] = IF calls[b] = 0 THEN 6 ELSE 1
  BY <1>1, Zenon DEF BrickInv, CallInv
<1>4. IF calls[b] = 0 THEN left[b] \in 1..6 ELSE left[b] = 1
  BY <1>3
<1>5. round = "destroy" => calls[b] # 0
  BY <1>1, Zenon DEF BrickInv, CallInv, Calling
<1>6. calls[b] # 0 /\ round = "create" => err[b] # None
  BY <1>1, Zenon DEF BrickInv, CallInv, Calling
<1>7. CallInv(b)' /\ QuietInv(b)' /\ DoneInv(b)'
  BY <1>1, <1>2, <1>4, <1>5, <1>6, Zenon DEF BrickInv, CallInv, QuietInv, DoneInv
<1>8. CreateInv(b)'
  BY <1>1, <1>2, Zenon DEF BrickInv, CreateInv, Ending
<1>9. DestroyInv(b)'
  BY <1>1, <1>2, Zenon DEF BrickInv, DestroyInv, Ending
<1> QED  BY <1>7, <1>8, <1>9, Zenon DEF BrickInv

(* WorksOnDisk: a command that works adds its part or takes it away.       *)
LEMMA WorksOnDisk ==
  ASSUME TypeOK, GroupInv, NEW b \in Bricks, BrickInv(b), CommandWorks(b)
  PROVE  BrickInv(b)'
<1> USE DEF SameJob, SameDisk, BrickTyped
<1>0. BrickTyped(b)
  BY Zenon DEF TypeOK
<1>1. /\ SameJob /\ pc[b] = "run" /\ round # "done" /\ hindered' = hindered
      /\ timedOut' = timedOut /\ late'[b] = late[b]
      /\ calls'[b] = calls[b] /\ err'[b] = err[b]
  BY Zenon DEF TypeOK, CommandWorks, Move, callVars, GroupInv
<1>2. /\ Works(Command(b), disk[b]) /\ disk'[b] = Effect(Command(b), disk[b])
      /\ left'[b] = left[b] - 1 /\ pc'[b] = IF left[b] = 1 THEN "free" ELSE "run"
  BY SMTT(30) DEF TypeOK, CommandWorks, Move
<1>3. CASE calls[b] = 0
  <2>1. round = "create" /\ left[b] \in 1..6
    BY <1>1, <1>3, Zenon DEF BrickInv, CallInv, Calling, TypeOK
  <2>2. b \notin timedOut /\ disk[b] = Made(6 - left[b]) /\ late[b] = None
    BY <1>1, <1>3, <2>1, Zenon DEF BrickInv, CreateInv, QuietInv
  <2>3. Command(b) = CreateCommands[7 - left[b]]
    <3>1. Len(CreateCommands) + 1 - left[b] = 7 - left[b]
      BY <2>1 DEF CreateCommands
    <3> QED  BY <1>3, <3>1, Zenon DEF Command
  <2>4. disk'[b] = Made(7 - left[b])
    BY <1>2, <2>1, <2>2, <2>3, MadeStep, Zenon
  <2>5. 7 - left[b] \in 0..6 /\ 6 - left'[b] = 7 - left[b] /\ (left[b] = 1 => disk'[b] = Parts)
    BY <1>2, <2>1, <2>4, MadeStep
  <2>6. Removable(disk'[b])
    BY <2>4, <2>5, MadeRemovable, Zenon
  <2>7. pc'[b] = "run" => left'[b] \in 1..6
    BY <1>2, <2>1
  <2>8. pc'[b] \in {"run", "free"} /\ (pc'[b] = "free" => disk'[b] = Parts)
    BY <1>2, <2>5, Zenon
  <2>9. calls'[b] = 0 /\ round' = "create" /\ disk'[b] = Made(6 - left'[b])
        /\ b \notin timedOut' /\ late'[b] = None
    BY <1>1, <1>3, <2>1, <2>2, <2>4, <2>5, Zenon
  <2>10. CallInv(b)'
    BY <2>7, <2>8, <2>9, Zenon DEF CallInv
  <2> QED  BY <2>6, <2>8, <2>9, <2>10, Zenon
           DEF BrickInv, QuietInv, CreateInv, DestroyInv, DoneInv, Ending
<1>4. CASE calls[b] # 0
  <2>1. calls[b] \in 1..4 /\ left[b] = 1 /\ Command(b) = DestroyCommands[5 - calls[b]]
    BY <1>0, <1>1, <1>4, SMTT(30) DEF Command, DestroyCommands, BrickInv, CallInv
  <2>2. b \notin timedOut => Removable(disk'[b])
    BY <1>0, <1>2, <2>1, RemoveStep, Zenon DEF BrickInv, QuietInv
  <2>3. b \notin timedOut /\ Removed(calls[b], disk[b]) => Removed(calls[b] - 1, disk'[b])
    BY <1>0, <1>2, <2>1, RemoveStep, Zenon DEF BrickInv, QuietInv
  <2> QED  BY <1>1, <1>2, <1>4, <2>1, <2>2, <2>3, Zenon
           DEF BrickInv, CallInv, QuietInv, CreateInv, DestroyInv, DoneInv, Calling, Ending
<1> QED  BY <1>3, <1>4, Zenon

(* FailsOnDisk: a command that fails leaves the host as it is; of          *)
(* BrickDestroy only one that had nothing to do fails by itself.           *)
LEMMA FailsOnDisk ==
  ASSUME TypeOK, GroupInv, NEW b \in Bricks, BrickInv(b), CommandFails(b)
  PROVE  BrickInv(b)'
<1> USE DEF SameJob, SameDisk, BrickTyped
<1>0. BrickTyped(b)
  BY Zenon DEF TypeOK
<1>1. /\ SameJob /\ SameDisk(b) /\ pc[b] = "run" /\ pc'[b] = "free" /\ round # "done"
      /\ failed'[b] = TRUE /\ calls'[b] = calls[b] /\ left'[b] = left[b] /\ err'[b] = err[b]
  BY Zenon DEF TypeOK, CommandFails, Move, callVars, GroupInv
<1>2. \/ ~Works(Command(b), disk[b]) /\ hindered' = hindered
      \/ round = "destroy" => b \in hindered'
  BY Zenon DEF CommandFails, Fault
<1>3. ASSUME calls[b] # 0, b \notin timedOut, ~Works(Command(b), disk[b]),
             Removed(calls[b], disk[b])
      PROVE  Removed(calls[b] - 1, disk[b])
  <2>1. calls[b] \in 1..4 /\ Command(b) = DestroyCommands[5 - calls[b]]
    BY <1>0, <1>3, SMTT(30) DEF Command, DestroyCommands
  <2> QED  BY <1>0, <1>3, <2>1, RemoveStep, ZenonT(40) DEF BrickInv, QuietInv
<1> QED  BY <1>0, <1>1, <1>2, <1>3, Zenon
         DEF BrickInv, CallInv, QuietInv, CreateInv, DestroyInv, DoneInv, Calling, Ending

(* TimeoutOnDisk: a command given up at the timeout makes the brick an     *)
(* exception.                                                              *)
LEMMA TimeoutOnDisk ==
  ASSUME TypeOK, GroupInv, NEW b \in Bricks, BrickInv(b), CommandTimesOut(b)
  PROVE  BrickInv(b)'
<1> USE DEF SameJob, SameDisk, BrickTyped
<1>0. BrickTyped(b)
  BY Zenon DEF TypeOK
<1>1. /\ SameJob /\ pc[b] = "run" /\ pc'[b] = "free" /\ round # "done" /\ b \in timedOut'
      /\ failed'[b] = TRUE /\ calls'[b] = calls[b] /\ left'[b] = left[b] /\ err'[b] = err[b]
  BY Zenon DEF TypeOK, CommandTimesOut, Move, callVars, GroupInv
<1> QED  BY <1>0, <1>1, Zenon
         DEF BrickInv, CallInv, QuietInv, CreateInv, DestroyInv, DoneInv, Calling, Ending

(* FreeOnDisk: after a call comes the next one of BrickDestroy, or the     *)
(* report.                                                                 *)
LEMMA FreeOnDisk ==
  ASSUME TypeOK, GroupInv, NEW b \in Bricks, BrickInv(b), FreeConnection(b)
  PROVE  BrickInv(b)'
<1> USE DEF SameJob, SameDisk, BrickTyped
<1>0. BrickTyped(b)
  BY Zenon DEF TypeOK
<1>1. /\ SameJob /\ SameDisk(b) /\ pc[b] = "free" /\ hindered' = hindered /\ round # "done"
      /\ pc'[b] = IF calls'[b] = 0 THEN "send" ELSE "access"
      /\ left'[b] = 1 /\ calls'[b] = CallsAfter(b)
      /\ err'[b] = IF calls[b] = 0 /\ failed[b] THEN b ELSE err[b]
  BY Zenon DEF TypeOK, FreeConnection, Move, callVars, hostVars, GroupInv, CallsAfter,
              DestroyCommands
<1>2. CallsAfter(b) = IF calls[b] = 0 THEN (IF failed[b] THEN 4 ELSE 0) ELSE calls[b] - 1
  BY Zenon DEF CallsAfter, DestroyCommands
<1>3. round = "destroy" => calls[b] \in 1..4
  BY <1>0, <1>1, SMTT(30) DEF BrickInv, CallInv, Calling
<1>4. CASE round = "create"
  BY <1>0, <1>1, <1>2, <1>4, BrickWorkAssumption, Zenon
     DEF BrickInv, CallInv, QuietInv, CreateInv, DestroyInv, DoneInv, Calling, Ending
<1>5. CASE round = "destroy"
  BY <1>0, <1>1, <1>2, <1>3, <1>5, Zenon
     DEF BrickInv, CallInv, QuietInv, CreateInv, DestroyInv, DoneInv, Calling, Ending, Removed
<1> QED  BY <1>1, <1>4, <1>5, Zenon DEF TypeOK

(* EndOnDisk: reporting and ending leave the host as it is.                *)
LEMMA EndOnDisk ==
  ASSUME TypeOK, GroupInv, NEW b \in Bricks, BrickInv(b), SendErr(b) \/ Done(b)
  PROVE  BrickInv(b)'
<1> USE DEF SameJob, SameDisk
<1>1. /\ SameJob /\ SameDisk(b) /\ pc[b] \in Ending /\ pc'[b] \in {"finish", "gone"}
      /\ hindered' = hindered /\ err'[b] = err[b] /\ pc[b] # "gone"
  BY Zenon DEF TypeOK, SendErr, Done, Move, callVars, hostVars, Ending
<1>2. round # "done"
  BY <1>1, Zenon DEF GroupInv
<1> QED  BY <1>1, <1>2, Zenon
         DEF BrickInv, CallInv, QuietInv, CreateInv, DestroyInv, DoneInv, Calling, Ending

(* LateOnDisk: a command that ends after its timeout is one of an          *)
(* excepted brick.                                                         *)
LEMMA LateOnDisk ==
  ASSUME TypeOK, GroupInv, NEW b \in Bricks, BrickInv(b), LateEnd(b)
  PROVE  BrickInv(b)'
<1> USE DEF SameJob, SameDisk
<1>1. /\ SameJob /\ pc'[b] = pc[b] /\ calls'[b] = calls[b] /\ left'[b] = left[b]
      /\ failed'[b] = failed[b] /\ err'[b] = err[b]
      /\ timedOut' = timedOut /\ hindered' = hindered
  BY Zenon DEF LateEnd, callVars, goVars
<1>2. b \in timedOut
  BY Zenon DEF LateEnd, BrickInv, QuietInv
<1> QED  BY <1>1, <1>2, Zenon
         DEF BrickInv, CallInv, QuietInv, CreateInv, DestroyInv, DoneInv

(* GoroutineOnDisk: a step of a brick's goroutine, and the late end of a   *)
(* command of it, keep what is known of the brick.                         *)
LEMMA GoroutineOnDisk ==
  ASSUME TypeOK, GroupInv, NEW b \in Bricks, BrickInv(b), Goroutine(b) \/ LateEnd(b)
  PROVE  BrickInv(b)'
  BY SpawnOnDisk, ViewOnDisk, AccessOnDisk, DialOnDisk, WorksOnDisk, FailsOnDisk, TimeoutOnDisk,
     FreeOnDisk, EndOnDisk, LateOnDisk, Zenon DEF Goroutine

(* CallerOnDisk: the caller itself touches no host; Return closes a round  *)
(* in which every goroutine is gone and every error is known.              *)
LEMMA CallerOnDisk ==
  ASSUME TypeOK, GroupInv, ErrorInv, DiskInv, Caller
  PROVE  DiskInv'
<1>1. CASE Result \/ Close \/ Receive
  <2>1. \A q \in Bricks : Untouched(q)
    BY <1>1, Zenon DEF Result, Close, Receive, Untouched, callVars, goVars, hostVars
  <2> QED  BY <2>1, UntouchedKept, Zenon DEF DiskInv
<1>2. CASE Return
  <2> SUFFICES ASSUME NEW b \in Bricks PROVE BrickInv(b)'
    BY Zenon DEF DiskInv
  <2>1. pc[b] = "gone" /\ round # "done" /\ BrickInv(b) /\ Sent(b)
    BY <1>2, Zenon DEF Return, GroupInv, Live, DiskInv, Sent
  <2>2. /\ UNCHANGED <<job, timedOut, hindered>> /\ disk'[b] = disk[b] /\ late'[b] = late[b]
        /\ left'[b] = left[b] /\ calls'[b] = calls[b] /\ err'[b] = err[b]
    BY <1>2, Zenon DEF Return, hostVars
  <2>3. CASE round = "create" /\ status = None
    <3>1. round' = "done" /\ job' = "create" /\ answer' = None /\ pc'[b] = "gone"
      BY <1>2, <2>1, <2>3, Zenon DEF Return, ErrorInv
    <3>2. err[b] = None
      BY <1>2, <2>1, <2>3, Zenon DEF Return, ErrorInv, Reported
    <3>3. b \notin timedOut /\ disk[b] = Parts
      BY <2>1, <2>3, <3>2, Zenon DEF BrickInv, CreateInv, Ending
    <3> QED  BY <2>1, <2>2, <3>1, <3>3, Zenon
             DEF BrickInv, CallInv, QuietInv, CreateInv, DestroyInv, DoneInv, Calling
  <2>4. CASE round = "create" /\ status # None
    <3>1. round' = "destroy" /\ pc'[b] = "idle"
      BY <1>2, <2>4, Zenon DEF Return
    <3> QED  BY <2>1, <2>2, <3>1, Zenon
             DEF BrickInv, CallInv, QuietInv, CreateInv, DestroyInv, DoneInv, Calling, Ending
  <2>5. CASE round = "destroy"
    <3>1. round' = "done" /\ pc'[b] = "gone" /\ (job = "create" => answer' # None)
      BY <1>2, <2>1, <2>5, Zenon DEF Return, ErrorInv
    <3>2. b \in hindered \cup timedOut \/ disk[b] = {}
      BY <2>1, <2>5, Zenon DEF BrickInv, DestroyInv, Ending
    <3> QED  BY <2>1, <2>2, <3>1, <3>2, Zenon
             DEF BrickInv, CallInv, QuietInv, CreateInv, DestroyInv, DoneInv, Calling
  <2> QED  BY <2>1, <2>3, <2>4, <2>5, Zenon DEF TypeOK
<1> QED  BY <1>1, <1>2, Zenon DEF Caller

-----------------------------------------------------------------------------
(* The invariant and what follows from it                                  *)

(* InitHolds: when CreateBricks or DestroyBricks is called.                *)
LEMMA InitHolds == Init => IInv
<1> SUFFICES ASSUME Init PROVE IInv
  BY Zenon
<1>1. GroupInv
  <2>1. Live = {}
    BY Zenon DEF Init, Live
  <2> QED  BY <2>1, FS_EmptySet, Zenon DEF Init, GroupInv
<1>2. OnePerHost /\ ErrorInv
  BY Zenon DEF Init, OnePerHost, ErrorInv, Reported, Sent
<1>3. DiskInv
  <2> SUFFICES ASSUME NEW b \in Bricks PROVE BrickInv(b)
    BY Zenon DEF DiskInv
  <2>1. Removable({}) /\ Removable(Parts)
    BY MadeStep, MadeRemovable, SMTT(30)
  <2> QED  BY <2>1, Zenon DEF Init, BrickInv, CallInv, QuietInv, CreateInv, DestroyInv, DoneInv,
                       Calling, Ending
<1> QED  BY <1>1, <1>2, <1>3, InitTyped, Zenon DEF IInv

(* Invariance: the inductive invariant holds in every reachable state.     *)
THEOREM Invariance == Spec => []IInv
<1>1. IInv /\ [Next]_vars => IInv'
  <2> SUFFICES ASSUME IInv, [Next]_vars PROVE IInv'
    BY Zenon
  <2>1. CASE Caller
    <3>1. OnePerHost'
      BY <2>1, Zenon DEF Caller, Result, Close, Receive, Return, IInv, GroupInv, Live, OnePerHost,
                  goVars, TypeOK
    <3> QED  BY <2>1, <3>1, CallerTyped, CallerCounted, CallerReports, CallerOnDisk, Zenon DEF IInv
  <2>2. ASSUME NEW b \in Bricks, Goroutine(b) \/ LateEnd(b) PROVE IInv'
    <3>1. BrickInv(b) /\ CallInv(b) /\ wg = Cardinality(Live)
      BY Zenon DEF IInv, DiskInv, BrickInv, GroupInv
    <3>2. TypeOK'
      BY <2>2, <3>1, GoroutineTyped, Zenon DEF IInv
    <3>3. GroupInv' /\ OnePerHost' /\ ErrorInv'
      BY <2>2, GoroutineCounted, HostKept, GoroutineReports, Zenon DEF IInv
    <3>4. BrickInv(b)'
      BY <2>2, <3>1, GoroutineOnDisk, Zenon DEF IInv
    <3>5. \A q \in Bricks \ {b} : BrickInv(q)'
      BY <2>2, OthersUntouched, UntouchedKept, Zenon DEF IInv, DiskInv
    <3> QED  BY <3>2, <3>3, <3>4, <3>5, Zenon DEF IInv, DiskInv
  <2>3. CASE UNCHANGED vars
    <3>1. \A q \in Bricks : Untouched(q)
      BY <2>3, Zenon DEF vars, Untouched, callVars, goVars, hostVars
    <3>2. DiskInv'
      BY <3>1, UntouchedKept, Zenon DEF IInv, DiskInv
    <3>3. TypeOK' /\ GroupInv' /\ OnePerHost' /\ ErrorInv'
      BY <2>3 DEF vars, callVars, goVars, sgVars, hostVars, IInv, TypeOK, GroupInv, Live,
                  OnePerHost, ErrorInv, Reported, Sent
    <3> QED  BY <3>2, <3>3, Zenon DEF IInv
  <2> QED  BY <2>1, <2>2, <2>3, Zenon DEF Next, Returned
<1> QED  BY InitHolds, <1>1, PTL DEF Spec

(* ClosedIsSafe: StatusGroup.Result closes the channel only when no        *)
(* goroutine can send any more, for any number of bricks.                  *)
THEOREM ClosedIsSafe == Spec => []NoSendOnClosed
<1>1. IInv => NoSendOnClosed
  BY Zenon DEF IInv, GroupInv, Live, NoSendOnClosed
<1> QED  BY <1>1, Invariance, PTL

(* SlotsExclusive: at most one goroutine at a time dials or runs commands  *)
(* on a host, however the bricks are spread over the hosts.                *)
THEOREM SlotsExclusive == Spec => []OnePerHost
<1>1. IInv => OnePerHost
  BY Zenon DEF IInv
<1> QED  BY <1>1, Invariance, PTL

(* ErrorsKept: the status that Result returns is an error exactly if some  *)
(* goroutine had one, and bricks are destroyed only with an error to       *)
(* report.                                                                 *)
THEOREM ErrorsKept == Spec => []ErrorKept
<1>1. IInv => ErrorKept
  <2> SUFFICES ASSUME IInv PROVE ErrorKept
    BY Zenon
  <2>1. ASSUME phase = "collect", closed, results = <<>>
        PROVE  (status # None) <=> (\E b \in Bricks : err[b] # None)
    <3>1. round # "done" /\ \A b \in Bricks : Sent(b)
      BY <2>1, Zenon DEF IInv, GroupInv, Live, Sent
    <3>2. Reported <=> status # None
      BY <2>1, Zenon DEF Reported
    <3> QED  BY <3>1, <3>2, Zenon DEF IInv, ErrorInv
  <2> QED  BY <2>1, Zenon DEF IInv, ErrorInv, ErrorKept
<1> QED  BY <1>1, Invariance, PTL

(* CreatedOrRemoved: CreateBricks that succeeds has made every brick, and  *)
(* after one that failed, as after DestroyBricks, nothing is left, but for *)
(* the bricks whose clean-up was hindered or where a command timed out.    *)
THEOREM CreatedOrRemoved == Spec => []AllOrNothing
<1>1. IInv => AllOrNothing
  BY Zenon DEF IInv, DiskInv, BrickInv, DoneInv, AllOrNothing
<1> QED  BY <1>1, Invariance, PTL
=============================================================================
