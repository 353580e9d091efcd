----------------------------- MODULE BrickWork -----------------------------
(***************************************************************************)
(* CreateBricks and DestroyBricks: one goroutine per brick, the            *)
(* StatusGroup that collects their errors, and the executor below them,    *)
(* which lets one caller at a time talk to a host. When a brick could not  *)
(* be created, a second round of goroutines destroys them all.             *)
(*                                                                         *)
(* Volumes takes CreateBricks and DestroyBricks as one step each; this     *)
(* module is what happens inside, down to the commands and what they leave *)
(* on the host. A command that runs into the timeout is given up, but it   *)
(* may go on running: the executor only asks the far end to kill it.       *)
(***************************************************************************)
EXTENDS Naturals, Sequences, FiniteSets

CONSTANTS Bricks, Hosts, HostOf, None,
  MaxFaults \* bound: lookups, connections and commands that go wrong by themselves

(* The bricks are those of a slice: there are finitely many.               *)
ASSUME BrickWorkAssumption ==
  /\ IsFiniteSet(Bricks) /\ None \notin Bricks
  /\ HostOf \in [Bricks -> Hosts] /\ MaxFaults \in Nat

(* The one call of BrickCreate.                                            *)
CreateCommands == <<"mkdir", "lvcreate", "mkfs", "fstab", "mount", "mkbrick">>

(* The calls of BrickDestroy, of one command each.                         *)
DestroyCommands == <<"umount", "lvremove", "rmdir", "sed">>

(* What a brick consists of on its host: the mount point, the thin volume  *)
(* and its pool, the file system, the line in fstab, the mount, and the    *)
(* directory that GlusterFS serves.                                        *)
Parts == {"dir", "lv", "fs", "fstab", "mount", "brick"}

VARIABLES
  job,      \* "create" or "destroy": which of the two was called
  round,    \* "create", "destroy" or "done"
  phase,    \* of the caller: "spawn", then "collect"
  pc,       \* per brick, where its goroutine is
  calls,    \* per brick, calls of BrickDestroy still to make
  left,     \* per brick, commands left in the present call
  failed,   \* per brick, the present call returned an error
  err,      \* per brick, the error its goroutine will report, or None
  slot,     \* Throttlemap: per host, the brick whose goroutine has access
  wg,       \* StatusGroup.wg
  results,  \* StatusGroup.results, a channel with room for one
  closed,   \* results has been closed
  status,   \* StatusGroup.err
  answer,   \* what the job returns: the status of the first round
  disk,     \* per brick, the parts of it there are; "stray": a directory
            \* in the place of the mount
  late,     \* per brick, the command that has outlived its timeout, or None
  faults,   \* how many things have gone wrong
  timedOut, \* history: the bricks a command of which ran into the timeout
  hindered  \* history: the bricks that a call of the destroying round did
            \* not reach, or where a command failed that could have worked

goVars   == <<pc, calls, left, failed, err, slot>>
sgVars   == <<wg, results, closed, status>>
callVars == <<job, round, phase, answer>>
hostVars == <<disk, late, faults, timedOut, hindered>>
vars     == <<callVars, goVars, sgVars, hostVars>>

Init ==
  /\ job \in {"create", "destroy"}
  /\ round   = job
  /\ phase   = "spawn"
  /\ pc      = [b \in Bricks |-> "idle"]
  /\ calls   = [b \in Bricks |-> 0]
  /\ left    = [b \in Bricks |-> 0]
  /\ failed  = [b \in Bricks |-> FALSE]
  /\ err     = [b \in Bricks |-> None]
  /\ slot    = [h \in Hosts |-> None]
  /\ wg      = 0
  /\ results = <<>>
  /\ closed  = FALSE
  /\ status  = None
  /\ answer  = None
  /\ disk = [b \in Bricks |-> IF job = "create" THEN {} ELSE Parts]
  /\ late = [b \in Bricks |-> None]
  /\ faults = 0 /\ timedOut = {} /\ hindered = {}

-----------------------------------------------------------------------------
(* The goroutine of brick b                                                *)

Move(b, from, to) == pc[b] = from /\ pc' = [pc EXCEPT ![b] = to]

(* sg.Add(1) and the go statement.                                         *)
Spawn(b) ==
  /\ phase = "spawn"
  /\ Move(b, "idle", "view")
  /\ wg' = wg + 1
  /\ err' = [err EXCEPT ![b] = None]
  /\ UNCHANGED <<callVars, calls, left, failed, slot, results, closed, status, hostVars>>

(* Something goes wrong for brick b. It matters to what is left on the     *)
(* host when the destroying round does not do its work.                    *)
Fault(b) ==
  /\ faults < MaxFaults
  /\ faults' = faults + 1
  /\ hindered' = IF round = "destroy" THEN hindered \cup {b} ELSE hindered

(* The View of BrickEntry.Create or Destroy: a node that is gone is the    *)
(* goroutine's error.                                                      *)
View(b) ==
  /\ \/ /\ Move(b, "view", "access")
        /\ calls' = [calls EXCEPT ![b] = IF round = "create" THEN 0 ELSE Len(DestroyCommands)]
        /\ left' = [left EXCEPT ![b] = IF round = "create" THEN Len(CreateCommands) ELSE 1]
        /\ UNCHANGED <<err, faults, hindered>>
     \/ /\ Move(b, "view", "send")
        /\ err' = [err EXCEPT ![b] = b]
        /\ Fault(b)
        /\ UNCHANGED <<calls, left>>
  /\ UNCHANGED <<callVars, failed, slot, sgVars, disk, late, timedOut>>

(* Mutant: no limit on the callers of a host.                              *)
AlwaysOpen(h) == TRUE

(* The channel of a host has room for one.                                 *)
Open(h) == slot[h] = None

AccessConnection(b) ==
  /\ Open(HostOf[b])
  /\ Move(b, "access", "dial")
  /\ slot' = [slot EXCEPT ![HostOf[b]] = b]
  /\ failed' = [failed EXCEPT ![b] = FALSE]
  /\ UNCHANGED <<callVars, calls, left, err, sgVars, hostVars>>

(* ssh.Dial, or the clients kubeexec sets up.                              *)
Dial(b) ==
  /\ \/ Move(b, "dial", "run") /\ UNCHANGED <<failed, faults, hindered>>
     \/ /\ Move(b, "dial", "free")
        /\ failed' = [failed EXCEPT ![b] = TRUE]
        /\ Fault(b)
  /\ UNCHANGED <<callVars, calls, left, err, slot, sgVars, disk, late, timedOut>>

(* When a command can work, given the parts there are.                     *)
Works(command, parts) ==
  CASE command = "mkdir"    -> TRUE
    [] command = "lvcreate" -> "lv" \notin parts
    [] command = "mkfs"     -> "lv" \in parts /\ "fs" \notin parts
    [] command = "fstab"    -> TRUE
    [] command = "mount"    -> {"dir", "fs"} \subseteq parts /\ "mount" \notin parts
    [] command = "mkbrick"  -> "dir" \in parts
    [] command = "umount"   -> "mount" \in parts
    [] command = "lvremove" -> "lv" \in parts /\ "mount" \notin parts
    [] command = "rmdir"    -> "dir" \in parts /\ parts \cap {"mount", "stray"} = {}
    [] command = "sed"      -> TRUE

(* The parts there are after a command that works.                         *)
Effect(command, parts) ==
  CASE command = "mkdir"    -> parts \cup {"dir"}
    [] command = "lvcreate" -> parts \cup {"lv"}
    [] command = "mkfs"     -> parts \cup {"fs"}
    [] command = "fstab"    -> parts \cup {"fstab"}
    [] command = "mount"    -> parts \cup {"mount"}
    [] command = "mkbrick"  -> parts \cup {IF "mount" \in parts THEN "brick" ELSE "stray"}
    [] command = "umount"   -> parts \ {"mount"}
    [] command = "lvremove" -> parts \ {"lv", "fs", "brick"}
    [] command = "rmdir"    -> parts \ {"dir"}
    [] command = "sed"      -> parts \ {"fstab"}

(* The command the present call has come to.                               *)
Command(b) ==
  IF calls[b] = 0 THEN CreateCommands[Len(CreateCommands) + 1 - left[b]]
  ELSE DestroyCommands[Len(DestroyCommands) + 1 - calls[b]]

CommandWorks(b) ==
  /\ Move(b, "run", IF left[b] = 1 THEN "free" ELSE "run")
  /\ Works(Command(b), disk[b])
  /\ left' = [left EXCEPT ![b] = @ - 1]
  /\ disk' = [disk EXCEPT ![b] = Effect(Command(b), @)]
  /\ UNCHANGED <<callVars, calls, failed, err, slot, sgVars, late, faults, timedOut, hindered>>

(* The first command that fails ends the call: it could not work, or the   *)
(* session could not be set up.                                            *)
CommandFails(b) ==
  /\ Move(b, "run", "free")
  /\ failed' = [failed EXCEPT ![b] = TRUE]
  /\ IF Works(Command(b), disk[b]) THEN Fault(b) ELSE UNCHANGED <<faults, hindered>>
  /\ UNCHANGED <<callVars, calls, left, err, slot, sgVars, disk, late, timedOut>>

(* The timeout ends the call, not the command. Bound: one such command at  *)
(* a time per brick.                                                       *)
CommandTimesOut(b) ==
  /\ late[b] = None
  /\ Move(b, "run", "free")
  /\ failed' = [failed EXCEPT ![b] = TRUE]
  /\ late' = [late EXCEPT ![b] = Command(b)]
  /\ timedOut' = timedOut \cup {b}
  /\ Fault(b)
  /\ UNCHANGED <<callVars, calls, left, err, slot, sgVars, disk>>

(* A command that has outlived its timeout ends, with or without effect.   *)
LateEnd(b) ==
  /\ late[b] # None
  /\ late' = [late EXCEPT ![b] = None]
  /\ \/ Works(late[b], disk[b]) /\ disk' = [disk EXCEPT ![b] = Effect(late[b], @)]
     \/ UNCHANGED disk
  /\ UNCHANGED <<callVars, goVars, sgVars, faults, timedOut, hindered>>

(* Mutant: a call of BrickDestroy is made until it succeeds.               *)
CallsRetried(b) ==
  IF calls[b] = 0 THEN (IF failed[b] THEN Len(DestroyCommands) ELSE 0)
  ELSE IF failed[b] THEN calls[b] ELSE calls[b] - 1

(* Mutant: BrickDestroy stops at the first call that fails.                *)
CallsUntilError(b) ==
  IF calls[b] = 0 THEN (IF failed[b] THEN Len(DestroyCommands) ELSE 0)
  ELSE IF failed[b] THEN 0 ELSE calls[b] - 1

(* The calls to make after the present one: BrickCreate that failed calls  *)
(* BrickDestroy, which goes on whatever its calls return.                  *)
CallsAfter(b) ==
  IF calls[b] = 0 THEN (IF failed[b] THEN Len(DestroyCommands) ELSE 0)
  ELSE calls[b] - 1

(* The deferred FreeConnection, then what the caller of the call does.     *)
FreeConnection(b) ==
  LET next == CallsAfter(b)
  IN  /\ Move(b, "free", IF next = 0 THEN "send" ELSE "access")
      /\ slot' = [slot EXCEPT ![HostOf[b]] = None]
      /\ calls' = [calls EXCEPT ![b] = next]
      /\ left' = [left EXCEPT ![b] = 1]
      /\ err' = [err EXCEPT ![b] = IF calls[b] = 0 /\ failed[b] THEN b ELSE @]
      /\ UNCHANGED <<callVars, failed, sgVars, hostVars>>

Room == Len(results) < 1

(* sg.Err: waits for room in the channel.                                  *)
SendErr(b) ==
  /\ Room
  /\ Move(b, "send", "finish")
  /\ results' = Append(results, err[b])
  /\ UNCHANGED <<callVars, calls, left, failed, err, slot, wg, closed, status, hostVars>>

(* The deferred sg.Done.                                                   *)
Done(b) ==
  /\ Move(b, "finish", "gone")
  /\ wg' = wg - 1
  /\ UNCHANGED <<callVars, calls, left, failed, err, slot, results, closed, status, hostVars>>

-----------------------------------------------------------------------------
(* The caller                                                              *)

(* Result starts when every goroutine has been spawned.                    *)
Result ==
  /\ phase = "spawn" /\ round # "done"
  /\ \A b \in Bricks : pc[b] # "idle"
  /\ phase' = "collect"
  /\ UNCHANGED <<job, round, answer, goVars, sgVars, hostVars>>

(* Mutant: the channel is closed once no error is waiting.                 *)
NothingWaits == results = <<>>

(* wg.Wait returns.                                                        *)
AllDone == wg = 0

Close ==
  /\ phase = "collect" /\ ~closed
  /\ AllDone
  /\ closed' = TRUE
  /\ UNCHANGED <<callVars, goVars, wg, results, status, hostVars>>

(* Mutant: the last result is saved, error or not.                         *)
SaveLast(e) == e

(* Only errors are saved.                                                  *)
SaveError(e) == IF e # None THEN e ELSE status

Receive ==
  /\ phase = "collect" /\ results # <<>>
  /\ status' = SaveError(Head(results))
  /\ results' = Tail(results)
  /\ UNCHANGED <<callVars, goVars, wg, closed, hostVars>>

(* The channel is closed and empty: the loop ends. After a failed create   *)
(* a second StatusGroup and round destroys every brick.                    *)
Return ==
  /\ phase = "collect" /\ closed /\ results = <<>>
  /\ answer' = IF round = job THEN status ELSE answer
  /\ round' = IF round = "create" /\ status # None THEN "destroy" ELSE "done"
  /\ phase' = "spawn"
  /\ pc' = [b \in Bricks |-> IF round' = "done" THEN pc[b] ELSE "idle"]
  /\ closed' = FALSE /\ status' = None
  /\ UNCHANGED <<job, calls, left, failed, err, slot, wg, results, hostVars>>

Goroutine(b) ==
  \/ Spawn(b) \/ View(b) \/ AccessConnection(b) \/ Dial(b)
  \/ CommandWorks(b) \/ CommandFails(b) \/ CommandTimesOut(b)
  \/ FreeConnection(b) \/ SendErr(b) \/ Done(b)

Caller == Result \/ Close \/ Receive \/ Return

(* The job has returned.                                                   *)
Returned == round = "done" /\ UNCHANGED vars

Next == Caller \/ (\E b \in Bricks : Goroutine(b) \/ LateEnd(b)) \/ Returned

Spec == Init /\ [][Next]_vars

(* Goroutines are scheduled; one that waits for a channel goes on when the *)
(* channel stays free. Nothing is assumed of Dial and of the commands: the *)
(* far end may never answer.                                               *)
FairSpec ==
  /\ Spec
  /\ WF_vars(Caller)
  /\ \A b \in Bricks :
       WF_vars(\/ Spawn(b) \/ View(b) \/ AccessConnection(b) \/ FreeConnection(b)
               \/ SendErr(b) \/ Done(b))

-----------------------------------------------------------------------------
(* Properties                                                              *)

(* NoSendOnClosed: no goroutine can still send when the channel has been   *)
(* closed, which would panic and end the server: sg.Err comes before the   *)
(* deferred sg.Done.                                                       *)
NoSendOnClosed ==
  closed => \A b \in Bricks : pc[b] \in {"idle", "gone"}

(* OnePerHost: at any time at most one goroutine dials or runs commands on *)
(* a host, and it is the one that holds the host's slot.                   *)
OnePerHost ==
  \A b \in Bricks : pc[b] \in {"dial", "run", "free"} => slot[HostOf[b]] = b

(* ErrorKept: when Result returns, it returns an error exactly if some     *)
(* brick's goroutine of that round had one (a later success does not hide  *)
(* it), and CreateBricks destroys bricks only if it reports an error.      *)
ErrorKept ==
  /\ (phase = "collect" /\ closed /\ results = <<>>) =>
        ((status # None) <=> (\E b \in Bricks : err[b] # None))
  /\ (round = "destroy" /\ job = "create") => answer # None

(* AllOrNothing: CreateBricks that reports success has made every part of  *)
(* every brick. After one that reports an error, and after DestroyBricks,  *)
(* nothing is left of a brick, whichever commands had run or failed        *)
(* before: the clean-up meets every half-made brick, some for the second   *)
(* time. Excepted are the bricks where the clean-up itself was hindered,   *)
(* and those where a command has outlived its timeout: it may put a part   *)
(* back after the clean-up has passed (see the README).                    *)
AllOrNothing ==
  round = "done" =>
    IF job = "create" /\ answer = None
    THEN \A b \in Bricks : disk[b] = Parts
    ELSE \A b \in Bricks \ (hindered \cup timedOut) : disk[b] = {}

(* CreateReturns: if no goroutine dials or runs a command for ever, the    *)
(* job returns: neither the slots of the hosts nor the channel with room   *)
(* for one makes goroutines wait for each other for ever, and when a brick *)
(* failed the destroying round returns too.                                *)
CreateReturns ==
  (\A b \in Bricks : []<>(pc[b] \notin {"dial", "run"})) => <>(round = "done")
=============================================================================
