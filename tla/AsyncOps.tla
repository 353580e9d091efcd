------------------------------ MODULE AsyncOps ------------------------------
(***************************************************************************)
(* A request that the server answers later: AsyncHttpRedirectFunc starts   *)
(* the job and answers 202 with the address of a handler, the client polls *)
(* the handler until the job is done and follows the redirect to the       *)
(* result, if there is one. Requests are those of the Go client. The       *)
(* connection may break after the server has answered, the server may stop *)
(* and start again, and another client may delete what the job made.       *)
(*                                                                         *)
(* What the job does is in Topology and Volumes; here it takes effect or   *)
(* fails. One step is one HTTP request or one step of the job.             *)
(***************************************************************************)
EXTENDS Naturals

CONSTANTS
  Requests,   \* the requests, each sent once
  NoCall      \* of a request that has not been sent

(* The functions of the client, with the status each takes for success.    *)
VolumeCreate == [name |-> "VolumeCreate", success |-> 200]
VolumeExpand == [name |-> "VolumeExpand", success |-> 200]
VolumeDelete == [name |-> "VolumeDelete", success |-> 204]
NodeAdd      == [name |-> "NodeAdd", success |-> 200]
NodeDelete   == [name |-> "NodeDelete", success |-> 204]
DeviceAdd    == [name |-> "DeviceAdd", success |-> 204]
DeviceDelete == [name |-> "DeviceDelete", success |-> 204]

Calls == {VolumeCreate, VolumeExpand, VolumeDelete, NodeAdd, NodeDelete,
          DeviceAdd, DeviceDelete}

(* Mutant: an expanded volume has no address.                              *)
LocatedCreates == {"VolumeCreate", "NodeAdd"}

(* The jobs of the server that end with the address of a result.           *)
Located == {"VolumeCreate", "VolumeExpand", "NodeAdd"}

NoReply == 0    \* the connection broke: an error of httpClient.Do

VARIABLES
  call,     \* per request, the function of the client that sent it
  handler,  \* AsyncHttpManager.handlers: "absent", "pending" or the outcome
  job,      \* "none", "running", "ok", "failed" or, stopped with the server, "lost"
  client,   \* "idle", "poll", "follow" the redirect, "done"
  reply,    \* the status the client ends with
  present,  \* what the job made is still there
  broken    \* a connection of the client broke, or the server stopped, on the way

vars == <<call, handler, job, client, reply, present, broken>>

Outcomes == {"error", "location", "nocontent"}

Init ==
  /\ call    = [r \in Requests |-> NoCall]
  /\ handler = [r \in Requests |-> "absent"]
  /\ job     = [r \in Requests |-> "none"]
  /\ client  = [r \in Requests |-> "idle"]
  /\ reply   = [r \in Requests |-> NoReply]
  /\ present = [r \in Requests |-> FALSE]
  /\ broken  = [r \in Requests |-> FALSE]

-----------------------------------------------------------------------------
(* The client ends with a status.                                          *)
Ends(r, status) ==
  /\ client' = [client EXCEPT ![r] = "done"]
  /\ reply' = [reply EXCEPT ![r] = status]

(* The answer was sent, and the client does not get it.                    *)
Breaks(r) ==
  /\ Ends(r, NoReply)
  /\ broken' = [broken EXCEPT ![r] = TRUE]

(* The client gets past the first request.                                 *)
GoesOn(r, to) ==
  /\ client' = [client EXCEPT ![r] = to]
  /\ UNCHANGED reply

(* AsyncHttpRedirectFunc: the handler is in the map before the goroutine   *)
(* starts and before the address is sent.                                  *)
Accept(r) ==
  /\ client[r] = "idle"
  /\ \E c \in Calls : call' = [call EXCEPT ![r] = c]
  /\ handler' = [handler EXCEPT ![r] = "pending"]
  /\ job' = [job EXCEPT ![r] = "running"]
  /\ \/ GoesOn(r, "poll") /\ UNCHANGED broken
     \/ Breaks(r)
  /\ UNCHANGED present

(* The server refuses the request (400, 404, 409 or 500) before any job.   *)
Refuse(r) ==
  /\ client[r] = "idle"
  /\ \E c \in Calls : call' = [call EXCEPT ![r] = c]
  /\ Ends(r, 400)
  /\ UNCHANGED <<handler, job, present, broken>>

(* handlerfunc returns; what it made is in the database from here on.      *)
Work(r) ==
  /\ job[r] = "running"
  /\ \/ /\ job' = [job EXCEPT ![r] = "ok"]
        /\ present' = [present EXCEPT ![r] = call[r].name \in Located]
     \/ /\ job' = [job EXCEPT ![r] = "failed"]
        /\ UNCHANGED present
  /\ UNCHANGED <<call, handler, client, reply, broken>>

(* Mutant: the error is not looked at.                                     *)
OutcomeOfUrl(r) == IF call[r].name \in Located THEN "location" ELSE "nocontent"

Outcome(r) ==
  IF job[r] = "failed" THEN "error"
  ELSE IF call[r].name \in Located THEN "location" ELSE "nocontent"

(* Mutant: a job that failed never completes its handler.                  *)
FinishedWell(r) == job[r] = "ok"

Finished(r) == job[r] \in {"ok", "failed"}

(* CompletedWithError, CompletedWithLocation or Completed.                 *)
Complete(r) ==
  /\ Finished(r) /\ handler[r] = "pending"
  /\ handler' = [handler EXCEPT ![r] = Outcome(r)]
  /\ UNCHANGED <<call, job, client, reply, present, broken>>

(* HandlerStatus as the client sees it: X-Pending makes it wait and ask    *)
(* again, a redirect is followed inside the same httpClient.Do.            *)
Sees(r, h) ==
  \/ h = "pending" /\ GoesOn(r, "poll")
  \/ h = "location" /\ GoesOn(r, "follow")
  \/ h = "error" /\ Ends(r, 500)
  \/ h = "nocontent" /\ Ends(r, 204)
  \/ h = "absent" /\ Ends(r, 404)

(* Mutant: the handler stays in the map.                                   *)
Kept(h) == h

(* A completed handler is deleted by the request that reports it.          *)
Reported(h) == IF h \in Outcomes THEN "absent" ELSE h

Poll(r) ==
  /\ client[r] = "poll"
  /\ handler' = [handler EXCEPT ![r] = Reported(@)]
  /\ Sees(r, handler[r])
  /\ UNCHANGED <<call, job, present, broken>>

(* The connection of a poll breaks: what HandlerStatus reported is lost.   *)
PollBreaks(r) ==
  /\ client[r] = "poll"
  /\ handler' = [handler EXCEPT ![r] = Reported(@)]
  /\ Breaks(r)
  /\ UNCHANGED <<call, job, present>>

(* The GET of the result: 200, or 404 once it has been deleted.            *)
Follow(r) ==
  /\ client[r] = "follow"
  /\ Ends(r, IF present[r] THEN 200 ELSE 404)
  /\ UNCHANGED <<call, handler, job, present, broken>>

FollowBreaks(r) ==
  /\ client[r] = "follow"
  /\ Breaks(r)
  /\ UNCHANGED <<call, handler, job, present>>

(* Another client deletes what the job made.                               *)
DeletedByOther(r) ==
  /\ present[r]
  /\ present' = [present EXCEPT ![r] = FALSE]
  /\ UNCHANGED <<call, handler, job, client, reply, broken>>

(* The map of handlers and the running jobs are memory of the server.      *)
Restart ==
  /\ handler' = [r \in Requests |-> "absent"]
  /\ job' = [r \in Requests |-> IF job[r] = "running" THEN "lost" ELSE job[r]]
  /\ broken' = [r \in Requests |-> broken[r] \/ client[r] \in {"poll", "follow"}]
  /\ UNCHANGED <<call, client, reply, present>>

Step(r) ==
  \/ Accept(r) \/ Refuse(r) \/ Work(r) \/ Complete(r) \/ Poll(r) \/ PollBreaks(r)
  \/ Follow(r) \/ FollowBreaks(r) \/ DeletedByOther(r)

Next == Restart \/ \E r \in Requests : Step(r)

Spec == Init /\ [][Next]_vars

(* Jobs end (Volumes and BrickWork are about that), a goroutine that has   *)
(* its result stores it, and a client that waits asks again every second.  *)
(* No connection has to break.                                             *)
FairSpec ==
  /\ Spec
  /\ \A r \in Requests :
       WF_vars(Work(r)) /\ WF_vars(Complete(r)) /\ WF_vars(Poll(r)) /\ WF_vars(Follow(r))

-----------------------------------------------------------------------------
(* Properties                                                              *)

(* The client's function returned without an error.                        *)
Succeeded(r) == client[r] = "done" /\ reply[r] = call[r].success

(* SuccessIsTrue: a function of the client returns without an error only   *)
(* if the job took effect, whatever restarts, broken connections and other *)
(* clients do meanwhile.                                                   *)
SuccessIsTrue == \A r \in Requests : Succeeded(r) => job[r] = "ok"

(* FailureIsTrue: if nothing broke on the way, the server did not stop and *)
(* nobody deleted the result, a function of the client that returns an     *)
(* error tells of a request that had no effect: the address the server     *)
(* hands out and the status the client takes for success agree.            *)
FailureIsTrue ==
  \A r \in Requests :
    (client[r] = "done" /\ ~Succeeded(r) /\ job[r] = "ok") =>
      broken[r] \/ (call[r].name \in Located /\ ~present[r])

(* OneReport: a result is reported by one request: the step that tells a   *)
(* client of the outcome takes the handler out of the map, so that the map *)
(* does not keep what has been told.                                       *)
OneReport ==
  \A r \in Requests :
    client[r] = "follow" \/ (client[r] = "done" /\ ~broken[r]) => handler[r] = "absent"

(* WaitEnds: a client that waits for a job does not wait for ever; after a *)
(* restart the missing handler ends the wait.                              *)
WaitEnds == \A r \in Requests : client[r] = "poll" ~> client[r] = "done"
=============================================================================
