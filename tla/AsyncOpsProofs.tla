--------------------------- MODULE AsyncOpsProofs ---------------------------
(***************************************************************************)
(* Proofs about AsyncOps for any number of requests.                       *)
(*                                                                         *)
(* The three properties relate what the client was told to what the job    *)
(* did. Between the two stands the handler, so the inductive invariant     *)
(* follows a request along the way: what the handler says of the job, what *)
(* a client that still polls or follows may rely on, and what a client     *)
(* that is done has been told.                                             *)
(***************************************************************************)
EXTENDS AsyncOps, TLAPS

(* The values a request's variables take.                                  *)
TypeOK ==
  /\ call    \in [Requests -> Calls \cup {NoCall}]
  /\ handler \in [Requests -> Outcomes \cup {"absent", "pending"}]
  /\ job     \in [Requests -> {"none", "running", "ok", "failed", "lost"}]
  /\ client  \in [Requests -> {"idle", "poll", "follow", "done"}]
  /\ reply   \in [Requests -> Nat]
  /\ present \in [Requests -> BOOLEAN]
  /\ broken  \in [Requests -> BOOLEAN]

(* The job of the request ends with the address of a result.               *)
HasAddress(r) == call[r].name \in Located

(* What is known of the job from the handler, before the client has ended. *)
HandlerTells(r) ==
  /\ handler[r] = "pending" => job[r] \in {"running", "ok", "failed"}
  /\ handler[r] = "error" => job[r] = "failed"
  /\ handler[r] = "location" => job[r] = "ok" /\ HasAddress(r)
  /\ handler[r] = "nocontent" => job[r] = "ok" /\ ~HasAddress(r)

(* What is known of a client that has been sent on its way.                *)
OnTheWay(r) ==
  /\ client[r] = "idle" => handler[r] = "absent" /\ job[r] = "none"
  /\ client[r] # "idle" => call[r] \in Calls
  /\ client[r] = "poll" /\ handler[r] = "absent" => broken[r]
  /\ client[r] = "follow" => handler[r] = "absent" /\ job[r] = "ok" /\ HasAddress(r)

(* What is known of a client that has ended.                               *)
Told(r) ==
  client[r] = "done" =>
    /\ reply[r] = 200 => job[r] = "ok" /\ HasAddress(r)
    /\ reply[r] = 204 => job[r] = "ok" /\ ~HasAddress(r)
    /\ ~broken[r] => handler[r] = "absent" /\ job[r] \in {"none", "ok", "failed"}
    /\ ~broken[r] /\ job[r] = "ok" /\ reply[r] \notin {200, 204} =>
         HasAddress(r) /\ ~present[r]

(* The invariant: every request is followed from one end to the other.     *)
IInv ==
  /\ TypeOK
  /\ \A r \in Requests : HandlerTells(r) /\ OnTheWay(r) /\ Told(r)
-----------------------------------------------------------------------------
(* CallsAgree: for every function of the client the status it takes for    *)
(* success is the one the server's outcome leads to: 200 from the address  *)
(* of a result, 204 where there is none.                                   *)
LEMMA CallsAgree ==
  \A c \in Calls : c.success = IF c.name \in Located THEN 200 ELSE 204
  BY DEF Calls, Located, VolumeCreate, VolumeExpand, VolumeDelete, NodeAdd, NodeDelete,
         DeviceAdd, DeviceDelete

(* InitHolds: before any request is sent the invariant holds.              *)
LEMMA InitHolds == Init => IInv
  BY DEF Init, IInv, TypeOK, HandlerTells, OnTheWay, Told, HasAddress, Outcomes, NoReply

(* StepKeeps: each step of a request, of the client, of the handler or of  *)
(* the job keeps the invariant.                                            *)
LEMMA StepKeeps ==
  ASSUME IInv, NEW r \in Requests, Step(r)
  PROVE  IInv'
<1> USE DEF NoReply
<1>1. CASE Accept(r)
  <2>1. TypeOK'
    <3>1. call' \in [Requests -> Calls \cup {NoCall}]
      BY <1>1, Zenon DEF IInv, TypeOK, Accept
    <3>2. client' \in [Requests -> {"idle", "poll", "follow", "done"}]
      BY <1>1 DEF IInv, TypeOK, Accept, GoesOn, Breaks, Ends
    <3>3. reply' \in [Requests -> Nat]
      BY <1>1 DEF IInv, TypeOK, Accept, GoesOn, Breaks, Ends
    <3>4. broken' \in [Requests -> BOOLEAN]
      BY <1>1, Zenon DEF IInv, TypeOK, Accept, GoesOn, Breaks, Ends
    <3> QED  BY <1>1, <3>1, <3>2, <3>3, <3>4, Zenon DEF IInv, TypeOK, Accept
  <2>2. ASSUME NEW q \in Requests PROVE HandlerTells(q)'
    BY <1>1 DEF IInv, TypeOK, Accept, GoesOn, Breaks, Ends, HandlerTells, OnTheWay,
                HasAddress
  <2>3. ASSUME NEW q \in Requests PROVE OnTheWay(q)'
    BY <1>1 DEF IInv, TypeOK, Accept, GoesOn, Breaks, Ends, HandlerTells, OnTheWay,
                HasAddress
  <2>4. ASSUME NEW q \in Requests PROVE Told(q)'
    BY <1>1 DEF IInv, TypeOK, Accept, GoesOn, Breaks, Ends, HandlerTells, OnTheWay, Told,
                HasAddress
  <2> QED  BY <2>1, <2>2, <2>3, <2>4, Zenon DEF IInv
<1>2. CASE Refuse(r)
  <2>1. TypeOK'
    BY <1>2 DEF IInv, TypeOK, Refuse, Ends
  <2>2. ASSUME NEW q \in Requests PROVE HandlerTells(q)'
    BY <1>2, Zenon DEF IInv, TypeOK, Refuse, Ends, HandlerTells, OnTheWay, HasAddress
  <2>3. ASSUME NEW q \in Requests PROVE OnTheWay(q)'
    BY <1>2, Zenon DEF IInv, TypeOK, Refuse, Ends, HandlerTells, OnTheWay, HasAddress
  <2>4. ASSUME NEW q \in Requests PROVE Told(q)'
    BY <1>2 DEF IInv, TypeOK, Refuse, Ends, HandlerTells, OnTheWay, Told, HasAddress
  <2> QED  BY <2>1, <2>2, <2>3, <2>4, Zenon DEF IInv
<1>3. CASE Work(r)
  <2>1. TypeOK'
    <3>1. \/ present' = present
          \/ present' = [present EXCEPT ![r] = TRUE]
          \/ present' = [present EXCEPT ![r] = FALSE]
      BY <1>3 DEF Work
    <3>2. present' \in [Requests -> BOOLEAN]
      BY <3>1, Zenon DEF IInv, TypeOK
    <3> QED  BY <1>3, <3>2, Zenon DEF IInv, TypeOK, Work
  <2>2. ASSUME NEW q \in Requests PROVE HandlerTells(q)'
    BY <1>3 DEF IInv, TypeOK, Work, HandlerTells, OnTheWay, HasAddress
  <2>3. ASSUME NEW q \in Requests PROVE OnTheWay(q)'
    BY <1>3, Zenon DEF IInv, TypeOK, Work, HandlerTells, OnTheWay, HasAddress
  <2>4. ASSUME NEW q \in Requests PROVE Told(q)'
    BY <1>3 DEF IInv, TypeOK, Work, HandlerTells, OnTheWay, Told, HasAddress
  <2> QED  BY <2>1, <2>2, <2>3, <2>4, Zenon DEF IInv
<1>4. CASE Complete(r)
  <2>1. TypeOK'
    BY <1>4, Zenon DEF IInv, TypeOK, Complete, Finished, Outcome, Outcomes
  <2>2. ASSUME NEW q \in Requests PROVE HandlerTells(q)'
    BY <1>4, Zenon DEF IInv, TypeOK, Complete, Finished, Outcome, HandlerTells, OnTheWay,
                HasAddress
  <2>3. ASSUME NEW q \in Requests PROVE OnTheWay(q)'
    BY <1>4, Zenon DEF IInv, TypeOK, Complete, Finished, Outcome, HandlerTells, OnTheWay,
                HasAddress
  <2>4. ASSUME NEW q \in Requests PROVE Told(q)'
    BY <1>4 DEF IInv, TypeOK, Complete, Finished, Outcome, HandlerTells, OnTheWay, Told,
                HasAddress
  <2> QED  BY <2>1, <2>2, <2>3, <2>4, Zenon DEF IInv
<1>5. CASE Poll(r)
  <2>1. TypeOK'
    BY <1>5 DEF IInv, TypeOK, Poll, Sees, GoesOn, Ends, Reported
  <2>2. ASSUME NEW q \in Requests PROVE HandlerTells(q)'
    BY <1>5 DEF IInv, TypeOK, Poll, Sees, GoesOn, Ends, Reported, Outcomes, HandlerTells,
                OnTheWay, HasAddress
  <2>3. ASSUME NEW q \in Requests PROVE OnTheWay(q)'
    BY <1>5 DEF IInv, TypeOK, Poll, Sees, GoesOn, Ends, Reported, Outcomes, HandlerTells,
                OnTheWay, HasAddress
  <2>4. ASSUME NEW q \in Requests PROVE Told(q)'
    BY <1>5 DEF IInv, TypeOK, Poll, Sees, GoesOn, Ends, Reported, Outcomes, HandlerTells,
                OnTheWay, Told, HasAddress
  <2> QED  BY <2>1, <2>2, <2>3, <2>4, Zenon DEF IInv
<1>6. CASE PollBreaks(r)
  <2>1. TypeOK'
    BY <1>6, Zenon DEF IInv, TypeOK, PollBreaks, Breaks, Ends, Reported
  <2>2. ASSUME NEW q \in Requests PROVE HandlerTells(q)'
    BY <1>6, Zenon DEF IInv, TypeOK, PollBreaks, Breaks, Ends, Reported, Outcomes, HandlerTells,
                OnTheWay, HasAddress
  <2>3. ASSUME NEW q \in Requests PROVE OnTheWay(q)'
    BY <1>6 DEF IInv, TypeOK, PollBreaks, Breaks, Ends, Reported, Outcomes, HandlerTells,
                OnTheWay, HasAddress
  <2>4. ASSUME NEW q \in Requests PROVE Told(q)'
    BY <1>6 DEF IInv, TypeOK, PollBreaks, Breaks, Ends, Reported, Outcomes, HandlerTells,
                OnTheWay, Told, HasAddress
  <2> QED  BY <2>1, <2>2, <2>3, <2>4, Zenon DEF IInv
<1>7. CASE Follow(r)
  <2>1. TypeOK'
    BY <1>7 DEF IInv, TypeOK, Follow, Ends
  <2>2. ASSUME NEW q \in Requests PROVE HandlerTells(q)'
    BY <1>7, Zenon DEF IInv, TypeOK, Follow, Ends, HandlerTells, OnTheWay, HasAddress
  <2>3. ASSUME NEW q \in Requests PROVE OnTheWay(q)'
    BY <1>7, Zenon DEF IInv, TypeOK, Follow, Ends, HandlerTells, OnTheWay, HasAddress
  <2>4. ASSUME NEW q \in Requests PROVE Told(q)'
    BY <1>7 DEF IInv, TypeOK, Follow, Ends, HandlerTells, OnTheWay, Told, HasAddress
  <2> QED  BY <2>1, <2>2, <2>3, <2>4, Zenon DEF IInv
<1>8. CASE FollowBreaks(r)
  <2>1. TypeOK'
    BY <1>8, Zenon DEF IInv, TypeOK, FollowBreaks, Breaks, Ends
  <2>2. ASSUME NEW q \in Requests PROVE HandlerTells(q)'
    BY <1>8, Zenon DEF IInv, TypeOK, FollowBreaks, Breaks, Ends, HandlerTells, OnTheWay, HasAddress
  <2>3. ASSUME NEW q \in Requests PROVE OnTheWay(q)'
    BY <1>8, Zenon DEF IInv, TypeOK, FollowBreaks, Breaks, Ends, HandlerTells, OnTheWay, HasAddress
  <2>4. ASSUME NEW q \in Requests PROVE Told(q)'
    BY <1>8 DEF IInv, TypeOK, FollowBreaks, Breaks, Ends, HandlerTells, OnTheWay, Told,
                HasAddress
  <2> QED  BY <2>1, <2>2, <2>3, <2>4, Zenon DEF IInv
<1>9. CASE DeletedByOther(r)
  <2>1. TypeOK'
    BY <1>9, Zenon DEF IInv, TypeOK, DeletedByOther
  <2>2. ASSUME NEW q \in Requests PROVE HandlerTells(q)'
    BY <1>9, Zenon DEF IInv, TypeOK, DeletedByOther, HandlerTells, OnTheWay, HasAddress
  <2>3. ASSUME NEW q \in Requests PROVE OnTheWay(q)'
    BY <1>9, Zenon DEF IInv, TypeOK, DeletedByOther, HandlerTells, OnTheWay, HasAddress
  <2>4. ASSUME NEW q \in Requests PROVE Told(q)'
    BY <1>9 DEF IInv, TypeOK, DeletedByOther, HandlerTells, OnTheWay, Told, HasAddress
  <2> QED  BY <2>1, <2>2, <2>3, <2>4, Zenon DEF IInv
<1> QED  BY <1>1, <1>2, <1>3, <1>4, <1>5, <1>6, <1>7, <1>8, <1>9, Zenon DEF Step

(* RestartKeeps: a restart empties the map of handlers and stops the jobs; *)
(* the clients that wait are marked as cut off.                            *)
LEMMA RestartKeeps ==
  ASSUME IInv, Restart
  PROVE  IInv'
<1>1. TypeOK'
  BY Zenon DEF IInv, TypeOK, Restart
<1>2. ASSUME NEW q \in Requests PROVE HandlerTells(q)'
  BY Zenon DEF IInv, TypeOK, Restart, HandlerTells, OnTheWay, HasAddress
<1>3. ASSUME NEW q \in Requests PROVE OnTheWay(q)'
  BY Zenon DEF IInv, TypeOK, Restart, HandlerTells, OnTheWay, HasAddress
<1>4. ASSUME NEW q \in Requests PROVE Told(q)'
  BY DEF IInv, TypeOK, Restart, HandlerTells, OnTheWay, Told, HasAddress
<1> QED  BY <1>1, <1>2, <1>3, <1>4, Zenon DEF IInv

(* Invariance: the inductive invariant holds in every reachable state.     *)
THEOREM Invariance == Spec => []IInv
<1>1. IInv /\ [Next]_vars => IInv'
  <2> SUFFICES ASSUME IInv, [Next]_vars PROVE IInv'
    BY Zenon
  <2>1. CASE UNCHANGED vars
    <3>1. TypeOK'
      BY <2>1, Zenon DEF IInv, TypeOK, vars
    <3>2. ASSUME NEW q \in Requests PROVE HandlerTells(q)'
      BY <2>1, Zenon DEF IInv, HandlerTells, HasAddress, vars
    <3>3. ASSUME NEW q \in Requests PROVE OnTheWay(q)'
      BY <2>1, Zenon DEF IInv, OnTheWay, HasAddress, vars
    <3>4. ASSUME NEW q \in Requests PROVE Told(q)'
      BY <2>1 DEF IInv, Told, HasAddress, vars
    <3> QED  BY <3>1, <3>2, <3>3, <3>4, Zenon DEF IInv
  <2>2. CASE Restart
    BY <2>2, RestartKeeps, Zenon
  <2>3. ASSUME NEW r \in Requests, Step(r) PROVE IInv'
    BY <2>3, StepKeeps, Zenon
  <2> QED  BY <2>1, <2>2, <2>3, Zenon DEF Next
<1> QED  BY InitHolds, <1>1, PTL DEF Spec

(* SuccessHolds: whatever the number of requests, a function of the client *)
(* that returns without an error tells of a job that took effect.          *)
THEOREM SuccessHolds == Spec => []SuccessIsTrue
<1>1. IInv => SuccessIsTrue
  BY CallsAgree DEF IInv, OnTheWay, Told, HasAddress, SuccessIsTrue, Succeeded
<1> QED  BY <1>1, Invariance, PTL

(* FailureHolds: an error of a request that took effect has its reason in  *)
(* a broken connection, a restart or a deletion by another client.         *)
THEOREM FailureHolds == Spec => []FailureIsTrue
<1>1. IInv => FailureIsTrue
  BY CallsAgree DEF IInv, TypeOK, OnTheWay, Told, HasAddress, FailureIsTrue, Succeeded
<1> QED  BY <1>1, Invariance, PTL

(* OneReportHolds: an outcome that a client was told of is no longer in    *)
(* the map of handlers.                                                    *)
THEOREM OneReportHolds == Spec => []OneReport
<1>1. IInv => OneReport
  BY DEF IInv, OnTheWay, Told, OneReport
<1> QED  BY <1>1, Invariance, PTL
=============================================================================
