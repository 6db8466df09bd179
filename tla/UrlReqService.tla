--------------------------- MODULE UrlReqService ---------------------------
(***************************************************************************)
(* What include/url_req.h promises of a request context, without threads,  *)
(* locks, pipes or processes: requests are accepted while the service is   *)
(* not stopped, every accepted request is completed by one callback or     *)
(* cancelled by nl_url_req_deinit(), and a service that was only asked to  *)
(* shut down stops when nothing is pending.                                *)
(***************************************************************************)
CONSTANT Requests

VARIABLES
  asked,  \* nl_url_req_shutdown() was called
  phase,  \* "serving", "cancelling" once deinit was called, or "stopped"
  life    \* "new", "rejected", "pending", "completed" or "cancelled"

vars == <<asked, phase, life>>

Pending == {r \in Requests : life[r] = "pending"}

Init ==
  /\ asked = FALSE
  /\ phase = "serving"
  /\ life = [r \in Requests |-> "new"]

Ask ==
  /\ asked' = TRUE
  /\ UNCHANGED <<phase, life>>

\* nl_url_req_add() returns 0 ...
Accept(r) ==
  /\ phase # "stopped"
  /\ life[r] = "new"
  /\ life' = [life EXCEPT ![r] = "pending"]
  /\ UNCHANGED <<asked, phase>>

\* ... or an error, which it may only do once the service is being stopped.
Reject(r) ==
  /\ asked \/ phase # "serving"
  /\ life[r] = "new"
  /\ life' = [life EXCEPT ![r] = "rejected"]
  /\ UNCHANGED <<asked, phase>>

Complete(r) ==
  /\ phase # "stopped"
  /\ life[r] = "pending"
  /\ life' = [life EXCEPT ![r] = "completed"]
  /\ UNCHANGED <<asked, phase>>

Deinit ==
  /\ phase = "serving"
  /\ phase' = "cancelling"
  /\ UNCHANGED <<asked, life>>

Stop ==
  /\ \/ phase = "serving" /\ asked /\ Pending = {}
     \/ phase = "cancelling"
  /\ phase' = "stopped"
  /\ UNCHANGED <<asked, life>>

Cancel ==
  /\ phase = "stopped"
  /\ life' = [r \in Requests |-> IF r \in Pending THEN "cancelled" ELSE life[r]]
  /\ UNCHANGED <<asked, phase>>

Next ==
  \/ Ask \/ Deinit \/ Stop \/ Cancel
  \/ \E r \in Requests : Accept(r) \/ Reject(r) \/ Complete(r)

Spec == Init /\ [][Next]_vars

\* Every request that nl_url_req_add() accepted is answered by its callback,
\* unless nl_url_req_deinit() cancels it.
Settles == \A r \in Requests : life[r] = "pending" ~> life[r] \in {"completed", "cancelled"}
=============================================================================
