----------------------------- MODULE MCLiveness -----------------------------
(***************************************************************************)
(* Thread contexts, and request contexts whose callers keep to the         *)
(* documented order: the parts of which TLC checks that calls return and   *)
(* threads end, with no symmetry.  In one behaviour one of them is used    *)
(* and the other is left alone; they share no state.                       *)
(***************************************************************************)
EXTENDS ThreadCtx, UrlReq

VARIABLE used   \* the part this behaviour is about

(* The thread context is gone, and nobody calls any more.                    *)
Destroyed ==
  /\ ctx = "freed"
  /\ UNCHANGED threadVars

LivenessInit ==
  /\ used \in {"threads", "requests"}
  /\ ThreadInit /\ Init

LivenessNext ==
  \/ used = "threads" /\ (ThreadNext \/ Destroyed) /\ UNCHANGED <<used, vars>>
  \/ used = "requests" /\ Next /\ UNCHANGED <<used, threadVars>>

(* The fairness of the part that is used; a thread context that is not used  *)
(* has no thread that could make a step.                                     *)
Requesting(A) == used = "requests" /\ A
LivenessFairness ==
  /\ ThreadFairness
  /\ WF_vars(Requesting(EventStep \/ CallStep(EventThread)))
  /\ WF_vars(Requesting(MainStep \/ CallStep(Main)))
  /\ \A w \in Workers : WF_vars(Requesting(CallStep(w)))

LivenessSpec ==
  LivenessInit /\ [][LivenessNext]_<<used, threadVars, vars>> /\ LivenessFairness
=============================================================================
