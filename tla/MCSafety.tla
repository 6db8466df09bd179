------------------------------ MODULE MCSafety ------------------------------
(***************************************************************************)
(* Lists, and request contexts whose error paths run: the parts that TLC   *)
(* checks for safety, up to the symmetry of addresses, requests and        *)
(* threads.  In one behaviour one of them is used and the other is left    *)
(* alone; they share no state.                                             *)
(***************************************************************************)
EXTENDS Fifo, UrlReq, TLC

VARIABLE used   \* the part this behaviour is about

SafetyInit ==
  /\ used \in {"lists", "requests"}
  /\ FifoInit /\ Init

SafetyNext ==
  \/ used = "lists" /\ FifoNext /\ UNCHANGED <<used, vars>>
  \/ used = "requests" /\ Next /\ UNCHANGED <<used, fifoVars>>

SafetySpec == SafetyInit /\ [][SafetyNext]_<<used, fifoVars, vars>>

(* Addresses are alike, and so are lists, data, requests and workers.  Only  *)
(* one part is used, so the .cfg takes the workers from the values that      *)
(* stand for lists and the requests from those that stand for data: TLC has  *)
(* fewer permutations to compare.                                            *)
ASSUME SharedValues == Workers = Lists /\ Requests = Data
Symmetry == Permutations(Elements) \cup Permutations(Data) \cup Permutations(Lists)
=============================================================================
