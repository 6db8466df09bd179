---------------------------- MODULE StreamProofs ----------------------------
(***************************************************************************)
(* The proofs about the components that read and write streams: a child    *)
(* process behind its pipes, the firmware loader, and opening with a       *)
(* timeout.  They share no state; each part has an inductive invariant of  *)
(* its own.                                                                *)
(***************************************************************************)
EXTENDS Exec, Firmware, OpenTimeout, TLAPS

-----------------------------------------------------------------------------
(***************************************************************************)
(* Processes.  DescriptorsSettled and ReadsAll for any capacity of a pipe, *)
(* any input and any answer, whatever fails.  They are inductive once it is *)
(* said which ends are open and held in a variable at each place of the    *)
(* parent, and that no unit of data is lost between parent and child.      *)
(***************************************************************************)

Alive == {"forked", "running"}
Steps == {"pipes", "forked", "returned", "write", "read", "closein", "wait", "error", "done"}

ExecType ==
  /\ step \in Steps
  /\ call.wanted \subseteq Pipes /\ call.op \in {"none", "popen3", "readall"} /\ call.input \in Nat
  /\ call.op = "readall" => call.wanted \in {{"in", "out"}, {"out"}}
  /\ call.op = "readall" /\ "in" \notin call.wanted => call.input = 0
  /\ call.op # "readall" => call.input = 0
  /\ step # "done" => call.op # "none"
  /\ pipe \in [in : Nat, out : Nat]
  /\ io \in [written : Nat, read : Nat, result : {"none", "NULL", "data"}]
  /\ child \in [state : Alive \cup {"none", "zombie", "reaped"}, kind : {"filter", "sink"},
                holds : {0, 1}, wrote : Nat]

(* The parent's descriptors, and the child's.                                *)
DescriptorInv ==
  /\ faults \subseteq {"not_waited_for"}
  /\ step \in {"pipes", "forked"} => fds = {} /\ cloexec = {} /\ faults = {}
  /\ step = "pipes" => \E made \in SUBSET call.wanted : ends = AllOf(made)
  /\ step = "forked" => ends = AllOf(call.wanted)
  /\ step = "returned" => ends = {Near(p) : p \in call.wanted}
  /\ step = "write" => "in" \in call.wanted /\ ends = {Near("in"), Near("out")}
  /\ step \in {"read", "closein"} => ends = {Near("out")}
  /\ step \in {"wait", "done"} => ends = {}
  /\ step \in {"returned", "write", "read", "closein", "wait", "error", "done"} => fds = ends
  /\ step \in {"write", "read", "closein", "error"} => call.op = "readall"
  /\ step = "returned" => call.op = "popen3"
  /\ step \notin {"error", "done"} => faults = {}

ChildInv ==
  /\ step = "pipes" => child = NoChild /\ kept = {}
  /\ step \notin {"pipes", "done"} => child.state \in Alive \cup {"zombie"}
  /\ step = "done" => child.state \in {"none", "reaped"} \/ "not_waited_for" \in faults
  /\ child.state = "forked" => Far("out") \in kept \/ "out" \notin call.wanted
  /\ child.state = "running" => Far("out") \in kept \/ "out" \notin call.wanted

(* What was written is in the pipe, in the child's hands, or written by it.  *)
DataInv ==
  /\ pipe.in <= Capacity /\ pipe.out <= Capacity
  /\ step \in {"pipes", "forked"} => io.written = 0
  /\ step \in {"pipes", "forked", "write"} => io.read = 0 /\ io.result = "none"
  /\ step \notin {"error", "done"} => io.result # "data"
  /\ step \in {"pipes", "forked"} => pipe.in = 0
  /\ child.kind = "filter" => io.written = pipe.in + child.holds + child.wrote
  /\ child.kind = "sink" => child.holds = 0
  /\ io.read + pipe.out = child.wrote
  /\ io.written <= call.input
  /\ step \in {"read", "closein"} => io.written = call.input
  /\ step = "wait" /\ call.op = "readall" => io.written = call.input
  /\ step = "closein" => pipe.out = 0 /\ child.state = "zombie"
  /\ step = "wait" /\ call.op = "readall" => pipe.out = 0 /\ child.state = "zombie"
  /\ io.result = "data" => step = "done" /\ child.state = "reaped" /\ pipe.out = 0
                           /\ io.written = call.input

ExecInv == ExecType /\ DescriptorInv /\ ChildInv /\ DataInv



-----------------------------------------------------------------------------
(* The ends of pipes.                                                        *)
LEMMA DistinctEnds ==
  /\ \A p, q \in Pipes : Near(p) # Far(q)
  /\ \A p, q \in Pipes : Near(p) = Near(q) => p = q
  /\ \A p, q \in Pipes : Far(p) = Far(q) => p = q
BY DEF Near, Far, Pipes

(* The pipes made so far are read off the open ends, and the next one is one  *)
(* that is wanted and missing.                                                *)
LEMMA MadeOfAll ==
  ASSUME NEW made \in SUBSET Pipes, ends = AllOf(made)
  PROVE  Made = made
BY DistinctEnds DEF Made, AllOf

(* The next pipe to make is one that is wanted and not made yet.              *)
LEMMA NextIsMissing ==
  ASSUME NEW made \in SUBSET call.wanted, made # call.wanted, call.wanted \subseteq Pipes
  PROVE  Next3(made) \in call.wanted \ made
<1> DEFINE P(p) == \/ p = "in"
                   \/ p = "out" /\ ("in" \in made \/ "in" \notin call.wanted)
                   \/ p = "err" /\ call.wanted \ made = {"err"}
<1>1. \E p \in call.wanted \ made : P(p)
  <2>1. CASE "in" \in call.wanted \ made
    BY <2>1
  <2>2. CASE "in" \notin call.wanted \ made /\ "out" \in call.wanted \ made
    BY <2>2
  <2>3. CASE "in" \notin call.wanted \ made /\ "out" \notin call.wanted \ made
    BY <2>3 DEF Pipes
  <2> QED
    BY <2>1, <2>2, <2>3
<1>2. Next3(made) = CHOOSE p \in call.wanted \ made : P(p)
  BY DEF Next3
<1> HIDE DEF P
<1> QED
  BY <1>1, <1>2

-----------------------------------------------------------------------------
(* Each action keeps the invariant, part by part.                            *)
LEMMA ExecStart == ExecInit => ExecInv
BY ExecAssumption DEF ExecInit, ExecInv, ExecType, DescriptorInv, ChildInv, DataInv, NoChild, Steps,
                      Alive, Pipes

(* NextCall keeps the invariant.                                              *)
LEMMA NextCallKeeps ==
  ASSUME ExecInv, NextCall
  PROVE  ExecInv'
<1> USE DEF ExecInv
<1>0. AllOf({}) = {}
  BY DEF AllOf
<1>a. /\ call'.wanted \subseteq {"in", "out", "err"} /\ call'.op \in {"popen3", "readall"}
      /\ call'.input \in Nat
      /\ call'.op = "readall" => call'.wanted \in {{"in", "out"}, {"out"}}
      /\ call'.op = "readall" /\ "in" \notin call'.wanted => call'.input = 0
      /\ call'.op # "readall" => call'.input = 0
  <2>1. CASE call' \in [op : {"popen3"}, wanted : SUBSET Pipes, input : {0}]
    BY <2>1 DEF Pipes
  <2>2. CASE call' \in [op : {"readall"}, wanted : {{"in", "out"}}, input : Inputs]
    BY <2>2, ExecAssumption, ZenonT(60)
  <2>3. CASE call' \in [op : {"readall"}, wanted : {{"out"}}, input : {0}]
    BY <2>3
  <2> QED
    BY <2>1, <2>2, <2>3 DEF NextCall, Calls
<1>b. /\ step' = "pipes" /\ pipe' \in [in : Nat, out : Nat]
      /\ io' \in [written : Nat, read : Nat, result : {"none", "NULL", "data"}]
      /\ child' = NoChild
  BY DEF NextCall
<1>1. ExecType'
  BY <1>a, <1>b DEF NoChild, Pipes, ExecType, Steps, Alive
<1>2. DescriptorInv'
  BY <1>0, ExecAssumption DEF NextCall, DescriptorInv, ExecType
<1>3. ChildInv'
  BY ExecAssumption DEF NextCall, ChildInv, DescriptorInv, ExecType, Alive, NoChild
<1>4. DataInv'
  BY <1>a, ExecAssumption DEF NextCall, DataInv, NoChild
<1> QED
  BY <1>1, <1>2, <1>3, <1>4

(* MakePipe keeps the invariant.                                              *)
LEMMA MakePipeKeeps ==
  ASSUME ExecInv, MakePipe
  PROVE  ExecInv'
<1> USE DEF MakePipe, ExecInv
<1> PICK made \in SUBSET call.wanted : ends = AllOf(made)
  BY DEF DescriptorInv
<1>a. Made = made /\ made # call.wanted
  BY MadeOfAll DEF ExecType
<1>b. Next3(made) \in call.wanted \ made
  BY <1>a, NextIsMissing DEF ExecType
<1>c. ends' = AllOf(made \cup {Next3(made)})
  BY <1>a DEF AllOf
<1>1. ExecType'
  BY ExecAssumption DEF ExecType, Steps, Alive
<1>2. DescriptorInv'
  BY <1>b, <1>c, ExecAssumption DEF DescriptorInv, ExecType
<1>3. ChildInv'
  BY ExecAssumption DEF ChildInv, DescriptorInv, ExecType, Alive, NoChild
<1>4. DataInv'
  BY ExecAssumption DEF DataInv, ChildInv, DescriptorInv, ExecType, Alive, NoChild
<1> QED
  BY <1>1, <1>2, <1>3, <1>4

(* PopenFails keeps the invariant.                                            *)
LEMMA PopenFailsKeeps ==
  ASSUME ExecInv, PopenFails
  PROVE  ExecInv'
<1> USE DEF PopenFails, ExecInv
<1> PICK made \in SUBSET call.wanted : ends = AllOf(made)
  BY DEF DescriptorInv
<1>a. Made = made
  BY MadeOfAll DEF ExecType
<1>b. ends' = {}
  BY <1>a
<1>1. ExecType'
  BY ExecAssumption DEF ExecType, Steps, Alive
<1>2. DescriptorInv'
  BY <1>b, ExecAssumption DEF DescriptorInv, ExecType
<1>3. ChildInv'
  BY ExecAssumption DEF ChildInv, DescriptorInv, ExecType, Alive, NoChild
<1>4. DataInv'
  BY ExecAssumption DEF DataInv, ChildInv, DescriptorInv, ExecType, Alive, NoChild
<1> QED
  BY <1>1, <1>2, <1>3, <1>4

(* Fork keeps the invariant.                                                  *)
LEMMA ForkKeeps ==
  ASSUME ExecInv, NEW kind \in {"filter", "sink"}, Fork(kind)
  PROVE  ExecInv'
<1> USE DEF Fork, ExecInv
<1> PICK made \in SUBSET call.wanted : ends = AllOf(made)
  BY DEF DescriptorInv
<1>a. Made = made /\ ends = AllOf(call.wanted)
  BY MadeOfAll DEF ExecType
<1>b. "out" \in call.wanted => Far("out") \in kept'
  BY <1>a DEF AllOf
<1>1. ExecType'
  BY ExecAssumption, ZenonT(60) DEF ExecType, Steps, Alive
<1>2. DescriptorInv'
  BY <1>a, ExecAssumption DEF DescriptorInv, ExecType
<1>3. ChildInv'
  BY <1>b, ExecAssumption DEF ChildInv, DescriptorInv, ExecType, Alive, NoChild
<1>4. DataInv'
  BY ExecAssumption DEF DataInv, ChildInv, DescriptorInv, ExecType, Alive, NoChild
<1> QED
  BY <1>1, <1>2, <1>3, <1>4

(* ParentSide keeps the invariant.                                            *)
LEMMA ParentSideKeeps ==
  ASSUME ExecInv, ParentSide
  PROVE  ExecInv'
<1> USE DEF ParentSide, ExecInv
<1>a. ends = AllOf(call.wanted) /\ cloexec = {} /\ call.wanted \subseteq Pipes
  BY DEF DescriptorInv, ExecType
<1>b. ends' = {Near(p) : p \in call.wanted}
  BY <1>a, DistinctEnds DEF AllOf
<1>d. call.op = "readall" => IF "in" \in call.wanted THEN ends' = {Near("in"), Near("out")}
                                                     ELSE ends' = {Near("out")}
  BY <1>b DEF ExecType
<1>1. ExecType'
  BY ExecAssumption DEF ExecType, Steps, Alive
<1>2. DescriptorInv'
  BY <1>b, <1>d, ExecAssumption DEF DescriptorInv, ExecType
<1>3. ChildInv'
  BY ExecAssumption DEF ChildInv, DescriptorInv, ExecType, Alive, NoChild
<1>4. DataInv'
  BY ExecAssumption DEF DataInv, ChildInv, DescriptorInv, ExecType, Alive, NoChild
<1> QED
  BY <1>1, <1>2, <1>3, <1>4

(* CallerCloses keeps the invariant.                                          *)
LEMMA CallerClosesKeeps ==
  ASSUME ExecInv, CallerCloses
  PROVE  ExecInv'
<1> USE DEF CallerCloses, ExecInv
<1>1. ExecType'
  BY ExecAssumption DEF ExecType, Steps, Alive
<1>2. DescriptorInv'
  BY ExecAssumption DEF DescriptorInv, ExecType
<1>3. ChildInv'
  BY ExecAssumption DEF ChildInv, DescriptorInv, ExecType, Alive, NoChild
<1>4. DataInv'
  BY ExecAssumption DEF DataInv, ChildInv, DescriptorInv, ExecType, Alive, NoChild
<1> QED
  BY <1>1, <1>2, <1>3, <1>4

(* ChildExecs keeps the invariant.                                            *)
LEMMA ChildExecsKeeps ==
  ASSUME ExecInv, ChildExecs
  PROVE  ExecInv'
<1> USE DEF ChildExecs, ExecInv
<1>1. ExecType'
  BY ExecAssumption DEF ExecType, Steps, Alive
<1>2. DescriptorInv'
  BY ExecAssumption DEF DescriptorInv, ExecType
<1>3. ChildInv'
  BY ExecAssumption DEF ChildInv, DescriptorInv, ExecType, Alive, NoChild
<1>4. DataInv'
  BY ExecAssumption DEF DataInv, ChildInv, DescriptorInv, ExecType, Alive, NoChild
<1> QED
  BY <1>1, <1>2, <1>3, <1>4

(* ChildExits keeps the invariant.                                            *)
LEMMA ChildExitsKeeps ==
  ASSUME ExecInv, ChildExits
  PROVE  ExecInv'
<1> USE DEF ChildExits, ExitOf, ExecInv
<1>1. ExecType'
  BY ExecAssumption DEF ExecType, Steps, Alive
<1>2. DescriptorInv'
  BY ExecAssumption DEF DescriptorInv, ExecType
<1>3. ChildInv'
  BY ExecAssumption DEF ChildInv, DescriptorInv, ExecType, Alive, NoChild
<1>4. DataInv'
  BY ExecAssumption DEF DataInv, ChildInv, DescriptorInv, ExecType, Alive, NoChild
<1> QED
  BY <1>1, <1>2, <1>3, <1>4

(* ChildReads keeps the invariant.                                            *)
LEMMA ChildReadsKeeps ==
  ASSUME ExecInv, ChildReads
  PROVE  ExecInv'
<1> USE DEF ChildReads, ExecInv
<1>1. ExecType'
  BY ExecAssumption DEF ExecType, Steps, Alive
<1>2. DescriptorInv'
  BY ExecAssumption DEF DescriptorInv, ExecType
<1>3. ChildInv'
  BY ExecAssumption DEF ChildInv, DescriptorInv, ExecType, Alive, NoChild
<1>4. DataInv'
  BY ExecAssumption DEF DataInv, ChildInv, DescriptorInv, ExecType, Alive, NoChild
<1> QED
  BY <1>1, <1>2, <1>3, <1>4

(* ChildWrites keeps the invariant.                                           *)
LEMMA ChildWritesKeeps ==
  ASSUME ExecInv, ChildWrites
  PROVE  ExecInv'
<1> USE DEF ChildWrites, ExecInv
<1> PICK out \in Nat : out = pipe.out + 1
  BY DEF ExecType
<1> PICK wrote \in Nat : wrote = child.wrote + 1
  BY DEF ExecType
<1>a. pipe' = [pipe EXCEPT !.out = out] /\ child' = [child EXCEPT !.holds = 0, !.wrote = wrote]
  BY DEF ExecType
<1>1. ExecType'
  BY <1>a, ExecAssumption, ZenonT(60) DEF ExecType, Steps, Alive
<1>2. DescriptorInv'
  BY ExecAssumption DEF DescriptorInv, ExecType
<1>3. ChildInv'
  BY ExecAssumption DEF ChildInv, DescriptorInv, ExecType, Alive, NoChild
<1>4. DataInv'
  BY ExecAssumption DEF DataInv, ChildInv, DescriptorInv, ExecType, Alive, NoChild
<1> QED
  BY <1>1, <1>2, <1>3, <1>4

(* WriteSome keeps the invariant.                                             *)
LEMMA WriteSomeKeeps ==
  ASSUME ExecInv, WriteSome
  PROVE  ExecInv'
<1> USE DEF WriteSome, ExecInv
<1>1. ExecType'
  BY ExecAssumption DEF ExecType, Steps, Alive
<1>2. DescriptorInv'
  BY ExecAssumption DEF DescriptorInv, ExecType
<1>3. ChildInv'
  BY ExecAssumption DEF ChildInv, DescriptorInv, ExecType, Alive, NoChild
<1>4. DataInv'
  BY ExecAssumption DEF DataInv, ChildInv, DescriptorInv, ExecType, Alive, NoChild
<1> QED
  BY <1>1, <1>2, <1>3, <1>4

(* WriteFails keeps the invariant.                                            *)
LEMMA WriteFailsKeeps ==
  ASSUME ExecInv, WriteFails
  PROVE  ExecInv'
<1> USE DEF WriteFails, ExecInv
<1>1. ExecType'
  BY ExecAssumption DEF ExecType, Steps, Alive
<1>2. DescriptorInv'
  BY ExecAssumption DEF DescriptorInv, ExecType
<1>3. ChildInv'
  BY ExecAssumption DEF ChildInv, DescriptorInv, ExecType, Alive, NoChild
<1>4. DataInv'
  BY ExecAssumption DEF DataInv, ChildInv, DescriptorInv, ExecType, Alive, NoChild
<1> QED
  BY <1>1, <1>2, <1>3, <1>4

(* CloseOutfd keeps the invariant.                                            *)
LEMMA CloseOutfdKeeps ==
  ASSUME ExecInv, CloseOutfd
  PROVE  ExecInv'
<1> USE DEF CloseOutfd, Close, ExecInv
<1>1. ExecType'
  BY ExecAssumption DEF ExecType, Steps, Alive
<1>2. DescriptorInv'
  BY DistinctEnds, ExecAssumption DEF DescriptorInv, ExecType
<1>3. ChildInv'
  BY ExecAssumption DEF ChildInv, DescriptorInv, ExecType, Alive, NoChild
<1>4. DataInv'
  BY ExecAssumption DEF DataInv, ChildInv, DescriptorInv, ExecType, Alive, NoChild
<1> QED
  BY <1>1, <1>2, <1>3, <1>4

(* CloseInfd keeps the invariant.                                             *)
LEMMA CloseInfdKeeps ==
  ASSUME ExecInv, CloseInfd
  PROVE  ExecInv'
<1> USE DEF CloseInfd, Close, ExecInv
<1>1. ExecType'
  BY ExecAssumption DEF ExecType, Steps, Alive
<1>2. DescriptorInv'
  BY DistinctEnds, ExecAssumption DEF DescriptorInv, ExecType
<1>3. ChildInv'
  BY ExecAssumption DEF ChildInv, DescriptorInv, ExecType, Alive, NoChild
<1>4. DataInv'
  BY ExecAssumption DEF DataInv, ChildInv, DescriptorInv, ExecType, Alive, NoChild
<1> QED
  BY <1>1, <1>2, <1>3, <1>4

(* ReadSome keeps the invariant.                                              *)
LEMMA ReadSomeKeeps ==
  ASSUME ExecInv, ReadSome
  PROVE  ExecInv'
<1> USE DEF ReadSome, ExecInv
<1>1. ExecType'
  BY ExecAssumption DEF ExecType, Steps, Alive
<1>2. DescriptorInv'
  BY ExecAssumption DEF DescriptorInv, ExecType
<1>3. ChildInv'
  BY ExecAssumption DEF ChildInv, DescriptorInv, ExecType, Alive, NoChild
<1>4. DataInv'
  BY ExecAssumption DEF DataInv, ChildInv, DescriptorInv, ExecType, Alive, NoChild
<1> QED
  BY <1>1, <1>2, <1>3, <1>4

(* ReadEnds keeps the invariant.                                              *)
LEMMA ReadEndsKeeps ==
  ASSUME ExecInv, ReadEnds
  PROVE  ExecInv'
<1> USE DEF ReadEnds, EndOfFile, ExecInv
<1>1. ExecType'
  BY ExecAssumption DEF ExecType, Steps, Alive
<1>2. DescriptorInv'
  BY ExecAssumption DEF DescriptorInv, ExecType
<1>3. ChildInv'
  BY ExecAssumption DEF ChildInv, DescriptorInv, ExecType, Alive, NoChild
<1>4. DataInv'
  BY ExecAssumption DEF DataInv, ChildInv, DescriptorInv, ExecType, Alive, NoChild
<1> QED
  BY <1>1, <1>2, <1>3, <1>4

(* ReadFails keeps the invariant.                                             *)
LEMMA ReadFailsKeeps ==
  ASSUME ExecInv, ReadFails
  PROVE  ExecInv'
<1> USE DEF ReadFails, ExecInv
<1>1. ExecType'
  BY ExecAssumption DEF ExecType, Steps, Alive
<1>2. DescriptorInv'
  BY ExecAssumption DEF DescriptorInv, ExecType
<1>3. ChildInv'
  BY ExecAssumption DEF ChildInv, DescriptorInv, ExecType, Alive, NoChild
<1>4. DataInv'
  BY ExecAssumption DEF DataInv, ChildInv, DescriptorInv, ExecType, Alive, NoChild
<1> QED
  BY <1>1, <1>2, <1>3, <1>4

(* Wait keeps the invariant.                                                  *)
LEMMA WaitKeeps ==
  ASSUME ExecInv, Wait
  PROVE  ExecInv'
<1> USE DEF Wait, ExecInv
<1>1. ExecType'
  BY ExecAssumption DEF ExecType, Steps, Alive
<1>2. DescriptorInv'
  BY ExecAssumption DEF DescriptorInv, ExecType
<1>3. ChildInv'
  BY ExecAssumption DEF ChildInv, DescriptorInv, ExecType, Alive, NoChild
<1>4. DataInv'
  BY ExecAssumption DEF DataInv, ChildInv, DescriptorInv, ExecType, Alive, NoChild
<1> QED
  BY <1>1, <1>2, <1>3, <1>4

(* WaitFails keeps the invariant.                                             *)
LEMMA WaitFailsKeeps ==
  ASSUME ExecInv, WaitFails
  PROVE  ExecInv'
<1> USE DEF WaitFails, ExecInv
<1>1. ExecType'
  BY ExecAssumption DEF ExecType, Steps, Alive
<1>2. DescriptorInv'
  BY ExecAssumption DEF DescriptorInv, ExecType
<1>3. ChildInv'
  BY ExecAssumption DEF ChildInv, DescriptorInv, ExecType, Alive, NoChild
<1>4. DataInv'
  BY ExecAssumption DEF DataInv, ChildInv, DescriptorInv, ExecType, Alive, NoChild
<1> QED
  BY <1>1, <1>2, <1>3, <1>4

(* CleanUp keeps the invariant.                                               *)
LEMMA CleanUpKeeps ==
  ASSUME ExecInv, CleanUp
  PROVE  ExecInv'
<1> USE DEF CleanUp, ExecInv
<1>1. ExecType'
  BY ExecAssumption DEF ExecType, Steps, Alive
<1>2. DescriptorInv'
  BY ExecAssumption DEF DescriptorInv, ExecType
<1>3. ChildInv'
  BY ExecAssumption DEF ChildInv, DescriptorInv, ExecType, Alive, NoChild
<1>4. DataInv'
  BY ExecAssumption DEF DataInv, ChildInv, DescriptorInv, ExecType, Alive, NoChild
<1> QED
  BY <1>1, <1>2, <1>3, <1>4

(* Every step of the call, of the child and of its pipes keeps the invariant. *)
LEMMA ExecStep ==
  ASSUME ExecInv, [ExecNext]_execVars
  PROVE  ExecInv'
<1>1. CASE UNCHANGED execVars
  BY <1>1 DEF execVars, ExecInv, ExecType, DescriptorInv, ChildInv, DataInv
<1>2. ASSUME NEW kind \in {"filter", "sink"}, Fork(kind)
      PROVE  ExecInv'
  BY <1>2, ForkKeeps
<1> QED
  BY <1>1, <1>2, NextCallKeeps, MakePipeKeeps, PopenFailsKeeps, ParentSideKeeps,
     CallerClosesKeeps, ChildExecsKeeps, ChildExitsKeeps, ChildReadsKeeps, ChildWritesKeeps,
     WriteSomeKeeps, WriteFailsKeeps, CloseOutfdKeeps, CloseInfdKeeps, ReadSomeKeeps,
     ReadEndsKeeps, ReadFailsKeeps, WaitKeeps, WaitFailsKeeps, CleanUpKeeps
  DEF ExecNext

(* The invariant holds however the steps of parent and child interleave, and  *)
(* whichever of them fail.                                                    *)
LEMMA ExecInvariance == ExecSpec => []ExecInv
BY ExecStart, ExecStep, PTL DEF ExecSpec

(* The descriptors of the pipes are closed, none twice, and the child is      *)
(* waited for, whatever fails (exec.c:124, exec.c:142, exec.c:244).           *)
THEOREM DescriptorCorrectness == ExecSpec => []DescriptorsSettled
<1>1. ExecInv => DescriptorsSettled
  BY DEF ExecInv, ExecType, DescriptorInv, ChildInv, DescriptorsSettled
<1> QED
  BY <1>1, ExecInvariance, PTL

(* nl_popenve_readall() loses nothing that the child wrote, and waits in a    *)
(* circle with it only for an input that the pipes cannot hold (exec.c:211).  *)
THEOREM ReadCorrectness == ExecSpec => []ReadsAll
<1>1. ExecInv => ReadsAll
  BY ExecAssumption DEF ExecInv, ExecType, DescriptorInv, ChildInv, DataInv, ReadsAll
<1> QED
  BY <1>1, ExecInvariance, PTL

-----------------------------------------------------------------------------
(***************************************************************************)
(* The firmware loader.  ExtractsVerified for a payload of any length.  It *)
(* is inductive once it is said what each child was fed at each place of   *)
(* the program, and that a step may only have failed on the way out, the   *)
(* rewind excepted.                                                        *)
(***************************************************************************)

(* The first reads of the payload.                                           *)
Sent(k) == [n \in 1..k |-> n]

CheckPlaces == {"read_result", "rewind", "compare", "chdir"}
Places == Lines \cup {"start", "copy", "wait"} \cup CheckPlaces \cup {"exited"}
Rewound == <<"rewind", "check">> \notin failed

FirmwareType ==
  /\ at \in Places /\ stage \in Stages /\ image \in Images /\ offset \in 0..Chunks
  /\ fed \in [Stages -> {Sent(k) : k \in 0..Chunks}]
  /\ process \in [Stages -> {"none", "running", "killed", "reaped"}]
  /\ status \in {"not_run", "running", "error", "done"}

(* The lines of the header before the one that is read next are good.        *)
HeaderInv ==
  /\ at = "architecture" => image.bad # "version"
  /\ at = "name" => image.bad \notin {"version", "architecture"}
  /\ at = "checksum" => image.bad \notin {"version", "architecture", "name"}
  /\ at \notin Lines \cup {"exited"} => image.bad = "none"

StageInv ==
  /\ at \in Lines \cup CheckPlaces => stage = "check"
  /\ stage = "check" => fed["extract"] = Sent(0) /\ process["extract"] = "none"
  /\ stage = "extract" => /\ image.bad = "none" /\ image.csum = "right"
                          /\ fed["check"] = Sent(Chunks) /\ process["check"] = "reaped"
  /\ at = "chdir" => image.csum = "right"
  /\ at \in {"copy", "wait"} => process[stage] = "running"
  /\ at \in CheckPlaces => process["check"] = "reaped"
  /\ at \in Lines \cup {"start"} => process[stage] = "none"

FailedInv ==
  /\ at # "exited" => status = "running" /\ failed \subseteq {<<"rewind", "check">>}
  /\ stage = "check" /\ at \notin {"compare", "chdir", "exited"} => failed = {}

FedInv ==
  /\ at \in Lines \cup {"start"} /\ stage = "check" => fed["check"] = Sent(0) /\ offset = 0
  /\ at = "copy" /\ stage = "check" => fed["check"] = Sent(offset)
  /\ at \in {"wait", "read_result", "rewind"} /\ stage = "check" =>
       fed["check"] = Sent(Chunks) /\ offset = Chunks
  /\ at \in {"compare", "chdir"} => fed["check"] = Sent(Chunks)
  /\ at \in {"compare", "chdir", "start"} /\ ~(stage = "check" /\ at = "start") =>
       offset = IF Rewound THEN 0 ELSE Chunks
  /\ at = "start" => fed[stage] = Sent(0)
  /\ at = "copy" /\ stage = "extract" /\ Rewound => fed["extract"] = Sent(offset)
  /\ at = "copy" /\ stage = "extract" /\ ~Rewound => fed["extract"] = Sent(0) /\ offset = Chunks
  /\ at = "wait" => offset = Chunks
  /\ at = "wait" /\ stage = "extract" =>
       fed["extract"] = Sent(IF Rewound THEN Chunks ELSE 0)

(* The property, in terms of Sent.                                           *)
OutcomeInv ==
  /\ fed["extract"] # Sent(0) => fed["extract"] = Sent(offset) /\ stage = "extract"
  /\ status = "done" => fed["extract"] = Sent(IF Rewound THEN Chunks ELSE 0)
  /\ at = "exited" => \A s \in Stages :
       process[s] \in {"running", "killed"} <=> {<<"copy", s>>, <<"wait", s>>} \cap failed # {}

FirmwareInv == FirmwareType /\ HeaderInv /\ StageInv /\ FailedInv /\ FedInv /\ OutcomeInv

(* One more chunk after the first k, and the first k chunks of the payload.   *)
LEMMA SentOne ==
  ASSUME NEW k \in 0..Chunks
  PROVE  /\ k < Chunks => Append(Sent(k), Payload[k + 1]) = Sent(k + 1)
         /\ SubSeq(Payload, 1, k) = Sent(k)
<1>1. Sent(k) \in Seq(Int) /\ Len(Sent(k)) = k
  BY FirmwareAssumption DEF Sent
<1>2. Payload \in Seq(Int) /\ Len(Payload) = Chunks
  BY FirmwareAssumption DEF Payload
<1>3. SubSeq(Payload, 1, k) = Sent(k)
  <2>1. SubSeq(Payload, 1, k) \in Seq(Int) /\ Len(SubSeq(Payload, 1, k)) = k
    BY <1>2, FirmwareAssumption
  <2>2. \A n \in 1..k : SubSeq(Payload, 1, k)[n] = Payload[n]
    BY <1>2, FirmwareAssumption
  <2>3. \A n \in 1..k : Payload[n] = n /\ Sent(k)[n] = n
    BY FirmwareAssumption DEF Payload, Sent
  <2> QED
    BY <1>1, <2>1, <2>2, <2>3
<1>4. ASSUME k < Chunks
      PROVE  Append(Sent(k), Payload[k + 1]) = Sent(k + 1)
  <2>1. Payload[k + 1] = k + 1
    BY <1>4, FirmwareAssumption DEF Payload
  <2>2. Append(Sent(k), k + 1) \in Seq(Int) /\ Len(Append(Sent(k), k + 1)) = k + 1
    BY <1>1, FirmwareAssumption
  <2>3. \A n \in 1..(k + 1) : Append(Sent(k), k + 1)[n] = n
    BY <1>1, FirmwareAssumption DEF Sent
  <2>4. Sent(k + 1) \in Seq(Int) /\ Len(Sent(k + 1)) = k + 1
    BY FirmwareAssumption DEF Sent
  <2>5. \A n \in 1..(k + 1) : Sent(k + 1)[n] = n
    BY FirmwareAssumption DEF Sent
  <2> QED
    BY <2>1, <2>2, <2>3, <2>4, <2>5
<1> QED
  BY <1>3, <1>4

(* No chunks are nothing; all chunks are the payload.                         *)
LEMMA SentNone == Sent(0) = <<>> /\ Sent(Chunks) = Payload
BY FirmwareAssumption DEF Sent, Payload

(* Whatever a stage was fed so far is a prefix of the payload.                *)
LEMMA SentIn == \A k \in 0..Chunks : Sent(k) \in {Sent(n) : n \in 0..Chunks}
OBVIOUS

(* The loader starts in the invariant.                                        *)
LEMMA FirmwareStart == FirmwareInit => FirmwareInv
<1> USE DEF FirmwareInit, Images, Stages, Places, Lines, CheckPlaces
<1> SUFFICES ASSUME FirmwareInit
             PROVE  FirmwareInv
  OBVIOUS
<1>1. fed = [s \in Stages |-> Sent(0)]
  BY SentNone
<1>2. 0 \in 0..Chunks
  BY FirmwareAssumption
<1>3. FirmwareType
  BY <1>1, <1>2, SentIn DEF FirmwareType
<1>4. HeaderInv /\ StageInv /\ FailedInv /\ FedInv
  BY <1>1 DEF HeaderInv, StageInv, FailedInv, FedInv
<1>5. OutcomeInv
  BY <1>1 DEF OutcomeInv
<1> QED
  BY <1>3, <1>4, <1>5 DEF FirmwareInv

(* Every way out of the program but success.                                 *)
LEMMA FailKeeps ==
  ASSUME FirmwareInv, NEW what, FailIn(what), at # "exited",
         UNCHANGED <<stage, image, offset, fed>>,
         \/ what \notin {"copy", "wait"} /\ process' \in [Stages -> {"none", "reaped"}]
            /\ what # "rewind"
         \/ what \in {"copy", "wait"} /\ process'[stage] \in {"running", "killed"}
            /\ process' \in [Stages -> {"none", "running", "killed", "reaped"}]
            /\ \A s \in Stages \ {stage} : process'[s] \in {"none", "reaped"}
         ,
         stage = "check" => process'["extract"] = "none",
         stage = "extract" => process'["check"] = "reaped"
  PROVE  FirmwareInv'
<1>1. at' = "exited" /\ status' = "error" /\ failed' = failed \cup {<<what, stage>>}
  BY DEF FailIn
<1>2. FirmwareType'
  BY <1>1 DEF FirmwareInv, FirmwareType, Places, Stages
<1>3. HeaderInv' /\ StageInv' /\ FailedInv' /\ FedInv'
  BY <1>1 DEF FirmwareInv, HeaderInv, StageInv, FailedInv, FedInv, CheckPlaces, Lines, Stages
<1>4. failed \subseteq {<<"rewind", "check">>}
  BY DEF FirmwareInv, FailedInv
<1>5. ASSUME NEW s \in Stages
      PROVE  process'[s] \in {"running", "killed"} <=> {<<"copy", s>>, <<"wait", s>>} \cap failed' # {}
  <2>1. {<<"copy", s>>, <<"wait", s>>} \cap failed' # {}
        <=> what \in {"copy", "wait"} /\ s = stage
    <3>1. \A p \in {"copy", "wait"} : <<p, s>> \in failed' <=> p = what /\ s = stage
      BY <1>1, <1>4
    <3> QED
      BY <3>1
  <2>2. CASE what \in {"copy", "wait"} /\ s = stage
    BY <2>1, <2>2
  <2>3. CASE what \in {"copy", "wait"} /\ s # stage
    BY <2>1, <2>3
  <2>4. CASE what \notin {"copy", "wait"}
    BY <2>1, <2>4
  <2> QED
    BY <2>2, <2>3, <2>4
<1>6. OutcomeInv'
  BY <1>1, <1>5 DEF FirmwareInv, OutcomeInv
<1> QED
  BY <1>2, <1>3, <1>6 DEF FirmwareInv

(* Every what of the loader keeps the invariant.                              *)
LEMMA FirmwareStep ==
  ASSUME FirmwareInv, [FirmwareNext]_firmwareVars
  PROVE  FirmwareInv'
<1> USE DEF Places, Lines, CheckPlaces, Stages, Images
<1>t. FirmwareType /\ HeaderInv /\ StageInv /\ FailedInv /\ FedInv /\ OutcomeInv
  BY DEF FirmwareInv
<1>1. CASE Run
  <2>1. fed' = [s \in Stages |-> Sent(0)]
    BY <1>1, SentNone DEF Run
  <2>2. FirmwareType'
    BY <1>1, <2>1, SentIn, FirmwareAssumption DEF Run, FirmwareType
  <2>3. HeaderInv' /\ StageInv' /\ FailedInv' /\ FedInv' /\ OutcomeInv'
    BY <1>1, <2>1 DEF Run, HeaderInv, StageInv, FailedInv, FedInv, OutcomeInv
  <2> QED
    BY <2>2, <2>3 DEF FirmwareInv
<1>2. CASE ReadLine
  <2>1. CASE image.bad = at
    <3>1. FailIn(at) /\ UNCHANGED <<stage, image, offset, fed, process>>
      BY <1>2, <2>1 DEF ReadLine, Fail
    <3> QED
      BY <1>2, <1>t, <3>1, FailKeeps DEF ReadLine, StageInv, FirmwareType
  <2>2. CASE image.bad # at
    <3>1. at' = After(at) /\ UNCHANGED <<stage, image, offset, fed, process, failed, status>>
      BY <1>2, <2>2 DEF ReadLine
    <3>2. at \in Lines /\ stage = "check"
      BY <1>2, <1>t DEF ReadLine, StageInv
    <3>3. FirmwareType' /\ HeaderInv'
      BY <1>t, <2>2, <3>1, <3>2 DEF FirmwareType, HeaderInv, After
    <3>4. StageInv' /\ FailedInv' /\ FedInv'
      BY <1>t, <3>1, <3>2 DEF StageInv, FailedInv, FedInv, After, Rewound
    <3>5. OutcomeInv'
      BY <1>t, <3>1, <3>2 DEF OutcomeInv, FailedInv, After, Rewound
    <3> QED
      BY <3>3, <3>4, <3>5 DEF FirmwareInv
  <2> QED
    BY <2>1, <2>2
<1>3. CASE LocalArchitectureUnknown \/ StartFails \/ ReadResultFails
  <2>1. /\ at \in {"architecture", "start", "read_result"} /\ FailIn(at)
        /\ UNCHANGED <<stage, image, offset, fed, process>>
    BY <1>3 DEF LocalArchitectureUnknown, StartFails, ReadResultFails, Fail
  <2> QED
    BY <1>t, <2>1, FailKeeps DEF StageInv, FirmwareType
<1>4. CASE Start
  <2>1. FirmwareType' /\ HeaderInv'
    BY <1>4, <1>t DEF Start, FirmwareType, HeaderInv
  <2>2. StageInv' /\ FailedInv'
    BY <1>4, <1>t DEF Start, FirmwareType, StageInv, FailedInv
  <2>3. FedInv'
    BY <1>4, <1>t DEF Start, FirmwareType, FedInv, Rewound, FailedInv
  <2>4. OutcomeInv'
    BY <1>4, <1>t DEF Start, OutcomeInv, Rewound, FailedInv
  <2> QED
    BY <2>1, <2>2, <2>3, <2>4 DEF FirmwareInv
<1>5. CASE Copy
  <2>1. Rewound /\ fed[stage] = Sent(offset) /\ offset \in 0..Chunks /\ offset < Chunks
    BY <1>5, <1>t, FirmwareAssumption DEF Copy, FedInv, FailedInv, Rewound, FirmwareType
  <2>2. fed' = [fed EXCEPT ![stage] = Sent(offset + 1)]
    BY <1>5, <2>1, SentOne, ZenonT(60) DEF Copy
  <2>3. offset' = offset + 1 /\ offset + 1 \in 0..Chunks
    BY <1>5, <2>1, FirmwareAssumption DEF Copy
  <2>4. UNCHANGED <<at, stage, image, process, failed, status>> /\ at = "copy"
    BY <1>5 DEF Copy
  <2>5. FirmwareType'
    BY <1>t, <2>2, <2>3, <2>4, SentIn DEF FirmwareType
  <2>6. HeaderInv' /\ FailedInv'
    BY <1>t, <2>4 DEF HeaderInv, FailedInv
  <2>7. fed'[stage] = Sent(offset') /\ \A s \in Stages \ {stage} : fed'[s] = fed[s]
    BY <1>t, <2>2, <2>3 DEF FirmwareType
  <2>8. StageInv' /\ FedInv'
    BY <1>t, <2>1, <2>4, <2>7 DEF StageInv, FedInv, Rewound, FirmwareType
  <2>9. OutcomeInv'
    BY <1>t, <2>4, <2>7 DEF OutcomeInv, FailedInv, StageInv, FirmwareType
  <2> QED
    BY <2>5, <2>6, <2>8, <2>9 DEF FirmwareInv
<1>6. CASE CopyEnds
  <2>1. FirmwareType' /\ HeaderInv'
    BY <1>6, <1>t DEF CopyEnds, FirmwareType, HeaderInv
  <2>2. StageInv' /\ FailedInv'
    BY <1>6, <1>t DEF CopyEnds, FirmwareType, StageInv, FailedInv
  <2>3. FedInv'
    BY <1>6, <1>t DEF CopyEnds, FirmwareType, FedInv, Rewound, FailedInv
  <2>4. OutcomeInv'
    BY <1>6, <1>t DEF CopyEnds, OutcomeInv, Rewound, FailedInv
  <2> QED
    BY <2>1, <2>2, <2>3, <2>4 DEF FirmwareInv
<1>7. CASE StreamFails \/ ReturnsError \/ WaitError
  <2>1. /\ at \in {"copy", "wait"} /\ UNCHANGED <<stage, image, offset, fed>>
        /\ \/ FailIn("exit") /\ process' = [process EXCEPT ![stage] = "reaped"]
           \/ FailIn(at) /\ process' = [process EXCEPT ![stage] = "killed"]
           \/ FailIn(at) /\ process' = process
    BY <1>7 DEF StreamFails, ReturnsError, WaitError, Fail
  <2>2. /\ stage \in Stages /\ process[stage] = "running"
        /\ \A s \in Stages \ {stage} : process[s] \in {"none", "reaped"}
        /\ stage = "check" => process["extract"] = "none"
        /\ stage = "extract" => process["check"] = "reaped"
        /\ process \in [Stages -> {"none", "running", "killed", "reaped"}]
    BY <1>t, <2>1 DEF StageInv, FirmwareType
  <2>3. CASE FailIn("exit") /\ process' = [process EXCEPT ![stage] = "reaped"]
    <3>1. process' \in [Stages -> {"none", "reaped"}]
      BY <2>2, <2>3
    <3> QED
      BY <2>1, <2>2, <2>3, <3>1, FailKeeps
  <2>4. CASE FailIn(at) /\ process' = [process EXCEPT ![stage] = "killed"]
    BY <2>1, <2>2, <2>4, FailKeeps
  <2>5. CASE FailIn(at) /\ process' = process
    BY <2>1, <2>2, <2>5, FailKeeps
  <2> QED
    BY <2>1, <2>3, <2>4, <2>5
<1>8. CASE Waited
  <2>1. FirmwareType' /\ HeaderInv'
    BY <1>8, <1>t DEF Waited, FirmwareType, HeaderInv
  <2>2. StageInv' /\ FailedInv'
    BY <1>8, <1>t DEF Waited, FirmwareType, StageInv, FailedInv
  <2>3. FedInv'
    BY <1>8, <1>t DEF Waited, FirmwareType, FedInv, Rewound, FailedInv
  <2>4. failed \subseteq {<<"rewind", "check">>} /\ UNCHANGED <<stage, fed, offset, failed>>
    BY <1>8, <1>t DEF Waited, FailedInv
  <2>5. \A s \in Stages : process'[s] \in {"none", "reaped"}
    BY <1>8, <1>t DEF Waited, StageInv, FirmwareType
  <2>6. OutcomeInv'
    BY <1>8, <1>t, <2>4, <2>5 DEF Waited, OutcomeInv, Rewound, FedInv, FailedInv, FirmwareType
  <2> QED
    BY <2>1, <2>2, <2>3, <2>6 DEF FirmwareInv
<1>9. CASE ReadResult \/ Rewind \/ RewindFails
  <2>1. FirmwareType' /\ HeaderInv'
    BY <1>9, <1>t, FirmwareAssumption DEF ReadResult, Rewind, RewindFails, FirmwareType, HeaderInv
  <2>2. StageInv' /\ FailedInv'
    BY <1>9, <1>t DEF ReadResult, Rewind, RewindFails, FirmwareType, StageInv, FailedInv
  <2>3. FedInv'
    BY <1>9, <1>t DEF ReadResult, Rewind, RewindFails, FirmwareType, FedInv, StageInv, FailedInv, Rewound
  <2>4. OutcomeInv'
    BY <1>9, <1>t DEF ReadResult, Rewind, RewindFails, OutcomeInv, StageInv, FailedInv, Rewound
  <2> QED
    BY <2>1, <2>2, <2>3, <2>4 DEF FirmwareInv
<1>10. CASE Compare
  <2>1. CASE ~SameChecksum
    <3>1. at = "compare" /\ FailIn(at) /\ UNCHANGED <<stage, image, offset, fed, process>>
      BY <1>10, <2>1 DEF Compare, Fail
    <3> QED
      BY <1>t, <3>1, FailKeeps DEF StageInv, FirmwareType
  <2>2. CASE SameChecksum
    <3>1. /\ at = "compare" /\ at' = "chdir" /\ image.csum = "right"
          /\ UNCHANGED <<stage, image, offset, fed, process, failed, status>>
      BY <1>10, <2>2 DEF Compare, SameChecksum
    <3>2. FirmwareType' /\ HeaderInv' /\ StageInv' /\ FailedInv'
      BY <1>t, <3>1 DEF FirmwareType, HeaderInv, StageInv, FailedInv
    <3>3. FedInv' /\ OutcomeInv'
      BY <1>t, <3>1 DEF FedInv, OutcomeInv, FailedInv, StageInv, Rewound
    <3> QED
      BY <3>2, <3>3 DEF FirmwareInv
  <2> QED
    BY <2>1, <2>2
<1>11. CASE ChangeDirectory
  <2>1. CASE Fail
    <3>1. at = "chdir" /\ FailIn(at) /\ UNCHANGED <<stage, image, offset, fed, process>>
      BY <1>11, <2>1 DEF ChangeDirectory, Fail, FailIn
    <3> QED
      BY <1>t, <3>1, FailKeeps DEF StageInv, FirmwareType
  <2>2. CASE ~Fail
    <3>1. /\ at = "chdir" /\ at' = "start" /\ stage' = "extract" /\ stage = "check"
          /\ UNCHANGED <<image, offset, fed, process, failed, status>>
      BY <1>11, <1>t, <2>2 DEF ChangeDirectory, StageInv
    <3>2. FirmwareType' /\ HeaderInv' /\ StageInv' /\ FailedInv'
      BY <1>t, <3>1 DEF FirmwareType, HeaderInv, StageInv, FailedInv, FedInv
    <3>3. FedInv' /\ OutcomeInv'
      BY <1>t, <3>1 DEF FedInv, OutcomeInv, FailedInv, StageInv, Rewound
    <3> QED
      BY <3>2, <3>3 DEF FirmwareInv
  <2> QED
    BY <2>1, <2>2
<1>12. CASE UNCHANGED firmwareVars
  BY <1>12, <1>t DEF firmwareVars, FirmwareInv, FirmwareType, HeaderInv, StageInv, FailedInv,
                     FedInv, OutcomeInv, Rewound
<1> QED
  BY <1>1, <1>2, <1>3, <1>4, <1>5, <1>6, <1>7, <1>8, <1>9, <1>10, <1>11, <1>12
  DEF FirmwareNext

(* Whatever the length of the payload, the lines of the header and the steps  *)
(* that fail, nothing but a verified payload reaches the extraction child     *)
(* (do_firmware.c:232).                                                       *)
THEOREM FirmwareCorrectness == FirmwareSpec => []ExtractsVerified
<1>1. ASSUME FirmwareInv
      PROVE  ExtractsVerified
  <2>1. /\ fed["extract"] # <<>> => /\ fed["extract"] = Sent(offset) /\ image.bad = "none"
                                    /\ image.csum = "right" /\ fed["check"] = Payload
    BY <1>1, SentNone DEF FirmwareInv, OutcomeInv, StageInv
  <2>2. image = [bad |-> image.bad, csum |-> image.csum]
    BY <1>1 DEF FirmwareInv, FirmwareType, Images
  <2>3. SubSeq(Payload, 1, offset) = Sent(offset)
    BY <1>1, SentOne DEF FirmwareInv, FirmwareType
  <2>4. status = "done" => fed["extract"] = IF Rewound THEN Payload ELSE <<>>
    BY <1>1, SentNone DEF FirmwareInv, OutcomeInv
  <2> QED
    BY <1>1, <2>1, <2>2, <2>3, <2>4, ZenonT(60) DEF ExtractsVerified, FirmwareInv, OutcomeInv, Rewound
<1> QED
  BY <1>1, FirmwareStart, FirmwareStep, PTL DEF FirmwareSpec

-----------------------------------------------------------------------------
(***************************************************************************)
(* Opening with a timeout.  OpenHonest for any timeouts.  It is inductive  *)
(* once it is said, for each place in the loop, whether the file is open   *)
(* and on which side of the deadline the last try began.                   *)
(***************************************************************************)

OpenPlaces == {"start", "try", "judge", "sleep", "set_flag", "returned"}
Results == OpenErrors \cup {"none", "clock_error", "ETIMEDOUT", "EIO", "fd"}

OpenType ==
  /\ clock \in Nat
  /\ opening \in [at : OpenPlaces, nonblock : BOOLEAN, done : Nat, old_err : OpenErrors \cup {"none"},
                  ret : Results, file : {"closed", "blocking", "nonblocking"}, late : Nat]

OpenInv ==
  /\ OpenType
  /\ OpenHonest
  /\ opening.at \in {"start", "try", "sleep"} => opening.late = 0
  /\ opening.at = "judge" /\ opening.late = 1 => clock >= opening.done
  /\ opening.at \in {"start", "try", "judge", "sleep"} => opening.file = "closed"
  /\ opening.at = "judge" => opening.old_err \in OpenErrors

(* A call starts in the invariant.                                            *)
LEMMA OpenStart == OpenInit => OpenInv
BY DEF OpenInit, OpenInv, OpenType, OpenHonest, Locals, OpenPlaces, Results, OpenErrors

(* Every attempt, sleep and return keeps the invariant.                       *)
LEMMA OpenStep ==
  ASSUME OpenInv, [OpenNext]_openVars
  PROVE  OpenInv'
<1> USE DEF OpenInv, OpenType, OpenHonest, OpenPlaces, Results, OpenErrors
<1>1. CASE Tick
  BY <1>1, OpenAssumption DEF Tick
<1>2. CASE ClockFails
  BY <1>2, ZenonT(60) DEF ClockFails, Returns
<1>3. CASE OpenSucceeds
  <2>1. Begun(opening) = [opening EXCEPT !.late = Begun(opening).late]
        /\ Begun(opening).late \in {0, 1}
    BY <1>3 DEF OpenSucceeds, Begun
  <2>2. opening' = [opening EXCEPT !.at = "set_flag", !.file = "nonblocking",
                                   !.late = Begun(opening).late]
    BY <1>3, <2>1, ZenonT(60) DEF OpenSucceeds
  <2>3. /\ opening'.at = "set_flag" /\ opening'.file = "nonblocking"
        /\ opening'.late \in {0, 1}
    BY <2>1, <2>2
  <2>4. OpenType'
    <3>1. PICK late \in Nat : late = Begun(opening).late
      BY <2>1
    <3>2. clock' \in Nat
      BY <1>3 DEF OpenSucceeds
    <3> QED
      BY <2>2, <3>1, <3>2, ZenonT(60)
  <2> QED
    BY <2>3, <2>4
<1>4. CASE Judge
  <2>1. CASE clock >= opening.done
    BY <1>4, <2>1, ZenonT(60) DEF Judge, Returns, Expired
  <2>2. CASE ~(clock >= opening.done)
    BY <1>4, <2>2 DEF Judge, Expired
  <2> QED
    BY <2>1, <2>2
<1>5. CASE Sleeps
  BY <1>5 DEF Sleeps
<1>6. CASE SetsFlag
  BY <1>6, ZenonT(60) DEF SetsFlag, Returns
<1>7. CASE SetFlagFails
  BY <1>7, ZenonT(60) DEF SetFlagFails, Returns
<1>8. CASE Called
  BY <1>8 DEF Called, Locals
<1>9. ASSUME NEW timeout \in Timeouts, SetDeadline(timeout)
      PROVE  OpenInv'
  <2>1. clock + timeout \in Nat
    BY OpenAssumption
  <2> QED
    BY <1>9, <2>1, ZenonT(60) DEF SetDeadline
<1>10. ASSUME NEW error \in OpenErrors, OpenFails(error)
       PROVE  OpenInv'
  <2>1. /\ Begun(opening) = [opening EXCEPT !.late = Begun(opening).late]
        /\ Begun(opening).late \in {0, 1}
        /\ Begun(opening).late = 1 => clock >= opening.done
    BY <1>10 DEF OpenFails, Begun
  <2>2. opening' = [opening EXCEPT !.at = "judge", !.old_err = error,
                                   !.late = Begun(opening).late]
    BY <1>10, <2>1, ZenonT(60) DEF OpenFails
  <2>3. /\ opening'.at = "judge" /\ opening'.file = "closed" /\ opening'.old_err \in OpenErrors
        /\ opening'.late \in {0, 1} /\ opening'.done = opening.done /\ clock' = clock
        /\ opening'.late = 1 => clock' >= opening'.done
    BY <1>10, <2>1, <2>2 DEF OpenFails
  <2>4. OpenType'
    <3>1. PICK late \in Nat : late = Begun(opening).late
      BY <2>1
    <3>2. clock' \in Nat
      BY <1>10 DEF OpenFails
    <3> QED
      BY <2>2, <3>1, <3>2, ZenonT(60)
  <2> QED
    BY <2>3, <2>4
<1>11. CASE UNCHANGED openVars
  BY <1>11 DEF openVars
<1> QED
  BY <1>1, <1>2, <1>3, <1>4, <1>5, <1>6, <1>7, <1>8, <1>9, <1>10, <1>11 DEF OpenNext

(* nl_open_timeout() gives up neither early nor late, and leaves a file open  *)
(* exactly when it returns it (stream.c:223), whatever the timeout and the    *)
(* errors of open().                                                          *)
THEOREM OpenCorrectness == OpenSpec => []OpenHonest
<1>1. OpenInv => OpenHonest
  BY DEF OpenInv
<1> QED
  BY <1>1, OpenStart, OpenStep, PTL DEF OpenSpec
=============================================================================
