-------------------------------- MODULE Exec --------------------------------
(***************************************************************************)
(* Child processes with piped standard streams, src/exec.c, and the copy   *)
(* loops of src/stream.c that nl_popenve_readall() runs on the pipes.      *)
(*                                                                         *)
(* A pipe has two ends, each a descriptor of the parent, of the child, or  *)
(* of both between fork() and the closes.  Data is counted in units, of    *)
(* which a pipe holds Capacity.  The child is a filter, which writes what  *)
(* it reads, or a sink, which answers when its input ends; it may exit at  *)
(* any time.  SIGPIPE is ignored by the parent.                            *)
(***************************************************************************)
EXTENDS Integers

CONSTANTS Capacity,   \* of a pipe
          Inputs,     \* sizes of the data written to the child
          Answer      \* units a sink writes at the end of its input

ASSUME ExecAssumption == Capacity \in Nat \ {0} /\ Inputs \subseteq Nat /\ Answer \in Nat

VARIABLES step,      \* where the parent is
          call,      \* what was called: op, wanted pipes, input size
          ends,      \* pipe ends open in the parent
          kept,      \* pipe ends open in the child
          cloexec,   \* ends of the parent marked close-on-exec
          fds,       \* ends held in writefd, readfd, errfd, or in outfd and infd
          pipe,      \* units in the pipes
          io,        \* units written and read by the parent, and the result
          child,     \* state, kind, the unit it holds, units it wrote
          faults     \* "closed_twice", "not_waited_for"
execVars == <<step, call, ends, kept, cloexec, fds, pipe, io, child, faults>>

Pipes == {"in", "out", "err"}
Near(p) == <<p, IF p = "in" THEN 1 ELSE 0>>   \* the parent's end
Far(p) == <<p, IF p = "in" THEN 0 ELSE 1>>    \* the child's end
AllOf(pipes) == {Near(p) : p \in pipes} \cup {Far(p) : p \in pipes}

Calls == [op : {"popen3"}, wanted : SUBSET Pipes, input : {0}]
         \cup [op : {"readall"}, wanted : {{"in", "out"}}, input : Inputs]
         \cup [op : {"readall"}, wanted : {{"out"}}, input : {0}]

NoChild == [state |-> "none", kind |-> "filter", holds |-> 0, wrote |-> 0]

ExecInit ==
  /\ call = [op |-> "none", wanted |-> {}, input |-> 0] /\ step = "done"
  /\ ends = {} /\ kept = {} /\ cloexec = {} /\ fds = {}
  /\ pipe = [in |-> 0, out |-> 0]
  /\ io = [written |-> 0, read |-> 0, result |-> "none"]
  /\ child = NoChild /\ faults = {}

(* A call, with nothing left of the last one.                                *)
NextCall ==
  /\ step = "done" /\ step' = "pipes" /\ call' \in Calls
  /\ ends' = {} /\ kept' = {} /\ cloexec' = {} /\ fds' = {}
  /\ pipe' = [in |-> 0, out |-> 0]
  /\ io' = [written |-> 0, read |-> 0, result |-> "none"]
  /\ child' = NoChild /\ faults' = {}

-----------------------------------------------------------------------------
(* nl_popen3vec().                                                           *)
Next3(made) == CHOOSE p \in call.wanted \ made :
                 \/ p = "in"
                 \/ p = "out" /\ ("in" \in made \/ "in" \notin call.wanted)
                 \/ p = "err" /\ call.wanted \ made = {"err"}
Made == {p \in Pipes : Near(p) \in ends}

MakePipe ==
  /\ step = "pipes" /\ Made # call.wanted
  /\ ends' = ends \cup AllOf({Next3(Made)})
  /\ UNCHANGED <<step, call, kept, cloexec, fds, pipe, io, child, faults>>

PopenFails ==   \* access(), pipe() or fork() failed: the error label closes what is not -1
  /\ step = "pipes" /\ step' = "done"
  /\ ends' = ends \ AllOf(Made)
  /\ io' = [io EXCEPT !.result = "NULL"]
  /\ UNCHANGED <<call, kept, cloexec, fds, pipe, child, faults>>

Fork(kind) ==
  /\ step = "pipes" /\ Made = call.wanted /\ step' = "forked"
  /\ child' = [child EXCEPT !.state = "forked", !.kind = kind]
  /\ kept' = ends
  /\ UNCHANGED <<call, ends, cloexec, fds, pipe, io, faults>>

(* nl_set_cloexec() of a descriptor that is -1 does nothing.                 *)
nl_set_cloexec(fd, marked) == IF fd \in ends THEN marked \cup {fd} ELSE marked
Marked ==
  LET in == IF "in" \in call.wanted THEN nl_set_cloexec(Near("in"), cloexec) ELSE cloexec
      out == IF "out" \in call.wanted THEN nl_set_cloexec(Near("out"), in) ELSE in
  IN IF "err" \in call.wanted THEN nl_set_cloexec(Near("out"), out) ELSE out

ParentSide ==
  /\ step = "forked"
  /\ ends' = ends \ {Far(p) : p \in call.wanted}
  /\ cloexec' = Marked
  /\ fds' = {Near(p) : p \in call.wanted}
  /\ step' = IF call.op = "popen3" THEN "returned"
             ELSE IF "in" \in call.wanted THEN "write" ELSE "read"
  /\ UNCHANGED <<call, kept, pipe, io, child, faults>>

(* What callers of nl_popen3() are told to do: close, and wait.              *)
CallerCloses ==
  /\ step = "returned" /\ step' = "wait"
  /\ ends' = ends \ fds /\ fds' = {}
  /\ UNCHANGED <<call, kept, cloexec, pipe, io, child, faults>>

-----------------------------------------------------------------------------
(* The child: the closes and dup2() calls, execve(), and the program.        *)
ExitOf(c) == [c EXCEPT !.state = "zombie"]

ChildExecs ==
  /\ child.state = "forked" /\ child' = [child EXCEPT !.state = "running"]
  /\ kept' = {Far(p) : p \in call.wanted}
  /\ UNCHANGED <<step, call, ends, cloexec, fds, pipe, io, faults>>

ChildExits ==   \* dup2() or execve() failed, the program is done, or it dies
  /\ child.state \in {"forked", "running"}
  /\ child' = ExitOf(child) /\ kept' = {}
  /\ UNCHANGED <<step, call, ends, cloexec, fds, pipe, io, faults>>

InputEnded == pipe.in = 0 /\ Near("in") \notin ends \cup kept

ChildReads ==
  /\ child.state = "running" /\ pipe.in > 0
  /\ child.kind = "filter" => child.holds = 0
  /\ pipe' = [pipe EXCEPT !.in = @ - 1]
  /\ child' = [child EXCEPT !.holds = IF child.kind = "filter" THEN 1 ELSE 0]
  /\ UNCHANGED <<step, call, ends, kept, cloexec, fds, io, faults>>

ChildWrites ==
  /\ child.state = "running" /\ "out" \in call.wanted /\ Near("out") \in ends
  /\ IF child.kind = "filter" THEN child.holds = 1
                              ELSE InputEnded /\ child.wrote < Answer
  /\ pipe.out < Capacity
  /\ pipe' = [pipe EXCEPT !.out = @ + 1]
  /\ child' = [child EXCEPT !.holds = 0, !.wrote = @ + 1]
  /\ UNCHANGED <<step, call, ends, kept, cloexec, fds, io, faults>>

-----------------------------------------------------------------------------
(* nl_popenve_readall().                                                     *)
WriteSome ==   \* nl_write_stream(): a write() of what fits
  /\ step = "write" /\ io.written < call.input /\ Far("in") \in kept
  /\ \E n \in 1..(Capacity - pipe.in) :
       /\ io.written + n <= call.input
       /\ io' = [io EXCEPT !.written = @ + n]
       /\ pipe' = [pipe EXCEPT !.in = @ + n]
  /\ UNCHANGED <<step, call, ends, kept, cloexec, fds, child, faults>>

WriteFails ==   \* the child has closed its end, or a signal interrupts
  /\ step = "write" /\ io.written < call.input
  /\ step' = "error"
  /\ UNCHANGED <<call, ends, kept, cloexec, fds, pipe, io, child, faults>>

(* Closing, without setting the variable to -1 when close() fails.           *)
CloseKeepsFailed(p, from, next) ==
  /\ step = from
  /\ step' \in {next, "error"}
  /\ ends' = ends \ {Near(p)}
  /\ fds' = IF step' = "error" THEN fds ELSE fds \ {Near(p)}
  /\ UNCHANGED <<call, kept, cloexec, pipe, io, child, faults>>

(* close(), which lets go of the descriptor whether or not it fails; the     *)
(* variable is set to -1 in both cases.                                      *)
Close(p, from, next) ==
  /\ step = from
  /\ step' \in {next, "error"}
  /\ ends' = ends \ {Near(p)} /\ fds' = fds \ {Near(p)}
  /\ UNCHANGED <<call, kept, cloexec, pipe, io, child, faults>>

CloseOutfd == io.written = call.input /\ Close("in", "write", "read")
CloseInfd == Close("out", "closein", "wait")

ReadSome ==   \* nl_read_stream(): read() returns what is there
  /\ step = "read" /\ pipe.out > 0
  /\ pipe' = [pipe EXCEPT !.out = 0]
  /\ io' = [io EXCEPT !.read = @ + pipe.out]
  /\ UNCHANGED <<step, call, ends, kept, cloexec, fds, child, faults>>

NothingThere == pipe.out = 0
EndOfFile == pipe.out = 0 /\ Far("out") \notin kept \cup ends

ReadEnds ==
  /\ step = "read" /\ EndOfFile /\ step' = "closein"
  /\ UNCHANGED <<call, ends, kept, cloexec, fds, pipe, io, child, faults>>

ReadFails ==   \* calloc(), realloc() or read() failed: the data is freed
  /\ step = "read" /\ step' = "error"
  /\ UNCHANGED <<call, ends, kept, cloexec, fds, pipe, io, child, faults>>

(* nl_wait_get_return(), of readall or of the caller of nl_popen3().         *)
Wait ==
  /\ step = "wait" /\ child.state = "zombie" /\ step' = "done"
  /\ child' = [child EXCEPT !.state = "reaped"]
  /\ io' = [io EXCEPT !.result = IF call.op = "readall" THEN "data" ELSE @]
  /\ UNCHANGED <<call, ends, kept, cloexec, fds, pipe, faults>>

WaitFails ==
  /\ step = "wait" /\ faults' = faults \cup {"not_waited_for"}
  /\ step' = IF call.op = "readall" THEN "error" ELSE "done"
  /\ UNCHANGED <<call, ends, kept, cloexec, fds, pipe, io, child>>

(* The error label: the descriptors that are not -1 are closed, and the      *)
(* child is killed and waited for, unless waiting is what failed.            *)
CleanUp ==
  /\ step = "error" /\ step' = "done"
  /\ ends' = ends \ fds /\ fds' = {}
  /\ \E waited \in BOOLEAN :
       LET pid == "not_waited_for" \notin faults IN
       /\ child' = IF pid THEN [child EXCEPT !.state = IF waited THEN "reaped" ELSE "zombie"]
                          ELSE child
       /\ kept' = IF pid THEN {} ELSE kept
       /\ faults' = faults \cup (IF fds \subseteq ends THEN {} ELSE {"closed_twice"})
                           \cup (IF waited THEN {} ELSE {"not_waited_for"})
  /\ io' = [io EXCEPT !.result = "NULL"]
  /\ UNCHANGED <<call, cloexec, pipe>>

-----------------------------------------------------------------------------
ExecNext ==
  \/ MakePipe \/ PopenFails \/ (\E kind \in {"filter", "sink"} : Fork(kind)) \/ ParentSide
  \/ CallerCloses \/ NextCall
  \/ ChildExecs \/ ChildExits \/ ChildReads \/ ChildWrites
  \/ WriteSome \/ WriteFails \/ CloseOutfd \/ CloseInfd
  \/ ReadSome \/ ReadEnds \/ ReadFails \/ Wait \/ WaitFails \/ CleanUp

ExecSpec == ExecInit /\ [][ExecNext]_execVars

-----------------------------------------------------------------------------
(* Properties.                                                               *)

(* Whatever fails on the way, every descriptor of the pipes is closed, none   *)
(* of them twice, and the child is waited for unless waiting failed; and the  *)
(* ends that nl_popen3() returns are exactly the parent's, and the only ones  *)
(* the parent has open (exec.c:124, exec.c:142, exec.c:244).                  *)
DescriptorsSettled ==
  /\ "closed_twice" \notin faults
  /\ step = "done" => /\ ends = {} /\ fds = {}
                      /\ child.state \in {"none", "reaped"} \/ "not_waited_for" \in faults
  /\ step = "returned" => /\ ends = {Near(p) : p \in call.wanted} /\ fds = ends

(* "The file descriptors returned by this function will already be set to     *)
(* close on execute": so that no other child keeps a pipe of this one open.   *)
(* False of stderr, for which that of stdout is marked instead (exec.c:136).  *)
ReturnedCloseOnExec == step = "returned" => ends \subseteq cloexec

(* nl_popenve_readall() returns all that the child wrote, and what it was     *)
(* given was written out; parent and child wait for each other's pipe only if *)
(* the input does not fit in both pipes and the child's hands (exec.c:211).   *)
ReadsAll ==
  /\ io.result = "data" =>
       /\ io.read = child.wrote /\ pipe.out = 0 /\ io.written = call.input
  /\ (/\ step = "write" /\ io.written < call.input /\ pipe.in = Capacity
      /\ child.state = "running" /\ child.holds = 1 /\ pipe.out = Capacity)
     => call.input > 2 * Capacity + 1
=============================================================================
