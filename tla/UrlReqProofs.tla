---------------------------- MODULE UrlReqProofs ----------------------------
(***************************************************************************)
(* Theorems about UrlReq for any set of workers and requests, any capacity *)
(* of the control pipe and any of the failures: types, the lock, the order *)
(* of a teardown, and who holds a request's pointer.  Then, for clients    *)
(* that keep to the advice of url_req.h and calls that do not fail: what a *)
(* shutdown and a teardown leave, and that the context is the service.     *)
(***************************************************************************)
EXTENDS UrlReq, TLAPS

\* The initial state has its types.
LEMMA InitType == Init => TypeOK
<1> SUFFICES ASSUME Init PROVE TypeOK
  OBVIOUS
<1>1. LockOK
  BY ThreadAssumption DEF Init, LockOK, Threads, Clients
<1>2. PipeOK
  <2>1. pipe = <<>> /\ 0 <= PipeCapacity
    BY BoundAssumption DEF Init
  <2>2. <<>> \in Seq(Requests \cup {NoRequest}) /\ Len(<<>>) = 0
    OBVIOUS
  <2> QED
    BY <2>1, <2>2 DEF PipeOK
<1>3. ContextOK
  BY BoundAssumption DEF Init, ContextOK
<1>7. FlagsOK
  BY DEF Init, FlagsOK
<1>4. PcOK
  BY ThreadAssumption DEF Init, PcOK, Threads, Clients, ClientPC, EventPC, CallPC, DeinitPC, AddPC
<1>5. HandsOK
  BY ThreadAssumption DEF Init, HandsOK, AddPC, Threads, Clients
<1>6. RequestsOK
  BY DEF Init, RequestsOK
<1> QED
  BY <1>1, <1>2, <1>3, <1>4, <1>5, <1>6, <1>7 DEF TypeOK

\* A write of the NoRequest pointer, done or failed, leaves a pipe that is not empty.
LEMMA WriteNullFits == ASSUME PipeOK, WriteNull PROVE PipeOK' /\ pipe' # <<>>
<1>1. CASE PipeHasRoom
  <2>1. pipe' = Append(pipe, NoRequest)
    BY <1>1 DEF WriteNull
  <2>2. pipe' \in Seq(Requests \cup {NoRequest}) /\ Len(pipe') = Len(pipe) + 1
    BY <2>1 DEF PipeOK
  <2> QED
    BY <1>1, <2>2, BoundAssumption DEF PipeOK, PipeHasRoom
<1>2. CASE ~PipeHasRoom
  <2>1. pipe' = pipe /\ Len(pipe) > 0
    BY <1>2, BoundAssumption DEF WriteNull, PipeOK, PipeHasRoom
  <2> QED
    BY <2>1 DEF PipeOK
<1> QED
  BY <1>1, <1>2

\* nl_url_req_add() keeps the invariant.
LEMMA AddKeeps ==
  ASSUME IInv, NEW t \in Threads,
                    \/ \E r \in Requests : AddRefused(t, r) \/ AddChecked(t, r)
                    \/ AddEnlist(t)
                    \/ AddCloneFails(t)
                    \/ AddWrite(t)
                    \/ AddWriteFails(t)
                    \/ AddError(t)
  PROVE  IInv'
<1> USE ThreadAssumption
    DEF AddRefused, AddChecked, AddEnlist, AddCloneFails, AddWrite, AddWriteFails, AddError,
        MayAdd, MayCall, Lock, CanLock, Unlock, Unlocked, Return, FreeReq, PipeHasRoom, Goto,
        flags, loop, child, history
<1>1. PcOK' /\ HandsOK' /\ LockOK' /\ LockInv' /\ LoopInv'
  BY DEF IInv, TypeOK, PcOK, HandsOK, LockOK, LockInv, InCritical, LoopInv, LoopOutlivesThread,
         NoLostWakeup, EventDone, Threads, Clients, ClientPC, EventPC, CallPC, DeinitPC, AddPC
<1>2. PipeOK'
  <2>1. CASE UNCHANGED pipe
    BY <2>1 DEF IInv, TypeOK, PipeOK
  <2>2. CASE AddWrite(t)
    <3>1. pipe' = Append(pipe, arg[t]) /\ arg[t] \in Requests /\ Len(pipe) < PipeCapacity
      BY <2>2 DEF IInv, TypeOK, HandsOK, AddPC
    <3>2. pipe \in Seq(Requests \cup {NoRequest})
      BY DEF IInv, TypeOK, PipeOK
    <3> QED
      BY <3>1, <3>2, BoundAssumption DEF PipeOK
  <2> QED
    BY <2>1, <2>2
<1>3. ContextOK'
  BY BoundAssumption DEF IInv, TypeOK, ContextOK, HandsOK, AddPC
<1>5. RequestsOK'
  <2>1. CASE \E r \in Requests : AddRefused(t, r) \/ AddChecked(t, r)
    BY <2>1 DEF IInv, TypeOK, RequestsOK
  <2>2. CASE AddError(t)
    BY <2>2 DEF IInv, TypeOK, RequestsOK, HandsOK, AddPC, Reaped
  <2>3. CASE AddWrite(t)
    BY <2>3 DEF IInv, TypeOK, RequestsOK, HandsOK, AddPC
  <2>4. CASE UNCHANGED <<child, history>>
    BY <2>4 DEF IInv, TypeOK, RequestsOK
  <2> QED
    BY <2>1, <2>2, <2>3, <2>4
<1>4. FlagsOK'
  BY DEF IInv, TypeOK, FlagsOK
<1> QED
  BY <1>1, <1>2, <1>3, <1>4, <1>5 DEF IInv, TypeOK

\* nl_url_req_shutdown() keeps the invariant.
LEMMA ShutdownKeeps ==
  ASSUME IInv, NEW t \in Threads,
                    \/ ShutdownCall(t)
                    \/ ShutdownLock(t)
                    \/ ShutdownWrite(t)
  PROVE  IInv'
<1> USE ThreadAssumption
    DEF ShutdownCall, ShutdownLock, ShutdownWrite,
        MayCall, Lock, CanLock, Unlock, Unlocked, Return, Goto,
        flags, loop, child, history
<1>1. PcOK' /\ HandsOK' /\ LockOK' /\ LockInv' /\ LoopInv'
  BY WriteNullFits DEF IInv, TypeOK, PcOK, HandsOK, LockOK, LockInv, InCritical, LoopInv, LoopOutlivesThread,
         NoLostWakeup, EventDone, Threads, Clients, ClientPC, EventPC, CallPC, DeinitPC, AddPC
<1>2. PipeOK'
  <2>1. CASE UNCHANGED pipe
    BY <2>1 DEF IInv, TypeOK, PipeOK
  <2>2. CASE ShutdownWrite(t)
    BY <2>2, WriteNullFits DEF IInv, TypeOK
  <2> QED
    BY <2>1, <2>2
<1>3. ContextOK' /\ RequestsOK'
  BY BoundAssumption DEF IInv, TypeOK, ContextOK, RequestsOK, HandsOK, AddPC, Reaped
<1>4. FlagsOK'
  BY DEF IInv, TypeOK, FlagsOK
<1> QED
  BY <1>1, <1>2, <1>3, <1>4 DEF IInv, TypeOK

\* So do nl_url_req_init(), nl_url_req_wait() and nl_url_req_deinit().
LEMMA TeardownKeeps ==
  ASSUME IInv,
                    \/ InitReturn
                    \/ \E w \in Workers : Retire(w)
                    \/ WaitCall
                    \/ WaitJoin
                    \/ DeinitCall
                    \/ DeinitStop
                    \/ DeinitJoin
                    \/ DeinitFreeLoop
                    \/ DeinitFreeRequests
                    \/ DeinitThreads
  PROVE  IInv'
<1> USE ThreadAssumption
    DEF InitReturn, Retire, WaitCall, WaitJoin, DeinitCall, DeinitStop, DeinitJoin,
        DeinitFreeLoop, DeinitFreeRequests, DeinitThreads,
        MayCall, Lock, CanLock, Unlock, Unlocked, Join, Stop, FreeReq, Goto,
        flags, loop, child, history
<1>1. PcOK' /\ HandsOK' /\ LockOK' /\ LockInv' /\ LoopInv'
  BY DEF IInv, TypeOK, PcOK, HandsOK, LockOK, LockInv, InCritical, LoopInv, LoopOutlivesThread,
         NoLostWakeup, EventDone, Threads, Clients, ClientPC, EventPC, CallPC, DeinitPC, AddPC
<1>2. PipeOK'
  <2>1. CASE UNCHANGED pipe
    BY <2>1 DEF IInv, TypeOK, PipeOK
  <2>2. CASE pipe' = <<>>
    <3>1. <<>> \in Seq(Requests \cup {NoRequest}) /\ Len(<<>>) = 0 /\ 0 <= PipeCapacity
      BY BoundAssumption
    <3> QED
      BY <2>2, <3>1 DEF PipeOK
  <2> QED
    BY <2>1, <2>2
<1>3. ContextOK'
  BY BoundAssumption DEF IInv, TypeOK, ContextOK
<1>5. RequestsOK'
  <2>1. CASE UNCHANGED <<child, history>>
    BY <2>1 DEF IInv, TypeOK, RequestsOK
  <2>2. CASE DeinitFreeRequests
    BY <2>2 DEF IInv, TypeOK, ContextOK, RequestsOK, Reaped
  <2> QED
    BY <2>1, <2>2
<1>4. FlagsOK'
  BY DEF IInv, TypeOK, FlagsOK
<1> QED
  BY <1>1, <1>2, <1>3, <1>4, <1>5 DEF IInv, TypeOK

\* So does the event loop.
LEMMA LoopKeeps ==
  ASSUME IInv,
                    \/ EventStart
                    \/ EventPoll
                    \/ EventLoopExit
                    \/ EventExit
                    \/ CallbackReturn
                    \/ FreeFinished
                    \/ CheckLast
  PROVE  IInv'
<1> USE ThreadAssumption
    DEF EventStart, EventPoll, EventLoopExit, EventExit, CallbackReturn, FreeFinished, CheckLast,
        Event, Lock, CanLock, Stop, StopIfLast, FreeReq, Goto,
        flags, loop, child, history
<1>1. PcOK' /\ HandsOK' /\ LockOK' /\ LockInv' /\ LoopInv'
  BY DEF IInv, TypeOK, PcOK, HandsOK, LockOK, LockInv, InCritical, LoopInv, LoopOutlivesThread,
         NoLostWakeup, EventDone, Threads, Clients, ClientPC, EventPC, CallPC, DeinitPC, AddPC
<1>2. PipeOK'
  BY DEF IInv, TypeOK, PipeOK
<1>3. ContextOK' /\ RequestsOK'
  BY BoundAssumption DEF IInv, TypeOK, ContextOK, RequestsOK, HandsOK, AddPC, Reaped
<1>4. FlagsOK'
  BY DEF IInv, TypeOK, FlagsOK
<1> QED
  BY <1>1, <1>2, <1>3, <1>4 DEF IInv, TypeOK

\* So does the control pipe handler.
LEMMA HandlerKeeps ==
  ASSUME IInv,
                    \/ HandlerNull
                    \/ HandlerRequest
                    \/ StartProcess
                    \/ StartCurl
                    \/ StartCurlFails
                    \/ EnableFails
                    \/ HandlerError
  PROVE  IInv'
<1> USE ThreadAssumption
    DEF HandlerNull, HandlerRequest, StartProcess, StartCurl, StartCurlFails, EnableFails, HandlerError,
        Event, Lock, CanLock, Stop, StopIfLast, FreeReq, Goto,
        flags, loop, child, history
<1>1. PcOK' /\ HandsOK' /\ LockOK' /\ LockInv' /\ LoopInv'
  BY DEF IInv, TypeOK, PcOK, HandsOK, LockOK, LockInv, InCritical, LoopInv, LoopOutlivesThread,
         NoLostWakeup, EventDone, Threads, Clients, ClientPC, EventPC, CallPC, DeinitPC, AddPC
<1>2. PipeOK'
  BY DEF IInv, TypeOK, PipeOK
<1>3. ContextOK' /\ RequestsOK'
  BY BoundAssumption DEF IInv, TypeOK, ContextOK, RequestsOK, HandsOK, AddPC, Reaped
<1>4. FlagsOK'
  BY DEF IInv, TypeOK, FlagsOK
<1> QED
  BY <1>1, <1>2, <1>3, <1>4 DEF IInv, TypeOK

\* So do the events of a request's process.
LEMMA ProcessKeeps ==
  ASSUME IInv, NEW r \in Requests,
                    \/ \E s \in Streams : StreamEof(r, s)
                    \/ StreamFails(r)
  PROVE  IInv'
<1> USE ThreadAssumption
    DEF StreamEof, StreamFails,
        Event, Dispatching, Finish, Goto,
        flags, loop, child, history
<1>1. PcOK' /\ HandsOK' /\ LockOK' /\ LockInv' /\ LoopInv'
  BY DEF IInv, TypeOK, PcOK, HandsOK, LockOK, LockInv, InCritical, LoopInv, LoopOutlivesThread,
         NoLostWakeup, EventDone, Threads, Clients, ClientPC, EventPC, CallPC, DeinitPC, AddPC
<1>2. PipeOK'
  BY DEF IInv, TypeOK, PipeOK
<1>3. ContextOK' /\ RequestsOK'
  BY BoundAssumption DEF IInv, TypeOK, ContextOK, RequestsOK, HandsOK, AddPC, Reaped
<1>4. FlagsOK'
  BY DEF IInv, TypeOK, FlagsOK
<1> QED
  BY <1>1, <1>2, <1>3, <1>4 DEF IInv, TypeOK

\* nl_url_req_stop() writes to the pipe before it asks the loop to exit.
LEMMA StopKeeps == ASSUME IInv, NEW t \in Threads, StopWrite(t) PROVE IInv'
<1> USE ThreadAssumption
    DEF StopWrite, Unlock, Unlocked, Goto, flags, loop, child, history
<1>1. PipeOK' /\ pipe' # <<>>
  BY WriteNullFits DEF IInv, TypeOK
<1>2. PcOK' /\ HandsOK' /\ LockOK' /\ LockInv' /\ LoopInv'
  BY <1>1 DEF IInv, TypeOK, PcOK, HandsOK, LockOK, LockInv, InCritical, LoopInv,
              LoopOutlivesThread, NoLostWakeup, EventDone, Threads, Clients, ClientPC,
              EventPC, CallPC, DeinitPC, AddPC
<1>3. ContextOK' /\ RequestsOK'
  BY DEF IInv, TypeOK, ContextOK, RequestsOK
<1>4. FlagsOK'
  BY DEF IInv, TypeOK, FlagsOK
<1> QED
  BY <1>1, <1>2, <1>3, <1>4 DEF IInv, TypeOK

\* The handler takes a pointer off the pipe, and the loop is awake again.
LEMMA ReadKeeps == ASSUME IInv, HandlerRead PROVE IInv'
<1> USE ThreadAssumption
    DEF HandlerRead, Event, Dispatching, Goto, flags, loop, child, history
<1>1. PipeOK' /\ handled' \in Requests \cup {NoRequest}
  <2>1. pipe \in Seq(Requests \cup {NoRequest}) /\ pipe # <<>> /\ Len(pipe) <= PipeCapacity
    BY DEF IInv, TypeOK, PipeOK
  <2>2. Head(pipe) \in Requests \cup {NoRequest} /\ Tail(pipe) \in Seq(Requests \cup {NoRequest})
    BY <2>1
  <2>3. Len(Tail(pipe)) <= PipeCapacity
    BY <2>1, BoundAssumption
  <2> QED
    BY <2>2, <2>3 DEF PipeOK
<1>2. PcOK' /\ HandsOK' /\ LockOK' /\ LockInv' /\ LoopInv'
  BY <1>1 DEF IInv, TypeOK, PcOK, HandsOK, LockOK, LockInv, InCritical, LoopInv,
              LoopOutlivesThread, NoLostWakeup, EventDone, Threads, Clients, ClientPC,
              EventPC, CallPC, DeinitPC, AddPC
<1>3. ContextOK' /\ RequestsOK'
  BY DEF IInv, TypeOK, ContextOK, RequestsOK
<1>4. FlagsOK'
  BY DEF IInv, TypeOK, FlagsOK
<1> QED
  BY <1>1, <1>2, <1>3, <1>4 DEF IInv, TypeOK

\* A step that changes nothing keeps the invariant.
LEMMA StutterKeeps == ASSUME IInv, UNCHANGED vars PROVE IInv'
<1> USE DEF vars, flags, loop, child, history
<1>1. LockOK' /\ PipeOK' /\ ContextOK' /\ PcOK' /\ HandsOK' /\ RequestsOK' /\ LockInv' /\ LoopInv'
  BY DEF IInv, TypeOK, LockOK, PipeOK, ContextOK, PcOK, HandsOK, RequestsOK, LockInv,
         InCritical, LoopInv, LoopOutlivesThread, NoLostWakeup, EventDone
<1>2. FlagsOK'
  BY DEF IInv, TypeOK, FlagsOK
<1> QED
  BY <1>1, <1>2 DEF IInv, TypeOK

\* A context before nl_url_req_init() satisfies the invariant.
LEMMA InitInvariant == Init => IInv
<1> SUFFICES ASSUME Init PROVE IInv
  OBVIOUS
<1>1. LockInv
  <2>1. lock.owner = Main /\ lock.depth = 1 /\ Main # NoThread
    BY ThreadAssumption DEF Init, Threads, Clients
  <2>2. \A t \in Threads : InCritical(t) => t = Main
    BY ThreadAssumption DEF Init, InCritical, Threads, Clients
  <2> QED
    BY <2>1, <2>2 DEF LockInv
<1>2. LoopInv
  BY ThreadAssumption DEF Init, LoopInv, LoopOutlivesThread, NoLostWakeup, EventDone,
                          Threads, Clients
<1> QED
  BY <1>1, <1>2, InitType DEF IInv

\* Every step of every thread keeps the invariant.
LEMMA StepInvariant == IInv /\ [Next]_vars => IInv'
<1> SUFFICES ASSUME IInv, [Next]_vars PROVE IInv'
  OBVIOUS
<1>1. ASSUME NEW t \in Threads, Calls(t) PROVE IInv'
  <2>1. CASE \E r \in Requests : AddRefused(t, r) \/ AddChecked(t, r)
    BY <2>1, AddKeeps
  <2>2. CASE ShutdownCall(t)
    BY <2>2, ShutdownKeeps
  <2> QED
    BY <1>1, <2>1, <2>2 DEF Calls
<1>2. ASSUME NEW t \in Threads, CallStep(t) PROVE IInv'
  <2>1. CASE AddEnlist(t) \/ AddCloneFails(t) \/ AddWrite(t) \/ AddWriteFails(t) \/ AddError(t)
    BY <2>1, AddKeeps
  <2>2. CASE ShutdownLock(t) \/ ShutdownWrite(t)
    BY <2>2, ShutdownKeeps
  <2>3. CASE StopWrite(t)
    BY <2>3, StopKeeps
  <2> QED
    BY <1>2, <2>1, <2>2, <2>3 DEF CallStep
<1>3. CASE \E w \in Workers : Retire(w)
  BY <1>3, TeardownKeeps
<1>4. CASE WaitCall \/ DeinitCall \/ MainStep
  BY <1>4, TeardownKeeps DEF MainStep
<1>5. CASE EventStep
  <2>1. CASE \E r \in Requests : StreamFails(r) \/ \E s \in Streams : StreamEof(r, s)
    BY <2>1, ProcessKeeps
  <2> QED
    BY <1>5, <2>1, LoopKeeps, ReadKeeps, HandlerKeeps DEF EventStep
<1>6. CASE Terminated \/ UNCHANGED vars
  BY <1>6, StutterKeeps DEF Terminated
<1> QED
  BY <1>1, <1>2, <1>3, <1>4, <1>5, <1>6 DEF Next

\* The invariant holds for any number of workers and requests, any capacity of
\* the pipe, whatever fails.
THEOREM Invariance == Spec => []IInv
  BY InitInvariant, StepInvariant, PTL DEF Spec

\* Every variable keeps its type, in particular the depth of the mutex: no step
\* unlocks a mutex that its thread does not hold.
THEOREM TypeCorrectness == Spec => []TypeOK
<1>1. IInv => TypeOK
  BY DEF IInv
<1> QED
  BY <1>1, Invariance, PTL

\* The event base is never freed before the event thread is past its last use.
THEOREM LoopSafety == Spec => []LoopOutlivesThread
<1>1. IInv => LoopOutlivesThread
  BY DEF IInv, LoopInv
<1> QED
  BY <1>1, Invariance, PTL

\* The event loop never sleeps through a request to exit.
THEOREM WakeupSafety == Spec => []NoLostWakeup
<1>1. IInv => NoLostWakeup
  BY DEF IInv, LoopInv
<1> QED
  BY <1>1, Invariance, PTL

-----------------------------------------------------------------------------
(* Who holds the pointer of a request.                                      *)

PipeHas(r) == \E i \in DOMAIN pipe : pipe[i] = r
PipeOnce == \A i, j \in DOMAIN pipe : pipe[i] = pipe[j] /\ i # j => pipe[i] = NoRequest

\* The event thread is in a callback, or about to release the request it was for.
InCallback == pc[EventThread] \in AddPC \cup {"callback", "free_req", "shutdown_lock", "shutdown_write"}

\* A request being added is in one hand only; the caller has not its answer yet.
HandInv ==
  /\ \A t \in Threads : arg[t] # NoRequest => outcome[arg[t]] = "none"
  /\ \A t, u \in Threads : arg[t] = arg[u] /\ arg[t] # NoRequest => t = u
  /\ \A t \in Threads : pc[t] = "add_write" => arg[t] \in reqlist
  /\ \A r \in reqlist : \/ outcome[r] = "accepted"
                        \/ \E t \in Threads : arg[t] = r /\ pc[t] \in {"add_write", "add_error", "aborted"}

\* What is listed is not released, what is unanswered not even started.
RecordInv ==
  /\ \A r \in reqlist : releases[r] = 0
  /\ \A r \in Requests : outcome[r] = "none" => calls[r] = 0 /\ releases[r] = 0
  /\ \A r \in bufs : r \in reqlist /\ outcome[r] = "accepted"

PipeInv ==
  /\ PipeOnce
  /\ \A r \in Requests : PipeHas(r) => r \in reqlist \ bufs /\ outcome[r] = "accepted" /\ calls[r] = 0

CurInv ==
  /\ pc[EventThread] \in {"handle", "start_curl", "write_options"} /\ handled # NoRequest => handled \in reqlist
  /\ pc[EventThread] \in {"handle", "start_curl", "write_options", "handler_error"} /\ handled # NoRequest =>
       handled \notin bufs /\ ~PipeHas(handled) /\ calls[handled] = 0 /\ outcome[handled] = "accepted"
  /\ InCallback => handled \in bufs
  /\ \A r \in bufs : calls[r] = 0 \/ (InCallback /\ handled = r)

\* During the teardown no client is in a call, and an aborted process has no thread.
QuietInv ==
  /\ pc[Main] \in DeinitPC \cup {"stop_write"} => \A w \in Workers : pc[w] = "retired"
  /\ \A t, u \in Threads : pc[t] = "aborted" => pc[u] = "aborted"

PointerInv ==
  IInv /\ HandInv /\ RecordInv /\ PipeInv /\ CurInv /\ QuietInv /\ NoOrphanProcess

\* A pointer that is written to the pipe is on it, once if it was not before.
LEMMA Written ==
  ASSUME PipeOK, NEW p \in Requests \cup {NoRequest}, pipe' = Append(pipe, p), PipeOnce,
         p # NoRequest => ~PipeHas(p)
  PROVE  PipeOnce' /\ \A r \in Requests : PipeHas(r)' <=> PipeHas(r) \/ r = p
<1> PICK n \in Nat : n = Len(pipe)
  BY DEF PipeOK
<1>1. /\ DOMAIN pipe = 1..n /\ DOMAIN pipe' = 1..(n + 1)
      /\ pipe'[n + 1] = p /\ \A i \in 1..n : pipe'[i] = pipe[i]
  BY DEF PipeOK
<1>2. PipeOnce'
  BY <1>1 DEF PipeOnce, PipeHas
<1>3. \A r \in Requests : PipeHas(r)' <=> PipeHas(r) \/ r = p
  BY <1>1 DEF PipeHas
<1> QED
  BY <1>2, <1>3

\* A NoRequest that is written, or not, changes no request's pointer.
LEMMA WrittenNull ==
  ASSUME PipeOK, WriteNull, PipeOnce
  PROVE  PipeOnce' /\ \A r \in Requests : PipeHas(r)' <=> PipeHas(r)
<1>1. CASE pipe' = Append(pipe, NoRequest)
  BY <1>1, Written, RequestAssumption
<1>2. CASE pipe' = pipe
  BY <1>2 DEF PipeOnce, PipeHas
<1> QED
  BY <1>1, <1>2 DEF WriteNull

\* A pointer that is read from the pipe is not on it any more.
LEMMA Taken ==
  ASSUME PipeOK, pipe # <<>>, pipe' = Tail(pipe), PipeOnce, NEW h, h = Head(pipe)
  PROVE  /\ PipeOnce' /\ \A r \in Requests : PipeHas(r)' => PipeHas(r)
         /\ h \in Requests => PipeHas(h) /\ ~PipeHas(h)'
<1> PICK n \in Nat \ {0} : n = Len(pipe)
  BY DEF PipeOK
<1>1. /\ DOMAIN pipe = 1..n /\ DOMAIN pipe' = 1..(n - 1)
      /\ Head(pipe) = pipe[1] /\ \A i \in 1..(n - 1) : pipe'[i] = pipe[i + 1]
  BY DEF PipeOK
<1>2. PipeOnce'
  BY <1>1 DEF PipeOnce
<1>3. \A r \in Requests : PipeHas(r)' => PipeHas(r)
  BY <1>1 DEF PipeHas
<1>4. ASSUME h \in Requests PROVE PipeHas(h) /\ ~PipeHas(h)'
  <2>1. PipeHas(h)
    BY <1>1 DEF PipeHas
  <2>2. \A i \in 1..(n - 1) : pipe'[i] # h
    BY <1>1, <1>4, RequestAssumption DEF PipeOnce
  <2>3. ~PipeHas(h)'
    BY <1>1, <2>2 DEF PipeHas
  <2> QED
    BY <2>1, <2>3
<1> QED
  BY <1>2, <1>3, <1>4

\* The pipe is as it was.
LEMMA PipeKept ==
  ASSUME pipe' = pipe
  PROVE  (PipeOnce' <=> PipeOnce) /\ \A r \in Requests : PipeHas(r)' <=> PipeHas(r)
BY DEF PipeOnce, PipeHas

\* A context before nl_url_req_init() satisfies it.
LEMMA PointerInit == Init => PointerInv
<1> SUFFICES ASSUME Init PROVE PointerInv
  OBVIOUS
<1>1. IInv
  BY InitInvariant
<1>2. HandInv /\ RecordInv /\ CurInv /\ NoOrphanProcess
  BY ThreadAssumption
  DEF Init, HandInv, RecordInv, CurInv, NoOrphanProcess, InCallback, AddPC, Threads, Clients
<1>3. PipeInv
  BY DEF Init, PipeInv, PipeOnce, PipeHas
<1>4. QuietInv
  BY ThreadAssumption DEF Init, QuietInv, DeinitPC, Threads, Clients
<1> QED
  BY <1>1, <1>2, <1>3, <1>4 DEF PointerInv

\* A call of nl_url_req_add() begins.
LEMMA AddCalls ==
  ASSUME PointerInv, NEW t \in Threads, \E r \in Requests : AddRefused(t, r) \/ AddChecked(t, r)
  PROVE  HandInv' /\ RecordInv' /\ PipeInv' /\ CurInv' /\ QuietInv' /\ NoOrphanProcess'
<1> USE ThreadAssumption, RequestAssumption
    DEF AddRefused, AddChecked, MayAdd, MayCall, Unused, Goto, flags, loop, child, history
<1> USE DEF TypeOK, PcOK, HandsOK, RequestsOK, ContextOK, LoopInv, EventDone,
            Threads, Clients, AddPC, CallPC, DeinitPC, ClientPC, EventPC
<1>1. TypeOK /\ LoopInv
  BY DEF PointerInv, IInv
<1>2. HandInv'
  BY <1>1 DEF PointerInv, HandInv, RecordInv, CurInv, QuietInv, InCallback
<1>3. RecordInv'
  BY <1>1 DEF PointerInv, HandInv, RecordInv, CurInv, QuietInv, InCallback
<1>4. PipeInv'
  BY <1>1, PipeKept DEF PointerInv, HandInv, RecordInv, PipeInv, CurInv, InCallback
<1>5. CurInv'
  BY <1>1, PipeKept DEF PointerInv, HandInv, RecordInv, PipeInv, CurInv, QuietInv, InCallback
<1>6. QuietInv'
  BY <1>1 DEF PointerInv, QuietInv, InCallback
<1>7. NoOrphanProcess'
  BY <1>1 DEF PointerInv, RecordInv, CurInv, NoOrphanProcess, InCallback
<1> QED
  BY <1>2, <1>3, <1>4, <1>5, <1>6, <1>7

\* It enlists the request, or fails to.
LEMMA AddEnlists ==
  ASSUME PointerInv, NEW t \in Threads, AddEnlist(t) \/ AddCloneFails(t) \/ AddWriteFails(t)
  PROVE  HandInv' /\ RecordInv' /\ PipeInv' /\ CurInv' /\ QuietInv' /\ NoOrphanProcess'
<1> USE ThreadAssumption, RequestAssumption
    DEF AddEnlist, AddCloneFails, AddWriteFails, Goto, flags, loop, child, history
<1> USE DEF TypeOK, PcOK, HandsOK, RequestsOK, ContextOK, LoopInv, EventDone,
            Threads, Clients, AddPC, CallPC, DeinitPC, ClientPC, EventPC
<1>1. TypeOK /\ LoopInv
  BY DEF PointerInv, IInv
<1>2. HandInv'
  BY <1>1 DEF PointerInv, HandInv, RecordInv, CurInv, QuietInv, InCallback
<1>3. RecordInv'
  BY <1>1 DEF PointerInv, HandInv, RecordInv, CurInv, QuietInv, InCallback
<1>4. PipeInv'
  BY <1>1, PipeKept DEF PointerInv, HandInv, RecordInv, PipeInv, CurInv, InCallback
<1>5. CurInv'
  BY <1>1, PipeKept DEF PointerInv, HandInv, RecordInv, PipeInv, CurInv, QuietInv, InCallback
<1>6. QuietInv'
  BY <1>1 DEF PointerInv, QuietInv, InCallback
<1>7. NoOrphanProcess'
  BY <1>1 DEF PointerInv, RecordInv, CurInv, NoOrphanProcess, InCallback
<1> QED
  BY <1>2, <1>3, <1>4, <1>5, <1>6, <1>7

\* It writes the pointer.
LEMMA AddWrites ==
  ASSUME PointerInv, NEW t \in Threads, AddWrite(t)
  PROVE  HandInv' /\ RecordInv' /\ PipeInv' /\ CurInv' /\ QuietInv' /\ NoOrphanProcess'
<1> USE ThreadAssumption, RequestAssumption
    DEF AddWrite, Return, Goto, flags, loop, child, history
<1> USE DEF TypeOK, PcOK, HandsOK, RequestsOK, ContextOK, LoopInv, EventDone,
            Threads, Clients, AddPC, CallPC, DeinitPC, ClientPC, EventPC
<1>1. TypeOK /\ LoopInv
  BY DEF PointerInv, IInv
<1>0. /\ arg[t] \in Requests /\ outcome[arg[t]] = "none" /\ arg[t] \in reqlist \ bufs
      /\ ~PipeHas(arg[t]) /\ calls[arg[t]] = 0
  BY <1>1 DEF PointerInv, HandInv, RecordInv, PipeInv, TypeOK, HandsOK, AddPC
<1>8. PipeOnce' /\ \A r \in Requests : PipeHas(r)' <=> PipeHas(r) \/ r = arg[t]
  BY <1>0, <1>1, Written DEF TypeOK, PointerInv, PipeInv
<1>2. HandInv'
  BY <1>1, <1>0, <1>8 DEF PointerInv, HandInv, RecordInv, CurInv, QuietInv, InCallback
<1>3. RecordInv'
  BY <1>1, <1>0, <1>8 DEF PointerInv, HandInv, RecordInv, CurInv, QuietInv, InCallback
<1>4. PipeInv'
  BY <1>1, <1>0, <1>8 DEF PointerInv, HandInv, RecordInv, PipeInv, CurInv, InCallback
<1>5. CurInv'
  BY <1>1, <1>0, <1>8 DEF PointerInv, HandInv, RecordInv, PipeInv, CurInv, QuietInv, InCallback
<1>6. QuietInv'
  BY <1>1, <1>0, <1>8 DEF PointerInv, QuietInv, InCallback
<1>7. NoOrphanProcess'
  BY <1>1, <1>0, <1>8 DEF PointerInv, RecordInv, CurInv, NoOrphanProcess, InCallback
<1> QED
  BY <1>2, <1>3, <1>4, <1>5, <1>6, <1>7

\* Or it releases the request, which is nobody else's.
LEMMA AddErrs ==
  ASSUME PointerInv, NEW t \in Threads, AddError(t)
  PROVE  HandInv' /\ RecordInv' /\ PipeInv' /\ CurInv' /\ QuietInv' /\ NoOrphanProcess'
<1> USE ThreadAssumption, RequestAssumption
    DEF AddError, Return, FreeReq, Reaped, Goto, flags, loop, child, history
<1> USE DEF TypeOK, PcOK, HandsOK, RequestsOK, ContextOK, LoopInv, EventDone,
            Threads, Clients, AddPC, CallPC, DeinitPC, ClientPC, EventPC
<1>1. TypeOK /\ LoopInv
  BY DEF PointerInv, IInv
<1>0. arg[t] \in Requests /\ outcome[arg[t]] = "none" /\ arg[t] \notin bufs /\ ~PipeHas(arg[t])
  BY <1>1 DEF PointerInv, HandInv, RecordInv, PipeInv, TypeOK, HandsOK, AddPC
<1>2. HandInv'
  BY <1>1, <1>0 DEF PointerInv, HandInv, RecordInv, CurInv, QuietInv, InCallback
<1>3. RecordInv'
  BY <1>1, <1>0 DEF PointerInv, HandInv, RecordInv, CurInv, QuietInv, InCallback
<1>4. PipeInv'
  BY <1>1, <1>0, PipeKept DEF PointerInv, HandInv, RecordInv, PipeInv, CurInv, InCallback
<1>5. CurInv'
  BY <1>1, <1>0, PipeKept DEF PointerInv, HandInv, RecordInv, PipeInv, CurInv, QuietInv, InCallback
<1>6. QuietInv'
  BY <1>1, <1>0 DEF PointerInv, QuietInv, InCallback
<1>7. NoOrphanProcess'
  BY <1>1, <1>0 DEF PointerInv, RecordInv, CurInv, NoOrphanProcess, InCallback
<1> QED
  BY <1>2, <1>3, <1>4, <1>5, <1>6, <1>7

\* nl_url_req_shutdown() and nl_url_req_stop() move no pointer.
LEMMA Shutdowns ==
  ASSUME PointerInv, NEW t \in Threads, ShutdownCall(t) \/ ShutdownLock(t)
  PROVE  HandInv' /\ RecordInv' /\ PipeInv' /\ CurInv' /\ QuietInv' /\ NoOrphanProcess'
<1> USE ThreadAssumption, RequestAssumption
    DEF ShutdownCall, ShutdownLock, MayCall, Goto, flags, loop, child, history
<1> USE DEF TypeOK, PcOK, HandsOK, RequestsOK, ContextOK, LoopInv, EventDone,
            Threads, Clients, AddPC, CallPC, DeinitPC, ClientPC, EventPC
<1>1. TypeOK /\ LoopInv
  BY DEF PointerInv, IInv
<1>2. HandInv'
  BY <1>1 DEF PointerInv, HandInv, RecordInv, CurInv, QuietInv, InCallback
<1>3. RecordInv'
  BY <1>1 DEF PointerInv, HandInv, RecordInv, CurInv, QuietInv, InCallback
<1>4. PipeInv'
  BY <1>1, PipeKept DEF PointerInv, HandInv, RecordInv, PipeInv, CurInv, InCallback
<1>5. CurInv'
  BY <1>1, PipeKept DEF PointerInv, HandInv, RecordInv, PipeInv, CurInv, QuietInv, InCallback
<1>6. QuietInv'
  BY <1>1 DEF PointerInv, QuietInv, InCallback
<1>7. NoOrphanProcess'
  BY <1>1 DEF PointerInv, RecordInv, CurInv, NoOrphanProcess, InCallback
<1> QED
  BY <1>2, <1>3, <1>4, <1>5, <1>6, <1>7

\* They write a NoRequest.
LEMMA ShutdownWrites ==
  ASSUME PointerInv, NEW t \in Threads, ShutdownWrite(t) \/ StopWrite(t)
  PROVE  HandInv' /\ RecordInv' /\ PipeInv' /\ CurInv' /\ QuietInv' /\ NoOrphanProcess'
<1> USE ThreadAssumption, RequestAssumption
    DEF ShutdownWrite, StopWrite, Return, Goto, flags, loop, child, history
<1> USE DEF TypeOK, PcOK, HandsOK, RequestsOK, ContextOK, LoopInv, EventDone,
            Threads, Clients, AddPC, CallPC, DeinitPC, ClientPC, EventPC
<1>1. TypeOK /\ LoopInv
  BY DEF PointerInv, IInv
<1>8. PipeOnce' /\ \A r \in Requests : PipeHas(r)' <=> PipeHas(r)
  BY <1>1, WrittenNull DEF ShutdownWrite, StopWrite, TypeOK, PointerInv, PipeInv
<1>2. HandInv'
  BY <1>1, <1>8 DEF PointerInv, HandInv, RecordInv, CurInv, QuietInv, InCallback
<1>3. RecordInv'
  BY <1>1, <1>8 DEF PointerInv, HandInv, RecordInv, CurInv, QuietInv, InCallback
<1>4. PipeInv'
  BY <1>1, <1>8 DEF PointerInv, HandInv, RecordInv, PipeInv, CurInv, InCallback
<1>5. CurInv'
  BY <1>1, <1>8 DEF PointerInv, HandInv, RecordInv, PipeInv, CurInv, QuietInv, InCallback
<1>6. QuietInv'
  BY <1>1, <1>8 DEF PointerInv, QuietInv, InCallback
<1>7. NoOrphanProcess'
  BY <1>1, <1>8 DEF PointerInv, RecordInv, CurInv, NoOrphanProcess, InCallback
<1> QED
  BY <1>2, <1>3, <1>4, <1>5, <1>6, <1>7

\* Nor do the clients that wait or tear down, until the requests are released.
LEMMA Teardowns ==
  ASSUME PointerInv,
         InitReturn \/ (\E w \in Workers : Retire(w)) \/ WaitCall \/ WaitJoin \/ DeinitCall \/ DeinitStop
         \/ DeinitJoin \/ DeinitFreeLoop \/ DeinitThreads
  PROVE  HandInv' /\ RecordInv' /\ PipeInv' /\ CurInv' /\ QuietInv' /\ NoOrphanProcess'
<1> USE ThreadAssumption, RequestAssumption
    DEF InitReturn, Retire, WaitCall, WaitJoin, DeinitCall, DeinitStop, DeinitJoin,
        DeinitFreeLoop, DeinitThreads, MayCall, Join, Stop, Goto, flags, loop, child, history
<1> USE DEF TypeOK, PcOK, HandsOK, RequestsOK, ContextOK, LoopInv, EventDone,
            Threads, Clients, AddPC, CallPC, DeinitPC, ClientPC, EventPC
<1>1. TypeOK /\ LoopInv
  BY DEF PointerInv, IInv
<1>2. HandInv'
  BY <1>1 DEF PointerInv, HandInv, RecordInv, CurInv, QuietInv, InCallback
<1>3. RecordInv'
  BY <1>1 DEF PointerInv, HandInv, RecordInv, CurInv, QuietInv, InCallback
<1>4. PipeInv'
  BY <1>1, PipeKept DEF PointerInv, HandInv, RecordInv, PipeInv, CurInv, InCallback
<1>5. CurInv'
  BY <1>1, PipeKept DEF PointerInv, HandInv, RecordInv, PipeInv, CurInv, QuietInv, InCallback
<1>6. QuietInv'
  BY <1>1 DEF PointerInv, QuietInv, InCallback
<1>7. NoOrphanProcess'
  BY <1>1 DEF PointerInv, RecordInv, CurInv, NoOrphanProcess, InCallback
<1> QED
  BY <1>2, <1>3, <1>4, <1>5, <1>6, <1>7

\* Then nobody has a request in its hand, and all that is listed is released.
LEMMA DeinitFrees ==
  ASSUME PointerInv, DeinitFreeRequests
  PROVE  HandInv' /\ RecordInv' /\ PipeInv' /\ CurInv' /\ QuietInv' /\ NoOrphanProcess'
<1> USE ThreadAssumption, RequestAssumption
    DEF DeinitFreeRequests, FreeReq, Reaped, Goto, flags, loop, child, history
<1> USE DEF TypeOK, PcOK, HandsOK, RequestsOK, ContextOK, LoopInv, EventDone,
            Threads, Clients, AddPC, CallPC, DeinitPC, ClientPC, EventPC
<1>1. TypeOK /\ LoopInv
  BY DEF PointerInv, IInv
<1>0. \A t \in Threads : pc[t] \notin AddPC \cup {"aborted"}
  BY <1>1 DEF PointerInv, QuietInv, LoopInv, EventDone, Threads, Clients, DeinitPC, AddPC
<1>8. PipeOnce' /\ \A r \in Requests : ~PipeHas(r)'
  BY DEF PipeOnce, PipeHas
<1>9. \A r \in Requests : outcome[r] = "none" => r \notin reqlist
  BY <1>0 DEF PointerInv, HandInv, AddPC
<1>2. HandInv'
  BY <1>1, <1>0, <1>8, <1>9 DEF PointerInv, HandInv, RecordInv, CurInv, QuietInv, InCallback
<1>3. RecordInv'
  BY <1>1, <1>0, <1>8, <1>9 DEF PointerInv, HandInv, RecordInv, CurInv, QuietInv, InCallback
<1>4. PipeInv'
  BY <1>1, <1>0, <1>8, <1>9 DEF PointerInv, HandInv, RecordInv, PipeInv, CurInv, InCallback
<1>5. CurInv'
  BY <1>1, <1>0, <1>8, <1>9 DEF PointerInv, HandInv, RecordInv, PipeInv, CurInv, QuietInv, InCallback
<1>6. QuietInv'
  BY <1>1, <1>0, <1>8, <1>9 DEF PointerInv, QuietInv, InCallback
<1>7. NoOrphanProcess'
  BY <1>1, <1>0, <1>8, <1>9 DEF PointerInv, RecordInv, CurInv, NoOrphanProcess, InCallback
<1> QED
  BY <1>2, <1>3, <1>4, <1>5, <1>6, <1>7

\* The event loop, and its stops, move no pointer.
LEMMA LoopTurns ==
  ASSUME PointerInv,
         EventStart \/ EventPoll \/ EventLoopExit \/ EventExit \/ CallbackReturn \/ CheckLast \/ HandlerNull
         \/ HandlerRequest
  PROVE  HandInv' /\ RecordInv' /\ PipeInv' /\ CurInv' /\ QuietInv' /\ NoOrphanProcess'
<1> USE ThreadAssumption, RequestAssumption
    DEF EventStart, EventPoll, EventLoopExit, EventExit, CallbackReturn, CheckLast, HandlerNull,
        HandlerRequest, Event, Stop, StopIfLast, Goto, flags, loop, child, history
<1> USE DEF TypeOK, PcOK, HandsOK, RequestsOK, ContextOK, LoopInv, EventDone,
            Threads, Clients, AddPC, CallPC, DeinitPC, ClientPC, EventPC
<1>1. TypeOK /\ LoopInv
  BY DEF PointerInv, IInv
<1>2. HandInv'
  BY <1>1 DEF PointerInv, HandInv, RecordInv, CurInv, QuietInv, InCallback
<1>3. RecordInv'
  BY <1>1 DEF PointerInv, HandInv, RecordInv, CurInv, QuietInv, InCallback
<1>4. PipeInv'
  BY <1>1, PipeKept DEF PointerInv, HandInv, RecordInv, PipeInv, CurInv, InCallback
<1>5. CurInv'
  BY <1>1, PipeKept DEF PointerInv, HandInv, RecordInv, PipeInv, CurInv, QuietInv, InCallback
<1>6. QuietInv'
  BY <1>1 DEF PointerInv, QuietInv, InCallback
<1>7. NoOrphanProcess'
  BY <1>1 DEF PointerInv, RecordInv, CurInv, NoOrphanProcess, InCallback
<1> QED
  BY <1>2, <1>3, <1>4, <1>5, <1>6, <1>7

\* A request whose callback returned is released.
LEMMA FreesFinished ==
  ASSUME PointerInv, FreeFinished
  PROVE  HandInv' /\ RecordInv' /\ PipeInv' /\ CurInv' /\ QuietInv' /\ NoOrphanProcess'
<1> USE ThreadAssumption, RequestAssumption
    DEF FreeFinished, Event, FreeReq, Reaped, Goto, flags, loop, child, history
<1> USE DEF TypeOK, PcOK, HandsOK, RequestsOK, ContextOK, LoopInv, EventDone,
            Threads, Clients, AddPC, CallPC, DeinitPC, ClientPC, EventPC
<1>1. TypeOK /\ LoopInv
  BY DEF PointerInv, IInv
<1>0. handled \in bufs /\ handled \in Requests /\ ~PipeHas(handled) /\ outcome[handled] = "accepted"
  BY <1>1 DEF PointerInv, CurInv, RecordInv, PipeInv, InCallback, TypeOK, RequestsOK
<1>2. HandInv'
  BY <1>1, <1>0 DEF PointerInv, HandInv, RecordInv, CurInv, QuietInv, InCallback
<1>3. RecordInv'
  BY <1>1, <1>0 DEF PointerInv, HandInv, RecordInv, CurInv, QuietInv, InCallback
<1>4. PipeInv'
  BY <1>1, <1>0, PipeKept DEF PointerInv, HandInv, RecordInv, PipeInv, CurInv, InCallback
<1>5. CurInv'
  BY <1>1, <1>0, PipeKept DEF PointerInv, HandInv, RecordInv, PipeInv, CurInv, QuietInv, InCallback
<1>6. QuietInv'
  BY <1>1, <1>0 DEF PointerInv, QuietInv, InCallback
<1>7. NoOrphanProcess'
  BY <1>1, <1>0 DEF PointerInv, RecordInv, CurInv, NoOrphanProcess, InCallback
<1> QED
  BY <1>2, <1>3, <1>4, <1>5, <1>6, <1>7

\* The handler takes the pointer it reads.
LEMMA HandlerReads ==
  ASSUME PointerInv, HandlerRead
  PROVE  HandInv' /\ RecordInv' /\ PipeInv' /\ CurInv' /\ QuietInv' /\ NoOrphanProcess'
<1> USE ThreadAssumption, RequestAssumption
    DEF HandlerRead, Event, Dispatching, Goto, flags, loop, child, history
<1> USE DEF TypeOK, PcOK, HandsOK, RequestsOK, ContextOK, LoopInv, EventDone,
            Threads, Clients, AddPC, CallPC, DeinitPC, ClientPC, EventPC
<1>1. TypeOK /\ LoopInv
  BY DEF PointerInv, IInv
<1> PICK h : h = Head(pipe)
  OBVIOUS
<1>8. /\ PipeOnce' /\ \A r \in Requests : PipeHas(r)' => PipeHas(r)
      /\ h \in Requests => PipeHas(h) /\ ~PipeHas(h)'
  BY <1>1, Taken DEF TypeOK, PointerInv, PipeInv
<1>0. handled' = h /\ h \in Requests \cup {NoRequest}
  BY <1>1 DEF TypeOK, PipeOK
<1>2. HandInv'
  BY <1>1, <1>0, <1>8 DEF PointerInv, HandInv, RecordInv, CurInv, QuietInv, InCallback
<1>3. RecordInv'
  BY <1>1, <1>0, <1>8 DEF PointerInv, HandInv, RecordInv, CurInv, QuietInv, InCallback
<1>4. PipeInv'
  BY <1>1, <1>0, <1>8 DEF PointerInv, HandInv, RecordInv, PipeInv, CurInv, InCallback
<1>5. CurInv'
  BY <1>1, <1>0, <1>8 DEF PointerInv, HandInv, RecordInv, PipeInv, CurInv, QuietInv, InCallback
<1>6. QuietInv'
  BY <1>1, <1>0, <1>8 DEF PointerInv, QuietInv, InCallback
<1>7. NoOrphanProcess'
  BY <1>1, <1>0, <1>8 DEF PointerInv, RecordInv, CurInv, NoOrphanProcess, InCallback
<1> QED
  BY <1>2, <1>3, <1>4, <1>5, <1>6, <1>7

\* It starts a process for it, or fails before or after that.
LEMMA StartsCurl ==
  ASSUME PointerInv, StartProcess \/ StartCurl \/ StartCurlFails \/ EnableFails
  PROVE  HandInv' /\ RecordInv' /\ PipeInv' /\ CurInv' /\ QuietInv' /\ NoOrphanProcess'
<1> USE ThreadAssumption, RequestAssumption
    DEF StartProcess, StartCurl, StartCurlFails, EnableFails, Event, FreeReq, Reaped, Goto, flags, loop, child, history
<1> USE DEF TypeOK, PcOK, HandsOK, RequestsOK, ContextOK, LoopInv, EventDone,
            Threads, Clients, AddPC, CallPC, DeinitPC, ClientPC, EventPC
<1>1. TypeOK /\ LoopInv
  BY DEF PointerInv, IInv
<1>0. /\ handled \in Requests /\ handled # NoRequest /\ handled \notin bufs /\ ~PipeHas(handled) /\ calls[handled] = 0
      /\ outcome[handled] = "accepted"
  BY <1>1 DEF PointerInv, CurInv, TypeOK, HandsOK
<1>2. HandInv'
  BY <1>1, <1>0 DEF PointerInv, HandInv, RecordInv, CurInv, QuietInv, InCallback
<1>3. RecordInv'
  BY <1>1, <1>0 DEF PointerInv, HandInv, RecordInv, CurInv, QuietInv, InCallback
<1>4. PipeInv'
  BY <1>1, <1>0, PipeKept DEF PointerInv, HandInv, RecordInv, PipeInv, CurInv, InCallback
<1>5. CurInv'
  BY <1>1, <1>0, PipeKept DEF PointerInv, HandInv, RecordInv, PipeInv, CurInv, QuietInv, InCallback
<1>6. QuietInv'
  BY <1>1, <1>0 DEF PointerInv, QuietInv, InCallback
<1>7. NoOrphanProcess'
  BY <1>1, <1>0 DEF PointerInv, RecordInv, CurInv, NoOrphanProcess, InCallback
<1> QED
  BY <1>2, <1>3, <1>4, <1>5, <1>6, <1>7

\* After a failure it releases the request, perhaps again.
LEMMA HandlerErrs ==
  ASSUME PointerInv, HandlerError
  PROVE  HandInv' /\ RecordInv' /\ PipeInv' /\ CurInv' /\ QuietInv' /\ NoOrphanProcess'
<1> USE ThreadAssumption, RequestAssumption
    DEF HandlerError, Event, FreeReq, Reaped, Goto, flags, loop, child, history
<1> USE DEF TypeOK, PcOK, HandsOK, RequestsOK, ContextOK, LoopInv, EventDone,
            Threads, Clients, AddPC, CallPC, DeinitPC, ClientPC, EventPC
<1>1. TypeOK /\ LoopInv
  BY DEF PointerInv, IInv
<1>0. /\ handled \in Requests /\ handled # NoRequest /\ handled \notin bufs /\ ~PipeHas(handled) /\ calls[handled] = 0
      /\ outcome[handled] = "accepted"
  BY <1>1 DEF PointerInv, CurInv, TypeOK, HandsOK
<1>2. HandInv'
  BY <1>1, <1>0 DEF PointerInv, HandInv, RecordInv, CurInv, QuietInv, InCallback
<1>3. RecordInv'
  BY <1>1, <1>0 DEF PointerInv, HandInv, RecordInv, CurInv, QuietInv, InCallback
<1>4. PipeInv'
  BY <1>1, <1>0, PipeKept DEF PointerInv, HandInv, RecordInv, PipeInv, CurInv, InCallback
<1>5. CurInv'
  BY <1>1, <1>0, PipeKept DEF PointerInv, HandInv, RecordInv, PipeInv, CurInv, QuietInv, InCallback
<1>6. QuietInv'
  BY <1>1, <1>0 DEF PointerInv, QuietInv, InCallback
<1>7. NoOrphanProcess'
  BY <1>1, <1>0 DEF PointerInv, RecordInv, CurInv, NoOrphanProcess, InCallback
<1> QED
  BY <1>2, <1>3, <1>4, <1>5, <1>6, <1>7

\* A stream of a request ends or fails.
LEMMA Finishes ==
  ASSUME PointerInv, NEW r \in Requests, StreamFails(r) \/ \E s \in Streams : StreamEof(r, s)
  PROVE  HandInv' /\ RecordInv' /\ PipeInv' /\ CurInv' /\ QuietInv' /\ NoOrphanProcess'
<1> USE ThreadAssumption, RequestAssumption
    DEF StreamFails, StreamEof, Finish, Reaped, Event, Dispatching, Goto, flags, loop, child, history
<1> USE DEF TypeOK, PcOK, HandsOK, RequestsOK, ContextOK, LoopInv, EventDone,
            Threads, Clients, AddPC, CallPC, DeinitPC, ClientPC, EventPC
<1>1. TypeOK /\ LoopInv
  BY DEF PointerInv, IInv
<1>0. ~InCallback /\ r \in reqlist /\ outcome[r] = "accepted" /\ calls[r] = 0 /\ ~PipeHas(r)
  BY <1>1 DEF PointerInv, RecordInv, PipeInv, CurInv, InCallback, AddPC
<1>2. HandInv'
  BY <1>1, <1>0 DEF PointerInv, HandInv, RecordInv, CurInv, QuietInv, InCallback
<1>3. RecordInv'
  BY <1>1, <1>0 DEF PointerInv, HandInv, RecordInv, CurInv, QuietInv, InCallback
<1>4. PipeInv'
  BY <1>1, <1>0, PipeKept DEF PointerInv, HandInv, RecordInv, PipeInv, CurInv, InCallback
<1>5. CurInv'
  BY <1>1, <1>0, PipeKept DEF PointerInv, HandInv, RecordInv, PipeInv, CurInv, QuietInv, InCallback
<1>6. QuietInv'
  BY <1>1, <1>0 DEF PointerInv, QuietInv, InCallback
<1>7. NoOrphanProcess'
  BY <1>1, <1>0 DEF PointerInv, RecordInv, CurInv, NoOrphanProcess, InCallback
<1> QED
  BY <1>2, <1>3, <1>4, <1>5, <1>6, <1>7

\* Nothing happens.
LEMMA Stays ==
  ASSUME PointerInv, UNCHANGED vars
  PROVE  HandInv' /\ RecordInv' /\ PipeInv' /\ CurInv' /\ QuietInv' /\ NoOrphanProcess'
<1> USE ThreadAssumption, RequestAssumption
    DEF vars, Goto, flags, loop, child, history
<1> USE DEF TypeOK, PcOK, HandsOK, RequestsOK, ContextOK, LoopInv, EventDone,
            Threads, Clients, AddPC, CallPC, DeinitPC, ClientPC, EventPC
<1>1. TypeOK /\ LoopInv
  BY DEF PointerInv, IInv
<1>2. HandInv'
  BY <1>1 DEF PointerInv, HandInv, RecordInv, CurInv, QuietInv, InCallback
<1>3. RecordInv'
  BY <1>1 DEF PointerInv, HandInv, RecordInv, CurInv, QuietInv, InCallback
<1>4. PipeInv'
  BY <1>1, PipeKept DEF PointerInv, HandInv, RecordInv, PipeInv, CurInv, InCallback
<1>5. CurInv'
  BY <1>1, PipeKept DEF PointerInv, HandInv, RecordInv, PipeInv, CurInv, QuietInv, InCallback
<1>6. QuietInv'
  BY <1>1 DEF PointerInv, QuietInv, InCallback
<1>7. NoOrphanProcess'
  BY <1>1 DEF PointerInv, RecordInv, CurInv, NoOrphanProcess, InCallback
<1> QED
  BY <1>2, <1>3, <1>4, <1>5, <1>6, <1>7

\* Every step of every thread keeps the pointers where they belong.
LEMMA PointerStep == PointerInv /\ [Next]_vars => PointerInv'
<1> SUFFICES ASSUME PointerInv, [Next]_vars PROVE PointerInv'
  OBVIOUS
<1> DEFINE Kept == HandInv' /\ RecordInv' /\ PipeInv' /\ CurInv' /\ QuietInv' /\ NoOrphanProcess'
<1>1. IInv'
  BY StepInvariant DEF PointerInv
<1>2. ASSUME NEW t \in Threads, Calls(t) PROVE Kept
  BY <1>2, AddCalls, Shutdowns DEF Calls
<1>3. ASSUME NEW t \in Threads, CallStep(t) PROVE Kept
  BY <1>3, AddEnlists, AddWrites, AddErrs, Shutdowns, ShutdownWrites DEF CallStep
<1>4. ASSUME (\E w \in Workers : Retire(w)) \/ WaitCall \/ DeinitCall PROVE Kept
  BY <1>4, Teardowns
<1>5. ASSUME MainStep PROVE Kept
  BY <1>5, Teardowns, DeinitFrees DEF MainStep
<1>6. ASSUME EventStep PROVE Kept
  BY <1>6, LoopTurns, FreesFinished, HandlerReads, StartsCurl, HandlerErrs, Finishes DEF EventStep
<1>7. ASSUME Terminated \/ UNCHANGED vars PROVE Kept
  BY <1>7, Stays DEF Terminated
<1>8. Kept
  BY <1>2, <1>3, <1>4, <1>5, <1>6, <1>7 DEF Next
<1> QED
  BY <1>1, <1>8 DEF PointerInv

\* Each request's pointer is where the code that uses it expects it, at any time.
THEOREM PointerInvariance == Spec => []PointerInv
  BY PointerInit, PointerStep, PTL DEF Spec

\* No pointer on the pipe or in libevent refers to a request that free_req() has
\* released, and none is on the pipe twice, whatever fails.
THEOREM PointerSafety == Spec => []NoDanglingPointer
<1>1. PointerInv => NoDanglingPointer
  BY DEF PointerInv, RecordInv, PipeInv, CurInv, InCallback, NoDanglingPointer, PipeOnce, PipeHas,
         IInv, TypeOK, PipeOK
<1> QED
  BY <1>1, PointerInvariance, PTL

\* What the hand of the event thread holds between two requests, and on the error
\* path of control_pipe_handler() after a bufferevent could not be enabled.
EmptyHand ==
  /\ pc[EventThread] = "handler_error" => handled \in reqlist
  /\ handled # NoRequest =>
       InCallback \/ pc[EventThread] \in {"handle", "start_curl", "write_options", "handler_error"}

\* As long as start_curl() does not fail, the request in the event thread's hand is
\* not released by another thread, nor by itself before it lets go.
THEOREM HandSafety ==
  ASSUME "start" \notin StartFailures PROVE Spec => []HandHeld
<1>1. Init => EmptyHand
  BY ThreadAssumption DEF Init, EmptyHand, Threads, Clients
<1>2. PointerInv /\ EmptyHand /\ [Next]_vars => EmptyHand'
  <2> SUFFICES ASSUME PointerInv, EmptyHand, [Next]_vars PROVE EmptyHand'
    OBVIOUS
  <2> USE ThreadAssumption, RequestAssumption DEF EmptyHand, InCallback, Goto, Return, flags, loop
  <2>0. TypeOK /\ LoopInv
    BY DEF PointerInv, IInv
  <2> USE <2>0 DEF TypeOK, PcOK, HandsOK, RequestsOK, Threads, Clients, AddPC
  <2>1. ASSUME NEW t \in Threads, Calls(t) \/ CallStep(t) PROVE EmptyHand'
    <3>1. handled' = handled /\ (pc[EventThread] = "handler_error" => pc'[EventThread] = "handler_error")
      BY <2>1 DEF Calls, CallStep, AddRefused, AddChecked, AddEnlist, AddCloneFails, AddWrite,
                  AddWriteFails, AddError, ShutdownCall, ShutdownLock, ShutdownWrite, StopWrite,
                  MayCall, MayAdd
    <3>2. pc[EventThread] = "handler_error" => handled \in reqlist'
      <4> SUFFICES ASSUME pc[EventThread] = "handler_error" PROVE handled \in reqlist'
        OBVIOUS
      <4>1. handled \in reqlist /\ outcome[handled] = "accepted"
        BY DEF PointerInv, CurInv
      <4>2. CASE AddError(t)
        BY <4>1, <4>2 DEF AddError, FreeReq, PointerInv, HandInv
      <4>3. reqlist \subseteq reqlist' \/ AddError(t)
        BY <2>1 DEF Calls, CallStep, AddRefused, AddChecked, AddEnlist, AddCloneFails, AddWrite,
                    AddWriteFails, ShutdownCall, ShutdownLock, ShutdownWrite, StopWrite
      <4> QED
        BY <4>1, <4>2, <4>3
    <3>3. pc'[EventThread] = "handler_error" => pc[EventThread] = "handler_error"
      BY <2>1 DEF Calls, CallStep, AddRefused, AddChecked, AddEnlist, AddCloneFails, AddWrite,
                  AddWriteFails, AddError, ShutdownCall, ShutdownLock, ShutdownWrite, StopWrite,
                  MayCall, MayAdd
    <3>4. InCallback => InCallback'
      BY <2>1 DEF Calls, CallStep, AddRefused, AddChecked, AddEnlist, AddCloneFails, AddWrite,
                  AddWriteFails, AddError, ShutdownCall, ShutdownLock, ShutdownWrite, StopWrite,
                  MayCall, MayAdd
    <3>5. pc[EventThread] \in {"handle", "start_curl", "write_options"} =>
            pc'[EventThread] = pc[EventThread]
      BY <2>1 DEF Calls, CallStep, AddRefused, AddChecked, AddEnlist, AddCloneFails, AddWrite,
                  AddWriteFails, AddError, ShutdownCall, ShutdownLock, ShutdownWrite, StopWrite,
                  MayCall, MayAdd
    <3> QED
      BY <3>1, <3>2, <3>3, <3>4, <3>5
  <2>2. CASE (\E w \in Workers : Retire(w)) \/ WaitCall \/ DeinitCall \/ MainStep
    <3>1. handled' = handled /\ pc'[EventThread] = pc[EventThread]
      BY <2>2 DEF Retire, WaitCall, DeinitCall, MainStep, MayCall, InitReturn, WaitJoin, DeinitStop,
                  DeinitJoin, DeinitFreeLoop, DeinitFreeRequests, DeinitThreads, Join, Stop
    <3>2. reqlist' = reqlist \/ EventDone
      BY <2>2 DEF Retire, WaitCall, DeinitCall, MainStep, InitReturn, WaitJoin, DeinitStop,
                  DeinitJoin, DeinitFreeLoop, DeinitFreeRequests, DeinitThreads, Join, LoopInv
    <3> QED
      BY <3>1, <3>2 DEF EventDone
  <2>3. CASE EventStep
    <3>1. CASE EnableFails
      BY <3>1 DEF EnableFails, Event, PointerInv, CurInv
    <3>2. CASE StartProcess \/ StartCurl \/ HandlerError \/ FreeFinished \/ HandlerRequest
      BY <3>2 DEF StartProcess, StartCurl, HandlerError, FreeFinished, HandlerRequest, Event, FreeReq
    <3>3. CASE HandlerNull \/ CheckLast
      BY <3>3 DEF HandlerNull, CheckLast, StopIfLast, Stop, Event
    <3>4. CASE HandlerRead \/ CallbackReturn
      BY <3>4 DEF HandlerRead, CallbackReturn, Dispatching, Event
    <3>5. CASE EventStart \/ EventPoll \/ EventLoopExit \/ EventExit
      BY <3>5 DEF EventStart, EventPoll, EventLoopExit, EventExit, Event
    <3>6. ASSUME NEW r \in Requests, StreamFails(r) \/ \E s \in Streams : StreamEof(r, s)
          PROVE  EmptyHand'
      BY <3>6 DEF StreamFails, StreamEof, Finish, Dispatching, Event
    <3> QED
      BY <2>3, <3>1, <3>2, <3>3, <3>4, <3>5, <3>6 DEF EventStep, StartCurlFails
  <2>4. CASE Terminated \/ UNCHANGED vars
    BY <2>4 DEF Terminated, vars
  <2> QED
    BY <2>1, <2>2, <2>3, <2>4 DEF Next
<1>3. PointerInv /\ EmptyHand => HandHeld
  BY DEF PointerInv, CurInv, RecordInv, EmptyHand, HandHeld
<1> QED
  BY <1>1, <1>2, <1>3, PointerInvariance, PTL DEF Spec

\* free_req() leaves no curl process, and kill_req_and_wait() has reaped it
\* before the callback.
THEOREM ProcessSafety == Spec => []NoOrphanProcess
<1>1. PointerInv => NoOrphanProcess
  BY DEF PointerInv
<1> QED
  BY <1>1, PointerInvariance, PTL

\* check_process() calls a callback once, for an accepted request that is not
\* released, while the event base lives.
THEOREM CallbackSafety == Spec => CallbackOnce
<1> DEFINE Honest == \A r \in Requests : calls'[r] # calls[r] =>
                       /\ calls[r] = 0 /\ outcome[r] = "accepted"
                       /\ releases[r] = 0 /\ evloop = "live"
<1>1. ASSUME PointerInv, NEW q \in Requests, StreamFails(q) \/ \E s \in Streams : StreamEof(q, s)
      PROVE  Honest
  <2>1. /\ q \in bufs /\ pc[EventThread] \in {"loop", "polling"}
        /\ \A r \in Requests : r # q => calls'[r] = calls[r]
    BY <1>1 DEF StreamFails, StreamEof, Dispatching, Event, Finish, PointerInv, IInv, TypeOK, RequestsOK
  <2>2. calls[q] = 0 /\ outcome[q] = "accepted" /\ releases[q] = 0
    BY <1>1, <2>1 DEF PointerInv, CurInv, RecordInv, InCallback, AddPC
  <2>3. evloop = "live"
    BY <1>1, <2>1 DEF PointerInv, IInv, LoopInv, LoopOutlivesThread, EventDone, TypeOK, ContextOK
  <2> QED
    BY <2>1, <2>2, <2>3
<1>2. ASSUME NEW t \in Threads, Calls(t) \/ CallStep(t) PROVE calls' = calls
  BY <1>2 DEF Calls, CallStep, AddRefused, AddChecked, AddEnlist, AddCloneFails, AddWrite,
              AddWriteFails, AddError, ShutdownCall, ShutdownLock, ShutdownWrite, StopWrite, history
<1>3. ASSUME (\E w \in Workers : Retire(w)) \/ WaitCall \/ DeinitCall \/ MainStep
      PROVE  calls' = calls
  BY <1>3 DEF Retire, WaitCall, DeinitCall, MainStep, InitReturn, WaitJoin, DeinitStop, DeinitJoin,
              DeinitFreeLoop, DeinitFreeRequests, DeinitThreads, Join, history
<1>4. ASSUME EventStep PROVE calls' = calls
                          \/ \E q \in Requests : StreamFails(q) \/ \E s \in Streams : StreamEof(q, s)
  BY <1>4 DEF EventStep, EventStart, EventPoll, EventLoopExit, EventExit, HandlerRead, HandlerNull,
              HandlerRequest, StartProcess, StartCurl, StartCurlFails, EnableFails, HandlerError, CallbackReturn,
              FreeFinished, CheckLast, history
<1>5. PointerInv /\ [Next]_vars => [Honest]_vars
  BY <1>1, <1>2, <1>3, <1>4 DEF Next, Terminated, vars, history
<1> QED
  BY <1>5, PointerInvariance, PTL DEF Spec, CallbackOnce

-----------------------------------------------------------------------------
(* What a shutdown leaves: clients that add nothing once it was asked for,    *)
(* and curl processes that start.                                             *)

\* Somebody asked for a shutdown and the loop may act on it.
Asked ==
  \/ stopping \/ shutdown_when_done \/ PipeHas(NoRequest)
  \/ pc[EventThread] = "handle" /\ handled = NoRequest
  \/ \E t \in Threads : pc[t] \in {"shutdown_lock", "shutdown_write"}

\* An accepted request is listed or completed, and the loop is only stopped when
\* nothing is listed and nothing can be any more.
ServedInv ==
  /\ \A r \in Requests : outcome[r] = "accepted" => r \in reqlist \/ (calls[r] = 1 /\ releases[r] = 1)
  /\ Asked => shutdowns > 0
  /\ stopping => reqlist = {} /\ pc[EventThread] \notin AddPC

DrainInv ==
  /\ PointerInv
  /\ pc[EventThread] # "handler_error"
  /\ InCallback => calls[handled] = 1
  /\ shutdowns > 0 => \A c \in Clients : ~Adding(c)
  /\ \A t \in Threads : pc[t] = "stop_write" => stopping
  /\ loopexit \/ pc[EventThread] \in {"exit", "done"} => stopping
  /\ ~Tearing => ServedInv

\* A NoRequest comes to the pipe by being written, and leaves it by being read.
LEMMA NullWritten ==
  ASSUME PipeOK, NEW p \in Requests \cup {NoRequest}, pipe' = Append(pipe, p), p # NoRequest
  PROVE  PipeHas(NoRequest)' => PipeHas(NoRequest)
<1>1. \A i \in DOMAIN pipe' : (i \in DOMAIN pipe /\ pipe'[i] = pipe[i]) \/ pipe'[i] = p
  BY DEF PipeOK
<1> QED
  BY <1>1 DEF PipeHas

\* After a read there is no NoRequest that was not there, and a NoRequest that is read was.
LEMMA NullTaken ==
  ASSUME PipeOK, pipe # <<>>, pipe' = Tail(pipe)
  PROVE  /\ PipeHas(NoRequest)' => PipeHas(NoRequest)
         /\ Head(pipe) = NoRequest => PipeHas(NoRequest)
<1>1. /\ Head(pipe) = pipe[1] /\ 1 \in DOMAIN pipe
      /\ \A i \in DOMAIN pipe' : i + 1 \in DOMAIN pipe /\ pipe'[i] = pipe[i + 1]
  BY DEF PipeOK
<1> QED
  BY <1>1 DEF PipeHas

\* The clients' calls keep the promise.
LEMMA CallsDrain ==
  ASSUME ~LateAdds, DrainInv, NEW t \in Threads, Calls(t) \/ CallStep(t), PointerInv'
  PROVE  DrainInv'
<1> USE ThreadAssumption, RequestAssumption
    DEF Goto, Return, flags, loop, child, history, TypeOK, PcOK, HandsOK, RequestsOK, ContextOK,
        FlagsOK, Threads, Clients, AddPC, CallPC, DeinitPC, ClientPC, EventPC, InCallback, Adding,
        Tearing, Asked
<1>1. TypeOK /\ PipeOK
  BY DEF DrainInv, PointerInv, IInv
<1>2. CASE \E r \in Requests : AddRefused(t, r) \/ AddChecked(t, r)
  BY <1>1, <1>2, PipeKept DEF DrainInv, ServedInv, AddRefused, AddChecked, MayAdd, MayCall, Unused, PipeHas
<1>3. CASE AddEnlist(t) \/ AddCloneFails(t) \/ AddWriteFails(t)
  BY <1>1, <1>3 DEF DrainInv, ServedInv, AddEnlist, AddCloneFails, AddWriteFails, PipeHas
<1>4. CASE AddWrite(t)
  <2>1. PipeHas(NoRequest)' => PipeHas(NoRequest)
    BY <1>1, <1>4, NullWritten DEF AddWrite
  <2> QED
    BY <1>1, <1>4, <2>1 DEF DrainInv, ServedInv, AddWrite, PointerInv, HandInv
<1>5. CASE AddError(t)
  BY <1>1, <1>5 DEF DrainInv, ServedInv, AddError, FreeReq, PipeHas, PointerInv, HandInv
<1>6. CASE ShutdownCall(t)
  BY <1>1, <1>6 DEF DrainInv, ServedInv, ShutdownCall, MayCall, PipeHas
<1>7. CASE ShutdownLock(t)
  BY <1>1, <1>7 DEF DrainInv, ServedInv, ShutdownLock, PipeHas
<1>8. CASE ShutdownWrite(t)
  BY <1>1, <1>8 DEF DrainInv, ServedInv, ShutdownWrite
<1>9. CASE StopWrite(t)
  BY <1>1, <1>9 DEF DrainInv, ServedInv, StopWrite
<1> QED
  BY <1>2, <1>3, <1>4, <1>5, <1>6, <1>7, <1>8, <1>9 DEF Calls, CallStep

\* The teardown keeps it, or is under way.
LEMMA TeardownDrains ==
  ASSUME DrainInv, (\E w \in Workers : Retire(w)) \/ WaitCall \/ DeinitCall \/ MainStep, PointerInv'
  PROVE  DrainInv'
<1> USE ThreadAssumption, RequestAssumption
    DEF Goto, Return, flags, loop, child, history, TypeOK, PcOK, HandsOK, RequestsOK, ContextOK,
        FlagsOK, Threads, Clients, AddPC, CallPC, DeinitPC, ClientPC, EventPC, InCallback, Adding,
        Tearing, Asked
<1>1. TypeOK /\ PipeOK
  BY DEF DrainInv, PointerInv, IInv
<1>2. CASE InitReturn \/ (\E w \in Workers : Retire(w)) \/ WaitCall \/ WaitJoin
  BY <1>1, <1>2 DEF DrainInv, ServedInv, InitReturn, Retire, WaitCall, WaitJoin, Join, MayCall, PipeHas
<1>3. CASE DeinitCall \/ DeinitStop
  BY <1>1, <1>3 DEF DrainInv, DeinitCall, DeinitStop, Stop, MayCall
<1>4. CASE DeinitJoin \/ DeinitFreeLoop \/ DeinitFreeRequests \/ DeinitThreads
  BY <1>1, <1>4 DEF DrainInv, DeinitJoin, DeinitFreeLoop, DeinitFreeRequests, DeinitThreads, Join
<1> QED
  BY <1>2, <1>3, <1>4 DEF MainStep

\* The event thread keeps it.
LEMMA EventDrains ==
  ASSUME StartFailures = {}, DrainInv, EventStep, PointerInv'
  PROVE  DrainInv'
<1> USE ThreadAssumption, RequestAssumption
    DEF Goto, Return, flags, loop, child, history, TypeOK, PcOK, HandsOK, RequestsOK, ContextOK,
        FlagsOK, Threads, Clients, AddPC, CallPC, DeinitPC, ClientPC, EventPC, InCallback, Adding,
        Tearing, Asked, Event
<1>1. TypeOK /\ PipeOK
  BY DEF DrainInv, PointerInv, IInv
<1>2. CASE EventStart \/ EventPoll \/ EventLoopExit \/ EventExit \/ CallbackReturn
  BY <1>1, <1>2 DEF DrainInv, ServedInv, EventStart, EventPoll, EventLoopExit, EventExit,
                    CallbackReturn, PipeHas
<1>3. CASE HandlerRead
  <2>1. (PipeHas(NoRequest)' => PipeHas(NoRequest)) /\ (handled' = NoRequest => PipeHas(NoRequest))
    BY <1>1, <1>3, NullTaken DEF HandlerRead
  <2> QED
    BY <1>1, <1>3, <2>1 DEF DrainInv, ServedInv, HandlerRead, Dispatching
<1>4. CASE HandlerNull \/ CheckLast
  BY <1>1, <1>4 DEF DrainInv, ServedInv, HandlerNull, CheckLast, StopIfLast, Stop, PipeHas
<1>5. CASE HandlerRequest \/ StartProcess \/ StartCurl
  BY <1>1, <1>5 DEF DrainInv, ServedInv, HandlerRequest, StartProcess, StartCurl, PipeHas
<1>6. CASE FreeFinished
  <2>1. handled \in reqlist /\ releases[handled] = 0 /\ calls[handled] = 1
    BY <1>6 DEF DrainInv, FreeFinished, PointerInv, CurInv, RecordInv
  <2> QED
    BY <1>1, <1>6, <2>1 DEF DrainInv, ServedInv, FreeFinished, FreeReq, PipeHas
<1>7. ASSUME NEW r \in Requests, StreamFails(r) \/ \E s \in Streams : StreamEof(r, s)
      PROVE  DrainInv'
  <2>1. calls[r] = 0 /\ r \in reqlist
    BY <1>7 DEF DrainInv, PointerInv, CurInv, RecordInv, StreamFails, StreamEof, Dispatching
  <2> QED
    BY <1>1, <1>7, <2>1 DEF DrainInv, ServedInv, StreamFails, StreamEof, Finish, Dispatching, PipeHas
<1> QED
  BY <1>2, <1>3, <1>4, <1>5, <1>6, <1>7
  DEF EventStep, StartCurlFails, EnableFails, HandlerError, DrainInv

\* A context before nl_url_req_init() keeps the promise.
LEMMA DrainInit == Init => DrainInv
<1> SUFFICES ASSUME Init PROVE DrainInv
  OBVIOUS
<1>0. ~PipeHas(NoRequest) /\ \A t \in Threads : pc[t] \in {"init", "start", "idle"}
  BY DEF Init, PipeHas
<1>1. ~Asked
  BY <1>0, ThreadAssumption DEF Init, Asked, Threads, Clients
<1>2. ServedInv
  BY <1>0, <1>1 DEF Init, ServedInv, AddPC, Threads
<1> QED
  BY <1>0, <1>2, PointerInit DEF Init, DrainInv, InCallback, Adding, AddPC, Threads, Clients

\* Every step keeps it.
LEMMA DrainStep ==
  ASSUME ~LateAdds, StartFailures = {} PROVE DrainInv /\ [Next]_vars => DrainInv'
<1> SUFFICES ASSUME DrainInv, [Next]_vars PROVE DrainInv'
  OBVIOUS
<1>1. PointerInv'
  BY PointerStep DEF DrainInv
<1>2. CASE Terminated \/ UNCHANGED vars
  BY <1>1, <1>2 DEF Terminated, vars, flags, loop, child, history, DrainInv, ServedInv, Asked,
                    PipeHas, InCallback, Adding, Tearing
<1> QED
  BY <1>1, <1>2, CallsDrain, TeardownDrains, EventDrains DEF Next

\* A context that was shut down, and not torn down, has completed all it accepted
\* when its loop ends, whatever else fails, if clients keep to the advice of
\* nl_url_req_shutdown() and no curl process fails to start.
THEOREM DrainSafety ==
  ASSUME ~LateAdds, StartFailures = {} PROVE Spec => []DrainedAtExit
<1>1. DrainInv => DrainedAtExit
  BY DEF DrainInv, ServedInv, DrainedAtExit, PointerInv, IInv, TypeOK
<1> QED
  BY <1>1, DrainInit, DrainStep, PTL DEF Spec
-----------------------------------------------------------------------------
(* What a teardown leaves, when nothing failed before it.                     *)

\* The lock is held in the critical sections and nowhere else.
LockExact ==
  lock.owner # NoThread => lock.owner \in Threads /\ InCritical(lock.owner) /\ lock.depth = 1

LeaveInv ==
  /\ PointerInv
  /\ pc[EventThread] # "handler_error" /\ \A t \in Threads : pc[t] # "add_error"
  /\ LockExact
  /\ \A r \in Requests :
       /\ outcome[r] # "EBUSY"
       /\ releases[r] = IF outcome[r] = "accepted" /\ r \notin reqlist THEN 1 ELSE 0
  /\ pc[Main] \in {"deinit_threads", "deinited"} => reqlist = {}

\* A thread that has the lock at the end of a critical section leaves it free.
LEMMA LockGivenBack ==
  ASSUME LeaveInv, NEW t \in Threads, InCritical(t), Unlock
  PROVE  lock'.owner = NoThread
<1>1. lock.owner = t /\ t # NoThread
  BY ThreadAssumption DEF LeaveInv, PointerInv, IInv, LockInv
<1> QED
  BY <1>1 DEF LeaveInv, LockExact, Unlock, Unlocked

\* A thread that takes the lock, outside a critical section, finds it free.
LEMMA LockFound ==
  ASSUME LeaveInv, NEW t \in Threads, ~InCritical(t), CanLock(t)
  PROVE  lock.owner = NoThread /\ lock.depth = 0
<1>1. lock.owner = NoThread
  BY ThreadAssumption DEF LeaveInv, LockExact, CanLock
<1> QED
  BY <1>1 DEF LeaveInv, PointerInv, IInv, LockInv

\* The clients' calls leave nothing.
LEMMA CallsLeave ==
  ASSUME ~AddMayFail, ~WriteMayFail, LeaveInv, NEW t \in Threads, Calls(t) \/ CallStep(t), PointerInv'
  PROVE  LeaveInv'
<1> USE ThreadAssumption, RequestAssumption
    DEF Goto, Return, flags, loop, child, history, TypeOK, PcOK, HandsOK, RequestsOK, ContextOK,
        Threads, Clients, AddPC, CallPC, DeinitPC, ClientPC, EventPC, InCritical
<1>1. TypeOK
  BY DEF LeaveInv, PointerInv, IInv
<1>2. CASE \E r \in Requests : AddRefused(t, r) \/ AddChecked(t, r)
  BY <1>1, <1>2 DEF LeaveInv, LockExact, AddRefused, AddChecked, MayAdd, MayCall, Unused, PointerInv,
                    RecordInv, HandInv
<1>3. CASE AddEnlist(t)
  <2>1. lock.owner = NoThread /\ lock.depth = 0
    BY <1>3, LockFound DEF AddEnlist, Lock
  <2>2. pc[Main] \notin {"deinit_threads", "deinited"}
    BY <1>1, <1>3 DEF AddEnlist, LeaveInv, PointerInv, QuietInv, IInv, LoopInv, EventDone
  <2> QED
    BY <1>1, <1>3, <2>1, <2>2 DEF LeaveInv, LockExact, AddEnlist, Lock, PointerInv, HandInv
<1>4. CASE AddWrite(t)
  <2>1. lock'.owner = NoThread
    BY <1>4, LockGivenBack DEF AddWrite
  <2> QED
    BY <1>1, <1>4, <2>1 DEF LeaveInv, LockExact, AddWrite, PointerInv, HandInv
<1>5. CASE AddCloneFails(t) \/ AddWriteFails(t) \/ AddError(t)
  BY <1>5 DEF LeaveInv, AddCloneFails, AddWriteFails, AddError
<1>6. CASE ShutdownCall(t)
  BY <1>1, <1>6 DEF LeaveInv, LockExact, ShutdownCall, MayCall
<1>7. CASE ShutdownLock(t)
  <2>1. lock.owner = NoThread /\ lock.depth = 0
    BY <1>7, LockFound DEF ShutdownLock, Lock
  <2> QED
    BY <1>1, <1>7, <2>1 DEF LeaveInv, LockExact, ShutdownLock, Lock
<1>8. CASE ShutdownWrite(t) \/ StopWrite(t)
  <2>1. lock'.owner = NoThread
    BY <1>8, LockGivenBack DEF ShutdownWrite, StopWrite
  <2> QED
    BY <1>1, <1>8, <2>1 DEF LeaveInv, LockExact, ShutdownWrite, StopWrite
<1> QED
  BY <1>2, <1>3, <1>4, <1>5, <1>6, <1>7, <1>8 DEF Calls, CallStep

\* The teardown releases what is listed and leaves the lock free.
LEMMA TeardownLeaves ==
  ASSUME LeaveInv, (\E w \in Workers : Retire(w)) \/ WaitCall \/ DeinitCall \/ MainStep, PointerInv'
  PROVE  LeaveInv'
<1> USE ThreadAssumption, RequestAssumption
    DEF Goto, Return, flags, loop, child, history, TypeOK, PcOK, HandsOK, RequestsOK, ContextOK,
        Threads, Clients, AddPC, CallPC, DeinitPC, ClientPC, EventPC, InCritical
<1>1. TypeOK
  BY DEF LeaveInv, PointerInv, IInv
<1>2. CASE InitReturn
  <2>1. lock'.owner = NoThread
    BY <1>2, LockGivenBack DEF InitReturn
  <2> QED
    BY <1>1, <1>2, <2>1 DEF LeaveInv, LockExact, InitReturn
<1>3. CASE (\E w \in Workers : Retire(w)) \/ WaitCall \/ WaitJoin \/ DeinitCall
  BY <1>1, <1>3 DEF LeaveInv, LockExact, Retire, WaitCall, WaitJoin, Join, DeinitCall, MayCall
<1>4. CASE DeinitStop
  <2>1. lock.owner = NoThread /\ lock.depth = 0
    BY <1>4, LockFound DEF DeinitStop, Stop, Lock
  <2> QED
    BY <1>1, <1>4, <2>1 DEF LeaveInv, LockExact, DeinitStop, Stop, Lock
<1>5. CASE DeinitJoin \/ DeinitFreeLoop \/ DeinitThreads
  BY <1>1, <1>5 DEF LeaveInv, LockExact, DeinitJoin, DeinitFreeLoop, DeinitThreads, Join
<1>6. CASE DeinitFreeRequests
  <2>1. \A r \in reqlist : outcome[r] = "accepted" /\ releases[r] = 0
    <3>1. \A t \in Threads : pc[t] \notin {"add_write", "add_error", "aborted"}
      BY <1>1, <1>6
      DEF DeinitFreeRequests, LeaveInv, PointerInv, QuietInv, IInv, LoopInv, EventDone
    <3> QED
      BY <3>1 DEF LeaveInv, PointerInv, HandInv, RecordInv
  <2> QED
    BY <1>1, <1>6, <2>1 DEF LeaveInv, LockExact, DeinitFreeRequests, FreeReq
<1> QED
  BY <1>2, <1>3, <1>4, <1>5, <1>6 DEF MainStep

\* The event thread releases what it completes.
LEMMA EventLeaves ==
  ASSUME StartFailures = {}, LeaveInv, EventStep, PointerInv'
  PROVE  LeaveInv'
<1> USE ThreadAssumption, RequestAssumption
    DEF Goto, Return, flags, loop, child, history, TypeOK, PcOK, HandsOK, RequestsOK, ContextOK,
        Threads, Clients, AddPC, CallPC, DeinitPC, ClientPC, EventPC, InCritical, Event
<1>1. TypeOK
  BY DEF LeaveInv, PointerInv, IInv
<1>2. CASE EventStart \/ EventPoll \/ EventLoopExit \/ EventExit \/ CallbackReturn
  BY <1>1, <1>2 DEF LeaveInv, LockExact, EventStart, EventPoll, EventLoopExit, EventExit, CallbackReturn
<1>3. CASE HandlerRead \/ HandlerRequest \/ StartProcess \/ StartCurl
  BY <1>1, <1>3 DEF LeaveInv, LockExact, HandlerRead, Dispatching, HandlerRequest, StartProcess, StartCurl
<1>4. CASE HandlerNull \/ CheckLast
  <2>1. lock.owner = NoThread /\ lock.depth = 0
    BY <1>4, LockFound DEF HandlerNull, CheckLast, StopIfLast, Stop, Lock
  <2> QED
    BY <1>1, <1>4, <2>1 DEF LeaveInv, LockExact, HandlerNull, CheckLast, StopIfLast, Stop, Lock
<1>5. CASE FreeFinished
  <2>1. handled \in reqlist /\ outcome[handled] = "accepted" /\ releases[handled] = 0
    BY <1>5 DEF LeaveInv, FreeFinished, PointerInv, CurInv, RecordInv, InCallback
  <2> QED
    BY <1>1, <1>5, <2>1 DEF LeaveInv, LockExact, FreeFinished, FreeReq
<1>6. CASE \E r \in Requests : StreamFails(r) \/ \E s \in Streams : StreamEof(r, s)
  BY <1>1, <1>6 DEF LeaveInv, LockExact, StreamFails, StreamEof, Finish, Dispatching
<1> QED
  BY <1>2, <1>3, <1>4, <1>5, <1>6
  DEF EventStep, StartCurlFails, EnableFails, HandlerError, LeaveInv

\* A context before nl_url_req_init() has nothing to leave.
LEMMA LeaveInit == Init => LeaveInv
<1> SUFFICES ASSUME Init PROVE LeaveInv
  OBVIOUS
<1>1. \A t \in Threads : pc[t] \in {"init", "start", "idle"}
  BY DEF Init
<1> QED
  BY <1>1, PointerInit, ThreadAssumption DEF Init, LeaveInv, LockExact, InCritical, Threads, Clients

\* Every step releases what it has to.
LEMMA LeaveStep ==
  ASSUME ~AddMayFail, ~WriteMayFail, StartFailures = {} PROVE LeaveInv /\ [Next]_vars => LeaveInv'
<1> SUFFICES ASSUME LeaveInv, [Next]_vars PROVE LeaveInv'
  OBVIOUS
<1>1. PointerInv'
  BY PointerStep DEF LeaveInv
<1>2. CASE Terminated \/ UNCHANGED vars
  BY <1>1, <1>2 DEF Terminated, vars, flags, loop, child, history, LeaveInv, LockExact, InCritical
<1> QED
  BY <1>1, <1>2, CallsLeave, TeardownLeaves, EventLeaves DEF Next

\* nl_url_req_deinit() leaves no request, releases each exactly once and leaves the
\* lock free, whatever the threads were doing, if no call of the context failed.
THEOREM DeinitSafety ==
  ASSUME ~AddMayFail, ~WriteMayFail, StartFailures = {} PROVE Spec => []DeinitLeavesNothing
<1>1. LeaveInv => DeinitLeavesNothing
  <2> SUFFICES ASSUME LeaveInv, pc[Main] = "deinited" PROVE DeinitLeavesNothing
    BY DEF DeinitLeavesNothing
  <2>1. \A t \in Threads : ~InCritical(t)
    BY ThreadAssumption DEF LeaveInv, PointerInv, QuietInv, IInv, LoopInv, EventDone, InCritical,
                            DeinitPC, Threads, Clients
  <2> QED
    BY <2>1 DEF LeaveInv, LockExact, DeinitLeavesNothing, PointerInv, IInv, TypeOK, RequestsOK
<1> QED
  BY <1>1, LeaveInit, LeaveStep, PTL DEF Spec
-----------------------------------------------------------------------------
(* The service of url_req.h, when clients keep to the advice and nothing      *)
(* fails.                                                                     *)

ServiceInv == DrainInv /\ LeaveInv

\* What the service does not see.
LEMMA Unseen ==
  ASSUME UNCHANGED <<shutdowns, outcome, calls, releases>>, Phase' = Phase
  PROVE  UNCHANGED Service!vars
BY DEF Service!vars, Life

\* The service sees the life of one request change.
LEMMA OneLife ==
  ASSUME NEW r \in Requests, NEW l, UNCHANGED shutdowns, Phase' = Phase, Life(r)' = l,
         \A q \in Requests \ {r} : Life(q)' = Life(q)
  PROVE  /\ [q \in Requests |-> Life(q)]' = [[q \in Requests |-> Life(q)] EXCEPT ![r] = l]
         /\ UNCHANGED <<shutdowns > 0, Phase>>
OBVIOUS

\* The calls of clients and callbacks ask, are accepted or rejected, or are unseen.
LEMMA CallsServe ==
  ASSUME ServiceInv, NEW t \in Threads, Calls(t) \/ CallStep(t)
  PROVE  Service!Next \/ UNCHANGED Service!vars
<1> USE ThreadAssumption, RequestAssumption
    DEF Goto, Return, flags, loop, child, history, TypeOK, PcOK, HandsOK, RequestsOK, ContextOK,
        FlagsOK, Threads, Clients, AddPC, CallPC, DeinitPC, ClientPC, EventPC, Phase, Tearing
<1>1. TypeOK /\ \A u \in Threads : pc[u] # "add_error"
  BY DEF ServiceInv, LeaveInv, PointerInv, IInv
<1>2. ASSUME NEW r \in Requests, AddRefused(t, r) PROVE Service!Reject(r)
  <2>1. outcome[r] = "none" /\ Life(r)' = "rejected" /\ Life(r) = "new"
    BY <1>1, <1>2 DEF AddRefused, Unused, Life
  <2>2. \A q \in Requests \ {r} : Life(q)' = Life(q)
    BY <1>1, <1>2 DEF AddRefused, Life
  <2>3. shutdowns > 0 \/ Phase # "serving"
    <3>1. pc[EventThread] # "aborted"
      BY <1>2 DEF AddRefused, MayAdd, MayCall, ServiceInv, DrainInv, PointerInv, QuietInv
    <3>2. ~running => Phase = "stopped"
      BY <1>1, <3>1 DEF ServiceInv, DrainInv, PointerInv, IInv, LoopInv, EventDone
    <3>3. stopping /\ ~Tearing => shutdowns > 0
      BY DEF ServiceInv, DrainInv, ServedInv, Asked
    <3> QED
      BY <1>2, <3>2, <3>3 DEF AddRefused
  <2>4. Phase' = Phase /\ UNCHANGED shutdowns
    BY <1>2 DEF AddRefused
  <2> QED
    BY <2>1, <2>2, <2>3, <2>4, OneLife DEF Service!Reject
<1>3. ASSUME NEW r \in Requests, AddChecked(t, r) PROVE UNCHANGED Service!vars
  BY <1>1, <1>3, Unseen DEF AddChecked, MayAdd, MayCall
<1>4. CASE AddEnlist(t)
  BY <1>1, <1>4, Unseen DEF AddEnlist
<1>5. CASE AddWrite(t)
  <2> PICK r \in Requests : r = arg[t]
    BY <1>1, <1>5 DEF AddWrite
  <2>1. outcome[r] = "none" /\ calls[r] = 0 /\ releases[r] = 0
    BY <1>1, <1>5 DEF AddWrite, ServiceInv, DrainInv, PointerInv, HandInv, RecordInv
  <2>2. Life(r) = "new" /\ Life(r)' = "pending" /\ \A q \in Requests \ {r} : Life(q)' = Life(q)
    BY <1>1, <1>5, <2>1 DEF AddWrite, Life
  <2>3. Phase # "stopped"
    <3>1. t # EventThread => shutdowns = 0 /\ ~Tearing
      <4>1. t # EventThread => t \in Clients /\ Adding(t)
        BY <1>5 DEF AddWrite, Adding
      <4>2. t # EventThread => ~Tearing
        BY <1>1, <1>5 DEF AddWrite, ServiceInv, DrainInv, PointerInv, QuietInv
      <4> QED
        BY <1>1, <4>1, <4>2 DEF ServiceInv, DrainInv
    <3>2. pc[EventThread] \in {"exit", "done"} /\ ~Tearing => shutdowns > 0
      BY DEF ServiceInv, DrainInv, ServedInv, Asked
    <3> QED
      BY <1>1, <1>5, <3>1, <3>2 DEF AddWrite
  <2>4. Phase' = Phase /\ UNCHANGED shutdowns
    BY <1>1, <1>5 DEF AddWrite
  <2>5. Service!Accept(r)
    BY <2>1, <2>2, <2>3, <2>4, OneLife DEF Service!Accept
  <2> QED
    BY <2>5 DEF Service!Next
<1>6. CASE ShutdownCall(t)
  <2>1. (shutdowns > 0)' = TRUE /\ Phase' = Phase /\ \A r \in Requests : Life(r)' = Life(r)
    BY <1>1, <1>6 DEF ShutdownCall, MayCall, Life
  <2>2. Service!Ask
    BY <2>1 DEF Service!Ask
  <2> QED
    BY <2>2 DEF Service!Next
<1>7. CASE ShutdownLock(t)
  BY <1>1, <1>7, Unseen DEF ShutdownLock
<1>8. CASE ShutdownWrite(t) \/ StopWrite(t)
  BY <1>1, <1>8, Unseen DEF ShutdownWrite, StopWrite
<1>9. CASE AddCloneFails(t) \/ AddWriteFails(t) \/ AddError(t)
  <2>1. Phase' = Phase
    BY <1>1, <1>9 DEF AddCloneFails, AddWriteFails, AddError
  <2> QED
    BY <1>1, <1>9, <2>1, Unseen DEF AddCloneFails, AddWriteFails, AddError
<1> QED
  BY <1>2, <1>3, <1>4, <1>5, <1>6, <1>7, <1>8, <1>9 DEF Calls, CallStep, Service!Next

\* The teardown cancels, once the loop has stopped, what is pending.
LEMMA TeardownServes ==
  ASSUME ServiceInv, (\E w \in Workers : Retire(w)) \/ WaitCall \/ DeinitCall \/ MainStep
  PROVE  Service!Next \/ UNCHANGED Service!vars
<1> USE ThreadAssumption, RequestAssumption
    DEF Goto, Return, flags, loop, child, history, TypeOK, PcOK, HandsOK, RequestsOK, ContextOK,
        FlagsOK, Threads, Clients, AddPC, CallPC, DeinitPC, ClientPC, EventPC, Phase, Tearing
<1>1. TypeOK
  BY DEF ServiceInv, LeaveInv, PointerInv, IInv
<1>2. CASE (\E w \in Workers : Retire(w)) \/ WaitCall \/ InitReturn \/ WaitJoin
  BY <1>1, <1>2, Unseen DEF Retire, WaitCall, MayCall, InitReturn, WaitJoin, Join
<1>3. CASE DeinitCall
  <2>1. CASE pc[EventThread] \in {"exit", "done"}
    BY <1>1, <1>3, <2>1, Unseen DEF DeinitCall, MayCall
  <2>2. CASE pc[EventThread] \notin {"exit", "done"}
    <3>1. Phase = "serving" /\ Phase' = "cancelling" /\ UNCHANGED <<shutdowns, outcome, calls, releases>>
      BY <1>1, <1>3, <2>2 DEF DeinitCall, MayCall
    <3>2. Service!Deinit
      BY <3>1 DEF Service!Deinit, Life
    <3> QED
      BY <3>2 DEF Service!Next
  <2> QED
    BY <2>1, <2>2
<1>4. CASE DeinitStop \/ DeinitJoin \/ DeinitFreeLoop \/ DeinitThreads
  BY <1>1, <1>4, Unseen DEF DeinitStop, Stop, DeinitJoin, Join, DeinitFreeLoop, DeinitThreads
<1>5. CASE DeinitFreeRequests
  <2>1. \A u \in Threads : pc[u] \notin {"add_write", "add_error", "aborted"}
    BY <1>1, <1>5 DEF DeinitFreeRequests, ServiceInv, DrainInv, PointerInv, QuietInv, IInv, LoopInv, EventDone
  <2>2. Phase = "stopped" /\ Phase' = "stopped"
    BY <1>1, <1>5, <2>1 DEF DeinitFreeRequests, ServiceInv, DrainInv, PointerInv, IInv, LoopInv, EventDone
  <2>3. \A r \in Requests : Life(r)' = IF Life(r) = "pending" THEN "cancelled" ELSE Life(r)
    <3>1. \A r \in reqlist : outcome[r] = "accepted" /\ releases[r] = 0
      BY <2>1 DEF ServiceInv, DrainInv, PointerInv, HandInv, RecordInv
    <3>2. \A r \in Requests : outcome[r] = "accepted" /\ releases[r] = 0 => r \in reqlist
      BY DEF ServiceInv, LeaveInv
    <3>3. \A r \in Requests : releases'[r] = releases[r] + (IF r \in reqlist THEN 1 ELSE 0)
      BY <1>1, <1>5 DEF DeinitFreeRequests, FreeReq
    <3> QED
      BY <1>1, <1>5, <3>1, <3>2, <3>3 DEF DeinitFreeRequests, Life
  <2>4. Service!Cancel
    BY <1>5, <2>2, <2>3 DEF DeinitFreeRequests, Service!Cancel, Service!Pending
  <2> QED
    BY <2>4 DEF Service!Next
<1> QED
  BY <1>2, <1>3, <1>4, <1>5 DEF MainStep

\* The event thread completes and, when it may, stops.
LEMMA EventServes ==
  ASSUME StartFailures = {}, ServiceInv, EventStep
  PROVE  Service!Next \/ UNCHANGED Service!vars
<1> USE ThreadAssumption, RequestAssumption
    DEF Goto, Return, flags, loop, child, history, TypeOK, PcOK, HandsOK, RequestsOK, ContextOK,
        FlagsOK, Threads, Clients, AddPC, CallPC, DeinitPC, ClientPC, EventPC, Phase, Tearing, Event
<1>1. TypeOK
  BY DEF ServiceInv, LeaveInv, PointerInv, IInv
<1>2. CASE EventStart \/ EventPoll \/ EventExit \/ CallbackReturn
  BY <1>1, <1>2, Unseen DEF EventStart, EventPoll, EventExit, CallbackReturn
<1>3. CASE EventLoopExit
  <2>1. Phase # "stopped" /\ Phase' = "stopped" /\ UNCHANGED <<shutdowns, outcome, calls, releases>>
    BY <1>1, <1>3 DEF EventLoopExit
  <2>2. ~Tearing => shutdowns > 0 /\ \A r \in Requests : Life(r) # "pending"
    BY <1>1, <1>3 DEF EventLoopExit, ServiceInv, DrainInv, ServedInv, Asked, Life
  <2>3. ~Tearing => Service!Pending = {}
    BY <2>2 DEF Service!Pending
  <2>4. UNCHANGED [r \in Requests |-> Life(r)]
    BY <2>1 DEF Life
  <2>5. Service!Stop
    BY <2>1, <2>2, <2>3, <2>4 DEF Service!Stop
  <2> QED
    BY <2>5 DEF Service!Next
<1>4. CASE HandlerRead \/ HandlerRequest \/ StartProcess \/ StartCurl
  BY <1>1, <1>4, Unseen DEF HandlerRead, Dispatching, HandlerRequest, StartProcess, StartCurl
<1>5. CASE HandlerNull \/ CheckLast
  BY <1>1, <1>5, Unseen DEF HandlerNull, CheckLast, StopIfLast, Stop
<1>6. CASE FreeFinished
  <2>1. handled \in Requests /\ calls[handled] = 1
    BY <1>1, <1>6 DEF FreeFinished, ServiceInv, DrainInv, InCallback, PointerInv, CurInv
  <2>2. Phase' = Phase /\ UNCHANGED <<shutdowns, outcome, calls>>
        /\ \A r \in Requests \ {handled} : releases'[r] = releases[r]
    BY <1>1, <1>6 DEF FreeFinished, FreeReq
  <2>3. \A r \in Requests : Life(r)' = Life(r)
    BY <1>1, <2>1, <2>2 DEF Life
  <2> QED
    BY <2>2, <2>3 DEF Service!vars
<1>7. ASSUME NEW r \in Requests, StreamFails(r) \/ \E s \in Streams : StreamEof(r, s)
      PROVE  Service!Complete(r) \/ UNCHANGED Service!vars
  <2>1. Phase # "stopped" /\ Phase' = Phase /\ UNCHANGED <<shutdowns, outcome, releases>>
    BY <1>1, <1>7 DEF StreamFails, StreamEof, Dispatching, Finish
  <2>2. calls[r] = 0 /\ outcome[r] = "accepted" /\ releases[r] = 0
    BY <1>7
    DEF ServiceInv, DrainInv, PointerInv, CurInv, RecordInv, InCallback, StreamFails, StreamEof, Dispatching
  <2>3. CASE calls' = calls
    BY <2>1, <2>3, Unseen
  <2>4. CASE calls' = [calls EXCEPT ![r] = @ + 1]
    <3>1. Life(r) = "pending" /\ Life(r)' = "completed" /\ \A q \in Requests \ {r} : Life(q)' = Life(q)
      BY <1>1, <2>1, <2>2, <2>4 DEF Life
    <3> QED
      BY <2>1, <3>1, OneLife DEF Service!Complete
  <2> QED
    BY <1>7, <2>3, <2>4 DEF StreamFails, StreamEof, Finish
<1> QED
  BY <1>2, <1>3, <1>4, <1>5, <1>6, <1>7
  DEF EventStep, StartCurlFails, EnableFails, HandlerError, ServiceInv, DrainInv, Service!Next

\* The context is the service that url_req.h describes, for any clients and
\* requests and any capacity of the pipe: accepted requests are completed, or
\* cancelled by nl_url_req_deinit(), none is accepted by a stopped context, and
\* none is refused before a shutdown was asked for.
THEOREM Refinement ==
  ASSUME ~LateAdds, ~AddMayFail, ~WriteMayFail, StartFailures = {} PROVE Spec => ImplementsService
<1>1. Init => ServiceInv
  BY DrainInit, LeaveInit DEF ServiceInv
<1>2. ServiceInv /\ [Next]_vars => ServiceInv'
  BY DrainStep, LeaveStep DEF ServiceInv
<1>3. Init => Service!Init
  <2> SUFFICES ASSUME Init PROVE Service!Init
    OBVIOUS
  <2>1. shutdowns = 0 /\ pc[EventThread] = "start" /\ pc[Main] = "init"
    BY ThreadAssumption DEF Init, Threads, Clients
  <2>2. Phase = "serving" /\ ~(shutdowns > 0)
    BY <2>1 DEF Phase, Tearing, DeinitPC
  <2>3. \A r \in Requests : Life(r) = "new"
    BY DEF Init, Life
  <2> QED
    BY <2>2, <2>3 DEF Service!Init
<1>4. ServiceInv /\ [Next]_vars => [Service!Next]_Service!vars
  <2> SUFFICES ASSUME ServiceInv, [Next]_vars PROVE Service!Next \/ UNCHANGED Service!vars
    OBVIOUS
  <2>1. CASE Terminated \/ UNCHANGED vars
    BY <2>1, Unseen DEF Terminated, vars, history, Phase, Tearing
  <2> QED
    BY <2>1, CallsServe, TeardownServes, EventServes DEF Next
<1> QED
  BY <1>1, <1>2, <1>3, <1>4, PTL DEF Spec, ImplementsService, Service!Spec
=============================================================================
