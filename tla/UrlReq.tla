------------------------------- MODULE UrlReq -------------------------------
(***************************************************************************)
(* The background URL request service of src/src/url_req.c: client threads *)
(* hand request pointers to one event thread through a control pipe; the   *)
(* event thread runs a curl process for each request and calls the         *)
(* request's callback when the process is finished.                        *)
(*                                                                         *)
(* A step of a thread is the code between two points where it can block or *)
(* where another thread can observe a difference: the acquisition of the   *)
(* context lock, a write to the control pipe, the poll of the event loop,  *)
(* the join of the event thread.  A critical section with no blocking call *)
(* is one action, guarded by CanLock.                                      *)
(*                                                                         *)
(* What a request carries (URL, headers, body, exit status) is left out:   *)
(* no property depends on it.                                              *)
(***************************************************************************)
EXTENDS Naturals, Sequences

CONSTANTS
  Main,          \* the thread that calls init, wait and deinit
  Workers,       \* other client threads, which add requests and shut down
  EventThread,   \* the thread that runs url_event_thread()
  NoThread,      \* the owner of an unlocked mutex
  Requests,      \* the struct nl_url_req objects a run may allocate
  NoRequest,     \* NULL, which nl_url_req_shutdown() writes to the pipe
  PipeCapacity,  \* pointers the control pipe holds before write() blocks
  MaxShutdowns,  \* bound: calls of nl_url_req_shutdown() by the clients
  OwnThreadCtx,  \* nl_url_req_init() was given no thread context
  LateAdds,      \* clients also add requests after a shutdown was asked for
  AddMayFail,    \* cloning the parameters or extending the list can fail
  WriteMayFail,  \* a signal can interrupt a write blocked on a full pipe
  StartFailures  \* which can fail: "start" (start_curl), "enable" (bufferevents)

Clients == {Main} \cup Workers
Threads == Clients \cup {EventThread}
Streams == {"out", "err"}

ASSUME ThreadAssumption ==
  /\ Main \notin Workers
  /\ EventThread \notin Clients
  /\ NoThread \notin Threads
ASSUME RequestAssumption == NoRequest \notin Requests
ASSUME BoundAssumption == PipeCapacity \in Nat \ {0} /\ MaxShutdowns \in Nat
ASSUME SwitchAssumption ==
  /\ {OwnThreadCtx, LateAdds, AddMayFail, WriteMayFail} \subseteq BOOLEAN
  /\ StartFailures \subseteq {"start", "enable"}

VARIABLES
  lock,          \* ctx->lock, recursive: its owner and its depth
  pipe,          \* pointers written to ev_pipe_writefd and not yet read
  reqlist,       \* the requests on ctx->reqlist
  running, stopping, shutdown_when_done,       \* the context's flags
  evloop,        \* "live" until nl_url_req_deinit() frees it
  loopexit,      \* event_base_loopexit() has been called
  event_thread,  \* "joinable", or "joined" once the handle is released
  pc,            \* where each thread is
  arg,           \* the request a thread is adding, or NoRequest
  handled,       \* the request the event thread is handling, or NoRequest
  proc,          \* a request's curl process: "none", "live" or "reaped"
  bufs,          \* requests whose bufferevents are enabled
  eof,           \* streams that reported EOF (out_eof, err_eof)
  \* History, written and read by no guard but Unused and the call bounds:
  outcome,       \* what nl_url_req_add() returned for a request
  calls,         \* how often a request's callback was called
  releases,      \* how often free_req() released a request
  shutdowns      \* calls of nl_url_req_shutdown() by the clients so far

flags   == <<running, stopping, shutdown_when_done>>
loop    == <<evloop, loopexit, event_thread>>
child   == <<proc, bufs, eof>>
history == <<outcome, calls, releases>>
vars == <<lock, pipe, reqlist, flags, loop, pc, arg, handled, child, history, shutdowns>>

-----------------------------------------------------------------------------
(* The recursive mutex (nl_create_mutex), and the helpers of the actions.  *)

CanLock(t) == lock.owner \in {NoThread, t}

Lock(t) == CanLock(t) /\ lock' = [owner |-> t, depth |-> lock.depth + 1]

Unlocked(l) == IF l.depth = 1 THEN [owner |-> NoThread, depth |-> 0]
                              ELSE [l EXCEPT !.depth = @ - 1]

Unlock == lock' = Unlocked(lock)

Goto(t, label) == pc' = [pc EXCEPT ![t] = label]

\* A call made by a callback returns to the callback.
Return(t) == Goto(t, IF t = EventThread THEN "callback" ELSE "idle")

\* A thread may call into the library: a client between two calls, or the
\* event thread from a request's callback.  Nobody has the context before
\* nl_url_req_init() returns it.
MayCall(t) ==
  /\ pc[t] = IF t = EventThread THEN "callback" ELSE "idle"
  /\ pc[Main] # "init"

Unused(r) == outcome[r] = "none" /\ \A t \in Threads : arg[t] # r

PipeHasRoom == Len(pipe) < PipeCapacity

\* kill_req_and_wait(): the child, if any, is killed and reaped.
Reaped(p) == IF p = "live" THEN "reaped" ELSE p

\* Faulty variants of free_req(): the request stays on the list, its bufferevents
\* stay enabled, its process is not killed.
FreeReqListed(rs) ==
  /\ proc' = [r \in Requests |-> IF r \in rs THEN Reaped(proc[r]) ELSE proc[r]]
  /\ bufs' = bufs \ rs
  /\ reqlist' = reqlist
  /\ releases' = [r \in Requests |-> releases[r] + IF r \in rs THEN 1 ELSE 0]

FreeReqBuffered(rs) ==
  /\ proc' = [r \in Requests |-> IF r \in rs THEN Reaped(proc[r]) ELSE proc[r]]
  /\ bufs' = bufs
  /\ reqlist' = reqlist \ rs
  /\ releases' = [r \in Requests |-> releases[r] + IF r \in rs THEN 1 ELSE 0]

FreeReqAlive(rs) ==
  /\ proc' = proc
  /\ bufs' = bufs \ rs
  /\ reqlist' = reqlist \ rs
  /\ releases' = [r \in Requests |-> releases[r] + IF r \in rs THEN 1 ELSE 0]

\* free_req() on every request of rs.
FreeReq(rs) ==
  /\ proc' = [r \in Requests |-> IF r \in rs THEN Reaped(proc[r]) ELSE proc[r]]
  /\ bufs' = bufs \ rs
  /\ reqlist' = reqlist \ rs
  /\ releases' = [r \in Requests |-> releases[r] + IF r \in rs THEN 1 ELSE 0]

-----------------------------------------------------------------------------
(* nl_url_req_init() is still inside its critical section when the event   *)
(* thread is created.                                                      *)

Init ==
  /\ lock = [owner |-> Main, depth |-> 1]
  /\ pipe = <<>>
  /\ reqlist = {}
  /\ running = TRUE
  /\ stopping = FALSE
  /\ shutdown_when_done = FALSE
  /\ evloop = "live"
  /\ loopexit = FALSE
  /\ event_thread = "joinable"
  /\ pc = [t \in Threads |-> IF t = Main THEN "init"
                             ELSE IF t = EventThread THEN "start" ELSE "idle"]
  /\ arg = [t \in Threads |-> NoRequest]
  /\ handled = NoRequest
  /\ proc = [r \in Requests |-> "none"]
  /\ bufs = {}
  /\ eof = [r \in Requests |-> {}]
  /\ outcome = [r \in Requests |-> "none"]
  /\ calls = [r \in Requests |-> 0]
  /\ releases = [r \in Requests |-> 0]
  /\ shutdowns = 0

InitReturn ==
  /\ pc[Main] = "init"
  /\ Unlock
  /\ Goto(Main, "idle")
  /\ UNCHANGED <<pipe, reqlist, flags, loop, arg, handled, child, history, shutdowns>>

-----------------------------------------------------------------------------
(* nl_url_req_add().                                                       *)

\* With LateAdds off the clients keep to the documented advice: none adds a
\* request once a shutdown was asked for, callbacks excepted.
MayAdd(t) == MayCall(t) /\ (t = EventThread \/ LateAdds \/ shutdowns = 0)

\* The flags are read without the lock.
AddRefused(t, r) ==
  /\ MayAdd(t)
  /\ Unused(r)
  /\ ~running \/ stopping
  /\ outcome' = [outcome EXCEPT ![r] = "EINVAL"]
  /\ UNCHANGED <<lock, pipe, reqlist, flags, loop, pc, arg, handled, child, calls,
                 releases, shutdowns>>

\* Faulty variant: the request is not allocated.
AddCheckedOnly(t, r) ==
  /\ MayAdd(t)
  /\ Unused(r)
  /\ running /\ ~stopping
  /\ Goto(t, "add_lock")
  /\ UNCHANGED <<lock, pipe, reqlist, flags, loop, arg, handled, child, history, shutdowns>>

AddChecked(t, r) ==
  /\ MayAdd(t)
  /\ Unused(r)
  /\ running /\ ~stopping
  /\ arg' = [arg EXCEPT ![t] = r]
  /\ Goto(t, "add_lock")
  /\ UNCHANGED <<lock, pipe, reqlist, flags, loop, handled, child, history, shutdowns>>

\* Faulty variant: the lock is not taken.
AddEnlistUnlocked(t) ==
  /\ pc[t] = "add_lock"
  /\ reqlist' = reqlist \cup {arg[t]}
  /\ Goto(t, "add_write")
  /\ UNCHANGED <<lock, pipe, flags, loop, arg, handled, child, history, shutdowns>>

AddEnlist(t) ==
  /\ pc[t] = "add_lock"
  /\ Lock(t)
  /\ reqlist' = reqlist \cup {arg[t]}
  /\ Goto(t, "add_write")
  /\ UNCHANGED <<pipe, flags, loop, arg, handled, child, history, shutdowns>>

AddCloneFails(t) ==
  /\ AddMayFail
  /\ pc[t] = "add_lock"
  /\ Lock(t)
  /\ Goto(t, "add_error")
  /\ UNCHANGED <<pipe, reqlist, flags, loop, arg, handled, child, history, shutdowns>>

\* Faulty variant: the event thread is not told.
AddWriteNothing(t) ==
  /\ pc[t] = "add_write"
  /\ outcome' = [outcome EXCEPT ![arg[t]] = "accepted"]
  /\ arg' = [arg EXCEPT ![t] = NoRequest]
  /\ Unlock
  /\ Return(t)
  /\ UNCHANGED <<pipe, reqlist, flags, loop, handled, child, calls, releases, shutdowns>>

AddWrite(t) ==
  /\ pc[t] = "add_write"
  /\ PipeHasRoom
  /\ pipe' = Append(pipe, arg[t])
  /\ outcome' = [outcome EXCEPT ![arg[t]] = "accepted"]
  /\ arg' = [arg EXCEPT ![t] = NoRequest]
  /\ Unlock
  /\ Return(t)
  /\ UNCHANGED <<reqlist, flags, loop, handled, child, calls, releases, shutdowns>>

AddWriteFails(t) ==
  /\ WriteMayFail
  /\ pc[t] = "add_write"
  /\ ~PipeHasRoom
  /\ Goto(t, "add_error")
  /\ UNCHANGED <<lock, pipe, reqlist, flags, loop, arg, handled, child, history, shutdowns>>

\* The error path releases the request and returns without unlocking.
AddError(t) ==
  /\ pc[t] = "add_error"
  /\ FreeReq({arg[t]})
  /\ outcome' = [outcome EXCEPT ![arg[t]] = "EBUSY"]
  /\ arg' = [arg EXCEPT ![t] = NoRequest]
  /\ Return(t)
  /\ UNCHANGED <<lock, pipe, flags, loop, handled, eof, calls, shutdowns>>

-----------------------------------------------------------------------------
(* nl_url_req_shutdown(), and nl_url_req_stop() which calls it.            *)

Adding(t) == pc[t] \in {"add_lock", "add_write", "add_error"}

ShutdownCall(t) ==
  /\ MayCall(t)
  /\ shutdowns < MaxShutdowns
  /\ LateAdds \/ \A c \in Clients : ~Adding(c)
  /\ shutdowns' = shutdowns + 1
  /\ Goto(t, "shutdown_lock")
  /\ UNCHANGED <<lock, pipe, reqlist, flags, loop, arg, handled, child, history>>

ShutdownLock(t) ==
  /\ pc[t] = "shutdown_lock"
  /\ Lock(t)
  /\ Goto(t, "shutdown_write")
  /\ UNCHANGED <<pipe, reqlist, flags, loop, arg, handled, child, history, shutdowns>>

\* A failed write is only logged.
WriteNull ==
  \/ PipeHasRoom /\ pipe' = Append(pipe, NoRequest)
  \/ WriteMayFail /\ ~PipeHasRoom /\ pipe' = pipe

ShutdownWrite(t) ==
  /\ pc[t] = "shutdown_write"
  /\ WriteNull
  /\ Unlock
  /\ Return(t)
  /\ UNCHANGED <<reqlist, flags, loop, arg, handled, child, history, shutdowns>>

\* nl_url_req_stop() up to the pipe write, by a thread about to hold the lock.
Stop(t) ==
  /\ Lock(t)
  /\ ~stopping
  /\ stopping' = TRUE
  /\ Goto(t, "stop_write")

\* Faulty variants: the loop is not woken; deinit does not wait for the thread.
StopSilent(t) ==
  /\ pc[t] = "stop_write"
  /\ loopexit' = TRUE
  /\ Unlock
  /\ Goto(t, IF t = EventThread THEN "loop" ELSE "deinit_join")
  /\ UNCHANGED <<pipe, reqlist, flags, evloop, event_thread, arg, handled, child, history,
                 shutdowns>>

StopUnwaited(t) ==
  /\ pc[t] = "stop_write"
  /\ WriteNull
  /\ loopexit' = TRUE
  /\ Unlock
  /\ Goto(t, IF t = EventThread THEN "loop" ELSE "deinit_relock")
  /\ UNCHANGED <<reqlist, flags, evloop, event_thread, arg, handled, child, history,
                 shutdowns>>

\* The pipe write wakes the loop, which must then find loopexit set.
StopWrite(t) ==
  /\ pc[t] = "stop_write"
  /\ WriteNull
  /\ loopexit' = TRUE
  /\ Unlock
  /\ Goto(t, IF t = EventThread THEN "loop" ELSE "deinit_join")
  /\ UNCHANGED <<reqlist, flags, evloop, event_thread, arg, handled, child, history,
                 shutdowns>>

-----------------------------------------------------------------------------
(* nl_url_req_wait() and nl_url_req_deinit(), called by Main; the workers  *)
(* make no call once Main tears the context down.                          *)

Retire(w) ==
  /\ pc[w] = "idle"
  /\ w \in Workers
  /\ Goto(w, "retired")
  /\ UNCHANGED <<lock, pipe, reqlist, flags, loop, arg, handled, child, history, shutdowns>>

\* Called "together with nl_url_req_shutdown()".
WaitCall ==
  /\ MayCall(Main)
  /\ shutdowns > 0 /\ event_thread = "joinable"
  /\ Goto(Main, "join")
  /\ UNCHANGED <<lock, pipe, reqlist, flags, loop, arg, handled, child, history, shutdowns>>

Join ==
  /\ pc[EventThread] = "done"
  /\ event_thread' = "joined"
  /\ UNCHANGED <<lock, pipe, reqlist, flags, evloop, loopexit, arg, handled, child,
                 history, shutdowns>>

WaitJoin   == pc[Main] = "join" /\ Join /\ Goto(Main, "idle")
DeinitJoin == pc[Main] = "deinit_join" /\ Join /\ Goto(Main, "deinit_relock")

DeinitCall ==
  /\ MayCall(Main)
  /\ \A w \in Workers : pc[w] = "retired"
  /\ Goto(Main, "deinit_lock")
  /\ UNCHANGED <<lock, pipe, reqlist, flags, loop, arg, handled, child, history, shutdowns>>

DeinitStop ==
  /\ pc[Main] = "deinit_lock"
  /\ running
  /\ \/ Stop(Main)
     \/ stopping /\ CanLock(Main) /\ Goto(Main, "deinit_join") /\ UNCHANGED <<lock, stopping>>
  /\ UNCHANGED <<pipe, reqlist, running, shutdown_when_done, loop, arg, handled, child,
                 history, shutdowns>>

\* A context that no longer runs is not waited for.  The lock is dropped around
\* event_base_free().
DeinitFreeLoop ==
  /\ \/ pc[Main] = "deinit_lock" /\ ~running
     \/ pc[Main] = "deinit_relock"
  /\ CanLock(Main)
  /\ evloop' = "freed"
  /\ Goto(Main, "deinit_free")
  /\ UNCHANGED <<lock, pipe, reqlist, flags, loopexit, event_thread, arg, handled, child,
                 history, shutdowns>>

DeinitFreeRequests ==
  /\ pc[Main] = "deinit_free"
  /\ CanLock(Main)
  /\ FreeReq(reqlist)
  /\ pipe' = <<>>
  /\ Goto(Main, IF OwnThreadCtx THEN "deinit_threads" ELSE "deinited")
  /\ UNCHANGED <<lock, flags, loop, arg, handled, eof, outcome, calls, shutdowns>>

\* nl_destroy_thread_context() joins the threads still on its list.
DeinitThreads ==
  /\ pc[Main] = "deinit_threads"
  /\ Join
  /\ Goto(Main, "deinited")

-----------------------------------------------------------------------------
(* The event thread.                                                       *)

Event(label) == pc[EventThread] = label

EventStart ==
  /\ Event("start")
  /\ CanLock(EventThread)
  /\ Goto(EventThread, "loop")
  /\ UNCHANGED <<lock, pipe, reqlist, flags, loop, arg, handled, child, history, shutdowns>>

\* The event loop (external: libevent).  An exit request is seen at the top of
\* an iteration; a loop that went to sleep before sees it after the next event.
EventPoll ==
  /\ Event("loop")
  /\ ~loopexit
  /\ Goto(EventThread, "polling")
  /\ UNCHANGED <<lock, pipe, reqlist, flags, loop, arg, handled, child, history, shutdowns>>

EventLoopExit ==
  /\ Event("loop")
  /\ loopexit
  /\ Goto(EventThread, "exit")
  /\ UNCHANGED <<lock, pipe, reqlist, flags, loop, arg, handled, child, history, shutdowns>>

Dispatching == Event("loop") \/ Event("polling")

EventExit ==
  /\ Event("exit")
  /\ CanLock(EventThread)
  /\ running' = FALSE
  /\ Goto(EventThread, "done")
  /\ UNCHANGED <<lock, pipe, reqlist, stopping, shutdown_when_done, loop, arg, handled,
                 child, history, shutdowns>>

\* control_pipe_handler() reads one pointer for each event.
HandlerRead ==
  /\ Dispatching
  /\ pipe # <<>>
  /\ handled' = Head(pipe)
  /\ pipe' = Tail(pipe)
  /\ Goto(EventThread, "handle")
  /\ UNCHANGED <<lock, reqlist, flags, loop, arg, child, history, shutdowns>>

\* Faulty variant: the requests still listed are not looked at.
StopNow(wanted) ==
  \/ wanted /\ Stop(EventThread)
  \/ /\ ~(wanted /\ ~stopping)
     /\ CanLock(EventThread)
     /\ Goto(EventThread, "loop")
     /\ UNCHANGED <<lock, stopping>>

\* nl_url_req_stop() when no request is left and stopping is wanted.
StopIfLast(wanted) ==
  \/ wanted /\ reqlist = {} /\ Stop(EventThread)
  \/ /\ ~(wanted /\ reqlist = {} /\ ~stopping)
     /\ CanLock(EventThread)
     /\ Goto(EventThread, "loop")
     /\ UNCHANGED <<lock, stopping>>

HandlerNull ==
  /\ Event("handle")
  /\ handled = NoRequest
  /\ shutdown_when_done' = TRUE
  /\ StopIfLast(TRUE)
  /\ UNCHANGED <<pipe, reqlist, running, loop, arg, handled, child, history, shutdowns>>

\* Faulty variant: the lock is not released before start_curl().
HandlerRequestLocked ==
  /\ Event("handle")
  /\ handled # NoRequest
  /\ Lock(EventThread)
  /\ Goto(EventThread, "start_curl")
  /\ UNCHANGED <<pipe, reqlist, flags, loop, arg, handled, child, history, shutdowns>>

HandlerRequest ==
  /\ Event("handle")
  /\ handled # NoRequest
  /\ CanLock(EventThread)
  /\ Goto(EventThread, "start_curl")
  /\ UNCHANGED <<lock, pipe, reqlist, flags, loop, arg, handled, child, history, shutdowns>>

\* start_curl() starts curl, and then waits for it to open the FIFO its options
\* are written to.
StartProcess ==
  /\ Event("start_curl")
  /\ proc' = [proc EXCEPT ![handled] = "live"]
  /\ Goto(EventThread, "write_options")
  /\ UNCHANGED <<lock, pipe, reqlist, flags, loop, arg, handled, bufs, eof, history, shutdowns>>

\* The options and the body are written, the bufferevents created and enabled.
StartCurl ==
  /\ Event("write_options")
  /\ bufs' = bufs \cup {handled}
  /\ handled' = NoRequest
  /\ Goto(EventThread, "loop")
  /\ UNCHANGED <<lock, pipe, reqlist, flags, loop, arg, proc, eof, history, shutdowns>>

\* Faulty variant: a process that was started is not killed.
StartCurlFailsAlive ==
  /\ "start" \in StartFailures
  /\ Event("start_curl") \/ Event("write_options")
  /\ CanLock(EventThread)
  /\ FreeReqAlive({handled})
  /\ Goto(EventThread, "handler_error")
  /\ UNCHANGED <<lock, pipe, flags, loop, arg, handled, eof, outcome, calls, shutdowns>>

\* The error path of start_curl(), from before or after the start of the process,
\* which it kills and reaps.  It releases the request; control_pipe_handler() goes
\* on to its own error path with the pointer.
StartCurlFails ==
  /\ "start" \in StartFailures
  /\ Event("start_curl") \/ Event("write_options")
  /\ CanLock(EventThread)
  /\ FreeReq({handled})
  /\ Goto(EventThread, "handler_error")
  /\ UNCHANGED <<lock, pipe, flags, loop, arg, handled, eof, outcome, calls, shutdowns>>

\* A bufferevent cannot be set or enabled; the request is still there.
EnableFails ==
  /\ "enable" \in StartFailures
  /\ Event("write_options")
  /\ Goto(EventThread, "handler_error")
  /\ UNCHANGED <<lock, pipe, reqlist, flags, loop, arg, handled, child, history, shutdowns>>

\* The error path of control_pipe_handler().  On a request start_curl() has
\* already released this is undefined: it is ignored, or it ends the process.
HandlerError ==
  /\ Event("handler_error")
  /\ CanLock(EventThread)
  /\ FreeReq({handled})
  /\ handled' = NoRequest
  /\ \/ Goto(EventThread, "loop")
     \/ releases[handled] > 0 /\ pc' = [t \in Threads |-> "aborted"]
  /\ UNCHANGED <<lock, pipe, flags, loop, arg, eof, outcome, calls, shutdowns>>

\* Faulty variant: no callback.
FinishSilently(r) ==
  /\ proc' = [proc EXCEPT ![r] = Reaped(@)]
  /\ calls' = calls
  /\ handled' = r
  /\ Goto(EventThread, "callback")

\* check_process() on a finished request: kill and reap curl, call back.
Finish(r) ==
  /\ proc' = [proc EXCEPT ![r] = Reaped(@)]
  /\ calls' = [calls EXCEPT ![r] = @ + 1]
  /\ handled' = r
  /\ Goto(EventThread, "callback")

\* bufev_error() for the EOF of a stream ...
StreamEof(r, s) ==
  /\ Dispatching
  /\ r \in bufs
  /\ s \notin eof[r]
  /\ eof' = [eof EXCEPT ![r] = @ \cup {s}]
  /\ IF eof'[r] = Streams
       THEN Finish(r)
       ELSE Goto(EventThread, "loop") /\ UNCHANGED <<proc, calls, handled>>
  /\ UNCHANGED <<lock, pipe, reqlist, flags, loop, arg, bufs, outcome, releases, shutdowns>>

\* ... and for its read timeout or a read error.
StreamFails(r) ==
  /\ Dispatching
  /\ r \in bufs
  /\ Finish(r)
  /\ UNCHANGED <<lock, pipe, reqlist, flags, loop, arg, bufs, eof, outcome, releases,
                 shutdowns>>

\* Faulty variant: the finished request is not released.
CallbackReturnKeep ==
  /\ Event("callback")
  /\ Goto(EventThread, "loop")
  /\ UNCHANGED <<lock, pipe, reqlist, flags, loop, arg, handled, child, history, shutdowns>>

CallbackReturn ==
  /\ Event("callback")
  /\ Goto(EventThread, "free_req")
  /\ UNCHANGED <<lock, pipe, reqlist, flags, loop, arg, handled, child, history, shutdowns>>

FreeFinished ==
  /\ Event("free_req")
  /\ CanLock(EventThread)
  /\ FreeReq({handled})
  /\ handled' = NoRequest
  /\ Goto(EventThread, "check_last")
  /\ UNCHANGED <<lock, pipe, flags, loop, arg, eof, outcome, calls, shutdowns>>

\* Faulty variant: the event thread does not check for the last request.
CheckNothing ==
  /\ Event("check_last")
  /\ Goto(EventThread, "loop")
  /\ UNCHANGED <<lock, pipe, reqlist, flags, loop, arg, handled, child, history, shutdowns>>

CheckLast ==
  /\ Event("check_last")
  /\ StopIfLast(shutdown_when_done)
  /\ UNCHANGED <<pipe, reqlist, running, shutdown_when_done, loop, arg, handled, child,
                 history, shutdowns>>

-----------------------------------------------------------------------------
Calls(t) ==
  \/ \E r \in Requests : AddRefused(t, r) \/ AddChecked(t, r)
  \/ ShutdownCall(t)

\* The rest of a call, once it was made.
CallStep(t) ==
  \/ AddEnlist(t) \/ AddCloneFails(t) \/ AddWrite(t) \/ AddWriteFails(t) \/ AddError(t)
  \/ ShutdownLock(t) \/ ShutdownWrite(t) \/ StopWrite(t)

MainStep ==
  \/ InitReturn \/ WaitJoin
  \/ DeinitStop \/ DeinitJoin \/ DeinitFreeLoop \/ DeinitFreeRequests \/ DeinitThreads

EventStep ==
  \/ EventStart \/ EventPoll \/ EventLoopExit \/ EventExit
  \/ HandlerRead \/ HandlerNull \/ HandlerRequest
  \/ StartProcess \/ StartCurl \/ StartCurlFails \/ EnableFails \/ HandlerError
  \/ \E r \in Requests : StreamFails(r) \/ \E s \in Streams : StreamEof(r, s)
  \/ CallbackReturn \/ FreeFinished \/ CheckLast

\* The service is torn down, or the process is dead.
Terminated ==
  /\ \/ pc[Main] = "deinited" /\ pc[EventThread] = "done"
     \/ pc[Main] = "aborted"
  /\ UNCHANGED vars

Next ==
  \/ \E t \in Threads : Calls(t) \/ CallStep(t)
  \/ \E w \in Workers : Retire(w)
  \/ WaitCall \/ DeinitCall
  \/ MainStep
  \/ EventStep
  \/ Terminated

\* A thread inside the library is scheduled, libevent reports what happened,
\* callbacks return, and every request has a read timeout; nobody has to make
\* another call.
Fairness ==
  /\ WF_vars(EventStep \/ CallStep(EventThread))
  /\ WF_vars(MainStep \/ CallStep(Main))
  /\ \A w \in Workers : WF_vars(CallStep(w))

Spec == Init /\ [][Next]_vars /\ Fairness

-----------------------------------------------------------------------------
AddPC    == {"add_lock", "add_write", "add_error"}
CallPC   == AddPC \cup {"shutdown_lock", "shutdown_write", "stop_write"}
DeinitPC == {"deinit_lock", "deinit_join", "deinit_relock", "deinit_free",
             "deinit_threads", "deinited"}
ClientPC == CallPC \cup DeinitPC \cup {"init", "idle", "retired", "join", "aborted"}
EventPC  == CallPC \cup {"start", "loop", "polling", "handle", "start_curl",
             "write_options", "handler_error", "callback", "free_req", "check_last", "exit", "done",
             "aborted"}

LockOK == lock \in [owner : Threads \cup {NoThread}, depth : Nat]

PipeOK == pipe \in Seq(Requests \cup {NoRequest}) /\ Len(pipe) <= PipeCapacity

ContextOK ==
  /\ reqlist \subseteq Requests
  /\ evloop \in {"live", "freed"}
  /\ event_thread \in {"joinable", "joined"}
  /\ shutdowns \in 0..MaxShutdowns

FlagsOK ==
  /\ running \in BOOLEAN /\ stopping \in BOOLEAN /\ shutdown_when_done \in BOOLEAN
  /\ loopexit \in BOOLEAN

PcOK ==
  /\ pc \in [Threads -> ClientPC \cup EventPC]
  /\ \A c \in Clients : pc[c] \in ClientPC
  /\ pc[EventThread] \in EventPC

\* A thread inside nl_url_req_add() has a request in its hand, and so has the
\* event thread between start_curl() and free_req().
HandsOK ==
  /\ arg \in [Threads -> Requests \cup {NoRequest}]
  /\ \A t \in Threads : pc[t] \in AddPC => arg[t] \in Requests
  /\ handled \in Requests \cup {NoRequest}
  /\ pc[EventThread] \in {"start_curl", "write_options", "handler_error"} => handled \in Requests

RequestsOK ==
  /\ proc \in [Requests -> {"none", "live", "reaped"}]
  /\ bufs \subseteq Requests
  /\ eof \in [Requests -> SUBSET Streams]
  /\ outcome \in [Requests -> {"none", "accepted", "EINVAL", "EBUSY"}]
  /\ calls \in [Requests -> Nat]
  /\ releases \in [Requests -> Nat]

TypeOK == LockOK /\ PipeOK /\ ContextOK /\ FlagsOK /\ PcOK /\ HandsOK /\ RequestsOK

-----------------------------------------------------------------------------
(* Safety.                                                                 *)

EventDone == pc[EventThread] \in {"done", "aborted"}
Tearing == pc[Main] \in DeinitPC \cup {"stop_write"}

\* "evloop and ctx cannot be freed before here because the shutdown function
\* joins this thread first" (url_event_thread): whatever way the context was
\* stopped, the event base is only freed when the event thread is past its last
\* use of it, although nl_url_req_deinit() skips the join on some paths.
LoopOutlivesThread == evloop = "freed" => EventDone

\* nl_url_req_stop() "gives the event loop something to process": an event loop
\* that sleeps without having seen the exit request always has a pipe event due.
NoLostWakeup == loopexit /\ pc[EventThread] = "polling" => pipe # <<>>

\* The control pipe carries raw pointers and libevent keeps another: none of
\* them refers to a request that free_req() has released, and no pointer is on
\* the pipe twice.
NoDanglingPointer ==
  /\ \A i \in DOMAIN pipe : pipe[i] # NoRequest => pipe[i] \in reqlist \ bufs
  /\ \A i, j \in DOMAIN pipe : pipe[i] = pipe[j] /\ i # j => pipe[i] = NoRequest
  /\ bufs \subseteq reqlist

\* The event thread holds a pointer as well, from reading it off the pipe to the
\* end of control_pipe_handler(), and from the end of a request to its release:
\* nobody releases the request meanwhile.  False where start_curl() can fail: it
\* has released the request when the handler reads and releases it once more.
HandHeld == handled # NoRequest => handled \in reqlist

\* A request that was released was never left with an unreaped curl process,
\* and its process was reaped before its callback ran.
NoOrphanProcess ==
  \A r \in Requests : releases[r] > 0 \/ calls[r] > 0 => proc[r] # "live"

\* A callback is called once, for a request that nl_url_req_add() accepted and
\* that is not released yet, and never once the event loop has ended.
CallbackOnce ==
  [][\A r \in Requests : calls'[r] # calls[r] =>
       /\ calls[r] = 0 /\ outcome[r] = "accepted"
       /\ releases[r] = 0 /\ evloop = "live"]_vars

\* A context that was shut down, not torn down, has called back every request
\* it accepted by the time its event loop ends: nl_url_req_shutdown() followed
\* by nl_url_req_wait() loses nothing.
DrainedAtExit ==
  pc[EventThread] \in {"exit", "done"} /\ ~Tearing
    => \A r \in Requests : outcome[r] = "accepted" => calls[r] = 1 /\ releases[r] = 1

\* nl_url_req_deinit() leaves nothing behind: every request that was allocated
\* is released, once, whichever thread was at whichever point with it.
DeinitLeavesNothing ==
  pc[Main] = "deinited" =>
    /\ reqlist = {} /\ lock.owner = NoThread
    /\ \A r \in Requests :
         releases[r] = IF outcome[r] \in {"accepted", "EBUSY"} THEN 1 ELSE 0

-----------------------------------------------------------------------------
(* The inductive invariant behind LoopOutlivesThread and NoLostWakeup.     *)

\* A thread that blocks on the control pipe, or is about to leave a failed
\* nl_url_req_add(), is the one that holds the lock.
InCritical(t) == pc[t] \in {"init", "add_write", "add_error", "shutdown_write", "stop_write"}

LockInv ==
  /\ lock.owner = NoThread <=> lock.depth = 0
  /\ \A t \in Threads : InCritical(t) => lock.owner = t

\* A context that does not run has no event thread left, and from the join on
\* nl_url_req_deinit() is alone.
LoopInv ==
  /\ ~running => EventDone
  /\ pc[Main] \in {"deinit_relock", "deinit_free", "deinit_threads", "deinited"} => EventDone
  /\ LoopOutlivesThread
  /\ NoLostWakeup

IInv == TypeOK /\ LockInv /\ LoopInv

-----------------------------------------------------------------------------
(* Liveness.                                                               *)

\* nl_url_req_shutdown() "asks the request context's processing thread to shut
\* down after all requests complete": the thread does end.
ShutdownEndsThread == shutdowns > 0 ~> EventDone

\* nl_url_req_add() only queues the request: a client's call returns, whatever
\* the event thread and its callbacks do meanwhile.
AddReturns == \A c \in Clients : Adding(c) ~> ~Adding(c)

\* nl_url_req_deinit() returns.
DeinitReturns == pc[Main] = "deinit_lock" ~> pc[Main] \in {"deinited", "aborted"}

-----------------------------------------------------------------------------
(* The context implements the service of url_req.h.                        *)

Life(r) ==
  CASE outcome[r] = "none"                 -> "new"
    [] outcome[r] \in {"EINVAL", "EBUSY"}  -> "rejected"
    [] outcome[r] = "accepted"             -> IF calls[r] > 0 THEN "completed"
                                              ELSE IF releases[r] > 0 THEN "cancelled" ELSE "pending"

Phase == IF pc[EventThread] \in {"exit", "done"} THEN "stopped"
         ELSE IF Tearing THEN "cancelling" ELSE "serving"

Service == INSTANCE UrlReqService
             WITH asked <- shutdowns > 0, phase <- Phase,
                  life <- [r \in Requests |-> Life(r)]

\* Every step of the threads is a step of the service or invisible to it:
\* accepted requests are completed or cancelled, none is accepted by or lost in
\* a stopped context, and none is refused before a shutdown was asked for.
ImplementsService == Service!Spec

\* Every accepted request is answered, or cancelled by nl_url_req_deinit().
EveryRequestSettles == Service!Settles
=============================================================================
