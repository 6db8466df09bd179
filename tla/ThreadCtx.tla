----------------------------- MODULE ThreadCtx -----------------------------
(***************************************************************************)
(* The thread context of src/thread.c: a list of the threads created in    *)
(* it, its Members, under one recursive mutex.  Its clients, the Outsiders,*)
(* create threads, join those they created, walk the list and at last      *)
(* destroy the context, which joins all that is left while it holds the    *)
(* mutex; the threads themselves walk the list, as nl_signal_threads()     *)
(* does.                                                                   *)
(*                                                                         *)
(* A step is the code between two points where a thread can block or       *)
(* another can observe a difference.  Outsiders keep to what freeing the   *)
(* context asks of them: nobody but the threads of the context is in a     *)
(* call when it is destroyed, or calls after.                              *)
(***************************************************************************)
EXTENDS Naturals

CONSTANTS
  Outsiders,     \* threads that are not in the context
  Members,       \* the threads that may be created in it, and their nl_thread
  NULL,
  NestedCalls,   \* the context's threads also create, join, and walk untimed
  MaxIterations  \* bound: calls of nl_iterate_threads()

Actors == Outsiders \cup Members

ASSUME ActorAssumption == Outsiders \cap Members = {} /\ NULL \notin Actors
ASSUME NestingAssumption == NestedCalls \in BOOLEAN
ASSUME IterationsAssumption == MaxIterations \in Nat

VARIABLES
  mutex,       \* ctx->lock: its owner and its depth
  head, next,  \* ctx->threads and the next pointers of the nl_thread
  info,        \* an nl_thread: "none", "allocated", "freed", "freed_twice"
  run,         \* a pthread: "none", "running", "ended", "joined"
  ctx,         \* "live" or "freed"
  destroyer,   \* who called nl_destroy_thread_context(), or NULL
  at,          \* where each actor is
  subject,     \* the nl_thread an actor's call is about
  handles,     \* the threads a caller created and did not join yet
  iterations

list == <<head, next>>
memory == <<info, run, ctx>>
threadVars == <<mutex, list, memory, destroyer, at, subject, handles, iterations>>

ThreadInit ==
  /\ mutex = [owner |-> NULL, depth |-> 0]
  /\ head = NULL /\ next = [t \in Members |-> NULL]
  /\ info = [t \in Members |-> "none"] /\ run = [t \in Members |-> "none"]
  /\ ctx = "live" /\ destroyer = NULL
  /\ at = [a \in Actors |-> "idle"] /\ subject = [a \in Actors |-> NULL]
  /\ handles = [a \in Actors |-> {}] /\ iterations = 0

-----------------------------------------------------------------------------
(* The recursive mutex.  An unlock by another thread than its owner is an    *)
(* error that changes nothing.                                               *)
CanAcquire(a) == mutex.depth = 0 \/ mutex.owner = a
Acquire(a) == CanAcquire(a) /\ mutex' = [owner |-> a, depth |-> mutex.depth + 1]
Release(a) ==
  mutex' = IF mutex.owner # a THEN mutex
           ELSE [owner |-> IF mutex.depth = 1 THEN NULL ELSE a, depth |-> mutex.depth - 1]

Proceed(a, label, t) == at' = [at EXCEPT ![a] = label] /\ subject' = [subject EXCEPT ![a] = t]

MayBegin(a) ==
  /\ at[a] = "idle"
  /\ IF a \in Outsiders THEN destroyer = NULL ELSE run[a] = "running"
MayManage(a) == MayBegin(a) /\ (a \in Outsiders \/ NestedCalls)

-----------------------------------------------------------------------------
(* nl_create_thread().  The new thread runs before it is listed.             *)

CreateCall(a) ==
  /\ MayManage(a)
  /\ Proceed(a, "create", NULL)
  /\ UNCHANGED <<mutex, list, memory, destroyer, handles, iterations>>

CreateStart(a, t) ==
  /\ at[a] = "create" /\ info[t] = "none"
  /\ Acquire(a)
  /\ info' = [info EXCEPT ![t] = "allocated"]
  /\ run' = [run EXCEPT ![t] = "running"]
  /\ Proceed(a, "enlist", t)
  /\ UNCHANGED <<list, ctx, destroyer, handles, iterations>>

(* calloc() or pthread_create() fails. *)
CreateFails(a) ==
  /\ at[a] = "create" /\ CanAcquire(a)
  /\ Proceed(a, "idle", NULL)
  /\ UNCHANGED <<mutex, list, memory, destroyer, handles, iterations>>

CreateEnlist(a) ==
  /\ at[a] = "enlist"
  /\ next' = [next EXCEPT ![subject[a]] = head] /\ head' = subject[a]
  /\ handles' = [handles EXCEPT ![a] = @ \cup {subject[a]}]
  /\ Release(a)
  /\ Proceed(a, "idle", NULL)
  /\ UNCHANGED <<memory, destroyer, iterations>>

-----------------------------------------------------------------------------
(* nl_join_thread(), by a client or from nl_destroy_thread_context().        *)

JoinCall(a, t) ==
  /\ MayManage(a) /\ t \in handles[a]
  /\ handles' = [handles EXCEPT ![a] = @ \ {t}]
  /\ Proceed(a, "join", t)
  /\ UNCHANGED <<mutex, list, memory, destroyer, iterations>>

(* What the search from ctx->threads meets: the least set that holds the     *)
(* head and what follows each of its members.                                *)
ClosedUnderNext(S) ==
  /\ head # NULL => head \in S
  /\ \A t \in S : next[t] # NULL => next[t] \in S
Listed == {t \in Members : \A S \in SUBSET Members : ClosedUnderNext(S) => t \in S}

UnlinkFirstOnly(t) ==
  /\ head' = IF t = head THEN next[t] ELSE head
  /\ UNCHANGED next

Unlink(t) ==
  IF t \notin Listed THEN UNCHANGED list
  ELSE IF t = head THEN head' = next[t] /\ UNCHANGED next
  ELSE /\ \E prev \in Listed : next[prev] = t /\ next' = [next EXCEPT ![prev] = next[t]]
       /\ UNCHANGED head

JoinUnlinkUnlocked(a) ==
  /\ at[a] = "join"
  /\ Unlink(subject[a])
  /\ Proceed(a, "wait", subject[a])
  /\ UNCHANGED <<mutex, memory, destroyer, handles, iterations>>

JoinUnlink(a) ==
  /\ at[a] = "join" /\ CanAcquire(a)
  /\ Unlink(subject[a])
  /\ Proceed(a, "wait", subject[a])
  /\ UNCHANGED <<mutex, memory, destroyer, handles, iterations>>

JoinWait(a) ==
  LET t == subject[a] IN
  /\ at[a] = "wait" /\ run[t] \in {"ended", "joined"}
  /\ run' = [run EXCEPT ![t] = "joined"]
  /\ info' = [info EXCEPT ![t] = IF @ = "allocated" THEN "freed" ELSE "freed_twice"]
  /\ Proceed(a, IF a = destroyer THEN "destroying" ELSE "idle", NULL)
  /\ UNCHANGED <<mutex, list, ctx, destroyer, handles, iterations>>

-----------------------------------------------------------------------------
(* nl_destroy_thread_context().                                              *)

DestroyCall(a) ==
  /\ a \in Outsiders /\ destroyer = NULL /\ \A c \in Outsiders : at[c] = "idle"
  /\ destroyer' = a
  /\ Proceed(a, "destroy", NULL)
  /\ UNCHANGED <<mutex, list, memory, handles, iterations>>

DestroyLock(a) ==
  /\ at[a] = "destroy"
  /\ Acquire(a)
  /\ Proceed(a, "destroying", NULL)
  /\ UNCHANGED <<list, memory, destroyer, handles, iterations>>

DestroyJoin(a) ==
  /\ at[a] = "destroying" /\ head # NULL
  /\ Proceed(a, "join", head)
  /\ UNCHANGED <<mutex, list, memory, destroyer, handles, iterations>>

DestroyFreeLast(a) ==
  /\ at[a] = "destroying" /\ \A t \in Members : t = head => next[t] = NULL
  /\ Release(a)
  /\ ctx' = "freed"
  /\ Proceed(a, "destroyed", NULL)
  /\ UNCHANGED <<list, info, run, destroyer, handles, iterations>>

DestroyFree(a) ==
  /\ at[a] = "destroying" /\ head = NULL
  /\ Release(a)
  /\ ctx' = "freed"
  /\ Proceed(a, "destroyed", NULL)
  /\ UNCHANGED <<list, info, run, destroyer, handles, iterations>>

-----------------------------------------------------------------------------
(* nl_iterate_threads(), and nl_signal_threads() on top of it.  With a       *)
(* timeout the walk begins without the lock when the lock is not to be had.  *)

IterateCall(a, timed) ==
  /\ MayBegin(a) /\ iterations < MaxIterations
  /\ timed \/ a \in Outsiders \/ NestedCalls
  /\ iterations' = iterations + 1
  /\ Proceed(a, IF timed THEN "iterate_timed" ELSE "iterate", NULL)
  /\ UNCHANGED <<mutex, list, memory, destroyer, handles>>

IterateLock(a) ==
  /\ at[a] \in {"iterate", "iterate_timed"}
  /\ Acquire(a)
  /\ Proceed(a, "walk", head)
  /\ UNCHANGED <<list, memory, destroyer, handles, iterations>>

IterateTimeout(a) ==
  /\ at[a] = "iterate_timed" /\ ~CanAcquire(a)
  /\ Proceed(a, "walk", head)
  /\ UNCHANGED <<mutex, list, memory, destroyer, handles, iterations>>

(* The callback, and the next pointer: of freed memory, what was there or    *)
(* nothing.                                                                  *)
IterateStep(a) ==
  LET t == subject[a] IN
  /\ at[a] = "walk" /\ t # NULL
  /\ \E n \in IF info[t] = "allocated" THEN {next[t]} ELSE {next[t], NULL} : Proceed(a, "walk", n)
  /\ UNCHANGED <<mutex, list, memory, destroyer, handles, iterations>>

IterateEndReset(a) ==
  /\ at[a] = "walk" /\ subject[a] = NULL
  /\ mutex' = [owner |-> NULL, depth |-> 0]
  /\ Proceed(a, "idle", NULL)
  /\ UNCHANGED <<list, memory, destroyer, handles, iterations>>

IterateEndKeep(a) ==
  /\ at[a] = "walk" /\ subject[a] = NULL
  /\ Proceed(a, "idle", NULL)
  /\ UNCHANGED <<mutex, list, memory, destroyer, handles, iterations>>

IterateEnd(a) ==
  /\ at[a] = "walk" /\ subject[a] = NULL
  /\ Release(a)
  /\ Proceed(a, "idle", NULL)
  /\ UNCHANGED <<list, memory, destroyer, handles, iterations>>

-----------------------------------------------------------------------------
(* The function of a thread returns. *)
ThreadReturns(t) ==
  /\ run[t] = "running" /\ at[t] = "idle"
  /\ run' = [run EXCEPT ![t] = "ended"]
  /\ UNCHANGED <<mutex, list, info, ctx, destroyer, at, subject, handles, iterations>>

(* What an actor does inside the library. *)
Inside(a) ==
  \/ (\E t \in Members : CreateStart(a, t)) \/ CreateFails(a) \/ CreateEnlist(a)
  \/ JoinUnlink(a) \/ JoinWait(a)
  \/ DestroyLock(a) \/ DestroyJoin(a) \/ DestroyFree(a)
  \/ IterateLock(a) \/ IterateTimeout(a) \/ IterateStep(a) \/ IterateEnd(a)

Call(a) ==
  \/ CreateCall(a) \/ (\E t \in Members : JoinCall(a, t))
  \/ DestroyCall(a)
  \/ \E timed \in BOOLEAN : IterateCall(a, timed)

ThreadNext == (\E a \in Actors : Inside(a) \/ Call(a)) \/ \E t \in Members : ThreadReturns(t)

(* Every thread is scheduled, and thread functions return. *)
ThreadFairness == (\A a \in Actors : WF_threadVars(Inside(a))) /\ \A t \in Members : WF_threadVars(ThreadReturns(t))
ThreadSpec == ThreadInit /\ [][ThreadNext]_threadVars /\ ThreadFairness

-----------------------------------------------------------------------------
(* Properties.                                                               *)

Labels == {"idle", "create", "enlist", "join", "wait", "destroy", "destroying", "destroyed",
           "iterate", "iterate_timed", "walk"}

(* Every variable keeps its type; no nl_thread is freed twice. *)
ThreadTypeOK ==
  /\ mutex \in [owner : Actors \cup {NULL}, depth : Nat]
  /\ head \in Members \cup {NULL} /\ next \in [Members -> Members \cup {NULL}]
  /\ info \in [Members -> {"none", "allocated", "freed"}]
  /\ run \in [Members -> {"none", "running", "ended", "joined"}]
  /\ ctx \in {"live", "freed"} /\ destroyer \in Outsiders \cup {NULL}
  /\ at \in [Actors -> Labels] /\ subject \in [Actors -> Members \cup {NULL}]
  /\ handles \in [Actors -> SUBSET Members]
  /\ iterations \in 0..MaxIterations

(* An actor is between a lock and its unlock. *)
InSection(a) ==
  \/ at[a] \in {"enlist", "destroying"}
  \/ at[a] \in {"join", "wait"} /\ a = destroyer

(* The lock is held by whoever relies on it, once, and by nobody else: a walk *)
(* that went on without the lock does not release another thread's            *)
(* (thread.c:358).                                                            *)
SectionsExclusive ==
  /\ \A a \in Actors : InSection(a) => mutex = [owner |-> a, depth |-> 1]
  /\ mutex.depth = 0 <=> mutex.owner = NULL
  /\ mutex.owner # NULL => InSection(mutex.owner) \/ at[mutex.owner] = "walk"

Claimed(t) == \E a \in Actors : at[a] = "wait" /\ subject[a] = t
Starting(t) == \E a \in Actors : at[a] = "enlist" /\ subject[a] = t

(* The list holds exactly the threads that were created and that nobody is    *)
(* joining or has joined, whatever the order of creations and joins           *)
(* (thread.c:240).                                                            *)
ListExact ==
  \A t \in Members :
    t \in Listed <=> info[t] = "allocated" /\ ~Claimed(t) /\ ~Starting(t)

(* A thread is joined by one caller, who frees its nl_thread after the join.  *)
JoinedOnce ==
  /\ \A t \in Members : run[t] = "joined" <=> info[t] = "freed"
  /\ \A a, b \in Actors : at[a] = "wait" =>
        /\ info[subject[a]] = "allocated"
        /\ (at[b] \in {"wait", "join"} /\ subject[b] = subject[a] => a = b)

(* A walk that has the lock meets no freed nl_thread (thread.c:352).          *)
LockedWalkLive ==
  \A a \in Actors : at[a] = "walk" /\ mutex.owner = a /\ subject[a] # NULL => info[subject[a]] = "allocated"

(* When the context is freed every thread that was created in it has been     *)
(* joined, so no thread is left that could use it (thread.c:112).             *)
DestroyLeavesNothing ==
  ctx = "freed" => /\ \A t \in Members : run[t] \in {"none", "joined"}
                   /\ \A a \in Actors : at[a] \in {"idle", "destroyed"}
                   /\ mutex.depth = 0

(* Every call returns, once the thread functions do. *)
CallsReturn == \A a \in Actors : at[a] # "idle" ~> at[a] \in {"idle", "destroyed"}

(* nl_destroy_thread_context() joins all threads and frees the context        *)
(* (thread.c:112).                                                            *)
DestroyReturns == destroyer # NULL ~> ctx = "freed"
=============================================================================
