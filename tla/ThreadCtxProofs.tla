-------------------------- MODULE ThreadCtxProofs --------------------------
(***************************************************************************)
(* First the mutex of the thread context, for any number of clients and    *)
(* threads, whether or not the threads of the context manage threads       *)
(* themselves: SectionsExclusive.  It is inductive once two facts are      *)
(* added: only the caller of nl_destroy_thread_context() is ever inside    *)
(* it, and the mutex, though recursive, is never held twice between two    *)
(* steps.                                                                  *)
(*                                                                         *)
(* Then the list and the memory, for threads that manage none themselves:  *)
(* ListExact, JoinedOnce, LockedWalkLive and DestroyLeavesNothing.  The    *)
(* list is taken as the least set closed under the next pointers; adding   *)
(* at the head and unlinking one entry keep it free of forks, and add or   *)
(* remove exactly that entry.  Each nl_thread is in one hand at a time.    *)
(***************************************************************************)
EXTENDS ThreadCtx, TLAPS

DestroyLabels == {"destroy", "destroying", "destroyed"}

LockInv ==
  /\ mutex \in [owner : Actors \cup {NULL}, depth : {0, 1}]
  /\ at \in [Actors -> Labels]
  /\ destroyer \in Outsiders \cup {NULL}
  /\ \A a \in Actors : at[a] \in DestroyLabels => a = destroyer
  /\ SectionsExclusive

(* Taking the mutex leaves the caller its only owner: whoever takes it is not *)
(* yet in a section, so it cannot be the owner already.                       *)
LEMMA LockTaken ==
  ASSUME LockInv, NEW a \in Actors, Acquire(a), ~InSection(a), at[a] # "walk"
  PROVE  mutex.depth = 0 /\ mutex.owner = NULL /\ mutex' = [owner |-> a, depth |-> 1]
<1>1. mutex.owner # a
  BY ActorAssumption DEF LockInv, SectionsExclusive
<1>2. mutex.depth = 0 /\ mutex.owner = NULL
  BY <1>1 DEF LockInv, SectionsExclusive, Acquire, CanAcquire
<1> QED
  BY <1>2 DEF Acquire

(* An owner that gives the mutex back leaves it free.                         *)
LEMMA LockReturned ==
  ASSUME LockInv, NEW a \in Actors, Release(a), mutex.owner = a
  PROVE  mutex' = [owner |-> NULL, depth |-> 0]
<1>1. a # NULL
  BY ActorAssumption
<1>2. mutex.depth = 1
  BY <1>1 DEF LockInv, SectionsExclusive
<1> QED
  BY <1>2 DEF Release

(* A step that moves one actor to another label, none of them in the middle   *)
(* of a destruction that is not its own, keeps the rest of the invariant.     *)
LEMMA Moved ==
  ASSUME LockInv, NEW a \in Actors, NEW l \in Labels, NEW t, Proceed(a, l, t),
         l \in DestroyLabels => a = destroyer, UNCHANGED destroyer
  PROVE  /\ at' \in [Actors -> Labels] /\ destroyer' \in Outsiders \cup {NULL}
         /\ \A b \in Actors : at'[b] = IF b = a THEN l ELSE at[b]
         /\ \A b \in Actors : at'[b] \in DestroyLabels => b = destroyer'
         /\ \A b \in Actors : b # a => (InSection(b)' <=> InSection(b))
BY DEF LockInv, Proceed, InSection

(* A step that leaves the mutex alone, and neither enters nor leaves a        *)
(* section or a walk with it, keeps the invariant.                            *)
LEMMA Aside ==
  ASSUME LockInv, NEW a \in Actors, NEW l \in Labels, NEW t, Proceed(a, l, t),
         l \in DestroyLabels => a = destroyer, UNCHANGED <<mutex, destroyer>>,
         InSection(a)' <=> InSection(a),
         mutex.owner = a => InSection(a) \/ l = "walk"
  PROVE  LockInv'
<1>1. at' \in [Actors -> Labels] /\ destroyer' \in Outsiders \cup {NULL}
  BY Moved
<1>2. \A b \in Actors : at'[b] = IF b = a THEN l ELSE at[b]
  BY Moved
<1>3. \A b \in Actors : at'[b] \in DestroyLabels => b = destroyer'
  BY Moved
<1>4. \A b \in Actors : InSection(b)' <=> InSection(b)
  BY Moved
<1>5. mutex' = mutex
  OBVIOUS
<1>6. SectionsExclusive'
  <2>1. \A b \in Actors : InSection(b)' => mutex' = [owner |-> b, depth |-> 1]
    BY <1>4, <1>5 DEF LockInv, SectionsExclusive
  <2>2. \A b \in Actors : mutex'.owner = b => InSection(b)' \/ at'[b] = "walk"
    <3>1. \A b \in Actors : mutex.owner = b => InSection(b) \/ at[b] = "walk"
      BY ActorAssumption DEF LockInv, SectionsExclusive, InSection
    <3> QED
      BY <3>1, <1>2, <1>4, <1>5
  <2>3. mutex'.owner # NULL => InSection(mutex.owner)' \/ at'[mutex'.owner] = "walk"
    BY <2>2, <1>5 DEF LockInv, InSection
  <2> QED
    BY <2>1, <2>3, <1>5 DEF LockInv, SectionsExclusive
<1> QED
  BY <1>1, <1>3, <1>5, <1>6 DEF LockInv

(* Taking the mutex on the way into a section or a walk keeps the invariant.  *)
LEMMA Entered ==
  ASSUME LockInv, NEW a \in Actors, NEW l \in Labels, NEW t, Proceed(a, l, t), Acquire(a),
         l \in DestroyLabels => a = destroyer, UNCHANGED destroyer,
         ~InSection(a), at[a] # "walk", InSection(a)' \/ l = "walk"
  PROVE  LockInv'
<1>1. mutex.owner = NULL /\ mutex' = [owner |-> a, depth |-> 1]
  BY LockTaken
<1>2. at' \in [Actors -> Labels] /\ destroyer' \in Outsiders \cup {NULL}
  BY Moved
<1>3. \A b \in Actors : at'[b] = IF b = a THEN l ELSE at[b]
  BY Moved
<1>4. \A b \in Actors : at'[b] \in DestroyLabels => b = destroyer'
  BY Moved
<1>5. \A b \in Actors : b # a => ~InSection(b)'
  <2>1. \A b \in Actors : b # a => (InSection(b)' <=> InSection(b))
    BY Moved
  <2>2. \A b \in Actors : ~InSection(b)
    BY <1>1, ActorAssumption DEF LockInv, SectionsExclusive
  <2> QED
    BY <2>1, <2>2
<1>6. SectionsExclusive'
  BY <1>1, <1>3, <1>5, ActorAssumption DEF SectionsExclusive
<1> QED
  BY <1>1, <1>2, <1>4, <1>6 DEF LockInv

(* Giving the mutex back on the way out of a section or a walk keeps it too.  *)
LEMMA Left ==
  ASSUME LockInv, NEW a \in Actors, NEW l \in Labels, NEW t, Proceed(a, l, t), Release(a),
         l \in DestroyLabels => a = destroyer, UNCHANGED destroyer,
         ~InSection(a)', InSection(a) \/ mutex.owner # a \/ at[a] = "walk"
  PROVE  LockInv'
<1>2. at' \in [Actors -> Labels] /\ destroyer' \in Outsiders \cup {NULL}
  BY Moved
<1>3. \A b \in Actors : at'[b] = IF b = a THEN l ELSE at[b]
  BY Moved
<1>4. \A b \in Actors : at'[b] \in DestroyLabels => b = destroyer'
  BY Moved
<1>5. \A b \in Actors : b # a => (InSection(b)' <=> InSection(b))
  BY Moved
<1>6. CASE mutex.owner = a
  <2>1. mutex' = [owner |-> NULL, depth |-> 0]
    BY <1>6, LockReturned
  <2>2. \A b \in Actors : ~InSection(b)'
    <3>1. \A b \in Actors : b # a => ~InSection(b)
      BY <1>6 DEF LockInv, SectionsExclusive
    <3> QED
      BY <3>1, <1>5
  <2>3. SectionsExclusive'
    BY <2>1, <2>2 DEF SectionsExclusive
  <2> QED
    BY <1>2, <1>4, <2>1, <2>3 DEF LockInv
<1>7. CASE mutex.owner # a
  <2>1. mutex' = mutex
    BY <1>7 DEF Release
  <2>2. \A b \in Actors : InSection(b)' => mutex' = [owner |-> b, depth |-> 1]
    BY <1>5, <2>1 DEF LockInv, SectionsExclusive
  <2>3. \A b \in Actors : mutex'.owner = b => InSection(b)' \/ at'[b] = "walk"
    <3>1. \A b \in Actors : mutex.owner = b => InSection(b) \/ at[b] = "walk"
      BY ActorAssumption DEF LockInv, SectionsExclusive, InSection
    <3> QED
      BY <3>1, <1>3, <1>5, <1>7, <2>1
  <2>4. mutex'.owner # NULL => InSection(mutex.owner)' \/ at'[mutex'.owner] = "walk"
    BY <2>1, <2>3 DEF LockInv, InSection
  <2>5. SectionsExclusive'
    BY <2>1, <2>2, <2>4 DEF LockInv, SectionsExclusive
  <2> QED
    BY <1>2, <1>4, <2>1, <2>5 DEF LockInv
<1> QED
  BY <1>6, <1>7

(* The mutex is free when the context is created.                             *)
LEMMA LockInit == ThreadInit => LockInv
BY ActorAssumption DEF ThreadInit, LockInv, SectionsExclusive, InSection, Labels, DestroyLabels

(* Every step keeps the invariant.                                            *)
LEMMA LockNext == LockInv /\ [ThreadNext]_threadVars => LockInv'
<1> SUFFICES ASSUME LockInv, [ThreadNext]_threadVars PROVE LockInv'
  OBVIOUS
<1> USE DEF Labels, DestroyLabels
<1>1. ASSUME NEW a \in Actors, CreateCall(a) PROVE LockInv'
  BY <1>1, Aside DEF CreateCall, MayManage, MayBegin, InSection, Proceed, LockInv, SectionsExclusive
<1>2. ASSUME NEW a \in Actors, NEW t \in Members, CreateStart(a, t) PROVE LockInv'
  <2>1. ~InSection(a) /\ InSection(a)'
    BY <1>2 DEF CreateStart, Proceed, InSection, LockInv
  <2> QED
    BY <1>2, <2>1, Entered DEF CreateStart, Proceed, LockInv
<1>3. ASSUME NEW a \in Actors, CreateFails(a) PROVE LockInv'
  BY <1>3, Aside DEF CreateFails, InSection, Proceed, LockInv, SectionsExclusive
<1>4. ASSUME NEW a \in Actors, CreateEnlist(a) PROVE LockInv'
  <2>1. InSection(a) /\ ~InSection(a)'
    BY <1>4 DEF CreateEnlist, Proceed, InSection, LockInv
  <2> QED
    BY <1>4, <2>1, Left DEF CreateEnlist
<1>5. ASSUME NEW a \in Actors, NEW t \in Members, JoinCall(a, t) PROVE LockInv'
  <2>1. a # destroyer
    BY <1>5, ActorAssumption DEF JoinCall, MayManage, MayBegin, LockInv, Actors
  <2>2. at[a] = "idle" /\ Proceed(a, "join", t) /\ UNCHANGED <<mutex, destroyer>>
    BY <1>5 DEF JoinCall, MayManage, MayBegin
  <2>3. ~InSection(a) /\ ~InSection(a)'
    BY <2>1, <2>2 DEF InSection, Proceed, LockInv
  <2>4. mutex.owner # a
    BY <2>2, <2>3, ActorAssumption DEF LockInv, SectionsExclusive
  <2> QED
    BY <2>2, <2>3, <2>4, Aside
<1>6. ASSUME NEW a \in Actors, JoinUnlink(a) PROVE LockInv'
  BY <1>6, Aside DEF JoinUnlink, InSection, Proceed, LockInv, SectionsExclusive
<1>7. ASSUME NEW a \in Actors, JoinWait(a) PROVE LockInv'
  BY <1>7, Aside DEF JoinWait, InSection, Proceed, LockInv, SectionsExclusive
<1>8. ASSUME NEW a \in Actors, DestroyCall(a) PROVE LockInv'
  <2>1. a \in Outsiders /\ destroyer = NULL /\ at[a] = "idle" /\ destroyer' = a
    BY <1>8 DEF DestroyCall
  <2>2. at' = [at EXCEPT ![a] = "destroy"] /\ mutex' = mutex
    BY <1>8 DEF DestroyCall, Proceed
  <2>3. \A b \in Actors : InSection(b)' <=> InSection(b)
    <3>1. \A b \in Actors : b # destroyer
      BY <2>1, ActorAssumption
    <3> QED
      BY <2>1, <2>2, <3>1 DEF InSection, LockInv
  <2>4. \A b \in Actors : at'[b] \in DestroyLabels => b = destroyer'
    BY <2>1, <2>2, ActorAssumption DEF LockInv
  <2>5. \A b \in Actors : InSection(b)' => mutex' = [owner |-> b, depth |-> 1]
    BY <2>2, <2>3 DEF LockInv, SectionsExclusive
  <2>6. \A b \in Actors : mutex'.owner = b => InSection(b)' \/ at'[b] = "walk"
    <3>1. \A b \in Actors : mutex.owner = b => InSection(b) \/ at[b] = "walk"
      BY ActorAssumption DEF LockInv, SectionsExclusive, InSection
    <3> QED
      BY <3>1, <2>1, <2>2, <2>3 DEF LockInv
  <2>7. mutex'.owner # NULL => InSection(mutex.owner)' \/ at'[mutex'.owner] = "walk"
    BY <2>2, <2>6 DEF LockInv, InSection
  <2>8. SectionsExclusive'
    BY <2>2, <2>5, <2>7 DEF LockInv, SectionsExclusive
  <2> QED
    BY <2>1, <2>2, <2>4, <2>8 DEF LockInv
<1>9. ASSUME NEW a \in Actors, DestroyLock(a) PROVE LockInv'
  <2>1. ~InSection(a) /\ InSection(a)' /\ a = destroyer
    BY <1>9 DEF DestroyLock, Proceed, InSection, LockInv
  <2> QED
    BY <1>9, <2>1, Entered DEF DestroyLock
<1>10. ASSUME NEW a \in Actors, DestroyJoin(a) PROVE LockInv'
  <2>1. InSection(a) /\ a = destroyer
    BY <1>10 DEF DestroyJoin, InSection, LockInv
  <2> QED
    BY <1>10, <2>1, Aside DEF DestroyJoin, InSection, Proceed, LockInv
<1>11. ASSUME NEW a \in Actors, DestroyFree(a) PROVE LockInv'
  <2>1. InSection(a) /\ ~InSection(a)' /\ a = destroyer
    BY <1>11 DEF DestroyFree, Proceed, InSection, LockInv
  <2> QED
    BY <1>11, <2>1, Left DEF DestroyFree
<1>12. ASSUME NEW a \in Actors, NEW timed \in BOOLEAN, IterateCall(a, timed) PROVE LockInv'
  BY <1>12, Aside DEF IterateCall, MayBegin, InSection, Proceed, LockInv, SectionsExclusive
<1>13. ASSUME NEW a \in Actors, IterateLock(a) PROVE LockInv'
  <2>1. ~InSection(a)
    BY <1>13 DEF IterateLock, InSection
  <2> QED
    BY <1>13, <2>1, Entered DEF IterateLock
<1>14. ASSUME NEW a \in Actors, IterateTimeout(a) PROVE LockInv'
  BY <1>14, Aside DEF IterateTimeout, InSection, Proceed, LockInv
<1>15. ASSUME NEW a \in Actors, IterateStep(a) PROVE LockInv'
  BY <1>15, Aside, ZenonT(60) DEF IterateStep, InSection, Proceed, LockInv
<1>16. ASSUME NEW a \in Actors, IterateEnd(a) PROVE LockInv'
  <2>1. ~InSection(a)'
    BY <1>16 DEF IterateEnd, Proceed, InSection, LockInv
  <2> QED
    BY <1>16, <2>1, Left DEF IterateEnd
<1>17. ASSUME NEW t \in Members, ThreadReturns(t) PROVE LockInv'
  BY <1>17 DEF ThreadReturns, LockInv, SectionsExclusive, InSection
<1>18. CASE UNCHANGED threadVars
  BY <1>18 DEF threadVars, LockInv, SectionsExclusive, InSection
<1> QED
  BY <1>1, <1>2, <1>3, <1>4, <1>5, <1>6, <1>7, <1>8, <1>9, <1>10, <1>11, <1>12, <1>13,
     <1>14, <1>15, <1>16, <1>17, <1>18 DEF ThreadNext, Inside, Call

(* Whoever relies on the mutex of the context holds it, alone, and it is held *)
(* by nobody who does not: for any number of clients and threads, with or     *)
(* without walks that time out and calls made by the context's own threads.   *)
THEOREM MutexCorrectness == ThreadSpec => []SectionsExclusive
<1>1. LockInv => SectionsExclusive
  BY DEF LockInv
<1> QED
  BY LockInit, LockNext, <1>1, PTL DEF ThreadSpec

-----------------------------------------------------------------------------
(* The list as a set.  Listed is the least set closed under next; these      *)
(* lemmas say what the two operations on the list make of it.                *)

ListTypes == head \in Members \cup {NULL} /\ next \in [Members -> Members \cup {NULL}]

(* Nothing listed has two predecessors, and the head has none.               *)
Chained ==
  /\ \A u, v \in Listed : next[u] = next[v] /\ next[u] # NULL => u = v
  /\ \A u \in Listed : next[u] # head \/ head = NULL

(* The listed threads are closed under next.                                  *)
LEMMA ListedClosed ==
  ASSUME ListTypes
  PROVE  /\ Listed \subseteq Members
         /\ head # NULL => head \in Listed
         /\ \A u \in Listed : next[u] # NULL => next[u] \in Listed
BY DEF ListTypes, Listed, ClosedUnderNext

(* They are in every set that is closed under next.                           *)
LEMMA ListedLeast ==
  ASSUME NEW S \in SUBSET Members, ClosedUnderNext(S)
  PROVE  Listed \subseteq S
BY DEF Listed

(* A set that becomes the least closed one becomes what is listed.            *)
LEMMA ListedBecomes ==
  ASSUME NEW L \in SUBSET Members, ClosedUnderNext(L)',
         \A S \in SUBSET Members : ClosedUnderNext(S)' => L \subseteq S
  PROVE  Listed' = L
BY DEF Listed

(* A thread put at the head is listed, and all that was listed still is.      *)
LEMMA EnlistedList ==
  ASSUME ListTypes, Chained, NEW t \in Members, t \notin Listed,
         head' = t, next' = [next EXCEPT ![t] = head]
  PROVE  ListTypes' /\ Chained' /\ Listed' = Listed \cup {t}
<1>1. t # NULL /\ \A u \in Members : next'[u] = IF u = t THEN head ELSE next[u]
  BY ActorAssumption DEF ListTypes, Actors
<1>2. ListTypes'
  BY DEF ListTypes
<1> PICK L \in SUBSET Members : L = Listed \cup {t}
  BY ListedClosed
<1>3. ClosedUnderNext(L)'
  BY <1>1, ListedClosed DEF ClosedUnderNext
<1>4. ASSUME NEW S \in SUBSET Members, ClosedUnderNext(S)'
      PROVE  L \subseteq S
  <2>1. t \in S
    BY <1>1, <1>4 DEF ClosedUnderNext
  <2>2. ClosedUnderNext(S \cap Listed)
    BY <1>1, <1>4, <2>1, ListedClosed DEF ClosedUnderNext
  <2> QED
    BY <2>1, <2>2, ListedLeast
<1>5. Listed' = Listed \cup {t}
  BY <1>3, <1>4, ListedBecomes
<1>6. Chained'
  BY <1>1, <1>5, ListedClosed DEF Chained
<1> QED
  BY <1>2, <1>5, <1>6

(* Unlinking a listed thread removes it, and nothing that comes after it.     *)
LEMMA UnlinkedList ==
  ASSUME ListTypes, Chained, NEW t \in Listed, Unlink(t)
  PROVE  ListTypes' /\ Chained' /\ Listed' = Listed \ {t}
<1>1. t \in Members /\ t # NULL
  BY ListedClosed, ActorAssumption DEF Actors
<1> PICK L \in SUBSET Members : L = Listed \ {t}
  BY ListedClosed
<1>2. CASE t = head
  <2>1. head' = next[t] /\ next' = next
    BY <1>2 DEF Unlink
  <2>2. ListTypes'
    BY <1>1, <2>1 DEF ListTypes
  <2>3. ClosedUnderNext(L)'
    BY <1>1, <1>2, <2>1, ListedClosed DEF ClosedUnderNext, Chained
  <2>4. ASSUME NEW S \in SUBSET Members, ClosedUnderNext(S)'
        PROVE  L \subseteq S
    <3>1. ClosedUnderNext(S \cup {t})
      BY <1>2, <2>1, <2>4 DEF ClosedUnderNext
    <3> QED
      BY <1>1, <3>1, ListedLeast
  <2>5. Listed' = Listed \ {t}
    BY <2>3, <2>4, ListedBecomes
  <2>6. Chained'
    BY <2>1, <2>5, ListedClosed DEF Chained
  <2> QED
    BY <2>2, <2>5, <2>6
<1>3. CASE t # head
  <2>1. PICK p \in Listed : next[p] = t /\ next' = [next EXCEPT ![p] = next[t]] /\ head' = head
    BY <1>3 DEF Unlink
  <2>2. next[t] # t
    <3>1. SUFFICES ASSUME next[t] = t PROVE FALSE
      OBVIOUS
    <3>2. ClosedUnderNext(Listed \ {t})
      BY <1>1, <1>3, <3>1, ListedClosed DEF ClosedUnderNext, Chained
    <3>3. Listed \ {t} \in SUBSET Members
      BY ListedClosed
    <3> QED
      BY <3>2, <3>3, ListedLeast
  <2>3. p # t /\ p \in Members
    BY <2>1, <2>2, ListedClosed
  <2>4. \A u \in Members : next'[u] = IF u = p THEN next[t] ELSE next[u]
    BY <2>1 DEF ListTypes
  <2>5. ListTypes'
    BY <1>1, <2>1 DEF ListTypes
  <2>6. ClosedUnderNext(L)'
    BY <1>1, <1>3, <2>1, <2>2, <2>4, ListedClosed DEF ClosedUnderNext, Chained
  <2>7. ASSUME NEW S \in SUBSET Members, ClosedUnderNext(S)'
        PROVE  L \subseteq S
    <3>1. CASE p \in S
      <4>1. ClosedUnderNext(S \cup {t})
        BY <2>1, <2>3, <2>4, <2>7, <3>1 DEF ClosedUnderNext
      <4> QED
        BY <1>1, <4>1, ListedLeast
    <3>2. CASE p \notin S
      <4>1. ClosedUnderNext(S)
        BY <2>1, <2>4, <2>7, <3>2 DEF ClosedUnderNext
      <4> QED
        BY <4>1, ListedLeast
    <3> QED
      BY <3>1, <3>2
  <2>8. Listed' = Listed \ {t}
    BY <2>6, <2>7, ListedBecomes
  <2>9. Chained'
    BY <2>1, <2>3, <2>4, <2>8, ListedClosed DEF Chained
  <2> QED
    BY <2>5, <2>8, <2>9
<1> QED
  BY <1>2, <1>3
-----------------------------------------------------------------------------
(* The invariant when the threads of the context do not manage threads.  The *)
(* list is exact because an nl_thread is in one hand at a time: it is being  *)
(* enlisted, or listed, perhaps with a caller about to join it, or waited    *)
(* for.                                                                      *)
MemoryTypes ==
  /\ info \in [Members -> {"none", "allocated", "freed"}]
  /\ run \in [Members -> {"none", "running", "ended", "joined"}]
  /\ ctx \in {"live", "freed"}
  /\ subject \in [Actors -> Members \cup {NULL}] /\ handles \in [Actors -> SUBSET Members]

WalkLabels == {"idle", "iterate_timed", "walk"}
HeldLabels == {"enlist", "join", "wait"}
Held(a) == at[a] \in HeldLabels

ThreadsOnlyWalk ==
  \A t \in Members : at[t] \in WalkLabels /\ (at[t] # "idle" => run[t] = "running")

HeldOnce ==
  /\ \A a \in Actors : Held(a) =>
        /\ subject[a] \in Members /\ info[subject[a]] = "allocated"
        /\ at[a] = "join" <=> subject[a] \in Listed
  /\ \A a, b \in Actors : Held(a) /\ Held(b) /\ subject[a] = subject[b] => a = b

HandlesListed ==
  destroyer = NULL =>
    \A a \in Actors : \A t \in handles[a] :
      /\ t \in Listed
      /\ \A b \in Actors : (Held(b) => subject[b] # t) /\ (t \in handles[b] => b = a)

RunMatchesInfo ==
  \A t \in Members : /\ info[t] = "none" <=> run[t] = "none"
                     /\ info[t] = "freed" <=> run[t] = "joined"

LockedWalkListed ==
  \A a \in Actors : at[a] = "walk" /\ mutex.owner = a => subject[a] \in Listed \cup {NULL}

DestroyAlone ==
  /\ destroyer # NULL => /\ \A c \in Outsiders : c # destroyer => at[c] = "idle"
                         /\ at[destroyer] \in DestroyLabels \cup {"join", "wait"}
  /\ ctx = "freed" => destroyer # NULL /\ at[destroyer] = "destroyed" /\ head = NULL

ThreadsInv ==
  /\ LockInv /\ ListTypes /\ Chained /\ MemoryTypes
  /\ ThreadsOnlyWalk /\ HeldOnce /\ HandlesListed /\ ListExact /\ RunMatchesInfo
  /\ LockedWalkListed /\ DestroyAlone

(* No thread was created at first.                                            *)
LEMMA ThreadsInitially == ThreadInit => ThreadsInv
<1> SUFFICES ASSUME ThreadInit PROVE ThreadsInv
  OBVIOUS
<1>1. ListTypes /\ MemoryTypes /\ LockInv
  BY LockInit DEF ThreadInit, ListTypes, MemoryTypes
<1>2. Listed = {}
  <2>1. ClosedUnderNext({})
    BY DEF ThreadInit, ClosedUnderNext
  <2> QED
    BY <2>1, ListedLeast
<1>3. ThreadsOnlyWalk /\ LockedWalkListed
  BY DEF ThreadInit, ThreadsOnlyWalk, LockedWalkListed, WalkLabels, Actors
<1>4. HeldOnce /\ HandlesListed /\ RunMatchesInfo /\ DestroyAlone
  BY DEF ThreadInit, HeldOnce, Held, HeldLabels, HandlesListed, RunMatchesInfo, DestroyAlone
<1>5. Chained /\ ListExact
  BY <1>2 DEF ThreadInit, Chained, ListExact
<1> QED
  BY <1>1, <1>3, <1>4, <1>5 DEF ThreadsInv

(* A step that leaves the list and the threads alone, of an actor that holds  *)
(* no nl_thread before it or after it.                                        *)
LEMMA Elsewhere ==
  ASSUME ThreadsInv, LockInv', DestroyAlone',
         NEW a \in Actors, NEW l \in Labels \ HeldLabels, NEW t \in Members \cup {NULL},
         Proceed(a, l, t), ~Held(a), UNCHANGED <<list, info, run, handles>>, ctx' \in {"live", "freed"},
         a \in Members => l \in WalkLabels /\ run[a] = "running",
         l = "walk" /\ mutex'.owner = a => t \in Listed \cup {NULL},
         \A b \in Actors \ {a} : mutex'.owner = b => mutex.owner = b,
         destroyer' = NULL => destroyer = NULL
  PROVE  ThreadsInv'
<1>1. /\ at \in [Actors -> Labels] /\ subject \in [Actors -> Members \cup {NULL}]
      /\ \A b \in Actors : at'[b] = IF b = a THEN l ELSE at[b]
      /\ \A b \in Actors : subject'[b] = IF b = a THEN t ELSE subject[b]
  BY DEF ThreadsInv, LockInv, MemoryTypes, Proceed
<1>2. Listed' = Listed /\ Members \subseteq Actors
  BY DEF list, Listed, ClosedUnderNext, Actors
<1>3. MemoryTypes' /\ ListTypes' /\ Chained'
  BY <1>1, <1>2 DEF ThreadsInv, MemoryTypes, ListTypes, Chained, Proceed, list
<1>4. ThreadsOnlyWalk'
  BY <1>1, <1>2 DEF ThreadsInv, ThreadsOnlyWalk
<1>5. \A b \in Actors : (Held(b)' <=> Held(b)) /\ (Held(b) => subject'[b] = subject[b] /\ at'[b] = at[b])
  BY <1>1 DEF Held
<1>6. HeldOnce'
  BY <1>2, <1>5 DEF ThreadsInv, HeldOnce
<1>7. HandlesListed'
  BY <1>2, <1>5 DEF ThreadsInv, HandlesListed
<1>8. ListExact'
  <2>1. \A u \in Members : (Claimed(u)' <=> Claimed(u)) /\ (Starting(u)' <=> Starting(u))
    BY <1>1 DEF Claimed, Starting, Held, HeldLabels
  <2> QED
    BY <1>2, <2>1 DEF ThreadsInv, ListExact
<1>9. RunMatchesInfo'
  BY DEF ThreadsInv, RunMatchesInfo
<1>10. LockedWalkListed'
  BY <1>1, <1>2 DEF ThreadsInv, LockedWalkListed
<1> QED
  BY <1>3, <1>4, <1>6, <1>7, <1>8, <1>9, <1>10 DEF ThreadsInv

(* A caller that manages threads is a client, and no client is destroying.    *)
LEMMA ManagerIsClient ==
  ASSUME ThreadsInv, ~NestedCalls, NEW a \in Actors,
         MayManage(a) \/ at[a] \in {"create", "enlist", "iterate"}
  PROVE  a \in Outsiders /\ destroyer = NULL /\ ctx = "live"
<1>1. a \in Outsiders
  BY DEF MayManage, ThreadsInv, ThreadsOnlyWalk, WalkLabels, Actors
<1>2. destroyer = NULL
  BY <1>1, ActorAssumption DEF MayManage, MayBegin, ThreadsInv, DestroyAlone, DestroyLabels
<1> QED
  BY <1>1, <1>2 DEF ThreadsInv, DestroyAlone, MemoryTypes

(* Where the actor of a step is, and what it is about, before and after.      *)
LEMMA Goes ==
  ASSUME ThreadsInv, NEW a \in Actors, NEW l, NEW t, Proceed(a, l, t)
  PROVE  /\ \A b \in Actors : at'[b] = IF b = a THEN l ELSE at[b]
         /\ \A b \in Actors : subject'[b] = IF b = a THEN t ELSE subject[b]
         /\ t \in Members \cup {NULL} => subject' \in [Actors -> Members \cup {NULL}]
BY DEF ThreadsInv, LockInv, MemoryTypes, Proceed

(* CreateStart keeps the invariant.                                           *)
LEMMA CreateStartKeeps ==
  ASSUME ThreadsInv, LockInv', ~NestedCalls, NEW a \in Actors, NEW t \in Members, CreateStart(a, t)
  PROVE  ThreadsInv'
<1>1. a \in Outsiders /\ destroyer = NULL /\ ctx = "live"
  BY ManagerIsClient DEF CreateStart
<1>2. /\ at[a] = "create" /\ info[t] = "none" /\ Proceed(a, "enlist", t)
      /\ info' = [info EXCEPT ![t] = "allocated"] /\ run' = [run EXCEPT ![t] = "running"]
      /\ UNCHANGED <<head, next, ctx, destroyer, handles>>
  BY DEF CreateStart, list
<1>3. /\ \A b \in Actors : at'[b] = IF b = a THEN "enlist" ELSE at[b]
      /\ \A b \in Actors : subject'[b] = IF b = a THEN t ELSE subject[b]
      /\ subject' \in [Actors -> Members \cup {NULL}]
  BY <1>2, Goes
<1>4. /\ \A u \in Members : info'[u] = IF u = t THEN "allocated" ELSE info[u]
      /\ \A u \in Members : run'[u] = IF u = t THEN "running" ELSE run[u]
  BY <1>2 DEF ThreadsInv, MemoryTypes
<1>5. Listed' = Listed /\ ListTypes' /\ Chained'
  <2>1. Listed' = Listed
    BY <1>2 DEF Listed, ClosedUnderNext
  <2> QED
    BY <1>2, <2>1 DEF ThreadsInv, ListTypes, Chained
<1>6. MemoryTypes'
  BY <1>2, <1>3 DEF ThreadsInv, MemoryTypes
<1>7. t \notin Listed /\ \A b \in Actors : Held(b) => subject[b] # t
  BY <1>2 DEF ThreadsInv, ListExact, HeldOnce
<1>8. \A b \in Actors : Held(b)' <=> b = a \/ Held(b)
  BY <1>3 DEF Held, HeldLabels
<1>9. ThreadsOnlyWalk'
  BY <1>1, <1>3, <1>4, ActorAssumption DEF ThreadsInv, ThreadsOnlyWalk, Actors
<1>10. HeldOnce'
  <2>1. ~Held(a)
    BY <1>2 DEF Held, HeldLabels
  <2> QED
    BY <1>3, <1>4, <1>5, <1>7, <1>8, <2>1 DEF ThreadsInv, HeldOnce
<1>11. HandlesListed'
  BY <1>2, <1>3, <1>5, <1>7, <1>8 DEF ThreadsInv, HandlesListed
<1>12. ListExact'
  <2>1. Starting(t)'
    BY <1>3 DEF Starting
  <2>2. \A u \in Members : u # t => (Claimed(u)' <=> Claimed(u)) /\ (Starting(u)' <=> Starting(u))
    BY <1>2, <1>3 DEF Claimed, Starting
  <2> QED
    BY <1>4, <1>5, <1>7, <2>1, <2>2 DEF ThreadsInv, ListExact
<1>13. RunMatchesInfo'
  BY <1>4 DEF ThreadsInv, RunMatchesInfo
<1>14. LockedWalkListed'
  <2>1. \A b \in Actors : at'[b] = "walk" => b # a /\ at[b] = "walk" /\ subject'[b] = subject[b]
    BY <1>3
  <2>2. \A b \in Actors \ {a} : mutex'.owner = b => mutex.owner = b
    BY DEF CreateStart, Acquire
  <2> QED
    BY <1>5, <2>1, <2>2 DEF ThreadsInv, LockedWalkListed
<1>15. DestroyAlone'
  BY <1>1, <1>2 DEF DestroyAlone
<1> QED
  BY <1>5, <1>6, <1>9, <1>10, <1>11, <1>12, <1>13, <1>14, <1>15 DEF ThreadsInv

(* CreateEnlist keeps the invariant.                                          *)
LEMMA CreateEnlistKeeps ==
  ASSUME ThreadsInv, LockInv', ~NestedCalls, NEW a \in Actors, CreateEnlist(a)
  PROVE  ThreadsInv'
<1>1. a \in Outsiders /\ destroyer = NULL /\ ctx = "live"
  BY ManagerIsClient DEF CreateEnlist
<1> PICK t \in Members : t = subject[a]
  BY DEF CreateEnlist, ThreadsInv, HeldOnce, Held, HeldLabels
<1>2. /\ at[a] = "enlist" /\ Proceed(a, "idle", NULL)
      /\ next' = [next EXCEPT ![t] = head] /\ head' = t
      /\ handles' = [handles EXCEPT ![a] = @ \cup {t}]
      /\ UNCHANGED <<info, run, ctx, destroyer>>
  BY DEF CreateEnlist, memory
<1>3. /\ \A b \in Actors : at'[b] = IF b = a THEN "idle" ELSE at[b]
      /\ \A b \in Actors : subject'[b] = IF b = a THEN NULL ELSE subject[b]
      /\ subject' \in [Actors -> Members \cup {NULL}]
  BY <1>2, Goes
<1>4. info[t] = "allocated" /\ t \notin Listed /\ Held(a)
  BY <1>2 DEF ThreadsInv, HeldOnce, Held, HeldLabels
<1>5. ListTypes' /\ Chained' /\ Listed' = Listed \cup {t}
  BY <1>2, <1>4, EnlistedList DEF ThreadsInv
<1>6. MemoryTypes'
  BY <1>2, <1>3 DEF ThreadsInv, MemoryTypes
<1>7. \A b \in Actors : handles'[b] = IF b = a THEN handles[a] \cup {t} ELSE handles[b]
  BY <1>2 DEF ThreadsInv, MemoryTypes
<1>8. \A b \in Actors : Held(b)' <=> b # a /\ Held(b)
  BY <1>3 DEF Held, HeldLabels
<1>9. \A b \in Actors : b # a /\ Held(b) => subject[b] # t
  BY <1>4 DEF ThreadsInv, HeldOnce
<1>10. ThreadsOnlyWalk'
  BY <1>1, <1>2, <1>3, ActorAssumption DEF ThreadsInv, ThreadsOnlyWalk, Actors
<1>11. HeldOnce'
  BY <1>2, <1>3, <1>5, <1>8, <1>9 DEF ThreadsInv, HeldOnce
<1>12. HandlesListed'
  <2>1. \A b \in Actors : t \notin handles[b]
    BY <1>1, <1>4 DEF ThreadsInv, HandlesListed
  <2> QED
    BY <1>1, <1>3, <1>5, <1>7, <1>8, <1>9, <2>1 DEF ThreadsInv, HandlesListed
<1>13. ListExact'
  <2>1. ~Claimed(t)' /\ ~Starting(t)'
    BY <1>3, <1>9 DEF Claimed, Starting, Held, HeldLabels
  <2>2. \A u \in Members : u # t => (Claimed(u)' <=> Claimed(u)) /\ (Starting(u)' <=> Starting(u))
    BY <1>2, <1>3 DEF Claimed, Starting
  <2> QED
    BY <1>2, <1>4, <1>5, <2>1, <2>2 DEF ThreadsInv, ListExact
<1>14. RunMatchesInfo'
  BY <1>2 DEF ThreadsInv, RunMatchesInfo
<1>15. LockedWalkListed'
  <2>1. \A b \in Actors : at'[b] = "walk" => b # a /\ at[b] = "walk" /\ subject'[b] = subject[b]
    BY <1>3
  <2>2. \A b \in Actors \ {a} : mutex'.owner = b => mutex.owner = b
    BY ActorAssumption DEF CreateEnlist, Release
  <2> QED
    BY <1>5, <2>1, <2>2 DEF ThreadsInv, LockedWalkListed
<1>16. DestroyAlone'
  BY <1>1, <1>2 DEF DestroyAlone
<1> QED
  BY <1>5, <1>6, <1>10, <1>11, <1>12, <1>13, <1>14, <1>15, <1>16 DEF ThreadsInv

(* The two ways into the join of a listed thread nobody holds.                *)
LEMMA JoinBegins ==
  ASSUME ThreadsInv, LockInv', DestroyAlone', NEW a \in Outsiders, NEW t \in Listed,
         \A b \in Actors : Held(b) => subject[b] # t,
         at[a] \in {"idle", "destroying"}, Proceed(a, "join", t),
         UNCHANGED <<mutex, head, next, info, run, ctx, destroyer>>,
         handles' \in [Actors -> SUBSET Members],
         \A b \in Actors : handles'[b] \subseteq handles[b],
         destroyer = NULL => \A b \in Actors : t \notin handles'[b]
  PROVE  ThreadsInv'
<1>1. a \in Actors /\ t \in Members /\ a \notin Members
  BY ListedClosed, ActorAssumption DEF ThreadsInv, Actors
<1>2. /\ \A b \in Actors : at'[b] = IF b = a THEN "join" ELSE at[b]
      /\ \A b \in Actors : subject'[b] = IF b = a THEN t ELSE subject[b]
      /\ subject' \in [Actors -> Members \cup {NULL}]
  BY <1>1, Goes
<1>3. Listed' = Listed /\ ListTypes' /\ Chained'
  <2>1. Listed' = Listed
    BY DEF Listed, ClosedUnderNext
  <2> QED
    BY <2>1 DEF ThreadsInv, ListTypes, Chained
<1>4. MemoryTypes'
  BY <1>2 DEF ThreadsInv, MemoryTypes
<1>5. \A b \in Actors : Held(b)' <=> b = a \/ Held(b)
  BY <1>2 DEF Held, HeldLabels
<1>6. ~Held(a) /\ info[t] = "allocated"
  BY <1>1 DEF Held, HeldLabels, ThreadsInv, ListExact
<1>7. ThreadsOnlyWalk'
  BY <1>1, <1>2 DEF ThreadsInv, ThreadsOnlyWalk, Actors
<1>8. HeldOnce'
  BY <1>1, <1>2, <1>3, <1>5, <1>6 DEF ThreadsInv, HeldOnce
<1>9. HandlesListed'
  BY <1>1, <1>2, <1>3, <1>5 DEF ThreadsInv, HandlesListed
<1>10. ListExact'
  <2>1. \A u \in Members : (Claimed(u)' <=> Claimed(u)) /\ (Starting(u)' <=> Starting(u))
    BY <1>1, <1>2 DEF Claimed, Starting
  <2> QED
    BY <1>3, <2>1 DEF ThreadsInv, ListExact
<1>11. RunMatchesInfo'
  BY DEF ThreadsInv, RunMatchesInfo
<1>12. LockedWalkListed'
  BY <1>2, <1>3 DEF ThreadsInv, LockedWalkListed
<1> QED
  BY <1>3, <1>4, <1>7, <1>8, <1>9, <1>10, <1>11, <1>12 DEF ThreadsInv

(* JoinCall keeps the invariant.                                              *)
LEMMA JoinCallKeeps ==
  ASSUME ThreadsInv, LockInv', ~NestedCalls, NEW a \in Actors, NEW t \in Members, JoinCall(a, t)
  PROVE  ThreadsInv'
<1>1. a \in Outsiders /\ destroyer = NULL /\ ctx = "live"
  BY ManagerIsClient DEF JoinCall
<1>2. /\ at[a] = "idle" /\ t \in handles[a] /\ Proceed(a, "join", t)
      /\ handles' = [handles EXCEPT ![a] = @ \ {t}]
      /\ UNCHANGED <<mutex, head, next, info, run, ctx, destroyer>>
  BY DEF JoinCall, MayManage, MayBegin, list, memory
<1>3. t \in Listed /\ (\A b \in Actors : Held(b) => subject[b] # t)
      /\ \A b \in Actors : b # a => t \notin handles[b]
  BY <1>1, <1>2 DEF ThreadsInv, HandlesListed
<1>4. \A b \in Actors : handles'[b] = IF b = a THEN handles[a] \ {t} ELSE handles[b]
  BY <1>2 DEF ThreadsInv, MemoryTypes
<1>5. handles' \in [Actors -> SUBSET Members]
  BY <1>2 DEF ThreadsInv, MemoryTypes
<1>6. DestroyAlone'
  BY <1>1, <1>2 DEF DestroyAlone
<1>7. \A b \in Actors : handles'[b] \subseteq handles[b] /\ t \notin handles'[b]
  BY <1>3, <1>4
<1> QED
  BY <1>1, <1>2, <1>3, <1>5, <1>6, <1>7, JoinBegins

(* DestroyJoin keeps the invariant.                                           *)
LEMMA DestroyJoinKeeps ==
  ASSUME ThreadsInv, LockInv', NEW a \in Actors, DestroyJoin(a)
  PROVE  ThreadsInv'
<1>1. /\ at[a] = "destroying" /\ head # NULL /\ Proceed(a, "join", head)
      /\ UNCHANGED <<mutex, head, next, info, run, ctx, destroyer, handles>>
  BY DEF DestroyJoin, list, memory
<1>2. a = destroyer /\ destroyer # NULL /\ a \in Outsiders
  BY <1>1, ActorAssumption DEF ThreadsInv, LockInv, DestroyLabels
<1>3. head \in Listed
  BY <1>1, ListedClosed DEF ThreadsInv
<1>4. \A b \in Actors : ~Held(b)
  BY <1>1, <1>2 DEF Held, HeldLabels, ThreadsInv, DestroyAlone, ThreadsOnlyWalk, WalkLabels, Actors
<1>5. \A b \in Actors : at'[b] = IF b = a THEN "join" ELSE at[b]
  BY <1>1, Goes
<1>6. DestroyAlone'
  BY <1>1, <1>2, <1>5, ActorAssumption DEF ThreadsInv, DestroyAlone, DestroyLabels, Actors
<1>7. handles' \in [Actors -> SUBSET Members] /\ \A b \in Actors : handles'[b] \subseteq handles[b]
  BY <1>1 DEF ThreadsInv, MemoryTypes
<1> QED
  BY <1>1, <1>2, <1>3, <1>4, <1>6, <1>7, JoinBegins

(* A caller inside a join is a client; the destroyer, or not destroying.      *)
LEMMA JoinerIsClient ==
  ASSUME ThreadsInv, NEW a \in Actors, at[a] \in {"join", "wait"}
  PROVE  /\ a \in Outsiders /\ subject[a] \in Members /\ Held(a) /\ ctx = "live"
         /\ destroyer # NULL => a = destroyer
<1>1. a \in Outsiders /\ Held(a)
  BY DEF ThreadsInv, ThreadsOnlyWalk, WalkLabels, Actors, Held, HeldLabels
<1>2. destroyer # NULL => a = destroyer
  BY <1>1 DEF ThreadsInv, DestroyAlone
<1> QED
  BY <1>1, <1>2 DEF ThreadsInv, DestroyAlone, HeldOnce, MemoryTypes

(* JoinUnlink keeps the invariant.                                            *)
LEMMA JoinUnlinkKeeps ==
  ASSUME ThreadsInv, LockInv', NEW a \in Actors, JoinUnlink(a)
  PROVE  ThreadsInv'
<1>1. a \in Outsiders /\ Held(a) /\ ctx = "live" /\ (destroyer # NULL => a = destroyer)
  BY JoinerIsClient DEF JoinUnlink
<1> PICK t \in Members : t = subject[a]
  BY JoinerIsClient DEF JoinUnlink
<1>2. /\ at[a] = "join" /\ CanAcquire(a) /\ Unlink(t) /\ Proceed(a, "wait", t)
      /\ UNCHANGED <<mutex, info, run, ctx, destroyer, handles>>
  BY DEF JoinUnlink, memory
<1>3. /\ \A b \in Actors : at'[b] = IF b = a THEN "wait" ELSE at[b]
      /\ \A b \in Actors : subject'[b] = subject[b]
      /\ subject' \in [Actors -> Members \cup {NULL}]
  BY <1>2, Goes
<1>4. info[t] = "allocated" /\ t \in Listed /\ \A b \in Actors : b # a /\ Held(b) => subject[b] # t
  BY <1>1, <1>2 DEF ThreadsInv, HeldOnce
<1>5. ListTypes' /\ Chained' /\ Listed' = Listed \ {t}
  BY <1>2, <1>4, UnlinkedList DEF ThreadsInv
<1>6. MemoryTypes'
  BY <1>2, <1>3 DEF ThreadsInv, MemoryTypes
<1>7. \A b \in Actors : Held(b)' <=> Held(b)
  BY <1>1, <1>3 DEF Held, HeldLabels
<1>8. ThreadsOnlyWalk'
  BY <1>1, <1>2, <1>3, ActorAssumption DEF ThreadsInv, ThreadsOnlyWalk, Actors
<1>9. HeldOnce'
  BY <1>2, <1>3, <1>4, <1>5, <1>7 DEF ThreadsInv, HeldOnce
<1>10. HandlesListed'
  BY <1>1, <1>2, <1>3, <1>5, <1>7 DEF ThreadsInv, HandlesListed
<1>11. ListExact'
  <2>1. Claimed(t)'
    BY <1>3 DEF Claimed
  <2>2. \A u \in Members : u # t => (Claimed(u)' <=> Claimed(u)) /\ (Starting(u)' <=> Starting(u))
    BY <1>2, <1>3 DEF Claimed, Starting
  <2> QED
    BY <1>2, <1>5, <2>1, <2>2 DEF ThreadsInv, ListExact
<1>12. RunMatchesInfo'
  BY <1>2 DEF ThreadsInv, RunMatchesInfo
<1>13. LockedWalkListed'
  <2>1. ASSUME NEW b \in Actors, at'[b] = "walk", mutex'.owner = b PROVE FALSE
    <3>1. b # a /\ mutex.owner = b /\ at[b] = "walk"
      BY <1>2, <1>3, <2>1
    <3>2. mutex.depth = 0
      BY <1>2, <3>1 DEF CanAcquire
    <3> QED
      BY <3>1, <3>2, ActorAssumption DEF ThreadsInv, LockInv, SectionsExclusive
  <2> QED
    BY <2>1 DEF LockedWalkListed
<1>14. DestroyAlone'
  BY <1>1, <1>2, <1>3, ActorAssumption DEF ThreadsInv, DestroyAlone, Actors
<1> QED
  BY <1>5, <1>6, <1>8, <1>9, <1>10, <1>11, <1>12, <1>13, <1>14 DEF ThreadsInv

(* JoinWait keeps the invariant.                                              *)
LEMMA JoinWaitKeeps ==
  ASSUME ThreadsInv, LockInv', NEW a \in Actors, JoinWait(a)
  PROVE  ThreadsInv'
<1>1. a \in Outsiders /\ Held(a) /\ ctx = "live" /\ (destroyer # NULL => a = destroyer)
  BY JoinerIsClient DEF JoinWait
<1> PICK t \in Members : t = subject[a]
  BY JoinerIsClient DEF JoinWait
<1> PICK l \in Labels : l = IF a = destroyer THEN "destroying" ELSE "idle"
  BY DEF Labels
<1>2. at[a] = "wait" /\ info[t] = "allocated" /\ t \notin Listed
  BY <1>1 DEF JoinWait, ThreadsInv, HeldOnce
<1>3. /\ Proceed(a, l, NULL) /\ run[t] # "running"
      /\ run' = [run EXCEPT ![t] = "joined"]
      /\ UNCHANGED <<mutex, head, next, ctx, destroyer, handles>>
  BY DEF JoinWait, list
<1>4. info' = [info EXCEPT ![t] = "freed"]
  BY <1>2 DEF JoinWait
<1>5. /\ \A b \in Actors : at'[b] = IF b = a THEN l ELSE at[b]
      /\ \A b \in Actors : subject'[b] = IF b = a THEN NULL ELSE subject[b]
      /\ subject' \in [Actors -> Members \cup {NULL}]
  BY <1>3, Goes
<1>6. /\ \A u \in Members : info'[u] = IF u = t THEN "freed" ELSE info[u]
      /\ \A u \in Members : run'[u] = IF u = t THEN "joined" ELSE run[u]
  BY <1>3, <1>4 DEF ThreadsInv, MemoryTypes
<1>7. Listed' = Listed /\ ListTypes' /\ Chained'
  <2>1. Listed' = Listed
    BY <1>3 DEF Listed, ClosedUnderNext
  <2> QED
    BY <1>3, <2>1 DEF ThreadsInv, ListTypes, Chained
<1>8. MemoryTypes'
  BY <1>3, <1>4, <1>5 DEF ThreadsInv, MemoryTypes
<1>9. \A b \in Actors : Held(b)' <=> b # a /\ Held(b)
  BY <1>5 DEF Held, HeldLabels
<1>10. \A b \in Actors : b # a /\ Held(b) => subject[b] # t
  BY <1>1 DEF ThreadsInv, HeldOnce
<1>11. ThreadsOnlyWalk'
  BY <1>1, <1>3, <1>5, <1>6, ActorAssumption DEF ThreadsInv, ThreadsOnlyWalk, Actors
<1>12. HeldOnce'
  BY <1>5, <1>6, <1>7, <1>9, <1>10 DEF ThreadsInv, HeldOnce
<1>13. HandlesListed'
  BY <1>3, <1>5, <1>7, <1>9 DEF ThreadsInv, HandlesListed
<1>14. ListExact'
  <2>1. \A u \in Members : u # t => (Claimed(u)' <=> Claimed(u)) /\ (Starting(u)' <=> Starting(u))
    BY <1>2, <1>5 DEF Claimed, Starting
  <2> QED
    BY <1>2, <1>6, <1>7, <2>1 DEF ThreadsInv, ListExact
<1>15. RunMatchesInfo'
  BY <1>6 DEF ThreadsInv, RunMatchesInfo
<1>16. LockedWalkListed'
  BY <1>3, <1>5, <1>7 DEF ThreadsInv, LockedWalkListed
<1>17. DestroyAlone'
  BY <1>1, <1>3, <1>5, ActorAssumption DEF ThreadsInv, DestroyAlone, DestroyLabels, Actors
<1> QED
  BY <1>7, <1>8, <1>11, <1>12, <1>13, <1>14, <1>15, <1>16, <1>17 DEF ThreadsInv

(* DestroyCall keeps the invariant.                                           *)
LEMMA DestroyCallKeeps ==
  ASSUME ThreadsInv, LockInv', NEW a \in Actors, DestroyCall(a)
  PROVE  ThreadsInv'
<1>1. /\ a \in Outsiders /\ destroyer = NULL /\ destroyer' = a /\ \A c \in Outsiders : at[c] = "idle"
      /\ Proceed(a, "destroy", NULL) /\ UNCHANGED <<mutex, list, memory, handles>>
  BY DEF DestroyCall
<1>2. \A b \in Actors : at'[b] = IF b = a THEN "destroy" ELSE at[b]
  BY <1>1, Goes
<1>3. ctx = "live" /\ ctx' = ctx
  BY <1>1 DEF ThreadsInv, DestroyAlone, MemoryTypes, memory
<1>4. DestroyAlone'
  BY <1>1, <1>2, <1>3, ActorAssumption DEF DestroyAlone, DestroyLabels, Actors
<1>5. ~Held(a) /\ a \notin Members /\ a # NULL
  BY <1>1, ActorAssumption DEF Held, HeldLabels, Actors
<1> QED
  BY <1>1, <1>3, <1>4, <1>5, Elsewhere DEF Labels, HeldLabels, memory

(* DestroyLock keeps the invariant.                                           *)
LEMMA DestroyLockKeeps ==
  ASSUME ThreadsInv, LockInv', NEW a \in Actors, DestroyLock(a)
  PROVE  ThreadsInv'
<1>1. /\ at[a] = "destroy" /\ Acquire(a)
      /\ Proceed(a, "destroying", NULL) /\ UNCHANGED <<list, memory, destroyer, handles>>
  BY DEF DestroyLock
<1>2. \A b \in Actors : at'[b] = IF b = a THEN "destroying" ELSE at[b]
  BY <1>1, Goes
<1>3. a = destroyer /\ a \in Outsiders /\ a \notin Members /\ ~Held(a) /\ a # NULL
  BY <1>1, ActorAssumption
  DEF ThreadsInv, LockInv, DestroyLabels, Held, HeldLabels, ThreadsOnlyWalk, WalkLabels, Actors
<1>4. DestroyAlone'
  BY <1>1, <1>2, <1>3, ActorAssumption DEF ThreadsInv, DestroyAlone, DestroyLabels, Actors, memory, list
<1>5. (\A b \in Actors \ {a} : mutex'.owner = b => mutex.owner = b) /\ ctx \in {"live", "freed"}
  BY <1>1 DEF Acquire, ThreadsInv, MemoryTypes
<1> QED
  BY <1>1, <1>3, <1>4, <1>5, Elsewhere DEF Labels, HeldLabels, memory

(* DestroyFree keeps the invariant.                                           *)
LEMMA DestroyFreeKeeps ==
  ASSUME ThreadsInv, LockInv', NEW a \in Actors, DestroyFree(a)
  PROVE  ThreadsInv'
<1>1. /\ at[a] = "destroying" /\ head = NULL /\ Release(a) /\ ctx' = "freed"
      /\ Proceed(a, "destroyed", NULL) /\ UNCHANGED <<list, info, run, destroyer, handles>>
  BY DEF DestroyFree
<1>2. \A b \in Actors : at'[b] = IF b = a THEN "destroyed" ELSE at[b]
  BY <1>1, Goes
<1>3. a = destroyer /\ a \in Outsiders /\ a \notin Members /\ ~Held(a) /\ a # NULL
  BY <1>1, ActorAssumption
  DEF ThreadsInv, LockInv, DestroyLabels, Held, HeldLabels, ThreadsOnlyWalk, WalkLabels, Actors
<1>4. DestroyAlone'
  BY <1>1, <1>2, <1>3, ActorAssumption DEF ThreadsInv, DestroyAlone, DestroyLabels, Actors, list
<1>5. \A b \in Actors \ {a} : mutex'.owner = b => mutex.owner = b
  BY <1>1, ActorAssumption DEF Release
<1> QED
  BY <1>1, <1>3, <1>4, <1>5, Elsewhere DEF Labels, HeldLabels

(* A walk is of a client before the destruction, or of a running thread of    *)
(* the context; its steps change nothing but the mutex.                       *)
LEMMA WalkKeeps ==
  ASSUME ThreadsInv, LockInv', ~NestedCalls, NEW a \in Actors,
         NEW l \in {"idle", "iterate", "iterate_timed", "walk"}, NEW t \in Members \cup {NULL},
         Proceed(a, l, t), at[a] \in {"iterate", "iterate_timed", "walk"} \/ MayBegin(a),
         l = "iterate" => a \in Outsiders,
         UNCHANGED <<list, memory, destroyer, handles>>,
         l = "walk" /\ mutex'.owner = a => t \in Listed \cup {NULL},
         \A b \in Actors \ {a} : mutex'.owner = b => mutex.owner = b
  PROVE  ThreadsInv'
<1>1. \A b \in Actors : at'[b] = IF b = a THEN l ELSE at[b]
  BY Goes
<1>2. ~Held(a) /\ l \in Labels \ HeldLabels
  BY DEF Held, HeldLabels, MayBegin, Labels
<1>3. a \in Members => l \in WalkLabels /\ run[a] = "running"
  BY ActorAssumption DEF ThreadsInv, ThreadsOnlyWalk, WalkLabels, MayBegin, Actors
<1>4. a \in Outsiders => destroyer = NULL
  BY ActorAssumption DEF ThreadsInv, DestroyAlone, DestroyLabels, MayBegin
<1>5. DestroyAlone'
  BY <1>1, <1>4, ActorAssumption DEF ThreadsInv, LockInv, DestroyAlone, DestroyLabels, Actors, memory, list
<1>6. /\ ctx \in {"live", "freed"} /\ UNCHANGED <<list, info, run, handles>>
      /\ ctx' = ctx /\ destroyer' = destroyer
  BY DEF ThreadsInv, MemoryTypes, memory
<1> QED
  BY <1>2, <1>3, <1>5, <1>6, Elsewhere

(* ThreadReturns keeps the invariant.                                         *)
LEMMA ThreadReturnsKeeps ==
  ASSUME ThreadsInv, LockInv', NEW t \in Members, ThreadReturns(t)
  PROVE  ThreadsInv'
<1>1. /\ run[t] = "running" /\ at[t] = "idle" /\ run' = [run EXCEPT ![t] = "ended"]
      /\ UNCHANGED <<mutex, head, next, info, ctx, destroyer, at, subject, handles>>
  BY DEF ThreadReturns, list
<1>2. \A u \in Members : run'[u] = IF u = t THEN "ended" ELSE run[u]
  BY <1>1 DEF ThreadsInv, MemoryTypes
<1>3. Listed' = Listed /\ ListTypes' /\ Chained' /\ MemoryTypes'
  <2>1. Listed' = Listed
    BY <1>1 DEF Listed, ClosedUnderNext
  <2> QED
    BY <1>1, <2>1 DEF ThreadsInv, ListTypes, Chained, MemoryTypes
<1>4. ThreadsOnlyWalk' /\ RunMatchesInfo'
  BY <1>1, <1>2 DEF ThreadsInv, ThreadsOnlyWalk, RunMatchesInfo
<1>5. HeldOnce' /\ HandlesListed'
  BY <1>1, <1>3 DEF ThreadsInv, HeldOnce, HandlesListed, Held
<1>6. ListExact'
  BY <1>1, <1>3 DEF ThreadsInv, ListExact, Claimed, Starting
<1>7. LockedWalkListed' /\ DestroyAlone'
  BY <1>1, <1>3 DEF ThreadsInv, LockedWalkListed, DestroyAlone
<1> QED
  BY <1>3, <1>4, <1>5, <1>6, <1>7 DEF ThreadsInv

(* Every step keeps the invariant.                                            *)
LEMMA ThreadsNext == ~NestedCalls /\ ThreadsInv /\ [ThreadNext]_threadVars => ThreadsInv'
<1> SUFFICES ASSUME ~NestedCalls, ThreadsInv, [ThreadNext]_threadVars PROVE ThreadsInv'
  OBVIOUS
<1>0. LockInv'
  BY LockNext DEF ThreadsInv
<1>1. ASSUME NEW a \in Actors, CreateCall(a) PROVE ThreadsInv'
  <2>1. at[a] = "idle" /\ Proceed(a, "create", NULL) /\ UNCHANGED <<mutex, list, memory, destroyer, handles>>
    BY <1>1 DEF CreateCall, MayManage, MayBegin
  <2>2. a \in Outsiders /\ destroyer = NULL /\ ctx = "live"
    BY <1>1, ManagerIsClient DEF CreateCall
  <2>3. ~Held(a) /\ a \notin Members /\ "create" \in Labels \ HeldLabels
    BY <2>1, <2>2, ActorAssumption DEF Held, HeldLabels, Labels
  <2>4. DestroyAlone'
    BY <2>1, <2>2 DEF DestroyAlone, memory
  <2> QED
    BY <1>0, <2>1, <2>2, <2>3, <2>4, Elsewhere DEF memory
<1>2. ASSUME NEW a \in Actors, NEW t \in Members, CreateStart(a, t) PROVE ThreadsInv'
  BY <1>0, <1>2, CreateStartKeeps
<1>3. ASSUME NEW a \in Actors, CreateFails(a) PROVE ThreadsInv'
  <2>1. at[a] = "create" /\ Proceed(a, "idle", NULL) /\ UNCHANGED <<mutex, list, memory, destroyer, handles>>
    BY <1>3 DEF CreateFails
  <2>2. a \in Outsiders /\ destroyer = NULL /\ ctx = "live"
    BY <2>1, ManagerIsClient
  <2>3. ~Held(a) /\ a \notin Members /\ "idle" \in Labels \ HeldLabels
    BY <2>1, <2>2, ActorAssumption DEF Held, HeldLabels, Labels
  <2>4. DestroyAlone'
    BY <2>1, <2>2 DEF DestroyAlone, memory
  <2> QED
    BY <1>0, <2>1, <2>2, <2>3, <2>4, Elsewhere DEF memory
<1>4. ASSUME NEW a \in Actors, CreateEnlist(a) PROVE ThreadsInv'
  BY <1>0, <1>4, CreateEnlistKeeps
<1>5. ASSUME NEW a \in Actors, NEW t \in Members, JoinCall(a, t) PROVE ThreadsInv'
  BY <1>0, <1>5, JoinCallKeeps
<1>6. ASSUME NEW a \in Actors, JoinUnlink(a) PROVE ThreadsInv'
  BY <1>0, <1>6, JoinUnlinkKeeps
<1>7. ASSUME NEW a \in Actors, JoinWait(a) PROVE ThreadsInv'
  BY <1>0, <1>7, JoinWaitKeeps
<1>8. ASSUME NEW a \in Actors, DestroyCall(a) PROVE ThreadsInv'
  BY <1>0, <1>8, DestroyCallKeeps
<1>9. ASSUME NEW a \in Actors, DestroyLock(a) PROVE ThreadsInv'
  BY <1>0, <1>9, DestroyLockKeeps
<1>10. ASSUME NEW a \in Actors, DestroyJoin(a) PROVE ThreadsInv'
  BY <1>0, <1>10, DestroyJoinKeeps
<1>11. ASSUME NEW a \in Actors, DestroyFree(a) PROVE ThreadsInv'
  BY <1>0, <1>11, DestroyFreeKeeps
<1>12. ASSUME NEW a \in Actors, NEW timed \in BOOLEAN, IterateCall(a, timed) PROVE ThreadsInv'
  <2>1. PICK l \in {"iterate", "iterate_timed"} :
          Proceed(a, l, NULL) /\ (l = "iterate" => a \in Outsiders)
    BY <1>12 DEF IterateCall
  <2>2. MayBegin(a) /\ UNCHANGED <<mutex, list, memory, destroyer, handles>>
    BY <1>12 DEF IterateCall
  <2> QED
    BY <1>0, <2>1, <2>2, WalkKeeps
<1>13. ASSUME NEW a \in Actors, IterateLock(a) PROVE ThreadsInv'
  <2>1. head \in Listed \cup {NULL} /\ head \in Members \cup {NULL}
    BY ListedClosed DEF ThreadsInv, ListTypes
  <2>2. /\ at[a] \in {"iterate", "iterate_timed"} /\ Proceed(a, "walk", head)
        /\ UNCHANGED <<list, memory, destroyer, handles>>
        /\ \A b \in Actors \ {a} : mutex'.owner = b => mutex.owner = b
    BY <1>13 DEF IterateLock, Acquire
  <2> QED
    BY <1>0, <2>1, <2>2, WalkKeeps
<1>14. ASSUME NEW a \in Actors, IterateTimeout(a) PROVE ThreadsInv'
  <2>1. head \in Listed \cup {NULL} /\ head \in Members \cup {NULL}
    BY ListedClosed DEF ThreadsInv, ListTypes
  <2>2. at[a] = "iterate_timed" /\ Proceed(a, "walk", head) /\ UNCHANGED <<mutex, list, memory, destroyer, handles>>
    BY <1>14 DEF IterateTimeout
  <2> QED
    BY <1>0, <2>1, <2>2, WalkKeeps
<1>15. ASSUME NEW a \in Actors, IterateStep(a) PROVE ThreadsInv'
  <2>1. at[a] = "walk" /\ subject[a] \in Members /\ UNCHANGED <<mutex, list, memory, destroyer, handles>>
    BY <1>15 DEF IterateStep, ThreadsInv, MemoryTypes
  <2>2. PICK n \in {next[subject[a]], NULL} :
          Proceed(a, "walk", n) /\ (info[subject[a]] = "allocated" => n = next[subject[a]])
    BY <1>15 DEF IterateStep
  <2>3. n \in Members \cup {NULL}
    BY <2>1 DEF ThreadsInv, ListTypes
  <2>4. mutex.owner = a => n \in Listed \cup {NULL}
    <3>1. mutex.owner = a => subject[a] \in Listed
      BY <2>1, ActorAssumption DEF ThreadsInv, LockedWalkListed, Actors
    <3> QED
      BY <2>2, <3>1, ListedClosed DEF ThreadsInv
  <2> QED
    BY <1>0, <2>1, <2>2, <2>3, <2>4, WalkKeeps
<1>16. ASSUME NEW a \in Actors, IterateEnd(a) PROVE ThreadsInv'
  <2>1. /\ at[a] = "walk" /\ Proceed(a, "idle", NULL) /\ UNCHANGED <<list, memory, destroyer, handles>>
        /\ \A b \in Actors \ {a} : mutex'.owner = b => mutex.owner = b
    BY <1>16, ActorAssumption DEF IterateEnd, Release
  <2> QED
    BY <1>0, <2>1, WalkKeeps
<1>17. ASSUME NEW t \in Members, ThreadReturns(t) PROVE ThreadsInv'
  BY <1>0, <1>17, ThreadReturnsKeeps
<1>18. CASE UNCHANGED threadVars
  <2>1. UNCHANGED <<head, next, info, run, ctx, destroyer, at, subject, handles, mutex>>
    BY <1>18 DEF threadVars, list, memory
  <2>2. Listed' = Listed
    BY <2>1 DEF Listed, ClosedUnderNext
  <2> QED
    BY <1>0, <2>1, <2>2 DEF ThreadsInv, ListTypes, Chained, MemoryTypes, ThreadsOnlyWalk, HeldOnce, Held,
       HandlesListed, ListExact, Claimed, Starting, RunMatchesInfo, LockedWalkListed, DestroyAlone
<1> QED
  BY <1>1, <1>2, <1>3, <1>4, <1>5, <1>6, <1>7, <1>8, <1>9, <1>10, <1>11, <1>12, <1>13,
     <1>14, <1>15, <1>16, <1>17, <1>18 DEF ThreadNext, Inside, Call

(* What the invariant says of the four properties.                            *)
LEMMA ThreadsSafe ==
  ASSUME ThreadsInv
  PROVE  ListExact /\ JoinedOnce /\ LockedWalkLive /\ DestroyLeavesNothing
<1>1. ListExact
  BY DEF ThreadsInv
<1>2. JoinedOnce
  BY DEF ThreadsInv, JoinedOnce, RunMatchesInfo, HeldOnce, Held, HeldLabels
<1>3. LockedWalkLive
  BY DEF ThreadsInv, LockedWalkLive, LockedWalkListed, ListExact, ListTypes, Listed
<1>4. DestroyLeavesNothing
  <2>1. SUFFICES ASSUME ctx = "freed" PROVE DestroyLeavesNothing
    BY DEF DestroyLeavesNothing
  <2>2. destroyer # NULL /\ at[destroyer] = "destroyed" /\ head = NULL
    BY <2>1 DEF ThreadsInv, DestroyAlone
  <2>3. \A c \in Outsiders : at[c] \in {"idle", "destroyed"}
    BY <2>2 DEF ThreadsInv, DestroyAlone
  <2>4. Listed = {}
    <3>1. ClosedUnderNext({})
      BY <2>2 DEF ClosedUnderNext
    <3> QED
      BY <3>1, ListedLeast
  <2>5. \A t \in Members : ~Claimed(t) /\ ~Starting(t)
    BY <2>3 DEF ThreadsInv, ThreadsOnlyWalk, WalkLabels, Claimed, Starting, Actors
  <2>6. \A t \in Members : run[t] \in {"none", "joined"}
    BY <2>4, <2>5 DEF ThreadsInv, ListExact, RunMatchesInfo, MemoryTypes
  <2>7. \A a \in Actors : at[a] \in {"idle", "destroyed"}
    BY <2>3, <2>6 DEF ThreadsInv, ThreadsOnlyWalk, Actors
  <2>8. mutex.depth = 0
    BY <2>7 DEF ThreadsInv, LockInv, SectionsExclusive, InSection
  <2> QED
    BY <2>6, <2>7, <2>8 DEF DestroyLeavesNothing
<1> QED
  BY <1>1, <1>2, <1>3, <1>4

(* As long as the threads of the context manage no threads themselves, the    *)
(* invariant and with it the four properties hold for any number of clients   *)
(* and threads.                                                               *)
LEMMA ThreadsSafety ==
  ASSUME ~NestedCalls
  PROVE  ThreadSpec => [](ListExact /\ JoinedOnce /\ LockedWalkLive /\ DestroyLeavesNothing)
<1>1. ThreadsInv /\ [ThreadNext]_threadVars => ThreadsInv'
  BY ThreadsNext
<1>2. ThreadsInv => ListExact /\ JoinedOnce /\ LockedWalkLive /\ DestroyLeavesNothing
  BY ThreadsSafe
<1> QED
  BY ThreadsInitially, <1>1, <1>2, PTL DEF ThreadSpec

(* The list holds exactly the threads that nobody joined or is joining, in    *)
(* whatever order they are created and joined (thread.c:240).                 *)
THEOREM ListCorrectness == ASSUME ~NestedCalls PROVE ThreadSpec => []ListExact
BY ThreadsSafety, PTL

(* Each thread is joined by one caller, and its nl_thread freed once, after   *)
(* the join (thread.c:261).                                                   *)
THEOREM JoinCorrectness == ASSUME ~NestedCalls PROVE ThreadSpec => []JoinedOnce
BY ThreadsSafety, PTL

(* A walk that has the mutex meets no freed entry (thread.c:352).             *)
THEOREM WalkCorrectness == ASSUME ~NestedCalls PROVE ThreadSpec => []LockedWalkLive
BY ThreadsSafety, PTL

(* Freeing the context leaves none of its threads, and nobody in a call on it *)
(* (thread.c:112).                                                            *)
THEOREM DestroyCorrectness == ASSUME ~NestedCalls PROVE ThreadSpec => []DestroyLeavesNothing
BY ThreadsSafety, PTL
=============================================================================
