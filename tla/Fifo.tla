-------------------------------- MODULE Fifo --------------------------------
(***************************************************************************)
(* The linked list of src/fifo.c at the level of its pointers: list heads, *)
(* elements that are allocated and freed, loops one element at a time, and *)
(* one iterator of the caller that stays open while the list changes.      *)
(*                                                                         *)
(* `nodes' is a history variable: what the comments of fifo.h promise each *)
(* list to contain.  It changes when a call completes; ListInv says that   *)
(* the pointers spell it.                                                  *)
(***************************************************************************)
EXTENDS Integers, Sequences

CONSTANTS Lists,     \* struct nl_fifo objects
          Elements,  \* addresses malloc() may return for an element
          Data,      \* what callers store
          NULL,
          MaxArgument  \* bound on the numbers passed to remove_start and remove_end

ASSUME NullAssumption == NULL \notin Elements /\ NULL \notin Data /\ NULL \notin Lists
ASSUME MaxArgumentAssumption == MaxArgument \in Nat

VARIABLES first, last, count,          \* struct nl_fifo
          next, data, owner,           \* struct nl_fifo_element: next, data, l
          allocated,                   \* elements not yet freed
          call,                        \* the call that runs, and its parameters
          cur, prev, pos,              \* loop locals; cur is node number pos
          iter, iterList, iterState,   \* an iterator of the caller
          nodes,                       \* history: the promised content
          atStart, seen                \* history of the iteration

heads == <<first, last, count>>
heap == <<next, data, owner, allocated>>
callVars == <<call, cur, prev, pos>>
iteration == <<iter, iterList, iterState, atStart, seen>>
fifoVars == <<heads, heap, callVars, nodes, iteration>>

Ops == {"idle", "remove", "start", "destroy", "endwalk", "endfree", "concatstart", "concatend"}
Idle == [op |-> "idle", list |-> NULL, dest |-> NULL, n |-> 0, freeing |-> 0,
         data |-> NULL, first |-> NULL, last |-> NULL]
idle == call.op = "idle"

NodeAt(l, i) == IF i \in 1..Len(nodes[l]) THEN nodes[l][i] ELSE NULL
Members(l) == {nodes[l][i] : i \in 1..Len(nodes[l])}

FifoInit ==
  /\ first = [l \in Lists |-> NULL] /\ last = [l \in Lists |-> NULL]
  /\ count = [l \in Lists |-> 0]
  /\ next = [e \in Elements |-> NULL] /\ data = [e \in Elements |-> NULL]
  /\ owner = [e \in Elements |-> NULL] /\ allocated = {}
  /\ call = Idle /\ cur = NULL /\ prev = NULL /\ pos = 0
  /\ nodes = [l \in Lists |-> <<>>]
  /\ iter = NULL /\ iterList = NULL /\ iterState = "closed"
  /\ atStart = {} /\ seen = {}

-----------------------------------------------------------------------------
(* The iterator of the caller is done with: why, is all that is kept.        *)
IterClose(state) ==
  /\ iterState' = state /\ iter' = NULL /\ iterList' = NULL
  /\ atStart' = {} /\ seen' = {}

(* Memory.  The content of freed memory is of no consequence: every element *)
(* that is read is allocated (ListInv), so it is wiped.                      *)

Alloc(e, l, d) ==
  /\ e \notin allocated
  /\ allocated' = allocated \cup {e}
  /\ data' = [data EXCEPT ![e] = d]
  /\ owner' = [owner EXCEPT ![e] = l]

(* free(e), and a caller that does not use an iterator to a freed element,   *)
(* as the comment of nl_fifo_next() asks.                                    *)
Free(e) ==
  /\ allocated' = allocated \ {e}
  /\ data' = [data EXCEPT ![e] = NULL]
  /\ owner' = [owner EXCEPT ![e] = NULL]
  /\ IF iter = e
     THEN IterClose("closed")
     ELSE /\ atStart' = atStart \ {e} /\ seen' = seen \ {e}
          /\ UNCHANGED <<iter, iterList, iterState>>

CallEnds == /\ call' = Idle /\ cur' = NULL /\ prev' = NULL /\ pos' = 0

-----------------------------------------------------------------------------
(* Calls without a loop.                                                     *)

Put(l, d, e) ==
  /\ idle /\ Alloc(e, l, d)
  /\ IF count[l] = 0
     THEN /\ first' = [first EXCEPT ![l] = e]
          /\ next' = [next EXCEPT ![e] = NULL]
     ELSE /\ next' = [next EXCEPT ![e] = NULL, ![last[l]] = e]
          /\ UNCHANGED first
  /\ last' = [last EXCEPT ![l] = e]
  /\ count' = [count EXCEPT ![l] = @ + 1]
  /\ nodes' = [nodes EXCEPT ![l] = Append(@, e)]
  /\ UNCHANGED <<callVars, iteration>>

Prepend(l, d, e) ==
  /\ idle /\ Alloc(e, l, d)
  /\ next' = [next EXCEPT ![e] = IF count[l] = 0 THEN NULL ELSE first[l]]
  /\ first' = [first EXCEPT ![l] = e]
  /\ last' = IF count[l] = 0 THEN [last EXCEPT ![l] = e] ELSE last
  /\ count' = [count EXCEPT ![l] = @ + 1]
  /\ nodes' = [nodes EXCEPT ![l] = <<e>> \o @]
  /\ UNCHANGED <<callVars, iteration>>

GetUnchecked(l) ==
  /\ idle
  /\ IF first[l] = NULL
     THEN UNCHANGED <<first, last, heap, iteration, nodes>>
     ELSE /\ first' = [first EXCEPT ![l] = next[first[l]]]
          /\ last' = IF next[first[l]] = NULL THEN [last EXCEPT ![l] = NULL] ELSE last
          /\ Free(first[l])
          /\ next' = [next EXCEPT ![first[l]] = NULL]
          /\ nodes' = [nodes EXCEPT ![l] = Tail(@)]
  /\ count' = [count EXCEPT ![l] = @ - 1]
  /\ UNCHANGED callVars

Get(l) ==
  /\ idle /\ count[l] > 0
  /\ LET e == first[l] IN
     /\ first' = [first EXCEPT ![l] = next[e]]
     /\ last' = IF next[e] = NULL THEN [last EXCEPT ![l] = NULL] ELSE last
     /\ Free(e)
     /\ next' = [next EXCEPT ![e] = NULL]
  /\ count' = [count EXCEPT ![l] = @ - 1]
  /\ nodes' = [nodes EXCEPT ![l] = Tail(@)]
  /\ UNCHANGED callVars

(* nl_fifo_peek_index(): the index is normalised, then nl_fifo_next() is     *)
(* called that many times from a fresh iterator, and once more.              *)
Walked(l, n) ==
  LET walk[i \in 0..n] == IF i = 0 THEN first[l] ELSE next[walk[i - 1]] IN walk[n]

PeekIndexWrapped(l, index) ==
  LET normalized == IF index < 0 THEN index + count[l] + 1 ELSE index
  IN  IF count[l] = 0 \/ normalized < 0 \/ normalized >= count[l]
      THEN NULL ELSE data[Walked(l, normalized)]

PeekIndex(l, index) ==
  LET normalized == IF index < 0 THEN index + count[l] ELSE index
  IN  IF count[l] = 0 \/ normalized < 0 \/ normalized >= count[l]
      THEN NULL ELSE data[Walked(l, normalized)]

-----------------------------------------------------------------------------
(* nl_fifo_remove(): prev and cur walk until the data is found.              *)

RemoveBegin(l, d) ==
  /\ idle /\ count[l] > 0
  /\ call' = [Idle EXCEPT !.op = "remove", !.list = l, !.data = d]
  /\ cur' = first[l] /\ prev' = NULL /\ pos' = 1
  /\ UNCHANGED <<heads, heap, nodes, iteration>>

RemoveStep ==
  /\ call.op = "remove" /\ cur # NULL /\ data[cur] # call.data
  /\ prev' = cur /\ cur' = next[cur] /\ pos' = pos + 1
  /\ UNCHANGED <<heads, heap, call, nodes, iteration>>

RemoveHitKeepLast ==
  LET l == call.list IN
  /\ call.op = "remove" /\ cur # NULL /\ data[cur] = call.data
  /\ IF prev # NULL
     THEN next' = [next EXCEPT ![prev] = next[cur], ![cur] = NULL] /\ UNCHANGED first
     ELSE next' = [next EXCEPT ![cur] = NULL] /\ first' = [first EXCEPT ![l] = next[cur]]
  /\ UNCHANGED last
  /\ count' = [count EXCEPT ![l] = @ - 1]
  /\ Free(cur) /\ CallEnds
  /\ nodes' = [nodes EXCEPT ![l] = SubSeq(@, 1, pos - 1) \o SubSeq(@, pos + 1, Len(@))]

RemoveHit ==
  LET l == call.list IN
  /\ call.op = "remove" /\ cur # NULL /\ data[cur] = call.data
  /\ IF prev # NULL
     THEN next' = [next EXCEPT ![prev] = next[cur], ![cur] = NULL] /\ UNCHANGED first
     ELSE next' = [next EXCEPT ![cur] = NULL] /\ first' = [first EXCEPT ![l] = next[cur]]
  /\ last' = IF last[l] = cur THEN [last EXCEPT ![l] = prev] ELSE last
  /\ count' = [count EXCEPT ![l] = @ - 1]
  /\ Free(cur) /\ CallEnds
  /\ nodes' = [nodes EXCEPT ![l] = SubSeq(@, 1, pos - 1) \o SubSeq(@, pos + 1, Len(@))]

RemoveMiss ==
  /\ call.op = "remove" /\ cur = NULL
  /\ CallEnds
  /\ UNCHANGED <<heads, heap, nodes, iteration>>

-----------------------------------------------------------------------------
(* nl_fifo_remove_start(), and nl_fifo_clear() which calls it with the count. *)
(* pos counts the loop: i of the code is pos - 1.                             *)

RemoveStartBegin(l, n) ==
  /\ idle
  /\ call' = [Idle EXCEPT !.op = "start", !.list = l, !.n = n]
  /\ cur' = first[l] /\ prev' = NULL /\ pos' = 1
  /\ UNCHANGED <<heads, heap, nodes, iteration>>

(* The body shared by the loops that free: next is read, the callback gets    *)
(* the data, the element is freed.                                            *)
FreeCur ==
  /\ Free(cur)
  /\ next' = [next EXCEPT ![cur] = NULL]
  /\ cur' = next[cur] /\ pos' = pos + 1

RemoveStartStep ==
  /\ call.op = "start" /\ pos - 1 < call.n /\ cur # NULL
  /\ FreeCur
  /\ count' = [count EXCEPT ![call.list] = @ - 1]
  /\ UNCHANGED <<first, last, prev, call, nodes>>

RemoveStartEnd ==
  LET l == call.list IN
  /\ call.op = "start" /\ (pos - 1 >= call.n \/ cur = NULL)
  /\ first' = [first EXCEPT ![l] = cur]
  /\ last' = IF cur = NULL THEN [last EXCEPT ![l] = NULL] ELSE last
  /\ CallEnds
  /\ nodes' = [nodes EXCEPT ![l] = SubSeq(@, call.n + 1, Len(@))]
  /\ UNCHANGED <<count, heap, iteration>>

-----------------------------------------------------------------------------
(* nl_fifo_destroy(), then nl_fifo_create() at the same address.              *)

DestroyBegin(l) ==
  /\ idle
  /\ call' = [Idle EXCEPT !.op = "destroy", !.list = l]
  /\ cur' = first[l] /\ prev' = NULL /\ pos' = 1
  /\ UNCHANGED <<heads, heap, nodes, iteration>>

DestroyStep ==
  /\ call.op = "destroy" /\ cur # NULL
  /\ FreeCur
  /\ UNCHANGED <<heads, prev, call, nodes>>

DestroyEnd ==
  LET l == call.list IN
  /\ call.op = "destroy" /\ cur = NULL
  /\ first' = [first EXCEPT ![l] = NULL] /\ last' = [last EXCEPT ![l] = NULL]
  /\ count' = [count EXCEPT ![l] = 0]
  /\ CallEnds
  /\ nodes' = [nodes EXCEPT ![l] = <<>>]
  /\ UNCHANGED <<heap, iteration>>

-----------------------------------------------------------------------------
(* nl_fifo_remove_end(): everything goes by way of nl_fifo_clear_cb(), less   *)
(* than everything by a walk to the first element to free and a loop there.   *)
(* start_offset is call.n, the parameter count is call.freeing.               *)

RemoveEndBegin(l, n) ==
  /\ idle
  /\ call' = IF n >= count[l]
             THEN [Idle EXCEPT !.op = "start", !.list = l, !.n = count[l]]
             ELSE [Idle EXCEPT !.op = "endwalk", !.list = l, !.n = count[l] - n, !.freeing = n]
  /\ cur' = first[l] /\ prev' = NULL /\ pos' = 1
  /\ UNCHANGED <<heads, heap, nodes, iteration>>

RemoveEndWalk ==
  /\ call.op = "endwalk" /\ pos - 1 < call.n
  /\ prev' = cur /\ cur' = next[cur] /\ pos' = pos + 1
  /\ UNCHANGED <<heads, heap, call, nodes, iteration>>

RemoveEndFound ==
  /\ call.op = "endwalk" /\ pos - 1 >= call.n
  /\ call' = [call EXCEPT !.op = "endfree"]
  /\ UNCHANGED <<heads, heap, cur, prev, pos, nodes, iteration>>

RemoveEndStep ==
  /\ call.op = "endfree" /\ pos - 1 < call.n + call.freeing /\ cur # NULL
  /\ FreeCur
  /\ count' = [count EXCEPT ![call.list] = @ - 1]
  /\ UNCHANGED <<first, last, prev, call, nodes>>

RemoveEndFinish ==
  LET l == call.list IN
  /\ call.op = "endfree" /\ (pos - 1 >= call.n + call.freeing \/ cur = NULL)
  /\ last' = [last EXCEPT ![l] = prev]
  /\ next' = [next EXCEPT ![prev] = NULL]
  /\ CallEnds
  /\ nodes' = [nodes EXCEPT ![l] = SubSeq(@, 1, call.n)]
  /\ UNCHANGED <<first, count, data, owner, allocated, iteration>>

-----------------------------------------------------------------------------
(* nl_fifo_concat_start() and nl_fifo_concat_end(): the source is emptied,    *)
(* its elements are given their new owner one by one, then linked.            *)

ConcatBegin(op, src, dest) ==
  /\ idle /\ src # dest
  /\ call' = [Idle EXCEPT !.op = op, !.list = src, !.dest = dest,
                          !.first = first[src], !.last = last[src]]
  /\ first' = [first EXCEPT ![src] = NULL] /\ last' = [last EXCEPT ![src] = NULL]
  /\ cur' = first[src] /\ prev' = NULL /\ pos' = 1
  /\ UNCHANGED <<count, heap, nodes, iteration>>

ConcatRelabelNothing ==
  /\ call.op \in {"concatstart", "concatend"} /\ cur # NULL
  /\ cur' = next[cur] /\ pos' = pos + 1
  /\ UNCHANGED <<heads, heap, call, prev, nodes, iteration>>

ConcatRelabel ==
  /\ call.op \in {"concatstart", "concatend"} /\ cur # NULL
  /\ owner' = [owner EXCEPT ![cur] = call.dest]
  /\ cur' = next[cur] /\ pos' = pos + 1
  /\ UNCHANGED <<heads, next, data, allocated, call, prev, nodes, iteration>>

Emptied(src, dest) ==
  /\ count' = [count EXCEPT ![dest] = @ + count[src], ![src] = 0]
  /\ CallEnds
  /\ atStart' = IF src = iterList THEN {} ELSE atStart
  /\ UNCHANGED <<data, owner, allocated, iter, iterList, iterState, seen>>

ConcatStartFinish ==
  LET src == call.list
      dest == call.dest IN
  /\ call.op = "concatstart" /\ cur = NULL
  /\ IF count[src] > 0
     THEN /\ next' = [next EXCEPT ![call.last] = first[dest]]
          /\ first' = [first EXCEPT ![dest] = call.first]
          /\ last' = IF count[dest] = 0 THEN [last EXCEPT ![dest] = call.last] ELSE last
     ELSE UNCHANGED <<next, first, last>>
  /\ nodes' = [nodes EXCEPT ![dest] = nodes[src] \o @, ![src] = <<>>]
  /\ Emptied(src, dest)

ConcatEndFinish ==
  LET src == call.list
      dest == call.dest IN
  /\ call.op = "concatend" /\ cur = NULL
  /\ IF count[src] > 0
     THEN /\ IF last[dest] # NULL
             THEN next' = [next EXCEPT ![last[dest]] = call.first] /\ UNCHANGED first
             ELSE first' = [first EXCEPT ![dest] = call.first] /\ UNCHANGED next
          /\ last' = [last EXCEPT ![dest] = call.last]
     ELSE UNCHANGED <<next, first, last>>
  /\ nodes' = [nodes EXCEPT ![dest] = @ \o nodes[src], ![src] = <<>>]
  /\ Emptied(src, dest)

-----------------------------------------------------------------------------
(* nl_fifo_next().  A caller sets its iterator to NULL when it pleases.       *)

IterOpen(l) ==
  /\ idle
  /\ iterState' = "open" /\ iterList' = l /\ iter' = NULL
  /\ atStart' = Members(l) /\ seen' = {}
  /\ UNCHANGED <<heads, heap, callVars, nodes>>

NextElementSecond ==
  IF iter # NULL THEN next[iter]
  ELSE IF count[iterList] = 0 THEN NULL ELSE next[first[iterList]]
NextElement == IF iter = NULL THEN first[iterList] ELSE next[iter]
ForeignIterator == iter # NULL /\ owner[iter] # iterList

IterError ==
  /\ idle /\ iterState = "open" /\ ForeignIterator
  /\ IterClose("error")
  /\ UNCHANGED <<heads, heap, callVars, nodes>>

IterEnd ==
  /\ idle /\ iterState = "open" /\ ~ForeignIterator
  /\ count[iterList] = 0 \/ NextElement = NULL
  /\ IterClose("ended")
  /\ UNCHANGED <<heads, heap, callVars, nodes>>

IterNext ==
  /\ idle /\ iterState = "open" /\ ~ForeignIterator
  /\ count[iterList] > 0 /\ NextElement # NULL
  /\ iter' = NextElement
  /\ seen' = seen \cup {NextElement}
  /\ UNCHANGED <<heads, heap, callVars, nodes, iterList, iterState, atStart>>

-----------------------------------------------------------------------------
FifoNext ==
  \/ \E l \in Lists, d \in Data, e \in Elements : Put(l, d, e) \/ Prepend(l, d, e)
  \/ \E l \in Lists : Get(l) \/ DestroyBegin(l)
  \/ \E l \in Lists, d \in Data : RemoveBegin(l, d)
  \/ RemoveStep \/ RemoveHit \/ RemoveMiss
  \/ \E l \in Lists, n \in 0..MaxArgument :
        RemoveStartBegin(l, n) \/ RemoveEndBegin(l, n)
  \/ RemoveStartStep \/ RemoveStartEnd
  \/ DestroyStep \/ DestroyEnd
  \/ RemoveEndWalk \/ RemoveEndFound \/ RemoveEndStep \/ RemoveEndFinish
  \/ \E src, dest \in Lists, op \in {"concatstart", "concatend"} : ConcatBegin(op, src, dest)
  \/ ConcatRelabel \/ ConcatStartFinish \/ ConcatEndFinish
  \/ \E l \in Lists : IterOpen(l)
  \/ IterError \/ IterEnd \/ IterNext

FifoSpec == FifoInit /\ [][FifoNext]_fifoVars

-----------------------------------------------------------------------------
(* Properties.                                                               *)

HeadTypes ==
  /\ first \in [Lists -> Elements \cup {NULL}]
  /\ last \in [Lists -> Elements \cup {NULL}]
  /\ count \in [Lists -> Nat]
  /\ nodes \in [Lists -> Seq(Elements)]

HeapTypes ==
  /\ next \in [Elements -> Elements \cup {NULL}]
  /\ data \in [Elements -> Data \cup {NULL}]
  /\ owner \in [Elements -> Lists \cup {NULL}]
  /\ allocated \in SUBSET Elements

LoopTypes ==
  /\ call \in [op : Ops, list : Lists \cup {NULL}, dest : Lists \cup {NULL}, n : Nat,
               freeing : Nat, data : Data \cup {NULL}, first : Elements \cup {NULL}, last : Elements \cup {NULL}]
  /\ cur \in Elements \cup {NULL} /\ prev \in Elements \cup {NULL} /\ pos \in Nat

(* An iterator that is open points to an element that was not freed. *)
IterTypes ==
  /\ iterState \in {"closed", "open", "ended", "error"}
  /\ iterList \in IF iterState = "open" THEN Lists ELSE {NULL}
  /\ iter \in IF iterState = "open" THEN allocated \cup {NULL} ELSE {NULL}
  /\ atStart \subseteq allocated /\ seen \subseteq allocated

(* Every variable keeps its type; no count of fifo.c goes below zero. *)
FifoTypeOK == HeadTypes /\ HeapTypes /\ LoopTypes /\ IterTypes

(* Which nodes of a list a running call has already freed. *)
Freed(l, i) ==
  /\ call.list = l
  /\ \/ call.op \in {"start", "destroy"} /\ i < pos
     \/ call.op = "endfree" /\ call.n < i /\ i < pos

Live(l) == {i \in 1..Len(nodes[l]) : ~Freed(l, i)}
Moving(l) == call.op \in {"concatstart", "concatend"} /\ call.list = l

(* No element is in two places. *)
Distinct ==
  \A l, m \in Lists : \A i \in 1..Len(nodes[l]), j \in 1..Len(nodes[m]) :
     nodes[l][i] = nodes[m][j] => l = m /\ i = j

(* The elements that are allocated are those of the lists: nothing leaks, and *)
(* nothing that is listed was freed.                                          *)
Accounted ==
  \A e \in Elements :
     e \in allocated <=> \E l \in Lists : \E i \in Live(l) : nodes[l][i] = e

(* Each element that is left points to the one promised next to it, and knows *)
(* its list.                                                                  *)
Chained ==
  \A l \in Lists : \A i \in Live(l) :
     /\ next[nodes[l][i]] = NodeAt(l, i + 1)
     /\ data[nodes[l][i]] \in Data
     /\ owner[nodes[l][i]] = IF Moving(l) /\ i < pos THEN call.dest ELSE l

(* The heads: a list being moved has given its own to the call.               *)
HeadsOK ==
  \A l \in Lists :
     /\ first[l] = IF Moving(l) THEN NULL ELSE NodeAt(l, 1)
     /\ last[l] = IF Moving(l) THEN NULL ELSE NodeAt(l, Len(nodes[l]))
     /\ count[l] = IF call.list = l /\ call.op \in {"start", "endfree"}
                   THEN IF call.op = "start" THEN Len(nodes[l]) - (pos - 1)
                        ELSE Len(nodes[l]) - (pos - 1) + call.n
                   ELSE Len(nodes[l])

(* The loop in progress stands where its locals say.                          *)
LoopOK ==
  LET l == call.list IN
  IF idle THEN cur = NULL /\ prev = NULL /\ pos = 0 /\ l = NULL
  ELSE /\ l \in Lists /\ pos \in 1..(Len(nodes[l]) + 1)
       /\ cur = NodeAt(l, pos)
       /\ call.op = "remove" =>
             /\ prev = NodeAt(l, pos - 1)
             /\ \A i \in 1..(pos - 1) : data[nodes[l][i]] # call.data
       /\ call.op = "start" => pos - 1 <= call.n
       /\ call.op \in {"endwalk", "endfree"} => call.n + call.freeing = Len(nodes[l])
       /\ call.op = "endwalk" => /\ call.n \in 1..Len(nodes[l]) /\ pos - 1 <= call.n
                                /\ prev = NodeAt(l, pos - 1)
       /\ call.op = "endfree" => /\ call.n \in 1..Len(nodes[l]) /\ call.n < pos
                                /\ prev = NodeAt(l, call.n)
       /\ Moving(l) => /\ call.dest \in Lists \ {l}
                       /\ call.first = NodeAt(l, 1)
                       /\ call.last = NodeAt(l, Len(nodes[l]))

(* Whatever calls ran, and at every turn of their loops, the pointers spell   *)
(* the content the comments of fifo.h promise (fifo.c): remove takes the      *)
(* first instance, remove_start and remove_end their share, concatenation     *)
(* keeps the order of both lists.                                             *)
ListInv == Distinct /\ Accounted /\ Chained /\ HeadsOK /\ LoopOK

(* nl_fifo_peek_index() finds the element at any index, from either end, and  *)
(* refuses every index out of range (fifo.c:233).                             *)
QueriesAgree ==
  idle => \A l \in Lists :
    LET n == Len(nodes[l]) IN
    \A index \in (-(n + 2))..(n + 2) :
      PeekIndex(l, index) =
        IF index \in 0..(n - 1) THEN data[nodes[l][index + 1]]
        ELSE IF index \in (-n)..(-1) THEN data[nodes[l][n + index + 1]]
        ELSE NULL

(* An iteration that reaches the end has returned every element that has been *)
(* in the list ever since it began, whatever was removed, added or moved in    *)
(* between (fifo.c:283).                                                       *)
IterComplete ==
  [][iterState = "open" /\ iterState' = "ended" =>
       atStart \cap Members(iterList) \subseteq seen]_fifoVars

(* nl_fifo_next() never returns an element twice in one iteration, nor an     *)
(* element that is by then in another list (fifo.c:317).                      *)
IterFresh ==
  [][iter' # iter /\ iter' # NULL => iter' \notin seen /\ iter' \in Members(iterList)]_fifoVars
=============================================================================
