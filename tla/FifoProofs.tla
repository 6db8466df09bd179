----------------------------- MODULE FifoProofs -----------------------------
(***************************************************************************)
(* Proof that Fifo keeps ListInv, and that its iterator keeps its promise, *)
(* for any number of lists and elements.                                   *)
(*                                                                         *)
(* Inv, the types and ListInv, is inductive as it stands: ListInv already  *)
(* says where a running loop is and what it has freed or relabelled.  Its  *)
(* two hard cases have a lemma each that several calls use: UnlinkKeeps, a *)
(* node leaves the list, and JoinKeeps, two lists become one; TrimKeeps is *)
(* the end of a loop that freed a run of nodes.  Between two calls ListInv *)
(* is Plain, which most proofs start from and arrive at.                   *)
(*                                                                         *)
(* IterInv relates what was returned and what was there at the start to    *)
(* the place of the iterator.  Every call only moves nodes, in order, so   *)
(* one lemma (MoveKeeps) has the argument and the calls say what moves.    *)
(***************************************************************************)
EXTENDS Fifo, Induction, TLAPS

Inv == FifoTypeOK /\ ListInv

(* What ListInv says between two calls. *)
Plain ==
  /\ \A l \in Lists :
        /\ first[l] = NodeAt(l, 1)
        /\ last[l] = NodeAt(l, Len(nodes[l]))
        /\ count[l] = Len(nodes[l])
        /\ \A i \in 1..Len(nodes[l]) :
              /\ nodes[l][i] \in allocated
              /\ next[nodes[l][i]] = NodeAt(l, i + 1)
              /\ data[nodes[l][i]] \in Data
              /\ owner[nodes[l][i]] = l
  /\ \A e \in allocated : \E l \in Lists : \E i \in 1..Len(nodes[l]) : nodes[l][i] = e

(* Append: one element longer, the new one last. *)
LEMMA AppendFacts ==
  ASSUME NEW S, NEW s \in Seq(S), NEW e \in S
  PROVE  /\ Append(s, e) \in Seq(S)
         /\ Len(Append(s, e)) = Len(s) + 1
         /\ \A i \in 1..Len(s) : Append(s, e)[i] = s[i]
         /\ Append(s, e)[Len(s) + 1] = e
  OBVIOUS

(* Concatenation: the elements of s, then those of t. *)
LEMMA ConcatFacts ==
  ASSUME NEW S, NEW s \in Seq(S), NEW t \in Seq(S)
  PROVE  /\ s \o t \in Seq(S)
         /\ Len(s \o t) = Len(s) + Len(t)
         /\ \A i \in 1..Len(s) : (s \o t)[i] = s[i]
         /\ \A i \in (Len(s) + 1)..(Len(s) + Len(t)) : (s \o t)[i] = t[i - Len(s)]
  OBVIOUS

(* SubSeq: the elements from m to n. *)
LEMMA SubSeqFacts ==
  ASSUME NEW S, NEW s \in Seq(S), NEW m \in Nat, NEW n \in Nat, 1 <= m, n <= Len(s)
  PROVE  /\ SubSeq(s, m, n) \in Seq(S)
         /\ Len(SubSeq(s, m, n)) = IF m <= n THEN n - m + 1 ELSE 0
         /\ \A i \in 1..(n - m + 1) : SubSeq(s, m, n)[i] = s[m + i - 1]
  OBVIOUS

(* Tail: every element but the first moves one place down. *)
LEMMA TailFacts ==
  ASSUME NEW S, NEW s \in Seq(S), s # <<>>
  PROVE  /\ Tail(s) \in Seq(S)
         /\ Len(Tail(s)) = Len(s) - 1
         /\ \A i \in 1..(Len(s) - 1) : Tail(s)[i] = s[i + 1]
  OBVIOUS

(* A new first element moves every other one place up. *)
LEMMA PrependFacts ==
  ASSUME NEW S, NEW s \in Seq(S), NEW e \in S
  PROVE  /\ <<e>> \o s \in Seq(S)
         /\ Len(<<e>> \o s) = Len(s) + 1
         /\ (<<e>> \o s)[1] = e
         /\ \A i \in 2..(Len(s) + 1) : (<<e>> \o s)[i] = s[i - 1]
  OBVIOUS

(* A sequence without its element number p, as nl_fifo_remove() leaves it. *)
LEMMA CutFacts ==
  ASSUME NEW S, NEW s \in Seq(S), NEW p \in 1..Len(s)
  PROVE  LET t == SubSeq(s, 1, p - 1) \o SubSeq(s, p + 1, Len(s))
         IN  /\ t \in Seq(S)
             /\ Len(t) = Len(s) - 1
             /\ \A i \in 1..(p - 1) : t[i] = s[i]
             /\ \A i \in p..(Len(s) - 1) : t[i] = s[i + 1]
<1> DEFINE a == SubSeq(s, 1, p - 1)
           b == SubSeq(s, p + 1, Len(s))
<1>1. a \in Seq(S) /\ Len(a) = p - 1 /\ \A i \in 1..(p - 1) : a[i] = s[i]
  BY SubSeqFacts
<1>2. b \in Seq(S) /\ Len(b) = Len(s) - p /\ \A i \in 1..(Len(s) - p) : b[i] = s[p + i]
  BY SubSeqFacts
<1> HIDE DEF a, b
<1>3. a \o b \in Seq(S) /\ Len(a \o b) = Len(a) + Len(b)
      /\ (\A i \in 1..Len(a) : (a \o b)[i] = a[i])
      /\ \A i \in (Len(a) + 1)..(Len(a) + Len(b)) : (a \o b)[i] = b[i - Len(a)]
  BY ZenonT(60), <1>1, <1>2, ConcatFacts
<1>4. \A i \in p..(Len(s) - 1) : (a \o b)[i] = s[i + 1]
  BY <1>1, <1>2, <1>3
<1> QED
  <2>1. a \o b = SubSeq(s, 1, p - 1) \o SubSeq(s, p + 1, Len(s))
    BY DEF a, b
  <2>2. Len(a \o b) = Len(s) - 1 /\ \A i \in 1..(p - 1) : (a \o b)[i] = s[i]
    BY <1>1, <1>2, <1>3
  <2> QED
    BY <1>3, <1>4, <2>1, <2>2
(* Newly created, empty lists satisfy the invariant. *)
LEMMA InitInv == FifoInit => Inv
<1> SUFFICES ASSUME FifoInit PROVE Inv
  OBVIOUS
<1>0. idle /\ call.op = "idle" /\ call.list = NULL
  BY DEF FifoInit, Idle, idle
<1>1. \A l \in Lists : /\ nodes[l] = <<>> /\ Len(nodes[l]) = 0
                       /\ Live(l) = {} /\ ~Moving(l)
                       /\ NodeAt(l, 1) = NULL /\ NodeAt(l, Len(nodes[l])) = NULL
  <2> SUFFICES ASSUME NEW l \in Lists
               PROVE  /\ nodes[l] = <<>> /\ Len(nodes[l]) = 0
                      /\ Live(l) = {} /\ ~Moving(l)
                      /\ NodeAt(l, 1) = NULL /\ NodeAt(l, Len(nodes[l])) = NULL
    OBVIOUS
  <2>1. nodes[l] = <<>> /\ Len(nodes[l]) = 0
    BY DEF FifoInit
  <2>2. 1..Len(nodes[l]) = {}
    BY <2>1
  <2> QED
    BY <1>0, <2>1, <2>2 DEF Live, Moving, NodeAt
<1>2. FifoTypeOK
  BY DEF FifoInit, FifoTypeOK, HeadTypes, HeapTypes, LoopTypes, IterTypes, Idle, Ops
<1>3. Distinct /\ Accounted /\ Chained
  BY <1>1 DEF Distinct, Accounted, Chained, FifoInit
<1>4. HeadsOK
  BY <1>0, <1>1 DEF HeadsOK, FifoInit
<1>5. LoopOK
  BY DEF LoopOK, FifoInit, Idle, idle
<1> QED
  BY <1>2, <1>3, <1>4, <1>5 DEF Inv, ListInv

(* The type of the nodes of a list, element by element. *)
LEMMA NodeFacts ==
  ASSUME HeadTypes, NEW l \in Lists
  PROVE  /\ nodes[l] \in Seq(Elements) /\ Len(nodes[l]) \in Nat
         /\ \A i \in 1..Len(nodes[l]) : nodes[l][i] \in Elements /\ nodes[l][i] # NULL
  BY NullAssumption DEF HeadTypes

Quiet == call.op \in {"idle", "remove", "endwalk"}

(* While no call has changed anything yet, the lists are as between two calls. *)
LEMMA QuietPlain ==
  ASSUME Inv, Quiet
  PROVE  Plain /\ Distinct
<1>1. call.op # "start" /\ call.op # "destroy" /\ call.op # "endfree"
      /\ call.op # "concatstart" /\ call.op # "concatend"
  BY DEF Quiet
<1>2. \A l \in Lists : Live(l) = 1..Len(nodes[l]) /\ ~Moving(l)
  BY <1>1 DEF Live, Freed, Moving
<1>3. \A l \in Lists : /\ first[l] = NodeAt(l, 1)
                       /\ last[l] = NodeAt(l, Len(nodes[l]))
                       /\ count[l] = Len(nodes[l])
  BY <1>1, <1>2 DEF Inv, ListInv, HeadsOK
<1>4. \A l \in Lists : \A i \in 1..Len(nodes[l]) :
         /\ next[nodes[l][i]] = NodeAt(l, i + 1)
         /\ data[nodes[l][i]] \in Data
         /\ owner[nodes[l][i]] = l
  BY <1>2 DEF Inv, ListInv, Chained
<1>5. \A l \in Lists : \A i \in 1..Len(nodes[l]) : nodes[l][i] \in allocated
  BY <1>2, NodeFacts DEF Inv, ListInv, Accounted, FifoTypeOK
<1>6. \A e \in allocated : \E l \in Lists : \E i \in 1..Len(nodes[l]) : nodes[l][i] = e
  BY <1>2 DEF Inv, ListInv, Accounted, FifoTypeOK, HeapTypes
<1> QED
  BY <1>3, <1>4, <1>5, <1>6 DEF Plain, Inv, ListInv

(* A call that returns has only to leave the lists plain. *)
LEMMA PlainAfter ==
  ASSUME FifoTypeOK', Plain', Distinct', call'.op = "idle", call'.list = NULL,
         cur' = NULL, prev' = NULL, pos' = 0
  PROVE  Inv'
<1>1. call'.op = "idle" /\ call'.list = NULL /\ idle'
  BY DEF idle
<1>2. \A l \in Lists : Live(l)' = 1..Len(nodes'[l]) /\ ~Moving(l)'
  BY <1>1, NullAssumption DEF Live, Freed, Moving
<1>3. LoopOK'
  BY <1>1 DEF LoopOK
<1>4. HeadsOK'
  BY <1>1, <1>2, NullAssumption DEF HeadsOK, Plain
<1>5. Chained'
  BY <1>2 DEF Chained, Plain
<1>6. Accounted'
  BY <1>2 DEF Accounted, Plain
<1> QED
  BY <1>3, <1>4, <1>5, <1>6 DEF Inv, ListInv

(* nl_fifo_put() keeps the invariant. *)
LEMMA PutKeeps ==
  ASSUME Inv, NEW l \in Lists, NEW d \in Data, NEW e \in Elements, Put(l, d, e)
  PROVE  Inv'
<1>1. Plain /\ Distinct
  BY QuietPlain DEF Put, idle, Quiet
<1>2. call'.op = "idle" /\ call'.list = NULL /\ cur' = NULL /\ prev' = NULL /\ pos' = 0
  BY DEF Put, Inv, ListInv, LoopOK, callVars, idle
<1>3. /\ nodes' \in [Lists -> Seq(Elements)]
      /\ Len(nodes'[l]) = Len(nodes[l]) + 1
      /\ \A i \in 1..Len(nodes[l]) : nodes'[l][i] = nodes[l][i]
      /\ nodes'[l][Len(nodes[l]) + 1] = e
      /\ \A m \in Lists : m # l => nodes'[m] = nodes[m]
  <2>1. nodes \in [Lists -> Seq(Elements)] /\ nodes' = [nodes EXCEPT ![l] = Append(nodes[l], e)]
    BY DEF Put, Inv, FifoTypeOK, HeadTypes
  <2>2. nodes'[l] = Append(nodes[l], e) /\ Append(nodes[l], e) \in Seq(Elements)
    BY <2>1, AppendFacts
  <2> QED
    BY <2>1, <2>2, AppendFacts
<1>4. \A m \in Lists : /\ Len(nodes[m]) \in Nat
                       /\ \A i \in 1..Len(nodes[m]) : nodes[m][i] \in Elements /\ nodes[m][i] # NULL
  BY NodeFacts DEF Inv, FifoTypeOK
<1>5. e \notin allocated /\ e # NULL
      /\ \A m \in Lists : \A i \in 1..Len(nodes[m]) : nodes[m][i] # e
  BY <1>1, NullAssumption DEF Put, Alloc, Plain
<1>6. FifoTypeOK'
  <2>1. HeadTypes'
    <3>1. first' \in [Lists -> Elements \cup {NULL}]
      BY DEF Put, Inv, FifoTypeOK, HeadTypes
    <3>2. last' \in [Lists -> Elements \cup {NULL}] /\ count' \in [Lists -> Nat]
      BY DEF Put, Inv, FifoTypeOK, HeadTypes
    <3> QED
      BY <1>3, <3>1, <3>2 DEF HeadTypes
  <2>2. HeapTypes'
    BY DEF Put, Alloc, Inv, FifoTypeOK, HeapTypes, HeadTypes
  <2>3. LoopTypes'
    BY DEF Put, Inv, FifoTypeOK, LoopTypes, callVars
  <2>4. IterTypes'
    BY DEF Put, Alloc, Inv, FifoTypeOK, IterTypes, iteration
  <2> QED
    BY <2>1, <2>2, <2>3, <2>4 DEF FifoTypeOK
<1>9. \A m \in Lists : \A i \in 1..Len(nodes'[m]) :
         \/ m = l /\ i = Len(nodes[l]) + 1 /\ nodes'[m][i] = e
         \/ i \in 1..Len(nodes[m]) /\ nodes'[m][i] = nodes[m][i] /\ nodes'[m][i] # e
  BY <1>3, <1>4, <1>5
<1>7. Distinct'
  <2> SUFFICES ASSUME NEW m \in Lists, NEW k \in Lists,
                      NEW i \in 1..Len(nodes'[m]), NEW j \in 1..Len(nodes'[k]),
                      nodes'[m][i] = nodes'[k][j]
               PROVE  m = k /\ i = j
    BY DEF Distinct
  <2> QED
    BY <1>1, <1>9 DEF Distinct
<1>8. Plain'
  <2>1. \A m \in Lists : /\ first'[m] = NodeAt(m, 1)'
                         /\ last'[m] = NodeAt(m, Len(nodes[m]))'
                         /\ count'[m] = Len(nodes'[m])
    BY <1>1, <1>3, <1>4, <1>5 DEF Plain, Put, NodeAt, Inv, FifoTypeOK, HeadTypes
  <2>2. \A m \in Lists : \A i \in 1..Len(nodes'[m]) :
          nodes'[m][i] \in allocated' /\ data'[nodes'[m][i]] \in Data /\ owner'[nodes'[m][i]] = m
    BY <1>1, <1>3, <1>4, <1>5 DEF Plain, Put, Alloc, Inv, FifoTypeOK, HeapTypes
  <2>3. \A m \in Lists : \A i \in 1..Len(nodes'[m]) : next'[nodes'[m][i]] = NodeAt(m, i + 1)'
    BY <1>1, <1>3, <1>4, <1>5 DEF Plain, Put, NodeAt, Distinct, Inv, FifoTypeOK, HeapTypes
  <2>4. \A x \in allocated' : \E m \in Lists : \E i \in 1..Len(nodes'[m]) : nodes'[m][i] = x
    <3>1. \A x \in allocated : \E m \in Lists : \E i \in 1..Len(nodes'[m]) : nodes'[m][i] = x
      BY SMTT(40), <1>1, <1>3, <1>4 DEF Plain
    <3>2. \E i \in 1..Len(nodes'[l]) : nodes'[l][i] = e
      BY <1>3, <1>4
    <3> QED
      BY <3>1, <3>2 DEF Put, Alloc
  <2> QED
    BY <2>1, <2>2, <2>3, <2>4 DEF Plain
<1> QED
  BY <1>2, <1>6, <1>7, <1>8, PlainAfter

(* nl_fifo_prepend() keeps the invariant. *)
LEMMA PrependKeeps ==
  ASSUME Inv, NEW l \in Lists, NEW d \in Data, NEW e \in Elements, Prepend(l, d, e)
  PROVE  Inv'
<1>1. Plain /\ Distinct
  BY QuietPlain DEF Prepend, idle, Quiet
<1>2. call'.op = "idle" /\ call'.list = NULL /\ cur' = NULL /\ prev' = NULL /\ pos' = 0
  BY DEF Prepend, Inv, ListInv, LoopOK, callVars, idle
<1>3. /\ nodes' \in [Lists -> Seq(Elements)]
      /\ Len(nodes'[l]) = Len(nodes[l]) + 1
      /\ \A i \in 2..(Len(nodes[l]) + 1) : nodes'[l][i] = nodes[l][i - 1]
      /\ nodes'[l][1] = e
      /\ \A m \in Lists : m # l => nodes'[m] = nodes[m]
  <2>1. nodes \in [Lists -> Seq(Elements)] /\ nodes' = [nodes EXCEPT ![l] = <<e>> \o nodes[l]]
    BY DEF Prepend, Inv, FifoTypeOK, HeadTypes
  <2>2. nodes'[l] = <<e>> \o nodes[l] /\ <<e>> \o nodes[l] \in Seq(Elements)
    BY <2>1, PrependFacts
  <2> QED
    BY <2>1, <2>2, PrependFacts
<1>4. \A m \in Lists : /\ Len(nodes[m]) \in Nat
                       /\ \A i \in 1..Len(nodes[m]) : nodes[m][i] \in Elements /\ nodes[m][i] # NULL
  BY NodeFacts DEF Inv, FifoTypeOK
<1>5. e \notin allocated /\ e # NULL
      /\ \A m \in Lists : \A i \in 1..Len(nodes[m]) : nodes[m][i] # e
  BY <1>1, NullAssumption DEF Prepend, Alloc, Plain
<1>6. FifoTypeOK'
  <2>1. HeadTypes'
    <3>1. first' \in [Lists -> Elements \cup {NULL}]
      BY DEF Prepend, Inv, FifoTypeOK, HeadTypes
    <3>2. last' \in [Lists -> Elements \cup {NULL}] /\ count' \in [Lists -> Nat]
      BY DEF Prepend, Inv, FifoTypeOK, HeadTypes
    <3> QED
      BY <1>3, <3>1, <3>2 DEF HeadTypes
  <2>2. HeapTypes'
    BY DEF Prepend, Alloc, Inv, FifoTypeOK, HeapTypes, HeadTypes
  <2>3. LoopTypes'
    BY DEF Prepend, Inv, FifoTypeOK, LoopTypes, callVars
  <2>4. IterTypes'
    BY DEF Prepend, Alloc, Inv, FifoTypeOK, IterTypes, iteration
  <2> QED
    BY <2>1, <2>2, <2>3, <2>4 DEF FifoTypeOK
<1>9. \A m \in Lists : \A i \in 1..Len(nodes'[m]) :
         \/ m = l /\ i = 1 /\ nodes'[m][i] = e
         \/ m = l /\ i - 1 \in 1..Len(nodes[m]) /\ nodes'[m][i] = nodes[m][i - 1] /\ nodes'[m][i] # e
         \/ m # l /\ i \in 1..Len(nodes[m]) /\ nodes'[m][i] = nodes[m][i] /\ nodes'[m][i] # e
  BY <1>3, <1>4, <1>5
<1>7. Distinct'
  <2> SUFFICES ASSUME NEW m \in Lists, NEW k \in Lists,
                      NEW i \in 1..Len(nodes'[m]), NEW j \in 1..Len(nodes'[k]),
                      nodes'[m][i] = nodes'[k][j]
               PROVE  m = k /\ i = j
    BY DEF Distinct
  <2> QED
    BY SMTT(40), <1>1, <1>3, <1>4, <1>9 DEF Distinct
<1>8. Plain'
  <2>1. \A m \in Lists : /\ first'[m] = NodeAt(m, 1)'
                         /\ last'[m] = NodeAt(m, Len(nodes[m]))'
                         /\ count'[m] = Len(nodes'[m])
    BY <1>1, <1>3, <1>4, <1>5 DEF Plain, Prepend, NodeAt, Inv, FifoTypeOK, HeadTypes
  <2>2. \A m \in Lists : \A i \in 1..Len(nodes'[m]) :
          nodes'[m][i] \in allocated' /\ data'[nodes'[m][i]] \in Data /\ owner'[nodes'[m][i]] = m
    BY <1>1, <1>4, <1>5, <1>9 DEF Plain, Prepend, Alloc, Inv, FifoTypeOK, HeapTypes
  <2>3. \A m \in Lists : \A i \in 1..Len(nodes'[m]) : next'[nodes'[m][i]] = NodeAt(m, i + 1)'
    <3>1. /\ next'[e] = IF count[l] = 0 THEN NULL ELSE first[l]
          /\ \A x \in Elements : x # e => next'[x] = next[x]
      BY DEF Prepend, Inv, FifoTypeOK, HeapTypes
    <3>2. next'[e] = NodeAt(l, 2)'
      BY <1>1, <1>3, <1>4, <3>1 DEF Plain, NodeAt
    <3>3. \A i \in 2..Len(nodes'[l]) : next'[nodes'[l][i]] = NodeAt(l, i + 1)'
      <4> SUFFICES ASSUME NEW i \in 2..Len(nodes'[l])
                   PROVE  next'[nodes'[l][i]] = NodeAt(l, i + 1)'
        OBVIOUS
      <4>1. i - 1 \in 1..Len(nodes[l]) /\ nodes'[l][i] = nodes[l][i - 1]
        BY <1>3, <1>4
      <4>2. next'[nodes'[l][i]] = next[nodes[l][i - 1]]
        BY <1>4, <1>5, <3>1, <4>1
      <4>3. next[nodes[l][i - 1]] = NodeAt(l, (i - 1) + 1)
        BY <1>1, <4>1 DEF Plain
      <4>4. NodeAt(l, (i - 1) + 1) = NodeAt(l, i + 1)'
        BY SMTT(40), <1>3, <1>4 DEF NodeAt
      <4> QED
        BY <4>2, <4>3, <4>4
    <3>4. \A m \in Lists : m # l =>
             \A i \in 1..Len(nodes'[m]) : next'[nodes'[m][i]] = NodeAt(m, i + 1)'
      BY <1>1, <1>3, <1>4, <1>5, <3>1 DEF Plain, NodeAt
    <3> QED
      BY SMTT(40), <1>3, <1>4, <3>2, <3>3, <3>4
  <2>4. \A x \in allocated' : \E m \in Lists : \E i \in 1..Len(nodes'[m]) : nodes'[m][i] = x
    <3>1. \A i \in 1..Len(nodes[l]) : i + 1 \in 1..Len(nodes'[l]) /\ nodes'[l][i + 1] = nodes[l][i]
      BY <1>3, <1>4
    <3>2. \A x \in allocated : \E m \in Lists : \E i \in 1..Len(nodes'[m]) : nodes'[m][i] = x
      <4> SUFFICES ASSUME NEW x \in allocated
                   PROVE  \E m \in Lists : \E i \in 1..Len(nodes'[m]) : nodes'[m][i] = x
        OBVIOUS
      <4>1. PICK m \in Lists : \E i \in 1..Len(nodes[m]) : nodes[m][i] = x
        BY <1>1 DEF Plain
      <4>2. CASE m = l
        BY <3>1, <4>1, <4>2
      <4>3. CASE m # l
        BY <1>3, <4>1, <4>3
      <4> QED
        BY <4>2, <4>3
    <3>3. \E i \in 1..Len(nodes'[l]) : nodes'[l][i] = e
      BY <1>3, <1>4
    <3> QED
      BY <3>2, <3>3 DEF Prepend, Alloc
  <2> QED
    BY <2>1, <2>2, <2>3, <2>4 DEF Plain
<1> QED
  BY <1>2, <1>6, <1>7, <1>8, PlainAfter

(* Begins, walks and the iterator leave every list as it is. *)
LEMMA ShapeKept ==
  ASSUME Inv, Quiet, UNCHANGED <<heads, heap, nodes>>, FifoTypeOK', LoopOK',
         call'.op \notin {"concatstart", "concatend"},
         call'.op \in {"start", "destroy"} => pos' = 1,
         call'.op = "endfree" => pos' = call'.n + 1
  PROVE  Inv'
<1>1. Plain /\ Distinct
  BY QuietPlain
<1>2. \A l \in Lists : Len(nodes[l]) \in Nat
  BY NodeFacts DEF Inv, FifoTypeOK
<1>3. call'.n \in Nat
  BY DEF FifoTypeOK, LoopTypes
<1>4. \A l \in Lists : Live(l)' = 1..Len(nodes[l]) /\ ~Moving(l)'
  BY <1>2, <1>3 DEF Live, Freed, Moving
<1>5. HeadsOK'
  <2>1. \A l \in Lists : NodeAt(l, 1)' = NodeAt(l, 1) /\ NodeAt(l, Len(nodes[l]))' = NodeAt(l, Len(nodes[l]))
    BY DEF NodeAt
  <2> QED
    BY <1>1, <1>2, <1>3, <1>4, <2>1 DEF HeadsOK, Plain, heads
<1>6. Chained'
  <2>1. \A l \in Lists : \A i \in 1..Len(nodes[l]) : NodeAt(l, i + 1)' = NodeAt(l, i + 1)
    BY DEF NodeAt
  <2> QED
    BY <1>1, <1>4, <2>1 DEF Chained, Plain, heap
<1>7. Accounted'
  BY <1>1, <1>4 DEF Accounted, Plain, heap
<1>8. Distinct'
  BY <1>1 DEF Distinct
<1> QED
  BY <1>5, <1>6, <1>7, <1>8 DEF Inv, ListInv

(* The start of a call with a loop keeps the invariant. *)
LEMMA BeginKeeps ==
  ASSUME Inv, NEW l \in Lists, NEW d \in Data \cup {NULL}, NEW n \in 0..MaxArgument,
         \/ RemoveBegin(l, d) \/ RemoveStartBegin(l, n) \/ RemoveEndBegin(l, n)
         \/ DestroyBegin(l)
  PROVE  Inv'
<1>1. Quiet /\ UNCHANGED <<heads, heap, nodes, iteration>> /\ pos' = 1 /\ cur' = first[l] /\ prev' = NULL
  BY DEF RemoveBegin, RemoveStartBegin, RemoveEndBegin, DestroyBegin, Quiet, idle
<1>2. Plain
  BY <1>1, QuietPlain
<1>3. /\ Len(nodes[l]) \in Nat /\ count[l] = Len(nodes[l])
      /\ NodeAt(l, 1)' = first[l] /\ NodeAt(l, 0)' = NULL
  BY <1>1, <1>2, NodeFacts DEF Inv, FifoTypeOK, Plain, NodeAt
<1>4. n \in Nat
  BY MaxArgumentAssumption
<1>5. \/ call' = [Idle EXCEPT !.op = "remove", !.list = l, !.data = d]
      \/ call' = [Idle EXCEPT !.op = "start", !.list = l, !.n = n]
      \/ call' = [Idle EXCEPT !.op = "start", !.list = l, !.n = count[l]]
      \/ /\ call' = [Idle EXCEPT !.op = "endwalk", !.list = l, !.n = count[l] - n, !.freeing = n]
         /\ n < count[l]
      \/ call' = [Idle EXCEPT !.op = "destroy", !.list = l]
  BY <1>3, <1>4 DEF RemoveBegin, RemoveStartBegin, RemoveEndBegin, DestroyBegin
<1>6. /\ call' \in [op : Ops, list : Lists \cup {NULL}, dest : Lists \cup {NULL}, n : Nat,
               freeing : Nat, data : Data \cup {NULL}, first : Elements \cup {NULL}, last : Elements \cup {NULL}]
      /\ call'.op \in {"remove", "start", "endwalk", "destroy"} /\ call'.list = l
      /\ call'.op = "endwalk" => /\ call'.n \in 1..Len(nodes[l])
                                 /\ call'.n + call'.freeing = Len(nodes[l])
  <2>1. CASE call' = [Idle EXCEPT !.op = "remove", !.list = l, !.data = d]
    BY <2>1 DEF Idle, Ops
  <2>2. CASE call' = [Idle EXCEPT !.op = "start", !.list = l, !.n = n]
    BY <1>4, <2>2 DEF Idle, Ops
  <2>3. CASE call' = [Idle EXCEPT !.op = "start", !.list = l, !.n = count[l]]
    BY <1>3, <2>3 DEF Idle, Ops
  <2>4. CASE /\ call' = [Idle EXCEPT !.op = "endwalk", !.list = l, !.n = count[l] - n, !.freeing = n]
             /\ n < count[l]
    <3>1. /\ count[l] - n \in Nat /\ count[l] - n \in 1..Len(nodes[l])
          /\ (count[l] - n) + n = Len(nodes[l])
      BY <1>3, <1>4, <2>4
    <3> QED
      BY <1>4, <2>4, <3>1 DEF Idle, Ops
  <2>5. CASE call' = [Idle EXCEPT !.op = "destroy", !.list = l]
    BY <2>5 DEF Idle, Ops
  <2> QED
    BY <1>5, <2>1, <2>2, <2>3, <2>4, <2>5
<1>7. FifoTypeOK'
  <2>2. LoopTypes'
    BY <1>1, <1>6 DEF LoopTypes, Inv, FifoTypeOK, HeadTypes
  <2> QED
    BY <1>1, <2>2 DEF Inv, FifoTypeOK, HeadTypes, HeapTypes, IterTypes, heads, heap, iteration
<1>8. LoopOK'
  <2>1. ~idle' /\ ~Moving(call.list)'
    BY <1>6 DEF idle, Moving
  <2>2. nodes' = nodes
    BY <1>1
  <2> QED
    BY <1>1, <1>3, <1>6, <2>1, <2>2 DEF LoopOK
<1> QED
  BY <1>1, <1>6, <1>7, <1>8, ShapeKept

(* The walks of nl_fifo_remove() and nl_fifo_remove_end() keep the invariant. *)
LEMMA WalkKeeps ==
  ASSUME Inv, RemoveStep \/ RemoveEndWalk \/ RemoveEndFound
  PROVE  Inv'
<1>3. call \in [op : Ops, list : Lists \cup {NULL}, dest : Lists \cup {NULL}, n : Nat,
               freeing : Nat, data : Data \cup {NULL}, first : Elements \cup {NULL}, last : Elements \cup {NULL}]
      /\ pos \in Nat
  BY DEF Inv, FifoTypeOK, LoopTypes
<1>0. RemoveEndFound => call'.list = call.list
  BY <1>3 DEF RemoveEndFound
<1>1. Quiet /\ UNCHANGED <<heads, heap, nodes, iteration>> /\ call'.list = call.list /\ ~idle
  BY <1>0 DEF RemoveStep, RemoveEndWalk, RemoveEndFound, Quiet, idle
<1>2. Plain
  BY <1>1, QuietPlain
<1> DEFINE l == call.list
<1>4. /\ l \in Lists /\ pos \in 1..(Len(nodes[l]) + 1) /\ cur = NodeAt(l, pos)
      /\ Len(nodes[l]) \in Nat
      /\ \A i \in 1..Len(nodes[l]) : nodes[l][i] \in Elements /\ nodes[l][i] # NULL
      /\ nodes' = nodes
  BY <1>1, NodeFacts DEF Inv, ListInv, LoopOK, FifoTypeOK
<1>5. \A i \in Int : NodeAt(l, i)' = NodeAt(l, i)
  <2>1. l' = l
    BY <1>1
  <2> QED
    BY <1>4, <2>1 DEF NodeAt
<1>6. cur # NULL => pos \in 1..Len(nodes[l]) /\ next[cur] = NodeAt(l, pos + 1)
  BY <1>2, <1>4 DEF NodeAt, Plain
<1>7. CASE RemoveStep
  <2>1. FifoTypeOK'
    BY <1>1, <1>3, <1>4, <1>6, <1>7
       DEF RemoveStep, Inv, FifoTypeOK, HeadTypes, HeapTypes, LoopTypes, IterTypes, heads, heap, iteration
  <2>2. call' = call /\ call.op = "remove" /\ cur' = NodeAt(l, pos + 1) /\ pos' = pos + 1
        /\ prev' = NodeAt(l, pos) /\ pos' \in 1..(Len(nodes[l]) + 1) /\ data' = data
    BY <1>1, <1>4, <1>6, <1>7 DEF RemoveStep, heap
  <2>3. \A i \in 1..(pos' - 1) : data[nodes[l][i]] # call.data
    BY <1>1, <1>4, <1>6, <1>7, <2>2 DEF RemoveStep, Inv, ListInv, LoopOK, NodeAt
  <2>4. ~idle' /\ ~Moving(l)'
    BY <2>2 DEF idle, Moving
  <2>5. LoopOK'
    BY <1>4, <1>5, <2>2, <2>3, <2>4 DEF LoopOK
  <2> QED
    BY <1>1, <2>1, <2>2, <2>5, ShapeKept
<1>8. CASE RemoveEndWalk
  <2>0. call.n + call.freeing = Len(nodes[l])
    BY <1>1, <1>8 DEF RemoveEndWalk, Inv, ListInv, LoopOK
  <2>1. call' = call /\ call.op = "endwalk" /\ call.n \in 1..Len(nodes[l]) /\ pos - 1 < call.n
        /\ pos' = pos + 1 /\ cur # NULL /\ cur' = NodeAt(l, pos + 1) /\ prev' = NodeAt(l, pos)
    BY <1>1, <1>4, <1>6, <1>8 DEF RemoveEndWalk, Inv, ListInv, LoopOK, NodeAt
  <2>2. FifoTypeOK'
    <3>1. cur \in Elements /\ cur' \in Elements \cup {NULL} /\ prev' = cur
      BY <1>4, <1>8, <2>1 DEF RemoveEndWalk, NodeAt
    <3>2. LoopTypes'
      BY <1>1, <1>3, <2>1, <3>1 DEF LoopTypes
    <3> QED
      BY <1>1, <3>2 DEF Inv, FifoTypeOK, HeadTypes, HeapTypes, IterTypes, heads, heap, iteration
  <2>3. ~idle' /\ ~Moving(l)'
    BY <2>1 DEF idle, Moving
  <2>4. LoopOK'
    BY <1>3, <1>4, <1>5, <2>0, <2>1, <2>3 DEF LoopOK
  <2> QED
    BY <1>1, <2>1, <2>2, <2>4, ShapeKept
<1>9. CASE RemoveEndFound
  <2>0. call.n + call.freeing = Len(nodes[l])
    BY <1>1, <1>9 DEF RemoveEndFound, Inv, ListInv, LoopOK
  <2>1. /\ call.op = "endwalk" /\ call.n \in 1..Len(nodes[l]) /\ pos = call.n + 1
        /\ pos' = pos /\ cur' = cur /\ prev' = prev /\ prev = NodeAt(l, pos - 1)
    BY <1>1, <1>3, <1>4, <1>9 DEF RemoveEndFound, Inv, ListInv, LoopOK
  <2>2. /\ call'.op = "endfree" /\ call'.list = l /\ call'.n = call.n /\ call'.freeing = call.freeing
        /\ call' \in [op : Ops, list : Lists \cup {NULL}, dest : Lists \cup {NULL}, n : Nat,
               freeing : Nat, data : Data \cup {NULL}, first : Elements \cup {NULL}, last : Elements \cup {NULL}]
    BY <1>3, <1>9 DEF RemoveEndFound, Ops
  <2>3. FifoTypeOK'
    BY <1>1, <2>1, <2>2
       DEF Inv, FifoTypeOK, HeadTypes, HeapTypes, LoopTypes, IterTypes, heads, heap, iteration
  <2>4. ~idle' /\ ~Moving(l)'
    BY <2>2 DEF idle, Moving
  <2>5. prev' = NodeAt(l, call.n)
    BY <1>4, <2>1
  <2>6. LoopOK'
    BY <1>3, <1>4, <1>5, <2>0, <2>1, <2>2, <2>4, <2>5 DEF LoopOK
  <2> QED
    BY <1>1, <2>1, <2>2, <2>3, <2>6, ShapeKept
<1> QED
  BY <1>7, <1>8, <1>9

(* nl_fifo_remove() that finds nothing keeps the invariant. *)
LEMMA MissKeeps == ASSUME Inv, RemoveMiss PROVE Inv'
<1>1. Quiet /\ UNCHANGED <<heads, heap, nodes, iteration>>
      /\ call' = Idle /\ cur' = NULL /\ prev' = NULL /\ pos' = 0
  BY DEF RemoveMiss, Quiet, CallEnds
<1>2. call'.op = "idle" /\ call'.list = NULL
  BY <1>1 DEF Idle
<1>3. FifoTypeOK'
  BY <1>1 DEF Inv, FifoTypeOK, HeadTypes, HeapTypes, LoopTypes, IterTypes, heads, heap, iteration, Idle, Ops
<1>4. LoopOK'
  BY <1>1, <1>2 DEF LoopOK, idle
<1> QED
  BY <1>1, <1>2, <1>3, <1>4, ShapeKept

(* The iterator. *)
LEMMA IterKeeps ==
  ASSUME Inv, (\E l \in Lists : IterOpen(l)) \/ IterError \/ IterEnd \/ IterNext
  PROVE  Inv'
<1>1. Quiet /\ idle /\ UNCHANGED <<heads, heap, nodes, callVars>>
  BY DEF IterOpen, IterError, IterEnd, IterNext, Quiet, idle
<1>2. Plain
  BY <1>1, QuietPlain
<1>3. IterTypes'
  <2>1. CASE \E l \in Lists : IterOpen(l)
    <3>1. PICK l \in Lists : IterOpen(l)
      BY <2>1
    <3>2. Members(l) \subseteq allocated
      BY <1>2 DEF Members, Plain
    <3> QED
      BY <1>1, <3>1, <3>2 DEF IterOpen, IterTypes, heap
  <2>2. CASE IterError \/ IterEnd
    BY <1>1, <2>2 DEF IterError, IterEnd, IterClose, IterTypes
  <2>3. CASE IterNext
    <3>1. iterList \in Lists /\ iter \in allocated \cup {NULL} /\ iterState = "open"
      BY <2>3 DEF IterNext, Inv, FifoTypeOK, IterTypes
    <3>2. NextElement \in allocated
      <4>1. CASE iter = NULL
        BY <1>2, <2>3, <3>1, <4>1 DEF IterNext, NextElement, Plain, NodeAt
      <4>2. CASE iter # NULL
        <5>1. PICK l \in Lists : \E i \in 1..Len(nodes[l]) : nodes[l][i] = iter
          BY <1>2, <3>1, <4>2 DEF Plain
        <5>2. PICK i \in 1..Len(nodes[l]) : nodes[l][i] = iter
          BY <5>1
        <5>3. NextElement = NodeAt(l, i + 1) /\ NextElement # NULL
          BY <1>2, <2>3, <4>2, <5>2 DEF IterNext, NextElement, Plain
        <5> QED
          BY <1>2, <5>3 DEF Plain, NodeAt
      <4> QED
        BY <4>1, <4>2
    <3> QED
      BY <1>1, <2>3, <3>1, <3>2 DEF IterNext, Inv, FifoTypeOK, IterTypes, heap
  <2> QED
    BY <2>1, <2>2, <2>3
<1>4. FifoTypeOK'
  BY <1>1, <1>3 DEF Inv, FifoTypeOK, HeadTypes, HeapTypes, LoopTypes, heads, heap, callVars
<1>5. LoopOK'
  BY <1>1 DEF Inv, ListInv, LoopOK, callVars, idle
<1>6. call'.op = "idle"
  BY <1>1 DEF idle, callVars
<1> QED
  BY <1>1, <1>4, <1>5, <1>6, ShapeKept

(* Freeing an element leaves no reference to it in the caller's iteration. *)
LEMMA FreeTypes ==
  ASSUME Inv, NEW e \in Elements, Free(e)
  PROVE  IterTypes' /\ allocated' \in SUBSET Elements
         /\ data' \in [Elements -> Data \cup {NULL}]
         /\ owner' \in [Elements -> Lists \cup {NULL}]
<1>1. allocated' = allocated \ {e} /\ allocated' \in SUBSET Elements
      /\ data' \in [Elements -> Data \cup {NULL}]
      /\ owner' \in [Elements -> Lists \cup {NULL}]
  BY DEF Free, Inv, FifoTypeOK, HeapTypes
<1>2. CASE iter = e
  BY <1>1, <1>2 DEF Free, IterClose, IterTypes
<1>3. CASE iter # e
  BY <1>1, <1>3 DEF Free, Inv, FifoTypeOK, IterTypes
<1> QED
  BY <1>1, <1>2, <1>3

(* Node p of list l is unlinked and freed. *)
LEMMA UnlinkKeeps ==
  ASSUME Inv, Quiet, NEW l \in Lists, NEW p \in 1..Len(nodes[l]), NEW e,
         e = nodes[l][p], Free(e),
         next' = IF p = 1 THEN [next EXCEPT ![e] = NULL]
                 ELSE [next EXCEPT ![nodes[l][p - 1]] = next[e], ![e] = NULL],
         first' = IF p = 1 THEN [first EXCEPT ![l] = next[e]] ELSE first,
         last' = IF p = Len(nodes[l]) THEN [last EXCEPT ![l] = NodeAt(l, p - 1)] ELSE last,
         count' = [count EXCEPT ![l] = @ - 1],
         nodes' \in [Lists -> Seq(Elements)],
         Len(nodes'[l]) = Len(nodes[l]) - 1,
         \A i \in 1..(p - 1) : nodes'[l][i] = nodes[l][i],
         \A i \in p..(Len(nodes[l]) - 1) : nodes'[l][i] = nodes[l][i + 1],
         \A m \in Lists : m # l => nodes'[m] = nodes[m],
         LoopTypes', call'.op = "idle", call'.list = NULL,
         cur' = NULL, prev' = NULL, pos' = 0
  PROVE  Inv'
<1>1. Plain /\ Distinct
  BY QuietPlain
<1>2. \A m \in Lists : /\ Len(nodes[m]) \in Nat /\ Len(nodes'[m]) \in Nat
                       /\ \A i \in 1..Len(nodes[m]) : nodes[m][i] \in Elements /\ nodes[m][i] # NULL
  BY NodeFacts DEF Inv, FifoTypeOK
<1> DEFINE orig(m, i) == IF m = l /\ i >= p THEN i + 1 ELSE i
<1>3. e \in Elements /\ e # NULL /\ next[e] = NodeAt(l, p + 1) /\ next[e] \in Elements \cup {NULL}
      /\ NodeAt(l, p - 1) \in Elements \cup {NULL}
  <2>1. e \in Elements /\ e # NULL /\ next[e] = NodeAt(l, p + 1)
    BY <1>1, <1>2 DEF Plain
  <2>2. next[e] \in Elements \cup {NULL}
    BY <2>1 DEF Inv, FifoTypeOK, HeapTypes
  <2>3. NodeAt(l, p - 1) \in Elements \cup {NULL}
    BY <1>2 DEF NodeAt
  <2> QED
    BY <2>1, <2>2, <2>3
<1>4. /\ allocated' = allocated \ {e}
      /\ \A x \in Elements : x # e => data'[x] = data[x] /\ owner'[x] = owner[x]
  BY DEF Free, Inv, FifoTypeOK, HeapTypes
<1>5. /\ p = 1 => \A x \in Elements : x # e => next'[x] = next[x]
      /\ p # 1 => /\ nodes[l][p - 1] \in Elements /\ nodes[l][p - 1] # e
                 /\ next'[nodes[l][p - 1]] = next[e]
                 /\ \A x \in Elements : x # e /\ x # nodes[l][p - 1] => next'[x] = next[x]
  <2>1. CASE p = 1
    BY <2>1 DEF Inv, FifoTypeOK, HeapTypes
  <2>2. CASE p # 1
    <3>1. p - 1 \in 1..Len(nodes[l])
      BY <1>2, <2>2
    <3>2. nodes[l][p - 1] \in Elements /\ nodes[l][p - 1] # e
      BY <1>1, <1>2, <3>1 DEF Distinct
    <3>3. next' = [next EXCEPT ![nodes[l][p - 1]] = next[e], ![e] = NULL]
      BY <2>2
    <3> QED
      BY <2>2, <3>2, <3>3 DEF Inv, FifoTypeOK, HeapTypes
  <2> QED
    BY <2>1, <2>2
<1>6. FifoTypeOK'
  <2>1. HeadTypes'
    <3>1. first' \in [Lists -> Elements \cup {NULL}]
      BY <1>3 DEF Inv, FifoTypeOK, HeadTypes
    <3>2. last' \in [Lists -> Elements \cup {NULL}]
      BY <1>3 DEF Inv, FifoTypeOK, HeadTypes
    <3>3. count[l] \in Nat /\ count[l] - 1 \in Nat
      BY <1>1, <1>2 DEF Plain
    <3>4. count' \in [Lists -> Nat]
      BY <3>3 DEF Inv, FifoTypeOK, HeadTypes
    <3> QED
      BY <3>1, <3>2, <3>4 DEF HeadTypes
  <2>2. next' \in [Elements -> Elements \cup {NULL}]
    BY <1>3 DEF Inv, FifoTypeOK, HeapTypes
  <2> QED
    BY <1>3, <2>1, <2>2, FreeTypes DEF FifoTypeOK, HeapTypes
<1>7. \A m \in Lists : \A i \in 1..Len(nodes'[m]) :
         /\ orig(m, i) \in 1..Len(nodes[m])
         /\ nodes'[m][i] = nodes[m][orig(m, i)]
         /\ ~(m = l /\ orig(m, i) = p)
  BY SMTT(40), <1>2
<1>8. \A m \in Lists : \A i \in 1..Len(nodes'[m]) : nodes'[m][i] # e /\ nodes'[m][i] \in Elements
  <2> SUFFICES ASSUME NEW m \in Lists, NEW i \in 1..Len(nodes'[m])
               PROVE  nodes'[m][i] # e /\ nodes'[m][i] \in Elements
    OBVIOUS
  <2> HIDE DEF orig
  <2>1. /\ orig(m, i) \in 1..Len(nodes[m]) /\ nodes'[m][i] = nodes[m][orig(m, i)]
        /\ ~(m = l /\ orig(m, i) = p)
    BY <1>7
  <2> QED
    BY <1>1, <1>2, <2>1 DEF Distinct
<1>9. Distinct'
  <2> SUFFICES ASSUME NEW m \in Lists, NEW k \in Lists,
                      NEW i \in 1..Len(nodes'[m]), NEW j \in 1..Len(nodes'[k]),
                      nodes'[m][i] = nodes'[k][j]
               PROVE  m = k /\ i = j
    BY DEF Distinct
  <2>1. /\ orig(m, i) \in 1..Len(nodes[m]) /\ orig(k, j) \in 1..Len(nodes[k])
        /\ nodes[m][orig(m, i)] = nodes[k][orig(k, j)]
    BY <1>7
  <2>2. m = k /\ orig(m, i) = orig(k, j)
    <3> HIDE DEF orig
    <3> QED
      BY SMTT(40), <1>1, <2>1 DEF Distinct
  <2> QED
    BY <1>2, <2>2
<1>10. \A m \in Lists : \A i \in 1..Len(nodes'[m]) :
          nodes'[m][i] \in allocated' /\ data'[nodes'[m][i]] \in Data /\ owner'[nodes'[m][i]] = m
  <2> SUFFICES ASSUME NEW m \in Lists, NEW i \in 1..Len(nodes'[m])
               PROVE  nodes'[m][i] \in allocated' /\ data'[nodes'[m][i]] \in Data
                      /\ owner'[nodes'[m][i]] = m
    OBVIOUS
  <2> HIDE DEF orig
  <2>1. orig(m, i) \in 1..Len(nodes[m]) /\ nodes'[m][i] = nodes[m][orig(m, i)]
    BY <1>7
  <2>2. nodes'[m][i] \in allocated /\ data[nodes'[m][i]] \in Data /\ owner[nodes'[m][i]] = m
    BY SMTT(40), <1>1, <2>1 DEF Plain
  <2> QED
    BY <1>4, <1>8, <2>2
<1>11. \A m \in Lists : \A i \in 1..Len(nodes'[m]) : next'[nodes'[m][i]] = NodeAt(m, i + 1)'
  <2> SUFFICES ASSUME NEW m \in Lists, NEW i \in 1..Len(nodes'[m])
               PROVE  next'[nodes'[m][i]] = NodeAt(m, i + 1)'
    OBVIOUS
  <2>1. CASE m # l
    <3>1. nodes'[m][i] = nodes[m][i] /\ i \in 1..Len(nodes[m]) /\ nodes'[m] = nodes[m]
          /\ nodes[m][i] # e /\ nodes[m][i] \in Elements
      BY <1>8, <2>1
    <3>3. p # 1 => nodes[m][i] # nodes[l][p - 1]
      <4> SUFFICES ASSUME p # 1 PROVE nodes[m][i] # nodes[l][p - 1]
        OBVIOUS
      <4>1. p - 1 \in 1..Len(nodes[l])
        BY <1>2
      <4> QED
        BY <1>1, <2>1, <3>1, <4>1 DEF Distinct
    <3>2. next'[nodes[m][i]] = next[nodes[m][i]]
      BY <1>5, <3>1, <3>3
    <3> QED
      BY <1>1, <3>1, <3>2 DEF Plain, NodeAt
  <2>2. CASE m = l /\ i >= p
    <3>1. nodes'[m][i] = nodes[l][i + 1] /\ i + 1 \in 1..Len(nodes[l])
      BY <1>7, <2>2
    <3>5. p # 1 => nodes[l][i + 1] # nodes[l][p - 1]
      <4> SUFFICES ASSUME p # 1 PROVE nodes[l][i + 1] # nodes[l][p - 1]
        OBVIOUS
      <4>1. p - 1 \in 1..Len(nodes[l]) /\ p - 1 # i + 1
        BY <1>2, <2>2
      <4> QED
        BY <1>1, <3>1, <4>1 DEF Distinct
    <3>2. next'[nodes[l][i + 1]] = next[nodes[l][i + 1]]
      <4>1. nodes[l][i + 1] # e /\ nodes[l][i + 1] \in Elements
        BY <1>8, <3>1
      <4> QED
        BY <1>5, <3>5, <4>1
    <3>3. next[nodes[l][i + 1]] = NodeAt(l, (i + 1) + 1)
      BY <1>1, <3>1 DEF Plain
    <3>4. NodeAt(l, (i + 1) + 1) = NodeAt(l, i + 1)'
      BY SMTT(40), <1>2, <2>2 DEF NodeAt
    <3> QED
      BY <2>2, <3>1, <3>2, <3>3, <3>4
  <2>3. CASE m = l /\ i = p - 1
    <3>1. nodes'[m][i] = nodes[l][p - 1] /\ p # 1
      BY <1>2, <2>3
    <3>2. next'[nodes'[m][i]] = NodeAt(l, p + 1)
      BY <1>3, <1>5, <3>1
    <3>3. NodeAt(l, p + 1) = NodeAt(l, i + 1)'
      BY SMTT(40), <1>2, <2>3 DEF NodeAt
    <3> QED
      BY <2>3, <3>2, <3>3
  <2>4. CASE m = l /\ i < p - 1
    <3>4. i \in 1..Len(nodes[l]) /\ p - 1 \in 1..Len(nodes[l]) /\ i # p - 1 /\ p # 1
      BY <1>2, <2>4
    <3>1. nodes'[m][i] = nodes[l][i] /\ nodes[l][i] # nodes[l][p - 1]
      <4>1. nodes'[m][i] = nodes[l][i]
        BY <1>2, <2>4
      <4> QED
        BY <1>1, <3>4, <4>1 DEF Distinct
    <3>2. next'[nodes'[m][i]] = next[nodes[l][i]]
      <4>1. nodes[l][i] # e /\ nodes[l][i] \in Elements
        BY <1>8, <3>1
      <4> QED
        BY <1>5, <3>1, <3>4, <4>1
    <3>3. NodeAt(l, i + 1) = NodeAt(l, i + 1)'
      BY <1>2, <2>4 DEF NodeAt
    <3> QED
      BY <1>1, <2>4, <3>4, <3>2, <3>3 DEF Plain
  <2> QED
    BY <1>2, <2>1, <2>2, <2>3, <2>4
<1>12. \A m \in Lists : /\ first'[m] = NodeAt(m, 1)'
                        /\ last'[m] = NodeAt(m, Len(nodes[m]))'
                        /\ count'[m] = Len(nodes'[m])
  <2> SUFFICES ASSUME NEW m \in Lists
               PROVE  /\ first'[m] = NodeAt(m, 1)'
                      /\ last'[m] = NodeAt(m, Len(nodes[m]))'
                      /\ count'[m] = Len(nodes'[m])
    OBVIOUS
  <2>1. CASE m # l
    BY <1>1, <2>1 DEF Plain, NodeAt, Inv, FifoTypeOK, HeadTypes
  <2>2. CASE m = l
    <3>1. first'[l] = NodeAt(l, 1)'
      <4>1. CASE p = 1
        <5>1. first'[l] = NodeAt(l, 2)
          BY <1>3, <4>1 DEF Inv, FifoTypeOK, HeadTypes
        <5> QED
          BY SMTT(40), <1>2, <4>1, <5>1 DEF NodeAt
      <4>2. CASE p # 1
        <5>1. first'[l] = NodeAt(l, 1)
          BY <1>1, <4>2 DEF Plain
        <5> QED
          BY <1>2, <4>2, <5>1 DEF NodeAt
      <4> QED
        BY <4>1, <4>2
    <3>2. last'[l] = NodeAt(l, Len(nodes[l]))'
      <4>1. CASE p = Len(nodes[l])
        <5>1. last'[l] = NodeAt(l, p - 1)
          BY <4>1 DEF Inv, FifoTypeOK, HeadTypes
        <5>2. Len(nodes'[l]) = p - 1 /\ p - 1 <= Len(nodes[l])
          BY <1>2, <4>1
        <5>3. NodeAt(l, Len(nodes[l]))' = IF p - 1 \in 1..(p - 1) THEN nodes'[l][p - 1] ELSE NULL
          BY <5>2 DEF NodeAt
        <5>4. NodeAt(l, p - 1) = IF p - 1 \in 1..(p - 1) THEN nodes[l][p - 1] ELSE NULL
          BY <1>2, <5>2 DEF NodeAt
        <5> QED
          BY <5>1, <5>3, <5>4
      <4>2. CASE p # Len(nodes[l])
        <5>1. last'[l] = NodeAt(l, Len(nodes[l]))
          BY <1>1, <4>2 DEF Plain
        <5>2. /\ Len(nodes[l]) \in 1..Len(nodes[l]) /\ Len(nodes'[l]) \in 1..Len(nodes'[l])
              /\ Len(nodes'[l]) \in p..(Len(nodes[l]) - 1) /\ Len(nodes'[l]) + 1 = Len(nodes[l])
          BY <1>2, <4>2
        <5>3. NodeAt(l, Len(nodes[l]))' = nodes'[l][Len(nodes'[l])]
          BY <5>2 DEF NodeAt
        <5>4. NodeAt(l, Len(nodes[l])) = nodes[l][Len(nodes[l])]
          BY <5>2 DEF NodeAt
        <5>5. nodes'[l][Len(nodes'[l])] = nodes[l][Len(nodes'[l]) + 1]
          BY <5>2
        <5> QED
          BY <5>1, <5>2, <5>3, <5>4, <5>5
      <4> QED
        BY <4>1, <4>2
    <3>3. count'[l] = Len(nodes'[l])
      BY <1>1 DEF Plain, Inv, FifoTypeOK, HeadTypes
    <3> QED
      BY <2>2, <3>1, <3>2, <3>3
  <2> QED
    BY <2>1, <2>2
<1>13. \A x \in allocated' : \E m \in Lists : \E i \in 1..Len(nodes'[m]) : nodes'[m][i] = x
  <2> SUFFICES ASSUME NEW x \in allocated, x # e
               PROVE  \E m \in Lists : \E i \in 1..Len(nodes'[m]) : nodes'[m][i] = x
    BY <1>4
  <2>1. PICK m \in Lists : \E i \in 1..Len(nodes[m]) : nodes[m][i] = x
    BY <1>1 DEF Plain
  <2>2. PICK i \in 1..Len(nodes[m]) : nodes[m][i] = x
    BY <2>1
  <2>3. CASE m # l
    BY <2>2, <2>3
  <2>4. CASE m = l /\ i < p
    BY <1>2, <2>2, <2>4
  <2>5. CASE m = l /\ i > p
    <3>1. i - 1 \in 1..Len(nodes'[l]) /\ nodes'[l][i - 1] = nodes[l][(i - 1) + 1]
      BY <1>2, <2>5
    <3> QED
      BY <1>2, <2>2, <2>5, <3>1
  <2> QED
    BY <1>2, <2>2, <2>3, <2>4, <2>5
<1>14. Plain'
  BY ZenonT(60), <1>10, <1>11, <1>12, <1>13 DEF Plain
<1> QED
  BY <1>6, <1>9, <1>14, PlainAfter

(* nl_fifo_get() keeps the invariant. *)
LEMMA GetKeeps == ASSUME Inv, NEW l \in Lists, Get(l) PROVE Inv'
<1> DEFINE e == first[l]
<1>1. Quiet /\ Plain /\ Distinct
  BY QuietPlain DEF Get, idle, Quiet
<1>2. nodes[l] \in Seq(Elements) /\ Len(nodes[l]) \in Nat
      /\ \A i \in 1..Len(nodes[l]) : nodes[l][i] \in Elements /\ nodes[l][i] # NULL
  BY NodeFacts DEF Inv, FifoTypeOK
<1>3. 1 \in 1..Len(nodes[l]) /\ nodes[l] # <<>> /\ e = nodes[l][1]
  BY <1>1, <1>2 DEF Get, Plain, NodeAt
<1>4. (next[e] = NULL <=> Len(nodes[l]) = 1) /\ NodeAt(l, 1 - 1) = NULL
  <2>1. next[e] = NodeAt(l, 1 + 1)
    BY <1>1, <1>3 DEF Plain
  <2>2. NodeAt(l, 1 + 1) = NULL <=> Len(nodes[l]) = 1
    <3>1. CASE Len(nodes[l]) = 1
      BY <3>1 DEF NodeAt
    <3>2. CASE Len(nodes[l]) # 1
      <4>1. Len(nodes[l]) \in Nat /\ Len(nodes[l]) >= 1
        BY <1>2, <1>3
      <4>3. \A k \in Nat : k >= 1 /\ k # 1 => 1 + 1 \in 1..k
        OBVIOUS
      <4>2. 1 + 1 \in 1..Len(nodes[l])
        BY <3>2, <4>1, <4>3
      <4> QED
        BY <1>2, <3>2, <4>2 DEF NodeAt
    <3> QED
      BY <3>1, <3>2
  <2>3. NodeAt(l, 1 - 1) = NULL
    BY <1>2 DEF NodeAt
  <2> QED
    BY <2>1, <2>2, <2>3
<1>5. last' = IF 1 = Len(nodes[l]) THEN [last EXCEPT ![l] = NodeAt(l, 1 - 1)] ELSE last
  <2>1. last' = IF next[e] = NULL THEN [last EXCEPT ![l] = NULL] ELSE last
    BY DEF Get
  <2> QED
    BY <1>4, <2>1
<1>6. /\ nodes' \in [Lists -> Seq(Elements)]
      /\ Len(nodes'[l]) = Len(nodes[l]) - 1
      /\ \A i \in 1..(Len(nodes[l]) - 1) : nodes'[l][i] = nodes[l][i + 1]
      /\ \A m \in Lists : m # l => nodes'[m] = nodes[m]
  <2>1. nodes \in [Lists -> Seq(Elements)] /\ nodes' = [nodes EXCEPT ![l] = Tail(nodes[l])]
    BY DEF Get, Inv, FifoTypeOK, HeadTypes
  <2>2. nodes'[l] = Tail(nodes[l]) /\ Tail(nodes[l]) \in Seq(Elements)
    BY <1>2, <1>3, <2>1, TailFacts
  <2> QED
    BY <1>2, <1>3, <2>1, <2>2, TailFacts
<1>7. LoopTypes' /\ call'.op = "idle" /\ call'.list = NULL /\ cur' = NULL /\ prev' = NULL /\ pos' = 0
  BY DEF Get, Inv, FifoTypeOK, LoopTypes, ListInv, LoopOK, callVars, idle
<1>8. Free(e) /\ next' = [next EXCEPT ![e] = NULL] /\ first' = [first EXCEPT ![l] = next[e]]
      /\ count' = [count EXCEPT ![l] = @ - 1]
  BY DEF Get
<1>9. next' = (IF 1 = 1 THEN [next EXCEPT ![e] = NULL]
               ELSE [next EXCEPT ![nodes[l][1 - 1]] = next[e], ![e] = NULL])
      /\ first' = (IF 1 = 1 THEN [first EXCEPT ![l] = next[e]] ELSE first)
      /\ (\A i \in 1..(1 - 1) : nodes'[l][i] = nodes[l][i])
  BY <1>8
<1> HIDE DEF e
<1> QED
  BY <1>1, <1>3, <1>5, <1>6, <1>7, <1>8, <1>9, UnlinkKeeps

(* nl_fifo_remove() that finds its element keeps the invariant. *)
LEMMA RemoveHitKeeps == ASSUME Inv, RemoveHit PROVE Inv'
<1> DEFINE l == call.list
<1>1. Quiet /\ Plain /\ Distinct /\ ~idle /\ call.op = "remove"
  BY QuietPlain DEF RemoveHit, idle, Quiet
<1>2. l \in Lists /\ pos \in 1..(Len(nodes[l]) + 1) /\ cur = NodeAt(l, pos) /\ prev = NodeAt(l, pos - 1)
  BY <1>1 DEF Inv, ListInv, LoopOK
<1>3. nodes[l] \in Seq(Elements) /\ Len(nodes[l]) \in Nat
      /\ \A i \in 1..Len(nodes[l]) : nodes[l][i] \in Elements /\ nodes[l][i] # NULL
  BY <1>2, NodeFacts DEF Inv, FifoTypeOK
<1>4. pos \in 1..Len(nodes[l]) /\ cur = nodes[l][pos] /\ cur # NULL
      /\ (prev = NULL <=> pos = 1) /\ (pos # 1 => prev = nodes[l][pos - 1])
  BY <1>2, <1>3 DEF RemoveHit, NodeAt
<1>5. last[l] = cur <=> pos = Len(nodes[l])
  BY <1>1, <1>2, <1>3, <1>4 DEF Plain, NodeAt, Distinct
<1>6. last' = IF pos = Len(nodes[l]) THEN [last EXCEPT ![l] = NodeAt(l, pos - 1)] ELSE last
  BY <1>2, <1>5 DEF RemoveHit
<1>7. /\ next' = IF pos = 1 THEN [next EXCEPT ![cur] = NULL]
                 ELSE [next EXCEPT ![nodes[l][pos - 1]] = next[cur], ![cur] = NULL]
      /\ first' = IF pos = 1 THEN [first EXCEPT ![l] = next[cur]] ELSE first
  BY <1>4 DEF RemoveHit
<1>8. /\ nodes' \in [Lists -> Seq(Elements)]
      /\ Len(nodes'[l]) = Len(nodes[l]) - 1
      /\ \A i \in 1..(pos - 1) : nodes'[l][i] = nodes[l][i]
      /\ \A i \in pos..(Len(nodes[l]) - 1) : nodes'[l][i] = nodes[l][i + 1]
      /\ \A m \in Lists : m # l => nodes'[m] = nodes[m]
  <2> DEFINE t == SubSeq(nodes[l], 1, pos - 1) \o SubSeq(nodes[l], pos + 1, Len(nodes[l]))
  <2>1. nodes \in [Lists -> Seq(Elements)] /\ nodes' = [nodes EXCEPT ![l] = t]
    BY DEF RemoveHit, Inv, FifoTypeOK, HeadTypes
  <2>2. /\ t \in Seq(Elements) /\ Len(t) = Len(nodes[l]) - 1
        /\ \A i \in 1..(pos - 1) : t[i] = nodes[l][i]
        /\ \A i \in pos..(Len(nodes[l]) - 1) : t[i] = nodes[l][i + 1]
    BY <1>3, <1>4, CutFacts
  <2> HIDE DEF t
  <2>3. nodes'[l] = t
    BY <1>2, <2>1
  <2>4. nodes' \in [Lists -> Seq(Elements)]
    BY <1>2, <2>1, <2>2
  <2> QED
    BY <1>2, <2>1, <2>2, <2>3, <2>4
<1>9. LoopTypes' /\ call'.op = "idle" /\ call'.list = NULL /\ cur' = NULL /\ prev' = NULL /\ pos' = 0
  BY DEF RemoveHit, CallEnds, Idle, LoopTypes, Ops
<1>10. Free(cur) /\ count' = [count EXCEPT ![l] = @ - 1]
  BY DEF RemoveHit
<1> HIDE DEF l
<1> QED
  BY <1>1, <1>2, <1>4, <1>6, <1>7, <1>8, <1>9, <1>10, UnlinkKeeps

(* One turn of the loops that free. *)
LEMMA FreeStepKeeps == ASSUME Inv, RemoveStartStep \/ DestroyStep \/ RemoveEndStep PROVE Inv'
<1> DEFINE l == call.list
           n == Len(nodes[l])
<1>1. /\ call.op \in {"start", "destroy", "endfree"} /\ cur # NULL /\ FreeCur
      /\ UNCHANGED <<first, last, prev, call, nodes>>
      /\ count' = IF call.op = "destroy" THEN count ELSE [count EXCEPT ![l] = @ - 1]
      /\ call.op = "start" => pos - 1 < call.n
  BY DEF RemoveStartStep, DestroyStep, RemoveEndStep, heads
<1>2. ~idle /\ \A m \in Lists : ~Moving(m) /\ ~Moving(m)'
  BY <1>1 DEF idle, Moving
<1>3. call \in [op : Ops, list : Lists \cup {NULL}, dest : Lists \cup {NULL}, n : Nat,
               freeing : Nat, data : Data \cup {NULL}, first : Elements \cup {NULL}, last : Elements \cup {NULL}]
      /\ call.n \in Nat
  BY DEF Inv, FifoTypeOK, LoopTypes
<1>4. l \in Lists /\ pos \in 1..(n + 1) /\ cur = NodeAt(l, pos)
  BY <1>2 DEF Inv, ListInv, LoopOK
<1>5. \A m \in Lists : /\ Len(nodes[m]) \in Nat
                       /\ \A i \in 1..Len(nodes[m]) : nodes[m][i] \in Elements /\ nodes[m][i] # NULL
  BY NodeFacts DEF Inv, FifoTypeOK
<1>6. pos \in 1..n /\ cur = nodes[l][pos] /\ cur \in Elements /\ n \in Nat
  BY <1>1, <1>4, <1>5 DEF NodeAt
<1>7. /\ call' = call /\ nodes' = nodes /\ pos' = pos + 1 /\ cur' = next[cur] /\ prev' = prev
      /\ allocated' = allocated \ {cur}
      /\ \A x \in Elements : x # cur =>
            data'[x] = data[x] /\ owner'[x] = owner[x] /\ next'[x] = next[x]
  BY <1>1, <1>6 DEF FreeCur, Free, Inv, FifoTypeOK, HeapTypes
<1>8. call.op = "endfree" => call.n \in 1..n /\ call.n < pos /\ prev = NodeAt(l, call.n)
  BY <1>2 DEF Inv, ListInv, LoopOK
<1>9. pos \in Live(l)
  BY <1>1, <1>6 DEF Live, Freed
<1>10. \A m \in Lists : \A i \in Live(m)' :
         i \in Live(m) /\ i \in 1..Len(nodes[m]) /\ nodes[m][i] # cur
  <2> SUFFICES ASSUME NEW m \in Lists, NEW i \in Live(m)'
               PROVE  i \in Live(m) /\ i \in 1..Len(nodes[m]) /\ nodes[m][i] # cur
    OBVIOUS
  <2>1. i \in Live(m) /\ i \in 1..Len(nodes[m])
    BY <1>1, <1>6, <1>7 DEF Live, Freed
  <2>2. m = l => i # pos
    BY <1>1, <1>3, <1>6, <1>7, <1>8 DEF Live, Freed
  <2> QED
    BY <1>4, <1>6, <2>1, <2>2 DEF Inv, ListInv, Distinct
<1>11. \A m \in Lists : \A i \in Live(m) : (m = l /\ i = pos) \/ i \in Live(m)'
  BY <1>1, <1>5, <1>6, <1>7 DEF Live, Freed
<1>12. \A m \in Lists : \A i \in Int : NodeAt(m, i)' = NodeAt(m, i)
  BY <1>7 DEF NodeAt
<1>13. next[cur] = NodeAt(l, pos + 1)
  BY <1>4, <1>6, <1>9 DEF Inv, ListInv, Chained
<1>14. FifoTypeOK'
  <2>1. HeadTypes'
    <3>1. count[l] \in Nat /\ (call.op # "destroy" => count[l] - 1 \in Nat)
      BY <1>1, <1>3, <1>4, <1>6, <1>8 DEF Inv, ListInv, HeadsOK, FifoTypeOK, HeadTypes
    <3>2. count' \in [Lists -> Nat]
      BY <1>1, <3>1 DEF Inv, FifoTypeOK, HeadTypes
    <3> QED
      BY <1>1, <3>2 DEF Inv, FifoTypeOK, HeadTypes
  <2>2. next' \in [Elements -> Elements \cup {NULL}]
    BY <1>1 DEF FreeCur, Inv, FifoTypeOK, HeapTypes
  <2>3. LoopTypes'
    <3>1. cur' \in Elements \cup {NULL}
      BY <1>6, <1>7 DEF Inv, FifoTypeOK, HeapTypes
    <3> QED
      BY <1>7, <3>1 DEF Inv, FifoTypeOK, LoopTypes
  <2> QED
    BY <1>1, <1>6, <2>1, <2>2, <2>3, FreeTypes DEF FreeCur, FifoTypeOK, HeapTypes
<1>15. Distinct'
  BY <1>7 DEF Inv, ListInv, Distinct
<1>16. Accounted'
  <2> SUFFICES ASSUME NEW x \in Elements
               PROVE  x \in allocated' <=> \E m \in Lists : \E i \in Live(m)' : nodes'[m][i] = x
    BY DEF Accounted
  <2>1. x \in allocated <=> \E m \in Lists : \E i \in Live(m) : nodes[m][i] = x
    BY DEF Inv, ListInv, Accounted
  <2>2. ASSUME x \in allocated' PROVE \E m \in Lists : \E i \in Live(m)' : nodes'[m][i] = x
    <3>1. x # cur /\ x \in allocated
      BY <1>7, <2>2
    <3>2. PICK m \in Lists : \E i \in Live(m) : nodes[m][i] = x
      BY <2>1, <3>1
    <3>3. PICK i \in Live(m) : nodes[m][i] = x
      BY <3>2
    <3>4. i \in Live(m)'
      BY <1>6, <1>11, <3>1, <3>3
    <3> QED
      BY <1>7, <3>3, <3>4
  <2>3. ASSUME NEW m \in Lists, NEW i \in Live(m)', nodes'[m][i] = x PROVE x \in allocated'
    BY <1>7, <1>10, <2>1, <2>3
  <2> QED
    BY <2>2, <2>3
<1>17. Chained'
  <2> SUFFICES ASSUME NEW m \in Lists, NEW i \in Live(m)'
               PROVE  /\ next'[nodes'[m][i]] = NodeAt(m, i + 1)'
                      /\ data'[nodes'[m][i]] \in Data
                      /\ owner'[nodes'[m][i]] = m
    BY <1>2 DEF Chained
  <2>1. i \in Live(m) /\ nodes[m][i] # cur /\ nodes[m][i] \in Elements /\ i + 1 \in Int
    BY <1>5, <1>10
  <2>2. next[nodes[m][i]] = NodeAt(m, i + 1) /\ data[nodes[m][i]] \in Data /\ owner[nodes[m][i]] = m
    BY <1>2, <2>1 DEF Inv, ListInv, Chained
  <2> QED
    BY <1>7, <1>12, <2>1, <2>2
<1>18. HeadsOK'
  <2>1. \A m \in Lists : /\ first'[m] = NodeAt(m, 1)'
                         /\ last'[m] = NodeAt(m, Len(nodes[m]))'
    <3>1. \A m \in Lists : NodeAt(m, 1)' = NodeAt(m, 1) /\ NodeAt(m, Len(nodes[m]))' = NodeAt(m, Len(nodes[m]))
      BY <1>7 DEF NodeAt
    <3> QED
      BY <1>1, <1>2, <3>1 DEF Inv, ListInv, HeadsOK
  <2>2. \A m \in Lists : m # l => count'[m] = count[m] /\ count[m] = Len(nodes[m])
    BY <1>1, <1>4 DEF Inv, ListInv, HeadsOK, FifoTypeOK, HeadTypes
  <2>3. call.op = "destroy" => count'[l] = count[l] /\ count[l] = n
    BY <1>1, <1>4 DEF Inv, ListInv, HeadsOK
  <2>4. call.op = "start" => count'[l] = count[l] - 1 /\ count[l] = n - (pos - 1)
    BY <1>1, <1>4 DEF Inv, ListInv, HeadsOK, FifoTypeOK, HeadTypes
  <2>5. call.op = "endfree" => count'[l] = count[l] - 1 /\ count[l] = n - (pos - 1) + call.n
    BY <1>1, <1>4 DEF Inv, ListInv, HeadsOK, FifoTypeOK, HeadTypes
  <2>6. \A m \in Lists :
           count'[m] = IF call.list = m /\ call.op \in {"start", "endfree"}
                       THEN IF call.op = "start" THEN Len(nodes[m]) - (pos' - 1)
                            ELSE Len(nodes[m]) - (pos' - 1) + call.n
                       ELSE Len(nodes[m])
    <3> SUFFICES ASSUME NEW m \in Lists
                 PROVE  count'[m] = IF call.list = m /\ call.op \in {"start", "endfree"}
                                    THEN IF call.op = "start" THEN Len(nodes[m]) - (pos' - 1)
                                         ELSE Len(nodes[m]) - (pos' - 1) + call.n
                                    ELSE Len(nodes[m])
      OBVIOUS
    <3>1. CASE m # call.list
      BY <2>2, <3>1
    <3>2. CASE m = call.list /\ call.op = "start"
      BY <1>6, <1>7, <2>4, <3>2
    <3>3. CASE m = call.list /\ call.op = "endfree"
      BY <1>3, <1>6, <1>7, <2>5, <3>3
    <3>4. CASE m = call.list /\ call.op = "destroy"
      BY <2>3, <3>4
    <3> QED
      BY <1>1, <3>1, <3>2, <3>3, <3>4
  <2> QED
    BY <1>2, <1>7, <2>1, <2>6 DEF HeadsOK
<1>19. LoopOK'
  <2>1. ~idle' /\ ~Moving(l)'
    BY <1>2, <1>4, <1>7 DEF idle, Moving
  <2>2. pos' \in 1..(n + 1) /\ cur' = NodeAt(l, pos')
    BY <1>6, <1>7, <1>13
  <2>3. call.op = "start" => pos' - 1 <= call.n
    BY <1>1, <1>3, <1>6, <1>7
  <2>4. call.op # "remove" /\ call.op # "endwalk"
    BY <1>1
  <2>5. call.op = "endfree" => call.n < pos'
    BY <1>3, <1>6, <1>7, <1>8
  <2>6. call'.list = l /\ call'.op = call.op /\ call'.n = call.n /\ pos' \in Int
    BY <1>6, <1>7
  <2>7. call'.list \in Lists /\ ~Moving(call.list)' /\ nodes'[call'.list] = nodes[l]
    BY <1>4, <1>7, <2>1, <2>6 DEF Moving
  <2>8. NodeAt(call.list, pos)' = NodeAt(l, pos') /\ NodeAt(call.list, call.n)' = NodeAt(l, call.n)
    BY <1>7 DEF NodeAt
  <2>9. /\ pos' \in 1..(Len(nodes'[call'.list]) + 1)
        /\ cur' = NodeAt(call.list, pos)'
        /\ call'.op = "start" => pos' - 1 <= call'.n
        /\ call'.op # "remove" /\ call'.op # "endwalk"
        /\ call'.op = "endfree" => call'.n + call'.freeing = Len(nodes'[call'.list])
        /\ call'.op = "endfree" => /\ call'.n \in 1..Len(nodes'[call'.list]) /\ call'.n < pos'
                                  /\ prev' = NodeAt(call.list, call.n)'
    <3>1. call.op = "endfree" => call.n + call.freeing = Len(nodes[l])
      BY <1>1 DEF Inv, ListInv, LoopOK, idle
    <3> QED
      BY <1>7, <1>8, <2>2, <2>3, <2>4, <2>5, <2>6, <2>7, <2>8, <3>1
  <2> HIDE DEF l
  <2> QED
    BY <2>1, <2>7, <2>9 DEF LoopOK
<1> QED
  BY <1>14, <1>15, <1>16, <1>17, <1>18, <1>19 DEF Inv, ListInv

(* A freeing loop is over: nodes off+1 to off+k are what is left of list l. *)
LEMMA TrimKeeps ==
  ASSUME Inv, call.op \in {"start", "destroy", "endfree"},
         NEW l \in Lists, l = call.list, NEW off \in Nat, NEW k \in Nat,
         Live(l) = (off + 1)..(off + k), off + k <= Len(nodes[l]),
         Len(nodes'[l]) = k,
         \A i \in 1..k : nodes'[l][i] = nodes[l][off + i],
         \A m \in Lists : m # l => nodes'[m] = nodes[m],
         UNCHANGED <<data, owner, allocated>>,
         IF k = 0 THEN next' = next
         ELSE /\ next'[nodes[l][off + k]] = NULL
              /\ \A x \in Elements : x # nodes[l][off + k] => next'[x] = next[x],
         first'[l] = NodeAt(l, 1)', last'[l] = NodeAt(l, Len(nodes[l]))', count'[l] = k,
         \A m \in Lists : m # l => first'[m] = first[m] /\ last'[m] = last[m] /\ count'[m] = count[m],
         FifoTypeOK', call'.op = "idle", call'.list = NULL, cur' = NULL, prev' = NULL, pos' = 0
  PROVE  Inv'
<1>1. \A m \in Lists : ~Moving(m) /\ (m # l => Live(m) = 1..Len(nodes[m]))
  BY DEF Moving, Live, Freed
<1>2. \A m \in Lists : /\ Len(nodes[m]) \in Nat
                       /\ \A i \in 1..Len(nodes[m]) : nodes[m][i] \in Elements /\ nodes[m][i] # NULL
  BY NodeFacts DEF Inv, FifoTypeOK
<1>0. \A i \in 1..k : off + i \in 1..Len(nodes[l]) /\ off + i \in Live(l)
  <2> SUFFICES ASSUME NEW i \in 1..k PROVE off + i \in 1..Len(nodes[l]) /\ off + i \in Live(l)
    OBVIOUS
  <2>1. off + i \in 1..Len(nodes[l]) /\ off + i \in (off + 1)..(off + k)
    BY <1>2
  <2> QED
    BY <2>1
<1> DEFINE orig(m, i) == IF m = l THEN off + i ELSE i
<1>3. \A m \in Lists : \A i \in 1..Len(nodes'[m]) :
         /\ orig(m, i) \in 1..Len(nodes[m]) /\ orig(m, i) \in Live(m)
         /\ nodes'[m][i] = nodes[m][orig(m, i)]
  <2> SUFFICES ASSUME NEW m \in Lists, NEW i \in 1..Len(nodes'[m])
               PROVE  /\ orig(m, i) \in 1..Len(nodes[m]) /\ orig(m, i) \in Live(m)
                      /\ nodes'[m][i] = nodes[m][orig(m, i)]
    OBVIOUS
  <2>1. CASE m = l
    BY <1>0, <2>1
  <2>2. CASE m # l
    BY <1>1, <2>2
  <2> QED
    BY <2>1, <2>2
<1>4. \A m \in Lists : \A j \in Live(m) :
         \E i \in 1..Len(nodes'[m]) : nodes'[m][i] = nodes[m][j]
  <2> SUFFICES ASSUME NEW m \in Lists, NEW j \in Live(m)
               PROVE  \E i \in 1..Len(nodes'[m]) : nodes'[m][i] = nodes[m][j]
    OBVIOUS
  <2>1. CASE m # l
    BY <1>1, <2>1
  <2>2. CASE m = l
    <3>1. j - off \in 1..k /\ off + (j - off) = j
      BY <2>2
    <3>2. nodes'[l][j - off] = nodes[l][off + (j - off)]
      BY <3>1
    <3> QED
      BY <2>2, <3>1, <3>2
  <2> QED
    BY <2>1, <2>2
<1>5. Distinct'
  <2> SUFFICES ASSUME NEW m \in Lists, NEW q \in Lists,
                      NEW i \in 1..Len(nodes'[m]), NEW j \in 1..Len(nodes'[q]),
                      nodes'[m][i] = nodes'[q][j]
               PROVE  m = q /\ i = j
    BY DEF Distinct
  <2>1. /\ orig(m, i) \in 1..Len(nodes[m]) /\ orig(q, j) \in 1..Len(nodes[q])
        /\ nodes[m][orig(m, i)] = nodes[q][orig(q, j)]
    BY <1>3
  <2>2. m = q /\ orig(m, i) = orig(q, j)
    <3> HIDE DEF orig
    <3> QED
      BY SMTT(40), <2>1 DEF Inv, ListInv, Distinct
  <2> QED
    BY <1>2, <2>2
<1>6. \A m \in Lists : \A i \in 1..Len(nodes'[m]) :
         nodes'[m][i] \in allocated' /\ data'[nodes'[m][i]] \in Data /\ owner'[nodes'[m][i]] = m
  <2> SUFFICES ASSUME NEW m \in Lists, NEW i \in 1..Len(nodes'[m])
               PROVE  nodes'[m][i] \in allocated /\ data[nodes'[m][i]] \in Data
                      /\ owner[nodes'[m][i]] = m
    OBVIOUS
  <2> HIDE DEF orig
  <2>1. /\ orig(m, i) \in 1..Len(nodes[m]) /\ orig(m, i) \in Live(m)
        /\ nodes'[m][i] = nodes[m][orig(m, i)]
    BY <1>3
  <2>2. nodes'[m][i] \in Elements
    BY <1>2, <2>1
  <2>3. nodes'[m][i] \in allocated
    BY <2>1, <2>2 DEF Inv, ListInv, Accounted
  <2> QED
    BY <1>1, <2>1, <2>3 DEF Inv, ListInv, Chained
<1>7. \A m \in Lists : \A i \in 1..Len(nodes'[m]) : next'[nodes'[m][i]] = NodeAt(m, i + 1)'
  <2> SUFFICES ASSUME NEW m \in Lists, NEW i \in 1..Len(nodes'[m])
               PROVE  next'[nodes'[m][i]] = NodeAt(m, i + 1)'
    OBVIOUS
  <2>1. CASE m # l
    <3>1. nodes'[m] = nodes[m] /\ i \in 1..Len(nodes[m]) /\ i \in Live(m) /\ nodes[m][i] \in Elements
      BY <1>1, <1>2, <2>1
    <3>2. next[nodes[m][i]] = NodeAt(m, i + 1)
      BY <3>1 DEF Inv, ListInv, Chained
    <3>3. next'[nodes[m][i]] = next[nodes[m][i]]
      <4>1. CASE k = 0
        BY <4>1
      <4>2. CASE k # 0
        <5>1. off + k \in 1..Len(nodes[l])
          BY <4>2
        <5>2. nodes[m][i] # nodes[l][off + k]
          BY <2>1, <3>1, <5>1 DEF Inv, ListInv, Distinct
        <5> QED
          BY <3>1, <4>2, <5>2
      <4> QED
        BY <4>1, <4>2
    <3> QED
      BY <3>1, <3>2, <3>3 DEF NodeAt
  <2>2. CASE m = l /\ i = k
    <3>1. k # 0 /\ nodes'[m][i] = nodes[l][off + k]
      BY <2>2
    <3>2. i + 1 \notin 1..Len(nodes'[l])
      BY <2>2
    <3>3. NodeAt(m, i + 1)' = NULL
      BY <2>2, <3>2 DEF NodeAt
    <3> QED
      BY <3>1, <3>3
  <2>3. CASE m = l /\ i < k
    <3>1. /\ k # 0 /\ i \in 1..k /\ k \in 1..k /\ i + 1 \in 1..k
          /\ off + i # off + k /\ (off + i) + 1 = off + (i + 1)
      BY <2>3
    <3>2. /\ off + i \in Live(l) /\ off + i \in 1..Len(nodes[l]) /\ off + k \in 1..Len(nodes[l])
          /\ off + (i + 1) \in 1..Len(nodes[l]) /\ nodes'[m][i] = nodes[l][off + i]
      BY <1>0, <2>3, <3>1
    <3>6. nodes[l][off + i] # nodes[l][off + k]
      BY <3>1, <3>2 DEF Inv, ListInv, Distinct
    <3>7. next[nodes[l][off + i]] = NodeAt(l, off + (i + 1))
      <4>1. next[nodes[l][off + i]] = NodeAt(l, (off + i) + 1)
        BY <3>2 DEF Inv, ListInv, Chained
      <4> QED
        BY <3>1, <4>1
    <3>3. next'[nodes[l][off + i]] = NodeAt(l, off + (i + 1))
      BY <1>2, <3>1, <3>2, <3>6, <3>7
    <3>4. NodeAt(l, off + (i + 1)) = nodes[l][off + (i + 1)]
      BY <3>2 DEF NodeAt
    <3>5. NodeAt(m, i + 1)' = nodes'[l][i + 1]
      BY <2>3, <3>1 DEF NodeAt
    <3> QED
      BY ZenonT(60), <3>1, <3>2, <3>3, <3>4, <3>5
  <2> QED
    BY <2>1, <2>2, <2>3
<1>8. \A m \in Lists : /\ first'[m] = NodeAt(m, 1)'
                       /\ last'[m] = NodeAt(m, Len(nodes[m]))'
                       /\ count'[m] = Len(nodes'[m])
  <2> SUFFICES ASSUME NEW m \in Lists, m # l
               PROVE  /\ first'[m] = NodeAt(m, 1)'
                      /\ last'[m] = NodeAt(m, Len(nodes[m]))'
                      /\ count'[m] = Len(nodes'[m])
    OBVIOUS
  <2>1. /\ first[m] = NodeAt(m, 1) /\ last[m] = NodeAt(m, Len(nodes[m]))
        /\ count[m] = Len(nodes[m])
    BY <1>1 DEF Inv, ListInv, HeadsOK
  <2> QED
    BY <2>1 DEF NodeAt
<1>9. \A x \in allocated' : \E m \in Lists : \E i \in 1..Len(nodes'[m]) : nodes'[m][i] = x
  <2> SUFFICES ASSUME NEW x \in allocated
               PROVE  \E m \in Lists : \E i \in 1..Len(nodes'[m]) : nodes'[m][i] = x
    OBVIOUS
  <2>1. \E m \in Lists : \E j \in Live(m) : nodes[m][j] = x
    BY DEF Inv, ListInv, Accounted, FifoTypeOK, HeapTypes
  <2> QED
    BY <1>4, <2>1
<1>10. Plain'
  BY <1>6, <1>7, <1>8, <1>9 DEF Plain
<1> QED
  BY <1>5, <1>10, PlainAfter

(* The facts about a freeing loop that has ended. *)
LEMMA LoopEnds ==
  ASSUME Inv, call.op \in {"start", "destroy", "endfree"}
  PROVE  LET l == call.list IN
         /\ l \in Lists /\ pos \in 1..(Len(nodes[l]) + 1) /\ Len(nodes[l]) \in Nat
         /\ cur = NodeAt(l, pos) /\ (cur = NULL <=> pos = Len(nodes[l]) + 1)
         /\ call.n \in Nat /\ ~Moving(l) /\ nodes[l] \in Seq(Elements)
<1>1. ~idle
  BY DEF idle
<1>2. call.list \in Lists /\ pos \in 1..(Len(nodes[call.list]) + 1) /\ cur = NodeAt(call.list, pos)
  BY <1>1 DEF Inv, ListInv, LoopOK
<1>3. nodes[call.list] \in Seq(Elements) /\ Len(nodes[call.list]) \in Nat
      /\ \A i \in 1..Len(nodes[call.list]) : nodes[call.list][i] # NULL
  BY <1>2, NodeFacts DEF Inv, FifoTypeOK
<1>4. cur = NULL <=> pos = Len(nodes[call.list]) + 1
  BY <1>2, <1>3 DEF NodeAt
<1>5. call.n \in Nat
  BY DEF Inv, FifoTypeOK, LoopTypes
<1> QED
  BY <1>2, <1>3, <1>4, <1>5 DEF Moving

(* nl_fifo_destroy() and a new list keep the invariant. *)
LEMMA DestroyEndKeeps == ASSUME Inv, DestroyEnd PROVE Inv'
<1>1. call.op = "destroy" /\ cur = NULL /\ UNCHANGED <<heap, iteration>> /\ call.list \in Lists
  BY LoopEnds DEF DestroyEnd
<1>2. PICK l \in Lists : l = call.list
  BY <1>1
<1>3. pos = Len(nodes[l]) + 1 /\ Len(nodes[l]) \in Nat
  BY <1>1, <1>2, LoopEnds
<1>4. Live(l) = (0 + 1)..(0 + 0) /\ 0 + 0 <= Len(nodes[l])
  <2>1. \A i \in 1..Len(nodes[l]) : Freed(l, i)
    BY <1>1, <1>2, <1>3 DEF Freed
  <2> QED
    BY <1>3, <2>1 DEF Live
<1>5. /\ nodes' \in [Lists -> Seq(Elements)] /\ nodes'[l] = <<>> /\ Len(nodes'[l]) = 0
      /\ \A m \in Lists : m # l => nodes'[m] = nodes[m]
  <2>1. <<>> \in Seq(Elements) /\ Len(<<>>) = 0
    OBVIOUS
  <2>2. nodes' = [nodes EXCEPT ![l] = <<>>]
    BY <1>2 DEF DestroyEnd
  <2> QED
    BY <1>2, <2>1, <2>2 DEF Inv, FifoTypeOK, HeadTypes
<1>6. /\ first' \in [Lists -> Elements \cup {NULL}] /\ last' \in [Lists -> Elements \cup {NULL}]
      /\ count' \in [Lists -> Nat]
      /\ first'[l] = NULL /\ last'[l] = NULL /\ count'[l] = 0
      /\ \A m \in Lists : m # l => first'[m] = first[m] /\ last'[m] = last[m] /\ count'[m] = count[m]
  BY <1>2 DEF DestroyEnd, Inv, FifoTypeOK, HeadTypes
<1>7. NodeAt(l, 1)' = NULL /\ NodeAt(l, Len(nodes[l]))' = NULL
  BY <1>5 DEF NodeAt
<1>8. call' = Idle /\ cur' = NULL /\ prev' = NULL /\ pos' = 0
  BY DEF DestroyEnd, CallEnds
<1>9. LoopTypes' /\ call'.op = "idle" /\ call'.list = NULL
  BY <1>8 DEF LoopTypes, Idle, Ops
<1>10. FifoTypeOK'
  BY <1>1, <1>5, <1>6, <1>9 DEF Inv, FifoTypeOK, HeadTypes, HeapTypes, IterTypes, heap, iteration
<1>11. \A i \in 1..0 : nodes'[l][i] = nodes[l][0 + i]
  OBVIOUS
<1>12. UNCHANGED <<next, data, owner, allocated>>
  BY <1>1 DEF heap
<1> DEFINE none == 0
<1>13. /\ none \in Nat /\ Live(l) = (none + 1)..(none + none) /\ none + none <= Len(nodes[l])
       /\ \A i \in 1..none : nodes'[l][i] = nodes[l][none + i]
       /\ Len(nodes'[l]) = none /\ count'[l] = none /\ none = 0
       /\ first'[l] = NodeAt(l, 1)' /\ last'[l] = NodeAt(l, Len(nodes[l]))'
       /\ call.op \in {"start", "destroy", "endfree"}
  BY <1>1, <1>4, <1>5, <1>6, <1>7, <1>11
<1> HIDE DEF none
<1> QED
  BY <1>2, <1>5, <1>6, <1>8, <1>9, <1>10, <1>12, <1>13, TrimKeeps

(* The end of nl_fifo_remove_start() keeps the invariant. *)
LEMMA RemoveStartEndKeeps == ASSUME Inv, RemoveStartEnd PROVE Inv'
<1>1. /\ call.op = "start" /\ UNCHANGED <<count, heap, iteration>> /\ call.list \in Lists
      /\ (pos - 1 >= call.n \/ cur = NULL)
  BY LoopEnds DEF RemoveStartEnd
<1>2. PICK l \in Lists : l = call.list
  BY <1>1
<1>3. /\ pos \in 1..(Len(nodes[l]) + 1) /\ Len(nodes[l]) \in Nat /\ nodes[l] \in Seq(Elements)
      /\ cur = NodeAt(l, pos) /\ (cur = NULL <=> pos = Len(nodes[l]) + 1) /\ call.n \in Nat
  BY <1>1, <1>2, LoopEnds
<1> DEFINE off == pos - 1
           k == Len(nodes[l]) - off
<1>4. /\ off \in Nat /\ k \in Nat /\ off + k = Len(nodes[l]) /\ off <= call.n
      /\ (k = 0 \/ call.n = off)
  <2>1. off <= call.n
    BY <1>1, <1>2 DEF Inv, ListInv, LoopOK, idle
  <2> QED
    BY <1>1, <1>3, <2>1
<1>5. Live(l) = (off + 1)..(off + k)
  <2>1. \A i \in 1..Len(nodes[l]) : Freed(l, i) <=> i < pos
    BY <1>1, <1>2 DEF Freed
  <2> QED
    BY <1>3, <2>1 DEF Live
<1>6. /\ nodes' \in [Lists -> Seq(Elements)] /\ Len(nodes'[l]) = k
      /\ \A i \in 1..k : nodes'[l][i] = nodes[l][off + i]
      /\ \A m \in Lists : m # l => nodes'[m] = nodes[m]
  <2> DEFINE t == SubSeq(nodes[l], call.n + 1, Len(nodes[l]))
  <2>1. t \in Seq(Elements) /\ Len(t) = k /\ \A i \in 1..k : t[i] = nodes[l][off + i]
    <3>1. /\ t \in Seq(Elements)
          /\ Len(t) = IF call.n + 1 <= Len(nodes[l]) THEN Len(nodes[l]) - (call.n + 1) + 1 ELSE 0
          /\ \A i \in 1..(Len(nodes[l]) - (call.n + 1) + 1) : t[i] = nodes[l][(call.n + 1) + i - 1]
      BY SMTT(40), <1>3, SubSeqFacts
    <3> HIDE DEF t
    <3>2. CASE k = 0
      BY SMTT(40), <1>3, <1>4, <3>1, <3>2
    <3>3. CASE k # 0
      <4>1. call.n = off /\ call.n + 1 <= Len(nodes[l])
        BY <1>3, <1>4, <3>3
      <4>2. \A i \in 1..k : i \in 1..(Len(nodes[l]) - (call.n + 1) + 1) /\ (call.n + 1) + i - 1 = off + i
        BY <1>3, <4>1
      <4> QED
        BY <1>3, <3>1, <4>1, <4>2
    <3> QED
      BY <3>2, <3>3
  <2>2. nodes \in [Lists -> Seq(Elements)] /\ nodes' = [nodes EXCEPT ![l] = t]
    BY <1>2 DEF RemoveStartEnd, Inv, FifoTypeOK, HeadTypes
  <2> HIDE DEF t, k, off
  <2> QED
    BY <2>1, <2>2
<1>7. /\ first' \in [Lists -> Elements \cup {NULL}] /\ last' \in [Lists -> Elements \cup {NULL}]
      /\ first'[l] = cur /\ last'[l] = (IF cur = NULL THEN NULL ELSE last[l]) /\ count' = count
      /\ \A m \in Lists : m # l => first'[m] = first[m] /\ last'[m] = last[m] /\ count'[m] = count[m]
  BY <1>2 DEF RemoveStartEnd, Inv, FifoTypeOK, HeadTypes, LoopTypes
<1>8. last[l] = NodeAt(l, Len(nodes[l])) /\ count[l] = k
  BY <1>1, <1>2 DEF Inv, ListInv, HeadsOK, Moving
<1>9. NodeAt(l, 1)' = cur /\ NodeAt(l, Len(nodes[l]))' = last'[l]
  <2>1. CASE k = 0
    BY <1>3, <1>6, <1>7, <2>1 DEF NodeAt
  <2>2. CASE k # 0
    <3>1. 1 \in 1..k /\ k \in 1..k /\ off + 1 = pos /\ pos \in 1..Len(nodes[l]) /\ cur # NULL
          /\ Len(nodes[l]) \in 1..Len(nodes[l])
      BY <1>3, <1>4, <2>2
    <3> HIDE DEF off, k
    <3>2. NodeAt(l, 1)' = nodes[l][pos] /\ NodeAt(l, Len(nodes[l]))' = nodes[l][off + k]
      BY <1>6, <3>1 DEF NodeAt
    <3> QED
      BY <1>3, <1>4, <1>7, <1>8, <3>1, <3>2 DEF NodeAt
  <2> QED
    BY <2>1, <2>2
<1>10. call' = Idle /\ cur' = NULL /\ prev' = NULL /\ pos' = 0
  BY DEF RemoveStartEnd, CallEnds
<1>11. LoopTypes' /\ call'.op = "idle" /\ call'.list = NULL
  BY <1>10 DEF LoopTypes, Idle, Ops
<1>12. FifoTypeOK'
  BY <1>1, <1>6, <1>7, <1>11 DEF Inv, FifoTypeOK, HeadTypes, HeapTypes, IterTypes, heap, iteration
<1>13. UNCHANGED <<next, data, owner, allocated>>
  BY <1>1 DEF heap
<1>14. IF k = 0 THEN next' = next
      ELSE /\ next'[nodes[l][off + k]] = NULL
           /\ \A x \in Elements : x # nodes[l][off + k] => next'[x] = next[x]
  <2>1. CASE k # 0
    <3>1. Len(nodes[l]) \in Live(l) /\ Len(nodes[l]) + 1 \notin 1..Len(nodes[l])
      BY <1>3, <1>4, <1>5, <2>1
    <3>2. next[nodes[l][Len(nodes[l])]] = NULL
      BY <3>1 DEF Inv, ListInv, Chained, NodeAt
    <3> QED
      BY <1>4, <1>13, <2>1, <3>2
  <2> QED
    BY <1>13, <2>1
<1> HIDE DEF off, k
<1>15. off + k <= Len(nodes[l]) /\ first'[l] = NodeAt(l, 1)' /\ last'[l] = NodeAt(l, Len(nodes[l]))'
       /\ count'[l] = k /\ call.op \in {"start", "destroy", "endfree"}
  BY <1>1, <1>3, <1>4, <1>7, <1>8, <1>9
<1> QED
  BY ZenonT(60), <1>2, <1>4, <1>5, <1>6, <1>7, <1>10, <1>11, <1>12, <1>13, <1>14, <1>15, TrimKeeps

(* The end of nl_fifo_remove_end() keeps the invariant. *)
LEMMA RemoveEndFinishKeeps == ASSUME Inv, RemoveEndFinish PROVE Inv'
<1>1. /\ call.op = "endfree" /\ cur = NULL /\ call.list \in Lists
      /\ UNCHANGED <<first, count, data, owner, allocated, iteration>>
  <2>1. call.op = "endfree" /\ ~idle
    BY DEF RemoveEndFinish, idle
  <2>2. call.list \in Lists
    BY <2>1 DEF Inv, ListInv, LoopOK
  <2>3. cur = NULL
    <3>1. pos - 1 >= call.n + call.freeing \/ cur = NULL
      BY DEF RemoveEndFinish
    <3>2. /\ call.n + call.freeing = Len(nodes[call.list])
          /\ pos \in 1..(Len(nodes[call.list]) + 1) /\ cur = NodeAt(call.list, pos)
      BY <2>1 DEF Inv, ListInv, LoopOK
    <3>3. Len(nodes[call.list]) \in Nat
      BY <2>2, NodeFacts DEF Inv, FifoTypeOK
    <3>4. pos - 1 >= Len(nodes[call.list]) => pos \notin 1..Len(nodes[call.list])
      BY <3>2, <3>3
    <3> QED
      BY <3>1, <3>2, <3>4 DEF NodeAt
  <2> QED
    BY <2>1, <2>2, <2>3 DEF RemoveEndFinish
<1>2. PICK l \in Lists : l = call.list
  BY <1>1
<1>3. /\ pos = Len(nodes[l]) + 1 /\ Len(nodes[l]) \in Nat /\ nodes[l] \in Seq(Elements)
      /\ \A i \in 1..Len(nodes[l]) : nodes[l][i] \in Elements /\ nodes[l][i] # NULL
  BY <1>1, <1>2, LoopEnds, NodeFacts DEF Inv, FifoTypeOK
<1> DEFINE k == call.n
           none == 0
<1>4. k \in 1..Len(nodes[l]) /\ prev = NodeAt(l, k)
  BY <1>1, <1>2 DEF Inv, ListInv, LoopOK, idle
<1>5. prev = nodes[l][k] /\ prev \in Elements
  BY <1>3, <1>4 DEF NodeAt
<1>6. Live(l) = (none + 1)..(none + k)
  <2>1. \A i \in 1..Len(nodes[l]) : Freed(l, i) <=> k < i
    BY <1>1, <1>2, <1>3 DEF Freed
  <2> QED
    BY <1>3, <1>4, <2>1 DEF Live
<1>7. /\ nodes' \in [Lists -> Seq(Elements)] /\ Len(nodes'[l]) = k
      /\ \A i \in 1..k : nodes'[l][i] = nodes[l][none + i]
      /\ \A m \in Lists : m # l => nodes'[m] = nodes[m]
  <2> DEFINE t == SubSeq(nodes[l], 1, k)
  <2>1. t \in Seq(Elements) /\ Len(t) = k /\ \A i \in 1..k : t[i] = nodes[l][i]
    <3>1. k \in Nat /\ 1 <= k /\ k <= Len(nodes[l])
      BY <1>3, <1>4
    <3> HIDE DEF k
    <3> QED
      BY <1>3, <3>1, SubSeqFacts
  <2>2. nodes \in [Lists -> Seq(Elements)] /\ nodes' = [nodes EXCEPT ![l] = t]
    BY <1>2 DEF RemoveEndFinish, Inv, FifoTypeOK, HeadTypes
  <2>3. \A i \in 1..k : none + i = i
    BY <1>3, <1>4
  <2> HIDE DEF t, k, none
  <2> QED
    BY <2>1, <2>2, <2>3
<1>8. /\ last' \in [Lists -> Elements \cup {NULL}]
      /\ last'[l] = prev /\ first' = first /\ count' = count
      /\ \A m \in Lists : m # l => last'[m] = last[m]
  BY <1>1, <1>2, <1>5 DEF RemoveEndFinish, Inv, FifoTypeOK, HeadTypes
<1>9. /\ next' \in [Elements -> Elements \cup {NULL}]
      /\ next'[nodes[l][none + k]] = NULL
      /\ \A x \in Elements : x # nodes[l][none + k] => next'[x] = next[x]
  <2>1. none + k = k
    BY <1>3, <1>4
  <2> QED
    BY <1>5, <2>1 DEF RemoveEndFinish, Inv, FifoTypeOK, HeapTypes
<1>10. first[l] = NodeAt(l, 1) /\ count[l] = k
  <2>1. first[l] = NodeAt(l, 1) /\ count[l] = Len(nodes[l]) - (pos - 1) + call.n
    BY <1>1, <1>2 DEF Inv, ListInv, HeadsOK, Moving
  <2> QED
    BY <1>3, <1>4, <2>1
<1>11. first'[l] = NodeAt(l, 1)' /\ last'[l] = NodeAt(l, Len(nodes[l]))'
  <2>1. 1 \in 1..k /\ k \in 1..k /\ 1 \in 1..Len(nodes[l]) /\ none + 1 = 1 /\ none + k = k
    BY <1>3, <1>4
  <2> HIDE DEF k, none
  <2> QED
    BY <1>5, <1>7, <1>8, <1>10, <2>1 DEF NodeAt
<1>12. call' = Idle /\ cur' = NULL /\ prev' = NULL /\ pos' = 0
  BY DEF RemoveEndFinish, CallEnds
<1>13. LoopTypes' /\ call'.op = "idle" /\ call'.list = NULL
  BY <1>12 DEF LoopTypes, Idle, Ops
<1>14. FifoTypeOK'
  BY <1>1, <1>7, <1>8, <1>9, <1>13 DEF Inv, FifoTypeOK, HeadTypes, HeapTypes, IterTypes, iteration
<1>15. /\ k \in Nat /\ none \in Nat /\ k # 0 /\ none + k <= Len(nodes[l])
       /\ count'[l] = k /\ call.op \in {"start", "destroy", "endfree"}
       /\ UNCHANGED <<data, owner, allocated>>
       /\ \A m \in Lists : m # l => first'[m] = first[m] /\ last'[m] = last[m] /\ count'[m] = count[m]
  BY <1>1, <1>3, <1>4, <1>8, <1>10
<1> HIDE DEF k, none
<1> QED
  BY <1>2, <1>6, <1>7, <1>9, <1>11, <1>12, <1>13, <1>14, <1>15, TrimKeeps

(* Concatenation. *)
Concatenating == call.op \in {"concatstart", "concatend"}

(* Where a concatenation stands while it relabels. *)
LEMMA MovingFacts ==
  ASSUME Inv, Concatenating
  PROVE  /\ call.list \in Lists /\ call.dest \in Lists /\ call.dest # call.list
         /\ pos \in 1..(Len(nodes[call.list]) + 1) /\ cur = NodeAt(call.list, pos)
         /\ Moving(call.list) /\ \A m \in Lists : m # call.list => ~Moving(m)
         /\ call.first = NodeAt(call.list, 1)
         /\ call.last = NodeAt(call.list, Len(nodes[call.list]))
         /\ \A m \in Lists : Live(m) = 1..Len(nodes[m])
<1>1. ~idle
  BY DEF Concatenating, idle
<1>2. call.list \in Lists /\ Moving(call.list) /\ \A m \in Lists : m # call.list => ~Moving(m)
  BY <1>1 DEF Concatenating, Moving, Inv, ListInv, LoopOK
<1>3. \A m \in Lists : Live(m) = 1..Len(nodes[m])
  BY DEF Concatenating, Live, Freed
<1> QED
  BY <1>1, <1>2, <1>3 DEF Inv, ListInv, LoopOK

(* Taking the elements from the source keeps the invariant. *)
LEMMA ConcatBeginKeeps ==
  ASSUME Inv, NEW op \in {"concatstart", "concatend"}, NEW src \in Lists, NEW dest \in Lists,
         ConcatBegin(op, src, dest)
  PROVE  Inv'
<1>1. Quiet /\ Plain /\ Distinct
  BY QuietPlain DEF ConcatBegin, idle, Quiet
<1>2. /\ call'.op = op /\ call'.list = src /\ call'.dest = dest /\ src # dest
      /\ call'.first = first[src] /\ call'.last = last[src]
      /\ pos' = 1 /\ cur' = first[src] /\ prev' = NULL
      /\ UNCHANGED <<count, heap, nodes, iteration>>
  BY DEF ConcatBegin, Idle
<1>3. /\ first'[src] = NULL /\ last'[src] = NULL
      /\ \A m \in Lists : m # src => first'[m] = first[m] /\ last'[m] = last[m]
      /\ first' \in [Lists -> Elements \cup {NULL}] /\ last' \in [Lists -> Elements \cup {NULL}]
  BY DEF ConcatBegin, Inv, FifoTypeOK, HeadTypes
<1>4. FifoTypeOK'
  <2>1. first[src] \in Elements \cup {NULL} /\ last[src] \in Elements \cup {NULL}
    BY DEF Inv, FifoTypeOK, HeadTypes
  <2>2. call' \in [op : Ops, list : Lists \cup {NULL}, dest : Lists \cup {NULL}, n : Nat,
               freeing : Nat, data : Data \cup {NULL}, first : Elements \cup {NULL}, last : Elements \cup {NULL}]
    BY <2>1 DEF ConcatBegin, Idle, Ops
  <2>3. LoopTypes'
    BY <1>2, <2>1, <2>2 DEF LoopTypes
  <2> QED
    BY <1>2, <1>3, <2>3 DEF Inv, FifoTypeOK, HeadTypes, HeapTypes, IterTypes, heap, iteration
<1>5. \A m \in Lists : /\ Live(m)' = 1..Len(nodes[m])
                       /\ m # src => ~Moving(m)'
                       /\ Moving(src)' /\ Len(nodes[m]) \in Nat
  <2>1. \A m \in Lists : Len(nodes[m]) \in Nat
    BY NodeFacts DEF Inv, FifoTypeOK
  <2> QED
    BY <1>2, <2>1 DEF Live, Freed, Moving
<1>6. \A m \in Lists : \A i \in Int : NodeAt(m, i)' = NodeAt(m, i)
  BY <1>2 DEF NodeAt
<1>7. Distinct'
  BY <1>1, <1>2 DEF Distinct
<1>8. Accounted'
  BY <1>1, <1>2, <1>5 DEF Accounted, Plain, heap
<1>9. Chained'
  BY <1>1, <1>2, <1>5, <1>6 DEF Chained, Plain, heap
<1>10. HeadsOK'
  <2>1. \A m \in Lists : NodeAt(m, 1)' = NodeAt(m, 1) /\ NodeAt(m, Len(nodes[m]))' = NodeAt(m, Len(nodes[m]))
    BY <1>2 DEF NodeAt
  <2>2. call'.op # "start" /\ call'.op # "endfree"
    BY <1>2
  <2> QED
    BY <1>1, <1>2, <1>3, <1>5, <2>1, <2>2 DEF HeadsOK, Plain
<1>11. LoopOK'
  <2>1. ~idle' /\ Moving(call.list)'
    BY <1>2, <1>5 DEF idle, Moving
  <2>2. first[src] = NodeAt(src, 1) /\ last[src] = NodeAt(src, Len(nodes[src]))
    BY <1>1 DEF Plain
  <2>3. /\ NodeAt(call.list, pos)' = NodeAt(src, 1) /\ NodeAt(call.list, 1)' = NodeAt(src, 1)
        /\ NodeAt(call.list, Len(nodes[call.list]))' = NodeAt(src, Len(nodes[src]))
    BY <1>2 DEF NodeAt
  <2>4. call'.op \notin {"remove", "start", "endwalk", "endfree"} /\ pos' \in 1..(Len(nodes[src]) + 1)
    BY <1>2, <1>5
  <2> QED
    BY <1>2, <2>1, <2>2, <2>3, <2>4 DEF LoopOK
<1> QED
  BY <1>4, <1>7, <1>8, <1>9, <1>10, <1>11 DEF Inv, ListInv

(* Relabelling one element keeps the invariant. *)
LEMMA ConcatRelabelKeeps == ASSUME Inv, ConcatRelabel PROVE Inv'
<1>1. Concatenating /\ cur # NULL /\ UNCHANGED <<heads, next, data, allocated, call, prev, nodes, iteration>>
  BY DEF ConcatRelabel, Concatenating
<1>2. PICK l \in Lists : l = call.list
  BY <1>1, MovingFacts
<1>3. /\ pos \in 1..(Len(nodes[l]) + 1) /\ cur = NodeAt(l, pos) /\ call.dest \in Lists
      /\ \A m \in Lists : Live(m) = 1..Len(nodes[m]) /\ (Moving(m) <=> m = l)
  BY <1>1, <1>2, MovingFacts
<1>4. \A m \in Lists : /\ Len(nodes[m]) \in Nat
                       /\ \A i \in 1..Len(nodes[m]) : nodes[m][i] \in Elements /\ nodes[m][i] # NULL
  BY NodeFacts DEF Inv, FifoTypeOK
<1>5. pos \in 1..Len(nodes[l]) /\ cur = nodes[l][pos] /\ cur \in Elements /\ pos \in Live(l)
  BY <1>1, <1>3, <1>4 DEF NodeAt
<1>6. /\ pos' = pos + 1 /\ cur' = next[cur] /\ next[cur] = NodeAt(l, pos + 1)
      /\ owner' \in [Elements -> Lists \cup {NULL}] /\ owner'[cur] = call.dest
      /\ \A x \in Elements : x # cur => owner'[x] = owner[x]
  BY <1>3, <1>5 DEF ConcatRelabel, Inv, FifoTypeOK, HeapTypes, ListInv, Chained
<1>7. FifoTypeOK'
  <2>1. cur' \in Elements \cup {NULL} /\ pos' \in Nat
    BY <1>4, <1>5, <1>6 DEF Inv, FifoTypeOK, HeapTypes
  <2> QED
    BY <1>1, <1>6, <2>1
       DEF Inv, FifoTypeOK, HeadTypes, HeapTypes, LoopTypes, IterTypes, heads, iteration
<1>8. \A m \in Lists : Live(m)' = 1..Len(nodes[m]) /\ (Moving(m)' <=> m = l)
  <2>1. \A m \in Lists : Moving(m)' <=> Moving(m)
    BY <1>1 DEF Moving
  <2>2. call'.op \notin {"start", "destroy", "endfree"}
    BY <1>1 DEF Concatenating
  <2> QED
    BY <1>1, <1>3, <2>1, <2>2 DEF Live, Freed
<1>9. \A m \in Lists : \A i \in Int : NodeAt(m, i)' = NodeAt(m, i)
  BY <1>1 DEF NodeAt
<1>10. Distinct'
  BY <1>1 DEF Inv, ListInv, Distinct
<1>11. Accounted'
  BY <1>1, <1>3, <1>8 DEF Inv, ListInv, Accounted
<1>12. Chained'
  <2> SUFFICES ASSUME NEW m \in Lists, NEW i \in Live(m)'
               PROVE  /\ next'[nodes'[m][i]] = NodeAt(m, i + 1)'
                      /\ data'[nodes'[m][i]] \in Data
                      /\ owner'[nodes'[m][i]] = IF Moving(m)' /\ i < pos' THEN call'.dest ELSE m
    BY DEF Chained
  <2>1. i \in Live(m) /\ i \in 1..Len(nodes[m]) /\ nodes[m][i] \in Elements /\ i + 1 \in Int
    BY <1>3, <1>4, <1>8
  <2>2. /\ next[nodes[m][i]] = NodeAt(m, i + 1) /\ data[nodes[m][i]] \in Data
        /\ owner[nodes[m][i]] = IF Moving(m) /\ i < pos THEN call.dest ELSE m
    BY <2>1 DEF Inv, ListInv, Chained
  <2>3. CASE m = l /\ i = pos
    BY <1>1, <1>3, <1>5, <1>6, <1>8, <1>9, <2>1, <2>2, <2>3
  <2>4. CASE ~(m = l /\ i = pos)
    <3>1. nodes[m][i] # cur
      BY <1>5, <2>1, <2>4 DEF Inv, ListInv, Distinct
    <3>2. (Moving(m)' /\ i < pos') <=> (Moving(m) /\ i < pos)
      BY <1>3, <1>5, <1>6, <1>8, <2>1, <2>4
    <3> QED
      BY <1>1, <1>6, <1>9, <2>1, <2>2, <3>1, <3>2
  <2> QED
    BY <2>3, <2>4
<1>13. HeadsOK'
  <2>1. \A m \in Lists : NodeAt(m, 1)' = NodeAt(m, 1) /\ NodeAt(m, Len(nodes[m]))' = NodeAt(m, Len(nodes[m]))
    BY <1>1 DEF NodeAt
  <2>2. call.op \notin {"start", "endfree"} /\ first' = first /\ last' = last /\ count' = count
    BY <1>1 DEF Concatenating, heads
  <2> QED
    BY <1>1, <1>3, <1>8, <2>1, <2>2 DEF Inv, ListInv, HeadsOK
<1>14. LoopOK'
  <2>1. ~idle' /\ Moving(call.list)'
    BY <1>1, <1>2, <1>8 DEF idle, Concatenating, Moving
  <2>2. call'.op \notin {"remove", "start", "endwalk", "endfree"} /\ call'.list = l
        /\ call'.dest \in Lists \ {l} /\ call'.first = NodeAt(l, 1) /\ call'.last = NodeAt(l, Len(nodes[l]))
    BY <1>1, <1>2, MovingFacts DEF Concatenating
  <2>3. /\ NodeAt(call.list, pos)' = NodeAt(l, pos + 1) /\ NodeAt(call.list, 1)' = NodeAt(l, 1)
        /\ NodeAt(call.list, Len(nodes[call.list]))' = NodeAt(l, Len(nodes[l]))
    BY <1>1, <1>6, <2>2 DEF NodeAt
  <2>4. pos' \in 1..(Len(nodes'[call'.list]) + 1)
    BY <1>1, <1>4, <1>5, <1>6, <2>2
  <2> QED
    BY <1>6, <2>1, <2>2, <2>3, <2>4 DEF LoopOK
<1> QED
  BY <1>7, <1>10, <1>11, <1>12, <1>13, <1>14 DEF Inv, ListInv

(* List dest becomes the nodes of a followed by those of b, which are src and *)
(* dest in either order; src is left empty.                                   *)
Joined(src, dest, a, b) ==
  /\ nodes' = [nodes EXCEPT ![dest] = nodes[a] \o nodes[b], ![src] = <<>>]
  /\ next' \in [Elements -> Elements \cup {NULL}]
  /\ Len(nodes[a]) > 0 => next'[NodeAt(a, Len(nodes[a]))] = NodeAt(b, 1)
  /\ \A x \in Elements : Len(nodes[a]) = 0 \/ x # NodeAt(a, Len(nodes[a])) => next'[x] = next[x]
  /\ first' \in [Lists -> Elements \cup {NULL}] /\ last' \in [Lists -> Elements \cup {NULL}]
  /\ first'[src] = NULL /\ last'[src] = NULL
  /\ first'[dest] = IF Len(nodes[a]) > 0 THEN NodeAt(a, 1) ELSE NodeAt(b, 1)
  /\ last'[dest] = IF Len(nodes[b]) > 0 THEN NodeAt(b, Len(nodes[b])) ELSE NodeAt(a, Len(nodes[a]))
  /\ \A m \in Lists : m \notin {src, dest} => first'[m] = first[m] /\ last'[m] = last[m]
  /\ Emptied(src, dest)

(* A list that is joined to another one leaves both well formed. *)
LEMMA JoinKeeps ==
  ASSUME Inv, Concatenating, cur = NULL,
         NEW src \in Lists, src = call.list, NEW dest \in Lists, dest = call.dest,
         NEW a \in Lists, NEW b \in Lists, (a = src /\ b = dest) \/ (a = dest /\ b = src),
         Joined(src, dest, a, b)
  PROVE  Inv'
<1>1. /\ src # dest /\ pos \in 1..(Len(nodes[src]) + 1) /\ cur = NodeAt(src, pos)
      /\ \A m \in Lists : Live(m) = 1..Len(nodes[m]) /\ (Moving(m) <=> m = src)
  BY MovingFacts
<1>2. \A m \in Lists : /\ nodes[m] \in Seq(Elements) /\ Len(nodes[m]) \in Nat
                       /\ \A i \in 1..Len(nodes[m]) : nodes[m][i] \in Elements /\ nodes[m][i] # NULL
  BY NodeFacts DEF Inv, FifoTypeOK
<1>3. pos = Len(nodes[src]) + 1
  BY <1>1, <1>2 DEF NodeAt
<1>21. PICK la \in Nat : la = Len(nodes[a])
  BY <1>2
<1>22. PICK lb \in Nat : lb = Len(nodes[b])
  BY <1>2
<1>4. /\ nodes' \in [Lists -> Seq(Elements)]
      /\ Len(nodes'[src]) = 0 /\ Len(nodes'[dest]) = la + lb
      /\ \A i \in 1..la : nodes'[dest][i] = nodes[a][i]
      /\ \A i \in (la + 1)..(la + lb) : nodes'[dest][i] = nodes[b][i - la]
      /\ \A m \in Lists : m \notin {src, dest} => nodes'[m] = nodes[m]
  <2> DEFINE t == nodes[a] \o nodes[b]
  <2>1. /\ t \in Seq(Elements) /\ Len(t) = la + lb
        /\ \A i \in 1..la : t[i] = nodes[a][i]
        /\ \A i \in (la + 1)..(la + lb) : t[i] = nodes[b][i - la]
    <3>1. nodes[a] \in Seq(Elements) /\ nodes[b] \in Seq(Elements)
      BY <1>2
    <3> QED
      <4>1. PICK sa \in Seq(Elements) : sa = nodes[a]
        BY <3>1
      <4>2. PICK sb \in Seq(Elements) : sb = nodes[b]
        BY <3>1
      <4>3. t = sa \o sb /\ Len(sa) = la /\ Len(sb) = lb
        BY <1>21, <1>22, <4>1, <4>2
      <4>4. /\ sa \o sb \in Seq(Elements) /\ Len(sa \o sb) = Len(sa) + Len(sb)
            /\ \A i \in 1..Len(sa) : (sa \o sb)[i] = sa[i]
            /\ \A i \in (Len(sa) + 1)..(Len(sa) + Len(sb)) : (sa \o sb)[i] = sb[i - Len(sa)]
        BY ConcatFacts
      <4> HIDE DEF t
      <4> QED
        BY <4>1, <4>2, <4>3, <4>4
  <2>2. <<>> \in Seq(Elements) /\ Len(<<>>) = 0
    OBVIOUS
  <2>3. nodes \in [Lists -> Seq(Elements)] /\ nodes' = [nodes EXCEPT ![dest] = t, ![src] = <<>>]
    BY DEF Joined, Inv, FifoTypeOK, HeadTypes
  <2> HIDE DEF t
  <2>4. nodes' \in [Lists -> Seq(Elements)] /\ nodes'[dest] = t /\ nodes'[src] = <<>>
        /\ \A m \in Lists : m \notin {src, dest} => nodes'[m] = nodes[m]
    BY <1>1, <2>1, <2>2, <2>3
  <2> QED
    BY <2>1, <2>2, <2>4
<1>23. Len(nodes'[dest]) = la + lb
  BY <1>4
<1> DEFINE ol(m, i) == IF m = dest THEN (IF i <= la THEN a ELSE b) ELSE m
           oi(m, i) == IF m = dest /\ i > la THEN i - la ELSE i
<1>5. \A m \in Lists : \A i \in 1..Len(nodes'[m]) :
         /\ m # src /\ ol(m, i) \in Lists /\ oi(m, i) \in 1..Len(nodes[ol(m, i)])
         /\ nodes'[m][i] = nodes[ol(m, i)][oi(m, i)]
         /\ nodes'[m][i] \in Elements
  <2> SUFFICES ASSUME NEW m \in Lists, NEW i \in 1..Len(nodes'[m])
               PROVE  /\ m # src /\ ol(m, i) \in Lists /\ oi(m, i) \in 1..Len(nodes[ol(m, i)])
                      /\ nodes'[m][i] = nodes[ol(m, i)][oi(m, i)]
                      /\ nodes'[m][i] \in Elements
    OBVIOUS
  <2>1. m # src
    BY <1>4
  <2>2. CASE m # dest
    BY <1>2, <1>4, <2>1, <2>2
  <2>3. CASE m = dest /\ i <= la
    <3>1. i \in 1..la
      BY <1>21, <1>22, <1>23, <2>3
    <3>2. nodes'[m][i] = nodes[a][i] /\ nodes[a][i] \in Elements
      BY <1>2, <1>4, <1>21, <2>3, <3>1
    <3>3. ol(m, i) = a /\ oi(m, i) = i
      BY <1>21, <2>3, <3>1
    <3> QED
      BY <1>21, <2>1, <3>1, <3>2, <3>3
  <2>4. CASE m = dest /\ i > la
    <3>1. i \in (la + 1)..(la + lb) /\ i - la \in 1..lb /\ ~(i <= la)
      <4>1. i \in 1..(la + lb)
        BY <1>23, <2>4
      <4> QED
        BY <2>4, <4>1
    <3>2. nodes'[m][i] = nodes[b][i - la] /\ nodes[b][i - la] \in Elements
      BY <1>2, <1>4, <1>22, <2>4, <3>1
    <3>3. ol(m, i) = b /\ oi(m, i) = i - la
      BY <1>21, <2>4, <3>1
    <3> QED
      BY <1>22, <2>1, <3>1, <3>2, <3>3
  <2>5. i \in Int
    OBVIOUS
  <2> QED
    BY <1>21, <2>2, <2>3, <2>4, <2>5
<1>6. Distinct'
  <2> SUFFICES ASSUME NEW m \in Lists, NEW q \in Lists,
                      NEW i \in 1..Len(nodes'[m]), NEW j \in 1..Len(nodes'[q]),
                      nodes'[m][i] = nodes'[q][j]
               PROVE  m = q /\ i = j
    BY DEF Distinct
  <2>1. ol(m, i) = ol(q, j) /\ oi(m, i) = oi(q, j) /\ m # src /\ q # src
    <3>1. /\ ol(m, i) \in Lists /\ oi(m, i) \in 1..Len(nodes[ol(m, i)])
          /\ nodes'[m][i] = nodes[ol(m, i)][oi(m, i)]
          /\ ol(q, j) \in Lists /\ oi(q, j) \in 1..Len(nodes[ol(q, j)])
          /\ nodes'[q][j] = nodes[ol(q, j)][oi(q, j)] /\ m # src /\ q # src
      BY <1>5
    <3> HIDE DEF ol, oi
    <3>2. PICK u \in Lists : u = ol(m, i)
      BY <3>1
    <3>3. PICK v \in Lists : v = ol(q, j)
      BY <3>1
    <3>4. nodes[u][oi(m, i)] = nodes[v][oi(q, j)]
      BY <3>1, <3>2, <3>3
    <3>5. u = v /\ oi(m, i) = oi(q, j)
      BY <3>1, <3>2, <3>3, <3>4 DEF Inv, ListInv, Distinct
    <3> QED
      BY <3>1, <3>2, <3>3, <3>5
  <2>2. m = q
    BY <1>1, <2>1
  <2> QED
    BY <1>2, <2>1, <2>2
<1>7. allocated' = allocated /\ data' = data /\ owner' = owner
      /\ call' = Idle /\ cur' = NULL /\ prev' = NULL /\ pos' = 0
      /\ count' = [count EXCEPT ![dest] = @ + count[src], ![src] = 0]
  BY DEF Joined, Emptied, CallEnds
<1>8. \A m \in Lists : \A i \in 1..Len(nodes'[m]) :
         nodes'[m][i] \in allocated' /\ data'[nodes'[m][i]] \in Data /\ owner'[nodes'[m][i]] = m
  <2> SUFFICES ASSUME NEW m \in Lists, NEW i \in 1..Len(nodes'[m])
               PROVE  nodes'[m][i] \in allocated /\ data[nodes'[m][i]] \in Data
                      /\ owner[nodes'[m][i]] = m
    BY <1>7
  <2>0. \E q \in Lists : \E j \in 1..Len(nodes[q]) :
           /\ nodes'[m][i] = nodes[q][j] /\ nodes[q][j] \in Elements
           /\ q = src => m = dest
           /\ q # src => m = q
    <3>1. /\ ol(m, i) \in Lists /\ oi(m, i) \in 1..Len(nodes[ol(m, i)]) /\ m # src
          /\ nodes'[m][i] = nodes[ol(m, i)][oi(m, i)] /\ nodes'[m][i] \in Elements
      BY <1>5
    <3>2. (ol(m, i) = src => m = dest) /\ (ol(m, i) # src => m = ol(m, i))
      BY <3>1
    <3> HIDE DEF ol, oi
    <3> QED
      BY <3>1, <3>2
  <2>9. PICK q \in Lists : \E j \in 1..Len(nodes[q]) :
           /\ nodes'[m][i] = nodes[q][j] /\ nodes[q][j] \in Elements
           /\ q = src => m = dest
           /\ q # src => m = q
    BY <2>0
  <2>1. PICK j \in 1..Len(nodes[q]) :
           /\ nodes'[m][i] = nodes[q][j] /\ nodes[q][j] \in Elements
           /\ q = src => m = dest
           /\ q # src => m = q
    BY <2>9
  <2>2. j \in Live(q)
    BY <1>1
  <2>3. nodes[q][j] \in allocated /\ data[nodes[q][j]] \in Data
    BY <2>1, <2>2 DEF Inv, ListInv, Accounted, Chained
  <2>4. owner[nodes[q][j]] = IF Moving(q) /\ j < pos THEN call.dest ELSE q
    BY <2>2 DEF Inv, ListInv, Chained
  <2>5. owner[nodes[q][j]] = m
    BY <1>1, <1>2, <1>3, <2>1, <2>4
  <2> QED
    BY <2>1, <2>3, <2>5
<1>9. \A m \in Lists : \A i \in 1..Len(nodes[m]) :
         nodes[m][i] \in Elements /\ next[nodes[m][i]] = NodeAt(m, i + 1)
  BY <1>1, <1>2 DEF Inv, ListInv, Chained
<1>10. la > 0 => la \in 1..Len(nodes[a]) /\ NodeAt(a, Len(nodes[a])) = nodes[a][la]
  BY <1>21 DEF NodeAt
<1>11. \A m \in Lists : \A i \in 1..Len(nodes[m]) :
          next'[nodes[m][i]] = IF m = a /\ i = la THEN NodeAt(b, 1) ELSE NodeAt(m, i + 1)
  <2> SUFFICES ASSUME NEW m \in Lists, NEW i \in 1..Len(nodes[m])
               PROVE  next'[nodes[m][i]] = IF m = a /\ i = la THEN NodeAt(b, 1) ELSE NodeAt(m, i + 1)
    OBVIOUS
  <2>1. CASE m = a /\ i = la
    <3>1. la > 0
      BY <1>21, <2>1
    <3> QED
      BY <1>10, <1>21, <2>1, <3>1 DEF Joined
  <2>2. CASE ~(m = a /\ i = la)
    <3>1. la > 0 => nodes[m][i] # nodes[a][la]
      BY <1>10, <2>2 DEF Inv, ListInv, Distinct
    <3>2. la = 0 \/ la > 0
      BY <1>21
    <3>3. next'[nodes[m][i]] = next[nodes[m][i]]
      BY <1>9, <1>10, <1>21, <3>1, <3>2 DEF Joined
    <3> QED
      BY <1>9, <2>2, <3>3
  <2> QED
    BY <2>1, <2>2
<1>12. \A m \in Lists : \A i \in 1..Len(nodes'[m]) : next'[nodes'[m][i]] = NodeAt(m, i + 1)'
  <2> SUFFICES ASSUME NEW m \in Lists, NEW i \in 1..Len(nodes'[m])
               PROVE  next'[nodes'[m][i]] = NodeAt(m, i + 1)'
    OBVIOUS
  <2>1. CASE m # dest
    <3>1. m # src
      BY <1>4
    <3>2. nodes'[m] = nodes[m] /\ m # a
      BY <1>4, <2>1, <3>1
    <3> QED
      BY <1>11, <3>2 DEF NodeAt
  <2>2. CASE m = dest /\ i < la
    <3>1. i \in 1..la /\ i + 1 \in 1..la /\ i # la /\ i + 1 \in 1..Len(nodes'[m])
      <4>1. i \in 1..(la + lb)
        BY <1>23, <2>2
      <4>2. i \in 1..la /\ i + 1 \in 1..la /\ i # la /\ i + 1 \in 1..(la + lb)
        BY <2>2, <4>1
      <4> QED
        BY <1>23, <2>2, <4>2
    <3>2. next'[nodes[a][i]] = NodeAt(a, i + 1) /\ NodeAt(a, i + 1) = nodes[a][i + 1]
      BY <1>11, <1>21, <3>1 DEF NodeAt
    <3>3. nodes'[m][i] = nodes[a][i] /\ nodes'[m][i + 1] = nodes[a][i + 1]
      BY <1>4, <2>2, <3>1
    <3> QED
      BY <3>1, <3>2, <3>3 DEF NodeAt
  <2>3. CASE m = dest /\ i = la
    <3>1. i \in 1..la /\ la \in Nat /\ lb \in Nat
      BY <1>21, <1>22, <2>3
    <3>2. next'[nodes'[m][i]] = NodeAt(b, 1)
      <4>1. nodes'[m][i] = nodes[a][i]
        BY <1>4, <2>3, <3>1
      <4> QED
        BY <1>11, <1>21, <2>3, <3>1, <4>1
    <3>3. CASE lb = 0
      <4>1. i + 1 \notin 1..Len(nodes'[m]) /\ 1 \notin 1..Len(nodes[b])
        BY <1>22, <1>23, <2>3, <3>1, <3>3
      <4> QED
        BY <3>2, <4>1 DEF NodeAt
    <3>4. CASE lb # 0
      <4>1. /\ i + 1 \in 1..Len(nodes'[m]) /\ i + 1 \in (la + 1)..(la + lb) /\ (i + 1) - la = 1
            /\ 1 \in 1..Len(nodes[b])
        BY <1>22, <1>23, <2>3, <3>1, <3>4
      <4>2. nodes'[m][i + 1] = nodes[b][1]
        BY <1>4, <2>3, <4>1
      <4> QED
        BY <3>2, <4>1, <4>2 DEF NodeAt
    <3> QED
      BY <3>3, <3>4
  <2>4. CASE m = dest /\ i > la
    <3>1. i - la \in 1..lb /\ i \in (la + 1)..(la + lb) /\ la \in Nat /\ lb \in Nat
      <4>1. i \in 1..(la + lb)
        BY <1>23, <2>4
      <4> QED
        BY <2>4, <4>1
    <3>2. next'[nodes'[m][i]] = NodeAt(b, (i - la) + 1)
      <4>1. nodes'[m][i] = nodes[b][i - la]
        BY <1>4, <2>4, <3>1
      <4>2. next'[nodes[b][i - la]] = NodeAt(b, (i - la) + 1)
        <5>1. i - la \in 1..Len(nodes[b])
          BY <1>22, <3>1
        <5>2. b # a
          BY <1>1
        <5> QED
          BY <1>11, <5>1, <5>2
      <4> QED
        BY <4>1, <4>2
    <3>3. CASE i = la + lb
      <4>1. i + 1 \notin 1..Len(nodes'[m]) /\ (i - la) + 1 \notin 1..Len(nodes[b])
        BY <1>22, <1>23, <2>4, <3>1, <3>3
      <4> QED
        BY <3>2, <4>1 DEF NodeAt
    <3>4. CASE i # la + lb
      <4>1. /\ i + 1 \in 1..Len(nodes'[m]) /\ i + 1 \in (la + 1)..(la + lb)
            /\ (i + 1) - la = (i - la) + 1 /\ (i - la) + 1 \in 1..Len(nodes[b])
        BY <1>22, <1>23, <2>4, <3>1, <3>4
      <4>2. nodes'[m][i + 1] = nodes[b][(i - la) + 1]
        BY <1>4, <2>4, <4>1
      <4> QED
        BY <3>2, <4>1, <4>2 DEF NodeAt
    <3> QED
      BY <3>3, <3>4
  <2> QED
    BY <1>21, <2>1, <2>2, <2>3, <2>4
<1>13. count \in [Lists -> Nat] /\ count[src] = Len(nodes[src]) /\ count[dest] = Len(nodes[dest])
       /\ \A m \in Lists : m \notin {src, dest} =>
             first[m] = NodeAt(m, 1) /\ last[m] = NodeAt(m, Len(nodes[m])) /\ count[m] = Len(nodes[m])
  BY <1>1 DEF Inv, ListInv, HeadsOK, Concatenating, FifoTypeOK, HeadTypes
<1>14. count' \in [Lists -> Nat] /\ count'[src] = 0 /\ count'[dest] = Len(nodes'[dest])
       /\ \A m \in Lists : m \notin {src, dest} => count'[m] = count[m]
  <2>3. (a = src /\ b = dest) \/ (a = dest /\ b = src)
    OBVIOUS
  <2>1. count[dest] + count[src] \in Nat /\ count[dest] + count[src] = la + lb
    <3>1. count[a] = la /\ count[b] = lb
      BY <1>13, <1>21, <1>22, <2>3
    <3>2. count[dest] + count[src] = la + lb \/ count[dest] + count[src] = lb + la
      BY <2>3, <3>1
    <3>3. la + lb \in Nat /\ lb + la = la + lb
      OBVIOUS
    <3> QED
      BY <3>2, <3>3
  <2> QED
    BY <1>1, <1>4, <1>7, <1>13, <1>23, <2>1
<1>15. first'[dest] = NodeAt(dest, 1)' /\ last'[dest] = NodeAt(dest, Len(nodes[dest]))'
  <2>1. la \in Nat /\ lb \in Nat /\ Len(nodes'[dest]) = la + lb
    BY <1>23
  <2>4. /\ first'[dest] = IF la > 0 THEN NodeAt(a, 1) ELSE NodeAt(b, 1)
        /\ last'[dest] = IF lb > 0 THEN NodeAt(b, lb) ELSE NodeAt(a, la)
    BY <1>21, <1>22 DEF Joined
  <2>2. first'[dest] = NodeAt(dest, 1)'
    <3>1. CASE la > 0
      <4>1. 1 \in 1..la /\ 1 \in 1..Len(nodes'[dest])
        BY <2>1, <3>1
      <4>2. nodes'[dest][1] = nodes[a][1] /\ first'[dest] = NodeAt(a, 1)
        BY <1>4, <2>4, <3>1, <4>1
      <4> QED
        BY <1>21, <4>1, <4>2 DEF NodeAt
    <3>2. CASE la = 0 /\ lb > 0
      <4>1. /\ 1 \in (la + 1)..(la + lb) /\ 1 - la = 1 /\ 1 \in 1..Len(nodes'[dest]) /\ 1 \in 1..lb
            /\ ~(la > 0)
        BY <2>1, <3>2
      <4>2. nodes'[dest][1] = nodes[b][1] /\ first'[dest] = NodeAt(b, 1)
        BY <1>4, <2>4, <4>1
      <4> QED
        BY <1>22, <4>1, <4>2 DEF NodeAt
    <3>3. CASE la = 0 /\ lb = 0
      <4>1. 1 \notin 1..Len(nodes'[dest]) /\ 1 \notin 1..lb /\ ~(la > 0)
        BY <2>1, <3>3
      <4> QED
        BY <1>22, <2>4, <4>1 DEF NodeAt
    <3> QED
      BY <2>1, <3>1, <3>2, <3>3
  <2>3. last'[dest] = NodeAt(dest, Len(nodes[dest]))'
    <3>1. CASE lb > 0
      <4>1. /\ la + lb \in (la + 1)..(la + lb) /\ (la + lb) - la = lb
            /\ la + lb \in 1..Len(nodes'[dest]) /\ lb \in 1..lb
        BY <2>1, <3>1
      <4>2. nodes'[dest][la + lb] = nodes[b][lb] /\ last'[dest] = NodeAt(b, lb)
        BY <1>4, <2>4, <3>1, <4>1
      <4> QED
        BY <1>22, <2>1, <4>1, <4>2 DEF NodeAt
    <3>2. CASE lb = 0 /\ la > 0
      <4>1. Len(nodes'[dest]) = la /\ la \in 1..la /\ ~(lb > 0)
        BY <2>1, <3>2
      <4>2. nodes'[dest][la] = nodes[a][la] /\ last'[dest] = NodeAt(a, la)
        BY <1>4, <2>4, <4>1
      <4> QED
        BY <1>21, <4>1, <4>2 DEF NodeAt
    <3>3. CASE la = 0 /\ lb = 0
      <4>1. Len(nodes'[dest]) = la /\ la \notin 1..la /\ ~(lb > 0)
        BY <2>1, <3>3
      <4> QED
        BY <1>21, <2>4, <4>1 DEF NodeAt
    <3> QED
      BY <2>1, <3>1, <3>2, <3>3
  <2> QED
    BY <2>2, <2>3
<1>16. \A m \in Lists : /\ first'[m] = NodeAt(m, 1)'
                        /\ last'[m] = NodeAt(m, Len(nodes[m]))'
                        /\ count'[m] = Len(nodes'[m])
  <2>1. NodeAt(src, 1)' = NULL /\ NodeAt(src, Len(nodes[src]))' = NULL
    BY <1>4 DEF NodeAt
  <2>2. \A m \in Lists : m \notin {src, dest} =>
           NodeAt(m, 1)' = NodeAt(m, 1) /\ NodeAt(m, Len(nodes[m]))' = NodeAt(m, Len(nodes[m]))
    BY <1>4 DEF NodeAt
  <2> QED
    <3> SUFFICES ASSUME NEW m \in Lists
                 PROVE  /\ first'[m] = NodeAt(m, 1)'
                        /\ last'[m] = NodeAt(m, Len(nodes[m]))'
                        /\ count'[m] = Len(nodes'[m])
      OBVIOUS
    <3>1. CASE m = src
      BY <1>4, <1>14, <2>1, <3>1 DEF Joined
    <3>2. CASE m = dest
      BY <1>14, <1>15, <3>2
    <3>3. CASE m \notin {src, dest}
      <4>1. first'[m] = first[m] /\ last'[m] = last[m]
        BY <3>3 DEF Joined
      <4>2. nodes'[m] = nodes[m]
        BY <1>4, <3>3
      <4> QED
        BY <1>13, <1>14, <2>2, <3>3, <4>1, <4>2
    <3> QED
      BY <3>1, <3>2, <3>3
<1>17. \A x \in allocated' : \E m \in Lists : \E i \in 1..Len(nodes'[m]) : nodes'[m][i] = x
  <2> SUFFICES ASSUME NEW x \in allocated
               PROVE  \E m \in Lists : \E i \in 1..Len(nodes'[m]) : nodes'[m][i] = x
    BY <1>7
  <2>1. \E m \in Lists : \E j \in Live(m) : nodes[m][j] = x
    BY DEF Inv, ListInv, Accounted, FifoTypeOK, HeapTypes
  <2>6. PICK m \in Lists : \E j \in 1..Len(nodes[m]) : nodes[m][j] = x
    BY <1>1, <2>1
  <2>2. PICK j \in 1..Len(nodes[m]) : nodes[m][j] = x
    BY <2>6
  <2>3. CASE m \notin {src, dest}
    BY <1>4, <2>2, <2>3
  <2>4. CASE m = a
    <3>1. j \in 1..la /\ j \in 1..Len(nodes'[dest])
      <4>1. j \in 1..la
        BY <1>21, <2>4
      <4>2. j \in 1..(la + lb)
        BY <4>1
      <4> QED
        BY <1>23, <4>1, <4>2
    <3>2. nodes'[dest][j] = nodes[a][j]
      BY <1>4, <3>1
    <3> QED
      BY <2>2, <2>4, <3>1, <3>2
  <2>5. CASE m = b
    <3>1. /\ la + j \in (la + 1)..(la + lb) /\ la + j \in 1..Len(nodes'[dest]) /\ (la + j) - la = j
      <4>1. j \in 1..lb
        BY <1>22, <2>5
      <4>2. la + j \in (la + 1)..(la + lb) /\ la + j \in 1..(la + lb) /\ (la + j) - la = j
        BY <4>1
      <4> QED
        BY <1>23, <4>2
    <3>2. nodes'[dest][la + j] = nodes[b][j]
      BY <1>4, <3>1
    <3> QED
      BY <2>2, <2>5, <3>1, <3>2
  <2> QED
    BY <2>3, <2>4, <2>5
<1>18. FifoTypeOK'
  <2>1. LoopTypes'
    BY <1>7 DEF LoopTypes, Idle, Ops
  <2>2. IterTypes'
    BY <1>7 DEF Joined, Emptied, Inv, FifoTypeOK, IterTypes
  <2> QED
    BY <1>4, <1>7, <1>14, <2>1, <2>2 DEF Joined, Inv, FifoTypeOK, HeadTypes, HeapTypes
<1>19. Plain'
  BY <1>8, <1>12, <1>16, <1>17 DEF Plain
<1>20. call'.op = "idle" /\ call'.list = NULL
  BY <1>7 DEF Idle
<1> QED
  BY <1>6, <1>7, <1>18, <1>19, <1>20, PlainAfter

(* What the list that is moved and the one that takes it look like when the   *)
(* relabelling is over.                                                       *)
LEMMA JoinFacts ==
  ASSUME Inv, Concatenating,
         NEW src \in Lists, src = call.list, NEW dest \in Lists, dest = call.dest
  PROVE  /\ src # dest /\ count[src] = Len(nodes[src]) /\ count[dest] = Len(nodes[dest])
         /\ Len(nodes[src]) \in Nat /\ Len(nodes[dest]) \in Nat
         /\ call.first = NodeAt(src, 1) /\ call.last = NodeAt(src, Len(nodes[src]))
         /\ first[dest] = NodeAt(dest, 1) /\ last[dest] = NodeAt(dest, Len(nodes[dest]))
         /\ first[src] = NULL /\ last[src] = NULL
         /\ \A m \in Lists : Len(nodes[m]) > 0 =>
               NodeAt(m, Len(nodes[m])) \in Elements /\ NodeAt(m, 1) \in Elements
         /\ \A m \in Lists : \A i \in Int : NodeAt(m, i) \in Elements \cup {NULL}
         /\ \A m \in Lists : Len(nodes[m]) = 0 =>
               NodeAt(m, Len(nodes[m])) = NULL /\ NodeAt(m, 1) = NULL
<1>1. /\ src # dest /\ Moving(src) /\ ~Moving(dest)
      /\ call.first = NodeAt(src, 1) /\ call.last = NodeAt(src, Len(nodes[src]))
  BY MovingFacts
<1>2. \A m \in Lists : /\ Len(nodes[m]) \in Nat
                       /\ \A i \in 1..Len(nodes[m]) : nodes[m][i] \in Elements /\ nodes[m][i] # NULL
  BY NodeFacts DEF Inv, FifoTypeOK
<1>3. call.op # "start" /\ call.op # "endfree"
  BY DEF Concatenating
<1>4. /\ count[src] = Len(nodes[src]) /\ count[dest] = Len(nodes[dest])
      /\ first[dest] = NodeAt(dest, 1) /\ last[dest] = NodeAt(dest, Len(nodes[dest]))
      /\ first[src] = NULL /\ last[src] = NULL
  BY <1>1, <1>3 DEF Inv, ListInv, HeadsOK
<1>5. \A m \in Lists : \A i \in Int : NodeAt(m, i) \in Elements \cup {NULL}
  BY <1>2 DEF NodeAt
<1>6. \A m \in Lists : Len(nodes[m]) > 0 =>
         NodeAt(m, Len(nodes[m])) \in Elements /\ NodeAt(m, 1) \in Elements
  <2> SUFFICES ASSUME NEW m \in Lists, Len(nodes[m]) > 0
               PROVE  NodeAt(m, Len(nodes[m])) \in Elements /\ NodeAt(m, 1) \in Elements
    OBVIOUS
  <2>1. 1 \in 1..Len(nodes[m]) /\ Len(nodes[m]) \in 1..Len(nodes[m])
    BY <1>2
  <2> QED
    BY <1>2, <2>1 DEF NodeAt
<1>7. \A m \in Lists : Len(nodes[m]) = 0 => NodeAt(m, Len(nodes[m])) = NULL /\ NodeAt(m, 1) = NULL
  BY DEF NodeAt
<1> QED
  BY <1>1, <1>2, <1>4, <1>5, <1>6, <1>7

(* The splice of nl_fifo_concat_start() keeps the invariant. *)
LEMMA ConcatStartFinishKeeps == ASSUME Inv, ConcatStartFinish PROVE Inv'
<1>1. Concatenating /\ cur = NULL
  BY DEF ConcatStartFinish, Concatenating
<1>2. PICK src \in Lists : src = call.list
  BY <1>1, MovingFacts
<1>3. PICK dest \in Lists : dest = call.dest
  BY <1>1, <1>2, MovingFacts
<1>4. /\ src # dest /\ count[src] = Len(nodes[src]) /\ count[dest] = Len(nodes[dest])
      /\ Len(nodes[src]) \in Nat /\ Len(nodes[dest]) \in Nat
      /\ call.first = NodeAt(src, 1) /\ call.last = NodeAt(src, Len(nodes[src]))
      /\ first[dest] = NodeAt(dest, 1) /\ last[dest] = NodeAt(dest, Len(nodes[dest]))
      /\ first[src] = NULL /\ last[src] = NULL
      /\ \A m \in Lists : Len(nodes[m]) > 0 =>
            NodeAt(m, Len(nodes[m])) \in Elements /\ NodeAt(m, 1) \in Elements
      /\ \A m \in Lists : \A i \in Int : NodeAt(m, i) \in Elements \cup {NULL}
      /\ \A m \in Lists : Len(nodes[m]) = 0 =>
            NodeAt(m, Len(nodes[m])) = NULL /\ NodeAt(m, 1) = NULL
  BY <1>1, <1>2, <1>3, JoinFacts
<1>5. /\ next \in [Elements -> Elements \cup {NULL}]
      /\ first \in [Lists -> Elements \cup {NULL}] /\ last \in [Lists -> Elements \cup {NULL}]
  BY DEF Inv, FifoTypeOK, HeadTypes, HeapTypes
<1>6. Joined(src, dest, src, dest)
  <2>1. nodes' = [nodes EXCEPT ![dest] = nodes[src] \o nodes[dest], ![src] = <<>>]
        /\ Emptied(src, dest)
    BY <1>2, <1>3 DEF ConcatStartFinish
  <2>2. CASE Len(nodes[src]) > 0
    <3>1. /\ next' = [next EXCEPT ![NodeAt(src, Len(nodes[src]))] = NodeAt(dest, 1)]
          /\ first' = [first EXCEPT ![dest] = NodeAt(src, 1)]
          /\ last' = IF Len(nodes[dest]) = 0
                     THEN [last EXCEPT ![dest] = NodeAt(src, Len(nodes[src]))] ELSE last
      BY <1>2, <1>3, <1>4, <2>2 DEF ConcatStartFinish
    <3>2. NodeAt(src, Len(nodes[src])) \in Elements /\ NodeAt(src, 1) \in Elements
          /\ NodeAt(dest, 1) \in Elements \cup {NULL}
      BY <1>4, <2>2
    <3>3. /\ next' \in [Elements -> Elements \cup {NULL}]
          /\ next'[NodeAt(src, Len(nodes[src]))] = NodeAt(dest, 1)
          /\ \A x \in Elements : x # NodeAt(src, Len(nodes[src])) => next'[x] = next[x]
      BY <1>5, <3>1, <3>2
    <3>4. /\ first' \in [Lists -> Elements \cup {NULL}] /\ first'[dest] = NodeAt(src, 1)
          /\ \A m \in Lists : m # dest => first'[m] = first[m]
      BY <1>5, <3>1, <3>2
    <3>5. /\ last' \in [Lists -> Elements \cup {NULL}]
          /\ last'[dest] = IF Len(nodes[dest]) > 0 THEN NodeAt(dest, Len(nodes[dest]))
                           ELSE NodeAt(src, Len(nodes[src]))
          /\ \A m \in Lists : m # dest => last'[m] = last[m]
      BY <1>4, <1>5, <3>1, <3>2
    <3> QED
      BY <1>4, <2>1, <2>2, <3>3, <3>4, <3>5 DEF Joined
  <2>3. CASE Len(nodes[src]) = 0
    <3>1. next' = next /\ first' = first /\ last' = last
      BY <1>2, <1>3, <1>4, <2>3 DEF ConcatStartFinish
    <3>2. NodeAt(src, Len(nodes[src])) = NULL
      BY <1>4, <2>3
    <3>3. last[dest] = IF Len(nodes[dest]) > 0 THEN NodeAt(dest, Len(nodes[dest]))
                       ELSE NodeAt(src, Len(nodes[src]))
      BY <1>4, <3>2
    <3> QED
      BY <1>4, <1>5, <2>1, <2>3, <3>1, <3>3 DEF Joined
  <2> QED
    BY <1>4, <2>2, <2>3
<1>7. PICK a \in Lists : a = src
  OBVIOUS
<1>8. PICK b \in Lists : b = dest
  OBVIOUS
<1>9. Joined(src, dest, a, b)
  BY <1>6, <1>7, <1>8
<1> QED
  BY <1>1, <1>2, <1>3, <1>7, <1>8, <1>9, JoinKeeps

(* The splice of nl_fifo_concat_end() keeps the invariant. *)
LEMMA ConcatEndFinishKeeps == ASSUME Inv, ConcatEndFinish PROVE Inv'
<1>1. Concatenating /\ cur = NULL
  BY DEF ConcatEndFinish, Concatenating
<1>2. PICK src \in Lists : src = call.list
  BY <1>1, MovingFacts
<1>3. PICK dest \in Lists : dest = call.dest
  BY <1>1, <1>2, MovingFacts
<1>4. /\ src # dest /\ count[src] = Len(nodes[src]) /\ count[dest] = Len(nodes[dest])
      /\ Len(nodes[src]) \in Nat /\ Len(nodes[dest]) \in Nat
      /\ call.first = NodeAt(src, 1) /\ call.last = NodeAt(src, Len(nodes[src]))
      /\ first[dest] = NodeAt(dest, 1) /\ last[dest] = NodeAt(dest, Len(nodes[dest]))
      /\ first[src] = NULL /\ last[src] = NULL
      /\ \A m \in Lists : Len(nodes[m]) > 0 =>
            NodeAt(m, Len(nodes[m])) \in Elements /\ NodeAt(m, 1) \in Elements
      /\ \A m \in Lists : \A i \in Int : NodeAt(m, i) \in Elements \cup {NULL}
      /\ \A m \in Lists : Len(nodes[m]) = 0 =>
            NodeAt(m, Len(nodes[m])) = NULL /\ NodeAt(m, 1) = NULL
  BY <1>1, <1>2, <1>3, JoinFacts
<1>5. /\ next \in [Elements -> Elements \cup {NULL}]
      /\ first \in [Lists -> Elements \cup {NULL}] /\ last \in [Lists -> Elements \cup {NULL}]
  BY DEF Inv, FifoTypeOK, HeadTypes, HeapTypes
<1>6. Joined(src, dest, dest, src)
  <2>1. nodes' = [nodes EXCEPT ![dest] = nodes[dest] \o nodes[src], ![src] = <<>>]
        /\ Emptied(src, dest)
    BY <1>2, <1>3 DEF ConcatEndFinish
  <2>2. CASE Len(nodes[src]) > 0
    <3>1. /\ IF last[dest] # NULL
             THEN next' = [next EXCEPT ![NodeAt(dest, Len(nodes[dest]))] = NodeAt(src, 1)]
                  /\ first' = first
             ELSE first' = [first EXCEPT ![dest] = NodeAt(src, 1)] /\ next' = next
          /\ last' = [last EXCEPT ![dest] = NodeAt(src, Len(nodes[src]))]
      BY <1>2, <1>3, <1>4, <2>2 DEF ConcatEndFinish
    <3>2. NodeAt(src, Len(nodes[src])) \in Elements /\ NodeAt(src, 1) \in Elements
      BY <1>4, <2>2
    <3>3. /\ last' \in [Lists -> Elements \cup {NULL}]
          /\ last'[dest] = NodeAt(src, Len(nodes[src]))
          /\ \A m \in Lists : m # dest => last'[m] = last[m]
      BY <1>5, <3>1, <3>2
    <3>4. CASE Len(nodes[dest]) > 0
      <4>1. NodeAt(dest, Len(nodes[dest])) \in Elements /\ last[dest] # NULL
        BY <1>4, <3>4, NullAssumption
      <4>2. /\ next' = [next EXCEPT ![NodeAt(dest, Len(nodes[dest]))] = NodeAt(src, 1)]
            /\ first' = first
        BY <3>1, <4>1
      <4>3. /\ next' \in [Elements -> Elements \cup {NULL}]
            /\ next'[NodeAt(dest, Len(nodes[dest]))] = NodeAt(src, 1)
            /\ \A x \in Elements : x # NodeAt(dest, Len(nodes[dest])) => next'[x] = next[x]
        BY <1>5, <3>2, <4>1, <4>2
      <4> QED
        BY <1>4, <1>5, <2>1, <2>2, <3>3, <3>4, <4>2, <4>3 DEF Joined
    <3>5. CASE Len(nodes[dest]) = 0
      <4>1. last[dest] = NULL /\ ~(Len(nodes[dest]) > 0)
        BY <1>4, <3>5
      <4>2. first' = [first EXCEPT ![dest] = NodeAt(src, 1)] /\ next' = next
        BY <3>1, <4>1
      <4>3. /\ first' \in [Lists -> Elements \cup {NULL}] /\ first'[dest] = NodeAt(src, 1)
            /\ \A m \in Lists : m # dest => first'[m] = first[m]
        BY <1>5, <3>2, <4>2
      <4> QED
        BY <1>4, <1>5, <2>1, <2>2, <3>3, <3>5, <4>1, <4>2, <4>3 DEF Joined
    <3> QED
      BY <1>4, <3>4, <3>5
  <2>3. CASE Len(nodes[src]) = 0
    <3>1. next' = next /\ first' = first /\ last' = last
      BY <1>2, <1>3, <1>4, <2>3 DEF ConcatEndFinish
    <3>2. NodeAt(src, 1) = NULL /\ ~(Len(nodes[src]) > 0)
      BY <1>4, <2>3
    <3>3. /\ first[dest] = IF Len(nodes[dest]) > 0 THEN NodeAt(dest, 1) ELSE NodeAt(src, 1)
          /\ Len(nodes[dest]) > 0 => next[NodeAt(dest, Len(nodes[dest]))] = NodeAt(src, 1)
      <4>1. Len(nodes[dest]) = 0 => NodeAt(dest, 1) = NULL
        BY <1>4
      <4>2. ASSUME Len(nodes[dest]) > 0
            PROVE  next[NodeAt(dest, Len(nodes[dest]))] = NULL
        <5>1. Len(nodes[dest]) \in Live(dest)
          BY <1>1, <1>2, <1>4, <4>2, MovingFacts
        <5>2. Len(nodes[dest]) \in 1..Len(nodes[dest]) /\ Len(nodes[dest]) + 1 \notin 1..Len(nodes[dest])
          BY <1>4, <4>2
        <5> QED
          BY <5>1, <5>2 DEF Inv, ListInv, Chained, NodeAt
      <4> QED
        BY <1>4, <3>2, <4>1, <4>2
    <3> QED
      BY <1>4, <1>5, <2>1, <2>3, <3>1, <3>2, <3>3 DEF Joined
  <2> QED
    BY <1>4, <2>2, <2>3
<1> QED
  BY <1>1, <1>2, <1>3, <1>4, <1>6, JoinKeeps

(* Every step of every call keeps the invariant. *)
LEMMA NextKeeps == Inv /\ [FifoNext]_fifoVars => Inv'
<1> SUFFICES ASSUME Inv, [FifoNext]_fifoVars PROVE Inv'
  OBVIOUS
<1>1. ASSUME NEW l \in Lists, NEW d \in Data, NEW e \in Elements, Put(l, d, e) PROVE Inv'
  BY <1>1, PutKeeps
<1>2. ASSUME NEW l \in Lists, NEW d \in Data, NEW e \in Elements, Prepend(l, d, e) PROVE Inv'
  BY <1>2, PrependKeeps
<1>3. ASSUME NEW l \in Lists, Get(l) PROVE Inv'
  BY <1>3, GetKeeps
<1>4. ASSUME NEW l \in Lists, DestroyBegin(l) PROVE Inv'
  <2>1. NULL \in Data \cup {NULL} /\ 0 \in 0..MaxArgument
    BY MaxArgumentAssumption
  <2> QED
    BY <1>4, <2>1, BeginKeeps
<1>5. ASSUME NEW l \in Lists, NEW d \in Data, RemoveBegin(l, d) PROVE Inv'
  <2>1. d \in Data \cup {NULL} /\ 0 \in 0..MaxArgument
    BY MaxArgumentAssumption
  <2> QED
    BY <1>5, <2>1, BeginKeeps
<1>6. ASSUME NEW l \in Lists, NEW n \in 0..MaxArgument,
             RemoveStartBegin(l, n) \/ RemoveEndBegin(l, n)
      PROVE  Inv'
  <2>1. NULL \in Data \cup {NULL}
    OBVIOUS
  <2> QED
    BY <1>6, <2>1, BeginKeeps
<1>7. CASE RemoveStep \/ RemoveEndWalk \/ RemoveEndFound
  BY <1>7, WalkKeeps
<1>8. CASE RemoveHit
  BY <1>8, RemoveHitKeeps
<1>9. CASE RemoveMiss
  BY <1>9, MissKeeps
<1>10. CASE RemoveStartStep \/ DestroyStep \/ RemoveEndStep
  BY <1>10, FreeStepKeeps
<1>11. CASE RemoveStartEnd
  BY <1>11, RemoveStartEndKeeps
<1>12. CASE DestroyEnd
  BY <1>12, DestroyEndKeeps
<1>13. CASE RemoveEndFinish
  BY <1>13, RemoveEndFinishKeeps
<1>14. ASSUME NEW src \in Lists, NEW dest \in Lists, NEW op \in {"concatstart", "concatend"},
              ConcatBegin(op, src, dest)
       PROVE  Inv'
  BY <1>14, ConcatBeginKeeps
<1>15. CASE ConcatRelabel
  BY <1>15, ConcatRelabelKeeps
<1>16. CASE ConcatStartFinish
  BY <1>16, ConcatStartFinishKeeps
<1>17. CASE ConcatEndFinish
  BY <1>17, ConcatEndFinishKeeps
<1>18. CASE (\E l \in Lists : IterOpen(l)) \/ IterError \/ IterEnd \/ IterNext
  BY <1>18, IterKeeps
<1>19. CASE UNCHANGED fifoVars
  BY <1>19 DEF fifoVars, heads, heap, callVars, iteration, Inv, FifoTypeOK, HeadTypes, HeapTypes, LoopTypes,
     IterTypes, ListInv, Distinct, Accounted, Chained, HeadsOK, LoopOK, Live, Freed, Moving,
     NodeAt, idle
<1> QED
  BY <1>1, <1>2, <1>3, <1>4, <1>5, <1>6, <1>7, <1>8, <1>9, <1>10, <1>11, <1>12, <1>13, <1>14,
     <1>15, <1>16, <1>17, <1>18, <1>19 DEF FifoNext

(* The invariant holds of every list, any number of lists and elements, in    *)
(* every state of every sequence of calls.                                    *)
THEOREM Invariance == FifoSpec => []Inv
<1>1. FifoInit => Inv
  BY InitInv
<1>2. Inv /\ [FifoNext]_fifoVars => Inv'
  BY NextKeeps
<1> QED
  BY <1>1, <1>2, PTL DEF FifoSpec

(* No field of a list or of an element leaves its type, and no count of       *)
(* fifo.c goes below zero.                                                    *)
THEOREM TypeCorrectness == FifoSpec => []FifoTypeOK
<1>1. Inv => FifoTypeOK
  BY DEF Inv
<1> QED
  BY <1>1, Invariance, PTL

(* The pointers of fifo.c spell, at every turn of every loop, the content its *)
(* comments promise; no element leaks and none that is listed was freed.      *)
THEOREM ListCorrectness == FifoSpec => []ListInv
<1>1. Inv => ListInv
  BY DEF Inv
<1> QED
  BY <1>1, Invariance, PTL

-----------------------------------------------------------------------------
(* The queries.                                                              *)

(* nl_fifo_next() called n times from a fresh iterator, and once more, is at  *)
(* node n + 1: the recursion has a solution, the nodes of the list, and by    *)
(* induction over the calls no other.                                         *)
LEMMA WalkedTo ==
  ASSUME HeadTypes, Plain, NEW l \in Lists, NEW n \in Nat, n < Len(nodes[l])
  PROVE  Walked(l, n) = nodes[l][n + 1]
<1> DEFINE node == [i \in 0..n |-> nodes[l][i + 1]]
           walk[i \in 0..n] == IF i = 0 THEN first[l] ELSE next[walk[i - 1]]
           T == {i \in Nat : i <= n => walk[i] = nodes[l][i + 1]}
<1>1. PICK length \in Nat : length = Len(nodes[l])
  BY NodeFacts
<1>2. first[l] = nodes[l][1] /\ \A i \in 1..n : next[nodes[l][i]] = nodes[l][i + 1]
  BY <1>1 DEF Plain, NodeAt
<1>3. node = [i \in 0..n |-> IF i = 0 THEN first[l] ELSE next[node[i - 1]]]
  BY <1>2
<1>4. walk = [i \in 0..n |-> IF i = 0 THEN first[l] ELSE next[walk[i - 1]]]
  BY <1>3
<1>5. Walked(l, n) = walk[n]
  BY DEF Walked
<1> HIDE DEF walk
<1>6. 0 \in T
  BY <1>2, <1>4
<1>7. ASSUME NEW i \in Nat, i \in T
      PROVE  i + 1 \in T
  BY <1>2, <1>4, <1>7
<1>8. Nat \subseteq T
  <2> HIDE DEF T
  <2> QED
    BY <1>6, <1>7, SuccessorInduction
<1> QED
  BY <1>5, <1>8

(* Between two calls nl_fifo_peek_index() finds what is at an index in range, *)
(* counted from either end, and nothing at any other.                         *)
LEMMA PeekFinds ==
  ASSUME Inv, idle, NEW l \in Lists, NEW index \in Int
  PROVE  LET n == Len(nodes[l]) IN
         PeekIndex(l, index) =
           IF index \in 0..(n - 1) THEN data[nodes[l][index + 1]]
           ELSE IF index \in (-n)..(-1) THEN data[nodes[l][n + index + 1]]
           ELSE NULL
<1> DEFINE normalized == IF index < 0 THEN index + count[l] ELSE index
<1>1. HeadTypes /\ Plain
  BY QuietPlain DEF Inv, FifoTypeOK, Quiet, idle
<1>2. PICK n \in Nat : n = Len(nodes[l])
  BY <1>1, NodeFacts
<1>3. count[l] = n
  BY <1>1, <1>2 DEF Plain
<1>4. PeekIndex(l, index) = IF n = 0 \/ normalized < 0 \/ normalized >= n
                            THEN NULL ELSE data[Walked(l, normalized)]
  BY <1>3 DEF PeekIndex
<1>5. CASE index \in 0..(n - 1)
  <2>1. normalized = index /\ index \in Nat /\ index < n
    BY <1>2, <1>5
  <2> QED
    BY <1>1, <1>2, <1>4, <1>5, <2>1, WalkedTo
<1>6. CASE index \in (-n)..(-1)
  <2>1. normalized = n + index /\ n + index \in Nat /\ n + index < n /\ index \notin 0..(n - 1)
    BY <1>2, <1>3, <1>6
  <2>2. Walked(l, n + index) = nodes[l][n + index + 1]
    BY <1>1, <1>2, <2>1, WalkedTo
  <2> QED
    BY <1>2, <1>4, <1>6, <2>1, <2>2
<1>7. CASE index \notin 0..(n - 1) /\ index \notin (-n)..(-1)
  BY <1>2, <1>3, <1>4, <1>7
<1> QED
  BY <1>2, <1>5, <1>6, <1>7

(* nl_fifo_peek_index() answers right for lists of any length.                *)
THEOREM QueryCorrectness == FifoSpec => []QueriesAgree
<1>1. Inv => QueriesAgree
  <2> SUFFICES ASSUME Inv, idle, NEW l \in Lists,
                      NEW index \in (-(Len(nodes[l]) + 2))..(Len(nodes[l]) + 2)
               PROVE  LET n == Len(nodes[l]) IN
                      PeekIndex(l, index) =
                        IF index \in 0..(n - 1) THEN data[nodes[l][index + 1]]
                        ELSE IF index \in (-n)..(-1) THEN data[nodes[l][n + index + 1]]
                        ELSE NULL
    BY DEF QueriesAgree
  <2>1. index \in Int
    OBVIOUS
  <2> QED
    BY <2>1, PeekFinds
<1> QED
  BY <1>1, Invariance, PTL

-----------------------------------------------------------------------------
(* The iterator of the caller, and what it has returned.                     *)

(* What was returned is not behind the iterator; what was there when the      *)
(* iteration began and is not behind the iterator was returned.  An iterator  *)
(* whose element moved to another list has nothing of its list left.          *)
IterInv ==
  /\ \A l \in Lists : \A j \in 1..Len(nodes[l]) :
        nodes[l][j] \in seen => \E i \in 1..Len(nodes[l]) : j <= i /\ nodes[l][i] = iter
  /\ \A l \in Lists : \A i, j \in 1..Len(nodes[l]) :
        nodes[l][i] = iter /\ j <= i /\ nodes[l][j] \in atStart => nodes[l][j] \in seen
  /\ \A l \in Lists : \A j \in 1..Len(nodes[l]) : nodes[l][j] \in atStart => l = iterList
  /\ \A l \in Lists : \A i \in 1..Len(nodes[l]) :
        nodes[l][i] = iter /\ l # iterList => atStart = {}

(* An iteration that is over, or was never begun, promises nothing. *)
LEMMA ClosedKeeps ==
  ASSUME seen' = {}, atStart' = {}
  PROVE  IterInv'
  BY DEF IterInv

(* Node i of list l was node at[l][i] of list from[l][i], or is new. *)
Origin(from, at) ==
  /\ from \in [Lists -> [Nat -> Lists]]
  /\ \A l \in Lists : \A i \in 1..Len(nodes'[l]) :
        \/ nodes'[l][i] \notin seen \cup atStart \cup {iter}
        \/ /\ at[l][i] \in 1..Len(nodes[from[l][i]])
           /\ nodes'[l][i] = nodes[from[l][i]][at[l][i]]

(* Nodes of one list keep their order. *)
Ordered(from, at) ==
  \A l \in Lists : \A i, j \in 1..Len(nodes'[l]) :
     from[l][i] = from[l][j] => (i <= j <=> at[l][i] <= at[l][j])

(* Nodes of one list stay together. *)
Together(from) ==
  \A l, m \in Lists : \A i \in 1..Len(nodes'[l]), j \in 1..Len(nodes'[m]) :
     from[l][i] = from[m][j] => l = m

(* No node of the list that is iterated is in another list afterwards, unless *)
(* nothing is left of atStart.                                                *)
AtHome(from) ==
  atStart' # {} => \A l \in Lists : \A i \in 1..Len(nodes'[l]) :
     from[l][i] = iterList => l = iterList

(* A step that moves nodes and not the iterator, and at most forgets elements. *)
IterStays ==
  /\ iter' = iter /\ iterList' = iterList
  /\ seen' \subseteq seen /\ atStart' \subseteq atStart
  /\ \A x \in atStart' : x \in seen => x \in seen'
  /\ iter \in Elements => \E l \in Lists : \E i \in 1..Len(nodes'[l]) : nodes'[l][i] = iter

(* What happens to the iteration when nodes move. *)
LEMMA MoveKeeps ==
  ASSUME FifoTypeOK, Distinct, IterInv, IterStays,
         NEW at, NEW from, Origin(from, at), Ordered(from, at), Together(from), AtHome(from)
  PROVE  IterInv'
<1>1. ASSUME NEW l \in Lists, NEW i \in 1..Len(nodes'[l]),
             nodes'[l][i] \in seen \/ nodes'[l][i] \in atStart \/ nodes'[l][i] = iter
      PROVE  /\ from[l][i] \in Lists /\ at[l][i] \in 1..Len(nodes[from[l][i]])
             /\ nodes'[l][i] = nodes[from[l][i]][at[l][i]]
  <2>1. i \in Nat
    OBVIOUS
  <2>2. from[l][i] \in Lists
    BY <2>1 DEF Origin
  <2> QED
    BY <1>1, <2>2 DEF Origin
<1>2. ASSUME NEW a \in Lists, NEW b \in Lists,
             NEW p \in 1..Len(nodes[a]), NEW q \in 1..Len(nodes[b]), nodes[a][p] = nodes[b][q]
      PROVE  a = b /\ p = q
  BY <1>2 DEF Distinct
<1>3. ASSUME NEW l \in Lists, NEW j \in 1..Len(nodes'[l]), nodes'[l][j] \in seen'
      PROVE  \E i \in 1..Len(nodes'[l]) : j <= i /\ nodes'[l][i] = iter'
  <2>1. nodes'[l][j] \in seen
    BY <1>3 DEF IterStays
  <2>2. PICK f \in Lists : f = from[l][j]
    BY <1>1, <2>1
  <2>3. PICK j0 \in 1..Len(nodes[f]) : j0 = at[l][j] /\ nodes[f][j0] = nodes'[l][j]
    BY <1>1, <2>1, <2>2
  <2>4. PICK i0 \in 1..Len(nodes[f]) : j0 <= i0 /\ nodes[f][i0] = iter
    BY <2>1, <2>3 DEF IterInv
  <2>5. iter \in Elements
    BY <2>4, NodeFacts DEF FifoTypeOK
  <2>6. PICK m \in Lists : \E i \in 1..Len(nodes'[m]) : nodes'[m][i] = iter
    BY <2>5 DEF IterStays
  <2>7. PICK i \in 1..Len(nodes'[m]) : nodes'[m][i] = iter
    BY <2>6
  <2>8. PICK g \in Lists : g = from[m][i]
    BY <1>1, <2>7
  <2>9. PICK i1 \in 1..Len(nodes[g]) : i1 = at[m][i] /\ nodes[g][i1] = iter
    BY <1>1, <2>7, <2>8
  <2>10. g = f /\ i1 = i0
    <3>1. nodes[g][i1] = nodes[f][i0]
      BY <2>4, <2>9
    <3>2. f \in Lists /\ g \in Lists /\ i0 \in 1..Len(nodes[f]) /\ i1 \in 1..Len(nodes[g])
      OBVIOUS
    <3> QED
      BY <1>2, <3>1, <3>2
  <2>11. m = l
    BY <2>2, <2>8, <2>10 DEF Together
  <2>12. j <= i
    <3>1. i \in 1..Len(nodes'[l]) /\ from[l][j] = from[l][i]
      BY <2>2, <2>8, <2>10, <2>11
    <3>2. at[l][j] <= at[l][i]
      BY <2>3, <2>4, <2>9, <2>10, <2>11
    <3> QED
      BY <3>1, <3>2 DEF Ordered
  <2> QED
    BY <2>7, <2>11, <2>12 DEF IterStays
<1>4. ASSUME NEW l \in Lists, NEW i \in 1..Len(nodes'[l]), nodes'[l][i] = iter', atStart' # {}
      PROVE  from[l][i] = iterList /\ l = iterList
  <2>1. nodes'[l][i] = iter /\ atStart # {}
    BY <1>4 DEF IterStays
  <2>2. PICK f \in Lists : f = from[l][i]
    BY <1>1, <2>1
  <2>3. PICK i0 \in 1..Len(nodes[f]) : nodes[f][i0] = iter
    BY <1>1, <2>1, <2>2
  <2>4. f = iterList
    BY <2>1, <2>3 DEF IterInv
  <2> QED
    BY <1>4, <2>2, <2>4 DEF AtHome
<1>5. ASSUME NEW l \in Lists, NEW j \in 1..Len(nodes'[l]), nodes'[l][j] \in atStart'
      PROVE  from[l][j] = iterList /\ l = iterList
  <2>1. nodes'[l][j] \in atStart
    BY <1>5 DEF IterStays
  <2>2. PICK f \in Lists : f = from[l][j]
    BY <1>1, <2>1
  <2>3. PICK j0 \in 1..Len(nodes[f]) : nodes[f][j0] = nodes'[l][j]
    BY <1>1, <2>1, <2>2
  <2>4. f = iterList
    BY <2>1, <2>3 DEF IterInv
  <2> QED
    BY <1>5, <2>2, <2>4 DEF AtHome
<1>6. ASSUME NEW l \in Lists, NEW i \in 1..Len(nodes'[l]), NEW j \in 1..Len(nodes'[l]),
             nodes'[l][i] = iter', j <= i, nodes'[l][j] \in atStart'
      PROVE  nodes'[l][j] \in seen'
  <2>1. from[l][i] = iterList /\ from[l][j] = iterList
    BY <1>4, <1>5, <1>6
  <2>2. nodes'[l][i] = iter /\ nodes'[l][j] \in atStart
    BY <1>6 DEF IterStays
  <2>3. PICK f \in Lists : f = from[l][i] /\ f = from[l][j]
    BY <1>1, <2>1, <2>2
  <2>4. PICK i0 \in 1..Len(nodes[f]) : i0 = at[l][i] /\ nodes[f][i0] = iter
    <3>1. at[l][i] \in 1..Len(nodes[from[l][i]]) /\ nodes'[l][i] = nodes[from[l][i]][at[l][i]]
      BY <1>1, <2>2
    <3> QED
      BY <2>2, <2>3, <3>1
  <2>5. PICK j0 \in 1..Len(nodes[f]) : j0 = at[l][j] /\ nodes[f][j0] = nodes'[l][j]
    <3>1. at[l][j] \in 1..Len(nodes[from[l][j]]) /\ nodes'[l][j] = nodes[from[l][j]][at[l][j]]
      BY <1>1, <2>2
    <3> QED
      BY <2>3, <3>1
  <2>6. j0 <= i0
    BY <1>6, <2>1, <2>4, <2>5 DEF Ordered
  <2>7. nodes'[l][j] \in seen
    <3>1. nodes[f][j0] \in atStart
      BY <2>2, <2>5
    <3>2. nodes[f][j0] \in seen
      BY Zenon, <2>4, <2>6, <3>1 DEF IterInv
    <3> QED
      BY <2>5, <3>2
  <2> QED
    BY <1>6, <2>7 DEF IterStays
<1>7. iterList' = iterList
  BY DEF IterStays
<1> QED
  BY <1>3, <1>4, <1>5, <1>6, <1>7 DEF IterInv

(* The same, for a step that moves no node to another list. *)
Rising(at) == \A l \in Lists : \A i, j \in Nat : i <= j <=> at[l][i] <= at[l][j]

LEMMA ShiftKeeps ==
  ASSUME FifoTypeOK, Distinct, IterInv, IterStays,
         NEW at, Rising(at),
         \A l \in Lists : \A i \in 1..Len(nodes'[l]) :
            \/ nodes'[l][i] \notin seen \cup atStart \cup {iter}
            \/ at[l][i] \in 1..Len(nodes[l]) /\ nodes'[l][i] = nodes[l][at[l][i]]
  PROVE  IterInv'
<1> DEFINE from == [l \in Lists |-> [i \in Nat |-> l]]
<1>1. from \in [Lists -> [Nat -> Lists]] /\ \A l \in Lists : \A i \in Nat : from[l][i] = l
  OBVIOUS
<1> HIDE DEF from
<1>2. \A l \in Lists : \A i \in 1..Len(nodes'[l]) : i \in Nat /\ from[l][i] = l
  <2>1. \A l \in Lists : \A i \in 1..Len(nodes'[l]) : i \in Nat
    OBVIOUS
  <2> QED
    BY <1>1, <2>1
<1>3. Origin(from, at)
  <2> SUFFICES ASSUME NEW l \in Lists, NEW i \in 1..Len(nodes'[l]),
                      nodes'[l][i] \in seen \cup atStart \cup {iter}
               PROVE  /\ at[l][i] \in 1..Len(nodes[from[l][i]])
                      /\ nodes'[l][i] = nodes[from[l][i]][at[l][i]]
    BY Zenon, <1>1 DEF Origin
  <2>1. from[l][i] = l
    BY <1>2
  <2>2. at[l][i] \in 1..Len(nodes[l]) /\ nodes'[l][i] = nodes[l][at[l][i]]
    OBVIOUS
  <2> QED
    BY <2>1, <2>2
<1>4. Ordered(from, at)
  BY <1>2 DEF Ordered, Rising
<1>5. Together(from)
  BY <1>2 DEF Together
<1>6. AtHome(from)
  BY Zenon, <1>2 DEF AtHome
<1> QED
  BY <1>1, <1>3, <1>4, <1>5, <1>6, MoveKeeps

(* Nodes of one list that all move by the same distance, or are new. *)
LEMMA OffsetKeeps ==
  ASSUME FifoTypeOK, Distinct, IterInv, IterStays, NEW l \in Lists, NEW off \in Int,
         \A m \in Lists : m # l => nodes'[m] = nodes[m],
         \A i \in 1..Len(nodes'[l]) :
            \/ nodes'[l][i] \notin seen \cup atStart \cup {iter}
            \/ off + i \in 1..Len(nodes[l]) /\ nodes'[l][i] = nodes[l][off + i]
  PROVE  IterInv'
<1> DEFINE at == [m \in Lists |-> [i \in Nat |-> IF m = l THEN off + i ELSE i]]
<1>1. \A m \in Lists : \A i \in Nat : at[m][i] = IF m = l THEN off + i ELSE i
  OBVIOUS
<1> HIDE DEF at
<1>2. Rising(at)
  <2> SUFFICES ASSUME NEW m \in Lists, NEW i \in Nat, NEW j \in Nat
               PROVE  i <= j <=> at[m][i] <= at[m][j]
    BY DEF Rising
  <2>1. /\ at[m][i] = IF m = l THEN off + i ELSE i
        /\ at[m][j] = IF m = l THEN off + j ELSE j
    BY <1>1
  <2> QED
    BY <2>1
<1>3. ASSUME NEW m \in Lists, NEW i \in 1..Len(nodes'[m])
      PROVE  \/ nodes'[m][i] \notin seen \cup atStart \cup {iter}
             \/ at[m][i] \in 1..Len(nodes[m]) /\ nodes'[m][i] = nodes[m][at[m][i]]
  <2>1. i \in Nat
    OBVIOUS
  <2>2. CASE m = l
    <3>1. at[m][i] = off + i
      BY <1>1, <2>1, <2>2
    <3> QED
      BY <2>2, <3>1
  <2>3. CASE m # l
    <3>1. at[m][i] = i
      BY <1>1, <2>1, <2>3
    <3> QED
      BY <2>3, <3>1
  <2> QED
    BY <2>2, <2>3
<1> QED
  BY <1>2, <1>3, ShiftKeeps

(* Node p of a list is taken out. *)
LEMMA CutShift ==
  ASSUME FifoTypeOK, Distinct, IterInv, IterStays, NEW l \in Lists, NEW p \in 1..Len(nodes[l]),
         Len(nodes'[l]) = Len(nodes[l]) - 1,
         \A i \in 1..(p - 1) : nodes'[l][i] = nodes[l][i],
         \A i \in p..(Len(nodes[l]) - 1) : nodes'[l][i] = nodes[l][i + 1],
         \A m \in Lists : m # l => nodes'[m] = nodes[m]
  PROVE  IterInv'
<1> DEFINE at == [m \in Lists |-> [i \in Nat |-> IF m = l /\ i >= p THEN i + 1 ELSE i]]
<1>1. \A m \in Lists : \A i \in Nat : at[m][i] = IF m = l /\ i >= p THEN i + 1 ELSE i
  OBVIOUS
<1>0. p \in Int /\ Len(nodes[l]) \in Nat
  BY NodeFacts DEF FifoTypeOK
<1> HIDE DEF at
<1>2. Rising(at)
  <2> SUFFICES ASSUME NEW m \in Lists, NEW i \in Nat, NEW j \in Nat
               PROVE  i <= j <=> at[m][i] <= at[m][j]
    BY DEF Rising
  <2>1. /\ at[m][i] = IF m = l /\ i >= p THEN i + 1 ELSE i
        /\ at[m][j] = IF m = l /\ j >= p THEN j + 1 ELSE j
    BY <1>1
  <2> QED
    BY <1>0, <2>1
<1>3. ASSUME NEW m \in Lists, NEW i \in 1..Len(nodes'[m])
      PROVE  at[m][i] \in 1..Len(nodes[m]) /\ nodes'[m][i] = nodes[m][at[m][i]]
  <2>1. i \in Nat
    OBVIOUS
  <2>2. CASE m = l /\ i < p
    <3>1. at[m][i] = i
      BY <1>0, <1>1, <2>1, <2>2
    <3>2. i \in 1..(p - 1) /\ i \in 1..Len(nodes[l])
      BY <1>0, <2>1, <2>2
    <3> QED
      BY <2>2, <3>1, <3>2
  <2>3. CASE m = l /\ i >= p
    <3>1. at[m][i] = i + 1
      BY <1>0, <1>1, <2>1, <2>3
    <3>2. i \in p..(Len(nodes[l]) - 1) /\ i + 1 \in 1..Len(nodes[l])
      BY <1>0, <2>1, <2>3
    <3> QED
      BY <2>3, <3>1, <3>2
  <2>4. CASE m # l
    <3>1. at[m][i] = i
      BY <1>1, <2>1, <2>4
    <3> QED
      BY <2>4, <3>1
  <2> QED
    BY <1>0, <2>1, <2>2, <2>3, <2>4
<1> QED
  BY <1>2, <1>3, ShiftKeeps

(* When a call has returned, an iterator that is open points to a node. *)
LEMMA IterListed ==
  ASSUME Inv', call'.op = "idle", iter' \in Elements
  PROVE  \E l \in Lists : \E i \in 1..Len(nodes'[l]) : nodes'[l][i] = iter'
<1>1. iter' \in allocated'
  BY NullAssumption DEF Inv, FifoTypeOK, IterTypes
<1>2. PICK l \in Lists : \E i \in Live(l)' : nodes'[l][i] = iter'
  BY <1>1 DEF Inv, ListInv, Accounted
<1>3. PICK i \in Live(l)' : nodes'[l][i] = iter'
  BY <1>2
<1>4. i \in 1..Len(nodes'[l])
  BY DEF Live
<1> QED
  BY <1>2, <1>3, <1>4

(* A call that does not touch the iteration leaves the iterator where it is. *)
LEMMA StaysAfter ==
  ASSUME Inv', call'.op = "idle", UNCHANGED <<iter, iterList, seen, atStart>>
  PROVE  IterStays
<1>1. iter \in Elements => \E l \in Lists : \E i \in 1..Len(nodes'[l]) : nodes'[l][i] = iter
  <2> SUFFICES ASSUME iter' \in Elements
               PROVE  \E l \in Lists : \E i \in 1..Len(nodes'[l]) : nodes'[l][i] = iter'
    OBVIOUS
  <2> QED
    BY IterListed
<1> QED
  BY <1>1 DEF IterStays

(* free() ends the iteration that stands on its element and forgets the       *)
(* element in any other.                                                      *)
LEMMA FreeForgets ==
  ASSUME NEW e, Free(e)
  PROVE  \/ seen' = {} /\ atStart' = {}
         \/ /\ iter' = iter /\ iterList' = iterList
            /\ seen' = seen \ {e} /\ atStart' = atStart \ {e}
  BY DEF Free, IterClose

(* So does a call that frees and returns. *)
LEMMA FreeStays ==
  ASSUME Inv', call'.op = "idle", NEW e, Free(e), ~(seen' = {} /\ atStart' = {})
  PROVE  IterStays
<1>1. /\ iter' = iter /\ iterList' = iterList
      /\ seen' = seen \ {e} /\ atStart' = atStart \ {e}
  BY FreeForgets
<1>2. iter \in Elements => \E l \in Lists : \E i \in 1..Len(nodes'[l]) : nodes'[l][i] = iter
  <2> SUFFICES ASSUME iter' \in Elements
               PROVE  \E l \in Lists : \E i \in 1..Len(nodes'[l]) : nodes'[l][i] = iter'
    BY <1>1
  <2> QED
    BY IterListed
<1> QED
  BY <1>1, <1>2 DEF IterStays

(* Steps that move neither nodes nor the iterator. *)
LEMMA SameIter ==
  ASSUME IterInv, UNCHANGED <<nodes, iter, iterList, seen, atStart>>
  PROVE  IterInv'
  BY DEF IterInv

(* The begin of a call and the turns of a loop that only walks. *)
LEMMA WalkIter ==
  ASSUME IterInv,
         \/ \E l \in Lists : DestroyBegin(l)
         \/ \E l \in Lists, d \in Data : RemoveBegin(l, d)
         \/ \E l \in Lists, n \in 0..MaxArgument : RemoveStartBegin(l, n) \/ RemoveEndBegin(l, n)
         \/ \E src, dest \in Lists, op \in {"concatstart", "concatend"} : ConcatBegin(op, src, dest)
         \/ RemoveStep \/ RemoveMiss \/ RemoveEndWalk \/ RemoveEndFound \/ ConcatRelabel
  PROVE  IterInv'
<1>1. UNCHANGED <<nodes, iteration>>
  BY DEF DestroyBegin, RemoveBegin, RemoveStartBegin, RemoveEndBegin, ConcatBegin, RemoveStep,
     RemoveMiss, RemoveEndWalk, RemoveEndFound, ConcatRelabel
<1> QED
  BY <1>1, SameIter DEF iteration

(* nl_fifo_put() and nl_fifo_prepend(): the new element is no part of the iteration. *)
LEMMA PutIter ==
  ASSUME Inv, Inv', IterInv, NEW l \in Lists, NEW d \in Data, NEW e \in Elements,
         Put(l, d, e) \/ Prepend(l, d, e)
  PROVE  IterInv'
<1>1. /\ idle /\ call' = call /\ UNCHANGED <<iter, iterList, seen, atStart>> /\ e \notin allocated
      /\ nodes' = [nodes EXCEPT ![l] = Append(nodes[l], e)] \/ nodes' = [nodes EXCEPT ![l] = <<e>> \o nodes[l]]
  BY DEF Put, Prepend, Alloc, callVars, iteration
<1>2. FifoTypeOK /\ Distinct /\ call'.op = "idle"
  BY <1>1 DEF Inv, ListInv, idle
<1>3. IterStays
  BY <1>1, <1>2, StaysAfter
<1>4. e \notin seen \cup atStart \cup {iter}
  BY <1>1, <1>2, NullAssumption DEF FifoTypeOK, IterTypes
<1>5. nodes[l] \in Seq(Elements) /\ Len(nodes[l]) \in Nat /\ nodes \in [Lists -> Seq(Elements)]
  BY <1>2, NodeFacts DEF FifoTypeOK, HeadTypes
<1>6. CASE nodes' = [nodes EXCEPT ![l] = Append(nodes[l], e)]
  <2>1. nodes'[l] = Append(nodes[l], e) /\ \A m \in Lists : m # l => nodes'[m] = nodes[m]
    BY <1>5, <1>6
  <2>2. /\ Len(nodes'[l]) = Len(nodes[l]) + 1 /\ nodes'[l][Len(nodes[l]) + 1] = e
        /\ \A i \in 1..Len(nodes[l]) : nodes'[l][i] = nodes[l][i]
    BY <1>5, <2>1, AppendFacts
  <2>3. PICK off \in Int : off = 0
    OBVIOUS
  <2>4. ASSUME NEW i \in 1..Len(nodes'[l])
        PROVE  \/ nodes'[l][i] \notin seen \cup atStart \cup {iter}
               \/ off + i \in 1..Len(nodes[l]) /\ nodes'[l][i] = nodes[l][off + i]
    <3>1. i = Len(nodes[l]) + 1 \/ (i \in 1..Len(nodes[l]) /\ off + i = i)
      BY <1>5, <2>2, <2>3
    <3> QED
      BY <1>4, <2>2, <3>1
  <2> QED
    BY <1>2, <1>3, <2>1, <2>3, <2>4, OffsetKeeps
<1>7. CASE nodes' = [nodes EXCEPT ![l] = <<e>> \o nodes[l]]
  <2>1. nodes'[l] = <<e>> \o nodes[l] /\ \A m \in Lists : m # l => nodes'[m] = nodes[m]
    BY <1>5, <1>7
  <2>2. /\ Len(nodes'[l]) = Len(nodes[l]) + 1 /\ nodes'[l][1] = e
        /\ \A i \in 2..(Len(nodes[l]) + 1) : nodes'[l][i] = nodes[l][i - 1]
    BY <1>5, <2>1, PrependFacts
  <2>3. PICK off \in Int : off = -1
    OBVIOUS
  <2>4. ASSUME NEW i \in 1..Len(nodes'[l])
        PROVE  \/ nodes'[l][i] \notin seen \cup atStart \cup {iter}
               \/ off + i \in 1..Len(nodes[l]) /\ nodes'[l][i] = nodes[l][off + i]
    <3>1. i = 1 \/ (/\ i \in 2..(Len(nodes[l]) + 1) /\ off + i = i - 1
                    /\ off + i \in 1..Len(nodes[l]))
      BY <1>5, <2>2, <2>3
    <3> QED
      BY <1>4, <2>2, <3>1
  <2> QED
    BY <1>2, <1>3, <2>1, <2>3, <2>4, OffsetKeeps
<1> QED
  BY <1>1, <1>6, <1>7

(* One turn of the loops that free. *)
LEMMA FreeStepIter ==
  ASSUME IterInv, RemoveStartStep \/ DestroyStep \/ RemoveEndStep
  PROVE  IterInv'
<1>1. Free(cur) /\ nodes' = nodes
  BY DEF RemoveStartStep, DestroyStep, RemoveEndStep, FreeCur
<1>2. CASE seen' = {} /\ atStart' = {}
  BY <1>2, ClosedKeeps
<1>3. CASE /\ iter' = iter /\ iterList' = iterList
           /\ seen' = seen \ {cur} /\ atStart' = atStart \ {cur}
  BY <1>1, <1>3 DEF IterInv
<1> QED
  BY <1>1, <1>2, <1>3, FreeForgets

(* nl_fifo_get() and nl_fifo_remove() take one node out. *)
LEMMA CutIter ==
  ASSUME Inv, Inv', IterInv, (\E l \in Lists : Get(l)) \/ RemoveHit
  PROVE  IterInv'
<1>0. FifoTypeOK /\ Distinct
  BY DEF Inv, ListInv
<1>1. CASE seen' = {} /\ atStart' = {}
  BY <1>1, ClosedKeeps
<1>2. ASSUME ~(seen' = {} /\ atStart' = {}), NEW l \in Lists, Get(l)
      PROVE  IterInv'
  <2>1. Quiet /\ Plain /\ call'.op = "idle" /\ Free(first[l])
    BY <1>2, QuietPlain DEF Get, idle, Quiet, callVars
  <2>2. nodes[l] \in Seq(Elements) /\ Len(nodes[l]) \in Nat /\ nodes \in [Lists -> Seq(Elements)]
    BY <1>0, NodeFacts DEF FifoTypeOK, HeadTypes
  <2>3. count[l] = Len(nodes[l]) /\ count[l] > 0
    BY <1>2, <2>1 DEF Get, Plain
  <2>4. nodes[l] # <<>> /\ 1 \in 1..Len(nodes[l])
    BY <2>2, <2>3
  <2>5. nodes'[l] = Tail(nodes[l]) /\ \A m \in Lists : m # l => nodes'[m] = nodes[m]
    BY <1>2, <2>2 DEF Get
  <2>6. /\ Len(nodes'[l]) = Len(nodes[l]) - 1
        /\ \A i \in 1..(Len(nodes[l]) - 1) : nodes'[l][i] = nodes[l][i + 1]
    BY <2>2, <2>4, <2>5, TailFacts
  <2>7. PICK p \in 1..Len(nodes[l]) : p = 1
    BY <2>4
  <2>8. /\ \A i \in 1..(p - 1) : nodes'[l][i] = nodes[l][i]
        /\ \A i \in p..(Len(nodes[l]) - 1) : nodes'[l][i] = nodes[l][i + 1]
    BY <2>6, <2>7
  <2>9. IterStays
    BY <1>2, <2>1, FreeStays
  <2> QED
    BY <1>0, <2>5, <2>6, <2>8, <2>9, CutShift
<1>3. ASSUME ~(seen' = {} /\ atStart' = {}), RemoveHit
      PROVE  IterInv'
  <2>1. ~idle /\ call.op = "remove" /\ call'.op = "idle" /\ Free(cur) /\ cur # NULL
    BY <1>3 DEF RemoveHit, idle, CallEnds, Idle
  <2>2. PICK l \in Lists : l = call.list
    BY <2>1 DEF Inv, ListInv, LoopOK
  <2>3. nodes[l] \in Seq(Elements) /\ Len(nodes[l]) \in Nat /\ nodes \in [Lists -> Seq(Elements)]
    BY <1>0, NodeFacts DEF FifoTypeOK, HeadTypes
  <2>4. PICK p \in 1..Len(nodes[l]) : p = pos
    BY <2>1, <2>2, <2>3 DEF Inv, ListInv, LoopOK, NodeAt
  <2> DEFINE t == SubSeq(nodes[l], 1, p - 1) \o SubSeq(nodes[l], p + 1, Len(nodes[l]))
  <2>5. nodes' = [nodes EXCEPT ![l] = t]
    BY <1>3, <2>2, <2>4 DEF RemoveHit
  <2>6. /\ Len(t) = Len(nodes[l]) - 1
        /\ \A i \in 1..(p - 1) : t[i] = nodes[l][i]
        /\ \A i \in p..(Len(nodes[l]) - 1) : t[i] = nodes[l][i + 1]
    BY <2>3, CutFacts
  <2> HIDE DEF t
  <2>7. nodes'[l] = t /\ \A m \in Lists : m # l => nodes'[m] = nodes[m]
    BY <2>3, <2>5
  <2>8. /\ Len(nodes'[l]) = Len(nodes[l]) - 1
        /\ \A i \in 1..(p - 1) : nodes'[l][i] = nodes[l][i]
        /\ \A i \in p..(Len(nodes[l]) - 1) : nodes'[l][i] = nodes[l][i + 1]
    BY <2>6, <2>7
  <2>9. IterStays
    BY <1>3, <2>1, FreeStays
  <2> QED
    BY <1>0, <2>7, <2>8, <2>9, CutShift
<1> QED
  BY <1>1, <1>2, <1>3

(* The ends of the loops that free leave a run of the nodes there were. *)
LEMMA TrimIter ==
  ASSUME Inv, Inv', IterInv, RemoveStartEnd \/ DestroyEnd \/ RemoveEndFinish
  PROVE  IterInv'
<1>1. /\ call.op \in {"start", "destroy", "endfree"} /\ ~idle /\ call' = Idle
      /\ UNCHANGED <<iter, iterList, seen, atStart>>
  BY DEF RemoveStartEnd, DestroyEnd, RemoveEndFinish, CallEnds, iteration, idle
<1>2. call'.op = "idle"
  BY <1>1 DEF Idle
<1>3. FifoTypeOK /\ Distinct /\ IterStays
  BY <1>1, <1>2, StaysAfter DEF Inv, ListInv
<1>4. PICK l \in Lists : l = call.list
  BY <1>1, LoopEnds
<1>5. /\ nodes[l] \in Seq(Elements) /\ Len(nodes[l]) \in Nat /\ nodes \in [Lists -> Seq(Elements)]
      /\ call.n \in Nat
  BY <1>1, <1>3, <1>4, LoopEnds DEF FifoTypeOK, HeadTypes
<1>6. \E off \in Nat :
         /\ \A i \in 1..Len(nodes'[l]) :
               off + i \in 1..Len(nodes[l]) /\ nodes'[l][i] = nodes[l][off + i]
         /\ \A m \in Lists : m # l => nodes'[m] = nodes[m]
  <2>1. CASE RemoveStartEnd
    <3> DEFINE t == SubSeq(nodes[l], call.n + 1, Len(nodes[l]))
    <3>1. nodes' = [nodes EXCEPT ![l] = t]
      BY <1>4, <2>1 DEF RemoveStartEnd
    <3>2. /\ Len(t) = IF call.n + 1 <= Len(nodes[l]) THEN Len(nodes[l]) - (call.n + 1) + 1 ELSE 0
          /\ \A i \in 1..(Len(nodes[l]) - (call.n + 1) + 1) : t[i] = nodes[l][(call.n + 1) + i - 1]
      <4>1. /\ call.n + 1 \in Nat /\ 1 <= call.n + 1
            /\ Len(nodes[l]) \in Nat /\ Len(nodes[l]) <= Len(nodes[l])
        BY <1>5
      <4> QED
        BY SMTT(40), <1>5, <4>1, SubSeqFacts
    <3> HIDE DEF t
    <3>3. nodes'[l] = t /\ \A m \in Lists : m # l => nodes'[m] = nodes[m]
      BY <1>5, <3>1
    <3>4. ASSUME NEW i \in 1..Len(t)
          PROVE  call.n + i \in 1..Len(nodes[l]) /\ t[i] = nodes[l][call.n + i]
      <4>1. /\ i \in 1..(Len(nodes[l]) - (call.n + 1) + 1) /\ (call.n + 1) + i - 1 = call.n + i
            /\ call.n + i \in 1..Len(nodes[l])
        BY <1>5, <3>2
      <4> QED
        BY <3>2, <4>1
    <3> QED
      BY <1>5, <3>3, <3>4
  <2>2. CASE DestroyEnd
    <3>1. nodes'[l] = <<>> /\ \A m \in Lists : m # l => nodes'[m] = nodes[m]
      BY <1>4, <1>5, <2>2 DEF DestroyEnd
    <3>2. Len(nodes'[l]) = 0
      BY <3>1
    <3> QED
      BY <3>1, <3>2
  <2>3. CASE RemoveEndFinish
    <3> DEFINE t == SubSeq(nodes[l], 1, call.n)
    <3>1. nodes' = [nodes EXCEPT ![l] = t] /\ call.op = "endfree"
      BY <1>4, <2>3 DEF RemoveEndFinish
    <3>2. call.n \in 1..Len(nodes[l])
      BY <1>1, <1>4, <3>1 DEF Inv, ListInv, LoopOK
    <3>3. /\ Len(t) = call.n
          /\ \A i \in 1..call.n : t[i] = nodes[l][i]
      BY <1>5, <3>2, SubSeqFacts
    <3> HIDE DEF t
    <3>4. nodes'[l] = t /\ \A m \in Lists : m # l => nodes'[m] = nodes[m]
      BY <1>5, <3>1
    <3>5. PICK off \in Nat : off = 0
      OBVIOUS
    <3>6. ASSUME NEW i \in 1..Len(t)
          PROVE  off + i \in 1..Len(nodes[l]) /\ t[i] = nodes[l][off + i]
      <4>1. i \in 1..call.n /\ off + i = i /\ i \in 1..Len(nodes[l])
        BY <1>5, <3>2, <3>3, <3>5
      <4> QED
        BY <3>3, <4>1
    <3> QED
      BY <3>4, <3>5, <3>6
  <2> QED
    BY <2>1, <2>2, <2>3
<1>7. PICK off \in Nat :
         /\ \A i \in 1..Len(nodes'[l]) :
               off + i \in 1..Len(nodes[l]) /\ nodes'[l][i] = nodes[l][off + i]
         /\ \A m \in Lists : m # l => nodes'[m] = nodes[m]
  BY <1>6
<1>8. off \in Int
  OBVIOUS
<1> QED
  BY <1>3, <1>4, <1>7, <1>8, OffsetKeeps

(* A concatenation: dest is list a, then list b.  An iteration of the source  *)
(* has nothing left of what was there when it began; one of the destination   *)
(* goes on.                                                                   *)
LEMMA JoinIter ==
  ASSUME Inv, Inv', IterInv, Concatenating,
         NEW src \in Lists, src = call.list, NEW dest \in Lists, dest = call.dest,
         NEW a \in Lists, NEW b \in Lists, (a = src /\ b = dest) \/ (a = dest /\ b = src),
         nodes' = [nodes EXCEPT ![dest] = nodes[a] \o nodes[b], ![src] = <<>>],
         Emptied(src, dest)
  PROVE  IterInv'
<1>1. FifoTypeOK /\ Distinct /\ src # dest
  BY MovingFacts DEF Inv, ListInv
<1>2. /\ UNCHANGED <<iter, iterList, seen>>
      /\ atStart' = IF src = iterList THEN {} ELSE atStart
      /\ call' = Idle
  BY DEF Emptied, CallEnds
<1>3. call'.op = "idle"
  BY <1>2 DEF Idle
<1>4. IterStays
  <2>1. iter \in Elements => \E l \in Lists : \E i \in 1..Len(nodes'[l]) : nodes'[l][i] = iter
    <3> SUFFICES ASSUME iter' \in Elements
                 PROVE  \E l \in Lists : \E i \in 1..Len(nodes'[l]) : nodes'[l][i] = iter'
      BY <1>2
    <3> QED
      BY <1>3, IterListed
  <2> QED
    BY <1>2, <2>1 DEF IterStays
<1>5. /\ nodes[a] \in Seq(Elements) /\ nodes[b] \in Seq(Elements)
      /\ Len(nodes[a]) \in Nat /\ Len(nodes[b]) \in Nat /\ nodes \in [Lists -> Seq(Elements)]
  BY <1>1, NodeFacts DEF FifoTypeOK, HeadTypes
<1>6. /\ nodes'[dest] = nodes[a] \o nodes[b] /\ nodes'[src] = <<>>
      /\ \A m \in Lists : m # src /\ m # dest => nodes'[m] = nodes[m]
  BY <1>1, <1>5
<1>7. PICK la \in Nat : la = Len(nodes[a])
  BY <1>5
<1>8. PICK lb \in Nat : lb = Len(nodes[b])
  BY <1>5
<1>9. /\ Len(nodes'[dest]) = la + lb /\ Len(nodes'[src]) = 0
      /\ \A i \in 1..la : nodes'[dest][i] = nodes[a][i]
      /\ \A i \in (la + 1)..(la + lb) : nodes'[dest][i] = nodes[b][i - la]
  <2> DEFINE t == nodes[a] \o nodes[b]
  <2>1. /\ Len(t) = Len(nodes[a]) + Len(nodes[b])
        /\ \A i \in 1..Len(nodes[a]) : t[i] = nodes[a][i]
        /\ \A i \in (Len(nodes[a]) + 1)..(Len(nodes[a]) + Len(nodes[b])) : t[i] = nodes[b][i - Len(nodes[a])]
    BY <1>5, ConcatFacts
  <2>2. nodes'[dest] = t /\ Len(nodes'[src]) = 0
    BY <1>6
  <2> HIDE DEF t
  <2> QED
    BY <1>7, <1>8, <2>1, <2>2
<1> DEFINE from == [m \in Lists |-> [i \in Nat |->
                      IF m = dest THEN IF i <= la THEN a ELSE b ELSE m]]
           at == [m \in Lists |-> [i \in Nat |-> IF m = dest /\ i > la THEN i - la ELSE i]]
<1>10. from \in [Lists -> [Nat -> Lists]]
  OBVIOUS
<1>11. \A m \in Lists : \A i \in Nat :
          /\ from[m][i] = IF m = dest THEN IF i <= la THEN a ELSE b ELSE m
          /\ at[m][i] = IF m = dest /\ i > la THEN i - la ELSE i
  OBVIOUS
<1> HIDE DEF from, at
<1>12. ASSUME NEW m \in Lists, NEW i \in 1..Len(nodes'[m])
       PROVE  /\ i \in Nat /\ m # src
              /\ \/ m # dest /\ from[m][i] = m /\ at[m][i] = i
                 \/ m = dest /\ i \in 1..la /\ from[m][i] = a /\ at[m][i] = i
                 \/ /\ m = dest /\ i \in (la + 1)..(la + lb) /\ i - la \in 1..lb
                    /\ from[m][i] = b /\ at[m][i] = i - la
  <2>1. i \in Nat
    OBVIOUS
  <2>2. m # src
    BY <1>9
  <2>3. CASE m # dest
    BY <1>11, <2>1, <2>2, <2>3
  <2>4. CASE m = dest /\ i <= la
    <3>1. i \in 1..la
      BY <2>1, <2>4
    <3>2. from[m][i] = a /\ at[m][i] = i
      BY <1>11, <2>1, <2>4
    <3> QED
      BY <2>1, <2>2, <2>4, <3>1, <3>2
  <2>5. CASE m = dest /\ i > la
    <3>1. i \in (la + 1)..(la + lb) /\ i - la \in 1..lb
      <4>1. Len(nodes'[dest]) = la + lb
        BY <1>9
      <4>2. i \in 1..(la + lb) /\ i > la
        BY <2>5, <4>1
      <4>3. la \in Nat /\ lb \in Nat
        OBVIOUS
      <4> QED
        BY <4>2, <4>3
    <3>2. from[m][i] = b /\ at[m][i] = i - la
      BY <1>11, <2>1, <2>5
    <3> QED
      BY <2>1, <2>2, <2>5, <3>1, <3>2
  <2> QED
    BY <2>1, <2>3, <2>4, <2>5
<1>13. Origin(from, at)
  <2>1. ASSUME NEW m \in Lists, NEW i \in 1..Len(nodes'[m])
        PROVE  /\ at[m][i] \in 1..Len(nodes[from[m][i]])
               /\ nodes'[m][i] = nodes[from[m][i]][at[m][i]]
    <3>1. CASE m # dest /\ from[m][i] = m /\ at[m][i] = i
      <4>1. nodes'[m] = nodes[m]
        BY <1>6, <1>12, <3>1
      <4> QED
        BY <3>1, <4>1
    <3>2. CASE m = dest /\ i \in 1..la /\ from[m][i] = a /\ at[m][i] = i
      <4>1. nodes'[dest][i] = nodes[a][i] /\ i \in 1..Len(nodes[a])
        BY <1>7, <1>9, <3>2
      <4> QED
        BY <3>2, <4>1
    <3>3. CASE /\ m = dest /\ i \in (la + 1)..(la + lb) /\ i - la \in 1..lb
               /\ from[m][i] = b /\ at[m][i] = i - la
      <4>1. nodes'[dest][i] = nodes[b][i - la] /\ i - la \in 1..Len(nodes[b])
        BY <1>8, <1>9, <3>3
      <4> QED
        BY <3>3, <4>1
    <3> QED
      BY <1>12, <3>1, <3>2, <3>3
  <2> QED
    BY <1>10, <2>1 DEF Origin
<1>14. a # b
  BY <1>1
<1>15. Ordered(from, at)
  <2> SUFFICES ASSUME NEW m \in Lists, NEW i \in 1..Len(nodes'[m]), NEW j \in 1..Len(nodes'[m]),
                      from[m][i] = from[m][j]
               PROVE  i <= j <=> at[m][i] <= at[m][j]
    BY DEF Ordered
  <2>1. i \in Nat /\ j \in Nat
    OBVIOUS
  <2>2. (at[m][i] = i /\ at[m][j] = j) \/ (at[m][i] = i - la /\ at[m][j] = j - la)
    <3>1. CASE m # dest
      BY <1>12, <3>1
    <3>2. CASE m = dest
      <4>1. (from[m][i] = a /\ at[m][i] = i) \/ (from[m][i] = b /\ at[m][i] = i - la)
        BY <1>12, <3>2
      <4>2. (from[m][j] = a /\ at[m][j] = j) \/ (from[m][j] = b /\ at[m][j] = j - la)
        BY <1>12, <3>2
      <4> QED
        BY <1>14, <4>1, <4>2
    <3> QED
      BY <3>1, <3>2
  <2> QED
    BY <2>1, <2>2
<1>16. Together(from)
  <2> SUFFICES ASSUME NEW l \in Lists, NEW m \in Lists,
                      NEW i \in 1..Len(nodes'[l]), NEW j \in 1..Len(nodes'[m]),
                      from[l][i] = from[m][j]
               PROVE  l = m
    BY DEF Together
  <2>1. from[l][i] = l \/ (l = dest /\ from[l][i] \in {src, dest})
    BY <1>12
  <2>2. from[m][j] = m \/ (m = dest /\ from[m][j] \in {src, dest})
    BY <1>12
  <2>3. l # src /\ m # src
    BY <1>12
  <2> QED
    BY <2>1, <2>2, <2>3
<1>17. AtHome(from)
  <2> SUFFICES ASSUME atStart' # {}, NEW l \in Lists, NEW i \in 1..Len(nodes'[l]),
                      from[l][i] = iterList
               PROVE  l = iterList
    BY DEF AtHome
  <2>1. src # iterList
    BY <1>2
  <2>2. from[l][i] = l \/ (l = dest /\ from[l][i] \in {src, dest})
    BY <1>12
  <2> QED
    BY <2>1, <2>2
<1> QED
  BY <1>1, <1>4, <1>13, <1>15, <1>16, <1>17, MoveKeeps

(* The two concatenations. *)
LEMMA ConcatIter ==
  ASSUME Inv, Inv', IterInv, ConcatStartFinish \/ ConcatEndFinish
  PROVE  IterInv'
<1>1. Concatenating
  BY DEF ConcatStartFinish, ConcatEndFinish, Concatenating
<1>2. PICK src \in Lists : src = call.list
  BY <1>1, MovingFacts
<1>3. PICK dest \in Lists : dest = call.dest
  BY <1>1, MovingFacts
<1>4. CASE ConcatStartFinish
  <2>1. /\ nodes' = [nodes EXCEPT ![dest] = nodes[src] \o nodes[dest], ![src] = <<>>]
        /\ Emptied(src, dest)
    BY <1>2, <1>3, <1>4 DEF ConcatStartFinish
  <2> QED
    BY <1>1, <1>2, <1>3, <2>1, JoinIter
<1>5. CASE ConcatEndFinish
  <2>1. /\ nodes' = [nodes EXCEPT ![dest] = nodes[dest] \o nodes[src], ![src] = <<>>]
        /\ Emptied(src, dest)
    BY <1>2, <1>3, <1>5 DEF ConcatEndFinish
  <2> QED
    BY <1>1, <1>2, <1>3, <2>1, JoinIter
<1> QED
  BY <1>4, <1>5

(* Where nl_fifo_next() goes: to the node after the one it stands on, and from *)
(* NULL to the first.  Where it ends there is no node behind it.              *)
LEMMA NextPlace ==
  ASSUME Inv, idle, iterState = "open", ~ForeignIterator
  PROVE  /\ iterList \in Lists
         /\ \E k \in 1..(Len(nodes[iterList]) + 1) :
               /\ NextElement = NodeAt(iterList, k)
               /\ \A l \in Lists : \A i \in 1..Len(nodes[l]) :
                     nodes[l][i] = iter => l = iterList /\ i = k - 1
               /\ k > 1 => nodes[iterList][k - 1] = iter
<1>1. Plain /\ FifoTypeOK /\ Distinct
  BY QuietPlain DEF Inv, Quiet, idle
<1>2. iterList \in Lists /\ iter \in allocated \cup {NULL}
  BY <1>1 DEF FifoTypeOK, IterTypes
<1>3. \A l \in Lists : Len(nodes[l]) \in Nat /\ \A i \in 1..Len(nodes[l]) : nodes[l][i] # NULL
  BY <1>1, NodeFacts DEF FifoTypeOK
<1>4. CASE iter = NULL
  <2>1. NextElement = NodeAt(iterList, 1) /\ 1 \in 1..(Len(nodes[iterList]) + 1)
    BY <1>1, <1>2, <1>3, <1>4 DEF NextElement, Plain
  <2> QED
    BY <1>2, <1>3, <1>4, <2>1
<1>5. CASE iter # NULL
  <2>1. PICK m \in Lists : \E i \in 1..Len(nodes[m]) : nodes[m][i] = iter
    BY <1>1, <1>2, <1>5 DEF Plain
  <2>2. PICK p \in 1..Len(nodes[m]) : nodes[m][p] = iter
    BY <2>1
  <2>3. owner[iter] = iterList
    BY <1>5 DEF ForeignIterator
  <2>4. m = iterList
    BY <1>1, <2>1, <2>2, <2>3 DEF Plain
  <2>5. NextElement = NodeAt(iterList, p + 1)
    BY <1>1, <1>5, <2>1, <2>2, <2>4 DEF NextElement, Plain
  <2>6. PICK k \in 1..(Len(nodes[iterList]) + 1) : k = p + 1 /\ k - 1 = p
    BY <1>2, <1>3, <2>2, <2>4
  <2>7. ASSUME NEW l \in Lists, NEW i \in 1..Len(nodes[l]), nodes[l][i] = iter
        PROVE  l = iterList /\ i = p
    BY <1>1, <2>1, <2>2, <2>4, <2>7 DEF Distinct
  <2> QED
    BY <1>2, <2>2, <2>4, <2>5, <2>6, <2>7
<1> QED
  BY <1>4, <1>5

(* nl_fifo_next() that returns an element. *)
LEMMA NextFound ==
  ASSUME Inv, IterNext
  PROVE  \E k \in 1..Len(nodes[iterList]) :
            /\ nodes[iterList][k] = iter'
            /\ \A l \in Lists : \A i \in 1..Len(nodes[l]) :
                  nodes[l][i] = iter => l = iterList /\ i = k - 1
            /\ k > 1 => nodes[iterList][k - 1] = iter
<1>1. /\ idle /\ iterState = "open" /\ ~ForeignIterator
      /\ NextElement # NULL /\ iter' = NextElement
  BY DEF IterNext
<1>2. PICK k \in 1..(Len(nodes[iterList]) + 1) :
         /\ NextElement = NodeAt(iterList, k)
         /\ \A l \in Lists : \A i \in 1..Len(nodes[l]) :
               nodes[l][i] = iter => l = iterList /\ i = k - 1
         /\ k > 1 => nodes[iterList][k - 1] = iter
  BY <1>1, NextPlace
<1>3. k \in 1..Len(nodes[iterList]) /\ nodes[iterList][k] = iter'
  BY <1>1, <1>2 DEF NodeAt
<1> QED
  BY <1>2, <1>3

(* The iterator's own steps. *)
LEMMA NextIter ==
  ASSUME Inv, IterInv, (\E l \in Lists : IterOpen(l)) \/ IterError \/ IterEnd \/ IterNext
  PROVE  IterInv'
<1>1. Quiet /\ idle /\ nodes' = nodes
  BY DEF IterOpen, IterError, IterEnd, IterNext, Quiet, idle
<1>2. Plain /\ FifoTypeOK /\ Distinct
  BY <1>1, QuietPlain DEF Inv
<1>3. \A l \in Lists : Len(nodes[l]) \in Nat /\ \A i \in 1..Len(nodes[l]) : nodes[l][i] # NULL
  BY <1>2, NodeFacts DEF FifoTypeOK
<1>4. ASSUME NEW m \in Lists, IterOpen(m)
      PROVE  IterInv'
  <2>1. iter' = NULL /\ iterList' = m /\ atStart' = Members(m) /\ seen' = {}
    BY <1>4 DEF IterOpen
  <2>2. ASSUME NEW l \in Lists, NEW j \in 1..Len(nodes[l]), nodes[l][j] \in Members(m)
        PROVE  l = m
    <3>1. PICK i \in 1..Len(nodes[m]) : nodes[l][j] = nodes[m][i]
      BY <2>2 DEF Members
    <3> QED
      BY <1>2, <2>2, <3>1 DEF Distinct
  <2> QED
    BY <1>1, <1>3, <2>1, <2>2 DEF IterInv
<1>5. CASE IterError \/ IterEnd
  BY <1>5, ClosedKeeps DEF IterError, IterEnd, IterClose
<1>6. CASE IterNext
  <2>1. /\ iterState = "open" /\ ~ForeignIterator /\ NextElement # NULL /\ iter' = NextElement
        /\ seen' = seen \cup {NextElement} /\ UNCHANGED <<iterList, atStart>>
    BY <1>6 DEF IterNext
  <2>2. iterList \in Lists /\ iter \in allocated \cup {NULL}
    BY <1>2, <2>1 DEF FifoTypeOK, IterTypes
  <2>3. PICK k \in 1..Len(nodes[iterList]) :
           /\ nodes[iterList][k] = iter'
           /\ \A l \in Lists : \A i \in 1..Len(nodes[l]) : nodes[l][i] = iter => l = iterList /\ i = k - 1
           /\ k > 1 => nodes[iterList][k - 1] = iter
    BY <1>1, <1>6, NextFound
  <2>4. ASSUME NEW l \in Lists, NEW j \in 1..Len(nodes[l]), nodes[l][j] \in seen'
        PROVE  \E i \in 1..Len(nodes[l]) : j <= i /\ nodes[l][i] = iter'
    <3>1. CASE nodes[l][j] = iter'
      BY <3>1
    <3>2. CASE nodes[l][j] \in seen
      <4>1. PICK i \in 1..Len(nodes[l]) : j <= i /\ nodes[l][i] = iter
        BY <3>2 DEF IterInv
      <4>2. l = iterList /\ i = k - 1
        BY <2>3, <4>1
      <4>3. j <= k
        BY <4>1, <4>2
      <4> QED
        BY <2>3, <4>2, <4>3
    <3> QED
      BY <2>1, <2>4, <3>1, <3>2
  <2>5. ASSUME NEW l \in Lists, NEW i \in 1..Len(nodes[l]), nodes[l][i] = iter'
        PROVE  l = iterList /\ i = k
    BY <1>2, <2>2, <2>3, <2>5 DEF Distinct
  <2>6. ASSUME NEW l \in Lists, NEW i \in 1..Len(nodes[l]), NEW j \in 1..Len(nodes[l]),
               nodes[l][i] = iter', j <= i, nodes[l][j] \in atStart
        PROVE  nodes[l][j] \in seen'
    <3>1. l = iterList /\ i = k
      BY <2>5, <2>6
    <3>2. CASE j = k
      BY <2>1, <2>3, <3>1, <3>2
    <3>3. CASE j # k
      <4>1. k > 1 /\ j <= k - 1 /\ k - 1 \in 1..Len(nodes[iterList])
        BY <2>2, <2>6, <1>3, <3>1, <3>3
      <4>2. nodes[iterList][k - 1] = iter
        BY <2>3, <4>1
      <4>3. nodes[l][j] \in seen
        BY <2>2, <2>6, <3>1, <4>1, <4>2 DEF IterInv
      <4> QED
        BY <2>1, <4>3
    <3> QED
      BY <3>2, <3>3
  <2>7. \A l \in Lists : \A j \in 1..Len(nodes[l]) : nodes[l][j] \in atStart => l = iterList
    BY DEF IterInv
  <2> QED
    BY <1>1, <2>1, <2>4, <2>5, <2>6, <2>7 DEF IterInv
<1> QED
  BY <1>4, <1>5, <1>6

(* Every step of every call keeps what the iterator promises. *)
LEMMA NextKeepsIter == Inv /\ IterInv /\ [FifoNext]_fifoVars => IterInv'
<1> SUFFICES ASSUME Inv, IterInv, [FifoNext]_fifoVars PROVE IterInv'
  OBVIOUS
<1>1. Inv'
  BY NextKeeps
<1>2. ASSUME NEW l \in Lists, NEW d \in Data, NEW e \in Elements, Put(l, d, e) \/ Prepend(l, d, e)
      PROVE  IterInv'
  BY <1>1, <1>2, PutIter
<1>3. CASE (\E l \in Lists : Get(l)) \/ RemoveHit
  BY <1>1, <1>3, CutIter
<1>4. CASE \/ \E l \in Lists : DestroyBegin(l)
           \/ \E l \in Lists, d \in Data : RemoveBegin(l, d)
           \/ \E l \in Lists, n \in 0..MaxArgument : RemoveStartBegin(l, n) \/ RemoveEndBegin(l, n)
           \/ \E src, dest \in Lists, op \in {"concatstart", "concatend"} : ConcatBegin(op, src, dest)
           \/ RemoveStep \/ RemoveMiss \/ RemoveEndWalk \/ RemoveEndFound \/ ConcatRelabel
  BY <1>4, WalkIter
<1>5. CASE RemoveStartStep \/ DestroyStep \/ RemoveEndStep
  BY <1>5, FreeStepIter
<1>6. CASE RemoveStartEnd \/ DestroyEnd \/ RemoveEndFinish
  BY <1>1, <1>6, TrimIter
<1>7. CASE ConcatStartFinish \/ ConcatEndFinish
  BY <1>1, <1>7, ConcatIter
<1>8. CASE (\E l \in Lists : IterOpen(l)) \/ IterError \/ IterEnd \/ IterNext
  BY <1>8, NextIter
<1>9. CASE UNCHANGED fifoVars
  BY <1>9, SameIter DEF fifoVars, iteration
<1> QED
  BY <1>2, <1>3, <1>4, <1>5, <1>6, <1>7, <1>8, <1>9 DEF FifoNext

(* The invariant of the iterator holds throughout. *)
LEMMA IterInvariance == FifoSpec => []IterInv
<1>1. FifoInit => IterInv
  BY DEF FifoInit, IterInv
<1>2. Inv /\ IterInv /\ [FifoNext]_fifoVars => IterInv'
  BY NextKeepsIter
<1> QED
  BY <1>1, <1>2, Invariance, PTL DEF FifoSpec

(* Only nl_fifo_next() moves an iterator to an element, and only there does   *)
(* an iteration end.                                                          *)
LEMMA OnlyNextMoves ==
  ASSUME [FifoNext]_fifoVars
  PROVE  /\ iter' # iter /\ iter' # NULL => IterNext
         /\ iterState = "open" /\ iterState' = "ended" => IterEnd
<1>1. ASSUME NEW e, Free(e)
      PROVE  (iter' = iter \/ iter' = NULL) /\ (iterState' = iterState \/ iterState' = "closed")
  BY <1>1 DEF Free, IterClose
<1>2. CASE (\E l \in Lists : Get(l)) \/ RemoveHit \/ RemoveStartStep \/ DestroyStep \/ RemoveEndStep
  <2>1. \E e : Free(e)
    BY <1>2 DEF Get, RemoveHit, RemoveStartStep, DestroyStep, RemoveEndStep, FreeCur
  <2> QED
    BY <1>1, <2>1
<1>3. CASE ConcatStartFinish \/ ConcatEndFinish
  BY <1>3 DEF ConcatStartFinish, ConcatEndFinish, Emptied
<1>4. CASE \/ \E l \in Lists, d \in Data, e \in Elements : Put(l, d, e) \/ Prepend(l, d, e)
           \/ \E l \in Lists : DestroyBegin(l)
           \/ \E l \in Lists, d \in Data : RemoveBegin(l, d)
           \/ \E l \in Lists, n \in 0..MaxArgument : RemoveStartBegin(l, n) \/ RemoveEndBegin(l, n)
           \/ \E src, dest \in Lists, op \in {"concatstart", "concatend"} : ConcatBegin(op, src, dest)
           \/ RemoveStep \/ RemoveMiss \/ RemoveStartEnd \/ DestroyEnd
           \/ RemoveEndWalk \/ RemoveEndFound \/ RemoveEndFinish \/ ConcatRelabel
           \/ UNCHANGED fifoVars
  <2>1. iter' = iter /\ iterState' = iterState
    BY <1>4 DEF Put, Prepend, DestroyBegin, RemoveBegin, RemoveStartBegin, RemoveEndBegin,
       ConcatBegin, RemoveStep, RemoveMiss, RemoveStartEnd, DestroyEnd, RemoveEndWalk,
       RemoveEndFound, RemoveEndFinish, ConcatRelabel, iteration, fifoVars
  <2> QED
    BY <2>1
<1>5. CASE (\E l \in Lists : IterOpen(l)) \/ IterError \/ IterEnd \/ IterNext
  BY <1>5 DEF IterOpen, IterError, IterEnd, IterNext, IterClose
<1> QED
  BY <1>2, <1>3, <1>4, <1>5 DEF FifoNext

(* nl_fifo_next() returns no element twice in one iteration, and none that is *)
(* by then in another list: for any number of lists and elements, whatever    *)
(* calls run between two calls of it.                                         *)
THEOREM FreshIteration == FifoSpec => IterFresh
<1>1. Inv /\ IterInv /\ [FifoNext]_fifoVars =>
         [iter' # iter /\ iter' # NULL => iter' \notin seen /\ iter' \in Members(iterList)]_fifoVars
  <2> SUFFICES ASSUME Inv, IterInv, [FifoNext]_fifoVars, iter' # iter, iter' # NULL
               PROVE  iter' \notin seen /\ iter' \in Members(iterList)
    OBVIOUS
  <2>1. IterNext
    BY OnlyNextMoves
  <2>2. PICK k \in 1..Len(nodes[iterList]) :
           /\ nodes[iterList][k] = iter'
           /\ \A l \in Lists : \A i \in 1..Len(nodes[l]) :
                 nodes[l][i] = iter => l = iterList /\ i = k - 1
    BY <2>1, NextFound
  <2>3. iterList \in Lists
    BY <2>1, NextPlace DEF IterNext
  <2>4. nodes[iterList][k] \notin seen
    <3> SUFFICES ASSUME nodes[iterList][k] \in seen PROVE FALSE
      OBVIOUS
    <3>1. PICK i \in 1..Len(nodes[iterList]) : k <= i /\ nodes[iterList][i] = iter
      BY <2>3 DEF IterInv
    <3>2. i = k - 1
      BY <2>2, <2>3, <3>1
    <3> QED
      BY <3>1, <3>2
  <2> QED
    BY <2>2, <2>4 DEF Members
<1> QED
  BY <1>1, Invariance, IterInvariance, PTL DEF FifoSpec, IterFresh

(* An iteration that reaches the end has returned every element that was in   *)
(* the list when it began and still is, however the list changed meanwhile.   *)
THEOREM CompleteIteration == FifoSpec => IterComplete
<1>1. Inv /\ IterInv /\ [FifoNext]_fifoVars =>
         [iterState = "open" /\ iterState' = "ended" =>
            atStart \cap Members(iterList) \subseteq seen]_fifoVars
  <2> SUFFICES ASSUME Inv, IterInv, [FifoNext]_fifoVars, iterState = "open", iterState' = "ended",
                      NEW x \in atStart, x \in Members(iterList)
               PROVE  x \in seen
    OBVIOUS
  <2>1. IterEnd
    BY OnlyNextMoves
  <2>2. idle /\ ~ForeignIterator /\ (count[iterList] = 0 \/ NextElement = NULL)
    BY <2>1 DEF IterEnd
  <2>3. Plain /\ FifoTypeOK
    BY <2>2, QuietPlain DEF Inv, Quiet, idle
  <2>4. iterList \in Lists
    BY <2>2, NextPlace
  <2>5. PICK j \in 1..Len(nodes[iterList]) : x = nodes[iterList][j]
    BY DEF Members
  <2>6. PICK n \in Nat : n = Len(nodes[iterList])
    BY <2>3, <2>4, NodeFacts DEF FifoTypeOK
  <2>7. j \in 1..n /\ n # 0
    BY <2>5, <2>6
  <2>8. NextElement = NULL
    BY <2>2, <2>3, <2>4, <2>6, <2>7 DEF Plain
  <2>9. PICK k \in 1..(n + 1) :
           /\ NextElement = NodeAt(iterList, k)
           /\ k > 1 => nodes[iterList][k - 1] = iter
    BY <2>2, <2>6, NextPlace
  <2>10. k = n + 1
    <3> SUFFICES ASSUME k # n + 1 PROVE FALSE
      OBVIOUS
    <3>1. k \in 1..Len(nodes[iterList])
      BY <2>6
    <3>2. nodes[iterList][k] # NULL
      BY <2>3, <2>4, <3>1, NodeFacts DEF FifoTypeOK
    <3> QED
      BY <2>8, <2>9, <3>1, <3>2 DEF NodeAt
  <2>11. n \in 1..Len(nodes[iterList]) /\ nodes[iterList][n] = iter /\ j <= n
    BY <2>6, <2>7, <2>9, <2>10
  <2> QED
    BY <2>4, <2>5, <2>11 DEF IterInv
<1> QED
  BY <1>1, Invariance, IterInvariance, PTL DEF FifoSpec, IterComplete
=============================================================================
