---------------------------- MODULE LibraryProofs ----------------------------
(***************************************************************************)
(* HashIsMap, EveryBlockOwned, CompareIsOrder, ColorFollowsIntensity and   *)
(* the properties of Timespec for any values of the constants of Hash,     *)
(* Variant, Term and Timespec, which share no state: each section has the  *)
(* inductive invariant of one module.                                      *)
(***************************************************************************)
EXTENDS Hash, Variant, Term, Timespec, TLAPS

-----------------------------------------------------------------------------
(* Hash.  HashIsMap is inductive once it is said how far a clone in progress  *)
(* is: its entries are the first of the source, so that equal counts mean     *)
(* equal tables.                                                              *)

Entries == [key : Keys, value : Values]

(* The entries of a table are those of a map.                                *)
Stands(t, map) ==
  /\ DOMAIN map = {t[i].key : i \in 1..Len(t)}
  /\ \A i \in 1..Len(t) : map[t[i].key] = t[i].value

HashType ==
  /\ live \subseteq Hashes
  /\ table \in [Hashes -> Seq(Entries)]
  /\ count \in [Hashes -> Nat]
  /\ DOMAIN content = Hashes
  /\ \/ cloning = NotCloning
     \/ cloning \in [on : {TRUE}, from : live, to : live, at : Nat \ {0}]

TableInv == \A h \in live : count[h] = Len(table[h]) /\ OneEntryPerKey(table[h])

ContentInv == \A h \in live : Settled(h) => Stands(table[h], content[h])

CloneInv ==
  cloning.on =>
    /\ cloning.from # cloning.to
    /\ \E n \in 0..Len(table[cloning.from]) :
         /\ table[cloning.to] = SubSeq(table[cloning.from], 1, n)
         /\ cloning.at <= Len(table[cloning.from]) => n = cloning.at - 1

HashInv == HashType /\ TableInv /\ ContentInv /\ CloneInv

-----------------------------------------------------------------------------
(* In a table with one entry for each key, nl_hash_find() finds the entry.   *)
LEMMA Found ==
  ASSUME NEW t \in Seq(Entries), OneEntryPerKey(t), NEW i \in 1..Len(t)
  PROVE  nl_hash_find(t, t[i].key) = i
<1> DEFINE I == {j \in 1..Len(t) : t[j].key = t[i].key}
<1>1. I = {i}
  BY DEF OneEntryPerKey
<1>2. Min(I) = i
  BY <1>1 DEF Min
<1> QED
  BY <1>1, <1>2 DEF nl_hash_find, SelectInSeq

(* The search finds no entry when no key matches.                             *)
LEMMA NotFound ==
  ASSUME NEW t \in Seq(Entries), NEW key, \A i \in 1..Len(t) : t[i].key # key
  PROVE  nl_hash_find(t, key) = 0
BY DEF nl_hash_find, SelectInSeq

(* What nl_hash_set() does to a table, by the two ways it can go.            *)
LEMMA SetAppends ==
  ASSUME NEW t \in Seq(Entries), NEW key \in Keys, NEW value \in Values, OneEntryPerKey(t),
         \A i \in 1..Len(t) : t[i].key # key
  PROVE  LET u == SetIn(t, key, value) IN
         /\ u = Append(t, entry(key, value)) /\ u \in Seq(Entries) /\ Len(u) = Len(t) + 1
         /\ \A i \in 1..Len(t) : u[i] = t[i]
         /\ u[Len(t) + 1] = entry(key, value) /\ OneEntryPerKey(u)
<1> DEFINE u == Append(t, entry(key, value))
<1>1. SetIn(t, key, value) = u
  BY NotFound DEF SetIn
<1>2. entry(key, value) \in Entries /\ entry(key, value).key = key
  BY DEF entry, Entries
<1>3. /\ u \in Seq(Entries) /\ Len(u) = Len(t) + 1 /\ u[Len(t) + 1] = entry(key, value)
      /\ \A i \in 1..Len(t) : u[i] = t[i]
  BY <1>2
<1> HIDE DEF u
<1>4. OneEntryPerKey(u)
  BY <1>2, <1>3 DEF OneEntryPerKey
<1> QED
  BY <1>1, <1>3, <1>4 DEF u

(* What setting a key that is there makes of a table.                         *)
LEMMA SetReplaces ==
  ASSUME NEW t \in Seq(Entries), NEW i \in 1..Len(t), NEW value \in Values, OneEntryPerKey(t)
  PROVE  LET u == SetIn(t, t[i].key, value) IN
         /\ u \in Seq(Entries) /\ Len(u) = Len(t) /\ OneEntryPerKey(u)
         /\ \A j \in 1..Len(t) : u[j] = IF j = i THEN entry(t[i].key, value) ELSE t[j]
<1> DEFINE u == [t EXCEPT ![i] = entry(t[i].key, value)]
<1>1. SetIn(t, t[i].key, value) = u
  <2>1. nl_hash_find(t, t[i].key) = i /\ i # 0
    BY Found
  <2> QED
    BY <2>1 DEF SetIn, ReplaceAt
<1>2. t[i] \in Entries /\ entry(t[i].key, value) \in Entries
  <2>1. t[i] \in Entries
    OBVIOUS
  <2> QED
    BY <2>1 DEF entry, Entries
<1>3. /\ u \in Seq(Entries) /\ Len(u) = Len(t)
      /\ \A j \in 1..Len(t) : u[j] = IF j = i THEN entry(t[i].key, value) ELSE t[j]
  BY <1>2
<1> HIDE DEF u
<1>4. \A j \in 1..Len(t) : u[j].key = t[j].key
  BY <1>3 DEF entry
<1>5. OneEntryPerKey(u)
  BY <1>3, <1>4 DEF OneEntryPerKey
<1> QED
  BY <1>1, <1>3, <1>5

(* What is left of a table without one entry.                                *)
LEMMA Removes ==
  ASSUME NEW t \in Seq(Entries), NEW i \in 1..Len(t), OneEntryPerKey(t)
  PROVE  LET u == RemoveAt(t, i) IN
         /\ u \in Seq(Entries) /\ Len(u) = Len(t) - 1 /\ OneEntryPerKey(u)
         /\ \A j \in 1..(Len(t) - 1) : u[j] = IF j < i THEN t[j] ELSE t[j + 1]
<1> DEFINE front == SubSeq(t, 1, i - 1)
           back == SubSeq(t, i + 1, Len(t))
           u == front \o back
<1>1. front \in Seq(Entries) /\ Len(front) = i - 1 /\ \A j \in 1..(i - 1) : front[j] = t[j]
  OBVIOUS
<1>2. /\ back \in Seq(Entries) /\ Len(back) = Len(t) - i
      /\ \A j \in 1..(Len(t) - i) : back[j] = t[i + j]
  OBVIOUS
<1> HIDE DEF front, back
<1>3. u \in Seq(Entries) /\ Len(u) = Len(t) - 1
  BY <1>1, <1>2
<1>4. ASSUME NEW j \in 1..(Len(t) - 1)
      PROVE  u[j] = IF j < i THEN t[j] ELSE t[j + 1]
  <2>1. CASE j < i
    BY <1>1, <1>2, <2>1
  <2>2. CASE ~(j < i)
    <3>1. j - (i - 1) \in 1..(Len(t) - i) /\ j \in (i..(Len(t) - 1))
      BY <2>2
    <3>4. u[j] = back[j - (i - 1)]
      BY <1>1, <1>2, <3>1, SMTT(60)
    <3>2. back[j - (i - 1)] = t[i + (j - (i - 1))] /\ i + (j - (i - 1)) = j + 1
      BY <1>2, <3>1
    <3> QED
      BY <2>2, <3>4, <3>2
  <2> QED
    BY <2>1, <2>2
<1> HIDE DEF u
<1>5. OneEntryPerKey(u)
  <2>1. SUFFICES ASSUME NEW j \in 1..Len(u), NEW k \in 1..Len(u), u[j].key = u[k].key
                 PROVE  j = k
    BY DEF OneEntryPerKey
  <2> DEFINE old(n) == IF n < i THEN n ELSE n + 1
  <2>2. Len(t) \in Nat /\ j \in 1..(Len(t) - 1) /\ k \in 1..(Len(t) - 1)
    BY <1>3, <2>1
  <2>3. u[j] = t[old(j)] /\ u[k] = t[old(k)]
    BY <1>4, <2>2
  <2>4. old(j) \in 1..Len(t) /\ old(k) \in 1..Len(t)
    BY <2>2
  <2>5. old(j) = old(k)
    BY <2>1, <2>3, <2>4 DEF OneEntryPerKey
  <2> QED
    BY <2>2, <2>5
<1>6. u = RemoveAt(t, i)
  BY DEF RemoveAt, u, front, back
<1> QED
  BY <1>3, <1>4, <1>5, <1>6
(* The three lemmas in terms of the map that a table stands for.             *)
LEMMA SetStands ==
  ASSUME NEW t \in Seq(Entries), NEW key \in Keys, NEW value \in Values, OneEntryPerKey(t)
  PROVE  LET u == SetIn(t, key, value) IN
         /\ u \in Seq(Entries) /\ OneEntryPerKey(u)
         /\ Len(u) = IF nl_hash_find(t, key) = 0 THEN Len(t) + 1 ELSE Len(t)
         /\ \A map : Stands(t, map) => Stands(u, WithKey(map, key, value))
<1> DEFINE u == SetIn(t, key, value)
<1>1. CASE \A i \in 1..Len(t) : t[i].key # key
  <2>1. /\ u \in Seq(Entries) /\ Len(u) = Len(t) + 1 /\ OneEntryPerKey(u)
        /\ \A i \in 1..Len(t) : u[i] = t[i]
        /\ u[Len(t) + 1].key = key /\ u[Len(t) + 1].value = value
    <3>1. /\ u \in Seq(Entries) /\ Len(u) = Len(t) + 1 /\ OneEntryPerKey(u)
          /\ \A i \in 1..Len(t) : u[i] = t[i]
          /\ u[Len(t) + 1] = entry(key, value)
      BY <1>1, SetAppends
    <3> HIDE DEF u
    <3> QED
      BY <3>1 DEF entry
  <2>2. nl_hash_find(t, key) = 0
    BY <1>1, NotFound
  <2> HIDE DEF u
  <2>3. ASSUME NEW map, Stands(t, map)
        PROVE  Stands(u, WithKey(map, key, value))
    <3> DEFINE with == WithKey(map, key, value)
    <3>1. DOMAIN with = DOMAIN map \cup {key}
      BY DEF WithKey
    <3>2. with[key] = value /\ \A k \in DOMAIN map : k # key => with[k] = map[k]
      BY DEF WithKey
    <3> HIDE DEF with
    <3>3. DOMAIN with = {u[i].key : i \in 1..Len(u)}
      <4>1. \A i \in 1..Len(u) : u[i].key \in DOMAIN with
        BY <2>1, <2>3, <3>1 DEF Stands
      <4>2. \A k \in DOMAIN with : \E i \in 1..Len(u) : u[i].key = k
        <5>1. Len(t) + 1 \in 1..Len(u)
          BY <2>1
        <5>2. \A i \in 1..Len(t) : i \in 1..Len(u)
          BY <2>1
        <5> QED
          BY <2>1, <2>3, <3>1, <5>1, <5>2 DEF Stands
      <4> QED
        BY <4>1, <4>2
    <3>4. \A i \in 1..Len(u) : with[u[i].key] = u[i].value
      <4>1. \A i \in 1..Len(u) : i \in 1..Len(t) \/ i = Len(t) + 1
        BY <2>1
      <4> QED
        BY <1>1, <2>1, <2>3, <3>2, <4>1 DEF Stands
    <3> QED
      BY <3>3, <3>4 DEF Stands, with
  <2> QED
    BY <2>1, <2>2, <2>3 DEF u
<1>2. ASSUME NEW i \in 1..Len(t), t[i].key = key
      PROVE  /\ u \in Seq(Entries) /\ OneEntryPerKey(u) /\ Len(u) = Len(t)
             /\ nl_hash_find(t, key) # 0
             /\ \A map : Stands(t, map) => Stands(u, WithKey(map, key, value))
  <2>1. /\ u \in Seq(Entries) /\ Len(u) = Len(t) /\ OneEntryPerKey(u)
        /\ \A j \in 1..Len(t) : u[j] = IF j = i THEN entry(key, value) ELSE t[j]
    BY <1>2, SetReplaces
  <2>2. nl_hash_find(t, key) # 0
    BY <1>2, Found
  <2> HIDE DEF u
  <2>3. /\ \A j \in 1..Len(t) : u[j].key = t[j].key
        /\ \A j \in 1..Len(t) : u[j].value = IF j = i THEN value ELSE t[j].value
    BY <1>2, <2>1 DEF entry
  <2>4. ASSUME NEW map, Stands(t, map)
        PROVE  Stands(u, WithKey(map, key, value))
    <3>1. key \in DOMAIN map
      BY <1>2, <2>4 DEF Stands
    <3>2. \A j \in 1..Len(t) : j # i => t[j].key # key
      BY <1>2 DEF OneEntryPerKey
    <3>3. DOMAIN WithKey(map, key, value) = {u[j].key : j \in 1..Len(u)}
      BY <2>1, <2>3, <2>4, <3>1 DEF Stands, WithKey
    <3>4. \A j \in 1..Len(t) : t[j].key \in DOMAIN map /\ map[t[j].key] = t[j].value
      BY <2>4 DEF Stands
    <3>5. \A j \in 1..Len(t) : WithKey(map, key, value)[u[j].key] = u[j].value
      BY <1>2, <2>3, <3>2, <3>4 DEF WithKey
    <3> QED
      BY <2>1, <3>3, <3>5 DEF Stands
  <2> QED
    BY <2>1, <2>2, <2>4
<1> QED
  BY <1>1, <1>2

(* Removing an entry from a table removes its key from the map.               *)
LEMMA RemoveStands ==
  ASSUME NEW t \in Seq(Entries), NEW i \in 1..Len(t), OneEntryPerKey(t), NEW map, Stands(t, map)
  PROVE  Stands(RemoveAt(t, i), WithoutKey(map, t[i].key))
<1> DEFINE u == RemoveAt(t, i)
<1>1. /\ u \in Seq(Entries) /\ Len(u) = Len(t) - 1
      /\ \A j \in 1..(Len(t) - 1) : u[j] = IF j < i THEN t[j] ELSE t[j + 1]
  BY Removes
<1> HIDE DEF u
<1> DEFINE old(j) == IF j < i THEN j ELSE j + 1
<1>2. \A j \in 1..Len(u) : old(j) \in 1..Len(t) /\ old(j) # i /\ u[j] = t[old(j)]
  BY <1>1
<1>3. \A j \in 1..Len(t) : j # i => \E n \in 1..Len(u) : old(n) = j
  <2>1. \A j \in 1..Len(t) : j # i => LET n == IF j < i THEN j ELSE j - 1
                                     IN n \in 1..Len(u) /\ old(n) = j
    BY <1>1
  <2> QED
    BY <2>1
<1> HIDE DEF old
<1>4. \A j \in 1..Len(t) : j # i <=> t[j].key # t[i].key
  BY DEF OneEntryPerKey
<1>5. DOMAIN WithoutKey(map, t[i].key) = DOMAIN map \ {t[i].key}
  BY DEF WithoutKey
<1>6. DOMAIN map \ {t[i].key} = {u[j].key : j \in 1..Len(u)}
  <2>1. \A j \in 1..Len(u) : u[j].key \in DOMAIN map \ {t[i].key}
    BY <1>2, <1>4 DEF Stands
  <2>2. ASSUME NEW k \in DOMAIN map \ {t[i].key}
        PROVE  \E j \in 1..Len(u) : u[j].key = k
    <3>1. PICK n \in 1..Len(t) : t[n].key = k
      BY DEF Stands
    <3>2. PICK j \in 1..Len(u) : old(j) = n
      BY <1>3, <3>1
    <3> QED
      BY <1>2, <3>1, <3>2
  <2> QED
    BY <2>1, <2>2
<1>7. \A j \in 1..Len(u) : WithoutKey(map, t[i].key)[u[j].key] = u[j].value
  <2>1. \A j \in 1..Len(u) : u[j].key \in DOMAIN map \ {t[i].key}
    BY <1>6
  <2>2. \A j \in 1..Len(u) : map[u[j].key] = u[j].value
    BY <1>2 DEF Stands
  <2> QED
    BY <2>1, <2>2 DEF WithoutKey
<1> QED
  BY <1>5, <1>6, <1>7 DEF Stands, u

(* Removing a key that is not there leaves the map as it was.                 *)
LEMMA KeepsAll ==
  ASSUME NEW t \in Seq(Entries), NEW key, nl_hash_find(t, key) = 0, OneEntryPerKey(t),
         NEW map, Stands(t, map)
  PROVE  Stands(t, WithoutKey(map, key))
<1>1. \A i \in 1..Len(t) : t[i].key # key
  BY Found
<1>2. DOMAIN WithoutKey(map, key) = DOMAIN map
  BY <1>1 DEF Stands, WithoutKey
<1>3. \A i \in 1..Len(t) : t[i].key \in DOMAIN map
  BY DEF Stands
<1> QED
  BY <1>2, <1>3 DEF Stands, WithoutKey

(* An empty table stands for the empty map.                                   *)
LEMMA EmptyStands ==
  /\ <<>> \in Seq(Entries) /\ Len(<<>>) = 0 /\ OneEntryPerKey(<<>>)
  /\ Stands(<<>>, EmptyMap)
BY DEF OneEntryPerKey, Stands, EmptyMap

-----------------------------------------------------------------------------
(* There is no hash at first.                                                 *)
LEMMA HashStart == HashInit => HashInv
BY EmptyStands DEF HashInit, HashInv, HashType, TableInv, ContentInv, CloneInv, NotCloning

(* A call on one hash, outside of a clone, that leaves its table in order.    *)
LEMMA OneChanged ==
  ASSUME HashInv, ~cloning.on, UNCHANGED cloning, NEW h \in Hashes, NEW t \in Seq(Entries),
         NEW n, NEW map,
         table' = [table EXCEPT ![h] = t], count' = [count EXCEPT ![h] = n],
         content' = [content EXCEPT ![h] = map], n = Len(t),
         live' \subseteq live \cup {h},
         h \in live' => OneEntryPerKey(t) /\ Stands(t, map)
  PROVE  HashInv'
<1>1. /\ table'[h] = t /\ count'[h] = Len(t) /\ content'[h] = map
      /\ \A g \in Hashes \ {h} : table'[g] = table[g] /\ count'[g] = count[g]
                                    /\ content'[g] = content[g]
  BY DEF HashInv, HashType
<1>2. cloning = NotCloning
  BY DEF HashInv, HashType
<1>3. HashType'
  <2>1. Len(t) \in Nat
    OBVIOUS
  <2> QED
    BY <1>2, <2>1 DEF HashInv, HashType
<1>4. TableInv'
  BY <1>1 DEF HashInv, HashType, TableInv
<1>5. ContentInv'
  BY <1>1, <1>2 DEF HashInv, HashType, ContentInv, Settled, NotCloning
<1>6. CloneInv'
  BY <1>2 DEF CloneInv, NotCloning
<1> QED
  BY <1>3, <1>4, <1>5, <1>6 DEF HashInv

(* A hash created, cleared or destroyed keeps the invariant.                  *)
LEMMA CallKeeps ==
  ASSUME HashInv, NEW h \in Hashes, Create(h) \/ Clear(h) \/ Destroy(h)
  PROVE  HashInv'
<1>1. /\ ~cloning.on /\ UNCHANGED cloning /\ live' \subseteq live \cup {h}
      /\ table' = [table EXCEPT ![h] = <<>>] /\ count' = [count EXCEPT ![h] = 0]
      /\ content' = [content EXCEPT ![h] = EmptyMap]
  BY DEF Create, Clear, Destroy, Calling, Emptied
<1>2. 0 = Len(<<>>)
  BY EmptyStands
<1> QED
  BY <1>1, <1>2, EmptyStands, OneChanged

(* Set keeps the invariant.                                                   *)
LEMMA SetKeeps ==
  ASSUME HashInv, NEW h \in Hashes, NEW k \in Keys, NEW v \in Values, SetEntry(h, k, v)
  PROVE  HashInv'
<1>1. h \in live /\ ~cloning.on /\ UNCHANGED <<live, cloning>>
  BY DEF SetEntry, Calling
<1>2. /\ table[h] \in Seq(Entries) /\ OneEntryPerKey(table[h]) /\ count[h] = Len(table[h])
      /\ Stands(table[h], content[h])
  BY <1>1 DEF HashInv, HashType, TableInv, ContentInv, Settled
<1> DEFINE t == SetIn(table[h], k, v)
<1>3. /\ t \in Seq(Entries) /\ OneEntryPerKey(t) /\ Stands(t, WithKey(content[h], k, v))
      /\ Len(t) = IF nl_hash_find(table[h], k) = 0 THEN Len(table[h]) + 1 ELSE Len(table[h])
  BY <1>2, SetStands
<1>4. /\ table' = [table EXCEPT ![h] = t] /\ count' = [count EXCEPT ![h] = Len(t)]
      /\ content' = [content EXCEPT ![h] = WithKey(content[h], k, v)]
  BY <1>2, <1>3 DEF SetEntry, PutEntry, HashInv, HashType
<1> HIDE DEF t
<1> QED
  BY <1>1, <1>3, <1>4, OneChanged

(* Remove keeps the invariant.                                                *)
LEMMA RemoveKeeps ==
  ASSUME HashInv, NEW h \in Hashes, NEW k \in Keys, RemoveEntry(h, k)
  PROVE  HashInv'
<1>1. h \in live /\ ~cloning.on /\ UNCHANGED <<live, cloning>>
  BY DEF RemoveEntry, Calling
<1>2. /\ table[h] \in Seq(Entries) /\ OneEntryPerKey(table[h]) /\ count[h] = Len(table[h])
      /\ Stands(table[h], content[h])
  BY <1>1 DEF HashInv, HashType, TableInv, ContentInv, Settled
<1> DEFINE map == WithoutKey(content[h], k)
<1>3. content' = [content EXCEPT ![h] = map]
  BY DEF RemoveEntry, HashInv, HashType
<1>4. CASE nl_hash_find(table[h], k) = 0
  <2>1. table' = [table EXCEPT ![h] = table[h]] /\ count' = [count EXCEPT ![h] = Len(table[h])]
    BY <1>2, <1>4 DEF RemoveEntry, HashInv, HashType
  <2>2. Stands(table[h], map)
    BY <1>2, <1>4, KeepsAll
  <2> HIDE DEF map
  <2> QED
    BY <1>1, <1>2, <1>3, <2>1, <2>2, OneChanged
<1>5. CASE nl_hash_find(table[h], k) # 0
  <2>1. PICK i \in 1..Len(table[h]) : table[h][i].key = k
    BY <1>2, <1>5, NotFound
  <2>2. nl_hash_find(table[h], k) = i
    BY <1>2, <2>1, Found
  <2> DEFINE t == RemoveAt(table[h], i)
  <2>3. /\ t \in Seq(Entries) /\ OneEntryPerKey(t) /\ Len(t) = Len(table[h]) - 1
        /\ Stands(t, map)
    BY <1>2, <2>1, Removes, RemoveStands
  <2>4. table' = [table EXCEPT ![h] = t] /\ count' = [count EXCEPT ![h] = Len(t)]
    BY <1>2, <1>5, <2>2, <2>3 DEF RemoveEntry, HashInv, HashType
  <2> HIDE DEF t, map
  <2> QED
    BY <1>1, <1>3, <2>3, <2>4, OneChanged
<1> QED
  BY <1>4, <1>5

(* A clone: the copy starts empty, grows by one entry of the source, or is    *)
(* judged.                                                                    *)
LEMMA CloneBeginKeeps ==
  ASSUME HashInv, NEW from \in Hashes, NEW to \in Hashes, CloneBegin(from, to)
  PROVE  HashInv'
<1>1. /\ from \in live /\ to \notin live /\ live' = live \cup {to} /\ UNCHANGED content
      /\ cloning' = [on |-> TRUE, from |-> from, to |-> to, at |-> 1]
      /\ ~cloning.on
  BY DEF CloneBegin, Calling
<1>2. /\ table'[to] = <<>> /\ count'[to] = 0 /\ table' \in [Hashes -> Seq(Entries)]
      /\ count' \in [Hashes -> Nat]
      /\ \A g \in Hashes \ {to} : table'[g] = table[g] /\ count'[g] = count[g]
  BY EmptyStands DEF CloneBegin, HashInv, HashType
<1>3. HashType'
  BY <1>1, <1>2 DEF HashInv, HashType
<1>4. TableInv'
  BY <1>1, <1>2, EmptyStands DEF HashInv, HashType, TableInv
<1>5. ContentInv'
  BY <1>1, <1>2 DEF HashInv, HashType, ContentInv, Settled
<1>6. SubSeq(table[from], 1, 0) = <<>>
  BY DEF HashInv, HashType
<1>7. CloneInv'
  <2>1. Len(table[from]) \in Nat
    BY DEF HashInv, HashType
  <2>2. 0 \in 0..Len(table[from]) /\ 0 = 1 - 1
    BY <2>1
  <2> QED
    BY <1>1, <1>2, <1>6, <2>2 DEF CloneInv
<1> QED
  BY <1>3, <1>4, <1>5, <1>7 DEF HashInv

(* What is known while a clone is in progress.                                *)
LEMMA CloneFacts ==
  ASSUME HashInv, cloning.on, NEW from, NEW to, from = cloning.from, to = cloning.to
  PROVE  /\ from \in live /\ to \in live /\ from # to /\ live \subseteq Hashes
         /\ cloning \in [on : {TRUE}, from : live, to : live, at : Nat \ {0}]
         /\ table \in [Hashes -> Seq(Entries)] /\ count \in [Hashes -> Nat]
         /\ \A h \in live : count[h] = Len(table[h]) /\ OneEntryPerKey(table[h])
         /\ Stands(table[from], content[from])
         /\ \A h \in live \ {to} : Stands(table[h], content[h])
         /\ \E n \in 0..Len(table[from]) :
              /\ table[to] = SubSeq(table[from], 1, n)
              /\ cloning.at <= Len(table[from]) => n = cloning.at - 1
<1>1. cloning \in [on : {TRUE}, from : live, to : live, at : Nat \ {0}]
  <2>1. cloning # NotCloning
    BY DEF NotCloning
  <2> QED
    BY <2>1 DEF HashInv, HashType
<1>2. from # to
  BY DEF HashInv, CloneInv
<1>3. \A h \in live \ {to} : Stands(table[h], content[h])
  BY DEF HashInv, ContentInv, Settled
<1> QED
  BY <1>1, <1>2, <1>3 DEF HashInv, HashType, TableInv, CloneInv

(* What the first n entries of a table are.                                  *)
LEMMA FirstEntries ==
  ASSUME NEW t \in Seq(Entries), NEW n \in 0..Len(t)
  PROVE  Len(SubSeq(t, 1, n)) = n /\ \A i \in 1..n : SubSeq(t, 1, n)[i] = t[i]
  OBVIOUS

(* CloneEntry keeps the invariant.                                            *)
LEMMA CloneEntryKeeps ==
  ASSUME HashInv, CloneEntry
  PROVE  HashInv'
<1> DEFINE from == cloning.from
           to == cloning.to
           at == cloning.at
           tf == table[from]
           tt == table[to]
           e == tf[at]
<1>1. cloning.on /\ at \in 1..Len(tf) /\ UNCHANGED <<live, content>>
  BY DEF CloneEntry
<1>2. /\ from \in live /\ to \in live /\ from # to /\ live \subseteq Hashes
      /\ cloning \in [on : {TRUE}, from : live, to : live, at : Nat \ {0}]
      /\ table \in [Hashes -> Seq(Entries)] /\ count \in [Hashes -> Nat]
      /\ \A h \in live : count[h] = Len(table[h]) /\ OneEntryPerKey(table[h])
      /\ \A h \in live \ {to} : Stands(table[h], content[h])
  BY <1>1, CloneFacts
<1>3. tt = SubSeq(tf, 1, at - 1)
  <2>1. PICK n \in 0..Len(tf) : tt = SubSeq(tf, 1, n) /\ (at <= Len(tf) => n = at - 1)
    BY <1>1, CloneFacts
  <2>2. Len(tf) \in Nat /\ at <= Len(tf)
    BY <1>1, <1>2
  <2> QED
    BY <2>1, <2>2
<1>4. tf \in Seq(Entries) /\ tt \in Seq(Entries) /\ e \in Entries
  BY <1>1, <1>2
<1>5. Len(tt) = at - 1 /\ \A i \in 1..(at - 1) : tt[i] = tf[i]
  <2>1. at - 1 \in 0..Len(tf)
    BY <1>1, <1>4
  <2> QED
    BY <1>3, <1>4, <2>1, FirstEntries
<1>6. \A i \in 1..Len(tt) : tt[i].key # e.key
  <2>1. OneEntryPerKey(tf) /\ at \in 1..Len(tf)
    BY <1>1, <1>2
  <2>2. ASSUME NEW i \in 1..Len(tt) PROVE tf[i].key # e.key /\ tt[i] = tf[i]
    <3>1. i \in 1..Len(tf) /\ i # at /\ i \in 1..(at - 1)
      BY <1>4, <1>5, <2>1
    <3> QED
      BY <1>5, <2>1, <3>1 DEF OneEntryPerKey
  <2> QED
    BY <2>2
<1>7. entry(e.key, e.value) = e /\ e.key \in Keys /\ e.value \in Values
  BY <1>4 DEF Entries, entry
<1> DEFINE u == SetIn(tt, e.key, e.value)
<1>8. /\ u \in Seq(Entries) /\ Len(u) = Len(tt) + 1 /\ OneEntryPerKey(u)
      /\ \A i \in 1..Len(tt) : u[i] = tt[i]
      /\ u[Len(tt) + 1] = e
  <2>1. OneEntryPerKey(tt)
    BY <1>2
  <2> HIDE DEF tt, tf, at, e
  <2>2. /\ u \in Seq(Entries) /\ Len(u) = Len(tt) + 1 /\ OneEntryPerKey(u)
        /\ \A i \in 1..Len(tt) : u[i] = tt[i]
        /\ u[Len(tt) + 1] = entry(e.key, e.value)
    BY <1>4, <1>6, <1>7, <2>1, SetAppends
  <2> QED
    BY <1>7, <2>2
<1>9. nl_hash_find(tt, e.key) = 0
  BY <1>4, <1>6, NotFound
<1>10. /\ table' = [table EXCEPT ![to] = u]
       /\ count' = [count EXCEPT ![to] = count[to] + 1]
       /\ cloning' = [cloning EXCEPT !.at = at + 1]
  BY <1>2, <1>9 DEF CloneEntry, PutEntry
<1> HIDE DEF u
<1>11. u = SubSeq(tf, 1, at)
  <2>1. SubSeq(tf, 1, at) \in Seq(Entries) /\ Len(SubSeq(tf, 1, at)) = at
        /\ \A i \in 1..at : SubSeq(tf, 1, at)[i] = tf[i]
    BY <1>1, <1>4
  <2>2. Len(u) = at /\ \A i \in 1..at : u[i] = tf[i]
    <3>1. at \in Nat /\ Len(tt) + 1 = at
      BY <1>1, <1>2, <1>5
    <3>2. \A i \in 1..(at - 1) : u[i] = tf[i]
      BY <1>5, <1>8, <3>1
    <3>3. u[at] = tf[at] /\ Len(u) = at
      BY <1>8, <3>1
    <3> HIDE DEF tf, tt, at, e
    <3> QED
      BY <3>1, <3>2, <3>3
  <2> HIDE DEF tf, at
  <2> QED
    BY <1>8, <2>1, <2>2
<1>12. /\ table'[to] = u /\ count'[to] = Len(u)
       /\ \A h \in Hashes \ {to} : table'[h] = table[h] /\ count'[h] = count[h]
       /\ table' \in [Hashes -> Seq(Entries)] /\ count' \in [Hashes -> Nat]
  BY <1>2, <1>8, <1>10
<1>13. /\ cloning' \in [on : {TRUE}, from : live, to : live, at : Nat \ {0}]
       /\ cloning'.on /\ cloning'.from = from /\ cloning'.to = to /\ cloning'.at = at + 1
  <2>1. at + 1 \in Nat \ {0}
    BY <1>1, <1>2
  <2> QED
    BY <1>2, <1>10, <2>1
<1>14. HashType'
  BY <1>1, <1>2, <1>12, <1>13 DEF HashInv, HashType
<1>15. TableInv'
  BY <1>1, <1>2, <1>8, <1>12 DEF TableInv
<1>16. ContentInv'
  BY <1>1, <1>2, <1>12, <1>13 DEF ContentInv, Settled
<1>17. CloneInv'
  <2>1. table'[from] = tf
    BY <1>2, <1>12
  <2>2. at \in 0..Len(tf) /\ at = (at + 1) - 1
    BY <1>1
  <2> QED
    BY <1>2, <1>11, <1>12, <1>13, <2>1, <2>2 DEF CloneInv
<1> QED
  BY <1>14, <1>15, <1>16, <1>17 DEF HashInv

(* CloneEntryFails keeps the invariant.                                       *)
LEMMA CloneEntryFailsKeeps ==
  ASSUME HashInv, CloneEntryFails
  PROVE  HashInv'
<1> DEFINE from == cloning.from
           to == cloning.to
<1>1. /\ cloning.on /\ UNCHANGED <<live, table, count, content>>
      /\ cloning' = [cloning EXCEPT !.at = Len(table[from]) + 1]
  BY DEF CloneEntryFails
<1>2. /\ from \in live /\ live \subseteq Hashes /\ table \in [Hashes -> Seq(Entries)]
      /\ cloning \in [on : {TRUE}, from : live, to : live, at : Nat \ {0}]
  BY <1>1, CloneFacts
<1>3. /\ cloning' \in [on : {TRUE}, from : live, to : live, at : Nat \ {0}]
      /\ cloning'.on /\ cloning'.from = from /\ cloning'.to = to
      /\ cloning'.at = Len(table[from]) + 1
  <2>1. Len(table[from]) \in Nat
    BY <1>2
  <2>2. Len(table[from]) + 1 \in Nat \ {0}
    BY <2>1
  <2> QED
    BY <1>1, <1>2, <2>2
<1>4. HashType' /\ TableInv'
  BY <1>1, <1>3 DEF HashInv, HashType, TableInv
<1>5. ContentInv'
  BY <1>1, <1>3 DEF HashInv, ContentInv, Settled
<1>6. CloneInv'
  <2>1. Len(table[from]) \in Nat
    BY <1>2
  <2>2. ~(cloning'.at <= Len(table'[from]))
    BY <1>1, <1>3, <2>1
  <2> QED
    BY <1>1, <1>3, <2>2 DEF HashInv, CloneInv
<1> QED
  BY <1>4, <1>5, <1>6 DEF HashInv

(* CloneEnd keeps the invariant.                                              *)
LEMMA CloneEndKeeps ==
  ASSUME HashInv, CloneEnd
  PROVE  HashInv'
<1> DEFINE from == cloning.from
           to == cloning.to
<1>1. cloning.on /\ cloning' = NotCloning /\ ~cloning'.on
  BY DEF CloneEnd, NotCloning
<1>2. /\ from \in live /\ to \in live /\ from # to /\ live \subseteq Hashes
      /\ table \in [Hashes -> Seq(Entries)] /\ count \in [Hashes -> Nat]
      /\ \A h \in live : count[h] = Len(table[h]) /\ OneEntryPerKey(table[h])
      /\ Stands(table[from], content[from])
      /\ \A h \in live \ {to} : Stands(table[h], content[h])
  BY <1>1, CloneFacts
<1>3. CASE count[from] = count[to]
  <2>1. /\ content' = [content EXCEPT ![to] = content[from]]
        /\ UNCHANGED <<live, table, count>>
    BY <1>3 DEF CloneEnd
  <2>2. table[to] = table[from]
    <3>1. PICK n \in 0..Len(table[from]) : table[to] = SubSeq(table[from], 1, n)
      BY <1>1, CloneFacts
    <3>2. table[from] \in Seq(Entries) /\ Len(table[to]) = n
      BY <1>2, <3>1
    <3>3. n = Len(table[from])
      BY <1>2, <1>3, <3>2
    <3> QED
      BY <3>1, <3>2, <3>3
  <2>3. HashType' /\ TableInv' /\ CloneInv'
    BY <1>1, <2>1 DEF HashInv, HashType, TableInv, CloneInv
  <2>4. DOMAIN content = Hashes
    BY DEF HashInv, HashType
  <2>5. content'[to] = content[from] /\ \A h \in live \ {to} : content'[h] = content[h]
    BY <1>2, <2>1, <2>4
  <2>6. ContentInv'
    BY <1>2, <2>1, <2>2, <2>5 DEF ContentInv
  <2> QED
    BY <2>3, <2>6 DEF HashInv
<1>4. CASE count[from] # count[to]
  <2>1. /\ live' = live \ {to} /\ UNCHANGED content
        /\ table' = [table EXCEPT ![to] = <<>>] /\ count' = [count EXCEPT ![to] = 0]
    BY <1>4 DEF CloneEnd, Emptied
  <2>2. HashType'
    BY <1>1, <1>2, <2>1, EmptyStands DEF HashInv, HashType
  <2>3. \A h \in live' : table'[h] = table[h] /\ count'[h] = count[h]
    BY <1>2, <2>1
  <2>4. TableInv' /\ ContentInv'
    BY <1>2, <2>1, <2>3 DEF TableInv, ContentInv
  <2>5. CloneInv'
    BY <1>1 DEF CloneInv
  <2> QED
    BY <2>2, <2>4, <2>5 DEF HashInv
<1> QED
  BY <1>3, <1>4

(* Every call, and every step of a clone, keeps the invariant.                *)
LEMMA HashStep ==
  ASSUME HashInv, [HashNext]_hashVars
  PROVE  HashInv'
<1>1. CASE UNCHANGED hashVars
  BY <1>1 DEF hashVars, HashInv, HashType, TableInv, ContentInv, CloneInv, Settled
<1> QED
  BY <1>1, CallKeeps, SetKeeps, RemoveKeeps, CloneBeginKeeps, CloneEntryKeeps,
     CloneEntryFailsKeeps, CloneEndKeeps
  DEF HashNext

(* For any hashes, keys and values: the list of entries and the counter stay  *)
(* the records of one map, and a clone is complete or does not exist          *)
(* (hash.c:152, hash.c:214).                                                  *)
THEOREM HashCorrectness == HashSpec => []HashIsMap
<1>1. ASSUME HashInv, NEW h \in live
      PROVE  /\ count[h] = Len(table[h]) /\ OneEntryPerKey(table[h])
             /\ Settled(h) => /\ {e.key : e \in ToSet(table[h])} = DOMAIN content[h]
                              /\ \A k \in DOMAIN content[h] :
                                   nl_hash_get(table[h], k) = content[h][k]
  <2>1. /\ count[h] = Len(table[h]) /\ OneEntryPerKey(table[h]) /\ table[h] \in Seq(Entries)
    BY <1>1 DEF HashInv, HashType, TableInv
  <2>2. ASSUME Settled(h)
        PROVE  /\ {e.key : e \in ToSet(table[h])} = DOMAIN content[h]
               /\ \A k \in DOMAIN content[h] : nl_hash_get(table[h], k) = content[h][k]
    <3>1. Stands(table[h], content[h])
      BY <1>1, <2>2 DEF HashInv, ContentInv
    <3>2. {e.key : e \in ToSet(table[h])} = DOMAIN content[h]
      BY <2>1, <3>1 DEF Stands, ToSet
    <3>3. ASSUME NEW k \in DOMAIN content[h]
          PROVE  nl_hash_get(table[h], k) = content[h][k]
      <4>1. PICK i \in 1..Len(table[h]) : table[h][i].key = k
        BY <3>1 DEF Stands
      <4>2. nl_hash_find(table[h], k) = i
        BY <2>1, <4>1, Found
      <4>3. content[h][k] = table[h][i].value
        BY <3>1, <4>1 DEF Stands
      <4> QED
        BY <4>2, <4>3 DEF nl_hash_get
    <3> QED
      BY <3>2, <3>3
  <2> QED
    BY <2>1, <2>2
<1>2. HashInv => HashIsMap
  BY <1>1 DEF HashIsMap
<1> QED
  BY <1>2, HashStart, HashStep, PTL DEF HashSpec

-----------------------------------------------------------------------------
(* Variant.  EveryBlockOwned and CompareIsOrder are inductive once it is said *)
(* where the pointer of each variant leads, and where a copy in progress      *)
(* stands.                                                                    *)

Types == {"unset", "INVALID", "INTEGER", "STRING", "DATA"}
Variants == [type : Types, value : Int \cup Blocks]

(* Destroyed(v) with the memory h.                                            *)
Held(h, v) ==
  IF v.value = NULL \/ v.type \notin {"STRING", "DATA"} THEN {}
  ELSE IF v.type = "STRING" THEN {v.value}
  ELSE {v.value} \cup (IF h[v.value].data = NULL THEN {} ELSE {h[v.value].data})

(* The pointer of a string leads to a string, and that of data to a structure *)
(* whose size is that of its contents; without contents the size is zero.     *)
DataAt(h, p) ==
  /\ p \in DOMAIN h
  /\ \/ h[p] = raw_data(0, NULL)
     \/ \E size \in Sizes \ {0}, data \in DOMAIN h :
          h[p] = raw_data(size, data) /\ h[data] = BytesBlock(size)

StringAt(h, p) == p \in DOMAIN h /\ \E text \in Strings : h[p] = StringBlock(text)

Points(h, v) ==
  /\ v.type = "INTEGER" => v.value \in Int
  /\ v.type = "STRING" /\ v.value # NULL => StringAt(h, v.value)
  /\ v.type = "DATA" /\ v.value # NULL => DataAt(h, v.value)

(* Every block is held by one variant or is one of the others.                *)
EachOwned(variants, h, others) ==
  /\ variants \in [Slots -> Variants]
  /\ DOMAIN h \subseteq Blocks
  /\ \A s \in Slots : Points(h, variants[s])
  /\ \A s \in Slots : Held(h, variants[s]) \cap others = {}
  /\ \A s, t \in Slots : s # t => Held(h, variants[s]) \cap Held(h, variants[t]) = {}
  /\ DOMAIN h = (UNION {Held(h, variants[s]) : s \in Slots}) \cup others

(* nl_duplicate_data() in progress has an empty structure that nobody holds   *)
(* and somebody else's to copy from.                                          *)
Copying ==
  /\ dup \in [on : {TRUE}, source : Blocks, copy : Blocks, to : Slots]
  /\ slot[dup.to] = Unset
  /\ heap[dup.copy] = raw_data(0, NULL)
  /\ dup.source # dup.copy /\ DataAt(heap, dup.source)

VariantInv ==
  \/ dup = NoDup /\ EachOwned(slot, heap, {})
  \/ Copying /\ EachOwned(slot, heap, {dup.copy})

-----------------------------------------------------------------------------
(* Memory.                                                                    *)

(* What destroying a variant frees is what it holds.                         *)
LEMMA HeldByCaller == \A v : Destroyed(v) = Held(heap, v)
BY DEF Destroyed, DataBlocks, Held

(* NULL is not the address of any block (BlocksAssumption).                  *)
LEMMA NullNotBlock == NULL \notin Blocks
BY BlocksAssumption DEF NULL

(* What each kind of variant holds.                                           *)
LEMMA HeldCases ==
  ASSUME NEW h, NEW v, Points(h, v), DOMAIN h \subseteq Blocks
  PROVE  /\ v.type \notin {"STRING", "DATA"} \/ v.value = NULL => Held(h, v) = {}
         /\ v.type = "STRING" /\ v.value # NULL =>
              StringAt(h, v.value) /\ Held(h, v) = {v.value}
         /\ v.type = "DATA" /\ v.value # NULL =>
              /\ DataAt(h, v.value)
              /\ Held(h, v) = {v.value} \/ Held(h, v) = {v.value, h[v.value].data}
              /\ h[v.value].data # NULL => h[v.value].data \in Held(h, v)
         /\ Held(h, v) \subseteq DOMAIN h
<1>1. v.type = "DATA" /\ v.value # NULL =>
        /\ DataAt(h, v.value)
        /\ Held(h, v) = {v.value} \/ Held(h, v) = {v.value, h[v.value].data}
        /\ h[v.value].data # NULL => h[v.value].data \in Held(h, v)
  BY DEF Points, Held
<1>2. v.type = "DATA" /\ v.value # NULL => Held(h, v) \subseteq DOMAIN h
  <2> SUFFICES ASSUME v.type = "DATA", v.value # NULL
               PROVE  Held(h, v) \subseteq DOMAIN h
    OBVIOUS
  <2>1. v.value \in DOMAIN h
    BY <1>1 DEF DataAt
  <2>2. h[v.value].data = NULL \/ h[v.value].data \in DOMAIN h
    <3>1. CASE h[v.value] = raw_data(0, NULL)
      BY <3>1 DEF raw_data
    <3>2. ASSUME NEW size \in Sizes \ {0}, NEW data \in DOMAIN h, h[v.value] = raw_data(size, data)
          PROVE  h[v.value].data \in DOMAIN h
      BY <3>2 DEF raw_data
    <3> QED
      BY <1>1, <3>1, <3>2 DEF DataAt
  <2> QED
    BY <2>1, <2>2 DEF Held
<1>3. /\ v.type \notin {"STRING", "DATA"} \/ v.value = NULL => Held(h, v) = {}
      /\ v.type = "STRING" /\ v.value # NULL =>
           StringAt(h, v.value) /\ Held(h, v) = {v.value}
  BY DEF Points, Held
<1>4. v.type = "STRING" /\ v.value # NULL => Held(h, v) \subseteq DOMAIN h
  BY <1>3 DEF StringAt
<1> QED
  BY <1>1, <1>2, <1>3, <1>4

(* A variant whose blocks another memory has unchanged is the same there.     *)
LEMMA HeldKept ==
  ASSUME NEW h, NEW g, NEW v, Points(h, v), DOMAIN h \subseteq Blocks,
         \A b \in Held(h, v) : b \in DOMAIN g /\ g[b] = h[b]
  PROVE  Points(g, v) /\ Held(g, v) = Held(h, v)
<1>1. CASE v.type \notin {"STRING", "DATA"} \/ v.value = NULL
  BY <1>1 DEF Points, Held
<1>2. CASE v.type = "STRING" /\ v.value # NULL
  BY <1>2 DEF Points, Held, StringAt
<1>3. CASE v.type = "DATA" /\ v.value # NULL
  <2> DEFINE p == v.value
  <2>1. DataAt(h, p) /\ p \in Held(h, v) /\ (h[p].data # NULL => h[p].data \in Held(h, v))
    BY <1>3, HeldCases
  <2>2. p \in DOMAIN g /\ g[p] = h[p]
    BY <2>1
  <2>3. Held(g, v) = Held(h, v)
    BY <1>3, <2>2 DEF Held
  <2>4. DataAt(g, p)
    <3>1. CASE h[p] = raw_data(0, NULL)
      BY <2>2, <3>1 DEF DataAt
    <3>2. ASSUME NEW size \in Sizes \ {0}, NEW data \in DOMAIN h,
                 h[p] = raw_data(size, data), h[data] = BytesBlock(size)
          PROVE  DataAt(g, p)
      <4>1. h[p].data = data /\ data # NULL
        BY <3>2, NullNotBlock DEF raw_data
      <4>2. data \in DOMAIN g /\ g[data] = h[data]
        BY <2>1, <4>1
      <4> QED
        BY <2>2, <3>2, <4>2 DEF DataAt
    <3> QED
      BY <2>1, <3>1, <3>2 DEF DataAt
  <2> QED
    BY <1>3, <2>3, <2>4 DEF Points
<1> QED
  BY <1>1, <1>2, <1>3

(* A caller replaces one variant: what the old one held and what was set      *)
(* aside may go, what the new one holds and what is set aside now is new.     *)
LEMMA Replaced ==
  ASSUME NEW variants, NEW h, NEW others, EachOwned(variants, h, others),
         NEW s \in Slots, NEW v \in Variants, NEW g, NEW aside, NEW rest,
         rest = DOMAIN h \ (Held(h, variants[s]) \cup others),
         \A b \in rest : g[b] = h[b],
         Points(g, v),
         DOMAIN g = rest \cup Held(g, v) \cup aside,
         Held(g, v) \cap rest = {}, aside \cap rest = {}, aside \cap Held(g, v) = {},
         DOMAIN g \subseteq Blocks
  PROVE  EachOwned([variants EXCEPT ![s] = v], g, aside)
<1> DEFINE after == [variants EXCEPT ![s] = v]
<1>1. /\ variants \in [Slots -> Variants] /\ DOMAIN h \subseteq Blocks
      /\ \A t \in Slots : Points(h, variants[t])
      /\ \A t \in Slots : Held(h, variants[t]) \cap others = {}
      /\ \A t, u \in Slots : t # u => Held(h, variants[t]) \cap Held(h, variants[u]) = {}
      /\ DOMAIN h = (UNION {Held(h, variants[t]) : t \in Slots}) \cup others
  BY DEF EachOwned
<1>2. after \in [Slots -> Variants] /\ after[s] = v /\ \A t \in Slots \ {s} : after[t] = variants[t]
  BY <1>1
<1>3. \A t \in Slots \ {s} : Held(h, variants[t]) \subseteq rest
  <2> SUFFICES ASSUME NEW t \in Slots \ {s}
               PROVE  Held(h, variants[t]) \subseteq rest
    OBVIOUS
  <2>1. Held(h, variants[t]) \subseteq DOMAIN h
    BY <1>1, HeldCases
  <2>2. Held(h, variants[t]) \cap Held(h, variants[s]) = {}
    BY <1>1
  <2> QED
    BY <1>1, <2>1, <2>2
<1>4. \A t \in Slots \ {s} : Points(g, after[t]) /\ Held(g, after[t]) = Held(h, variants[t])
  <2> SUFFICES ASSUME NEW t \in Slots \ {s}
               PROVE  Points(g, variants[t]) /\ Held(g, variants[t]) = Held(h, variants[t])
    BY <1>2
  <2>1. \A b \in Held(h, variants[t]) : b \in DOMAIN g /\ g[b] = h[b]
    BY <1>3
  <2> QED
    BY <1>1, <2>1, HeldKept
<1>5. \A b \in rest : \E t \in Slots \ {s} : b \in Held(h, variants[t])
  <2> SUFFICES ASSUME NEW b \in rest
               PROVE  \E t \in Slots \ {s} : b \in Held(h, variants[t])
    OBVIOUS
  <2>1. b \in DOMAIN h /\ b \notin others /\ b \notin Held(h, variants[s])
    OBVIOUS
  <2>2. PICK t \in Slots : b \in Held(h, variants[t])
    BY <1>1, <2>1
  <2> QED
    BY <2>1, <2>2
<1> HIDE DEF after
<1>6. \A t \in Slots : Points(g, after[t])
  BY <1>2, <1>4
<1>7. \A t \in Slots : Held(g, after[t]) \cap aside = {}
  BY <1>2, <1>3, <1>4
<1>8. \A t, u \in Slots : t # u => Held(g, after[t]) \cap Held(g, after[u]) = {}
  <2>1. \A t \in Slots \ {s} : Held(g, after[t]) \cap Held(g, after[s]) = {}
    BY <1>2, <1>3, <1>4
  <2>2. \A t, u \in Slots \ {s} : t # u => Held(g, after[t]) \cap Held(g, after[u]) = {}
    BY <1>1, <1>4
  <2> QED
    BY <2>1, <2>2
<1>9. DOMAIN g = (UNION {Held(g, after[t]) : t \in Slots}) \cup aside
  <2>1. rest \cup Held(g, v) = UNION {Held(g, after[t]) : t \in Slots}
    <3>1. \A b : b \in rest => \E t \in Slots : b \in Held(g, after[t])
      BY <1>4, <1>5
    <3>2. \A t \in Slots : Held(g, after[t]) \subseteq rest \cup Held(g, v)
      BY <1>2, <1>3, <1>4
    <3>3. Held(g, after[s]) = Held(g, v)
      BY <1>2
    <3> QED
      BY <3>1, <3>2, <3>3
  <2> QED
    BY <2>1
<1>10. EachOwned(after, g, aside)
  BY <1>2, <1>6, <1>7, <1>8, <1>9 DEF EachOwned
<1> QED
  BY <1>10 DEF after

(* What malloc() and free() do to the blocks there are.                       *)
LEMMA Allocated ==
  ASSUME NEW contents, FreeBlocks # {}
  PROVE  /\ Address \in Blocks /\ Address \notin DOMAIN heap /\ Address # NULL
         /\ DOMAIN Alloc(contents) = DOMAIN heap \cup {Address}
         /\ Alloc(contents)[Address] = contents
         /\ \A b \in DOMAIN heap : Alloc(contents)[b] = heap[b]
<1>1. Address \in Blocks /\ Address \notin DOMAIN heap
  BY DEF Address, FreeBlocks
<1>2. /\ DOMAIN Alloc(contents) = DOMAIN heap \cup {Address}
      /\ Alloc(contents)[Address] = contents
      /\ \A b \in DOMAIN heap : b # Address => Alloc(contents)[b] = heap[b]
  BY DEF Alloc
<1> QED
  BY <1>1, <1>2, NullNotBlock

(* free() of some blocks leaves the others as they were.                     *)
LEMMA FreedBlocks ==
  ASSUME NEW blocks
  PROVE  /\ DOMAIN Freed(heap, blocks) = DOMAIN heap \ blocks
         /\ \A b \in DOMAIN heap \ blocks : Freed(heap, blocks)[b] = heap[b]
BY DEF Freed

(* Narrowing any integer to int gives an integer.                            *)
LEMMA IntOfInt == \A n \in Int : ToInt(n) \in Int
<1>1. INT_MAX \in Nat
  BY IntAssumption
<1>2. SUFFICES ASSUME NEW n \in Int
               PROVE  ToInt(n) \in Int
  OBVIOUS
<1>3. INT_MIN \in Int /\ 2 * (INT_MAX + 1) \in Nat \ {0}
  BY <1>1 DEF INT_MIN
<1> DEFINE width == 2 * (INT_MAX + 1)
           offset == n - INT_MIN
<1>4. offset \in Int /\ width \in Nat \ {0}
  BY <1>3
<1> HIDE DEF width, offset
<1>5. offset % width \in Int
  BY <1>4
<1> QED
  BY <1>3, <1>5 DEF ToInt, offset, width

-----------------------------------------------------------------------------
(* Steps of the caller.                                                       *)

(* Between the calls every block is held by a variant.                        *)
LEMMA CallerSettled ==
  ASSUME VariantInv, ~dup.on
  PROVE  /\ dup = NoDup /\ EachOwned(slot, heap, {})
         /\ slot \in [Slots -> Variants] /\ DOMAIN heap \subseteq Blocks
         /\ \A s \in Slots : Points(heap, slot[s])
BY DEF VariantInv, Copying, EachOwned

(* A variant that holds nothing replaces one that held nothing.               *)
LEMMA PlainKeeps ==
  ASSUME VariantInv, ~dup.on, NEW s \in Slots, NEW v \in Variants,
         Held(heap, slot[s]) = {}, Held(heap, v) = {}, Points(heap, v),
         slot' = [slot EXCEPT ![s] = v], heap' = heap, dup' = dup
  PROVE  VariantInv'
<1>1. dup = NoDup /\ EachOwned(slot, heap, {}) /\ DOMAIN heap \subseteq Blocks
  BY CallerSettled
<1>2. EachOwned([slot EXCEPT ![s] = v], heap, {})
  <2> DEFINE rest == DOMAIN heap
  <2>1. /\ rest = DOMAIN heap \ (Held(heap, slot[s]) \cup {})
        /\ DOMAIN heap = rest \cup Held(heap, v) \cup {}
        /\ Held(heap, v) \cap rest = {} /\ {} \cap rest = {} /\ {} \cap Held(heap, v) = {}
    OBVIOUS
  <2> HIDE DEF rest
  <2> QED
    BY <1>1, <2>1, Replaced
<1> QED
  BY <1>1, <1>2 DEF VariantInv

(* An unset slot holds nothing.                                               *)
LEMMA UnsetHolds == \A h : Held(h, Unset) = {} /\ Points(h, Unset)
BY DEF Held, Points, Unset, variant

(* The variants the operations make are variants.                            *)
LEMMA Records ==
  /\ \A type \in Types, value \in Int \cup Blocks : variant(type, value) \in Variants
  /\ \A type, value : variant(type, value).type = type /\ variant(type, value).value = value
  /\ NULL \in Int /\ Unset \in Variants /\ Invalid \in Variants
BY DEF variant, Variants, Types, NULL, Unset, Invalid

(* An integer takes no memory.                                               *)
LEMMA NewIntegerKeeps ==
  ASSUME VariantInv, NEW s \in Slots, NEW n \in Numbers, NewInteger(s, n)
  PROVE  VariantInv'
<1> DEFINE v == variant("INTEGER", ToInt(n))
<1>1. ToInt(n) \in Int
  BY IntOfInt, OrderAssumption
<1>2. v \in Variants /\ v.type = "INTEGER" /\ v.value \in Int
  BY <1>1, Records DEF Types
<1>3. Held(heap, v) = {} /\ Points(heap, v)
  BY <1>2 DEF Held, Points
<1>4. Held(heap, slot[s]) = {}
  BY UnsetHolds DEF NewInteger, Caller
<1>5. ~dup.on /\ slot' = [slot EXCEPT ![s] = v] /\ heap' = heap /\ dup' = dup
  BY DEF NewInteger, Caller
<1> HIDE DEF v
<1> QED
  BY <1>2, <1>3, <1>4, <1>5, PlainKeeps

(* Neither does a NULL string or NULL data.                                  *)
LEMMA NewNullKeeps ==
  ASSUME VariantInv, NEW s \in Slots, NEW type \in {"STRING", "DATA"}, NewNull(s, type)
  PROVE  VariantInv'
<1> DEFINE v == variant(type, NULL)
<1>1. v \in Variants /\ v.type \in {"STRING", "DATA"} /\ v.value = NULL
  BY Records DEF Types
<1>2. Held(heap, v) = {} /\ Points(heap, v)
  BY <1>1 DEF Held, Points
<1>3. Held(heap, slot[s]) = {}
  BY UnsetHolds DEF NewNull, Caller
<1>4. ~dup.on /\ slot' = [slot EXCEPT ![s] = v] /\ heap' = heap /\ dup' = dup
  BY DEF NewNull, Caller
<1> HIDE DEF v
<1> QED
  BY <1>1, <1>2, <1>3, <1>4, PlainKeeps

(* An integer takes another value.                                            *)
LEMMA IntegerKeeps ==
  ASSUME VariantInv, ~dup.on, NEW s \in Slots, slot[s].type = "INTEGER", NEW x \in Int,
         slot' = [slot EXCEPT ![s].value = x], heap' = heap, dup' = dup
  PROVE  VariantInv'
<1> DEFINE v == variant("INTEGER", x)
<1>1. v \in Variants /\ v.type = "INTEGER" /\ v.value \in Int
  BY Records DEF Types
<1>2. Held(heap, v) = {} /\ Points(heap, v)
  BY <1>1 DEF Held, Points
<1>3. Held(heap, slot[s]) = {}
  BY DEF Held
<1>4. slot[s] \in Variants
  BY CallerSettled
<1>5. [slot[s] EXCEPT !.value = x] = v
  BY <1>4 DEF Variants, variant
<1>6. slot' = [slot EXCEPT ![s] = v]
  BY <1>5
<1> HIDE DEF v
<1> QED
  BY <1>1, <1>2, <1>3, <1>6, PlainKeeps

(* A conversion from an integer keeps the invariant.                         *)
LEMMA FromIntegerKeeps ==
  ASSUME VariantInv, NEW s \in Slots, NEW n \in Int, FromInteger(s, n)
  PROVE  VariantInv'
<1>1. ToInt(n) \in Int
  BY IntOfInt
<1>2. /\ ~dup.on /\ slot[s].type = "INTEGER"
      /\ slot' = [slot EXCEPT ![s].value = ToInt(n)] /\ heap' = heap /\ dup' = dup
  BY DEF FromInteger
<1> QED
  BY <1>1, <1>2, IntegerKeeps

(* So does clamping, which only moves the integer inside its slot.           *)
LEMMA ClampKeeps ==
  ASSUME VariantInv, NEW s \in Slots, NEW min \in Int, NEW max \in Int, Clamp(s, min, max)
  PROVE  VariantInv'
<1> DEFINE x == nl_clamp_varvalue(slot[s].value, min, max)
<1>1. /\ ~dup.on /\ slot[s].type = "INTEGER"
      /\ slot' = [slot EXCEPT ![s].value = x] /\ heap' = heap /\ dup' = dup
  BY DEF Clamp
<1>2. slot[s].value \in Int
  BY <1>1, CallerSettled DEF Points
<1>3. x \in Int
  BY <1>2 DEF nl_clamp_varvalue
<1> HIDE DEF x
<1> QED
  BY <1>1, <1>3, IntegerKeeps

(* A new string in a slot that held nothing.                                  *)
LEMMA StringKeeps ==
  ASSUME VariantInv, NEW s \in Slots, Caller(s), FreeBlocks # {}, NEW text \in Strings,
         heap' = Alloc(StringBlock(text)), dup' = dup,
         slot' = [slot EXCEPT ![s] = variant("STRING", Address)]
  PROVE  VariantInv'
<1> DEFINE v == variant("STRING", Address)
           g == Alloc(StringBlock(text))
<1>1. dup = NoDup /\ EachOwned(slot, heap, {}) /\ DOMAIN heap \subseteq Blocks
  BY CallerSettled DEF Caller
<1>2. /\ Address \in Blocks /\ Address \notin DOMAIN heap /\ Address # NULL
      /\ DOMAIN g = DOMAIN heap \cup {Address} /\ g[Address] = StringBlock(text)
      /\ \A b \in DOMAIN heap : g[b] = heap[b]
  BY Allocated
<1>3. v \in Variants /\ v.type = "STRING" /\ v.value = Address
  BY <1>2, Records DEF Types
<1> HIDE DEF v, g
<1>4. Points(g, v) /\ Held(g, v) = {Address}
  BY <1>2, <1>3 DEF Points, Held, StringAt
<1>5. Held(heap, slot[s]) = {}
  BY UnsetHolds DEF Caller
<1>6. EachOwned([slot EXCEPT ![s] = v], g, {})
  <2> DEFINE rest == DOMAIN heap
  <2>1. /\ rest = DOMAIN heap \ (Held(heap, slot[s]) \cup {})
        /\ DOMAIN g = rest \cup Held(g, v) \cup {} /\ DOMAIN g \subseteq Blocks
        /\ Held(g, v) \cap rest = {} /\ {} \cap rest = {} /\ {} \cap Held(g, v) = {}
        /\ \A b \in rest : g[b] = heap[b]
    BY <1>1, <1>2, <1>4, <1>5
  <2> HIDE DEF rest
  <2> QED
    BY <1>1, <1>3, <1>4, <2>1, Replaced
<1> QED
  BY <1>1, <1>6 DEF VariantInv, v, g

(* A new string holds its one new block.                                     *)
LEMMA NewStringKeeps ==
  ASSUME VariantInv, NEW s \in Slots, NEW text \in Strings, NewString(s, text)
  PROVE  VariantInv'
BY StringKeeps DEF NewString

(* The duplicate of a string holds a block of its own.                       *)
LEMMA DuplicateStringKeeps ==
  ASSUME VariantInv, NEW from \in Slots, NEW to \in Slots, DuplicateString(from, to)
  PROVE  VariantInv'
<1>1. /\ Caller(to) /\ slot[from].type = "STRING" /\ slot[from].value # NULL /\ FreeBlocks # {}
      /\ heap' = Alloc(heap[slot[from].value]) /\ dup' = dup
      /\ slot' = [slot EXCEPT ![to] = variant("STRING", Address)]
  BY DEF DuplicateString
<1>2. StringAt(heap, slot[from].value)
  BY <1>1, CallerSettled DEF Caller, Points
<1>3. PICK text \in Strings : heap[slot[from].value] = StringBlock(text)
  BY <1>2 DEF StringAt
<1> QED
  BY <1>1, <1>3, StringKeeps

(* New data, with or without contents, in a slot that held nothing.           *)
LEMMA NewDataKeeps ==
  ASSUME VariantInv, NEW s \in Slots, NEW size \in Sizes, NewData(s, size)
  PROVE  VariantInv'
<1> DEFINE v == variant("DATA", Address)
           bytes == CHOOSE b \in FreeBlocks \ {Address} : TRUE
           memory == Alloc(raw_data(size, IF size = 0 THEN NULL ELSE bytes))
           g == IF size = 0 THEN memory
                ELSE [b \in DOMAIN memory \cup {bytes} |->
                        IF b = bytes THEN BytesBlock(size) ELSE memory[b]]
<1>1. /\ Caller(s) /\ FreeBlocks # {} /\ FreeBlocks \ {Address} # {}
      /\ heap' = g /\ slot' = [slot EXCEPT ![s] = v] /\ dup' = dup
  BY DEF NewData
<1>2. dup = NoDup /\ EachOwned(slot, heap, {}) /\ DOMAIN heap \subseteq Blocks
  BY <1>1, CallerSettled DEF Caller
<1>3. bytes \in Blocks /\ bytes \notin DOMAIN heap /\ bytes # Address
  BY <1>1 DEF FreeBlocks
<1> HIDE DEF bytes
<1>4. /\ Address \in Blocks /\ Address \notin DOMAIN heap /\ Address # NULL
      /\ DOMAIN memory = DOMAIN heap \cup {Address}
      /\ memory[Address] = raw_data(size, IF size = 0 THEN NULL ELSE bytes)
      /\ \A b \in DOMAIN heap : memory[b] = heap[b]
  BY <1>1, Allocated
<1> HIDE DEF memory
<1>5. v \in Variants /\ v.type = "DATA" /\ v.value = Address
  BY <1>4, Records DEF Types
<1>6. Held(heap, slot[s]) = {}
  BY <1>1, UnsetHolds DEF Caller
<1>7. /\ \A b \in DOMAIN heap : g[b] = heap[b]
      /\ Points(g, v)
      /\ DOMAIN g = DOMAIN heap \cup Held(g, v)
      /\ Held(g, v) \cap DOMAIN heap = {} /\ Held(g, v) \subseteq Blocks
  <2> HIDE DEF v
  <2>1. CASE size = 0
    <3>1. g = memory /\ g[Address] = raw_data(0, NULL)
      BY <1>4, <2>1
    <3>2. g[Address].data = NULL
      BY <3>1 DEF raw_data
    <3> HIDE DEF g
    <3>3. Held(g, v) = {Address}
      BY <1>4, <1>5, <3>2 DEF Held
    <3>4. DataAt(g, Address)
      BY <1>4, <3>1 DEF DataAt
    <3> QED
      BY <1>4, <1>5, <3>1, <3>3, <3>4 DEF Points
  <2>2. CASE size # 0
    <3>1. g = [b \in DOMAIN memory \cup {bytes} |->
                 IF b = bytes THEN BytesBlock(size) ELSE memory[b]]
      BY <2>2
    <3> HIDE DEF g
    <3>2. /\ DOMAIN g = DOMAIN heap \cup {Address, bytes}
          /\ g[bytes] = BytesBlock(size) /\ g[Address] = raw_data(size, bytes)
          /\ \A b \in DOMAIN heap : g[b] = heap[b]
      BY <1>3, <1>4, <2>2, <3>1
    <3>3. g[Address].data = bytes /\ bytes # NULL
      BY <1>3, <3>2, NullNotBlock DEF raw_data
    <3>4. Held(g, v) = {Address, bytes}
      BY <1>4, <1>5, <3>3 DEF Held
    <3>5. DataAt(g, Address)
      BY <2>2, <3>2 DEF DataAt
    <3> QED
      BY <1>3, <1>4, <1>5, <3>2, <3>4, <3>5 DEF Points
  <2> QED
    BY <2>1, <2>2
<1> HIDE DEF g
<1>8. EachOwned([slot EXCEPT ![s] = v], g, {})
  <2> DEFINE rest == DOMAIN heap
  <2>1. /\ rest = DOMAIN heap \ (Held(heap, slot[s]) \cup {})
        /\ DOMAIN g = rest \cup Held(g, v) \cup {} /\ DOMAIN g \subseteq Blocks
        /\ Held(g, v) \cap rest = {} /\ {} \cap rest = {} /\ {} \cap Held(g, v) = {}
        /\ \A b \in rest : g[b] = heap[b]
    BY <1>2, <1>6, <1>7
  <2> HIDE DEF rest, v
  <2> QED
    BY <1>2, <1>5, <1>7, <2>1, Replaced
<1> QED
  BY <1>1, <1>2, <1>8 DEF VariantInv

(* Destroying a variant frees what it holds and nothing another holds.       *)
LEMMA DestroyVariantKeeps ==
  ASSUME VariantInv, NEW s \in Slots, DestroyVariant(s)
  PROVE  VariantInv'
<1> DEFINE g == Freed(heap, Held(heap, slot[s]))
<1>1. ~dup.on /\ heap' = g /\ slot' = [slot EXCEPT ![s] = Unset] /\ dup' = dup
  BY HeldByCaller DEF DestroyVariant
<1>2. dup = NoDup /\ EachOwned(slot, heap, {}) /\ DOMAIN heap \subseteq Blocks
  BY <1>1, CallerSettled
<1>3. /\ DOMAIN g = DOMAIN heap \ Held(heap, slot[s])
      /\ \A b \in DOMAIN heap \ Held(heap, slot[s]) : g[b] = heap[b]
  BY FreedBlocks
<1> HIDE DEF g
<1>4. EachOwned([slot EXCEPT ![s] = Unset], g, {})
  <2> DEFINE rest == DOMAIN heap \ Held(heap, slot[s])
  <2>1. /\ rest = DOMAIN heap \ (Held(heap, slot[s]) \cup {})
        /\ DOMAIN g = rest \cup Held(g, Unset) \cup {} /\ DOMAIN g \subseteq Blocks
        /\ Held(g, Unset) \cap rest = {} /\ {} \cap rest = {} /\ {} \cap Held(g, Unset) = {}
        /\ \A b \in rest : g[b] = heap[b]
        /\ Points(g, Unset) /\ Unset \in Variants
    BY <1>2, <1>3, UnsetHolds, Records
  <2> HIDE DEF rest
  <2> QED
    BY <1>2, <2>1, Replaced
<1> QED
  BY <1>1, <1>2, <1>4 DEF VariantInv

-----------------------------------------------------------------------------
(* Copies.                                                                    *)

(* A duplicate without memory holds none.                                    *)
LEMMA DuplicateValueKeeps ==
  ASSUME VariantInv, NEW from \in Slots, NEW to \in Slots, DuplicateValue(from, to)
  PROVE  VariantInv'
<1>1. /\ ~dup.on /\ slot[to] = Unset
      /\ slot[from].type \notin {"STRING", "DATA"} \/ slot[from].value = NULL
      /\ slot' = [slot EXCEPT ![to] = slot[from]] /\ heap' = heap /\ dup' = dup
  BY DEF DuplicateValue, Caller
<1>2. slot[from] \in Variants /\ Points(heap, slot[from])
  BY <1>1, CallerSettled
<1>3. Held(heap, slot[from]) = {} /\ Held(heap, slot[to]) = {}
  BY <1>1, UnsetHolds DEF Held
<1> QED
  BY <1>1, <1>2, <1>3, PlainKeeps

(* A duplicate that could not be made is invalid and holds nothing.          *)
LEMMA DuplicateFailsKeeps ==
  ASSUME VariantInv, NEW from \in Slots, NEW to \in Slots, DuplicateFails(from, to)
  PROVE  VariantInv'
<1>1. /\ ~dup.on /\ slot[to] = Unset
      /\ slot' = [slot EXCEPT ![to] = Invalid] /\ heap' = heap /\ dup' = dup
  BY DEF DuplicateFails, Caller
<1>2. Held(heap, Invalid) = {} /\ Points(heap, Invalid) /\ Invalid \in Variants
  BY Records DEF Held, Points, Invalid
<1>3. Held(heap, slot[to]) = {}
  BY <1>1, UnsetHolds
<1> QED
  BY <1>1, <1>2, <1>3, PlainKeeps

(* The new structure is set aside until the contents are copied.              *)
LEMMA DuplicateStructKeeps ==
  ASSUME VariantInv, NEW from \in Slots, NEW to \in Slots, DuplicateStruct(from, to)
  PROVE  VariantInv'
<1> DEFINE g == Alloc(raw_data(0, NULL))
           source == slot[from].value
<1>1. /\ Caller(to) /\ slot[from].type = "DATA" /\ source # NULL /\ FreeBlocks # {}
      /\ heap' = g /\ slot' = slot
      /\ dup' = [on |-> TRUE, source |-> source, copy |-> Address, to |-> to]
  BY DEF DuplicateStruct
<1>2. /\ dup = NoDup /\ EachOwned(slot, heap, {}) /\ DOMAIN heap \subseteq Blocks
      /\ slot \in [Slots -> Variants] /\ Points(heap, slot[from])
  BY <1>1, CallerSettled DEF Caller
<1>3. /\ Address \in Blocks /\ Address \notin DOMAIN heap /\ Address # NULL
      /\ DOMAIN g = DOMAIN heap \cup {Address} /\ g[Address] = raw_data(0, NULL)
      /\ \A b \in DOMAIN heap : g[b] = heap[b]
  BY <1>1, Allocated
<1> HIDE DEF g
<1>4. EachOwned([slot EXCEPT ![to] = Unset], g, {Address})
  <2> DEFINE rest == DOMAIN heap
             aside == {Address}
  <2>1. /\ rest = DOMAIN heap \ (Held(heap, slot[to]) \cup {})
        /\ DOMAIN g = rest \cup Held(g, Unset) \cup aside /\ DOMAIN g \subseteq Blocks
        /\ Held(g, Unset) \cap rest = {} /\ aside \cap rest = {} /\ aside \cap Held(g, Unset) = {}
        /\ \A b \in rest : g[b] = heap[b]
        /\ Points(g, Unset) /\ Unset \in Variants
    BY <1>1, <1>2, <1>3, UnsetHolds, Records DEF Caller
  <2> HIDE DEF rest, aside
  <2>2. EachOwned([slot EXCEPT ![to] = Unset], g, aside)
    BY <1>2, <2>1, Replaced
  <2> QED
    BY <2>2 DEF aside
<1>5. [slot EXCEPT ![to] = Unset] = slot
  BY <1>1, <1>2 DEF Caller
<1>6. DataAt(heap, source) /\ Held(heap, slot[from]) \subseteq DOMAIN heap
  BY <1>1, <1>2, HeldCases
<1>7. Points(g, slot[from])
  <2>1. \A b \in Held(heap, slot[from]) : b \in DOMAIN g /\ g[b] = heap[b]
    BY <1>3, <1>6
  <2> QED
    BY <1>2, <2>1, HeldKept
<1>8. DataAt(g, source) /\ source \in Blocks /\ source # Address
  <2>1. DataAt(g, source)
    BY <1>1, <1>7 DEF Points
  <2>2. source \in DOMAIN heap
    BY <1>6 DEF DataAt
  <2> QED
    BY <1>2, <1>3, <2>1, <2>2
<1> HIDE DEF source
<1>9. /\ dup' \in [on : {TRUE}, source : Blocks, copy : Blocks, to : Slots]
      /\ dup'.source = source /\ dup'.copy = Address /\ dup'.to = to
  BY <1>1, <1>3, <1>8
<1>10. Copying'
  BY <1>1, <1>3, <1>8, <1>9 DEF Copying, Caller
<1> QED
  BY <1>1, <1>4, <1>5, <1>9, <1>10 DEF VariantInv

(* A copy in progress, as its last steps find it.                             *)
LEMMA CopyingSettled ==
  ASSUME VariantInv, dup.on
  PROVE  /\ EachOwned(slot, heap, {dup.copy}) /\ slot \in [Slots -> Variants]
         /\ DOMAIN heap \subseteq Blocks
         /\ dup.to \in Slots /\ Held(heap, slot[dup.to]) = {}
         /\ dup.copy \in DOMAIN heap /\ dup.copy \in Blocks /\ dup.copy # NULL
         /\ heap[dup.copy] = raw_data(0, NULL)
         /\ DataAt(heap, dup.source)
<1>1. Copying /\ EachOwned(slot, heap, {dup.copy})
  BY DEF VariantInv, NoDup
<1> QED
  BY <1>1, UnsetHolds, NullNotBlock DEF Copying, EachOwned

(* Empty data is duplicated as soon as its structure is.                     *)
LEMMA CopyEmptyKeeps ==
  ASSUME VariantInv, CopyEmpty
  PROVE  VariantInv'
<1> DEFINE v == variant("DATA", dup.copy)
           to == dup.to
           copy == dup.copy
           rest == DOMAIN heap \ {copy}
<1>1. dup.on /\ slot' = [slot EXCEPT ![to] = v] /\ dup' = NoDup /\ heap' = heap
  BY DEF CopyEmpty, CopyReturns
<1>2. /\ EachOwned(slot, heap, {copy}) /\ DOMAIN heap \subseteq Blocks
      /\ to \in Slots /\ Held(heap, slot[to]) = {}
      /\ copy \in DOMAIN heap /\ copy \in Blocks /\ copy # NULL
      /\ heap[copy] = raw_data(0, NULL)
  BY <1>1, CopyingSettled
<1>3. v \in Variants /\ v.type = "DATA" /\ v.value = copy
  BY <1>2, Records DEF Types
<1> HIDE DEF v, to, copy
<1>4. heap[copy].data = NULL
  BY <1>2 DEF raw_data
<1>5. Held(heap, v) = {copy} /\ Points(heap, v)
  BY <1>2, <1>3, <1>4 DEF Held, Points, DataAt
<1>6. /\ rest = DOMAIN heap \ (Held(heap, slot[to]) \cup {copy})
      /\ DOMAIN heap = rest \cup Held(heap, v) \cup {}
      /\ Held(heap, v) \cap rest = {} /\ {} \cap rest = {} /\ {} \cap Held(heap, v) = {}
  BY <1>2, <1>5
<1> HIDE DEF rest
<1>7. EachOwned([slot EXCEPT ![to] = v], heap, {})
  BY <1>2, <1>3, <1>5, <1>6, Replaced
<1> QED
  BY <1>1, <1>7 DEF VariantInv

(* The contents are copied: the duplicate holds structure and contents.      *)
LEMMA CopyContentsKeeps ==
  ASSUME VariantInv, CopyContents
  PROVE  VariantInv'
<1> DEFINE v == variant("DATA", dup.copy)
           to == dup.to
           copy == dup.copy
           size == heap[dup.source].size
           memory == Alloc(BytesBlock(size))
           g == [memory EXCEPT ![copy] = raw_data(size, Address)]
           rest == DOMAIN heap \ {copy}
<1>1. /\ dup.on /\ FreeBlocks # {} /\ size > 0
      /\ slot' = [slot EXCEPT ![to] = v] /\ dup' = NoDup /\ heap' = g
  BY DEF CopyContents, CopyReturns
<1>2. /\ EachOwned(slot, heap, {copy}) /\ DOMAIN heap \subseteq Blocks
      /\ to \in Slots /\ Held(heap, slot[to]) = {}
      /\ copy \in DOMAIN heap /\ copy \in Blocks /\ copy # NULL
      /\ DataAt(heap, dup.source)
  BY <1>1, CopyingSettled
<1>3. size \in Sizes \ {0}
  <2>1. raw_data(0, NULL).size = 0 /\ ~(0 > 0)
    BY DEF raw_data
  <2>2. \A n, data : raw_data(n, data).size = n
    BY DEF raw_data
  <2> QED
    BY <1>1, <1>2, <2>1, <2>2 DEF DataAt
<1>4. v \in Variants /\ v.type = "DATA" /\ v.value = copy
  BY <1>2, Records DEF Types
<1>5. /\ Address \in Blocks /\ Address \notin DOMAIN heap /\ Address # NULL
      /\ DOMAIN memory = DOMAIN heap \cup {Address}
      /\ memory[Address] = BytesBlock(size)
      /\ \A b \in DOMAIN heap : memory[b] = heap[b]
  BY <1>1, Allocated
<1> HIDE DEF v, to, copy, size, memory
<1>6. /\ DOMAIN g = DOMAIN heap \cup {Address}
      /\ g[copy] = raw_data(size, Address) /\ g[Address] = BytesBlock(size)
      /\ \A b \in DOMAIN heap \ {copy} : g[b] = heap[b]
  BY <1>2, <1>5
<1> HIDE DEF g
<1>7. g[copy].data = Address
  BY <1>6 DEF raw_data
<1>8. Held(g, v) = {copy, Address}
  BY <1>2, <1>4, <1>5, <1>7 DEF Held
<1>9. DataAt(g, copy)
  BY <1>2, <1>3, <1>6 DEF DataAt
<1>10. Points(g, v)
  BY <1>4, <1>9 DEF Points
<1>11. /\ rest = DOMAIN heap \ (Held(heap, slot[to]) \cup {copy})
       /\ DOMAIN g = rest \cup Held(g, v) \cup {} /\ DOMAIN g \subseteq Blocks
       /\ Held(g, v) \cap rest = {} /\ {} \cap rest = {} /\ {} \cap Held(g, v) = {}
       /\ \A b \in rest : g[b] = heap[b]
  BY <1>2, <1>5, <1>6, <1>8
<1> HIDE DEF rest
<1>12. EachOwned([slot EXCEPT ![to] = v], g, {})
  BY <1>2, <1>4, <1>10, <1>11, Replaced
<1> QED
  BY <1>1, <1>12 DEF VariantInv

(* A copy that fails half way gives its structure back.                       *)
LEMMA CopyFailsKeeps ==
  ASSUME VariantInv, CopyFails
  PROVE  VariantInv'
<1> DEFINE to == dup.to
           copy == dup.copy
           g == Freed(heap, {copy})
           rest == DOMAIN heap \ {copy}
<1>1. dup.on /\ slot' = [slot EXCEPT ![to] = Invalid] /\ dup' = NoDup /\ heap' = g
  BY DEF CopyFails, CopyReturns
<1>2. /\ EachOwned(slot, heap, {copy}) /\ DOMAIN heap \subseteq Blocks
      /\ to \in Slots /\ Held(heap, slot[to]) = {}
  BY <1>1, CopyingSettled
<1>3. DOMAIN g = DOMAIN heap \ {copy} /\ \A b \in DOMAIN heap \ {copy} : g[b] = heap[b]
  BY FreedBlocks
<1> HIDE DEF to, copy, g
<1>4. Held(g, Invalid) = {} /\ Points(g, Invalid) /\ Invalid \in Variants
  BY Records DEF Held, Points, Invalid
<1>5. /\ rest = DOMAIN heap \ (Held(heap, slot[to]) \cup {copy})
      /\ DOMAIN g = rest \cup Held(g, Invalid) \cup {} /\ DOMAIN g \subseteq Blocks
      /\ Held(g, Invalid) \cap rest = {} /\ {} \cap rest = {} /\ {} \cap Held(g, Invalid) = {}
      /\ \A b \in rest : g[b] = heap[b]
  BY <1>2, <1>3, <1>4
<1> HIDE DEF rest
<1>6. EachOwned([slot EXCEPT ![to] = Invalid], g, {})
  BY <1>2, <1>4, <1>5, Replaced
<1> QED
  BY <1>1, <1>6 DEF VariantInv

-----------------------------------------------------------------------------
(* At first nothing is allocated.                                            *)
LEMMA VariantStart == VariantInit => VariantInv
<1> SUFFICES ASSUME VariantInit
             PROVE  VariantInv
  OBVIOUS
<1>1. \A s \in Slots : slot[s] = Unset
  BY DEF VariantInit
<1>2. \A s \in Slots : Held(heap, slot[s]) = {} /\ Points(heap, slot[s])
  BY <1>1, UnsetHolds
<1>3. slot \in [Slots -> Variants] /\ DOMAIN heap = {} /\ dup = NoDup
  BY Records DEF VariantInit
<1>4. DOMAIN heap = (UNION {Held(heap, slot[s]) : s \in Slots}) \cup {}
  BY <1>2, <1>3
<1> QED
  BY <1>2, <1>3, <1>4 DEF VariantInv, EachOwned

(* Every call and every half of a copy keeps the invariant.                   *)
LEMMA VariantStep ==
  ASSUME VariantInv, [VariantNext]_variantVars
  PROVE  VariantInv'
<1>1. ASSUME NEW s \in Slots, NEW n \in Numbers, NewInteger(s, n) \/ FromInteger(s, n)
      PROVE  VariantInv'
  BY <1>1, NewIntegerKeeps, FromIntegerKeeps, OrderAssumption
<1>2. ASSUME NEW s \in Slots, NEW min \in Numbers, NEW max \in Numbers, Clamp(s, min, max)
      PROVE  VariantInv'
  BY <1>2, ClampKeeps, OrderAssumption
<1>3. ASSUME NEW s \in Slots, NEW word \in {"true", "false"}, FromWord(s, word)
      PROVE  VariantInv'
  BY <1>3, FromIntegerKeeps DEF FromWord
<1>4. ASSUME NEW s \in Slots, NEW text \in Strings, NewString(s, text)
      PROVE  VariantInv'
  BY <1>4, NewStringKeeps
<1>5. ASSUME NEW s \in Slots, NEW size \in Sizes, NewData(s, size)
      PROVE  VariantInv'
  BY <1>5, NewDataKeeps
<1>6. ASSUME NEW s \in Slots, NEW type \in {"STRING", "DATA"}, NewNull(s, type)
      PROVE  VariantInv'
  BY <1>6, NewNullKeeps
<1>7. ASSUME NEW s \in Slots, DestroyVariant(s)
      PROVE  VariantInv'
  BY <1>7, DestroyVariantKeeps
<1>8. ASSUME NEW from \in Slots, NEW to \in Slots,
             \/ DuplicateValue(from, to) \/ DuplicateString(from, to)
             \/ DuplicateStruct(from, to) \/ DuplicateFails(from, to)
      PROVE  VariantInv'
  BY <1>8, DuplicateValueKeeps, DuplicateStringKeeps, DuplicateStructKeeps, DuplicateFailsKeeps
<1>9. CASE CopyEmpty \/ CopyContents \/ CopyFails
  BY <1>9, CopyEmptyKeeps, CopyContentsKeeps, CopyFailsKeeps
<1>10. CASE UNCHANGED variantVars
  <2>1. slot' = slot /\ heap' = heap /\ dup' = dup
    BY <1>10 DEF variantVars
  <2> QED
    BY <2>1 DEF VariantInv, Copying
<1> QED
  BY <1>1, <1>2, <1>3, <1>4, <1>5, <1>6, <1>7, <1>8, <1>9, <1>10 DEF VariantNext

(* So the invariant holds in every reachable state.                          *)
LEMMA VariantInvariance == VariantSpec => []VariantInv
BY VariantStart, VariantStep, PTL DEF VariantSpec

(* Whatever is made, copied and destroyed, and whichever allocation fails,    *)
(* every allocated block belongs to exactly one variant or to the copy in     *)
(* progress, and every pointer leads to an allocated block (variant.c:77,     *)
(* variant.c:125).                                                            *)
THEOREM OwnershipCorrectness == VariantSpec => []EveryBlockOwned
<1>1. VariantInv => EveryBlockOwned
  <2> SUFFICES ASSUME VariantInv
               PROVE  EveryBlockOwned
    OBVIOUS
  <2>1. \A s : Owned(s) = Held(heap, slot[s])
    BY HeldByCaller DEF Owned
  <2> DEFINE others == IF dup.on THEN {dup.copy} ELSE {}
  <2>2. EachOwned(slot, heap, others)
    <3>1. CASE dup = NoDup /\ EachOwned(slot, heap, {})
      BY <3>1 DEF NoDup
    <3>2. CASE Copying /\ EachOwned(slot, heap, {dup.copy})
      <4>1. dup.on
        BY <3>2 DEF Copying
      <4> QED
        BY <3>2, <4>1
    <3> QED
      BY <3>1, <3>2 DEF VariantInv
  <2> HIDE DEF others
  <2>3. /\ \A s, t \in Slots : s # t => Owned(s) \cap Owned(t) = {}
        /\ DOMAIN heap = (UNION {Owned(s) : s \in Slots}) \cup others
    BY <2>1, <2>2 DEF EachOwned
  <2> QED
    BY <2>3 DEF EveryBlockOwned, others
<1> QED
  BY <1>1, VariantInvariance, PTL

-----------------------------------------------------------------------------
(* Order.  A variant has a place: the number of its type; then whether it is  *)
(* NULL, empty or neither; then its value, text or size.                      *)
Level(v) ==
  IF v.type = "INTEGER" THEN 0
  ELSE IF v.value = NULL THEN 0
  ELSE IF v.type = "DATA" /\ heap[v.value].data = NULL THEN 1 ELSE 2

Amount(v) ==
  IF v.type = "INTEGER" THEN v.value
  ELSE IF Level(v) # 2 THEN 0
  ELSE IF v.type = "STRING" THEN heap[v.value].text ELSE heap[v.value].size

Before(v, w) ==
  \/ TypeNumber(v.type) < TypeNumber(w.type)
  \/ v.type = w.type /\ Level(v) < Level(w)
  \/ v.type = w.type /\ Level(v) = Level(w) /\ Amount(v) < Amount(w)

Placed(v) ==
  /\ v.type \in {"INTEGER", "STRING", "DATA"}
  /\ Points(heap, v)

(* The difference of any two sizes of raw data is an int.                     *)
SizesFit == \A m, n \in Sizes : m - n <= INT_MAX

(* Narrowing to int leaves what fits an int as it is.                        *)
LEMMA SameInt ==
  ASSUME NEW n \in Int, INT_MIN <= n, n <= INT_MAX
  PROVE  ToInt(n) = n
<1> DEFINE width == 2 * (INT_MAX + 1)
           offset == n - INT_MIN
           q == offset \div width
           r == offset % width
<1>1. INT_MAX \in Nat /\ INT_MIN \in Int /\ INT_MIN = -INT_MAX - 1
  BY IntAssumption DEF INT_MIN
<1>2. width \in Nat \ {0} /\ offset \in Int /\ 0 <= offset /\ offset < width
  BY <1>1
<1>3. ToInt(n) = r + INT_MIN /\ n = offset + INT_MIN
  BY <1>1 DEF ToInt
<1> HIDE DEF width, offset
<1>4. q \in Int /\ r \in 0..(width - 1) /\ offset = width * q + r
  BY <1>2
<1> HIDE DEF q, r
<1>5. q = 0
  <2>1. q >= 1 => width * q >= width
    BY <1>2, <1>4
  <2>2. q <= -1 => width * q <= -width
    BY <1>2, <1>4
  <2> QED
    BY <1>2, <1>4, <2>1, <2>2
<1>6. width * q = 0
  BY <1>2, <1>5
<1> QED
  BY <1>1, <1>2, <1>3, <1>4, <1>6

(* The place of a comparable variant is given by three integers.             *)
LEMMA PlaceIsNumbers ==
  ASSUME NEW v, Placed(v)
  PROVE  TypeNumber(v.type) \in Int /\ Level(v) \in Int /\ Amount(v) \in Int
<1>1. TypeNumber(v.type) \in Int
  BY DEF Placed, TypeNumber
<1>2. Level(v) \in Int
  BY DEF Level
<1>3. CASE v.type = "INTEGER"
  BY <1>1, <1>2, <1>3 DEF Placed, Points, Amount
<1>4. CASE v.type = "STRING" /\ v.value # NULL
  <2>1. PICK text \in Strings : heap[v.value] = StringBlock(text)
    BY <1>4 DEF Placed, Points, StringAt
  <2>2. heap[v.value].text = text /\ text \in Int
    BY <2>1, OrderAssumption DEF StringBlock
  <2>3. Amount(v) \in {0, heap[v.value].text}
    BY <1>4 DEF Amount
  <2> QED
    BY <1>1, <1>2, <2>2, <2>3
<1>5. CASE v.type = "DATA" /\ v.value # NULL
  <2>1. DataAt(heap, v.value)
    BY <1>5 DEF Placed, Points
  <2>2. \A n, data : raw_data(n, data).size = n
    BY DEF raw_data
  <2>3. heap[v.value].size \in Int
    BY <2>1, <2>2, OrderAssumption DEF DataAt
  <2>4. Amount(v) \in {0, heap[v.value].size}
    BY <1>5 DEF Amount
  <2> QED
    BY <1>1, <1>2, <2>3, <2>4
<1>6. CASE v.type # "INTEGER" /\ v.value = NULL
  BY <1>1, <1>2, <1>6 DEF Amount, Level
<1> QED
  BY <1>1, <1>2, <1>3, <1>4, <1>5, <1>6 DEF Placed

(* Comparing two variants finds which one comes first.                        *)
Ranking(v, w) == IF Before(v, w) THEN -1 ELSE IF Before(w, v) THEN 1 ELSE 0

(* nl_compare_varvalues() of integers follows their places.                  *)
LEMMA IntegersCompared ==
  ASSUME NEW v, NEW w, Placed(v), Placed(w), v.type = "INTEGER", w.type = "INTEGER"
  PROVE  Sgn(nl_compare_variants(v, w)) = Ranking(v, w)
<1>1. v.value \in Int /\ w.value \in Int
  BY DEF Placed, Points
<1>2. nl_compare_variants(v, w) = Order(v.value, w.value)
  BY DEF nl_compare_variants
<1>3. /\ Level(v) = 0 /\ Level(w) = 0 /\ Amount(v) = v.value /\ Amount(w) = w.value
      /\ TypeNumber(v.type) = 1 /\ TypeNumber(w.type) = 1
  BY DEF Level, Amount, TypeNumber
<1> QED
  BY <1>1, <1>2, <1>3 DEF Order, Sgn, Ranking, Before

(* nl_compare_varvalues() of strings, NULL first.                            *)
LEMMA StringsCompared ==
  ASSUME NEW v, NEW w, Placed(v), Placed(w), v.type = "STRING", w.type = "STRING"
  PROVE  Sgn(nl_compare_variants(v, w)) = Ranking(v, w)
<1> DEFINE p == v.value
           q == w.value
<1>1. nl_compare_variants(v, w) = CompareStrings(p, q)
  BY DEF nl_compare_variants
<1>2. TypeNumber(v.type) = 3 /\ TypeNumber(w.type) = 3
  BY DEF TypeNumber
<1>3. /\ Amount(v) \in Int /\ Amount(w) \in Int
  BY PlaceIsNumbers
<1>4. /\ Level(v) = IF p = NULL THEN 0 ELSE 2
      /\ Level(w) = IF q = NULL THEN 0 ELSE 2
      /\ Amount(v) = IF p = NULL THEN 0 ELSE heap[p].text
      /\ Amount(w) = IF q = NULL THEN 0 ELSE heap[q].text
  BY DEF Level, Amount
<1> HIDE DEF p, q
<1>5. CASE p = q
  <2>1. CompareStrings(p, q) = 0
    BY <1>5 DEF CompareStrings
  <2> QED
    BY <1>1, <1>2, <1>3, <1>4, <1>5, <2>1 DEF Sgn, Ranking, Before
<1>6. CASE p # q /\ NULL \in {p, q}
  <2>1. CompareStrings(p, q) = IF p = NULL THEN -1 ELSE 1
    BY <1>6 DEF CompareStrings, CompareNull
  <2>2. /\ p = NULL => Level(v) = 0 /\ Level(w) = 2
        /\ p # NULL => Level(v) = 2 /\ Level(w) = 0
    BY <1>4, <1>6
  <2> QED
    BY <1>1, <1>2, <2>1, <2>2 DEF Sgn, Ranking, Before
<1>7. CASE p # q /\ NULL \notin {p, q}
  <2>1. CompareStrings(p, q) = Order(Amount(v), Amount(w))
    BY <1>4, <1>7 DEF CompareStrings
  <2>2. Level(v) = 2 /\ Level(w) = 2
    BY <1>4, <1>7
  <2> QED
    BY <1>1, <1>2, <1>3, <2>1, <2>2 DEF Order, Sgn, Ranking, Before
<1> QED
  BY <1>5, <1>6, <1>7

(* Data at p: empty, or of a size in Sizes.                                   *)
LEMMA DataFields ==
  ASSUME NEW p, DataAt(heap, p), DOMAIN heap \subseteq Blocks
  PROVE  IF heap[p].data = NULL THEN heap[p].size = 0 ELSE heap[p].size \in Sizes
<1>1. CASE heap[p] = raw_data(0, NULL)
  BY <1>1 DEF raw_data
<1>2. ASSUME NEW size \in Sizes \ {0}, NEW data \in DOMAIN heap, heap[p] = raw_data(size, data)
      PROVE  heap[p].size \in Sizes /\ heap[p].data # NULL
  BY <1>2, NullNotBlock DEF raw_data
<1> QED
  BY <1>1, <1>2 DEF DataAt

(* nl_compare_varvalues() of raw data: NULL, then empty, then by size.       *)
LEMMA DataCompared ==
  ASSUME SizesFit, NEW v, NEW w, Placed(v), Placed(w), v.type = "DATA", w.type = "DATA",
         DOMAIN heap \subseteq Blocks
  PROVE  Sgn(nl_compare_variants(v, w)) = Ranking(v, w)
<1> DEFINE p == v.value
           q == w.value
           d == heap[p]
           e == heap[q]
<1>1. nl_compare_variants(v, w) = CompareData(p, q)
  BY DEF nl_compare_variants
<1>2. TypeNumber(v.type) = 4 /\ TypeNumber(w.type) = 4
  BY DEF TypeNumber
<1>3. /\ Amount(v) \in Int /\ Amount(w) \in Int
  BY PlaceIsNumbers
<1>4. /\ Level(v) = IF p = NULL THEN 0 ELSE IF d.data = NULL THEN 1 ELSE 2
      /\ Level(w) = IF q = NULL THEN 0 ELSE IF e.data = NULL THEN 1 ELSE 2
      /\ Amount(v) = IF Level(v) # 2 THEN 0 ELSE d.size
      /\ Amount(w) = IF Level(w) # 2 THEN 0 ELSE e.size
  BY DEF Level, Amount
<1>5. /\ p # NULL => IF d.data = NULL THEN d.size = 0 ELSE d.size \in Sizes
      /\ q # NULL => IF e.data = NULL THEN e.size = 0 ELSE e.size \in Sizes
  BY DataFields DEF Placed, Points
<1> HIDE DEF p, q
<1>6. CASE p = q
  <2>1. CompareData(p, q) = 0
    BY <1>6 DEF CompareData
  <2>2. Level(v) = Level(w) /\ Amount(v) = Amount(w)
    BY <1>4, <1>6
  <2> QED
    BY <1>1, <1>2, <1>3, <2>1, <2>2 DEF Sgn, Ranking, Before, Level
<1>7. CASE p # q /\ NULL \in {p, q}
  <2>1. CompareData(p, q) = IF p = NULL THEN -1 ELSE 1
    BY <1>7 DEF CompareData, CompareNull
  <2>2. /\ p = NULL => Level(v) = 0 /\ Level(w) \in {1, 2}
        /\ p # NULL => Level(v) \in {1, 2} /\ Level(w) = 0
    BY <1>4, <1>7
  <2> QED
    BY <1>1, <1>2, <2>1, <2>2 DEF Sgn, Ranking, Before
<1>8. CASE p # q /\ NULL \notin {p, q}
  <2> DEFINE dd == d.data
             ee == e.data
             m == d.size
             n == e.size
  <2>1. CompareData(p, q) = IF dd = ee /\ m = n THEN 0
                            ELSE IF NULL \in {dd, ee} THEN CompareNull(dd, ee) ELSE ToInt(m - n)
    BY <1>8 DEF CompareData, CompareSizes
  <2>2. /\ Level(v) = IF dd = NULL THEN 1 ELSE 2
        /\ Level(w) = IF ee = NULL THEN 1 ELSE 2
        /\ Amount(v) = m /\ Amount(w) = n
        /\ IF dd = NULL THEN m = 0 ELSE m \in Sizes
        /\ IF ee = NULL THEN n = 0 ELSE n \in Sizes
    BY <1>4, <1>5, <1>8
  <2> HIDE DEF dd, ee, m, n
  <2>3. CASE dd = ee /\ m = n
    BY <1>1, <1>2, <1>3, <2>1, <2>2, <2>3 DEF Sgn, Ranking, Before
  <2>4. CASE ~(dd = ee /\ m = n) /\ NULL \in {dd, ee}
    <3>1. CompareData(p, q) = IF dd = NULL THEN -1 ELSE 1
      BY <2>1, <2>4 DEF CompareNull
    <3>2. /\ dd = NULL => Level(v) = 1 /\ Level(w) = 2
          /\ dd # NULL => Level(v) = 2 /\ Level(w) = 1
      BY <2>2, <2>4
    <3> QED
      BY <1>1, <1>2, <3>1, <3>2 DEF Sgn, Ranking, Before
  <2>5. CASE NULL \notin {dd, ee} /\ ~(dd = ee /\ m = n)
    <3>1. m \in Sizes /\ n \in Sizes /\ m \in Int /\ n \in Int
      BY <1>3, <2>2, <2>5
    <3>2. m - n <= INT_MAX /\ n - m <= INT_MAX
      BY <3>1 DEF SizesFit
    <3>3. m - n \in Int /\ INT_MIN <= m - n
      BY <3>1, <3>2, IntAssumption DEF INT_MIN
    <3>4. ToInt(m - n) = m - n
      BY <3>2, <3>3, SameInt
    <3>5. CompareData(p, q) = m - n
      BY <2>1, <2>5, <3>4
    <3> QED
      BY <1>1, <1>2, <2>2, <2>5, <3>1, <3>5 DEF Sgn, Ranking, Before
  <2> QED
    BY <2>3, <2>4, <2>5
<1> QED
  BY <1>6, <1>7, <1>8

(* nl_compare_variants() of any two variants follows their places.           *)
LEMMA VariantsCompared ==
  ASSUME SizesFit, NEW v, NEW w, Placed(v), Placed(w), DOMAIN heap \subseteq Blocks
  PROVE  Sgn(nl_compare_variants(v, w)) = Ranking(v, w)
<1>1. CASE v.type # w.type
  <2>1. nl_compare_variants(v, w) = Order(TypeNumber(v.type), TypeNumber(w.type))
    BY <1>1 DEF nl_compare_variants
  <2>2. /\ TypeNumber(v.type) \in Int /\ TypeNumber(w.type) \in Int
        /\ TypeNumber(v.type) # TypeNumber(w.type)
    BY <1>1 DEF Placed, TypeNumber
  <2> QED
    BY <1>1, <2>1, <2>2 DEF Order, Sgn, Ranking, Before
<1> QED
  BY <1>1, IntegersCompared, StringsCompared, DataCompared DEF Placed

(* SizesFit is not only convenient: of two pieces of raw data whose sizes     *)
(* differ by one more than the largest int, each is the smaller, because the  *)
(* difference narrowed to int (variant.c:561) is INT_MIN both ways.           *)
THEOREM CompareNeedsSizesFit ==
  ASSUME NEW d, NEW e, d.size \in Nat, e.size \in Nat, d.size - e.size = INT_MAX + 1
  PROVE  CompareSizes(d, e) = INT_MIN /\ CompareSizes(e, d) = INT_MIN
<1> DEFINE width == 2 * (INT_MAX + 1)
<1>1. INT_MAX \in Nat \ {0} /\ INT_MIN = -INT_MAX - 1
  BY IntAssumption DEF INT_MIN
<1>2. width \in Nat \ {0}
  BY <1>1
<1>3. width % width = 0 /\ 0 % width = 0
  BY <1>2
<1>4. (d.size - e.size) - INT_MIN = width /\ (e.size - d.size) - INT_MIN = 0
  BY <1>1
<1>5. CompareSizes(d, e) = (width % width) + INT_MIN
  BY <1>4 DEF CompareSizes, ToInt
<1>6. CompareSizes(e, d) = (0 % width) + INT_MIN
  BY <1>4 DEF CompareSizes, ToInt
<1> QED
  BY <1>1, <1>3, <1>5, <1>6

(* Comparing is a total preorder on integers, strings and raw data            *)
(* (variant.c:561), as long as no two sizes of raw data differ by more than   *)
(* the largest int.                                                           *)
THEOREM CompareCorrectness ==
  ASSUME SizesFit
  PROVE  VariantSpec => []CompareIsOrder
<1>1. VariantInv => CompareIsOrder
  <2> SUFFICES ASSUME VariantInv, NEW s \in Comparable, NEW t \in Comparable, NEW u \in Comparable
               PROVE  /\ Cmp(s, t) = -Cmp(t, s)
                      /\ Cmp(s, t) <= 0 /\ Cmp(t, u) <= 0 => Cmp(s, u) <= 0
    BY DEF CompareIsOrder
  <2> DEFINE x == slot[s]
             y == slot[t]
             z == slot[u]
  <2>1. DOMAIN heap \subseteq Blocks /\ Placed(x) /\ Placed(y) /\ Placed(z)
    BY DEF VariantInv, EachOwned, Comparable, Placed
  <2>2. /\ Cmp(s, t) = Ranking(x, y) /\ Cmp(t, s) = Ranking(y, x)
        /\ Cmp(t, u) = Ranking(y, z) /\ Cmp(s, u) = Ranking(x, z)
    BY <2>1, VariantsCompared DEF Cmp
  <2>3. /\ TypeNumber(x.type) \in Int /\ Level(x) \in Int /\ Amount(x) \in Int
        /\ TypeNumber(y.type) \in Int /\ Level(y) \in Int /\ Amount(y) \in Int
        /\ TypeNumber(z.type) \in Int /\ Level(z) \in Int /\ Amount(z) \in Int
    BY <2>1, PlaceIsNumbers
  <2>4. \A v, w : Placed(v) /\ Placed(w) /\ TypeNumber(v.type) = TypeNumber(w.type)
                   => v.type = w.type
    BY DEF Placed, TypeNumber
  <2> HIDE DEF x, y, z
  <2>5. /\ ~(Before(x, y) /\ Before(y, x))
        /\ ~(Before(y, z) /\ Before(z, y))
        /\ ~(Before(x, z) /\ Before(z, x))
    BY <2>3 DEF Before
  <2>6. ~Before(y, x) /\ ~Before(z, y) => ~Before(z, x)
    BY <2>1, <2>3, <2>4 DEF Before
  <2>7. Cmp(s, t) = -Cmp(t, s)
    <3>1. Ranking(x, y) = -Ranking(y, x)
      BY <2>5 DEF Ranking
    <3> QED
      BY <2>2, <3>1
  <2>8. ASSUME Cmp(s, t) <= 0, Cmp(t, u) <= 0
        PROVE  Cmp(s, u) <= 0
    <3>1. ~Before(y, x)
      BY <2>2, <2>8, <2>5 DEF Ranking
    <3>2. ~Before(z, y)
      BY <2>2, <2>8, <2>5 DEF Ranking
    <3>3. ~Before(z, x)
      BY <2>6, <3>1, <3>2
    <3> QED
      BY <2>2, <3>3 DEF Ranking
  <2> QED
    BY <2>7, <2>8
<1> QED
  BY <1>1, VariantInvariance, PTL

-----------------------------------------------------------------------------
(* Term.  ColorFollowsIntensity is inductive once it is said which colors     *)
(* there are, and what the color under construction has at each place of the  *)
(* parser.                                                                    *)

Bytes == 0..255
BytesOf(n) == {v \in Seq(Bytes) : Len(v) = n}

(* The colors of either layer; its default and the intensity are the layer's. *)
RgbColor(values) == color("rgb", 0, 0, values)
Colors(default, intensity) ==
  {default} \cup {Standard(intensity, n) : n \in 0..7} \cup {XtermColor(n) : n \in Bytes}
            \cup {RgbColor(v) : v \in BytesOf(3)}

Foregrounds(intensity) == Colors(DefaultForeground(intensity), intensity)
Backgrounds == Colors(DefaultBackground, "normal")

States == UNION {[fg : Foregrounds(intensity), bg : Backgrounds, intensity : {intensity},
                  flags : SUBSET Flags] : intensity \in Intensities}

Places == {"CONTROL", "SEMICOLON", "2_OR_5", "XTERM_256", "RED", "GREEN", "BLUE"}

(* The place where the next number is read.                                   *)
NextNumber == IF parse.ps = "SEMICOLON" THEN parse.next ELSE parse.ps

Parsing ==
  /\ parse \in [on : {TRUE}, new : States, ps : Places, next : Places, target : {"fg", "bg"},
                color : {parse.color}, read : Nat]
  /\ NextNumber = "RED" => parse.color = RgbColor(parse.color.rgb)
  /\ NextNumber = "GREEN" => \E v \in BytesOf(1) : parse.color = RgbColor(v)
  /\ NextNumber = "BLUE" => \E v \in BytesOf(2) : parse.color = RgbColor(v)

TermInv == term \in States /\ (parse = Idle \/ Parsing)

-----------------------------------------------------------------------------
(* Colors.                                                                    *)

(* An xterm color is found again by its index.                                *)
LEMMA XtermIndex ==
  ASSUME NEW n \in Bytes
  PROVE  /\ XtermColor(n).color_type = "xterm256"
         /\ XtermColor(n).xterm256 = n
BY DEF XtermColor, Standard, color, Bytes

(* A color of a layer is its default, a standard color, an xterm color or an   *)
(* RGB color.                                                                 *)
LEMMA ColorCases ==
  ASSUME NEW default, NEW i, NEW c
  PROVE  c \in Colors(default, i) <=>
           \/ c = default
           \/ \E n \in 0..7 : c = Standard(i, n)
           \/ \E n \in Bytes : c = XtermColor(n)
           \/ \E v \in BytesOf(3) : c = RgbColor(v)
BY DEF Colors

(* The foreground set_color_intensity() makes.                                *)
Made(c, i) == CASE i = "normal"  -> make_color_normal(c)
                [] i = "intense" -> make_color_intense(c)
                [] i = "faint"   -> make_color_faint(c)

(* set_color_intensity() changes nothing but the foreground.                 *)
LEMMA IntensityMade ==
  ASSUME NEW s
  PROVE  set_color_intensity(s) = [s EXCEPT !.fg = Made(s.fg, s.intensity)]
BY DEF set_color_intensity, Made

(* A change of the intensity leads from the foregrounds of one intensity to   *)
(* those of another.                                                          *)
LEMMA MadeForeground ==
  ASSUME NEW i \in Intensities, NEW c \in Foregrounds(i)
  PROVE  /\ make_color_normal(c) \in Foregrounds("normal")
         /\ make_color_intense(c) \in Foregrounds("intense")
         /\ make_color_faint(c) \in Foregrounds("faint")
<1>1. CASE c = DefaultForeground(i)
  <2>1. c.color_type = "default"
    BY <1>1 DEF DefaultForeground, Standard, color
  <2>2. \A j \in Intensities : DefaultForeground(j) \in Foregrounds(j)
    BY ColorCases DEF Foregrounds
  <2> QED
    BY <2>1, <2>2 DEF make_color_normal, make_color_intense, make_color_faint, Intensities
<1>2. ASSUME NEW n \in 0..7, c = Standard(i, n)
      PROVE  /\ make_color_normal(c) \in Foregrounds("normal")
             /\ make_color_intense(c) \in Foregrounds("intense")
             /\ make_color_faint(c) \in Foregrounds("faint")
  <2>1. c.color_type = "standard" /\ c.ansi = n
    BY <1>2 DEF Standard, color
  <2>2. \A j \in Intensities : Standard(j, n) \in Foregrounds(j)
    BY <1>2, ColorCases DEF Foregrounds
  <2> QED
    BY <2>1, <2>2 DEF make_color_normal, make_color_intense, make_color_faint, Intensities
<1>3. ASSUME NEW n \in Bytes, c = XtermColor(n)
      PROVE  /\ make_color_normal(c) \in Foregrounds("normal")
             /\ make_color_intense(c) \in Foregrounds("intense")
             /\ make_color_faint(c) \in Foregrounds("faint")
  <2>1. c.color_type = "xterm256" /\ c.xterm256 = n
    BY <1>3, XtermIndex
  <2>2. n < 8 => n \in 0..7
    BY <1>3 DEF Bytes
  <2>3. n \in 8..15 => n - 8 \in 0..7
    OBVIOUS
  <2>4. n < 16 => n % 8 \in 0..7
    BY <1>3 DEF Bytes
  <2>5. make_color_normal(c) = IF n \in 8..15 THEN Standard("normal", n - 8) ELSE c
    BY <2>1 DEF make_color_normal
  <2>6. make_color_intense(c) = IF n < 8 THEN Standard("intense", n) ELSE c
    BY <2>1 DEF make_color_intense
  <2>7. make_color_faint(c) = IF n < 16 THEN Standard("faint", n % 8) ELSE c
    BY <2>1 DEF make_color_faint
  <2>8. \A j \in Intensities : c \in Foregrounds(j)
    BY <1>3, ColorCases DEF Foregrounds
  <2>9. \A j \in Intensities, m \in 0..7 : Standard(j, m) \in Foregrounds(j)
    BY ColorCases DEF Foregrounds
  <2> QED
    BY <2>2, <2>3, <2>4, <2>5, <2>6, <2>7, <2>8, <2>9 DEF Intensities
<1>4. ASSUME NEW v \in BytesOf(3), c = RgbColor(v)
      PROVE  /\ make_color_normal(c) \in Foregrounds("normal")
             /\ make_color_intense(c) \in Foregrounds("intense")
             /\ make_color_faint(c) \in Foregrounds("faint")
  <2>1. c.color_type = "rgb"
    BY <1>4 DEF RgbColor, color
  <2>2. make_color_normal(c) = c /\ make_color_intense(c) = c /\ make_color_faint(c) = c
    BY <2>1 DEF make_color_normal, make_color_intense, make_color_faint
  <2>3. \A j \in Intensities : c \in Foregrounds(j)
    BY <1>4, ColorCases DEF Foregrounds
  <2> QED
    BY <2>2, <2>3 DEF Intensities
<1>5. \/ c = DefaultForeground(i)
      \/ \E n \in 0..7 : c = Standard(i, n)
      \/ \E n \in Bytes : c = XtermColor(n)
      \/ \E v \in BytesOf(3) : c = RgbColor(v)
  <2>1. c \in Colors(DefaultForeground(i), i)
    BY DEF Foregrounds
  <2> QED
    BY <2>1, ColorCases
<1> QED
  BY <1>1, <1>2, <1>3, <1>4, <1>5

(* Every color of a layer is what its type says.                              *)
LEMMA ColorShape ==
  ASSUME NEW default, NEW i, NEW c \in Colors(default, i), default.color_type = "default"
  PROVE  ColorOf(c, i, default)
<1>1. CASE c = default
  BY <1>1 DEF ColorOf
<1>2. ASSUME NEW n \in 0..7, c = Standard(i, n)
      PROVE  ColorOf(c, i, default)
  <2>1. c.color_type = "standard" /\ c.ansi = n
    BY <1>2 DEF Standard, color
  <2> QED
    BY <1>2, <2>1 DEF ColorOf
<1>3. ASSUME NEW n \in Bytes, c = XtermColor(n)
      PROVE  ColorOf(c, i, default)
  BY <1>3, XtermIndex DEF ColorOf
<1>4. ASSUME NEW v \in BytesOf(3), c = RgbColor(v)
      PROVE  ColorOf(c, i, default)
  <2>1. c.color_type = "rgb" /\ c.xterm256 = 0 /\ c.ansi = 0 /\ Len(c.rgb) = 3
    BY <1>4 DEF RgbColor, color, BytesOf
  <2> QED
    BY <2>1 DEF ColorOf
<1>5. \/ c = default
      \/ \E n \in 0..7 : c = Standard(i, n)
      \/ \E n \in Bytes : c = XtermColor(n)
      \/ \E v \in BytesOf(3) : c = RgbColor(v)
  BY ColorCases
<1> QED
  BY <1>1, <1>2, <1>3, <1>4, <1>5

(* A state is consistent when its colors are colors of their layers.          *)
LEMMA StateConsistent ==
  ASSUME NEW s \in States
  PROVE  Consistent(s)
<1>1. /\ s.intensity \in Intensities
      /\ s.fg \in Colors(DefaultForeground(s.intensity), s.intensity)
      /\ s.bg \in Colors(DefaultBackground, "normal")
  BY DEF States, Foregrounds, Backgrounds
<1>2. DefaultForeground(s.intensity).color_type = "default"
  BY DEF DefaultForeground, Standard, color
<1>3. DefaultBackground.color_type = "default"
  BY DEF DefaultBackground, color
<1> QED
  BY <1>1, <1>2, <1>3, ColorShape DEF Consistent

-----------------------------------------------------------------------------
(* States of the terminal.                                                    *)

(* A state is made of two colors, an intensity and some flags.                *)
LEMMA StateParts ==
  ASSUME NEW s \in States
  PROVE  /\ s = [fg |-> s.fg, bg |-> s.bg, intensity |-> s.intensity, flags |-> s.flags]
         /\ s.intensity \in Intensities
         /\ s.fg \in Foregrounds(s.intensity)
         /\ s.bg \in Backgrounds
         /\ s.flags \subseteq Flags
BY DEF States

(* A state is made of its four parts.                                        *)
LEMMA StateMade ==
  ASSUME NEW i \in Intensities, NEW f \in Foregrounds(i), NEW b \in Backgrounds,
         NEW flags \in SUBSET Flags
  PROVE  [fg |-> f, bg |-> b, intensity |-> i, flags |-> flags] \in States
BY DEF States

(* The color set for an xterm index or for red, green and blue suits every    *)
(* layer and intensity.                                                       *)
LEMMA FreeColor ==
  ASSUME NEW c,
         \/ \E n \in Bytes : c = XtermColor(n)
         \/ \E v \in BytesOf(3) : c = RgbColor(v)
  PROVE  c \in Backgrounds /\ \A i \in Intensities : c \in Foregrounds(i)
<1>1. \A default, i : c \in Colors(default, i)
  BY ColorCases
<1> QED
  BY <1>1 DEF Backgrounds, Foregrounds

(* The default and the standard colors of a layer suit it.                    *)
LEMMA LayerColor ==
  /\ DefaultBackground \in Backgrounds
  /\ \A n \in 0..7 : Standard("normal", n) \in Backgrounds
  /\ \A i \in Intensities : DefaultForeground(i) \in Foregrounds(i)
  /\ \A i \in Intensities, n \in 0..7 : Standard(i, n) \in Foregrounds(i)
<1>1. \A default, i : default \in Colors(default, i)
  BY ColorCases
<1>2. \A default, i : \A n \in 0..7 : Standard(i, n) \in Colors(default, i)
  BY ColorCases
<1> QED
  BY <1>1, <1>2 DEF Backgrounds, Foregrounds

(* The intensity of a state and its foreground change together.               *)
LEMMA IntensitySet ==
  ASSUME NEW s \in States, NEW i \in Intensities
  PROVE  SetIntensity(s, i) \in States
<1>1. /\ s = [fg |-> s.fg, bg |-> s.bg, intensity |-> s.intensity, flags |-> s.flags]
      /\ s.intensity \in Intensities /\ s.fg \in Foregrounds(s.intensity)
      /\ s.bg \in Backgrounds /\ s.flags \subseteq Flags
  BY StateParts
<1>2. Made(s.fg, i) \in Foregrounds(i)
  BY <1>1, MadeForeground DEF Made, Intensities
<1>3. SetIntensity(s, i)
        = [fg |-> Made(s.fg, i), bg |-> s.bg, intensity |-> i, flags |-> s.flags]
  <2> DEFINE r == [fg |-> s.fg, bg |-> s.bg, intensity |-> i, flags |-> s.flags]
  <2>1. [s EXCEPT !.intensity = i] = r
    BY <1>1
  <2>2. SetIntensity(s, i) = [r EXCEPT !.fg = Made(r.fg, r.intensity)]
    BY <2>1, IntensityMade DEF SetIntensity
  <2> QED
    BY <2>2
<1> QED
  BY <1>1, <1>2, <1>3, StateMade

(* Every control code leads from a state to a state.                          *)
LEMMA ControlKeeps ==
  ASSUME NEW s \in States, NEW n \in Nat
  PROVE  Control(s, n) \in States
<1>1. /\ s = [fg |-> s.fg, bg |-> s.bg, intensity |-> s.intensity, flags |-> s.flags]
      /\ s.intensity \in Intensities /\ s.fg \in Foregrounds(s.intensity)
      /\ s.bg \in Backgrounds /\ s.flags \subseteq Flags
  BY StateParts
<1>2. DefaultState \in States
  <2>1. "normal" \in Intensities /\ {} \in SUBSET Flags
    BY DEF Intensities
  <2> QED
    BY <2>1, LayerColor, StateMade DEF DefaultState
<1>3. \A i \in Intensities : SetIntensity(s, i) \in States
  BY IntensitySet
<1>4. \A flags \in SUBSET Flags : [s EXCEPT !.flags = flags] \in States
  <2>1. \A flags : [s EXCEPT !.flags = flags]
            = [fg |-> s.fg, bg |-> s.bg, intensity |-> s.intensity, flags |-> flags]
    BY <1>1
  <2> QED
    BY <1>1, <2>1, StateMade
<1>5. \A f \in Foregrounds(s.intensity) : [s EXCEPT !.fg = f] \in States
  <2>1. \A f : [s EXCEPT !.fg = f]
            = [fg |-> f, bg |-> s.bg, intensity |-> s.intensity, flags |-> s.flags]
    BY <1>1
  <2> QED
    BY <1>1, <2>1, StateMade
<1>6. \A b \in Backgrounds : [s EXCEPT !.bg = b] \in States
  <2>1. \A b : [s EXCEPT !.bg = b]
            = [fg |-> s.fg, bg |-> b, intensity |-> s.intensity, flags |-> s.flags]
    BY <1>1
  <2> QED
    BY <1>1, <2>1, StateMade
<1>7. ResetForeground(s) \in States
  <2> DEFINE d == DefaultForeground("normal")
  <2>1. Made(d, s.intensity) \in Foregrounds(s.intensity)
    <3>1. "normal" \in Intensities /\ d \in Foregrounds("normal")
      BY LayerColor DEF Intensities
    <3> HIDE DEF d
    <3> QED
      BY <1>1, <3>1, MadeForeground DEF Made, Intensities
  <2>2. ResetForeground(s) = [s EXCEPT !.fg = Made(d, s.intensity)]
    <3> DEFINE r == [fg |-> d, bg |-> s.bg, intensity |-> s.intensity, flags |-> s.flags]
    <3>1. [s EXCEPT !.fg = d] = r
      BY <1>1
    <3>2. ResetForeground(s) = [r EXCEPT !.fg = Made(r.fg, r.intensity)]
      BY <3>1, IntensityMade DEF ResetForeground
    <3> HIDE DEF d
    <3>3. [s EXCEPT !.fg = Made(d, s.intensity)]
            = [fg |-> Made(d, s.intensity), bg |-> s.bg, intensity |-> s.intensity, flags |-> s.flags]
      BY <1>1
    <3> QED
      BY <3>2, <3>3
  <2> QED
    BY <2>1, <2>2, <1>5
<1>8. /\ n \in 30..37 => n - 30 \in 0..7
      /\ n \in 40..47 => n - 40 \in 0..7
  OBVIOUS
<1>9. {"normal", "intense", "faint"} \subseteq Intensities
  BY DEF Intensities
<1>10. CASE n \in Flags
  <2>1. Control(s, n) = [s EXCEPT !.flags = s.flags \cup {n}]
    BY <1>10 DEF Control, Flags
  <2> QED
    BY <1>1, <1>4, <1>10, <2>1
<1>11. CASE n - 20 \in Flags
  <2>1. Control(s, n) = [s EXCEPT !.flags = s.flags \ {n - 20}] \/ n = 22
    BY <1>11 DEF Control, Flags
  <2>2. n # 22
    BY <1>11 DEF Flags
  <2> QED
    BY <1>1, <1>4, <2>1, <2>2
<1>12. CASE n \notin Flags /\ n - 20 \notin Flags
  <2>1. CASE n = 0
    BY <1>2, <1>12, <2>1 DEF Control
  <2>2. CASE n \in {1, 2, 22}
    <3>1. Control(s, n) \in {SetIntensity(s, i) : i \in {"normal", "intense", "faint"}}
      BY <1>12, <2>2 DEF Control
    <3> QED
      BY <1>3, <1>9, <3>1
  <2>3. CASE n \in 30..37
    <3>1. Control(s, n) = [s EXCEPT !.fg = Standard(s.intensity, n - 30)]
      BY <1>12, <2>3 DEF Control
    <3> QED
      BY <1>1, <1>5, <1>8, <2>3, <3>1, LayerColor
  <2>4. CASE n = 39
    BY <1>7, <1>12, <2>4 DEF Control
  <2>5. CASE n \in 40..47
    <3>1. Control(s, n) = [s EXCEPT !.bg = Standard("normal", n - 40)]
      BY <1>12, <2>5 DEF Control
    <3> QED
      BY <1>6, <1>8, <2>5, <3>1, LayerColor
  <2>6. CASE n = 49
    <3>1. Control(s, n) = [s EXCEPT !.bg = DefaultBackground]
      BY <1>12, <2>6 DEF Control
    <3> QED
      BY <1>6, <3>1, LayerColor
  <2>7. CASE n \notin {0, 1, 2, 22, 39, 49} \cup (30..37) \cup (40..47)
    BY <1>12, <2>7 DEF Control
  <2> QED
    BY <2>1, <2>2, <2>3, <2>4, <2>5, <2>6, <2>7
<1> QED
  BY <1>10, <1>11, <1>12

-----------------------------------------------------------------------------
(* The parser.                                                                *)

(* The state that nl_term.c starts from.                                     *)
LEMMA TermStart == TermInit => TermInv
<1>1. "normal" \in Intensities /\ {} \in SUBSET Flags
  BY DEF Intensities
<1>2. DefaultState \in States
  BY <1>1, LayerColor, StateMade DEF DefaultState
<1> QED
  BY <1>2 DEF TermInit, TermInv

(* What Continue() makes of a parse in progress.                              *)
LEMMA ContinueKeeps ==
  ASSUME Parsing, term \in States,
         NEW ps \in Places, NEW next \in Places, NEW new \in States,
         NEW target \in {"fg", "bg"}, NEW c,
         LET number == IF ps = "SEMICOLON" THEN next ELSE ps IN
           /\ number = "RED" => c = RgbColor(c.rgb)
           /\ number = "GREEN" => \E v \in BytesOf(1) : c = RgbColor(v)
           /\ number = "BLUE" => \E v \in BytesOf(2) : c = RgbColor(v),
         Continue(ps, next, new, target, c)
  PROVE  TermInv'
<1>1. parse \in [on : {TRUE}, new : States, ps : Places, next : Places, target : {"fg", "bg"},
                 color : {parse.color}, read : Nat]
  BY DEF Parsing
<1>2. parse' = [parse EXCEPT !.ps = ps, !.next = next, !.new = new, !.target = target,
                             !.color = c, !.read = @ + 1]
  BY DEF Continue
<1>3. parse' \in [on : {TRUE}, new : States, ps : Places, next : Places, target : {"fg", "bg"},
                  color : {c}, read : Nat]
  <2>1. parse.read + 1 \in Nat
    BY <1>1
  <2> QED
    BY <1>1, <1>2, <2>1, ZenonT(30)
<1>4. parse'.ps = ps /\ parse'.next = next /\ parse'.color = c
  BY <1>1, <1>2
<1>5. Parsing'
  BY <1>3, <1>4 DEF Parsing, NextNumber
<1> QED
  BY <1>5 DEF Continue, TermInv

(* A finished color becomes the foreground or the background.                 *)
LEMMA TargetSet ==
  ASSUME NEW s \in States, NEW target \in {"fg", "bg"}, NEW c \in Backgrounds,
         \A i \in Intensities : c \in Foregrounds(i)
  PROVE  set_target_color(s, target, c) \in States
<1>1. /\ s = [fg |-> s.fg, bg |-> s.bg, intensity |-> s.intensity, flags |-> s.flags]
      /\ s.intensity \in Intensities /\ s.fg \in Foregrounds(s.intensity)
      /\ s.bg \in Backgrounds /\ s.flags \subseteq Flags
  BY StateParts
<1>2. CASE target = "fg"
  <2>1. set_target_color(s, target, c) = [s EXCEPT !.fg = c]
    BY <1>2 DEF set_target_color
  <2>2. [s EXCEPT !.fg = c]
          = [fg |-> c, bg |-> s.bg, intensity |-> s.intensity, flags |-> s.flags]
    BY <1>1
  <2> QED
    BY <1>1, <2>1, <2>2, StateMade
<1>3. CASE target = "bg"
  <2>1. set_target_color(s, target, c) = [s EXCEPT !.bg = c]
    BY <1>3 DEF set_target_color
  <2>2. [s EXCEPT !.bg = c]
          = [fg |-> s.fg, bg |-> c, intensity |-> s.intensity, flags |-> s.flags]
    BY <1>1
  <2> QED
    BY <1>1, <2>1, <2>2, StateMade
<1> QED
  BY <1>2, <1>3

(* A parameter narrowed to a byte is a byte.                                 *)
LEMMA ByteOf == \A n \in Nat : n % 256 \in Bytes
BY DEF Bytes

(* A color given as red, green and blue can be given others.                 *)
LEMMA RgbReplaced ==
  \A v, w : RgbColor(v).rgb = v /\ [RgbColor(v) EXCEPT !.rgb = w] = RgbColor(w)
BY DEF RgbColor, color

(* A parameter more.                                                         *)
LEMMA Appended ==
  ASSUME NEW k \in Nat, NEW v \in BytesOf(k), NEW b \in Bytes
  PROVE  Append(v, b) \in BytesOf(k + 1)
<1>1. v \in Seq(Bytes) /\ Len(v) = k
  BY DEF BytesOf
<1>2. Append(v, b) \in Seq(Bytes) /\ Len(Append(v, b)) = k + 1
  BY <1>1
<1> QED
  BY <1>2 DEF BytesOf

(* Every token keeps the invariant.                                           *)
LEMMA TermStep ==
  ASSUME TermInv, [TermNext]_termVars
  PROVE  TermInv'
<1> USE DEF Places
<1>1. term \in States /\ (parse = Idle \/ Parsing)
  BY DEF TermInv
<1>2. parse.on => Parsing
  BY <1>1 DEF Idle
<1>3. Parsing => /\ parse.new \in States /\ {parse.ps, parse.next} \subseteq Places
                 /\ parse.target \in {"fg", "bg"}
  BY DEF Parsing
<1>4. CASE ParseBegin
  <2>1. parse' = [on |-> TRUE, new |-> term, ps |-> "CONTROL", next |-> "SEMICOLON",
                  target |-> "fg", color |-> DefaultForeground("normal"), read |-> 0]
    BY <1>4 DEF ParseBegin
  <2>2. parse'.ps = "CONTROL"
    BY <2>1
  <2>3. Parsing'
    BY <1>1, <2>1, <2>2 DEF Parsing, NextNumber
  <2> QED
    BY <1>1, <1>4, <2>3 DEF ParseBegin, TermInv
<1>5. CASE ParseFails
  BY <1>1, <1>5 DEF ParseFails, TermInv
<1>6. CASE ParseEnd
  BY <1>2, <1>3, <1>6 DEF ParseEnd, TermInv
<1>7. CASE ParseSemicolon
  <2>1. Parsing /\ parse.ps = "SEMICOLON"
    BY <1>2, <1>7 DEF ParseSemicolon, Reading
  <2>2. /\ parse.next = "RED" => parse.color = RgbColor(parse.color.rgb)
        /\ parse.next = "GREEN" => \E v \in BytesOf(1) : parse.color = RgbColor(v)
        /\ parse.next = "BLUE" => \E v \in BytesOf(2) : parse.color = RgbColor(v)
    BY <2>1 DEF Parsing, NextNumber
  <2>3. Continue(parse.next, "CONTROL", parse.new, parse.target, parse.color)
    BY <1>7 DEF ParseSemicolon
  <2> QED
    BY <1>1, <1>3, <2>1, <2>2, <2>3, ContinueKeeps
<1>8. ASSUME NEW n \in Codes, ParseControl(n) \/ ParseTarget(n) \/ Parse2Or5(n)
      PROVE  TermInv'
  <2>1. Parsing /\ parse.new \in States /\ parse.target \in {"fg", "bg"}
    BY <1>2, <1>3, <1>8 DEF ParseControl, ParseTarget, Parse2Or5, Reading
  <2>2. CASE ParseControl(n)
    <3>1. Control(parse.new, n) \in States
      BY <1>8, <2>1, ControlKeeps, NumberAssumption
    <3>2. Continue("SEMICOLON", "CONTROL", Control(parse.new, n), parse.target, parse.color)
      BY <2>2 DEF ParseControl
    <3> QED
      BY <1>1, <2>1, <3>1, <3>2, ContinueKeeps
  <2>3. CASE ParseTarget(n)
    <3>1. Continue("SEMICOLON", "2_OR_5", parse.new, IF n = 38 THEN "fg" ELSE "bg", parse.color)
      BY <2>3 DEF ParseTarget
    <3> QED
      BY <1>1, <2>1, <3>1, ContinueKeeps
  <2>4. CASE Parse2Or5(n)
    <3>1. CASE n = 2
      <4> DEFINE c == RgbColor(parse.color.rgb)
      <4>1. Continue("SEMICOLON", "RED", parse.new, parse.target, c)
        BY <2>4, <3>1 DEF Parse2Or5, RgbColor
      <4>2. c = RgbColor(c.rgb)
        BY DEF RgbColor, color
      <4> HIDE DEF c
      <4> QED
        BY <1>1, <2>1, <4>1, <4>2, ContinueKeeps
    <3>2. CASE n = 5
      <4> DEFINE c == [parse.color EXCEPT !.ansi = 0, !.color_type = "xterm256"]
      <4>1. Continue("SEMICOLON", "XTERM_256", parse.new, parse.target, c)
        BY <2>4, <3>2 DEF Parse2Or5
      <4> HIDE DEF c
      <4> QED
        BY <1>1, <2>1, <4>1, ContinueKeeps
    <3>3. CASE n \notin {2, 5}
      <4>1. Continue("SEMICOLON", "CONTROL", parse.new, parse.target, parse.color)
        BY <2>4, <3>3 DEF Parse2Or5
      <4> QED
        BY <1>1, <2>1, <4>1, ContinueKeeps
    <3> QED
      BY <3>1, <3>2, <3>3
  <2> QED
    BY <1>8, <2>2, <2>3, <2>4
<1>9. ASSUME NEW n \in Indexes, ParseXterm(n)
      PROVE  TermInv'
  <2> DEFINE c == XtermColor(n % 256)
  <2>1. Parsing /\ parse.new \in States /\ parse.target \in {"fg", "bg"}
    BY <1>2, <1>3, <1>9 DEF ParseXterm, Reading
  <2>2. n % 256 \in Bytes
    BY <1>9, ByteOf, NumberAssumption
  <2>3. c \in Backgrounds /\ \A i \in Intensities : c \in Foregrounds(i)
    BY <2>2, FreeColor
  <2>4. Continue("SEMICOLON", "CONTROL", set_target_color(parse.new, parse.target, c),
                 parse.target, c)
    BY <1>9 DEF ParseXterm
  <2> HIDE DEF c
  <2>5. set_target_color(parse.new, parse.target, c) \in States
    BY <2>1, <2>3, TargetSet
  <2> QED
    BY <1>1, <2>1, <2>4, <2>5, ContinueKeeps
<1>10. ASSUME NEW n \in Components, ParseRed(n) \/ ParseGreen(n) \/ ParseBlue(n)
       PROVE  TermInv'
  <2>1. Parsing /\ parse.new \in States /\ parse.target \in {"fg", "bg"}
    BY <1>2, <1>3, <1>10 DEF ParseRed, ParseGreen, ParseBlue, Reading
  <2>2. n % 256 \in Bytes
    BY <1>10, ByteOf, NumberAssumption
  <2>3. CASE ParseRed(n)
    <3>1. parse.color = RgbColor(parse.color.rgb)
      BY <2>1, <2>3 DEF ParseRed, Reading, Parsing, NextNumber
    <3>2. [parse.color EXCEPT !.rgb = <<n % 256>>] = RgbColor(<<n % 256>>)
      BY <3>1 DEF RgbColor, color
    <3>3. <<n % 256>> \in BytesOf(1)
      BY <2>2 DEF BytesOf
    <3>4. Continue("SEMICOLON", "GREEN", parse.new, parse.target, RgbColor(<<n % 256>>))
      BY <2>3, <3>2 DEF ParseRed
    <3> QED
      BY <1>1, <2>1, <3>3, <3>4, ContinueKeeps
  <2>4. CASE ParseGreen(n)
    <3>1. PICK v \in BytesOf(1) : parse.color = RgbColor(v)
      BY <2>1, <2>4 DEF ParseGreen, Reading, Parsing, NextNumber
    <3> DEFINE w == Append(v, n % 256)
    <3>2. [parse.color EXCEPT !.rgb = Append(@, n % 256)] = RgbColor(w)
      <4> HIDE DEF w
      <4>1. parse.color.rgb = v /\ [RgbColor(v) EXCEPT !.rgb = w] = RgbColor(w)
        BY <3>1, RgbReplaced
      <4> QED
        BY <3>1, <4>1 DEF w
    <3>3. w \in BytesOf(2)
      <4>1. w \in BytesOf(1 + 1)
        BY <2>2, <3>1, Appended
      <4> QED
        BY <4>1
    <3>4. Continue("SEMICOLON", "BLUE", parse.new, parse.target, RgbColor(w))
      BY <2>4, <3>2 DEF ParseGreen
    <3> HIDE DEF w
    <3> QED
      BY <1>1, <2>1, <3>3, <3>4, ContinueKeeps
  <2>5. CASE ParseBlue(n)
    <3>1. PICK v \in BytesOf(2) : parse.color = RgbColor(v)
      BY <2>1, <2>5 DEF ParseBlue, Reading, Parsing, NextNumber
    <3> DEFINE w == Append(v, n % 256)
               c == RgbColor(w)
    <3>2. [parse.color EXCEPT !.rgb = Append(@, n % 256)] = c
      <4> HIDE DEF w
      <4>1. parse.color.rgb = v /\ [RgbColor(v) EXCEPT !.rgb = w] = RgbColor(w)
        BY <3>1, RgbReplaced
      <4> QED
        BY <3>1, <4>1 DEF w
    <3>3. w \in BytesOf(3)
      <4>1. w \in BytesOf(2 + 1)
        BY <2>2, <3>1, Appended
      <4> QED
        BY <4>1
    <3>4. c \in Backgrounds /\ \A i \in Intensities : c \in Foregrounds(i)
      BY <3>3, FreeColor
    <3>5. Continue("SEMICOLON", "CONTROL", set_target_color(parse.new, parse.target, c),
                   parse.target, c)
      BY <2>5, <3>2 DEF ParseBlue
    <3> HIDE DEF c
    <3>6. set_target_color(parse.new, parse.target, c) \in States
      BY <2>1, <3>4, TargetSet
    <3> QED
      BY <1>1, <2>1, <3>5, <3>6, ContinueKeeps
  <2> QED
    BY <1>10, <2>3, <2>4, <2>5
<1>11. CASE UNCHANGED termVars
  <2>1. term' = term /\ parse' = parse
    BY <1>11 DEF termVars
  <2>2. Parsing => Parsing'
    BY <2>1 DEF Parsing, NextNumber
  <2> QED
    BY <1>1, <2>1, <2>2 DEF TermInv
<1> QED
  BY <1>4, <1>5, <1>6, <1>7, <1>8, <1>9, <1>10, <1>11 DEF TermNext

(* A foreground follows the intensity in force and a background does not,     *)
(* and the type of a color tells where its other fields come from (term.h:26, *)
(* term.c:238), for any sequences of any codes.                               *)
THEOREM ColorCorrectness == TermSpec => []ColorFollowsIntensity
<1>1. TermInv => ColorFollowsIntensity
  <2>1. TermInv /\ parse.on => Parsing
    BY DEF TermInv, Idle
  <2>2. Parsing => parse.new \in States
    BY DEF Parsing
  <2> QED
    BY <2>1, <2>2, StateConsistent DEF TermInv, ColorFollowsIntensity
<1> QED
  BY <1>1, TermStart, TermStep, PTL DEF TermSpec

-----------------------------------------------------------------------------
(* Timespec.  The arithmetic is exact for every pair of timespecs in any      *)
(* form, whatever the units, and so is what a caller computes with it.  The   *)
(* lemmas follow the code: into the positive form, through the carry, back    *)
(* out of it.  Multiplications by the length of a second are kept out of the  *)
(* other steps by ProductFacts.                                               *)

(* What the proofs need of products with the length of a second.              *)
LEMMA ProductFacts ==
  /\ NsPerSecond \in Nat \ {0}
  /\ \A x, y \in Int : x * NsPerSecond \in Int
                       /\ (x + y) * NsPerSecond = x * NsPerSecond + y * NsPerSecond
  /\ \A x, y \in Int : x <= y => x * NsPerSecond <= y * NsPerSecond
  /\ \A x \in Int : (-x) * NsPerSecond = -(x * NsPerSecond)
  /\ 0 * NsPerSecond = 0 /\ 1 * NsPerSecond = NsPerSecond
<1>1. NsPerSecond \in Nat \ {0}
  BY UnitAssumption DEF NsPerSecond
<1> QED
  BY <1>1

(* One second more or less.                                                   *)
LEMMA SecondFacts ==
  ASSUME NEW x \in Int
  PROVE  /\ (x + 1) * NsPerSecond = x * NsPerSecond + NsPerSecond
         /\ (x - 1) * NsPerSecond = x * NsPerSecond - NsPerSecond
<1>1. NsPerSecond \in Nat \ {0}
  BY ProductFacts
<1> QED
  BY <1>1

(* nl_timespec_to_pos() keeps the time, of any timespec.                      *)
LEMMA ToPosExact ==
  ASSUME NEW t \in Timespecs
  PROVE  nl_timespec_to_pos(t) \in Timespecs /\ PosValue(nl_timespec_to_pos(t)) = Value(t)
<1> DEFINE p == t.tv_sec * NsPerSecond
<1>1. NsPerSecond \in Nat \ {0} /\ p \in Int /\ (t.tv_sec - 1) * NsPerSecond = p - NsPerSecond
  BY ProductFacts, SecondFacts DEF Timespecs
<1>2. t.tv_sec \in Int /\ t.tv_nsec \in Int
  BY DEF Timespecs
<1> HIDE DEF p
<1>3. CASE t.tv_sec < 0
  <2>1. nl_timespec_to_pos(t) = timespec(t.tv_sec - 1, NsPerSecond - t.tv_nsec)
    BY <1>3 DEF nl_timespec_to_pos
  <2>2. Value(t) = p - t.tv_nsec
    BY <1>3 DEF Value, p
  <2> QED
    BY <1>1, <1>2, <2>1, <2>2 DEF PosValue, timespec, Timespecs
<1>4. CASE t.tv_sec >= 0 /\ t.tv_nsec < 0
  <2>1. nl_timespec_to_pos(t) = timespec(t.tv_sec - 1, NsPerSecond + t.tv_nsec)
    BY <1>2, <1>4 DEF nl_timespec_to_pos
  <2>2. Value(t) = p + t.tv_nsec
    BY <1>2, <1>4 DEF Value, p
  <2> QED
    BY <1>1, <1>2, <2>1, <2>2 DEF PosValue, timespec, Timespecs
<1>5. CASE t.tv_sec >= 0 /\ t.tv_nsec >= 0
  BY <1>2, <1>5 DEF nl_timespec_to_pos, Value, PosValue
<1> QED
  BY <1>2, <1>3, <1>4, <1>5

(* The carry loops keep the time and end with less than a second of           *)
(* nanoseconds, whatever they start from.                                     *)
LEMMA CarriedExact ==
  ASSUME NEW t \in Timespecs
  PROVE  /\ Carried(t) \in Timespecs /\ Carried(t).tv_nsec \in 0..(NsPerSecond - 1)
         /\ PosValue(Carried(t)) = PosValue(t)
<1> DEFINE q == t.tv_nsec \div NsPerSecond
           r == t.tv_nsec % NsPerSecond
<1>1. NsPerSecond \in Nat \ {0} /\ t.tv_sec \in Int /\ t.tv_nsec \in Int
  BY ProductFacts DEF Timespecs
<1>2. q \in Int /\ r \in 0..(NsPerSecond - 1)
  BY <1>1
<1>3. t.tv_nsec = q * NsPerSecond + r
  BY <1>1
<1>4. (t.tv_sec + q) * NsPerSecond = t.tv_sec * NsPerSecond + q * NsPerSecond
  BY <1>1, <1>2, ProductFacts
<1>5. t.tv_sec * NsPerSecond \in Int /\ q * NsPerSecond \in Int
  BY <1>1, <1>2, ProductFacts
<1>6. Carried(t) = timespec(t.tv_sec + q, r)
  BY DEF Carried
<1> HIDE DEF q, r
<1> QED
  BY <1>1, <1>2, <1>3, <1>4, <1>5, <1>6 DEF PosValue, timespec, Timespecs

(* nl_timespec_from_pos() keeps the time and returns its normal form.         *)
LEMMA FromPosExact ==
  ASSUME NEW t \in Timespecs, t.tv_nsec \in 0..(NsPerSecond - 1)
  PROVE  /\ nl_timespec_from_pos(t) \in Timespecs /\ Normal(nl_timespec_from_pos(t))
         /\ Value(nl_timespec_from_pos(t)) = PosValue(t)
<1> DEFINE p == t.tv_sec * NsPerSecond
<1>1. NsPerSecond \in Nat \ {0} /\ p \in Int /\ (t.tv_sec + 1) * NsPerSecond = p + NsPerSecond
  BY ProductFacts, SecondFacts DEF Timespecs
<1>2. t.tv_sec \in Int /\ t.tv_nsec \in Int
  BY DEF Timespecs
<1> HIDE DEF p
<1>3. CASE t.tv_nsec # 0 /\ t.tv_sec = -1
  <2>1. nl_timespec_from_pos(t) = timespec(0, t.tv_nsec - NsPerSecond)
    BY <1>3 DEF nl_timespec_from_pos
  <2>2. PosValue(t) = t.tv_nsec - NsPerSecond
    BY <1>1, <1>2, <1>3 DEF PosValue
  <2>3. Value(timespec(0, t.tv_nsec - NsPerSecond)) = t.tv_nsec - NsPerSecond
    BY <1>1, <1>2, ProductFacts DEF Value, timespec
  <2> QED
    BY <1>1, <1>2, <1>3, <2>1, <2>2, <2>3 DEF timespec, Timespecs, Normal
<1>4. CASE t.tv_nsec # 0 /\ t.tv_sec < -1
  <2>1. nl_timespec_from_pos(t) = timespec(t.tv_sec + 1, NsPerSecond - t.tv_nsec)
    BY <1>2, <1>4 DEF nl_timespec_from_pos
  <2>2. PosValue(t) = p + t.tv_nsec
    BY DEF PosValue, p
  <2>3. Value(timespec(t.tv_sec + 1, NsPerSecond - t.tv_nsec))
          = (p + NsPerSecond) - (NsPerSecond - t.tv_nsec)
    BY <1>1, <1>2, <1>4 DEF Value, timespec
  <2> QED
    BY <1>1, <1>2, <1>4, <2>1, <2>2, <2>3 DEF timespec, Timespecs, Normal
<1>5. CASE t.tv_nsec = 0 \/ t.tv_sec >= 0
  <2>1. nl_timespec_from_pos(t) = t
    BY <1>2, <1>5 DEF nl_timespec_from_pos
  <2>2. Value(t) = PosValue(t)
    BY <1>1, <1>2, <1>5 DEF Value, PosValue, p
  <2> QED
    BY <1>1, <1>2, <2>1, <2>2 DEF Normal
<1> QED
  BY <1>2, <1>3, <1>4, <1>5

(* nl_normalize_timespec() returns the normal form of the same time.          *)
THEOREM NormalizeExact ==
  ASSUME NEW t \in Timespecs
  PROVE  /\ nl_normalize_timespec(t) \in Timespecs /\ Normal(nl_normalize_timespec(t))
         /\ Value(nl_normalize_timespec(t)) = Value(t)
<1> DEFINE c == Carried(nl_timespec_to_pos(t))
<1>1. c \in Timespecs /\ c.tv_nsec \in 0..(NsPerSecond - 1) /\ PosValue(c) = Value(t)
  BY ToPosExact, CarriedExact
<1>2. nl_normalize_timespec(t) = nl_timespec_from_pos(c)
  BY DEF nl_normalize_timespec
<1> HIDE DEF c
<1> QED
  BY <1>1, <1>2, FromPosExact

(* nl_negate_timespec() negates any timespec and keeps normal ones normal.    *)
THEOREM NegateExact ==
  ASSUME NEW t \in Timespecs
  PROVE  /\ nl_negate_timespec(t) \in Timespecs
         /\ Value(nl_negate_timespec(t)) = -Value(t)
         /\ Normal(t) => Normal(nl_negate_timespec(t))
<1> DEFINE p == t.tv_sec * NsPerSecond
<1>1. NsPerSecond \in Nat \ {0} /\ p \in Int /\ (-t.tv_sec) * NsPerSecond = -p
  BY ProductFacts DEF Timespecs
<1>2. t.tv_sec \in Int /\ t.tv_nsec \in Int
  BY DEF Timespecs
<1>3. t.tv_sec = 0 => p = 0
  BY <1>1
<1> HIDE DEF p
<1>4. CASE t.tv_sec = 0
  <2>1. nl_negate_timespec(t) = timespec(0, -t.tv_nsec)
    BY <1>4 DEF nl_negate_timespec
  <2>2. Value(t) = t.tv_nsec
    BY <1>1, <1>2, <1>3, <1>4 DEF Value, p
  <2>3. Value(timespec(0, -t.tv_nsec)) = -t.tv_nsec
    BY <1>2, ProductFacts DEF Value, timespec
  <2> QED
    BY <1>1, <1>2, <2>1, <2>2, <2>3 DEF timespec, Timespecs, Normal
<1>5. CASE t.tv_sec # 0
  <2>1. nl_negate_timespec(t) = timespec(-t.tv_sec, t.tv_nsec)
    BY <1>5 DEF nl_negate_timespec
  <2>2. Value(t) = IF t.tv_sec < 0 THEN p - t.tv_nsec ELSE p + t.tv_nsec
    BY DEF Value, p
  <2>3. Value(timespec(-t.tv_sec, t.tv_nsec))
          = IF -t.tv_sec < 0 THEN -p - t.tv_nsec ELSE -p + t.tv_nsec
    BY <1>1, <1>2 DEF Value, timespec
  <2> QED
    BY <1>1, <1>2, <1>5, <2>1, <2>2, <2>3 DEF timespec, Timespecs, Normal
<1> QED
  BY <1>4, <1>5

(* nl_add_timespec() returns the normal form of the exact sum, for operands   *)
(* of any form and sign.                                                      *)
THEOREM AddExact ==
  ASSUME NEW a \in Timespecs, NEW b \in Timespecs
  PROVE  /\ nl_add_timespec(a, b) \in Timespecs /\ Normal(nl_add_timespec(a, b))
         /\ Value(nl_add_timespec(a, b)) = Value(a) + Value(b)
<1> DEFINE ap == nl_timespec_to_pos(a)
           bp == nl_timespec_to_pos(b)
           sum == timespec(ap.tv_sec + bp.tv_sec, ap.tv_nsec + bp.tv_nsec)
           c == Carried(sum)
<1>1. /\ ap \in Timespecs /\ PosValue(ap) = Value(a)
      /\ bp \in Timespecs /\ PosValue(bp) = Value(b)
  BY ToPosExact
<1>2. nl_add_timespec(a, b) = nl_timespec_from_pos(c)
  BY DEF nl_add_timespec
<1> HIDE DEF ap, bp
<1>3. sum \in Timespecs /\ PosValue(sum) = PosValue(ap) + PosValue(bp)
  <2>1. /\ ap.tv_sec \in Int /\ ap.tv_nsec \in Int
        /\ bp.tv_sec \in Int /\ bp.tv_nsec \in Int
    BY <1>1 DEF Timespecs
  <2>2. /\ (ap.tv_sec + bp.tv_sec) * NsPerSecond = ap.tv_sec * NsPerSecond + bp.tv_sec * NsPerSecond
        /\ ap.tv_sec * NsPerSecond \in Int /\ bp.tv_sec * NsPerSecond \in Int
    BY <2>1, ProductFacts
  <2> QED
    BY <2>1, <2>2 DEF PosValue, timespec, Timespecs
<1> HIDE DEF sum
<1>4. c \in Timespecs /\ c.tv_nsec \in 0..(NsPerSecond - 1) /\ PosValue(c) = PosValue(sum)
  BY <1>3, CarriedExact
<1> HIDE DEF c
<1> QED
  BY <1>1, <1>2, <1>3, <1>4, FromPosExact

(* nl_sub_timespec() returns the normal form of the exact difference.         *)
THEOREM SubExact ==
  ASSUME NEW a \in Timespecs, NEW b \in Timespecs
  PROVE  /\ nl_sub_timespec(a, b) \in Timespecs /\ Normal(nl_sub_timespec(a, b))
         /\ Value(nl_sub_timespec(a, b)) = Value(a) - Value(b)
<1>1. nl_negate_timespec(b) \in Timespecs /\ Value(nl_negate_timespec(b)) = -Value(b)
  BY NegateExact
<1>2. Value(a) \in Int /\ Value(b) \in Int
  BY ProductFacts DEF Value, Timespecs
<1> QED
  BY <1>1, <1>2, AddExact DEF nl_sub_timespec

(* Where the value of a normal timespec lies, by its seconds.                 *)
LEMMA ValueBounds ==
  ASSUME NEW t \in Timespecs, Normal(t)
  PROVE  /\ Value(t) \in Int
         /\ t.tv_sec < 0 => /\ Value(t) <= t.tv_sec * NsPerSecond
                            /\ Value(t) > (t.tv_sec - 1) * NsPerSecond
         /\ t.tv_sec = 0 => Value(t) > -NsPerSecond /\ Value(t) < NsPerSecond
         /\ t.tv_sec > 0 => /\ Value(t) >= t.tv_sec * NsPerSecond
                            /\ Value(t) < (t.tv_sec + 1) * NsPerSecond
<1> DEFINE p == t.tv_sec * NsPerSecond
<1>1. /\ NsPerSecond \in Nat \ {0} /\ p \in Int
      /\ (t.tv_sec + 1) * NsPerSecond = p + NsPerSecond
      /\ (t.tv_sec - 1) * NsPerSecond = p - NsPerSecond
  BY ProductFacts, SecondFacts DEF Timespecs
<1>2. t.tv_sec \in Int /\ t.tv_nsec \in Int
  BY DEF Timespecs
<1>3. t.tv_sec = 0 => p = 0
  BY <1>1
<1>4. Value(t) = IF t.tv_sec < 0 THEN p - t.tv_nsec ELSE p + t.tv_nsec
  BY DEF Value, p
<1>5. /\ t.tv_sec # 0 => t.tv_nsec >= 0 /\ t.tv_nsec < NsPerSecond
      /\ t.tv_nsec > -NsPerSecond /\ t.tv_nsec < NsPerSecond
  <2>1. NsPerSecond \in Nat \ {0}
    BY ProductFacts
  <2> QED
    BY <2>1, <1>2 DEF Normal
<1> HIDE DEF p
<1>6. /\ t.tv_sec < 0 => Value(t) <= p /\ Value(t) > p - NsPerSecond
      /\ t.tv_sec = 0 => Value(t) > -NsPerSecond /\ Value(t) < NsPerSecond
      /\ t.tv_sec > 0 => Value(t) >= p /\ Value(t) < p + NsPerSecond
      /\ Value(t) \in Int
  BY <1>1, <1>2, <1>3, <1>4, <1>5
<1> QED
  BY <1>1, <1>6 DEF p

(* Fewer seconds is an earlier time, for normal timespecs.                    *)
LEMMA SecondsOrder ==
  ASSUME NEW a \in Timespecs, NEW b \in Timespecs, Normal(a), Normal(b), a.tv_sec < b.tv_sec
  PROVE  Value(a) < Value(b)
<1>1. a.tv_sec \in Int /\ b.tv_sec \in Int /\ NsPerSecond \in Nat \ {0}
  BY ProductFacts DEF Timespecs
<1>2. Value(a) \in Int /\ Value(b) \in Int
  BY ValueBounds
<1>3. CASE a.tv_sec < 0
  <2>1. Value(a) <= a.tv_sec * NsPerSecond /\ a.tv_sec * NsPerSecond <= (-1) * NsPerSecond
    BY <1>1, <1>3, ValueBounds, ProductFacts
  <2>2. (-1) * NsPerSecond = -NsPerSecond /\ a.tv_sec * NsPerSecond \in Int
    BY <1>1, ProductFacts
  <2>3. CASE b.tv_sec < 0
    <3>1. a.tv_sec * NsPerSecond <= (b.tv_sec - 1) * NsPerSecond
      BY <1>1, ProductFacts
    <3>2. Value(b) > (b.tv_sec - 1) * NsPerSecond /\ (b.tv_sec - 1) * NsPerSecond \in Int
      BY <1>1, <2>3, ValueBounds, ProductFacts
    <3> QED
      BY <1>2, <2>1, <2>2, <3>1, <3>2
  <2>4. CASE b.tv_sec = 0
    BY <1>1, <1>2, <2>1, <2>2, <2>4, ValueBounds
  <2>5. CASE b.tv_sec > 0
    <3>1. Value(b) >= b.tv_sec * NsPerSecond /\ 0 * NsPerSecond <= b.tv_sec * NsPerSecond
      BY <1>1, <2>5, ValueBounds, ProductFacts
    <3>2. 0 * NsPerSecond = 0 /\ b.tv_sec * NsPerSecond \in Int
      BY <1>1, ProductFacts
    <3> QED
      BY <1>1, <1>2, <2>1, <2>2, <3>1, <3>2
  <2> QED
    BY <1>1, <2>3, <2>4, <2>5
<1>4. CASE a.tv_sec >= 0
  <2>1. Value(a) < (a.tv_sec + 1) * NsPerSecond
    <3>1. CASE a.tv_sec = 0
      BY <1>1, <1>2, <3>1, ValueBounds, ProductFacts
    <3>2. CASE a.tv_sec > 0
      BY <3>2, ValueBounds
    <3> QED
      BY <1>1, <1>4, <3>1, <3>2
  <2>2. (a.tv_sec + 1) * NsPerSecond <= b.tv_sec * NsPerSecond
    BY <1>1, ProductFacts
  <2>3. b.tv_sec * NsPerSecond <= Value(b)
    BY <1>1, <1>4, ValueBounds
  <2>4. (a.tv_sec + 1) * NsPerSecond \in Int /\ b.tv_sec * NsPerSecond \in Int
    BY <1>1, ProductFacts
  <2> QED
    BY <1>2, <2>1, <2>2, <2>3, <2>4
<1> QED
  BY <1>1, <1>3, <1>4

(* nl_compare_timespec() orders normal timespecs as the times they stand for. *)
THEOREM CompareExact ==
  ASSUME NEW a \in Timespecs, NEW b \in Timespecs, Normal(a), Normal(b)
  PROVE  nl_compare_timespec(a, b) = Sign(Value(a) - Value(b))
<1>1. /\ a.tv_sec \in Int /\ b.tv_sec \in Int /\ a.tv_nsec \in Int /\ b.tv_nsec \in Int
      /\ a.tv_sec * NsPerSecond \in Int
  BY ProductFacts DEF Timespecs
<1>2. Value(a) \in Int /\ Value(b) \in Int
  BY ValueBounds
<1>3. CASE a.tv_sec < b.tv_sec
  BY <1>2, <1>3, SecondsOrder DEF nl_compare_timespec, Sign
<1>4. CASE a.tv_sec > b.tv_sec
  <2>1. Value(b) < Value(a)
    BY <1>1, <1>4, SecondsOrder
  <2> QED
    BY <1>1, <1>2, <1>4, <2>1 DEF nl_compare_timespec, Sign
<1>5. CASE a.tv_sec = b.tv_sec
  <2>1. a = b <=> a.tv_nsec = b.tv_nsec
    BY <1>5 DEF Timespecs
  <2>2. Value(a) - Value(b) = IF a.tv_sec < 0 THEN b.tv_nsec - a.tv_nsec ELSE a.tv_nsec - b.tv_nsec
    BY <1>1, <1>5 DEF Value
  <2> QED
    BY <1>1, <1>5, <2>1, <2>2 DEF nl_compare_timespec, Sign
<1> QED
  BY <1>1, <1>3, <1>4, <1>5

(* From zero on, NL_TIMESPEC_GTE is the order of the times.                   *)
LEMMA GteExact ==
  ASSUME NEW a \in Timespecs, NEW b \in Timespecs, Normal(a), Normal(b), Value(a) >= 0, Value(b) >= 0
  PROVE  NL_TIMESPEC_GTE(a, b) <=> Value(a) >= Value(b)
<1>1. /\ a.tv_sec \in Int /\ b.tv_sec \in Int /\ a.tv_nsec \in Int /\ b.tv_nsec \in Int
      /\ a.tv_sec * NsPerSecond \in Int
  BY ProductFacts DEF Timespecs
<1>2. Value(a) \in Int /\ Value(b) \in Int
  BY ValueBounds
<1>3. CASE a.tv_sec < b.tv_sec
  BY <1>1, <1>2, <1>3, SecondsOrder DEF NL_TIMESPEC_GTE
<1>4. CASE a.tv_sec > b.tv_sec
  BY <1>1, <1>2, <1>4, SecondsOrder DEF NL_TIMESPEC_GTE
<1>5. CASE a.tv_sec = b.tv_sec
  <2>1. a.tv_sec >= 0
    <3>1. SUFFICES ASSUME a.tv_sec < 0 PROVE FALSE
      BY <1>1
    <3>2. Value(a) <= a.tv_sec * NsPerSecond /\ a.tv_sec * NsPerSecond <= (-1) * NsPerSecond
      BY <1>1, <3>1, ValueBounds, ProductFacts
    <3> QED
      BY <1>1, <1>2, <3>2, ProductFacts
  <2>2. Value(a) - Value(b) = a.tv_nsec - b.tv_nsec
    BY <1>1, <1>5, <2>1 DEF Value
  <2> QED
    BY <1>1, <1>2, <1>5, <2>2 DEF NL_TIMESPEC_GTE
<1> QED
  BY <1>1, <1>3, <1>4, <1>5

(* nanosleep() accepts the request of nl_usleep(), which is for all the time  *)
(* that was asked for.                                                        *)
LEMMA SleepRequestExact ==
  ASSUME NEW usecs \in Nat
  PROVE  /\ SleepRequest(usecs) \in Timespecs
         /\ SleepRequest(usecs).tv_nsec \in 0..(NsPerSecond - 1)
         /\ PosValue(SleepRequest(usecs)) = usecs * NsPerMicro
<1> DEFINE q == usecs \div MicrosPerSecond
           r == usecs % MicrosPerSecond
<1>1. MicrosPerSecond \in Nat \ {0} /\ NsPerMicro \in Nat \ {0} /\ NsPerSecond \in Nat \ {0}
  BY UnitAssumption, ProductFacts
<1>2. q \in Nat /\ r \in 0..(MicrosPerSecond - 1) /\ usecs = MicrosPerSecond * q + r
  BY <1>1
<1> HIDE DEF q, r
<1>3. \A n \in 0..(MicrosPerSecond - 1) : n * NsPerMicro \in 0..(NsPerSecond - 1)
  <2>1. SUFFICES ASSUME NEW n \in 0..(MicrosPerSecond - 1)
                 PROVE  n * NsPerMicro \in 0..(NsPerSecond - 1)
    OBVIOUS
  <2>2. n * NsPerMicro \in Nat /\ n * NsPerMicro <= (MicrosPerSecond - 1) * NsPerMicro
    BY <1>1
  <2>3. (MicrosPerSecond - 1) * NsPerMicro = NsPerSecond - NsPerMicro
    BY <1>1 DEF NsPerSecond
  <2> QED
    BY <1>1, <2>2, <2>3
<1>4. CASE usecs >= MicrosPerSecond
  <2>1. SleepRequest(usecs) = timespec(q, r * NsPerMicro)
    BY <1>4 DEF SleepRequest, q, r
  <2>2. q * NsPerSecond + r * NsPerMicro = usecs * NsPerMicro
    <3>1. q * NsPerSecond = (MicrosPerSecond * q) * NsPerMicro
      BY <1>1, <1>2 DEF NsPerSecond
    <3>2. (MicrosPerSecond * q + r) * NsPerMicro = (MicrosPerSecond * q) * NsPerMicro + r * NsPerMicro
      <4>1. MicrosPerSecond * q \in Int /\ r \in Int
        BY <1>1, <1>2
      <4> QED
        BY <1>1, <4>1
    <3> QED
      BY <1>2, <3>1, <3>2
  <2>3. r * NsPerMicro \in 0..(NsPerSecond - 1)
    BY <1>2, <1>3
  <2> QED
    BY <1>1, <1>2, <2>1, <2>2, <2>3 DEF PosValue, timespec, Timespecs
<1>5. CASE usecs < MicrosPerSecond
  <2>1. SleepRequest(usecs) = timespec(0, usecs * NsPerMicro)
    BY <1>1, <1>5 DEF SleepRequest
  <2>2. usecs * NsPerMicro \in 0..(NsPerSecond - 1)
    BY <1>1, <1>3, <1>5
  <2>3. PosValue(timespec(0, usecs * NsPerMicro)) = usecs * NsPerMicro
    BY <1>1, <2>2, ProductFacts DEF PosValue, timespec
  <2> QED
    BY <1>1, <2>1, <2>2, <2>3 DEF timespec, Timespecs
<1> QED
  BY <1>1, <1>4, <1>5

-----------------------------------------------------------------------------
(* The caller's timespec and sleeps, any number of calls.                     *)

SleepInv ==
  /\ sleep \in [on : BOOLEAN, left : Timespecs, asked : Nat, slept : Int]
  /\ sleep.on => /\ sleep.left.tv_nsec \in 0..(NsPerSecond - 1)
                 /\ sleep.slept + PosValue(sleep.left) >= sleep.asked * NsPerMicro
  /\ SleepsEnough

TimeInv == ExactSum /\ NormalForm /\ SleepInv

(* A new value of the caller's timespec, if normal and exact, keeps TimeInv.  *)
LEMMA BecomesKeeps ==
  ASSUME TimeInv, NEW t \in Timespecs, NEW value, Becomes(t, value), Normal(t), Value(t) = value
  PROVE  TimeInv'
<1>1. ts' = t /\ exact' = value /\ sleep' = sleep
  BY DEF Becomes
<1>2. ExactSum' /\ NormalForm'
  BY <1>1 DEF ExactSum, NormalForm, Normal, Value
<1>3. SleepInv'
  BY <1>1 DEF TimeInv, SleepInv, SleepsEnough, PosValue
<1> QED
  BY <1>2, <1>3 DEF TimeInv

(* No time has passed at first.                                               *)
LEMMA TimeInit == Init => TimeInv
<1> SUFFICES ASSUME Init PROVE TimeInv
  OBVIOUS
<1>1. NsPerSecond \in Nat \ {0} /\ 0 * NsPerSecond = 0
  BY ProductFacts
<1>2. Value(timespec(0, 0)) = 0 /\ Normal(timespec(0, 0)) /\ timespec(0, 0) \in Timespecs
  BY <1>1 DEF Value, Normal, timespec, Timespecs
<1>3. 0 * NsPerMicro = 0
  BY UnitAssumption
<1> QED
  BY <1>2, <1>3 DEF Init, TimeInv, ExactSum, NormalForm, SleepInv, SleepsEnough

(* Every operation and every sleep keeps the invariant.                       *)
LEMMA TimeNext == TimeInv /\ [Next]_vars => TimeInv'
<1> SUFFICES ASSUME TimeInv, [Next]_vars PROVE TimeInv'
  OBVIOUS
<1>1. ts \in Timespecs /\ Normal(ts) /\ Value(ts) = exact /\ exact \in Int
  BY ValueBounds DEF TimeInv, ExactSum, NormalForm
<1>2. \A t \in Operands : t \in Timespecs /\ Value(t) \in Int
  BY OperandAssumption, ProductFacts DEF Timespecs, Value
<1>3. ASSUME NEW t \in Operands, Normalize(t) PROVE TimeInv'
  BY <1>2, <1>3, NormalizeExact, BecomesKeeps DEF Normalize
<1>4. ASSUME NEW t \in Operands, Add(t) PROVE TimeInv'
  BY <1>1, <1>2, <1>4, AddExact, BecomesKeeps DEF Add
<1>5. ASSUME NEW t \in Operands, Sub(t) PROVE TimeInv'
  BY <1>1, <1>2, <1>5, SubExact, BecomesKeeps DEF Sub
<1>6. ASSUME NEW t \in Operands, SubFrom(t) PROVE TimeInv'
  BY <1>1, <1>2, <1>6, SubExact, BecomesKeeps DEF SubFrom
<1>7. ASSUME NEW now \in Operands, NEW t \in Operands, ClockFromNow(now, t) PROVE TimeInv'
  BY <1>2, <1>7, AddExact, BecomesKeeps DEF ClockFromNow
<1>8. ASSUME Negate PROVE TimeInv'
  BY <1>1, <1>8, NegateExact, BecomesKeeps DEF Negate
<1>9. ASSUME UNCHANGED <<ts, exact>>, SleepInv' PROVE TimeInv'
  BY <1>9 DEF TimeInv, ExactSum, NormalForm, Normal, Value
<1>10. ASSUME NEW usecs \in Delays, SleepCall(usecs) PROVE TimeInv'
  <2>1. usecs \in Nat
    BY DelayAssumption
  <2>2. /\ SleepRequest(usecs) \in Timespecs
        /\ SleepRequest(usecs).tv_nsec \in 0..(NsPerSecond - 1)
        /\ PosValue(SleepRequest(usecs)) = usecs * NsPerMicro
    BY <2>1, SleepRequestExact
  <2>3. usecs * NsPerMicro \in Int
    BY <2>1, UnitAssumption
  <2>4. sleep' = [on |-> TRUE, left |-> SleepRequest(usecs), asked |-> usecs, slept |-> 0]
    BY <1>10 DEF SleepCall
  <2>5. 0 + PosValue(sleep'.left) >= usecs * NsPerMicro /\ sleep'.left.tv_nsec \in 0..(NsPerSecond - 1)
    BY <2>2, <2>3, <2>4
  <2>6. PosValue(sleep.left)' = PosValue(sleep'.left)
    BY DEF PosValue
  <2>7. SleepInv'
    BY <2>1, <2>2, <2>4, <2>5, <2>6 DEF SleepInv, SleepsEnough
  <2> QED
    BY <1>9, <1>10, <2>7 DEF SleepCall
<1>11. /\ sleep \in [on : BOOLEAN, left : Timespecs, asked : Nat, slept : Int]
       /\ PosValue(sleep.left) \in Int /\ sleep.asked * NsPerMicro \in Int
  <2>1. sleep \in [on : BOOLEAN, left : Timespecs, asked : Nat, slept : Int]
    BY DEF TimeInv, SleepInv
  <2>2. sleep.left.tv_sec \in Int /\ sleep.left.tv_nsec \in Int
    BY <2>1 DEF Timespecs
  <2>3. PosValue(sleep.left) \in Int
    BY <2>2, ProductFacts DEF PosValue
  <2>4. sleep.asked * NsPerMicro \in Int
    BY <2>1, UnitAssumption
  <2> QED
    BY <2>1, <2>3, <2>4
<1>12. ASSUME NEW left \in Remainders, SleepInterrupted(left) PROVE TimeInv'
  <2>1. left \in Timespecs /\ left.tv_nsec \in 0..(NsPerSecond - 1) /\ PosValue(left) \in Int
    <3>1. left \in Timespecs /\ left.tv_nsec \in 0..(NsPerSecond - 1)
      BY <1>2 DEF Remainders
    <3>2. left.tv_sec \in Int /\ left.tv_nsec \in Int
      BY <3>1 DEF Timespecs
    <3> QED
      BY <3>1, <3>2, ProductFacts DEF PosValue
  <2>2. sleep.on /\ sleep.slept + PosValue(sleep.left) >= sleep.asked * NsPerMicro
    BY <1>12 DEF SleepInterrupted, Accepted, TimeInv, SleepInv
  <2> DEFINE slept == sleep.slept + PosValue(sleep.left) - PosValue(left)
  <2>3. sleep' = [sleep EXCEPT !.left = left, !.slept = slept] /\ slept \in Int
    BY <1>11, <1>12, <2>1 DEF SleepInterrupted
  <2> HIDE DEF slept
  <2>4. /\ sleep'.on = sleep.on /\ sleep'.left = left /\ sleep'.asked = sleep.asked
        /\ sleep'.slept = slept
        /\ sleep' \in [on : BOOLEAN, left : Timespecs, asked : Nat, slept : Int]
    BY <1>11, <2>1, <2>3
  <2>5. PosValue(sleep.left)' = PosValue(left)
    BY <2>4 DEF PosValue
  <2>6. sleep'.slept + PosValue(left) >= sleep.asked * NsPerMicro
    BY <1>11, <2>1, <2>2, <2>4 DEF slept
  <2>7. SleepInv'
    BY <2>1, <2>2, <2>4, <2>5, <2>6 DEF SleepInv, SleepsEnough
  <2> QED
    BY <1>9, <1>12, <2>7 DEF SleepInterrupted
<1>13. ASSUME SleepReturns PROVE TimeInv'
  <2>1. /\ sleep.on /\ sleep.left.tv_nsec \in 0..(NsPerSecond - 1)
        /\ sleep.slept + PosValue(sleep.left) >= sleep.asked * NsPerMicro
    BY <1>13 DEF SleepReturns, TimeInv, SleepInv
  <2> DEFINE slept == sleep.slept + PosValue(sleep.left)
  <2>2. sleep' = [sleep EXCEPT !.on = FALSE, !.slept = slept] /\ slept \in Int
    BY <1>11, <1>13, <2>1 DEF SleepReturns, Accepted
  <2> HIDE DEF slept
  <2>3. /\ ~sleep'.on /\ sleep'.asked = sleep.asked /\ sleep'.slept = slept
        /\ sleep' \in [on : BOOLEAN, left : Timespecs, asked : Nat, slept : Int]
    BY <1>11, <2>2
  <2>4. SleepInv'
    BY <2>1, <2>3 DEF SleepInv, SleepsEnough, slept
  <2> QED
    BY <1>9, <1>13, <2>4 DEF SleepReturns
<1>14. CASE UNCHANGED vars
  BY <1>9, <1>14 DEF vars, TimeInv, SleepInv, SleepsEnough, PosValue
<1> QED
  BY <1>3, <1>4, <1>5, <1>6, <1>7, <1>8, <1>10, <1>12, <1>13, <1>14 DEF Next

(* Any sequence of calls computes the exact time, whatever the units and the  *)
(* operands: the carries and the two forms never lose a nanosecond.           *)
THEOREM SumCorrectness == Spec => []ExactSum
<1>1. TimeInv => ExactSum
  BY DEF TimeInv
<1> QED
  BY TimeInit, TimeNext, <1>1, PTL DEF Spec

(* Every result is in the one normal form of its time.                        *)
THEOREM FormCorrectness == Spec => []NormalForm
<1>1. TimeInv => NormalForm
  BY DEF TimeInv
<1> QED
  BY TimeInit, TimeNext, <1>1, PTL DEF Spec

(* Comparing the caller's timespec with any normal one is comparing times.    *)
THEOREM TimeCompareCorrectness == Spec => []ComparesRight
<1>1. TimeInv => ComparesRight
  <2> SUFFICES ASSUME TimeInv, NEW t \in Operands, Normal(t)
               PROVE /\ nl_compare_timespec(ts, t) = Sign(exact - Value(t))
                     /\ nl_compare_timespec(t, ts) = Sign(Value(t) - exact)
                     /\ exact >= 0 /\ Value(t) >= 0 => (NL_TIMESPEC_GTE(ts, t) <=> exact >= Value(t))
    BY DEF ComparesRight
  <2>1. ts \in Timespecs /\ Normal(ts) /\ Value(ts) = exact /\ t \in Timespecs
    BY OperandAssumption DEF TimeInv, ExactSum, NormalForm, Timespecs
  <2> QED
    BY <2>1, CompareExact, GteExact
<1> QED
  BY TimeInit, TimeNext, <1>1, PTL DEF Spec

(* A sleep that returned slept for all that was asked, however often it was   *)
(* interrupted.                                                               *)
THEOREM SleepCorrectness == Spec => []SleepsEnough
<1>1. TimeInv => SleepsEnough
  BY DEF TimeInv, SleepInv
<1> QED
  BY TimeInit, TimeNext, <1>1, PTL DEF Spec
=============================================================================
