-------------------------------- MODULE Hash --------------------------------
(***************************************************************************)
(* The string hash of src/hash.c over the list of fifo.c, here its         *)
(* sequence of elements: two hashes of one caller, set, removed from,      *)
(* cleared, destroyed and cloned, with allocations that may fail.          *)
(* `content' is the map the caller expects, after what the calls returned. *)
(***************************************************************************)
EXTENDS Integers, Sequences, SequencesExt

CONSTANTS Hashes, Keys, Values,
          MaxEntries   \* bound on the entries of a hash

ASSUME MaxEntriesAssumption == MaxEntries \in Nat

VARIABLES live,      \* hashes that exist
          table,     \* hash->table: its entries in order
          count,     \* hash->count
          content,   \* history: the map each hash stands for
          cloning    \* nl_hash_clone() in progress: source, copy and iterator

hashVars == <<live, table, count, content, cloning>>

NotCloning == [on |-> FALSE]
EmptyMap == [k \in {} |-> {}]

entry(key, value) == [key |-> key, value |-> value]

-----------------------------------------------------------------------------
(* nl_hash_find(): the position of the first entry with the key, or 0.       *)
nl_hash_find(t, key) == SelectInSeq(t, LAMBDA e : e.key = key)

(* nl_hash_set(): the table afterwards.                                      *)
SetIn(t, key, value) ==
  LET at == nl_hash_find(t, key)
  IN IF at = 0 THEN Append(t, entry(key, value)) ELSE ReplaceAt(t, at, entry(key, value))

nl_hash_get(t, key) == t[nl_hash_find(t, key)].value

WithKey(map, key, value) == [k \in DOMAIN map \cup {key} |-> IF k = key THEN value ELSE map[k]]
WithoutKey(map, key) == [k \in DOMAIN map \ {key} |-> map[k]]

-----------------------------------------------------------------------------
Calling(h) == ~cloning.on /\ h \in live

Create(h) ==
  /\ ~cloning.on /\ h \notin live
  /\ live' = live \cup {h}
  /\ table' = [table EXCEPT ![h] = <<>>]
  /\ count' = [count EXCEPT ![h] = 0]
  /\ content' = [content EXCEPT ![h] = EmptyMap]
  /\ UNCHANGED cloning

(* One nl_hash_set() that succeeds.                                          *)
PutEntry(h, key, value) ==
  /\ nl_hash_find(table[h], key) # 0 \/ Len(table[h]) < MaxEntries
  /\ table' = [table EXCEPT ![h] = SetIn(@, key, value)]
  /\ count' = [count EXCEPT ![h] = IF nl_hash_find(table[h], key) = 0 THEN @ + 1 ELSE @]

SetEntry(h, key, value) ==
  /\ Calling(h)
  /\ PutEntry(h, key, value)
  /\ content' = [content EXCEPT ![h] = WithKey(@, key, value)]
  /\ UNCHANGED <<live, cloning>>

RemoveEntry(h, key) ==
  LET at == nl_hash_find(table[h], key) IN
  /\ Calling(h)
  /\ table' = [table EXCEPT ![h] = IF at = 0 THEN @ ELSE RemoveAt(@, at)]
  /\ count' = [count EXCEPT ![h] = IF at = 0 THEN @ ELSE @ - 1]
  /\ content' = [content EXCEPT ![h] = WithoutKey(@, key)]
  /\ UNCHANGED <<live, cloning>>

Emptied(h) ==
  /\ table' = [table EXCEPT ![h] = <<>>]
  /\ count' = [count EXCEPT ![h] = 0]

Clear(h) ==
  /\ Calling(h)
  /\ Emptied(h)
  /\ content' = [content EXCEPT ![h] = EmptyMap]
  /\ UNCHANGED <<live, cloning>>

Destroy(h) ==
  /\ Calling(h)
  /\ Emptied(h)
  /\ live' = live \ {h}
  /\ content' = [content EXCEPT ![h] = EmptyMap]
  /\ UNCHANGED cloning

-----------------------------------------------------------------------------
(* nl_hash_clone().  The callback returns what nl_hash_set() returns, so the *)
(* iteration ends at the first entry that cannot be copied.                  *)
CloneBegin(from, to) ==
  /\ Calling(from) /\ to \notin live
  /\ live' = live \cup {to}
  /\ cloning' = [on |-> TRUE, from |-> from, to |-> to, at |-> 1]
  /\ table' = [table EXCEPT ![to] = <<>>]
  /\ count' = [count EXCEPT ![to] = 0]
  /\ UNCHANGED content

CloneEntry ==
  /\ cloning.on /\ cloning.at \in 1..Len(table[cloning.from])
  /\ LET e == table[cloning.from][cloning.at] IN PutEntry(cloning.to, e.key, e.value)
  /\ cloning' = [cloning EXCEPT !.at = @ + 1]
  /\ UNCHANGED <<live, content>>

CloneEntryFails ==
  /\ cloning.on /\ cloning.at \in 1..Len(table[cloning.from])
  /\ cloning' = [cloning EXCEPT !.at = Len(table[cloning.from]) + 1]
  /\ UNCHANGED <<live, table, count, content>>

CloneUnchecked ==
  /\ cloning.on /\ cloning.at > Len(table[cloning.from])
  /\ content' = [content EXCEPT ![cloning.to] = content[cloning.from]]
  /\ cloning' = NotCloning
  /\ UNCHANGED <<live, table, count>>

CloneEnd ==
  /\ cloning.on /\ cloning.at > Len(table[cloning.from])
  /\ LET from == cloning.from  to == cloning.to IN
       IF count[from] = count[to]
       THEN /\ content' = [content EXCEPT ![to] = content[from]]
            /\ UNCHANGED <<live, table, count>>
       ELSE /\ Emptied(to)
            /\ live' = live \ {to}
            /\ UNCHANGED content
  /\ cloning' = NotCloning

-----------------------------------------------------------------------------
HashInit ==
  /\ live = {}
  /\ table = [h \in Hashes |-> <<>>]
  /\ count = [h \in Hashes |-> 0]
  /\ content = [h \in Hashes |-> EmptyMap]
  /\ cloning = NotCloning

(* A call whose allocation fails changes nothing.                            *)
HashNext ==
  \/ \E h \in Hashes :
       \/ Create(h) \/ Clear(h) \/ Destroy(h)
       \/ \E k \in Keys : RemoveEntry(h, k) \/ \E v \in Values : SetEntry(h, k, v)
  \/ \E from, to \in Hashes : CloneBegin(from, to)
  \/ CloneEntry \/ CloneEntryFails \/ CloneEnd

HashSpec == HashInit /\ [][HashNext]_hashVars

-----------------------------------------------------------------------------
(* Properties.                                                               *)

Settled(h) == ~(cloning.on /\ cloning.to = h)

OneEntryPerKey(t) == \A i, j \in 1..Len(t) : t[i].key = t[j].key => i = j

(* The list of entries and the counter are two records of one map: after any  *)
(* calls, failed ones included, no key has two entries, every key has its     *)
(* last value, and count is the number of entries, also of a clone, which is  *)
(* either complete or does not exist (hash.c:152, hash.c:214).                *)
HashIsMap ==
  \A h \in live :
    /\ count[h] = Len(table[h])
    /\ OneEntryPerKey(table[h])
    /\ Settled(h) => /\ {e.key : e \in ToSet(table[h])} = DOMAIN content[h]
                     /\ \A k \in DOMAIN content[h] : nl_hash_get(table[h], k) = content[h][k]
=============================================================================
