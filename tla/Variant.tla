------------------------------- MODULE Variant -------------------------------
(***************************************************************************)
(* The variants of src/variant.c: a caller that keeps a few of them, makes *)
(* them, copies them, reads them from text, compares and destroys them,    *)
(* with allocations that may fail.  A string is its place in the order of  *)
(* strcmp(); formatting is left out, and so are floats, which take the     *)
(* same branches as integers (but for NaN, which has no place in an order).*)
(***************************************************************************)
EXTENDS Integers

CONSTANTS
  Slots,      \* the caller's variants
  Blocks,     \* addresses malloc() may return
  INT_MAX,    \* the largest int
  Numbers,    \* integers and texts of integers, of any width
  Strings,    \* strings
  Sizes       \* sizes of raw data

ASSUME IntAssumption == INT_MAX \in Nat \ {0}
ASSUME BlocksAssumption == 0 \notin Blocks
ASSUME OrderAssumption == Numbers \subseteq Int /\ Strings \subseteq Nat /\ Sizes \subseteq Nat

VARIABLES slot,   \* the caller's variants
          heap,   \* what is in each allocated block
          dup     \* nl_duplicate_data() in progress

variantVars == <<slot, heap, dup>>

-----------------------------------------------------------------------------
NULL == 0
variant(type, value) == [type |-> type, value |-> value]
Unset == variant("unset", NULL)
Invalid == variant("INVALID", NULL)
NoDup == [on |-> FALSE]

(* A conversion to int keeps the low bits.                                   *)
INT_MIN == -INT_MAX - 1
ToInt(n) == ((n - INT_MIN) % (2 * (INT_MAX + 1))) + INT_MIN

-----------------------------------------------------------------------------
(* malloc(), for a block with the given contents.  Which of the free blocks  *)
(* it returns makes no difference.                                           *)
FreeBlocks == Blocks \ DOMAIN heap
Address == CHOOSE b \in FreeBlocks : TRUE
Alloc(contents) == [b \in DOMAIN heap \cup {Address} |->
                      IF b = Address THEN contents ELSE heap[b]]
Freed(memory, blocks) == [b \in DOMAIN memory \ blocks |-> memory[b]]

StringBlock(s) == [kind |-> "string", text |-> s]
BytesBlock(n) == [kind |-> "bytes", size |-> n]
raw_data(size, data) == [kind |-> "raw_data", size |-> size, data |-> data]

(* The blocks nl_destroy_data() and nl_destroy_variant() free.               *)
DataBlocks(p) == {p} \cup (IF heap[p].data = NULL THEN {} ELSE {heap[p].data})
Destroyed(v) ==
  IF v.value = NULL \/ v.type \notin {"STRING", "DATA"} THEN {}
  ELSE IF v.type = "STRING" THEN {v.value} ELSE DataBlocks(v.value)

-----------------------------------------------------------------------------
Caller(s) == ~dup.on /\ slot[s] = Unset

NewInteger(s, n) ==
  /\ Caller(s)
  /\ slot' = [slot EXCEPT ![s] = variant("INTEGER", ToInt(n))]
  /\ UNCHANGED <<heap, dup>>

NewNull(s, type) ==
  /\ Caller(s)
  /\ slot' = [slot EXCEPT ![s] = variant(type, NULL)]
  /\ UNCHANGED <<heap, dup>>

(* The STRING case of nl_string_to_varvalue(): a copy, unescaped in place.   *)
NewString(s, text) ==
  /\ Caller(s) /\ FreeBlocks # {}
  /\ heap' = Alloc(StringBlock(text))
  /\ slot' = [slot EXCEPT ![s] = variant("STRING", Address)]
  /\ UNCHANGED dup

(* What nl_read_stream() makes: contents are NULL when there are none.       *)
NewData(s, size) ==
  /\ Caller(s) /\ FreeBlocks # {} /\ FreeBlocks \ {Address} # {}
  /\ LET bytes == CHOOSE b \in FreeBlocks \ {Address} : TRUE
         memory == Alloc(raw_data(size, IF size = 0 THEN NULL ELSE bytes))
     IN heap' = IF size = 0 THEN memory
                ELSE [b \in DOMAIN memory \cup {bytes} |->
                        IF b = bytes THEN BytesBlock(size) ELSE memory[b]]
  /\ slot' = [slot EXCEPT ![s] = variant("DATA", Address)]
  /\ UNCHANGED dup

(* The INTEGER case of nl_string_to_varvalue(); `word' is "true" or "false". *)
FromInteger(s, n) ==
  /\ ~dup.on /\ slot[s].type = "INTEGER"
  /\ slot' = [slot EXCEPT ![s].value = ToInt(n)]
  /\ UNCHANGED <<heap, dup>>

FromWord(s, word) == FromInteger(s, IF word = "true" THEN 1 ELSE 0)

nl_clamp_varvalue(n, min, max) == IF n < min THEN min ELSE IF n > max THEN max ELSE n

Clamp(s, min, max) ==
  /\ ~dup.on /\ slot[s].type = "INTEGER"
  /\ slot' = [slot EXCEPT ![s].value = nl_clamp_varvalue(@, min, max)]
  /\ UNCHANGED <<heap, dup>>

DestroyVariant(s) ==
  /\ ~dup.on /\ slot[s] # Unset
  /\ heap' = Freed(heap, Destroyed(slot[s]))
  /\ slot' = [slot EXCEPT ![s] = Unset]
  /\ UNCHANGED dup

-----------------------------------------------------------------------------
(* nl_duplicate_variant() of one slot into another.                          *)
DuplicateValue(from, to) ==
  /\ Caller(to) /\ slot[from] # Unset
  /\ slot[from].type \notin {"STRING", "DATA"} \/ slot[from].value = NULL
  /\ slot' = [slot EXCEPT ![to] = slot[from]]
  /\ UNCHANGED <<heap, dup>>

DuplicateString(from, to) ==
  /\ Caller(to) /\ slot[from].type = "STRING" /\ slot[from].value # NULL
  /\ FreeBlocks # {}
  /\ heap' = Alloc(heap[slot[from].value])
  /\ slot' = [slot EXCEPT ![to] = variant("STRING", Address)]
  /\ UNCHANGED dup

DuplicateFails(from, to) ==
  /\ Caller(to) /\ slot[from].type \in {"STRING", "DATA"} /\ slot[from].value # NULL
  /\ slot' = [slot EXCEPT ![to] = Invalid]
  /\ UNCHANGED <<heap, dup>>

(* nl_duplicate_data(): the structure, then nl_copy_data() for the contents. *)
DuplicateStruct(from, to) ==
  /\ Caller(to) /\ slot[from].type = "DATA" /\ slot[from].value # NULL
  /\ FreeBlocks # {}
  /\ heap' = Alloc(raw_data(0, NULL))
  /\ dup' = [on |-> TRUE, source |-> slot[from].value, copy |-> Address, to |-> to]
  /\ UNCHANGED slot

CopyReturns(v) ==
  /\ slot' = [slot EXCEPT ![dup.to] = v]
  /\ dup' = NoDup

CopyEmpty ==
  /\ dup.on /\ heap[dup.source].size = 0
  /\ CopyReturns(variant("DATA", dup.copy))
  /\ UNCHANGED heap

CopyContents ==
  /\ dup.on /\ heap[dup.source].size > 0 /\ FreeBlocks # {}
  /\ heap' = [Alloc(BytesBlock(heap[dup.source].size)) EXCEPT
                ![dup.copy] = raw_data(heap[dup.source].size, Address)]
  /\ CopyReturns(variant("DATA", dup.copy))

CopyFailsKeeping ==
  /\ dup.on /\ heap[dup.source].size > 0
  /\ CopyReturns(Invalid)
  /\ UNCHANGED heap

CopyFails ==
  /\ dup.on /\ heap[dup.source].size > 0
  /\ heap' = Freed(heap, {dup.copy})
  /\ CopyReturns(Invalid)

-----------------------------------------------------------------------------
(* nl_compare_varvalues() and nl_compare_variants().                         *)
Order(a, b) == IF a > b THEN 1 ELSE IF a < b THEN -1 ELSE 0
TypeNumber(type) == CASE type = "INTEGER" -> 1 [] type = "STRING" -> 3 [] type = "DATA" -> 4

CompareNull(a, b) == IF a = NULL THEN -1 ELSE 1

CompareSizesFlag(d, e) == IF d.size > e.size THEN 1 ELSE 0
CompareSizes(d, e) == ToInt(d.size - e.size)

CompareData(p, q) ==
  IF p = q THEN 0
  ELSE IF NULL \in {p, q} THEN CompareNull(p, q)
  ELSE LET d == heap[p]  e == heap[q] IN
       IF d.data = e.data /\ d.size = e.size THEN 0
       ELSE IF NULL \in {d.data, e.data} THEN CompareNull(d.data, e.data)
       ELSE CompareSizes(d, e)

CompareStrings(p, q) ==
  IF p = q THEN 0
  ELSE IF NULL \in {p, q} THEN CompareNull(p, q)
  ELSE Order(heap[p].text, heap[q].text)

nl_compare_variants(v, w) ==
  IF v.type # w.type THEN Order(TypeNumber(v.type), TypeNumber(w.type))
  ELSE CASE v.type = "INTEGER" -> Order(v.value, w.value)
         [] v.type = "STRING"  -> CompareStrings(v.value, w.value)
         [] v.type = "DATA"    -> CompareData(v.value, w.value)

-----------------------------------------------------------------------------
VariantInit ==
  /\ slot = [s \in Slots |-> Unset]
  /\ heap = [b \in {} |-> NULL]
  /\ dup = NoDup

VariantNext ==
  \/ \E s \in Slots :
       \/ \E n \in Numbers : NewInteger(s, n) \/ FromInteger(s, n)
       \/ \E min, max \in Numbers \cap INT_MIN..INT_MAX : Clamp(s, min, max)
       \/ \E word \in {"true", "false"} : FromWord(s, word)
       \/ \E text \in Strings : NewString(s, text)
       \/ \E size \in Sizes : NewData(s, size)
       \/ \E type \in {"STRING", "DATA"} : NewNull(s, type)
       \/ DestroyVariant(s)
  \/ \E from, to \in Slots :
       \/ DuplicateValue(from, to) \/ DuplicateString(from, to)
       \/ DuplicateStruct(from, to) \/ DuplicateFails(from, to)
  \/ CopyEmpty \/ CopyContents \/ CopyFails

VariantSpec == VariantInit /\ [][VariantNext]_variantVars

-----------------------------------------------------------------------------
(* Properties.                                                               *)

Owned(s) == Destroyed(slot[s])

(* Every allocated block belongs to exactly one variant or to the copy in     *)
(* progress, and every pointer leads to an allocated block: a copy that fails *)
(* half way leaves nothing behind, and no two variants share what each of     *)
(* them will free (variant.c:77, variant.c:125).                              *)
EveryBlockOwned ==
  /\ \A s, t \in Slots : s # t => Owned(s) \cap Owned(t) = {}
  /\ DOMAIN heap = (UNION {Owned(s) : s \in Slots}) \cup (IF dup.on THEN {dup.copy} ELSE {})

Comparable == {s \in Slots : slot[s].type \in {"INTEGER", "STRING", "DATA"}}
Sgn(n) == IF n < 0 THEN -1 ELSE IF n > 0 THEN 1 ELSE 0
Cmp(s, t) == Sgn(nl_compare_variants(slot[s], slot[t]))

(* Comparing is a total preorder on integers, strings and raw data, of the    *)
(* same type or not, NULL and empty ones included, so that sorting by it is   *)
(* well defined (variant.c:511).  True while the sizes of raw data differ by  *)
(* no more than an int holds; beyond, the difference that is returned for     *)
(* them is narrowed to int and can change its sign (variant.c:561).           *)
CompareIsOrder ==
  \A s, t, u \in Comparable :
    /\ Cmp(s, t) = -Cmp(t, s)
    /\ Cmp(s, t) <= 0 /\ Cmp(t, u) <= 0 => Cmp(s, u) <= 0
=============================================================================
