------------------------------ MODULE KvpProofs ------------------------------
(***************************************************************************)
(* Proofs about the key-value line parser of Kvp: the pairs cut from a     *)
(* line of any form lie in order within it, a pair that was written is     *)
(* read back, and an unquoted value has the type it reads as to its end.   *)
(***************************************************************************)
EXTENDS TextProofs

(* The parser before the first character.                                     *)
KvpBegin == [state |-> "EXPECT_KEY", skip |-> FALSE, key_start |-> 1, key_length |-> 0,
             value_start |-> 1, sent |-> <<>>]

(* f is what the parser is after each of the first n characters.              *)
Parses(f, line, n) ==
  f[0] = KvpBegin /\ \A i \in 1..n : f[i] = KvpTurn(f[i - 1], line, i)

(* The end of the line ends a value.                                          *)
AtEnd(p, line) ==
  IF p.state \in {"READ_VALUE", "READ_QUOTED_VALUE"}
  THEN send_pair(line, p, Len(line) + 1 - p.value_start) ELSE p

(* nl_parse_kvp() is that function's way through the line.                    *)
LEMMA ParserParses ==
  ASSUME NEW C, NEW line \in Seq(C), NEW n \in Nat, n = Len(line)
  PROVE  \E f : Parses(f, line, n) /\ nl_parse_kvp(line) = AtEnd(f[n], line).sent
<1> DEFINE After[i \in 0..Len(line)] ==
             IF i = 0 THEN KvpBegin ELSE KvpTurn(After[i - 1], line, i)
<1>1. nl_parse_kvp(line) = AtEnd(After[Len(line)], line).sent
  BY DEF nl_parse_kvp, AtEnd, KvpBegin
<1>2. After = [i \in 0..Len(line) |-> IF i = 0 THEN KvpBegin ELSE KvpTurn(After[i - 1], line, i)]
  <2>1. PICK loop : loop = "kvp"
    OBVIOUS
  <2>2. PICK begin : begin = KvpBegin
    OBVIOUS
  <2>3. \A x, i : Turn(loop, line, x, i) = KvpTurn(x, line, i)
    BY <2>1 DEF Turn
  <2>4. PICK f : Loops(f, loop, line, begin, n)
    BY LoopExists
  <2>5. f = [i \in 0..n |-> IF i = 0 THEN begin ELSE KvpTurn(f[i - 1], line, i)]
    BY <2>3, <2>4 DEF Loops
  <2> QED
    BY <2>2, <2>5
<1> HIDE DEF After
<1>3. Parses(After, line, n)
  <2>1. After[0] = KvpBegin
    <3>1. 0 \in 0..Len(line)
      OBVIOUS
    <3> QED
      BY <1>2, <3>1
  <2>2. ASSUME NEW i \in 1..n
        PROVE  After[i] = KvpTurn(After[i - 1], line, i)
    <3>1. i \in 0..Len(line) /\ i # 0
      OBVIOUS
    <3> QED
      BY <1>2, <3>1
  <2> QED
    BY <2>1, <2>2 DEF Parses
<1> QED
  BY <1>1, <1>3

-----------------------------------------------------------------------------
(* Where the pairs are.                                                       *)

(* The pair that send_pair() sends.                                           *)
PairOf(line, p, value_length) ==
  LET Cut(start, length) == SubSeq(line, start, start + length - 1)
      value == Cut(p.value_start, value_length)
  IN [key |-> Dequoted(Cut(p.key_start, p.key_length)), value |-> Dequoted(value),
      quoted |-> value[1] = Quote,
      places |-> <<p.key_start, p.key_start + p.key_length,
                   p.value_start, p.value_start + value_length>>]

KvpStates == {"EXPECT_KEY", "SKIP_KEY", "READ_KEY", "READ_QUOTED_KEY", "EXPECT_EQUALS",
              "EXPECT_VALUE", "READ_VALUE", "READ_QUOTED_VALUE"}

KvpType(S) == [state : KvpStates, skip : BOOLEAN, key_start : Nat, key_length : Nat,
               value_start : Nat, sent : Seq(S)]

(* The states in which there is a key, and in which there is a value.         *)
InKey(p) == p.state \in {"READ_KEY", "READ_QUOTED_KEY", "EXPECT_EQUALS", "EXPECT_VALUE",
                         "READ_VALUE", "READ_QUOTED_VALUE"}
InValue(p) == p.state \in {"READ_VALUE", "READ_QUOTED_VALUE"}

(* The pairs sent are in order, and all that was read before place i.         *)
SentInOrder(sent, i) ==
  /\ \A j \in 1..Len(sent) : /\ sent[j].places \in [1..4 -> Nat]
                             /\ PlacesInOrder(sent[j].places, i)
  /\ \A j \in 1..(Len(sent) - 1) : sent[j].places[4] <= sent[j + 1].places[1]

(* What the parser knows of the pair it is reading when it has read i         *)
(* characters: its key is behind every pair sent, and its value behind its    *)
(* key.                                                                       *)
Placing(p, i) ==
  /\ InKey(p) => /\ 1 <= p.key_start /\ p.key_start <= i
                 /\ \A j \in 1..Len(p.sent) : p.sent[j].places[4] <= p.key_start
  /\ p.state = "EXPECT_EQUALS" => p.key_start < i
  /\ p.state = "EXPECT_VALUE" => 1 <= p.key_length /\ p.key_start + p.key_length <= i
  /\ InValue(p) => /\ 1 <= p.key_length /\ p.key_start + p.key_length < p.value_start
                   /\ p.value_start <= i

KvpPlaced(p, i) ==
  (\E S : p \in KvpType(S)) /\ SentInOrder(p.sent, i) /\ Placing(p, i)

(* A pair that is sent in its turn keeps the order.                           *)
LEMMA SentKeepsOrder ==
  ASSUME NEW line, NEW S, NEW p \in KvpType(S), NEW i \in Nat, SentInOrder(p.sent, i),
         Placing(p, i), InValue(p), NEW length \in Nat, NEW k \in Nat, i <= k,
         1 <= length, p.value_start + length <= k + 1
  PROVE  KvpPlaced(send_pair(line, p, length), k)
<1> DEFINE q == PairOf(line, p, length)
           sent == Append(p.sent, q)
           next == [p EXCEPT !.state = "EXPECT_KEY", !.sent = sent]
           m == Len(p.sent)
<1>1. send_pair(line, p, length) = next
  BY DEF send_pair, PairOf
<1>2. q.places = <<p.key_start, p.key_start + p.key_length, p.value_start,
                   p.value_start + length>>
  BY DEF PairOf
<1> HIDE DEF q
<1>3. /\ p.key_start \in Nat /\ p.key_length \in Nat /\ p.value_start \in Nat /\ p.sent \in Seq(S)
      /\ p.skip \in BOOLEAN
  BY DEF KvpType
<1>4. sent \in Seq(S \cup {q}) /\ Len(sent) = m + 1 /\ sent[m + 1] = q
      /\ \A j \in 1..m : sent[j] = p.sent[j]
  <2>1. p.sent \in Seq(S \cup {q})
    <3>1. S \subseteq S \cup {q}
      OBVIOUS
    <3> QED
      BY <1>3, <3>1, SeqMonotonic
  <2> QED
    BY <2>1
<1>5. /\ next \in KvpType(S \cup {q}) /\ next.sent = sent /\ next.state = "EXPECT_KEY"
  BY <1>3, <1>4 DEF KvpType, KvpStates
<1>6. /\ q.places \in [1..4 -> Nat] /\ q.places[1] = p.key_start
      /\ q.places[2] = p.key_start + p.key_length /\ q.places[3] = p.value_start
      /\ q.places[4] = p.value_start + length
  BY <1>2, <1>3
<1>7. /\ 1 <= p.key_start /\ 1 <= p.key_length /\ p.key_start + p.key_length < p.value_start
      /\ \A j \in 1..m : p.sent[j].places[4] <= p.key_start
  BY DEF Placing, InValue, InKey
<1>8. PlacesInOrder(q.places, k)
  <2>1. /\ 1 <= p.key_start /\ p.key_start < p.key_start + p.key_length
        /\ p.key_start + p.key_length < p.value_start
        /\ p.value_start < p.value_start + length /\ p.value_start + length <= k + 1
    BY <1>3, <1>7
  <2> QED
    BY <1>6, <2>1 DEF PlacesInOrder
<1> HIDE DEF next, sent
<1>9. SentInOrder(sent, k)
  <2>0. m \in Nat
    BY <1>3
  <2>1. ASSUME NEW j \in 1..Len(sent)
        PROVE  sent[j].places \in [1..4 -> Nat] /\ PlacesInOrder(sent[j].places, k)
    <3>1. CASE j = m + 1
      BY <1>4, <1>6, <1>8, <3>1
    <3>2. CASE j # m + 1
      <4>1. j \in 1..m /\ sent[j] = p.sent[j]
        BY <1>4, <2>0, <3>2
      <4>2. p.sent[j].places \in [1..4 -> Nat] /\ PlacesInOrder(p.sent[j].places, i)
        BY <4>1 DEF SentInOrder
      <4>3. p.sent[j].places[4] \in Nat
        BY <4>2
      <4> QED
        BY <4>1, <4>2, <4>3 DEF PlacesInOrder
    <3> QED
      BY <3>1, <3>2
  <2>2. ASSUME NEW j \in 1..(Len(sent) - 1)
        PROVE  sent[j].places[4] <= sent[j + 1].places[1]
    <3>1. j \in 1..m /\ sent[j] = p.sent[j]
      BY <1>4, <2>0
    <3>2. CASE j = m
      BY <1>4, <1>6, <1>7, <3>1, <3>2
    <3>3. CASE j # m
      <4>1. j \in 1..(m - 1) /\ j + 1 \in 1..m
        BY <2>0, <3>1, <3>3
      <4> QED
        BY <1>4, <3>1, <4>1 DEF SentInOrder
    <3> QED
      BY <3>2, <3>3
  <2> QED
    BY <2>1, <2>2 DEF SentInOrder
<1>10. Placing(next, k)
  BY <1>5 DEF Placing, InKey, InValue
<1> QED
  BY <1>1, <1>5, <1>9, <1>10 DEF KvpPlaced

(* Every turn of the parser keeps the order.                                  *)
LEMMA TurnKeepsOrder ==
  ASSUME NEW line, NEW p, NEW i \in Nat \ {0}, KvpPlaced(p, i - 1)
  PROVE  KvpPlaced(KvpTurn(p, line, i), i)
<1>1. PICK S : p \in KvpType(S)
  BY DEF KvpPlaced
<1>2. SentInOrder(p.sent, i - 1) /\ Placing(p, i - 1)
  BY DEF KvpPlaced
<1>3. /\ p.state \in KvpStates /\ p.skip \in BOOLEAN /\ p.key_start \in Nat /\ p.key_length \in Nat
      /\ p.value_start \in Nat /\ p.sent \in Seq(S)
  BY <1>1 DEF KvpType
<1>4. SentInOrder(p.sent, i)
  <2>1. ASSUME NEW j \in 1..Len(p.sent)
        PROVE  PlacesInOrder(p.sent[j].places, i)
    <3>1. p.sent[j].places \in [1..4 -> Nat] /\ PlacesInOrder(p.sent[j].places, i - 1)
      BY <1>2 DEF SentInOrder
    <3>2. p.sent[j].places[4] \in Nat
      BY <3>1
    <3> QED
      BY <3>1, <3>2 DEF PlacesInOrder
  <2> QED
    BY <1>2, <2>1 DEF SentInOrder
(* A step that sends nothing.                                                *)
<1>5. ASSUME NEW q \in KvpType(S), q.sent = p.sent, Placing(q, i)
      PROVE  KvpPlaced(q, i)
  BY <1>4, <1>5 DEF KvpPlaced
<1>6. \A j \in 1..Len(p.sent) : p.sent[j].places[4] \in Nat /\ p.sent[j].places[4] <= i
  <2> SUFFICES ASSUME NEW j \in 1..Len(p.sent)
               PROVE  p.sent[j].places[4] \in Nat /\ p.sent[j].places[4] <= i
    OBVIOUS
  <2>1. p.sent[j].places \in [1..4 -> Nat] /\ PlacesInOrder(p.sent[j].places, i - 1)
    BY <1>2 DEF SentInOrder
  <2>2. p.sent[j].places[4] \in Nat
    BY <2>1
  <2> QED
    BY <2>1, <2>2 DEF PlacesInOrder
<1> DEFINE c == line[i]
<1>7. CASE p.skip
  <2> DEFINE q == [p EXCEPT !.skip = FALSE]
  <2>1. KvpTurn(p, line, i) = q
    BY <1>7 DEF KvpTurn
  <2>2. q \in KvpType(S) /\ q.sent = p.sent
    BY <1>1, <1>3 DEF KvpType
  <2>3. Placing(q, i)
    BY <1>1, <1>2, <1>3 DEF KvpType, Placing, InKey, InValue
  <2> QED
    BY <1>5, <2>1, <2>2, <2>3
<1>8. CASE ~p.skip /\ p.state = "EXPECT_KEY"
  <2>1. KvpTurn(p, line, i) = ExpectKey(p, c, i)
    BY <1>8 DEF KvpTurn
  <2>2. CASE c = "="
    <3> DEFINE q == [p EXCEPT !.state = "SKIP_KEY"]
    <3>1. KvpTurn(p, line, i) = q
      BY <2>1, <2>2 DEF ExpectKey
    <3>2. q \in KvpType(S) /\ q.sent = p.sent /\ q.state = "SKIP_KEY"
      BY <1>1, <1>3 DEF KvpType, KvpStates
    <3>3. Placing(q, i)
      BY <3>2 DEF Placing, InKey, InValue
    <3> QED
      BY <1>5, <3>1, <3>2, <3>3
  <2>3. CASE c # "=" /\ IsSpace(c)
    <3>1. KvpTurn(p, line, i) = p
      BY <2>1, <2>3 DEF ExpectKey
    <3>2. Placing(p, i)
      BY <1>8 DEF Placing, InKey, InValue
    <3> QED
      BY <1>1, <1>5, <3>1, <3>2
  <2>4. CASE c # "=" /\ ~IsSpace(c)
    <3> DEFINE q == [p EXCEPT !.key_start = i,
                              !.state = IF c = Quote THEN "READ_QUOTED_KEY" ELSE "READ_KEY"]
    <3>1. KvpTurn(p, line, i) = q
      BY <2>1, <2>4 DEF ExpectKey
    <3>2. /\ q \in KvpType(S) /\ q.sent = p.sent /\ q.key_start = i
          /\ q.state \in {"READ_QUOTED_KEY", "READ_KEY"}
      BY <1>1, <1>3 DEF KvpType, KvpStates
    <3> HIDE DEF q
    <3>3. Placing(q, i)
      BY <1>6, <3>2 DEF Placing, InKey, InValue
    <3> QED
      BY <1>5, <3>1, <3>2, <3>3
  <2> QED
    BY <2>2, <2>3, <2>4
(* A step that gives up the pair, or stays where it was.                     *)
<1>9. ASSUME KvpTurn(p, line, i) = [p EXCEPT !.state = "EXPECT_KEY"]
      PROVE  KvpPlaced(KvpTurn(p, line, i), i)
  <2> DEFINE q == [p EXCEPT !.state = "EXPECT_KEY"]
  <2>1. q \in KvpType(S) /\ q.sent = p.sent /\ q.state = "EXPECT_KEY"
    BY <1>1, <1>3 DEF KvpType, KvpStates
  <2>2. Placing(q, i)
    BY <2>1 DEF Placing, InKey, InValue
  <2> QED
    BY <1>5, <1>9, <2>1, <2>2
<1>10. ASSUME KvpTurn(p, line, i) = p
       PROVE  KvpPlaced(KvpTurn(p, line, i), i)
  <2>1. Placing(p, i)
    BY <1>2, <1>3 DEF Placing, InKey, InValue
  <2> QED
    BY <1>1, <1>5, <1>10, <2>1
<1>11. ASSUME KvpTurn(p, line, i) = EndKey(p, i), InKey(p), p.key_start < i
       PROVE  KvpPlaced(KvpTurn(p, line, i), i)
  <2> DEFINE q == EndKey(p, i)
  <2>0. KvpTurn(p, line, i) = q
    BY <1>11
  <2>1. i - p.key_start \in Nat /\ 1 <= i - p.key_start /\ p.key_start + (i - p.key_start) = i
    BY <1>3, <1>11
  <2>2. /\ q \in KvpType(S) /\ q.sent = p.sent /\ q.state = "EXPECT_VALUE"
        /\ q.key_start = p.key_start /\ q.key_length = i - p.key_start
    BY <1>1, <1>3, <2>1 DEF KvpType, KvpStates, EndKey
  <2> HIDE DEF q
  <2>3. Placing(q, i)
    BY <1>2, <1>3, <1>11, <2>1, <2>2 DEF Placing, InKey, InValue
  <2> QED
    BY <1>5, <2>0, <2>2, <2>3
<1>12. ASSUME NEW b \in BOOLEAN, KvpTurn(p, line, i) = [p EXCEPT !.skip = b]
       PROVE  KvpPlaced(KvpTurn(p, line, i), i)
  <2> DEFINE q == [p EXCEPT !.skip = b]
  <2>0. KvpTurn(p, line, i) = q
    BY <1>12
  <2>1. /\ q \in KvpType(S) /\ q.sent = p.sent /\ q.state = p.state /\ q.key_start = p.key_start
        /\ q.key_length = p.key_length /\ q.value_start = p.value_start
    BY <1>1, <1>3 DEF KvpType
  <2> HIDE DEF q
  <2>2. Placing(q, i)
    BY <1>2, <1>3, <2>1 DEF Placing, InKey, InValue
  <2> QED
    BY <1>5, <2>0, <2>1, <2>2
<1>13. CASE ~p.skip /\ p.state = "SKIP_KEY"
  BY <1>9, <1>10, <1>13 DEF KvpTurn
<1>14. CASE ~p.skip /\ p.state = "READ_KEY"
  <2>1. KvpTurn(p, line, i) = ReadKey(p, c, i)
    BY <1>14 DEF KvpTurn
  <2>2. InKey(p) /\ p.key_start < i
    BY <1>2, <1>3, <1>14 DEF Placing, InKey
  <2> QED
    BY <1>9, <1>10, <1>11, <2>1, <2>2 DEF ReadKey
<1>15. CASE ~p.skip /\ p.state = "READ_QUOTED_KEY"
  <2>1. KvpTurn(p, line, i) = ReadQuotedKey(p, line, i)
    BY <1>15 DEF KvpTurn
  <2>2. CASE c = Quote
    <3> DEFINE q == [p EXCEPT !.state = "EXPECT_EQUALS"]
    <3>1. KvpTurn(p, line, i) = q
      BY <2>1, <2>2 DEF ReadQuotedKey
    <3>2. /\ q \in KvpType(S) /\ q.sent = p.sent /\ q.state = "EXPECT_EQUALS"
          /\ q.key_start = p.key_start
      BY <1>1, <1>3 DEF KvpType, KvpStates
    <3> HIDE DEF q
    <3>3. Placing(q, i)
      BY <1>2, <1>3, <1>15, <3>2 DEF Placing, InKey, InValue
    <3> QED
      BY <1>5, <3>1, <3>2, <3>3
  <2>3. CASE c # Quote
    <3>1. KvpTurn(p, line, i) = [p EXCEPT !.skip = Escapes(line, i)]
      BY <2>1, <2>3 DEF ReadQuotedKey
    <3>2. Escapes(line, i) \in BOOLEAN
      BY DEF Escapes
    <3> QED
      BY <1>12, <3>1, <3>2
  <2> QED
    BY <2>2, <2>3
<1>16. CASE ~p.skip /\ p.state = "EXPECT_EQUALS"
  <2>1. InKey(p) /\ p.key_start < i
    BY <1>2, <1>3, <1>16 DEF Placing, InKey
  <2>2. KvpTurn(p, line, i) \in {EndKey(p, i), [p EXCEPT !.state = "EXPECT_KEY"]}
    BY <1>16 DEF KvpTurn
  <2> QED
    BY <1>9, <1>11, <2>1, <2>2
<1>17. CASE ~p.skip /\ p.state = "EXPECT_VALUE"
  <2>1. KvpTurn(p, line, i) = ExpectValue(p, c, i)
    BY <1>17 DEF KvpTurn
  <2>2. CASE IsSpace(c)
    BY <1>9, <2>1, <2>2 DEF ExpectValue
  <2>3. CASE ~IsSpace(c)
    <3> DEFINE q == [p EXCEPT !.value_start = i,
                              !.state = IF c = Quote THEN "READ_QUOTED_VALUE" ELSE "READ_VALUE"]
    <3>1. KvpTurn(p, line, i) = q
      BY <2>1, <2>3 DEF ExpectValue
    <3>2. /\ q \in KvpType(S) /\ q.sent = p.sent /\ q.value_start = i
          /\ q.state \in {"READ_QUOTED_VALUE", "READ_VALUE"}
          /\ q.key_start = p.key_start /\ q.key_length = p.key_length
      BY <1>1, <1>3 DEF KvpType, KvpStates
    <3> HIDE DEF q
    <3>3. Placing(q, i)
      BY <1>2, <1>3, <1>17, <3>2 DEF Placing, InKey, InValue
    <3> QED
      BY <1>5, <3>1, <3>2, <3>3
  <2> QED
    BY <2>2, <2>3
<1>18. CASE ~p.skip /\ p.state = "READ_VALUE"
  <2>1. KvpTurn(p, line, i) = IF IsSpace(c) THEN send_pair(line, p, i - p.value_start) ELSE p
    BY <1>18 DEF KvpTurn
  <2>2. CASE IsSpace(c)
    <3>1. InValue(p) /\ p.value_start <= i - 1
      BY <1>2, <1>18 DEF Placing, InValue
    <3>2. PICK length \in Nat : length = i - p.value_start
      BY <1>3, <3>1
    <3>3. 1 <= length /\ p.value_start + length <= i + 1
      BY <1>3, <3>1, <3>2
    <3>4. PICK k \in Nat : k = i - 1 /\ k <= i
      OBVIOUS
    <3>5. SentInOrder(p.sent, k) /\ Placing(p, k)
      BY <1>2, <3>4
    <3> QED
      BY <1>1, <2>1, <2>2, <3>1, <3>2, <3>3, <3>4, <3>5, SentKeepsOrder
  <2> QED
    BY <1>10, <2>1, <2>2
<1>19. CASE ~p.skip /\ p.state = "READ_QUOTED_VALUE"
  <2>1. KvpTurn(p, line, i) = ReadQuotedValue(p, line, i)
    BY <1>19 DEF KvpTurn
  <2>2. CASE c = Quote
    <3>1. InValue(p) /\ p.value_start <= i - 1
      BY <1>2, <1>19 DEF Placing, InValue
    <3>2. PICK length \in Nat : length = i - p.value_start + 1
      BY <1>3, <3>1
    <3>3. 1 <= length /\ p.value_start + length <= i + 1
      BY <1>3, <3>1, <3>2
    <3>4. PICK k \in Nat : k = i - 1 /\ k <= i
      OBVIOUS
    <3>5. SentInOrder(p.sent, k) /\ Placing(p, k)
      BY <1>2, <3>4
    <3>6. KvpTurn(p, line, i) = send_pair(line, p, length)
      BY <2>1, <2>2, <3>2 DEF ReadQuotedValue
    <3> QED
      BY <1>1, <3>1, <3>3, <3>4, <3>5, <3>6, SentKeepsOrder
  <2>3. CASE c # Quote
    <3>1. KvpTurn(p, line, i) = [p EXCEPT !.skip = Escapes(line, i)]
      BY <2>1, <2>3 DEF ReadQuotedValue
    <3>2. Escapes(line, i) \in BOOLEAN
      BY DEF Escapes
    <3> QED
      BY <1>12, <3>1, <3>2
  <2> QED
    BY <2>2, <2>3
<1> QED
  BY <1>3, <1>7, <1>8, <1>13, <1>14, <1>15, <1>16, <1>17, <1>18, <1>19 DEF KvpStates

(* On a line of any length and characters the pairs do not overlap            *)
(* (kvp.c:212): each has a key and a value, the value behind the key, and the *)
(* next pair is behind it.                                                    *)
THEOREM PlacesCorrectness ==
  ASSUME NEW C
  PROVE  \A line \in Seq(C) : PairsInOrder(line)
<1> SUFFICES ASSUME NEW line \in Seq(C)
             PROVE  PairsInOrder(line)
  OBVIOUS
<1>1. PICK n \in Nat : n = Len(line)
  OBVIOUS
<1>2. PICK f : Parses(f, line, n) /\ nl_parse_kvp(line) = AtEnd(f[n], line).sent
  BY <1>1, ParserParses
<1> DEFINE T == {i \in Nat : i <= n => KvpPlaced(f[i], i)}
<1>3. 0 \in T
  <2>1. f[0] = KvpBegin
    BY <1>2 DEF Parses
  <2>2. KvpBegin \in KvpType({}) /\ KvpBegin.sent = <<>> /\ KvpBegin.state = "EXPECT_KEY"
    BY EmptySeq DEF KvpBegin, KvpType, KvpStates
  <2>3. SentInOrder(KvpBegin.sent, 0)
    BY <2>2 DEF SentInOrder
  <2>4. Placing(KvpBegin, 0)
    BY <2>2 DEF Placing, InKey, InValue
  <2>5. KvpPlaced(f[0], 0)
    BY <2>1, <2>2, <2>3, <2>4 DEF KvpPlaced
  <2> QED
    BY <2>5
<1>4. ASSUME NEW k \in Nat, k \in T
      PROVE  k + 1 \in T
  <2> SUFFICES ASSUME k + 1 <= n
               PROVE  KvpPlaced(f[k + 1], k + 1)
    OBVIOUS
  <2>1. PICK i \in 1..n : i = k + 1 /\ i - 1 = k
    OBVIOUS
  <2>2. f[i] = KvpTurn(f[i - 1], line, i)
    BY <1>2 DEF Parses
  <2>3. KvpPlaced(f[i - 1], i - 1)
    BY <1>4, <2>1
  <2> HIDE DEF T
  <2> QED
    BY <2>1, <2>2, <2>3, TurnKeepsOrder
<1>5. KvpPlaced(f[n], n)
  <2>1. n \in T
    <3> HIDE DEF T
    <3> QED
      BY <1>3, <1>4, SuccessorInduction
  <2> QED
    BY <2>1
<1> DEFINE p == f[n]
<1>6. KvpPlaced(AtEnd(p, line), n)
  <2>1. CASE InValue(p)
    <3>1. PICK S : p \in KvpType(S)
      BY <1>5 DEF KvpPlaced
    <3>2. SentInOrder(p.sent, n) /\ Placing(p, n)
      BY <1>5 DEF KvpPlaced
    <3>3. p.value_start \in Nat /\ p.value_start <= n
      BY <2>1, <3>1, <3>2 DEF KvpType, Placing
    <3>4. PICK length \in Nat : length = n + 1 - p.value_start
      BY <3>3
    <3>5. 1 <= length /\ p.value_start + length <= n + 1
      BY <3>3, <3>4
    <3>6. AtEnd(p, line) = send_pair(line, p, length)
      BY <1>1, <2>1, <3>4 DEF AtEnd, InValue
    <3> HIDE DEF p
    <3>7. n <= n
      OBVIOUS
    <3> QED
      BY <2>1, <3>1, <3>2, <3>5, <3>6, <3>7, SentKeepsOrder
  <2>2. CASE ~InValue(p)
    BY <1>5, <2>2 DEF AtEnd, InValue
  <2> QED
    BY <2>1, <2>2
<1> HIDE DEF p
<1>7. PICK e : e = AtEnd(p, line)
  OBVIOUS
<1>8. SentInOrder(e.sent, n) /\ \E S : e.sent \in Seq(S)
  BY <1>6, <1>7 DEF KvpPlaced, KvpType
<1>9. nl_parse_kvp(line) = e.sent
  BY <1>2, <1>7 DEF p
<1> QED
  BY <1>1, <1>8, <1>9 DEF PairsInOrder, SentInOrder

-----------------------------------------------------------------------------
(* What is written is read.                                                   *)

(* Place i is in one of the parts.                                            *)
InPart(i, places, parts, n) ==
  \E k \in 1..n : \E j \in 1..Len(parts[k]) : i = places[k - 1] + j

(* Each place of the whole is.                                                *)
LEMMA PlaceInPart ==
  ASSUME NEW n \in Nat, NEW whole, NEW h \in Nat, h = Len(whole), NEW places, NEW parts,
         Placed(whole, places, parts, n), \A k \in 1..n : Len(parts[k]) \in Nat,
         NEW i \in 1..h
  PROVE  InPart(i, places, parts, n)
<1>1. /\ places \in [0..n -> Nat] /\ places[0] = 0 /\ places[n] = h
      /\ \A k \in 1..n : places[k] = places[k - 1] + Len(parts[k])
  BY DEF Placed
<1> DEFINE S == {k \in 0..n : i <= places[k]}
<1>2. n \in S
  BY <1>1
<1>3. PICK k \in S : \A m \in S : k <= m
  <2>1. S \subseteq Nat /\ S # {}
    BY <1>2
  <2> HIDE DEF S
  <2> QED
    BY <2>1, SmallestMember
<1>4. k # 0
  BY <1>1
<1>5. k \in 1..n /\ k - 1 \in 0..n /\ k - 1 < k
  BY <1>4
<1>6. k - 1 \notin S
  <2> HIDE DEF S
  <2>1. k \in Nat /\ k - 1 \in Nat
    BY <1>5
  <2> QED
    BY <1>3, <1>5, <2>1
<1>7. PICK a \in Nat, b \in Nat, l \in Nat : a = places[k - 1] /\ b = places[k] /\ l = Len(parts[k])
  BY <1>1, <1>5
<1>8. a < i /\ i <= b /\ b = a + l
  BY <1>1, <1>3, <1>5, <1>6, <1>7
<1>9. PICK j \in 1..l : i = a + j
  <2>1. i - a \in 1..l /\ i = a + (i - a)
    BY <1>8
  <2> QED
    BY <2>1
<1> QED
  BY <1>5, <1>7, <1>9 DEF InPart

(* The quotes in an escaped text have backslashes before them, and a          *)
(* backslash at its end is one of the text.                                   *)
LEMMA EscapedGuarded ==
  ASSUME NEW C, NEW s \in Seq(C), NEW n \in Nat, n = Len(s),
         NEW e, e = nl_escape_string(s), NEW h \in Nat, h = Len(e)
  PROVE  /\ \A i \in 1..h : e[i] = Quote => i > 1 /\ e[i - 1] = Backslash
         /\ n = 0 => h = 0
         /\ n > 0 => h > 0 /\ (e[h] = Backslash => s[n] = Backslash)
<1> DEFINE parts == [k \in 1..n |-> Escaped(s[k])]
<1>1. PICK places : Placed(e, places, parts, n)
  BY StringEscaped
<1>2. ASSUME NEW k \in 1..n
      PROVE  \/ /\ HasEscape(s[k]) /\ Len(parts[k]) = 2
                /\ parts[k][1] = Backslash /\ parts[k][2] = esc_chars[s[k]]
             \/ ~HasEscape(s[k]) /\ Len(parts[k]) = 1 /\ parts[k][1] = s[k]
  <2>1. parts[k] = Escaped(s[k])
    OBVIOUS
  <2>2. PICK x, y, z : x = Backslash /\ y = esc_chars[s[k]] /\ z = s[k]
    OBVIOUS
  <2>3. parts[k] = IF HasEscape(z) THEN <<x, y>> ELSE <<z>>
    BY <2>1, <2>2 DEF Escaped
  <2> HIDE DEF parts
  <2>4. CASE HasEscape(z)
    <3>1. parts[k] = <<x, y>>
      BY <2>3, <2>4
    <3> QED
      BY <2>2, <2>4, <3>1
  <2>5. CASE ~HasEscape(z)
    <3>1. parts[k] = <<z>>
      BY <2>3, <2>5
    <3> QED
      BY <2>2, <2>5, <3>1
  <2> QED
    BY <2>4, <2>5
<1> HIDE DEF parts
<1>3. \A k \in 1..n : Len(parts[k]) \in 1..2
  BY <1>2
<1>3a. \A k \in 1..n : Len(parts[k]) \in Nat
  BY <1>2
<1>4. /\ places \in [0..n -> Nat] /\ places[0] = 0 /\ places[n] = h
      /\ \A k \in 1..n : places[k] = places[k - 1] + Len(parts[k])
      /\ \A k \in 1..n : \A j \in 1..Len(parts[k]) : e[places[k - 1] + j] = parts[k][j]
  BY <1>1 DEF Placed
<1>5. HasEscape(Quote) /\ HasEscape(Backslash) /\ Quote # Backslash
  BY DEF HasEscape, esc_chars, Quote, Backslash
<1>6. ASSUME NEW i \in 1..h, e[i] = Quote
      PROVE  i > 1 /\ e[i - 1] = Backslash
  <2>1. PICK k \in 1..n : \E j \in 1..Len(parts[k]) : i = places[k - 1] + j
    <3>1. InPart(i, places, parts, n)
      BY <1>1, <1>3a, PlaceInPart
    <3> QED
      BY <3>1 DEF InPart
  <2>2. PICK j \in 1..Len(parts[k]) : i = places[k - 1] + j
    BY <2>1
  <2>3. e[i] = parts[k][j]
    BY <1>4, <2>2
  <2>4. CASE ~HasEscape(s[k])
    <3>1. Len(parts[k]) = 1 /\ parts[k][1] = s[k]
      BY <1>2, <2>4
    <3>2. j = 1
      BY <3>1
    <3> QED
      BY <1>5, <1>6, <2>3, <2>4, <3>1, <3>2
  <2>5. CASE HasEscape(s[k])
    <3>1. Len(parts[k]) = 2 /\ parts[k][1] = Backslash
      BY <1>2, <2>5
    <3>2. j # 1
      BY <1>5, <1>6, <2>3, <3>1
    <3>3. j = 2
      BY <3>1, <3>2
    <3>4. PICK a \in Nat : a = places[k - 1]
      BY <1>4
    <3>5. i = a + 2 /\ i - 1 = a + 1
      BY <2>2, <3>3, <3>4
    <3>6. e[a + 1] = Backslash
      <4>1. PICK one \in 1..Len(parts[k]) : one = 1
        BY <3>1
      <4>2. e[places[k - 1] + one] = parts[k][one]
        BY <1>4
      <4> QED
        BY <3>1, <3>4, <4>1, <4>2
    <3> QED
      BY <3>4, <3>5, <3>6
  <2> QED
    BY <2>4, <2>5
<1>7. ASSUME n > 0
      PROVE  h > 0 /\ (e[h] = Backslash => s[n] = Backslash)
  <2>1. PICK k \in 1..n : k = n
    BY <1>7
  <2>2. PICK a \in Nat, l \in 1..2 : a = places[k - 1] /\ l = Len(parts[k])
    BY <1>3, <1>4
  <2>3. h = a + l /\ e[a + l] = parts[k][l]
    <3>1. places[k] = places[k - 1] + Len(parts[k]) /\ places[k] = h
      BY <1>4, <2>1
    <3>2. PICK j \in 1..Len(parts[k]) : j = l
      <4>1. l \in 1..l
        OBVIOUS
      <4> QED
        BY <2>2, <4>1
    <3>3. e[places[k - 1] + j] = parts[k][j]
      BY <1>4
    <3> QED
      BY <2>2, <3>1, <3>2, <3>3
  <2>4. CASE ~HasEscape(s[k])
    <3>1. l = 1 /\ parts[k][1] = s[k]
      BY <1>2, <2>2, <2>4
    <3> QED
      BY <1>5, <2>1, <2>3, <2>4, <3>1
  <2>5. CASE HasEscape(s[k])
    <3>1. l = 2 /\ parts[k][2] = esc_chars[s[k]]
      BY <1>2, <2>2, <2>5
    <3>2. esc_chars[s[k]] = Backslash => s[k] = Backslash
      BY <2>5 DEF esc_chars, HasEscape, Quote, Backslash
    <3> QED
      BY <2>1, <2>3, <3>1, <3>2
  <2> QED
    BY <2>4, <2>5
<1>8. n = 0 => h = 0
  BY <1>4
<1> QED
  BY <1>6, <1>7, <1>8

(* The parser, part by part.                                                  *)
ParserAt(state, skip, key_start, key_length, value_start, sent) ==
  [state |-> state, skip |-> skip, key_start |-> key_start, key_length |-> key_length,
   value_start |-> value_start, sent |-> sent]

(* It skips nothing.                                                          *)
No == FALSE

(* Its fields, and what an edit of one makes of it.                           *)
LEMMA ParserFields ==
  ASSUME NEW st, NEW sk, NEW ks, NEW kl, NEW vs, NEW sent, NEW p,
         p = ParserAt(st, sk, ks, kl, vs, sent)
  PROVE  /\ p.state = st /\ p.skip = sk /\ p.key_start = ks /\ p.key_length = kl
         /\ p.value_start = vs /\ p.sent = sent
BY DEF ParserAt

(* An edit of its state.                                                      *)
LEMMA StateEdit ==
  ASSUME NEW st, NEW sk, NEW ks, NEW kl, NEW vs, NEW sent, NEW p,
         p = ParserAt(st, sk, ks, kl, vs, sent), NEW x
  PROVE  [p EXCEPT !.state = x] = ParserAt(x, sk, ks, kl, vs, sent)
BY DEF ParserAt

(* An edit that begins a key.                                                 *)
KeyBegun(p, x, i) == [p EXCEPT !.key_start = i, !.state = x]

(* ... part by part.                                                          *)
LEMMA KeyBegins ==
  ASSUME NEW st, NEW sk, NEW ks, NEW kl, NEW vs, NEW sent, NEW p,
         p = ParserAt(st, sk, ks, kl, vs, sent), NEW x, NEW i
  PROVE  KeyBegun(p, x, i) = ParserAt(x, sk, i, kl, vs, sent)
<1>1. PICK r : r = [p EXCEPT !.key_start = i]
  OBVIOUS
<1>2. r = ParserAt(st, sk, i, kl, vs, sent)
  BY <1>1 DEF ParserAt
<1>3. [r EXCEPT !.state = x] = ParserAt(x, sk, i, kl, vs, sent)
  BY <1>2 DEF ParserAt
<1> QED
  BY <1>1, <1>3 DEF KeyBegun

(* An edit that begins a value.                                               *)
ValueBegun(p, x, i) == [p EXCEPT !.value_start = i, !.state = x]

(* ... part by part.                                                          *)
LEMMA ValueBegins ==
  ASSUME NEW st, NEW sk, NEW ks, NEW kl, NEW vs, NEW sent, NEW p,
         p = ParserAt(st, sk, ks, kl, vs, sent), NEW x, NEW i
  PROVE  ValueBegun(p, x, i) = ParserAt(x, sk, ks, kl, i, sent)
<1>1. PICK r : r = [p EXCEPT !.value_start = i]
  OBVIOUS
<1>2. r = ParserAt(st, sk, ks, kl, i, sent)
  BY <1>1 DEF ParserAt
<1>3. [r EXCEPT !.state = x] = ParserAt(x, sk, ks, kl, i, sent)
  BY <1>2 DEF ParserAt
<1> QED
  BY <1>1, <1>3 DEF ValueBegun

(* An edit that ends a key.                                                   *)
KeyEnded(p, x, i) == [p EXCEPT !.state = x, !.key_length = i]

(* ... part by part.                                                          *)
LEMMA KeyEnds ==
  ASSUME NEW st, NEW sk, NEW ks, NEW kl, NEW vs, NEW sent, NEW p,
         p = ParserAt(st, sk, ks, kl, vs, sent), NEW x, NEW i
  PROVE  KeyEnded(p, x, i) = ParserAt(x, sk, ks, i, vs, sent)
<1>1. PICK r : r = [p EXCEPT !.state = x]
  OBVIOUS
<1>2. r = ParserAt(x, sk, ks, kl, vs, sent)
  BY <1>1 DEF ParserAt
<1>3. [r EXCEPT !.key_length = i] = ParserAt(x, sk, ks, i, vs, sent)
  BY <1>2 DEF ParserAt
<1> QED
  BY <1>1, <1>3 DEF KeyEnded

(* An edit of what it skips.                                                  *)
LEMMA SkipEdit ==
  ASSUME NEW st, NEW sk, NEW ks, NEW kl, NEW vs, NEW sent, NEW p,
         p = ParserAt(st, sk, ks, kl, vs, sent), NEW x
  PROVE  [p EXCEPT !.skip = x] = ParserAt(st, x, ks, kl, vs, sent)
BY DEF ParserAt

(* A quoted part of a line: from quote b to quote c, where no quote between   *)
(* is without a backslash, and the last is.                                   *)
QuotedIn(line, b, c) ==
  /\ b < c /\ line[b] = Quote /\ line[c] = Quote /\ line[c - 1] # Backslash
  /\ \A i \in (b + 1)..(c - 1) : line[i] = Quote => line[i - 1] = Backslash

(* What a walk over a quoted part skips.                                      *)
Skips(line, i) == line[i] = Backslash /\ line[i + 1] = Quote

(* A walk over a quoted part: the quotes are skipped, up to the last.          *)
LEMMA QuotedWalk ==
  ASSUME NEW f, NEW line, NEW n \in Nat, n = Len(line), Parses(f, line, n),
         NEW st \in {"READ_QUOTED_KEY", "READ_QUOTED_VALUE"}, NEW ks, NEW kl, NEW vs, NEW sent,
         NEW b \in 1..n, NEW c \in 1..n, QuotedIn(line, b, c),
         f[b] = ParserAt(st, No, ks, kl, vs, sent)
  PROVE  f[c - 1] = ParserAt(st, No, ks, kl, vs, sent)
<1> DEFINE At(i) == f[i] = ParserAt(st, Skips(line, i), ks, kl, vs, sent)
           T == {d \in Nat : b + d < c => At(b + d)}
<1>0. /\ b < c /\ line[b] = Quote /\ line[c] = Quote /\ line[c - 1] # Backslash
      /\ \A i \in (b + 1)..(c - 1) : line[i] = Quote => line[i - 1] = Backslash
  BY DEF QuotedIn
<1>1. 0 \in T
  <2>1. Skips(line, b) = No
    BY <1>0 DEF No, Skips, Quote, Backslash
  <2>2. b + 0 = b
    OBVIOUS
  <2> QED
    BY <2>1, <2>2
<1>2. ASSUME NEW d \in Nat, d \in T
      PROVE  d + 1 \in T
  <2> SUFFICES ASSUME b + (d + 1) < c
               PROVE  At(b + (d + 1))
    OBVIOUS
  <2>1. PICK i \in 1..n : i = b + (d + 1)
    OBVIOUS
  <2>2. i - 1 = b + d /\ b + d < c /\ i < c /\ i < n /\ i \in (b + 1)..(c - 1) /\ (i - 1) + 1 = i
    BY <2>1
  <2>3. f[i - 1] = ParserAt(st, Skips(line, i - 1), ks, kl, vs, sent)
    BY <1>2, <2>2
  <2>4. f[i] = KvpTurn(f[i - 1], line, i)
    BY DEF Parses
  <2> HIDE DEF T
  <2>5. CASE Skips(line, i - 1)
    <3>1. PICK yes : yes = Skips(line, i - 1) /\ yes
      BY <2>5
    <3>2. PICK q : q = ParserAt(st, yes, ks, kl, vs, sent)
      OBVIOUS
    <3>5. q.skip = yes
      BY <3>2, ParserFields
    <3>7. f[i] = [q EXCEPT !.skip = No]
      BY <2>3, <2>4, <3>1, <3>2, <3>5 DEF No, KvpTurn
    <3>3. f[i] = ParserAt(st, No, ks, kl, vs, sent)
      BY <3>2, <3>7, SkipEdit
    <3>4. Skips(line, i) = No
      BY <2>2, <2>5 DEF No, Skips, Quote, Backslash
    <3> QED
      BY <2>1, <3>3, <3>4
  <2>6. CASE ~Skips(line, i - 1)
    <3>1. line[i] # Quote
      BY <1>0, <2>2, <2>6 DEF Skips
    <3>2. Skips(line, i - 1) = No /\ ~No
      BY <2>6 DEF No, Skips
    <3>3. PICK q : q = ParserAt(st, No, ks, kl, vs, sent)
      OBVIOUS
    <3>4. q.skip = No /\ q.state = st
      BY <3>3, ParserFields
    <3>5. f[i] = KvpTurn(q, line, i)
      BY <2>3, <2>4, <3>2, <3>3
    <3>6. f[i] = [q EXCEPT !.skip = Escapes(line, i)]
      <4>1. CASE st = "READ_QUOTED_KEY"
        BY <3>1, <3>2, <3>4, <3>5, <4>1 DEF No, KvpTurn, ReadQuotedKey
      <4>2. CASE st = "READ_QUOTED_VALUE"
        BY <3>1, <3>2, <3>4, <3>5, <4>2 DEF No, KvpTurn, ReadQuotedValue
      <4> QED
        BY <4>1, <4>2
    <3>7. Escapes(line, i) = Skips(line, i)
      BY <2>2 DEF Escapes, Skips
    <3>8. f[i] = ParserAt(st, Skips(line, i), ks, kl, vs, sent)
      <4>1. PICK x : x = Escapes(line, i)
        OBVIOUS
      <4> QED
        BY <3>3, <3>6, <3>7, <4>1, SkipEdit
    <3> QED
      BY <2>1, <3>8
  <2> QED
    BY <2>5, <2>6
<1>3. PICK d \in Nat : d = c - 1 - b
  BY <1>0
<1>4. d \in T
  <2> HIDE DEF T
  <2> QED
    BY <1>1, <1>2, SuccessorInduction
<1>5. At(c - 1)
  <2>1. b + d = c - 1 /\ b + d < c
    BY <1>3
  <2> QED
    BY <1>4, <2>1
<1>6. Skips(line, c - 1) = No
  BY <1>0 DEF No, Skips
<1> QED
  BY <1>5, <1>6

(* Places b to c of a line, none of them a space or the end of a key or value. *)
PlainIn(line, b, c, ends) == \A i \in b..c : ~IsSpace(line[i]) /\ line[i] # ends

(* A walk over characters that end neither a key nor a value.                 *)
LEMMA PlainWalk ==
  ASSUME NEW f, NEW line, NEW n \in Nat, Parses(f, line, n),
         NEW st \in {"READ_KEY", "READ_VALUE"}, NEW ks, NEW kl, NEW vs, NEW sent,
         NEW b \in 1..n, NEW c \in 1..n, b <= c,
         NEW ends, PlainIn(line, b, c, ends), st = "READ_KEY" => ends = "=",
         f[b] = ParserAt(st, No, ks, kl, vs, sent)
  PROVE  f[c] = ParserAt(st, No, ks, kl, vs, sent)
<1> DEFINE T == {d \in Nat : b + d <= c => f[b + d] = f[b]}
<1>1. 0 \in T
  <2>1. b + 0 = b
    OBVIOUS
  <2> QED
    BY <2>1
<1>2. ASSUME NEW d \in Nat, d \in T
      PROVE  d + 1 \in T
  <2> SUFFICES ASSUME b + (d + 1) <= c
               PROVE  f[b + (d + 1)] = f[b]
    OBVIOUS
  <2>1. PICK i \in 1..n : i = b + (d + 1)
    OBVIOUS
  <2>2. i - 1 = b + d /\ b + d <= c /\ i \in b..c
    BY <2>1
  <2>3. f[i - 1] = f[b]
    BY <1>2, <2>2
  <2>4. f[i] = KvpTurn(f[i - 1], line, i)
    BY DEF Parses
  <2>5. PICK q : q = f[b]
    OBVIOUS
  <2>6. q.state = st /\ q.skip = No
    BY <2>5, ParserFields
  <2>7. ~IsSpace(line[i]) /\ (st = "READ_KEY" => line[i] # "=")
    BY <2>2 DEF PlainIn
  <2>8. KvpTurn(q, line, i) = q
    <3>1. CASE st = "READ_KEY"
      BY <2>5, <2>6, <2>7, <3>1 DEF No, KvpTurn, ReadKey
    <3>2. CASE st = "READ_VALUE"
      BY <2>5, <2>6, <2>7, <3>2 DEF No, KvpTurn
    <3> QED
      BY <3>1, <3>2
  <2> QED
    BY <2>1, <2>3, <2>4, <2>5, <2>8
<1>3. PICK d \in Nat : d = c - b
  OBVIOUS
<1>4. d \in T
  <2> HIDE DEF T
  <2> QED
    BY <1>1, <1>2, SuccessorInduction
<1> QED
  BY <1>3, <1>4

(* What is written at places b to c of a line: within quotes, or plain.       *)
WrittenIn(line, b, c, quoted, ends) ==
  /\ quoted => QuotedIn(line, b, c)
  /\ ~quoted => line[b] # Quote /\ PlainIn(line, b, c, ends)

(* A key and the equals sign behind it.                                       *)
LEMMA KeyWalk ==
  ASSUME NEW f, NEW line, NEW n \in Nat, n = Len(line), Parses(f, line, n),
         NEW ks, NEW kl, NEW vs, NEW sent,
         NEW b \in 1..n, NEW c \in 1..n, b <= c, c < n, NEW quoted \in BOOLEAN,
         WrittenIn(line, b, c, quoted, "="), line[c + 1] = "=",
         f[b - 1] = ParserAt("EXPECT_KEY", No, ks, kl, vs, sent)
  PROVE  f[c + 1] = ParserAt("EXPECT_VALUE", No, b, c + 1 - b, vs, sent)
<1>1. f[b] = KvpTurn(f[b - 1], line, b)
  BY DEF Parses
<1>2. PICK p, st : p = f[b - 1] /\ st = "EXPECT_KEY" /\ p = ParserAt(st, No, ks, kl, vs, sent)
  OBVIOUS
<1>3. p.state = st /\ p.skip = No
  BY <1>2, ParserFields
<1>4. PICK e \in 1..n : e = c + 1 /\ e - 1 = c
  OBVIOUS
<1>5. f[e] = KvpTurn(f[e - 1], line, e)
  BY DEF Parses
<1>6. ASSUME NEW state, f[c] = ParserAt(state, No, b, kl, vs, sent),
             state \in {"READ_KEY", "EXPECT_EQUALS"}
      PROVE  f[c + 1] = ParserAt("EXPECT_VALUE", No, b, c + 1 - b, vs, sent)
  <2>1. PICK q : q = f[c]
    OBVIOUS
  <2>2. PICK x, l : x = "EXPECT_VALUE" /\ l = c + 1 - b
    OBVIOUS
  <2>3. q = ParserAt(state, No, b, kl, vs, sent)
    BY <1>6, <2>1
  <2>4. q.state = state /\ q.skip = No /\ q.key_start = b
    BY <2>3, ParserFields
  <2>5. KvpTurn(q, line, e) = EndKey(q, e)
    <3>1. line[e] = "=" /\ ~IsSpace(line[e])
      BY <1>4 DEF IsSpace
    <3>2. CASE state = "READ_KEY"
      BY <1>2, <2>4, <3>1, <3>2 DEF No, KvpTurn, ReadKey
    <3>3. CASE state = "EXPECT_EQUALS"
      BY <1>2, <2>4, <3>1, <3>3 DEF No, KvpTurn
    <3> QED
      BY <1>6, <3>2, <3>3
  <2>6. EndKey(q, e) = [q EXCEPT !.state = x, !.key_length = l]
    <3>1. e - b = l
      BY <1>4, <2>2
    <3> QED
      BY <2>2, <2>4, <3>1 DEF EndKey
  <2>7. PICK r : r = f[e] /\ r = KeyEnded(q, x, l)
    BY <1>4, <1>5, <2>1, <2>5, <2>6 DEF KeyEnded
  <2>8. r = ParserAt(x, No, b, l, vs, sent)
    BY <2>3, <2>7, KeyEnds
  <2> QED
    BY <1>4, <2>2, <2>7, <2>8
<1>7. CASE ~quoted
  <2>1. PICK ends : ends = "=" /\ line[b] # Quote /\ PlainIn(line, b, c, ends)
    BY <1>7 DEF WrittenIn
  <2>2. ~IsSpace(line[b]) /\ line[b] # "="
    BY <2>1 DEF PlainIn
  <2>3. PICK x : x = "READ_KEY"
    OBVIOUS
  <2>4. KvpTurn(p, line, b) = [p EXCEPT !.key_start = b, !.state = x]
    BY <1>2, <1>3, <2>1, <2>2, <2>3 DEF No, KvpTurn, ExpectKey
  <2>5. PICK r : r = f[b] /\ r = KeyBegun(p, x, b)
    BY <1>1, <1>2, <2>4 DEF KeyBegun
  <2>6. f[b] = ParserAt(x, No, b, kl, vs, sent)
    BY <1>2, <2>5, KeyBegins
  <2>7. f[c] = ParserAt(x, No, b, kl, vs, sent)
    <3>3. x \in {"READ_KEY", "READ_VALUE"}
      BY <2>3
    <3> QED
      BY <2>1, <2>3, <2>6, <3>3, PlainWalk
  <2> QED
    BY <1>6, <2>3, <2>7
<1>8. CASE quoted
  <2>1. QuotedIn(line, b, c)
    BY <1>8 DEF WrittenIn
  <2>2. b < c /\ line[b] = Quote /\ line[c] = Quote
    BY <2>1 DEF QuotedIn
  <2>3. PICK x, y : x = "READ_QUOTED_KEY" /\ y = "EXPECT_EQUALS"
    OBVIOUS
  <2>4. KvpTurn(p, line, b) = [p EXCEPT !.key_start = b, !.state = x]
    BY <1>2, <1>3, <2>2, <2>3 DEF No, KvpTurn, ExpectKey, IsSpace, Quote
  <2>5. PICK r : r = f[b] /\ r = KeyBegun(p, x, b)
    BY <1>1, <1>2, <2>4 DEF KeyBegun
  <2>6. f[b] = ParserAt(x, No, b, kl, vs, sent)
    BY <1>2, <2>5, KeyBegins
  <2>7. f[c - 1] = ParserAt(x, No, b, kl, vs, sent)
    <3>1. x \in {"READ_QUOTED_KEY", "READ_QUOTED_VALUE"}
      BY <2>3
    <3> QED
      BY <2>1, <2>6, <3>1, QuotedWalk
  <2>8. f[c] = KvpTurn(f[c - 1], line, c)
    BY DEF Parses
  <2>9. PICK q : q = f[c - 1] /\ q = ParserAt(x, No, b, kl, vs, sent)
    BY <2>7
  <2>10. q.state = x /\ q.skip = No
    BY <2>9, ParserFields
  <2>11. KvpTurn(q, line, c) = [q EXCEPT !.state = y]
    BY <1>2, <2>2, <2>3, <2>10 DEF No, KvpTurn, ReadQuotedKey
  <2>12. [q EXCEPT !.state = y] = ParserAt(y, No, b, kl, vs, sent)
    BY <2>9, StateEdit
  <2>13. f[c] = ParserAt(y, No, b, kl, vs, sent)
    BY <1>2, <2>8, <2>9, <2>11, <2>12
  <2> QED
    BY <1>6, <2>3, <2>13
<1> QED
  BY <1>7, <1>8

(* The pair whose key and value are at these places.                          *)
PairAt(line, ks, kl, vs, vl) ==
  [key |-> Dequoted(SubSeq(line, ks, ks + kl - 1)),
   value |-> Dequoted(SubSeq(line, vs, vs + vl - 1)),
   quoted |-> SubSeq(line, vs, vs + vl - 1)[1] = Quote,
   places |-> <<ks, ks + kl, vs, vs + vl>>]

(* send_pair() sends it.                                                      *)
LEMMA SendsPair ==
  ASSUME NEW line, NEW st, NEW sk, NEW ks, NEW kl, NEW vs, NEW sent, NEW vl, NEW p,
         p = ParserAt(st, sk, ks, kl, vs, sent)
  PROVE  send_pair(line, p, vl)
           = ParserAt("EXPECT_KEY", sk, ks, kl, vs, Append(sent, PairAt(line, ks, kl, vs, vl)))
<1>1. /\ p.state = st /\ p.skip = sk /\ p.key_start = ks /\ p.key_length = kl
      /\ p.value_start = vs /\ p.sent = sent
  BY ParserFields
<1>2. PICK x, pair : x = "EXPECT_KEY" /\ pair = PairAt(line, ks, kl, vs, vl)
  OBVIOUS
<1>3. PICK more : more = Append(sent, pair)
  OBVIOUS
<1>4. send_pair(line, p, vl) = [p EXCEPT !.state = x, !.sent = more]
  BY <1>1, <1>2, <1>3 DEF send_pair, PairAt
<1>5. PICK q : q = [p EXCEPT !.state = x]
  OBVIOUS
<1>6. q = ParserAt(x, sk, ks, kl, vs, sent)
  BY <1>5, StateEdit
<1>7. [p EXCEPT !.state = x, !.sent = more] = [q EXCEPT !.sent = more]
  BY <1>5
<1>8. [q EXCEPT !.sent = more] = ParserAt(x, sk, ks, kl, vs, more)
  BY <1>6 DEF ParserAt
<1> QED
  BY <1>2, <1>3, <1>4, <1>7, <1>8

Blank == " "

(* What a value leaves behind it.                                             *)
ValueRead(p, quoted, ks, kl, b, sent, pair) ==
  /\ ~quoted => p = ParserAt("READ_VALUE", No, ks, kl, b, sent)
  /\ quoted => p = ParserAt("EXPECT_KEY", No, ks, kl, b, Append(sent, pair))

(* A value, up to its last character: a quoted one is sent with its pair.      *)
LEMMA ValueWalk ==
  ASSUME NEW f, NEW line, NEW n \in Nat, n = Len(line), Parses(f, line, n),
         NEW ks, NEW kl, NEW vs, NEW sent,
         NEW b \in 1..n, NEW c \in 1..n, b <= c, NEW quoted \in BOOLEAN,
         WrittenIn(line, b, c, quoted, Blank),
         f[b - 1] = ParserAt("EXPECT_VALUE", No, ks, kl, vs, sent),
         NEW pair, pair = PairAt(line, ks, kl, b, c + 1 - b)
  PROVE  ValueRead(f[c], quoted, ks, kl, b, sent, pair)
<1>1. f[b] = KvpTurn(f[b - 1], line, b)
  BY DEF Parses
<1>2. PICK p, st : p = f[b - 1] /\ st = "EXPECT_VALUE" /\ p = ParserAt(st, No, ks, kl, vs, sent)
  OBVIOUS
<1>3. p.state = st /\ p.skip = No
  BY <1>2, ParserFields
<1>7. ASSUME ~quoted
      PROVE  f[c] = ParserAt("READ_VALUE", No, ks, kl, b, sent)
  <2>1. PICK ends : ends = Blank /\ line[b] # Quote /\ PlainIn(line, b, c, ends)
    BY <1>7 DEF WrittenIn
  <2>2. ~IsSpace(line[b])
    BY <2>1 DEF PlainIn
  <2>3. PICK x : x = "READ_VALUE"
    OBVIOUS
  <2>4. KvpTurn(p, line, b) = [p EXCEPT !.value_start = b, !.state = x]
    BY <1>2, <1>3, <2>1, <2>2, <2>3 DEF No, KvpTurn, ExpectValue
  <2>5. PICK r : r = f[b] /\ r = ValueBegun(p, x, b)
    BY <1>1, <1>2, <2>4 DEF ValueBegun
  <2>6. f[b] = ParserAt(x, No, ks, kl, b, sent)
    BY <1>2, <2>5, ValueBegins
  <2>7. f[c] = ParserAt(x, No, ks, kl, b, sent)
    <3>3. x \in {"READ_KEY", "READ_VALUE"} /\ x # "READ_KEY"
      BY <2>3
    <3> QED
      BY <2>1, <2>6, <3>3, PlainWalk
  <2> QED
    BY <2>3, <2>7
<1>8. ASSUME quoted
      PROVE  f[c] = ParserAt("EXPECT_KEY", No, ks, kl, b, Append(sent, pair))
  <2>1. QuotedIn(line, b, c)
    BY <1>8 DEF WrittenIn
  <2>2. b < c /\ line[b] = Quote /\ line[c] = Quote
    BY <2>1 DEF QuotedIn
  <2>3. PICK x : x = "READ_QUOTED_VALUE"
    OBVIOUS
  <2>4. KvpTurn(p, line, b) = [p EXCEPT !.value_start = b, !.state = x]
    BY <1>2, <1>3, <2>2, <2>3 DEF No, KvpTurn, ExpectValue, IsSpace, Quote
  <2>5. PICK r : r = f[b] /\ r = ValueBegun(p, x, b)
    BY <1>1, <1>2, <2>4 DEF ValueBegun
  <2>6. f[b] = ParserAt(x, No, ks, kl, b, sent)
    BY <1>2, <2>5, ValueBegins
  <2>7. f[c - 1] = ParserAt(x, No, ks, kl, b, sent)
    <3>1. x \in {"READ_QUOTED_KEY", "READ_QUOTED_VALUE"}
      BY <2>3
    <3> QED
      BY <2>1, <2>6, <3>1, QuotedWalk
  <2>8. f[c] = KvpTurn(f[c - 1], line, c)
    BY DEF Parses
  <2>9. PICK q : q = f[c - 1] /\ q = ParserAt(x, No, ks, kl, b, sent)
    BY <2>7
  <2>10. q.state = x /\ q.skip = No /\ q.value_start = b
    BY <2>9, ParserFields
  <2>11. PICK vl : vl = c + 1 - b /\ vl = c - b + 1
    OBVIOUS
  <2>12. KvpTurn(q, line, c) = send_pair(line, q, vl)
    BY <1>2, <2>2, <2>3, <2>10, <2>11 DEF No, KvpTurn, ReadQuotedValue
  <2>13. send_pair(line, q, vl)
           = ParserAt("EXPECT_KEY", No, ks, kl, b, Append(sent, PairAt(line, ks, kl, b, vl)))
    BY <2>9, SendsPair
  <2> QED
    BY <2>8, <2>9, <2>11, <2>12, <2>13
<1> QED
  BY <1>7, <1>8 DEF ValueRead

(* The space behind a value sends the pair, if its quote has not.              *)
LEMMA ValueSent ==
  ASSUME NEW f, NEW line, NEW n \in Nat, n = Len(line), Parses(f, line, n),
         NEW ks, NEW kl, NEW vs, NEW sent,
         NEW b \in 1..n, NEW c \in 1..n, b <= c, c < n, NEW quoted \in BOOLEAN,
         WrittenIn(line, b, c, quoted, Blank), line[c + 1] = Blank,
         f[b - 1] = ParserAt("EXPECT_VALUE", No, ks, kl, vs, sent),
         NEW pair, pair = PairAt(line, ks, kl, b, c + 1 - b)
  PROVE  f[c + 1] = ParserAt("EXPECT_KEY", No, ks, kl, b, Append(sent, pair))
<1>1. PICK e \in 1..n : e = c + 1 /\ e - 1 = c
  OBVIOUS
<1>2. f[e] = KvpTurn(f[e - 1], line, e)
  BY DEF Parses
<1>3. IsSpace(line[e]) /\ line[e] # "="
  BY <1>1 DEF IsSpace, Blank
<1>4. PICK q : q = f[c] /\ q = f[e - 1]
  BY <1>1
<1>4a. ValueRead(q, quoted, ks, kl, b, sent, pair)
  BY <1>4, ValueWalk
<1>5. CASE ~quoted
  <2>1. PICK x : x = "READ_VALUE" /\ q = ParserAt(x, No, ks, kl, b, sent)
    BY <1>4a, <1>5 DEF ValueRead
  <2>2. q.state = x /\ q.skip = No /\ q.value_start = b
    BY <2>1, ParserFields
  <2>3. PICK vl : vl = c + 1 - b /\ vl = e - b
    BY <1>1
  <2>4. KvpTurn(q, line, e) = send_pair(line, q, vl)
    BY <1>3, <2>1, <2>2, <2>3 DEF No, KvpTurn
  <2>5. send_pair(line, q, vl)
          = ParserAt("EXPECT_KEY", No, ks, kl, b, Append(sent, PairAt(line, ks, kl, b, vl)))
    BY <2>1, SendsPair
  <2> QED
    BY <1>1, <1>2, <1>4, <2>3, <2>4, <2>5
<1>6. CASE quoted
  <2>1. PICK x : x = "EXPECT_KEY" /\ q = ParserAt(x, No, ks, kl, b, Append(sent, pair))
    BY <1>4a, <1>6 DEF ValueRead
  <2>2. q.state = x /\ q.skip = No
    BY <2>1, ParserFields
  <2>3. KvpTurn(q, line, e) = q
    BY <1>3, <2>1, <2>2 DEF No, KvpTurn, ExpectKey
  <2> QED
    BY <1>1, <1>2, <1>4, <2>1, <2>3
<1> QED
  BY <1>5, <1>6

(* Two pairs sent, one after the other.                                       *)
LEMMA TwoAppended ==
  ASSUME NEW u, NEW v
  PROVE  Append(Append(<<>>, u), v) = <<u, v>>
<1>0. PICK S : u \in S /\ v \in S
  <2> WITNESS {u, v}
  <2> QED
    OBVIOUS
<1>1. <<>> \in Seq(S) /\ <<u, v>> \in Seq(S)
  BY <1>0, EmptySeq
<1>2. PICK e \in Seq(S) : e = <<>>
  BY <1>1
<1>3. PICK s \in Seq(S) : s = Append(e, u) /\ Len(s) = 1 /\ s[1] = u
  <2>1. Append(e, u) \in Seq(S)
    BY <1>0, AppendProperties
  <2>2. Len(e) = 0
    BY <1>2
  <2>3. Len(Append(e, u)) = 1 /\ Append(e, u)[1] = u
    BY <1>0, <2>2, AppendProperties
  <2> QED
    BY <2>1, <2>3
<1>4. PICK t \in Seq(S) : t = <<u, v>>
  BY <1>1
<1>7. PICK r \in Seq(S) : r = Append(s, v) /\ Len(r) = 2 /\ r[1] = u /\ r[2] = v
  <2>1. Append(s, v) \in Seq(S)
    BY <1>0, AppendProperties
  <2>2. Len(Append(s, v)) = 2 /\ Append(s, v)[2] = v /\ Append(s, v)[1] = s[1]
    BY <1>0, <1>3, AppendProperties
  <2> QED
    BY <1>3, <2>1, <2>2
<1>8. Len(t) = 2 /\ t[1] = u /\ t[2] = v
  BY <1>4
<1>9. \A i \in 1..Len(r) : r[i] = t[i]
  BY <1>7, <1>8
<1> QED
  BY <1>2, <1>3, <1>4, <1>7, <1>8, <1>9, SeqEqual

(* A line of two pairs, the second one as short as pairs are.                  *)
PairLine(line, n, a, c, qk, qv) ==
  /\ n = Len(line) /\ 1 <= a /\ a + 2 <= c /\ c + 4 = n
  /\ WrittenIn(line, 1, a, qk, "=") /\ line[a + 1] = "="
  /\ WrittenIn(line, a + 2, c, qv, Blank) /\ line[c + 1] = Blank
  /\ line[c + 2] = "z" /\ line[c + 3] = "=" /\ line[c + 4] = "z"

(* Both are read, each at its place.                                           *)
LEMMA PairsRead ==
  ASSUME NEW C, NEW line \in Seq(C), NEW n \in Nat, NEW a \in Nat, NEW c \in Nat,
         NEW qk \in BOOLEAN, NEW qv \in BOOLEAN, PairLine(line, n, a, c, qk, qv)
  PROVE  nl_parse_kvp(line)
           = <<PairAt(line, 1, a, a + 2, c - a - 1), PairAt(line, c + 2, 1, c + 4, 1)>>
<1>0. /\ n = Len(line) /\ 1 <= a /\ a + 2 <= c /\ c + 4 = n
      /\ WrittenIn(line, 1, a, qk, "=") /\ line[a + 1] = "="
      /\ WrittenIn(line, a + 2, c, qv, Blank) /\ line[c + 1] = Blank
      /\ line[c + 2] = "z" /\ line[c + 3] = "=" /\ line[c + 4] = "z"
  BY DEF PairLine
<1>1. PICK f : Parses(f, line, n) /\ nl_parse_kvp(line) = AtEnd(f[n], line).sent
  BY <1>0, ParserParses
<1> DEFINE one == PairAt(line, 1, a, a + 2, c - a - 1)
           two == PairAt(line, c + 2, 1, c + 4, 1)
<1>2. f[0] = ParserAt("EXPECT_KEY", No, 1, 0, 1, <<>>)
  BY <1>1 DEF Parses, KvpBegin, ParserAt, No
<1>3. f[a + 1] = ParserAt("EXPECT_VALUE", No, 1, a, 1, <<>>)
  <2>1. PICK b \in 1..n, e \in 1..n : b = 1 /\ b - 1 = 0 /\ e = a /\ e < n /\ b <= e
    BY <1>0
  <2>2. PICK none, zero, x : none = <<>> /\ zero = 0 /\ x = 1
    OBVIOUS
  <2>3. f[b - 1] = ParserAt("EXPECT_KEY", No, x, zero, x, none)
    BY <1>2, <2>1, <2>2
  <2>4. WrittenIn(line, b, e, qk, "=") /\ line[e + 1] = "="
    BY <1>0, <2>1
  <2>5. f[e + 1] = ParserAt("EXPECT_VALUE", No, b, e + 1 - b, x, none)
    BY <1>0, <1>1, <2>1, <2>3, <2>4, KeyWalk
  <2>6. e + 1 - b = a
    BY <2>1
  <2> QED
    BY <2>1, <2>2, <2>5, <2>6
<1>4. f[c + 1] = ParserAt("EXPECT_KEY", No, 1, a, a + 2, Append(<<>>, one))
  <2>1. PICK b \in 1..n, e \in 1..n : b = a + 2 /\ b - 1 = a + 1 /\ e = c /\ e < n /\ b <= e
    BY <1>0
  <2>2. PICK none, x : none = <<>> /\ x = 1
    OBVIOUS
  <2>3. f[b - 1] = ParserAt("EXPECT_VALUE", No, x, a, x, none)
    BY <1>3, <2>1, <2>2
  <2>4. WrittenIn(line, b, e, qv, Blank) /\ line[e + 1] = Blank
    BY <1>0, <2>1
  <2>5. PICK pair : pair = PairAt(line, x, a, b, e + 1 - b)
    OBVIOUS
  <2>6. f[e + 1] = ParserAt("EXPECT_KEY", No, x, a, b, Append(none, pair))
    BY <1>0, <1>1, <2>1, <2>3, <2>4, <2>5, ValueSent
  <2>7. e + 1 - b = c - a - 1
    BY <2>1
  <2> QED
    BY <2>1, <2>2, <2>5, <2>6, <2>7
<1>5. \A ends : \A i \in {c + 2, c + 4} : ends \in {"=", Blank} => WrittenIn(line, i, i, No, ends)
  <2> SUFFICES ASSUME NEW ends \in {"=", Blank}, NEW i \in {c + 2, c + 4}
               PROVE  WrittenIn(line, i, i, No, ends)
    OBVIOUS
  <2>1. line[i] = "z"
    BY <1>0
  <2>2. \A j \in i..i : j = i
    OBVIOUS
  <2> QED
    BY <2>1, <2>2 DEF WrittenIn, PlainIn, IsSpace, Quote, Blank, No
<1> HIDE DEF one, two
<1>6. PICK sent : sent = Append(<<>>, one)
  OBVIOUS
<1>7. f[c + 3] = ParserAt("EXPECT_VALUE", No, c + 2, 1, a + 2, sent)
  <2>1. PICK b \in 1..n : b = c + 2 /\ b - 1 = c + 1 /\ b < n
    BY <1>0
  <2>2. PICK x, start : x = 1 /\ start = a + 2
    OBVIOUS
  <2>3. f[b - 1] = ParserAt("EXPECT_KEY", No, x, a, start, sent)
    BY <1>4, <1>6, <2>1, <2>2
  <2>4. WrittenIn(line, b, b, No, "=") /\ line[b + 1] = "="
    BY <1>0, <1>5, <2>1, <2>2
  <2>5. No \in BOOLEAN /\ b <= b
    BY DEF No
  <2>6. f[b + 1] = ParserAt("EXPECT_VALUE", No, b, b + 1 - b, start, sent)
    BY <1>0, <1>1, <2>1, <2>3, <2>4, <2>5, KeyWalk
  <2>7. b + 1 - b = 1 /\ b + 1 = c + 3
    BY <2>1
  <2> QED
    BY <2>1, <2>2, <2>6, <2>7
<1>8. f[n] = ParserAt("READ_VALUE", No, c + 2, 1, c + 4, sent)
  <2>1. PICK b \in 1..n : b = c + 4 /\ b - 1 = c + 3 /\ b = n
    BY <1>0
  <2>2. PICK x, key, start : x = 1 /\ key = c + 2 /\ start = a + 2
    OBVIOUS
  <2>3. f[b - 1] = ParserAt("EXPECT_VALUE", No, key, x, start, sent)
    BY <1>7, <2>1, <2>2
  <2>4. WrittenIn(line, b, b, No, Blank)
    BY <1>5, <2>1, <2>2
  <2>5. No \in BOOLEAN /\ b <= b /\ ~No
    BY DEF No
  <2>6. PICK pair : pair = PairAt(line, key, x, b, b + 1 - b)
    OBVIOUS
  <2>8. ValueRead(f[b], No, key, x, b, sent, pair)
    BY <1>0, <1>1, <2>3, <2>4, <2>5, <2>6, ValueWalk
  <2>7. f[b] = ParserAt("READ_VALUE", No, key, x, b, sent)
    BY <2>5, <2>8 DEF ValueRead
  <2> QED
    BY <2>1, <2>2, <2>7
<1>9. AtEnd(f[n], line).sent = Append(sent, two)
  <2>1. PICK p, x, key, y, v : /\ x = "READ_VALUE" /\ key = c + 2 /\ y = 1 /\ v = c + 4
                              /\ p = f[n] /\ p = ParserAt(x, No, key, y, v, sent)
    BY <1>8
  <2>2. p.state = x /\ p.value_start = v
    BY <2>1, ParserFields
  <2>3. Len(line) + 1 - v = y
    BY <1>0, <2>1
  <2>4. AtEnd(p, line) = send_pair(line, p, y)
    BY <2>1, <2>2, <2>3 DEF AtEnd
  <2>5. send_pair(line, p, y)
          = ParserAt("EXPECT_KEY", No, key, y, v, Append(sent, PairAt(line, key, y, v, y)))
    BY <2>1, SendsPair
  <2>6. PICK e, z, all : /\ e = AtEnd(p, line) /\ z = "EXPECT_KEY"
                         /\ all = Append(sent, PairAt(line, key, y, v, y))
    OBVIOUS
  <2>7. e = ParserAt(z, No, key, y, v, all)
    BY <2>4, <2>5, <2>6
  <2>8. e.sent = all
    BY <2>7, ParserFields
  <2> QED
    BY <2>1, <2>6, <2>8 DEF two
<1>10. Append(sent, two) = <<one, two>>
  BY <1>6, TwoAppended
<1> QED
  BY <1>1, <1>9, <1>10 DEF one, two

-----------------------------------------------------------------------------
(* What is written.                                                           *)

(* A part of a line is cut out of it as it was.                               *)
LEMMA PartCut ==
  ASSUME NEW D, NEW line \in Seq(D), NEW w \in Seq(D), NEW m \in Nat, m = Len(w), m > 0,
         NEW n \in Nat, NEW off \in Nat, HoldsAt(line, n, off, w)
  PROVE  SubSeq(line, off + 1, off + m) = w
<1>1. n = Len(line) /\ off + m <= n /\ \A j \in 1..m : line[off + j] = w[j]
  BY DEF HoldsAt
<1>2. PICK b \in Int, e \in Int : b = off + 1 /\ e = off + m /\ b <= e /\ e - b + 1 = m
  OBVIOUS
<1>3. \A i \in b..e : line[i] \in D
  BY <1>1, <1>2, ElementOfSeq
<1>4. PICK t \in Seq(D) : t = SubSeq(line, b, e)
  BY <1>3, SubSeqProperties
<1>5. Len(t) = m
  BY <1>2, <1>3, <1>4, SubSeqProperties
<1>6. \A i \in 1..(e - b + 1) : t[i] = line[b + i - 1]
  BY <1>3, <1>4, SubSeqProperties
<1>7. ASSUME NEW i \in 1..m
      PROVE  t[i] = w[i]
  <2>1. b + i - 1 = off + i
    BY <1>2
  <2> QED
    BY <1>1, <1>2, <1>6, <2>1
<1>8. t = w
  BY <1>5, <1>7, SeqEqual
<1> QED
  BY <1>2, <1>4, <1>8

(* What is written in a part is written in the line.                          *)
LEMMA PartMoves ==
  ASSUME NEW line, NEW w, NEW m \in Nat, m = Len(w), m > 0, NEW n \in Nat, NEW off \in Nat,
         HoldsAt(line, n, off, w), NEW quoted \in BOOLEAN, NEW ends,
         NEW one, one = 1, WrittenIn(w, one, m, quoted, ends)
  PROVE  WrittenIn(line, off + 1, off + m, quoted, ends)
<1> DEFINE b == off + 1
           c == off + m
<1>1. \A j \in 1..m : line[off + j] = w[j]
  BY DEF HoldsAt
<1>2. ASSUME NEW i \in b..c
      PROVE  \E j \in 1..m : i = off + j /\ line[i] = w[j]
  <2>1. PICK j \in 1..m : j = i - off
    OBVIOUS
  <2>2. i = off + j
    BY <2>1
  <2> QED
    BY <1>1, <2>2
<1>3. CASE ~quoted
  <2>1. w[1] # Quote /\ PlainIn(w, 1, m, ends)
    BY <1>3 DEF WrittenIn
  <2>2. line[b] # Quote
    <3>1. 1 \in 1..m
      OBVIOUS
    <3> QED
      BY <1>1, <2>1, <3>1
  <2>3. PlainIn(line, b, c, ends)
    BY <1>2, <2>1 DEF PlainIn
  <2> QED
    BY <1>3, <2>2, <2>3 DEF WrittenIn
<1>4. CASE quoted
  <2>1. /\ 1 < m /\ w[1] = Quote /\ w[m] = Quote /\ w[m - 1] # Backslash
        /\ \A j \in 2..(m - 1) : w[j] = Quote => w[j - 1] = Backslash
    <3>1. QuotedIn(w, 1, m)
      BY <1>4 DEF WrittenIn
    <3> QED
      BY <3>1 DEF QuotedIn
  <2>2. line[b] = Quote /\ line[c] = Quote /\ b < c
    BY <1>1, <2>1
  <2>3. line[c - 1] # Backslash
    <3>1. PICK j \in 1..m : j = m - 1
      BY <2>1
    <3>2. line[off + j] = w[j] /\ c - 1 = off + j
      BY <1>1, <3>1
    <3> QED
      BY <2>1, <3>1, <3>2
  <2>4. ASSUME NEW i \in (b + 1)..(c - 1), line[i] = Quote
        PROVE  line[i - 1] = Backslash
    <3>1. PICK j \in 2..(m - 1) : j = i - off
      OBVIOUS
    <3>2. PICK k \in 1..m : k = j - 1
      BY <3>1
    <3>3. i = off + j /\ i - 1 = off + k /\ j \in 1..m
      BY <3>1, <3>2
    <3>4. w[j] = Quote
      BY <1>1, <2>4, <3>3
    <3>5. w[k] = Backslash
      BY <2>1, <3>2, <3>4
    <3> QED
      BY <1>1, <3>3, <3>5
  <2>5. QuotedIn(line, b, c)
    BY <2>2, <2>3, <2>4 DEF QuotedIn
  <2> QED
    BY <1>4, <2>5 DEF WrittenIn
<1> QED
  BY <1>3, <1>4

(* The characters of a written part.                                          *)
PartCharacters(C) == C \cup EscapeCharacters \cup {Quote, Blank, "=", "z"}

(* A written part: where it is, the parser reads it whole, and dequoted it is *)
(* the text again.                                                            *)
GoodPart(w, m, s, quoted, ends) ==
  /\ m = Len(w) /\ m > 0 /\ WrittenIn(w, 1, m, quoted, ends)
  /\ Dequoted(w) = s /\ ((w[1] = Quote) <=> quoted)

(* A text is its own written part, without quotes.                            *)
LEMMA PlainPart ==
  ASSUME NEW C, NEW s \in Seq(C), s # <<>>, s[1] # Quote, NEW ends,
         \A i \in DOMAIN s : ~IsSpace(s[i]) /\ s[i] # ends
  PROVE  \E m \in Nat : GoodPart(s, m, s, No, ends)
<1>1. PICK m \in Nat : m = Len(s) /\ m > 0
  OBVIOUS
<1>2. WrittenIn(s, 1, m, No, ends)
  BY <1>1 DEF WrittenIn, PlainIn, No
<1>3. Dequoted(s) = s
  <2>1. Dequotes(s, "IF_QUOTED") = FALSE
    BY DEF Dequotes
  <2>2. PICK no, mode : no = FALSE /\ mode = "IF_QUOTED"
    OBVIOUS
  <2>3. \E f : nl_unescape_string(s, no, mode)
                  = IF Dequotes(s, mode) THEN Unescaped(<<>>, 1, f[2])
                    ELSE IF mode = "IF_QUOTED" THEN [text |-> s, removed |-> 0] ELSE f[1]
    BY <1>1, UnescapeWalks
  <2>4. nl_unescape_string(s, no, mode) = [text |-> s, removed |-> 0]
    BY <2>1, <2>2, <2>3
  <2>5. nl_unescape_string(s, no, mode).text = s
    BY <2>4
  <2>6. Dequoted(s) = nl_unescape_string(s, no, mode).text
    BY <2>2 DEF Dequoted
  <2> QED
    BY <2>5, <2>6
<1> QED
  BY <1>1, <1>2, <1>3 DEF GoodPart, No

(* The written part of a text with quotes.                                    *)
LEMMA QuotedPart ==
  ASSUME NEW C, NEW s \in Seq(C), ~EndsInBackslash(s), NEW ends, NEW yes, yes = TRUE
  PROVE  /\ WrittenPart(s, TRUE) \in Seq(PartCharacters(C))
         /\ \E m \in Nat : GoodPart(WrittenPart(s, TRUE), m, s, yes, ends)
<1> DEFINE D == PartCharacters(C)
<1>1. PICK e : e = nl_escape_string(s)
  OBVIOUS
<1>2. PICK n \in Nat : n = Len(s)
  OBVIOUS
<1>3. e \in Seq(D)
  <2>1. C \cup EscapeCharacters \subseteq D
    BY DEF PartCharacters
  <2>2. e \in Seq(C \cup EscapeCharacters)
    BY <1>1, <1>2, StringEscaped
  <2> HIDE DEF D
  <2> QED
    BY <2>1, <2>2, SeqMonotonic
<1>4. PICK h \in Nat : h = Len(e)
  BY <1>3
<1>5. Quote \in D
  BY DEF PartCharacters
<1> HIDE DEF D
<1>6. PICK w : w = <<Quote>> \o e \o <<Quote>>
  OBVIOUS
<1>7. /\ w \in Seq(D) /\ Len(w) = h + 2 /\ w[1] = Quote /\ w[h + 2] = Quote
      /\ \A j \in 1..h : w[1 + j] = e[j]
  BY <1>3, <1>4, <1>5, <1>6, WithQuotes
<1>8. WrittenPart(s, TRUE) = w
  BY <1>1, <1>6 DEF WrittenPart
<1>9. /\ \A i \in 1..h : e[i] = Quote => i > 1 /\ e[i - 1] = Backslash
      /\ n = 0 => h = 0
      /\ n > 0 => h > 0 /\ (e[h] = Backslash => s[n] = Backslash)
  BY <1>1, <1>2, <1>4, EscapedGuarded
<1>10. PICK m \in Nat : m = h + 2
  OBVIOUS
<1>11. w[m - 1] # Backslash
  <2>1. CASE h = 0
    <3>1. Quote # Backslash
      BY DEF Quote, Backslash
    <3>2. m - 1 = 1
      BY <1>10, <2>1
    <3> QED
      BY <1>7, <3>1, <3>2
  <2>2. CASE h > 0
    <3>1. n > 0
      BY <1>2, <1>9, <2>2
    <3>2. s[n] # Backslash
      BY <1>2, <3>1 DEF EndsInBackslash, Last
    <3>3. h \in 1..h /\ m - 1 = 1 + h
      BY <1>10, <2>2
    <3> QED
      BY <1>7, <1>9, <3>1, <3>2, <3>3
  <2> QED
    BY <2>1, <2>2
<1>12. ASSUME NEW i \in 2..(m - 1), w[i] = Quote
       PROVE  w[i - 1] = Backslash
  <2>1. PICK j \in 1..h : j = i - 1 /\ i = 1 + j
    BY <1>10
  <2>2. e[j] = Quote
    BY <1>7, <1>12, <2>1
  <2>3. j > 1 /\ e[j - 1] = Backslash
    BY <1>9, <2>2
  <2>4. PICK k \in 1..h : k = j - 1 /\ i - 1 = 1 + k
    BY <2>1, <2>3
  <2> QED
    BY <1>7, <2>3, <2>4
<1>13. QuotedIn(w, 1, m)
  BY <1>7, <1>10, <1>11, <1>12 DEF QuotedIn
<1>14. WrittenIn(w, 1, m, yes, ends)
  BY <1>13 DEF WrittenIn
<1>15. Dequoted(w) = s
  <2>1. StringEscapeReverses(s)
    BY StringEscapeCorrectness
  <2> QED
    BY <1>1, <1>6, <2>1 DEF StringEscapeReverses, Dequoted
<1>16. (w[1] = Quote) <=> yes
  BY <1>7
<1>17. m = Len(w) /\ m > 0
  BY <1>7, <1>10
<1>18. GoodPart(w, m, s, yes, ends)
  BY <1>14, <1>15, <1>16, <1>17 DEF GoodPart
<1> QED
  BY <1>7, <1>8, <1>18 DEF D

(* What may be written, and how.                                              *)
Writable(s, quoted, ends) ==
  IF quoted THEN ~EndsInBackslash(s)
  ELSE s # <<>> /\ s[1] # Quote /\ \A i \in DOMAIN s : ~IsSpace(s[i]) /\ s[i] # ends

(* Its written part is good.                                                  *)
LEMMA PartWritten ==
  ASSUME NEW C, NEW s \in Seq(C), NEW quoted \in BOOLEAN, NEW ends, Writable(s, quoted, ends)
  PROVE  /\ WrittenPart(s, quoted) \in Seq(PartCharacters(C))
         /\ \E m \in Nat : GoodPart(WrittenPart(s, quoted), m, s, quoted, ends)
<1>1. CASE quoted
  <2>1. PICK yes : yes = TRUE
    OBVIOUS
  <2>2. WrittenPart(s, quoted) = WrittenPart(s, TRUE)
    BY <1>1 DEF WrittenPart
  <2>3. ~EndsInBackslash(s)
    BY <1>1 DEF Writable
  <2>4. /\ WrittenPart(s, TRUE) \in Seq(PartCharacters(C))
        /\ \E m \in Nat : GoodPart(WrittenPart(s, TRUE), m, s, yes, ends)
    BY <2>1, <2>3, QuotedPart
  <2>5. quoted = yes
    BY <1>1, <2>1
  <2> QED
    BY <2>2, <2>4, <2>5
<1>2. CASE ~quoted
  <2>1. WrittenPart(s, quoted) = s
    BY <1>2 DEF WrittenPart
  <2>2. s # <<>> /\ s[1] # Quote
    BY <1>2 DEF Writable
  <2>3. \A i \in DOMAIN s : ~IsSpace(s[i]) /\ s[i] # ends
    BY <1>2 DEF Writable
  <2>4. \E m \in Nat : GoodPart(s, m, s, No, ends)
    BY <2>2, <2>3, PlainPart
  <2>5. quoted = No
    BY <1>2 DEF No
  <2>6. s \in Seq(PartCharacters(C))
    <3>1. C \subseteq PartCharacters(C)
      BY DEF PartCharacters
    <3> QED
      BY <3>1, SeqMonotonic
  <2> QED
    BY <2>1, <2>4, <2>5, <2>6
<1> QED
  BY <1>1, <1>2

(* Two texts, one behind the other.                                           *)
LEMMA Joined ==
  ASSUME NEW D, NEW w \in Seq(D), NEW v \in Seq(D), NEW a \in Nat, a = Len(w),
         NEW m \in Nat, m = Len(v), NEW u, u = w \o v
  PROVE  /\ u \in Seq(D) /\ HoldsAt(u, a + m, 0, w) /\ HoldsAt(u, a + m, a, v)
<1>1. /\ u \in Seq(D) /\ Len(u) = a + m
      /\ \A i \in 1..(a + m) : u[i] = IF i <= a THEN w[i] ELSE v[i - a]
  BY ConcatProperties
<1>2. ASSUME NEW j \in 1..a
      PROVE  u[0 + j] = w[j]
  BY <1>1
<1>3. ASSUME NEW j \in 1..m
      PROVE  u[a + j] = v[j]
  <2>1. a + j \in 1..(a + m) /\ ~(a + j <= a) /\ (a + j) - a = j
    OBVIOUS
  <2> QED
    BY <1>1, <2>1
<1>4. HoldsAt(u, a + m, 0, w)
  BY <1>1, <1>2 DEF HoldsAt
<1>5. HoldsAt(u, a + m, a, v)
  BY <1>1, <1>3 DEF HoldsAt
<1> QED
  BY <1>1, <1>4, <1>5

(* A text in a text that is in a text.                                        *)
LEMMA HoldsWithin ==
  ASSUME NEW u, NEW n, NEW v, NEW m, NEW w, Len(w) \in Nat, m \in Nat, n \in Nat,
         NEW off \in Nat, HoldsAt(u, n, off, v), NEW in \in Nat, HoldsAt(v, m, in, w)
  PROVE  HoldsAt(u, n, off + in, w)
<1>1. /\ n = Len(u) /\ off + m <= n /\ in + Len(w) <= m
      /\ \A j \in 1..m : u[off + j] = v[j]
      /\ \A j \in 1..Len(w) : v[in + j] = w[j]
  BY DEF HoldsAt
<1>2. ASSUME NEW j \in 1..Len(w)
      PROVE  u[(off + in) + j] = w[j]
  <2>1. PICK k \in 1..m : k = in + j /\ (off + in) + j = off + k
    BY <1>1
  <2> QED
    BY <1>1, <2>1
<1> QED
  BY <1>1, <1>2 DEF HoldsAt

(* The line the parts are written to.                                         *)
Laid(line, w, sign, v, tail, a, m) ==
  LET n == a + 1 + m + 4 IN
  /\ HoldsAt(line, n, 0, w) /\ HoldsAt(line, n, a, sign)
  /\ HoldsAt(line, n, a + 1, v) /\ HoldsAt(line, n, a + m + 1, tail)

(* It is laid out so.                                                         *)
LEMMA LineLaid ==
  ASSUME NEW D, NEW w \in Seq(D), NEW v \in Seq(D), NEW a \in Nat, a = Len(w),
         NEW m \in Nat, m = Len(v), NEW sign \in Seq(D), Len(sign) = 1,
         NEW tail \in Seq(D), Len(tail) = 4, NEW one, one = w \o sign,
         NEW two, two = one \o v, NEW line, line = two \o tail
  PROVE  line \in Seq(D) /\ Laid(line, w, sign, v, tail, a, m)
<1>0. PICK zero \in Nat, x \in Nat : zero = 0 /\ x = 1
  OBVIOUS
<1>1. PICK k \in Nat : zero = 0 /\ x = 1 /\ k = a + x
  BY <1>0
<1>1a. PICK h \in Nat : h = k + m
  OBVIOUS
<1>1b. PICK l \in Nat, y \in Nat : y = 4 /\ l = h + y
  OBVIOUS
<1>2. a + 1 + m + 4 = l /\ a + 1 = k /\ a + m + 1 = h
  BY <1>1, <1>1a, <1>1b
<1>2a. zero + zero = zero /\ zero + a = a /\ zero + k = k
  BY <1>1
<1>2b. Len(w) \in Nat /\ Len(v) \in Nat /\ Len(sign) \in Nat
  OBVIOUS
<1>3. one \in Seq(D) /\ HoldsAt(one, k, zero, w) /\ HoldsAt(one, k, a, sign)
  BY <1>1, Joined
<1>4. k = Len(one)
  BY <1>3 DEF HoldsAt
<1>5. two \in Seq(D) /\ HoldsAt(two, h, zero, one) /\ HoldsAt(two, h, k, v)
  BY <1>1, <1>1a, <1>3, <1>4, Joined
<1>6. h = Len(two)
  BY <1>5 DEF HoldsAt
<1>7. line \in Seq(D) /\ HoldsAt(line, l, zero, two) /\ HoldsAt(line, l, h, tail)
  BY <1>1, <1>1b, <1>5, <1>6, Joined
<1>8. HoldsAt(two, h, zero, w)
  <2>1. HoldsAt(two, h, zero + zero, w)
    BY <1>2b, <1>3, <1>5, HoldsWithin
  <2> QED
    BY <1>2a, <2>1
<1>9. HoldsAt(two, h, a, sign)
  <2>1. HoldsAt(two, h, zero + a, sign)
    BY <1>2b, <1>3, <1>5, HoldsWithin
  <2> QED
    BY <1>2a, <2>1
<1>10. HoldsAt(line, l, zero, w)
  <2>1. HoldsAt(line, l, zero + zero, w)
    BY <1>2b, <1>7, <1>8, HoldsWithin
  <2> QED
    BY <1>2a, <2>1
<1>11. HoldsAt(line, l, k, v)
  <2>1. HoldsAt(line, l, zero + k, v)
    BY <1>2b, <1>5, <1>7, HoldsWithin
  <2> QED
    BY <1>2a, <2>1
<1>12. HoldsAt(line, l, a, sign)
  <2>1. HoldsAt(line, l, zero + a, sign)
    BY <1>2b, <1>7, <1>9, HoldsWithin
  <2> QED
    BY <1>2a, <2>1
<1> QED
  BY <1>1, <1>2, <1>7, <1>10, <1>11, <1>12 DEF Laid

(* A pair that is written is read, and so is the one behind it.               *)
LEMMA PairReadBack ==
  ASSUME NEW C, NEW key \in Seq(C), NEW value \in Seq(C), NEW qk \in BOOLEAN, NEW qv \in BOOLEAN,
         Writable(key, qk, "="), Writable(value, qv, Blank)
  PROVE  ReadBack(key, value, qk, qv)
<1>1. PICK D : D = PartCharacters(C)
  OBVIOUS
<1>2. "=" \in D /\ "z" \in D /\ Blank \in D
  BY <1>1 DEF PartCharacters
<1>3. PICK w \in Seq(D), a \in Nat :
        w = WrittenPart(key, qk) /\ GoodPart(w, a, key, qk, "=")
  BY <1>1, PartWritten
<1>4. PICK v \in Seq(D), m \in Nat :
        v = WrittenPart(value, qv) /\ GoodPart(v, m, value, qv, Blank)
  BY <1>1, PartWritten
<1>5. /\ a = Len(w) /\ a > 0 /\ WrittenIn(w, 1, a, qk, "=") /\ Dequoted(w) = key
      /\ m = Len(v) /\ m > 0 /\ WrittenIn(v, 1, m, qv, Blank) /\ Dequoted(v) = value
      /\ (v[1] = Quote) <=> qv
  BY <1>3, <1>4 DEF GoodPart
<1>6. PICK sign, tail : sign = <<"=">> /\ tail = <<Blank, "z", "=", "z">>
  OBVIOUS
<1>6a. /\ sign \in Seq(D) /\ tail \in Seq(D) /\ Len(sign) = 1 /\ sign[1] = "=" /\ Len(tail) = 4
       /\ tail[1] = Blank /\ tail[2] = "z" /\ tail[3] = "=" /\ tail[4] = "z"
  BY <1>2, <1>6
<1>6b. PICK one : one = w \o sign
  OBVIOUS
<1>6c. PICK two : two = one \o v
  OBVIOUS
<1>6d. PICK line : line = two \o tail
  OBVIOUS
<1>7. PICK n \in Nat, b \in Nat, c \in Nat : n = a + 1 + m + 4 /\ b = a + 1 /\ c = a + m + 1
  BY <1>3, <1>4
<1>8a. /\ line \in Seq(D) /\ HoldsAt(line, n, 0, w) /\ HoldsAt(line, n, b, v)
       /\ HoldsAt(line, n, a, sign) /\ HoldsAt(line, n, c, tail)
  <2>1. a = Len(w) /\ m = Len(v)
    BY <1>5
  <2>2. sign \in Seq(D) /\ Len(sign) = 1 /\ tail \in Seq(D) /\ Len(tail) = 4
    BY <1>6a
  <2>3. line \in Seq(D) /\ Laid(line, w, sign, v, tail, a, m)
    BY <2>1, <2>2, <1>6b, <1>6c, <1>6d, LineLaid
  <2> QED
    BY <1>7, <2>3 DEF Laid
<1>8b. line[a + 1] = "=" /\ \A j \in 1..4 : line[c + j] = tail[j]
  BY <1>6a, <1>8a DEF HoldsAt
<1>8. /\ line \in Seq(D) /\ HoldsAt(line, n, 0, w) /\ HoldsAt(line, n, b, v)
      /\ line[b] = "=" /\ line[c + 1] = Blank /\ line[c + 2] = "z"
      /\ line[c + 3] = "=" /\ line[c + 4] = "z"
  BY <1>6a, <1>7, <1>8a, <1>8b
<1>9. n = Len(line)
  BY <1>8 DEF HoldsAt
<1>10. PairLine(line, n, a, c, qk, qv)
  <2>1. WrittenIn(line, 1, a, qk, "=")
    <3>1. PICK zero \in Nat, x \in Nat, ends \in {"="} : x = 1 /\ zero = 0 /\ ends = "="
      OBVIOUS
    <3>2. WrittenIn(w, x, a, qk, ends) /\ HoldsAt(line, n, zero, w)
      BY <1>5, <1>8, <3>1
    <3>3. WrittenIn(line, zero + 1, zero + a, qk, ends)
      BY <1>5, <3>1, <3>2, PartMoves
    <3>4. zero + 1 = 1 /\ zero + a = a
      BY <3>1
    <3> QED
      BY <3>1, <3>3, <3>4
  <2>2. WrittenIn(line, a + 2, c, qv, Blank)
    <3>1. PICK x : x = 1
      OBVIOUS
    <3>2. WrittenIn(v, x, m, qv, Blank)
      BY <1>5, <3>1
    <3>3. WrittenIn(line, b + 1, b + m, qv, Blank)
      BY <1>5, <1>8, <3>1, <3>2, PartMoves
    <3>4. b + 1 = a + 2 /\ b + m = c
      BY <1>7
    <3> QED
      BY <3>3, <3>4
  <2>3. 1 <= a /\ a + 2 <= c /\ c + 4 = n /\ a + 1 = b
    BY <1>3, <1>4, <1>5, <1>7
  <2> QED
    BY <1>8, <1>9, <2>1, <2>2, <2>3 DEF PairLine
<1>11. PICK p, q : /\ p = PairAt(line, 1, a, a + 2, c - a - 1)
                   /\ q = PairAt(line, c + 2, 1, c + 4, 1)
                   /\ nl_parse_kvp(line) = <<p, q>>
  BY <1>8, <1>10, PairsRead
<1>12. SubSeq(line, 1, 1 + a - 1) = w
  <2>1. PICK zero \in Nat : zero = 0
    OBVIOUS
  <2>2. SubSeq(line, zero + 1, zero + a) = w
    BY <1>5, <1>8, <2>1, PartCut
  <2>3. zero + 1 = 1 /\ zero + a = 1 + a - 1
    BY <2>1
  <2> QED
    BY <2>2, <2>3
<1>13. SubSeq(line, a + 2, a + 2 + (c - a - 1) - 1) = v
  <2>0. HoldsAt(line, n, b, v) /\ line \in Seq(D)
    BY <1>8
  <2>3. m = Len(v) /\ m > 0
    BY <1>5
  <2>1. SubSeq(line, b + 1, b + m) = v
    BY <2>0, <2>3, PartCut
  <2>2. b + 1 = a + 2 /\ b + m = a + 2 + (c - a - 1) - 1
    BY <1>7
  <2> QED
    BY <2>1, <2>2
<1>14. p.key = key /\ p.value = value /\ (p.quoted = qv)
  <2>1. p.key = Dequoted(w) /\ p.value = Dequoted(v)
    BY <1>11, <1>12, <1>13 DEF PairAt
  <2>2. p.quoted = (v[1] = Quote)
    BY <1>11, <1>13 DEF PairAt
  <2>3. (v[1] = Quote) = qv
    BY <1>5
  <2> QED
    BY <1>5, <2>1, <2>2, <2>3
<1>15. q.key = <<"z">> /\ q.value = <<"z">> /\ q.quoted = FALSE
  <2>0. PICK z : z = <<"z">>
    OBVIOUS
  <2>1. z = <<"z">> /\ z \in Seq(D) /\ Len(z) = 1 /\ z[1] = "z"
    BY <1>2, <2>0
  <2>2. Dequoted(z) = z
    <3>1. \E k \in Nat : GoodPart(z, k, z, No, Blank)
      <4>1. z # <<>> /\ z[1] # Quote
        BY <2>1 DEF Quote
      <4>2. \A i \in DOMAIN z : ~IsSpace(z[i]) /\ z[i] # Blank
        <5>1. \A i \in DOMAIN z : z[i] = "z"
          BY <2>1
        <5>2. ~IsSpace("z") /\ "z" # Blank
          BY DEF IsSpace, Blank
        <5> QED
          BY <5>1, <5>2
      <4> QED
        BY <2>1, <4>1, <4>2, PlainPart
    <3> QED
      BY <3>1 DEF GoodPart
  <2>3. ASSUME NEW i \in Nat, i \in {c + 2, c + 4}
        PROVE  SubSeq(line, i, i + 1 - 1) = z
    <3>1. PICK off \in Nat, x \in Nat : off = i - 1 /\ x = 1
      BY <2>3
    <3>2. off + x <= n /\ off + 1 = i /\ off + x = i + 1 - 1
      BY <1>7, <2>3, <3>1
    <3>3. HoldsAt(line, n, off, z)
      <4>1. \A j \in 1..Len(z) : j = 1
        BY <2>1
      <4>2. line[i] = "z"
        BY <1>8, <2>3
      <4> QED
        BY <1>9, <2>1, <3>1, <3>2, <4>1, <4>2 DEF HoldsAt
    <3>5. x = Len(z) /\ x > 0
      BY <2>1, <3>1
    <3>6. line \in Seq(D) /\ z \in Seq(D)
      BY <1>8, <2>1
    <3>4. SubSeq(line, off + 1, off + x) = z
      BY <3>3, <3>5, <3>6, PartCut
    <3> QED
      BY <3>2, <3>4
  <2>4. /\ SubSeq(line, c + 2, c + 2 + 1 - 1) = z /\ SubSeq(line, c + 4, c + 4 + 1 - 1) = z
    BY <2>3
  <2>5. q.key = Dequoted(z) /\ q.value = Dequoted(z) /\ q.quoted = (z[1] = Quote)
    BY <1>11, <2>4 DEF PairAt
  <2>6. (z[1] = Quote) = FALSE
    BY <2>1 DEF Quote
  <2> QED
    BY <2>1, <2>2, <2>5, <2>6
<1>16. /\ Len(<<p, q>>) = 2 /\ <<p, q>>[1] = p /\ <<p, q>>[2] = q
  OBVIOUS
<1>17. line = WrittenPart(key, qk) \o <<"=">> \o WrittenPart(value, qv) \o <<" ", "z", "=", "z">>
  BY <1>3, <1>4, <1>6, <1>6b, <1>6c, <1>6d DEF Blank
<1> QED
  BY <1>11, <1>14, <1>15, <1>16, <1>17 DEF ReadBack

(* A pair is read back as it was written (kvp.c:212), its key and its value   *)
(* within quotes or plain, unless the last character within quotes is a       *)
(* backslash: for keys and values of any length and any characters.           *)
THEOREM PairCorrectness ==
  ASSUME NEW C
  PROVE  \A key, value \in Seq(C) : PairReverses(key, value, FALSE)
<1> SUFFICES ASSUME NEW key \in Seq(C), NEW value \in Seq(C)
             PROVE  PairReverses(key, value, FALSE)
  OBVIOUS
<1> SUFFICES ASSUME NEW qk \in BOOLEAN, NEW qv \in BOOLEAN,
                    qk \/ PlainKey(key), qv \/ PlainValue(value),
                    ~(qk /\ EndsInBackslash(key)), ~(qv /\ EndsInBackslash(value))
             PROVE  ReadBack(key, value, qk, qv)
  BY DEF PairReverses
<1>1. Writable(key, qk, "=")
  BY DEF Writable, PlainKey
<1>2. Writable(value, qv, Blank)
  <2>1. ASSUME NEW c, ~IsSpace(c)
        PROVE  c # Blank
    BY <2>1 DEF IsSpace, Blank
  <2> QED
    BY <2>1 DEF Writable, PlainValue
<1> QED
  BY <1>1, <1>2, PairReadBack

-----------------------------------------------------------------------------
(* What the characters of a number are not.                                   *)
LEMMA NumberCharacters ==
  /\ "." # "e" /\ "." # "+" /\ "." # "-" /\ "." # "x" /\ "e" # "+" /\ "e" # "-" /\ "e" # "x"
  /\ \A c : Digit(c) => c # "." /\ c # "e" /\ c # "+" /\ c # "-" /\ c # "x"
  /\ Digit("0")
BY DEF Digit, HexDigits

(* Places i to m of a value: digits, and a mantissa's rest when it has had    *)
(* what it has had.                                                           *)
DigitsIn(v, i, m) == \A k \in i..m : Digit(v[k])

MantissaIn(v, i, m, had) ==
  /\ \A k \in i..m : Digit(v[k]) \/ (v[k] = "." /\ "period" \notin had)
  /\ \A j \in i..m : \A k \in i..m : v[j] = "." /\ v[k] = "." => j = k

(* An exponent's digits, with a sign or without.                              *)
ExponentIn(v, n, i) ==
  /\ i <= n
  /\ \/ DigitsIn(v, i, n)
     \/ v[i] \in {"+", "-"} /\ i < n /\ DigitsIn(v, i + 1, n)

(* The mantissa goes on to m, and an exponent follows.                        *)
ExponentAfter(v, n, i, m, had) ==
  MantissaIn(v, i, m, had) /\ Digit(v[m]) /\ v[m + 1] = "e" /\ ExponentIn(v, n, m + 2)

FloatIn(v, n, i, had) ==
  \/ MantissaIn(v, i, n, had)
  \/ \E m \in (i - 1)..(n - 1) : ExponentAfter(v, n, i, m, had)

(* The type of a number from place i on.                                      *)
TypeFrom(v, n, i, had) ==
  IF "exponent" \in had THEN IF DigitsIn(v, i, n) THEN "FLOAT" ELSE "STRING"
  ELSE IF had = {} /\ DigitsIn(v, i, n) THEN "INTEGER"
  ELSE IF FloatIn(v, n, i, had) THEN "FLOAT" ELSE "STRING"

(* What the loop makes of the character at i, when g is what it makes of      *)
(* those behind it.                                                           *)
NumberTurn(g, v, n, i, had) ==
  IF i > n THEN IF had = {} THEN "INTEGER" ELSE "FLOAT"
  ELSE IF v[i] = "." THEN IF PeriodFits(v, i, had) THEN g[i + 1][{"period"}] ELSE "STRING"
  ELSE IF Digit(v[i - 1]) /\ v[i] = "e" THEN
    IF ~ExponentFits(v, i, had) THEN "STRING"
    ELSE g[IF Digit(v[i + 1]) THEN i + 1 ELSE i + 2][had \cup {"exponent"}]
  ELSE IF Digit(v[i]) THEN g[i + 1][had]
  ELSE "STRING"

(* The digits from i on are the one at i and those behind it.                 *)
LEMMA DigitsOnward ==
  ASSUME NEW v, NEW m \in Nat, NEW i \in Nat, i <= m
  PROVE  DigitsIn(v, i, m) <=> Digit(v[i]) /\ DigitsIn(v, i + 1, m)
<1>1. \A k \in i..m : k = i \/ k \in (i + 1)..m
  OBVIOUS
<1>2. i \in i..m /\ \A k \in (i + 1)..m : k \in i..m
  OBVIOUS
<1> QED
  BY <1>1, <1>2 DEF DigitsIn

(* A mantissa that goes on from a digit, ...                                  *)
LEMMA MantissaOnward ==
  ASSUME NEW v, NEW m \in Nat, NEW i \in Nat, i <= m, NEW had, Digit(v[i])
  PROVE  MantissaIn(v, i, m, had) <=> MantissaIn(v, i + 1, m, had)
<1>1. \A k \in i..m : k = i \/ k \in (i + 1)..m
  OBVIOUS
<1>2. \A k \in (i + 1)..m : k \in i..m
  OBVIOUS
<1>3. v[i] # "."
  BY NumberCharacters
<1> QED
  BY <1>1, <1>2, <1>3 DEF MantissaIn

(* ... from a period, ...                                                     *)
LEMMA MantissaPeriod ==
  ASSUME NEW v, NEW m \in Nat, NEW i \in Nat, i <= m, NEW had, "period" \notin had, v[i] = "."
  PROVE  MantissaIn(v, i, m, had) <=> MantissaIn(v, i + 1, m, {"period"})
<1>1. \A k \in i..m : k = i \/ k \in (i + 1)..m
  OBVIOUS
<1>2. (\A k \in (i + 1)..m : k \in i..m /\ k # i) /\ i \in i..m
  OBVIOUS
<1>3. \A c : Digit(c) => c # "."
  BY NumberCharacters
<1>4. ASSUME MantissaIn(v, i, m, had)
      PROVE  MantissaIn(v, i + 1, m, {"period"})
  <2>1. ASSUME NEW k \in (i + 1)..m
        PROVE  Digit(v[k])
    BY <1>2, <1>4 DEF MantissaIn
  <2> QED
    BY <1>3, <2>1 DEF MantissaIn
<1>5. ASSUME MantissaIn(v, i + 1, m, {"period"})
      PROVE  MantissaIn(v, i, m, had)
  <2>1. ASSUME NEW k \in (i + 1)..m
        PROVE  Digit(v[k])
    BY <1>5 DEF MantissaIn
  <2> QED
    BY <1>1, <1>3, <2>1 DEF MantissaIn
<1> QED
  BY <1>4, <1>5

(* ... and not from another character.                                        *)
LEMMA MantissaStops ==
  ASSUME NEW v, NEW m \in Nat, NEW i \in Nat, i <= m, NEW had, MantissaIn(v, i, m, had)
  PROVE  Digit(v[i]) \/ (v[i] = "." /\ "period" \notin had)
<1>1. i \in i..m
  OBVIOUS
<1> QED
  BY <1>1 DEF MantissaIn

(* A number goes on from a digit as it was, ...                               *)
LEMMA FloatDigit ==
  ASSUME NEW v, NEW n \in Nat, NEW i \in Nat, i <= n, NEW had, Digit(v[i])
  PROVE  FloatIn(v, n, i, had) <=> FloatIn(v, n, i + 1, had)
<1>1. MantissaIn(v, i, n, had) <=> MantissaIn(v, i + 1, n, had)
  BY MantissaOnward
<1>2. ASSUME NEW m \in (i - 1)..(n - 1), ExponentAfter(v, n, i, m, had)
      PROVE  FloatIn(v, n, i + 1, had)
  <2>1. v[m + 1] = "e"
    BY <1>2 DEF ExponentAfter
  <2>2. m # i - 1
    BY <2>1, NumberCharacters
  <2>3. m \in ((i + 1) - 1)..(n - 1) /\ m \in Nat /\ i <= m
    BY <2>2
  <2>4. MantissaIn(v, i, m, had) <=> MantissaIn(v, i + 1, m, had)
    BY <2>3, MantissaOnward
  <2>5. ExponentAfter(v, n, i + 1, m, had)
    BY <1>2, <2>4 DEF ExponentAfter
  <2> QED
    BY <2>3, <2>5 DEF FloatIn
<1>3. ASSUME NEW m \in ((i + 1) - 1)..(n - 1), ExponentAfter(v, n, i + 1, m, had)
      PROVE  FloatIn(v, n, i, had)
  <2>1. m \in (i - 1)..(n - 1) /\ m \in Nat /\ i <= m
    OBVIOUS
  <2>2. MantissaIn(v, i, m, had) <=> MantissaIn(v, i + 1, m, had)
    BY <2>1, MantissaOnward
  <2>3. ExponentAfter(v, n, i, m, had)
    BY <1>3, <2>2 DEF ExponentAfter
  <2> QED
    BY <2>1, <2>3 DEF FloatIn
<1> QED
  BY <1>1, <1>2, <1>3 DEF FloatIn

(* ... from a period if it is the first and a digit or nothing follows, ...    *)
LEMMA FloatPeriod ==
  ASSUME NEW v, NEW n \in Nat, NEW i \in Nat \ {0}, i <= n, NEW had, v[i] = "."
  PROVE  FloatIn(v, n, i, had) <=> /\ "period" \notin had
                                   /\ i = n \/ Digit(v[i + 1])
                                   /\ FloatIn(v, n, i + 1, {"period"})
<1>0. "." # "e" /\ \A c : Digit(c) => c # "."
  BY NumberCharacters
<1>1. "period" \notin had => (MantissaIn(v, i, n, had) <=> MantissaIn(v, i + 1, n, {"period"}))
  BY MantissaPeriod
<1>2. MantissaIn(v, i, n, had) => "period" \notin had
  BY <1>0, MantissaStops
<1>3. ASSUME NEW m \in (i - 1)..(n - 1), ExponentAfter(v, n, i, m, had)
      PROVE  /\ "period" \notin had /\ m # i /\ m \in ((i + 1) - 1)..(n - 1)
             /\ ExponentAfter(v, n, i + 1, m, {"period"})
  <2>1. v[m + 1] = "e" /\ Digit(v[m]) /\ MantissaIn(v, i, m, had)
    BY <1>3 DEF ExponentAfter
  <2>2. m # i - 1
    BY <1>0, <2>1
  <2>3. m \in ((i + 1) - 1)..(n - 1) /\ m \in Nat /\ i <= m
    BY <2>2
  <2>4. m # i
    BY <1>0, <2>1
  <2>5. "period" \notin had
    BY <1>0, <2>1, <2>3, MantissaStops
  <2>6. MantissaIn(v, i, m, had) <=> MantissaIn(v, i + 1, m, {"period"})
    BY <2>3, <2>5, MantissaPeriod
  <2>7. ExponentAfter(v, n, i + 1, m, {"period"})
    BY <1>3, <2>6 DEF ExponentAfter
  <2> QED
    BY <2>3, <2>4, <2>5, <2>7
<1>4. ASSUME "period" \notin had, NEW m \in ((i + 1) - 1)..(n - 1),
             ExponentAfter(v, n, i + 1, m, {"period"})
      PROVE  m \in (i - 1)..(n - 1) /\ ExponentAfter(v, n, i, m, had)
  <2>1. m \in (i - 1)..(n - 1) /\ m \in Nat /\ i <= m
    OBVIOUS
  <2>2. MantissaIn(v, i, m, had) <=> MantissaIn(v, i + 1, m, {"period"})
    BY <1>4, <2>1, MantissaPeriod
  <2>3. ExponentAfter(v, n, i, m, had)
    BY <1>4, <2>2 DEF ExponentAfter
  <2> QED
    BY <2>1, <2>3
<1>5. ASSUME FloatIn(v, n, i + 1, {"period"}), i # n
      PROVE  Digit(v[i + 1])
  <2>0. i + 1 <= n /\ i + 1 \in Nat
    BY <1>5
  <2>1. CASE MantissaIn(v, i + 1, n, {"period"})
    BY <2>0, <2>1, MantissaStops
  <2>2. ASSUME NEW m \in ((i + 1) - 1)..(n - 1), ExponentAfter(v, n, i + 1, m, {"period"})
        PROVE  Digit(v[i + 1])
    <3>1. Digit(v[m]) /\ MantissaIn(v, i + 1, m, {"period"})
      BY <2>2 DEF ExponentAfter
    <3>2. m # i
      BY <1>0, <3>1
    <3>3. i + 1 <= m /\ m \in Nat
      BY <3>2
    <3> QED
      BY <2>0, <3>1, <3>3, MantissaStops
  <2> QED
    BY <1>5, <2>1, <2>2 DEF FloatIn
<1> QED
  BY <1>1, <1>2, <1>3, <1>4, <1>5 DEF FloatIn

(* ... and from another character only if it is the exponent's.                *)
LEMMA FloatOther ==
  ASSUME NEW v, NEW n \in Nat, NEW i \in Nat \ {0}, i <= n, NEW had, v[i] # ".", ~Digit(v[i])
  PROVE  FloatIn(v, n, i, had) <=> Digit(v[i - 1]) /\ v[i] = "e" /\ ExponentIn(v, n, i + 1)
<1>1. ~MantissaIn(v, i, n, had)
  BY MantissaStops
<1>2. ASSUME NEW m \in (i - 1)..(n - 1), ExponentAfter(v, n, i, m, had)
      PROVE  Digit(v[i - 1]) /\ v[i] = "e" /\ ExponentIn(v, n, i + 1)
  <2>1. m = i - 1
    <3>1. SUFFICES ASSUME m # i - 1
                   PROVE  FALSE
      OBVIOUS
    <3>2. i <= m /\ m \in Nat
      BY <3>1
    <3>3. MantissaIn(v, i, m, had)
      BY <1>2 DEF ExponentAfter
    <3> QED
      BY <3>2, <3>3, MantissaStops
  <2>2. m + 1 = i /\ m + 2 = i + 1
    BY <2>1
  <2> QED
    BY <1>2, <2>1, <2>2 DEF ExponentAfter
<1>3. ASSUME Digit(v[i - 1]), v[i] = "e", ExponentIn(v, n, i + 1)
      PROVE  FloatIn(v, n, i, had)
  <2>1. PICK m \in (i - 1)..(n - 1) : m = i - 1 /\ m + 1 = i /\ m + 2 = i + 1
    OBVIOUS
  <2>2. MantissaIn(v, i, m, had)
    <3>1. i..m = {}
      BY <2>1
    <3> QED
      BY <3>1 DEF MantissaIn
  <2>3. ExponentAfter(v, n, i, m, had)
    BY <1>3, <2>1, <2>2 DEF ExponentAfter
  <2> QED
    BY <2>3 DEF FloatIn
<1> QED
  BY <1>1, <1>2, <1>3 DEF FloatIn

(* g is right about the places behind i.                                      *)
RightBehind(g, v, n, i) ==
  \A j \in (i + 1)..(n + 2) : \A had \in NumberParts : g[j][had] = TypeFrom(v, n, j, had)

(* ... and then the loop's turn makes it right about i.                       *)
LEMMA TurnRight ==
  ASSUME NEW v, NEW n \in Nat, n = Len(v), NEW i \in 2..(n + 2), NEW had \in NumberParts,
         NEW g, RightBehind(g, v, n, i)
  PROVE  NumberTurn(g, v, n, i, had) = TypeFrom(v, n, i, had)
<1>0. /\ "." # "e" /\ "." # "+" /\ "." # "-" /\ "e" # "+" /\ "e" # "-"
      /\ \A c : Digit(c) => c # "." /\ c # "e" /\ c # "+" /\ c # "-"
  BY NumberCharacters
<1>1. had \in SUBSET {"exponent", "period"}
  BY DEF NumberParts
<1>2. i <= n => \A h \in NumberParts : g[i + 1][h] = TypeFrom(v, n, i + 1, h)
  <2>1. i <= n => i + 1 \in (i + 1)..(n + 2)
    OBVIOUS
  <2> QED
    BY <2>1 DEF RightBehind
<1>2a. i < n => \A h \in NumberParts : g[i + 2][h] = TypeFrom(v, n, i + 2, h)
  <2>1. i < n => i + 2 \in (i + 1)..(n + 2)
    OBVIOUS
  <2> QED
    BY <2>1 DEF RightBehind
<1>3. CASE i > n
  <2>1. DigitsIn(v, i, n) /\ MantissaIn(v, i, n, had)
    BY <1>3 DEF DigitsIn, MantissaIn
  <2>2. FloatIn(v, n, i, had)
    BY <2>1 DEF FloatIn
  <2>3. had # {} /\ "exponent" \notin had => had # {}
    OBVIOUS
  <2>4. "exponent" \in had => had # {}
    OBVIOUS
  <2> QED
    BY <1>3, <2>1, <2>2, <2>4 DEF NumberTurn, TypeFrom
<1>4. CASE i <= n /\ v[i] = "."
  <2>1. ~DigitsIn(v, i, n)
    BY <1>0, <1>4, DigitsOnward
  <2>2. PeriodFits(v, i, had) <=> had = {} /\ (i = n \/ Digit(v[i + 1]))
    BY DEF PeriodFits
  <2>3. NumberTurn(g, v, n, i, had)
          = IF PeriodFits(v, i, had) THEN g[i + 1][{"period"}] ELSE "STRING"
    BY <1>4 DEF NumberTurn
  <2>4. CASE "exponent" \in had
    <3>1. had # {}
      BY <2>4
    <3> QED
      BY <2>1, <2>2, <2>3, <2>4, <3>1 DEF TypeFrom
  <2>5. CASE "exponent" \notin had
    <3>1. TypeFrom(v, n, i, had) = IF FloatIn(v, n, i, had) THEN "FLOAT" ELSE "STRING"
      BY <2>1, <2>5 DEF TypeFrom
    <3>2. FloatIn(v, n, i, had) <=> /\ "period" \notin had
                                    /\ i = n \/ Digit(v[i + 1])
                                    /\ FloatIn(v, n, i + 1, {"period"})
      BY <1>4, FloatPeriod
    <3>3. "period" \notin had <=> had = {}
      BY <1>1, <2>5
    <3>4. PICK p : p = {"period"}
      OBVIOUS
    <3>5. p \in NumberParts /\ "exponent" \notin p /\ p # {}
      BY <3>4 DEF NumberParts
    <3>6. g[i + 1][p] = TypeFrom(v, n, i + 1, p)
      BY <1>2, <1>4, <3>5
    <3>7. TypeFrom(v, n, i + 1, p) = IF FloatIn(v, n, i + 1, p) THEN "FLOAT" ELSE "STRING"
      BY <3>5 DEF TypeFrom
    <3> QED
      BY <2>2, <2>3, <3>1, <3>2, <3>3, <3>4, <3>6, <3>7
  <2> QED
    BY <2>4, <2>5
<1>5. CASE i <= n /\ Digit(v[i])
  <2>1. DigitsIn(v, i, n) <=> DigitsIn(v, i + 1, n)
    BY <1>5, DigitsOnward
  <2>2. FloatIn(v, n, i, had) <=> FloatIn(v, n, i + 1, had)
    BY <1>5, FloatDigit
  <2>3. NumberTurn(g, v, n, i, had) = g[i + 1][had]
    BY <1>0, <1>5 DEF NumberTurn
  <2>4. TypeFrom(v, n, i, had) = TypeFrom(v, n, i + 1, had)
    BY <2>1, <2>2 DEF TypeFrom
  <2> QED
    BY <1>2, <1>5, <2>3, <2>4
<1>6. CASE i <= n /\ v[i] # "." /\ ~Digit(v[i])
  <2>1. ~DigitsIn(v, i, n)
    BY <1>6, DigitsOnward
  <2>2. FloatIn(v, n, i, had) <=> Digit(v[i - 1]) /\ v[i] = "e" /\ ExponentIn(v, n, i + 1)
    BY <1>6, FloatOther
  <2>3. CASE ~(Digit(v[i - 1]) /\ v[i] = "e")
    BY <1>6, <2>1, <2>2, <2>3 DEF NumberTurn, TypeFrom
  <2>4. CASE Digit(v[i - 1]) /\ v[i] = "e"
    <3>1. NumberTurn(g, v, n, i, had)
            = IF ~ExponentFits(v, i, had) THEN "STRING"
              ELSE g[IF Digit(v[i + 1]) THEN i + 1 ELSE i + 2][had \cup {"exponent"}]
      BY <1>6, <2>4 DEF NumberTurn
    <3>2. CASE "exponent" \in had
      <4>1. ~ExponentFits(v, i, had)
        BY <3>2 DEF ExponentFits
      <4> QED
        BY <2>1, <3>1, <3>2, <4>1 DEF TypeFrom
    <3>3. CASE "exponent" \notin had
      <4>1. TypeFrom(v, n, i, had) = IF ExponentIn(v, n, i + 1) THEN "FLOAT" ELSE "STRING"
        BY <2>1, <2>2, <2>4, <3>3 DEF TypeFrom
      <4>2. PICK h : h = had \cup {"exponent"}
        OBVIOUS
      <4>3. h \in NumberParts /\ "exponent" \in h
        BY <1>1, <4>2 DEF NumberParts
      <4>4. \A j : TypeFrom(v, n, j, h) = IF DigitsIn(v, j, n) THEN "FLOAT" ELSE "STRING"
        BY <4>3 DEF TypeFrom
      <4>5. CASE i < n /\ Digit(v[i + 1])
        <5>1. ExponentFits(v, i, had)
          BY <3>3, <4>5 DEF ExponentFits
        <5>2. NumberTurn(g, v, n, i, had) = g[i + 1][h]
          BY <3>1, <4>2, <4>5, <5>1
        <5>3. g[i + 1][h] = IF DigitsIn(v, i + 1, n) THEN "FLOAT" ELSE "STRING"
          BY <1>2, <1>6, <4>3, <4>4
        <5>4. ExponentIn(v, n, i + 1) <=> DigitsIn(v, i + 1, n)
          BY <1>0, <4>5 DEF ExponentIn
        <5> QED
          BY <4>1, <5>2, <5>3, <5>4
      <4>6. CASE i < n /\ ~Digit(v[i + 1])
        <5>1. ~DigitsIn(v, i + 1, n)
          <6>1. i + 1 \in Nat /\ i + 1 <= n
            BY <4>6
          <6> QED
            BY <4>6, <6>1, DigitsOnward
        <5>2. ExponentIn(v, n, i + 1) <=> /\ v[i + 1] \in {"+", "-"} /\ i + 1 < n
                                          /\ DigitsIn(v, i + 2, n)
          <6>1. (i + 1) + 1 = i + 2 /\ i + 1 <= n
            BY <4>6
          <6> QED
            BY <5>1, <6>1 DEF ExponentIn
        <5>3. ExponentFits(v, i, had) <=> /\ v[i + 1] \in {"+", "-"} /\ i + 1 < n
                                          /\ Digit(v[i + 2])
          BY <3>3, <4>6 DEF ExponentFits
        <5>4. CASE ~ExponentFits(v, i, had)
          <6>1. ~ExponentIn(v, n, i + 1)
            <7>1. i + 1 < n => (DigitsIn(v, i + 2, n) => Digit(v[i + 2]))
              <8>1. i + 2 \in Nat /\ (i + 1 < n => i + 2 <= n)
                OBVIOUS
              <8> QED
                BY <8>1, DigitsOnward
            <7> QED
              BY <5>2, <5>3, <5>4, <7>1
          <6> QED
            BY <3>1, <4>1, <5>4, <6>1
        <5>5. CASE ExponentFits(v, i, had)
          <6>1. NumberTurn(g, v, n, i, had) = g[i + 2][h]
            BY <3>1, <4>2, <4>6, <5>5
          <6>2. g[i + 2][h] = IF DigitsIn(v, i + 2, n) THEN "FLOAT" ELSE "STRING"
            BY <1>2a, <4>3, <4>4, <4>6
          <6> QED
            BY <4>1, <5>2, <5>3, <5>5, <6>1, <6>2
        <5> QED
          BY <5>4, <5>5
      <4>7. CASE ~(i < n)
        <5>1. ~ExponentFits(v, i, had)
          BY <4>7 DEF ExponentFits
        <5>2. ~ExponentIn(v, n, i + 1)
          BY <4>7 DEF ExponentIn
        <5> QED
          BY <3>1, <4>1, <5>1, <5>2
      <4> QED
        BY <4>5, <4>6, <4>7
    <3> QED
      BY <3>2, <3>3
  <2> QED
    BY <2>3, <2>4
<1> QED
  BY <1>3, <1>4, <1>5, <1>6

(* The loop's type is the number's.                                           *)
LEMMA NumberRead ==
  ASSUME NEW C, NEW v \in Seq(C), NEW n \in Nat \ {0}, n = Len(v)
  PROVE  NumberType(v) = TypeFrom(v, n, 2, IF v[1] = "." THEN {"period"} ELSE {})
<1> DEFINE From[i \in 2..(Len(v) + 2)] == [had \in NumberParts |->
             IF i > Len(v) THEN IF had = {} THEN "INTEGER" ELSE "FLOAT"
             ELSE IF v[i] = "." THEN
               IF PeriodFits(v, i, had) THEN From[i + 1][{"period"}] ELSE "STRING"
             ELSE IF Digit(v[i - 1]) /\ v[i] = "e" THEN
               IF ~ExponentFits(v, i, had) THEN "STRING"
               ELSE From[IF Digit(v[i + 1]) THEN i + 1 ELSE i + 2][had \cup {"exponent"}]
             ELSE IF Digit(v[i]) THEN From[i + 1][had]
             ELSE "STRING"]
           Right == [i \in 2..(n + 2) |-> [had \in NumberParts |-> TypeFrom(v, n, i, had)]]
           Turned(f) == [i \in 2..(n + 2) |-> [had \in NumberParts |-> NumberTurn(f, v, n, i, had)]]
<1>1. NumberType(v) = From[2][IF v[1] = "." THEN {"period"} ELSE {}]
  BY DEF NumberType
<1>2. From = CHOOSE f : f = Turned(f)
  BY DEF NumberTurn
<1> HIDE DEF From
<1>3. \A i \in 2..(n + 2) : RightBehind(Right, v, n, i)
  BY DEF RightBehind
<1>4. ASSUME NEW i \in 2..(n + 2), NEW had \in NumberParts
      PROVE  NumberTurn(Right, v, n, i, had) = TypeFrom(v, n, i, had)
  <2> HIDE DEF Right
  <2> QED
    BY <1>3, TurnRight
<1>5. Right = Turned(Right)
  <2>1. PICK r : r = Right
    OBVIOUS
  <2>2. \A i \in 2..(n + 2) : \A had \in NumberParts :
          NumberTurn(r, v, n, i, had) = TypeFrom(v, n, i, had)
    BY <1>4, <2>1
  <2>3. Right = Turned(r)
    BY <2>2
  <2> QED
    BY <2>1, <2>3
<1>6. From = Turned(From)
  <2> HIDE DEF Right, Turned
  <2> QED
    BY <1>2, <1>5
<1> HIDE DEF Right
<1>7. ASSUME NEW i \in 2..(n + 2), NEW had \in NumberParts
      PROVE  From[i][had] = NumberTurn(From, v, n, i, had)
  <2>1. PICK g : g = From
    OBVIOUS
  <2>2. g = Turned(g)
    BY <1>6, <2>1
  <2>3. g[i] = [h \in NumberParts |-> NumberTurn(g, v, n, i, h)]
    <3>1. PICK k : k = Turned(g)
      OBVIOUS
    <3>2. k[i] = [h \in NumberParts |-> NumberTurn(g, v, n, i, h)]
      BY ONLY <3>1, i \in 2..(n + 2)
    <3> QED
      BY <2>2, <3>1, <3>2
  <2>4. g[i][had] = NumberTurn(g, v, n, i, had)
    BY <2>3
  <2> QED
    BY <2>1, <2>4
<1> HIDE DEF Turned
<1> DEFINE T == {d \in Nat : \A i \in 2..(n + 2) : i + d >= n + 2 =>
                    \A had \in NumberParts : From[i][had] = TypeFrom(v, n, i, had)}
<1>8. ASSUME NEW i \in 2..(n + 2),
             \A j \in (i + 1)..(n + 2) : \A had \in NumberParts :
               From[j][had] = TypeFrom(v, n, j, had)
      PROVE  \A had \in NumberParts : From[i][had] = TypeFrom(v, n, i, had)
  <2>1. RightBehind(From, v, n, i)
    BY <1>8 DEF RightBehind
  <2> QED
    BY <1>7, <2>1, TurnRight
<1>9. 0 \in T
  <2> SUFFICES ASSUME NEW i \in 2..(n + 2), i >= n + 2
               PROVE  \A had \in NumberParts : From[i][had] = TypeFrom(v, n, i, had)
    OBVIOUS
  <2>1. (i + 1)..(n + 2) = {}
    OBVIOUS
  <2> QED
    BY <1>8, <2>1
<1>10. ASSUME NEW d \in Nat, d \in T
       PROVE  d + 1 \in T
  <2> SUFFICES ASSUME NEW i \in 2..(n + 2), i + (d + 1) >= n + 2
               PROVE  \A had \in NumberParts : From[i][had] = TypeFrom(v, n, i, had)
    OBVIOUS
  <2>1. \A j \in (i + 1)..(n + 2) : j \in 2..(n + 2) /\ j + d >= n + 2
    OBVIOUS
  <2>2. \A j \in (i + 1)..(n + 2) : \A had \in NumberParts :
          From[j][had] = TypeFrom(v, n, j, had)
    BY <1>10, <2>1
  <2> QED
    BY <1>8, <2>2
<1>11. n \in T
  <2> HIDE DEF T
  <2> QED
    BY <1>9, <1>10, SuccessorInduction
<1>12. \A had \in NumberParts : From[2][had] = TypeFrom(v, n, 2, had)
  <2>1. 2 \in 2..(n + 2) /\ 2 + n >= n + 2
    OBVIOUS
  <2> QED
    BY <1>11, <2>1
<1>13. PICK h : h = IF v[1] = "." THEN {"period"} ELSE {}
  OBVIOUS
<1>14. h \in NumberParts
  BY <1>13 DEF NumberParts
<1> QED
  BY <1>1, <1>12, <1>13, <1>14

(* All of a text is digits when every place of it is.                         *)
LEMMA AllDigitsPlaces ==
  ASSUME NEW C, NEW w \in Seq(C)
  PROVE  AllDigits(w) <=> \A j \in 1..Len(w) : Digit(w[j])
BY DEF AllDigits, Digit, ToSet

LEMMA MantissaPlaces ==
  ASSUME NEW C, NEW w \in Seq(C)
  PROVE  Mantissa(w) <=> /\ Len(w) > 0
                         /\ \A j \in 1..Len(w) : Digit(w[j]) \/ w[j] = "."
                         /\ \A i \in 1..Len(w) : \A j \in 1..Len(w) :
                              w[i] = "." /\ w[j] = "." => i = j
<1>1. w # <<>> <=> Len(w) > 0
  BY EmptySeq
<1>2. ToSet(w) \subseteq HexDigits \cup {"."} <=> \A j \in 1..Len(w) : Digit(w[j]) \/ w[j] = "."
  BY DEF Digit, ToSet
<1> QED
  BY <1>1, <1>2 DEF Mantissa

(* u is what of the value v lies behind its first s characters.               *)
Behind(C, v, u, s, n) ==
  u \in Seq(C) /\ s \in Nat /\ Len(u) > 0 /\ n = Len(u) + s /\ \A j \in 1..Len(u) : u[j] = v[j + s]

(* The mantissa of what lies behind, ...                                      *)
LEMMA MantissaBehind ==
  ASSUME NEW C, NEW v, NEW u, NEW s, NEW n, Behind(C, v, u, s, n), NEW m \in 1..Len(u)
  PROVE  Mantissa(SubSeq(u, 1, m)) <=> MantissaIn(v, s + 1, m + s, {})
<1> DEFINE w == SubSeq(u, 1, m)
<1>0. u \in Seq(C) /\ s \in Nat /\ \A j \in 1..Len(u) : u[j] = v[j + s]
  BY DEF Behind
<1>1. w \in Seq(C) /\ Len(w) = m /\ \A j \in 1..m : w[j] = u[j]
  BY <1>0, SubSeqProperties
<1>2. \A j \in 1..m : w[j] = v[j + s]
  BY <1>0, <1>1
<1> HIDE DEF w
<1>3. Mantissa(w) <=> /\ \A j \in 1..m : Digit(v[j + s]) \/ v[j + s] = "."
                      /\ \A i \in 1..m : \A j \in 1..m :
                           v[i + s] = "." /\ v[j + s] = "." => i = j
  BY <1>1, <1>2, MantissaPlaces
<1>4. \A k \in (s + 1)..(m + s) : k - s \in 1..m /\ (k - s) + s = k
  BY <1>0
<1>5. \A j \in 1..m : j + s \in (s + 1)..(m + s)
  BY <1>0
<1>6. (\A j \in 1..m : Digit(v[j + s]) \/ v[j + s] = ".")
        <=> \A k \in (s + 1)..(m + s) : Digit(v[k]) \/ v[k] = "."
  BY <1>4, <1>5
<1>7. ASSUME \A i \in 1..m : \A j \in 1..m : v[i + s] = "." /\ v[j + s] = "." => i = j,
             NEW k \in (s + 1)..(m + s), NEW l \in (s + 1)..(m + s), v[k] = ".", v[l] = "."
      PROVE  k = l
  <2>1. k - s = l - s
    BY <1>4, <1>7
  <2> QED
    BY <1>0, <2>1
<1>8. ASSUME \A k \in (s + 1)..(m + s) : \A l \in (s + 1)..(m + s) :
                v[k] = "." /\ v[l] = "." => k = l,
             NEW i \in 1..m, NEW j \in 1..m, v[i + s] = ".", v[j + s] = "."
      PROVE  i = j
  <2>1. i + s = j + s
    BY <1>5, <1>8
  <2> QED
    BY <1>0, <2>1
<1>9. "period" \notin {}
  OBVIOUS
<1>10. MantissaIn(v, s + 1, m + s, {})
         <=> /\ \A k \in (s + 1)..(m + s) : Digit(v[k]) \/ v[k] = "."
             /\ \A k \in (s + 1)..(m + s) : \A l \in (s + 1)..(m + s) :
                  v[k] = "." /\ v[l] = "." => k = l
  BY <1>9 DEF MantissaIn
<1>11. (\A i \in 1..m : \A j \in 1..m : v[i + s] = "." /\ v[j + s] = "." => i = j)
         <=> \A k \in (s + 1)..(m + s) : \A l \in (s + 1)..(m + s) :
               v[k] = "." /\ v[l] = "." => k = l
  BY <1>7, <1>8
<1> QED
  BY <1>3, <1>6, <1>10, <1>11 DEF w

(* ... its digits from k on, ...                                              *)
LEMMA DigitsBehind ==
  ASSUME NEW C, NEW v, NEW u, NEW s, NEW n, Behind(C, v, u, s, n), NEW k \in 1..(Len(u) + 1)
  PROVE  AllDigits(SubSeq(u, k, Len(u))) <=> DigitsIn(v, k + s, n)
<1> DEFINE w == SubSeq(u, k, Len(u))
           l == Len(u) - k + 1
<1>0. u \in Seq(C) /\ s \in Nat /\ n = Len(u) + s /\ \A j \in 1..Len(u) : u[j] = v[j + s]
  BY DEF Behind
<1>1. w \in Seq(C) /\ Len(w) = l /\ \A j \in 1..l : w[j] = u[k + j - 1]
  BY <1>0, SubSeqProperties
<1>2. \A j \in 1..l : k + j - 1 \in 1..Len(u) /\ (k + j - 1) + s \in (k + s)..n
  BY <1>0
<1>3. \A j \in 1..l : w[j] = v[(k + j - 1) + s]
  BY <1>0, <1>1, <1>2
<1>4. \A i \in (k + s)..n : i - s - k + 1 \in 1..l /\ (k + (i - s - k + 1) - 1) + s = i
  BY <1>0
<1> HIDE DEF w
<1>5. AllDigits(w) <=> \A j \in 1..l : Digit(w[j])
  BY <1>1, AllDigitsPlaces
<1>6. ASSUME \A j \in 1..l : Digit(w[j]), NEW i \in (k + s)..n
      PROVE  Digit(v[i])
  <2>1. PICK j \in 1..l : (k + j - 1) + s = i
    BY <1>4
  <2> QED
    BY <1>3, <1>6, <2>1
<1>7. ASSUME \A i \in (k + s)..n : Digit(v[i]), NEW j \in 1..l
      PROVE  Digit(w[j])
  BY <1>2, <1>3, <1>7
<1> QED
  BY <1>5, <1>6, <1>7 DEF DigitsIn, w

(* ... and an exponent's.                                                     *)
LEMMA ExponentBehind ==
  ASSUME NEW C, NEW v, NEW u, NEW s, NEW n, Behind(C, v, u, s, n), NEW k \in 1..(Len(u) + 1)
  PROVE  IntegerText(SubSeq(u, k, Len(u))) <=> ExponentIn(v, n, k + s)
<1> DEFINE w == SubSeq(u, k, Len(u))
<1>0. u \in Seq(C) /\ s \in Nat /\ n = Len(u) + s /\ \A j \in 1..Len(u) : u[j] = v[j + s]
  BY DEF Behind
<1>1. w \in Seq(C) /\ Len(w) = Len(u) - k + 1
  BY <1>0, SubSeqProperties
<1>2. AllDigits(w) <=> DigitsIn(v, k + s, n)
  BY DigitsBehind
<1>3. CASE k = Len(u) + 1
  <2>1. w = <<>> /\ ~(k + s <= n)
    BY <1>0, <1>1, <1>3, EmptySeq
  <2> QED
    BY <2>1 DEF IntegerText, Unsigned, ExponentIn
<1>4. CASE k \in 1..Len(u)
  <2>0. k + s <= n /\ Len(w) > 0
    <3> HIDE DEF w
    <3> QED
      BY <1>0, <1>1, <1>4
  <2>1. w # <<>> /\ k + s <= n /\ Len(w) > 0
    <3> HIDE DEF w
    <3> QED
      BY <1>1, <2>0, EmptySeq
  <2>2. w[1] = v[k + s]
    <3>1. w[1] = u[k]
      BY <1>0, <1>4, SubSeqProperties
    <3> QED
      BY <1>0, <1>4, <3>1
  <2>3. CASE w[1] \in {"+", "-"}
    <3>1. ~DigitsIn(v, k + s, n)
      <4>1. k + s \in Nat /\ n \in Nat /\ ~Digit(v[k + s])
        BY <1>0, <2>2, <2>3, NumberCharacters
      <4> QED
        BY <2>1, <4>1, DigitsOnward
    <3>2. Tail(w) = SubSeq(u, k + 1, Len(u))
      <4>1. Len(u) \in k..Len(u)
        BY <1>0, <1>4
      <4> QED
        BY <1>0, <1>4, <4>1, HeadTailOfSubSeq
    <3>3. AllDigits(Tail(w)) <=> DigitsIn(v, (k + 1) + s, n)
      <4>1. k + 1 \in 1..(Len(u) + 1)
        BY <1>0, <1>4
      <4> QED
        BY <3>2, <4>1, DigitsBehind
    <3>4. Tail(w) # <<>> <=> k + s < n
      <4>1. Tail(w) \in Seq(C) /\ Len(Tail(w)) = Len(w) - 1
        BY <1>1, <2>1, HeadTailProperties
      <4>2. Tail(w) # <<>> <=> Len(w) - 1 # 0
        BY <4>1, EmptySeq
      <4> QED
        BY <1>0, <1>1, <4>2
    <3>5. (k + 1) + s = (k + s) + 1
      BY <1>0
    <3>6. IntegerText(w) <=> Tail(w) # <<>> /\ AllDigits(Tail(w))
      BY <2>1, <2>3 DEF IntegerText, Unsigned
    <3>7. ExponentIn(v, n, k + s) <=> k + s < n /\ DigitsIn(v, (k + s) + 1, n)
      BY <2>1, <2>2, <2>3, <3>1 DEF ExponentIn
    <3> QED
      BY <3>3, <3>4, <3>5, <3>6, <3>7
  <2>4. CASE w[1] \notin {"+", "-"}
    <3>1. IntegerText(w) <=> AllDigits(w)
      BY <2>1, <2>4 DEF IntegerText, Unsigned
    <3> QED
      BY <1>2, <2>1, <2>2, <2>4, <3>1 DEF ExponentIn
  <2> QED
    BY <2>3, <2>4
<1> QED
  BY <1>0, <1>3, <1>4

(* What lies behind reads as a number with a fraction or an exponent ...      *)
FloatOf(u) ==
  \/ Mantissa(u)
  \/ \E m \in 1..(Len(u) - 1) :
       /\ Mantissa(SubSeq(u, 1, m)) /\ Digit(u[m]) /\ u[m + 1] = "e"
       /\ IntegerText(SubSeq(u, m + 2, Len(u)))

(* ... when the value does from there on.                                     *)
LEMMA FloatBehind ==
  ASSUME NEW C, NEW v, NEW u, NEW s, NEW n, Behind(C, v, u, s, n),
         ~(Digit(v[s]) /\ v[s + 1] = "e")
  PROVE  FloatOf(u) <=> FloatIn(v, n, s + 1, {})
<1>0. /\ u \in Seq(C) /\ s \in Nat /\ Len(u) > 0 /\ n = Len(u) + s
      /\ \A j \in 1..Len(u) : u[j] = v[j + s]
  BY DEF Behind
<1>1. Mantissa(u) <=> MantissaIn(v, s + 1, n, {})
  <2>1. SubSeq(u, 1, Len(u)) = u /\ Len(u) \in 1..Len(u)
    BY <1>0, SubSeqFull
  <2>2. Mantissa(SubSeq(u, 1, Len(u))) <=> MantissaIn(v, s + 1, Len(u) + s, {})
    BY <2>1, MantissaBehind
  <2> QED
    BY <1>0, <2>1, <2>2
<1>2. ASSUME NEW m \in 1..(Len(u) - 1)
      PROVE  /\ Mantissa(SubSeq(u, 1, m)) <=> MantissaIn(v, s + 1, m + s, {})
             /\ u[m] = v[m + s]
             /\ u[m + 1] = v[(m + s) + 1]
             /\ IntegerText(SubSeq(u, m + 2, Len(u))) <=> ExponentIn(v, n, (m + s) + 2)
  <2>1. m \in 1..Len(u) /\ m + 1 \in 1..Len(u) /\ m + 2 \in 1..(Len(u) + 1)
    BY <1>0
  <2>2. (m + 1) + s = (m + s) + 1 /\ (m + 2) + s = (m + s) + 2
    BY <1>0
  <2>3. IntegerText(SubSeq(u, m + 2, Len(u))) <=> ExponentIn(v, n, (m + 2) + s)
    BY <2>1, ExponentBehind
  <2>4. Mantissa(SubSeq(u, 1, m)) <=> MantissaIn(v, s + 1, m + s, {})
    BY <2>1, MantissaBehind
  <2>5. u[m + 1] = v[(m + 1) + s]
    BY <1>0, <2>1
  <2> QED
    BY <1>0, <2>1, <2>2, <2>3, <2>4, <2>5
<1>3. ASSUME NEW m \in 1..(Len(u) - 1), Mantissa(SubSeq(u, 1, m)), Digit(u[m]), u[m + 1] = "e",
             IntegerText(SubSeq(u, m + 2, Len(u)))
      PROVE  FloatIn(v, n, s + 1, {})
  <2>1. PICK l : l = m + s
    OBVIOUS
  <2>2. l \in ((s + 1) - 1)..(n - 1)
    BY <1>0, <2>1
  <2>3. ExponentAfter(v, n, s + 1, l, {})
    BY <1>2, <1>3, <2>1 DEF ExponentAfter
  <2> QED
    BY <2>2, <2>3 DEF FloatIn
<1>4. ASSUME NEW l \in ((s + 1) - 1)..(n - 1), ExponentAfter(v, n, s + 1, l, {})
      PROVE  FloatOf(u)
  <2>1. l # s
    BY <1>4 DEF ExponentAfter
  <2>2. PICK m \in 1..(Len(u) - 1) : m + s = l
    <3>1. l - s \in 1..(Len(u) - 1) /\ (l - s) + s = l
      BY <1>0, <2>1
    <3> QED
      BY <3>1
  <2>3. ExponentAfter(v, n, s + 1, m + s, {})
    BY <1>4, <2>2
  <2>4. /\ MantissaIn(v, s + 1, m + s, {}) /\ Digit(v[m + s]) /\ v[(m + s) + 1] = "e"
        /\ ExponentIn(v, n, (m + s) + 2)
    BY <2>3 DEF ExponentAfter
  <2>5. /\ Mantissa(SubSeq(u, 1, m)) /\ Digit(u[m]) /\ u[m + 1] = "e"
        /\ IntegerText(SubSeq(u, m + 2, Len(u)))
    BY <1>2, <2>4
  <2> QED
    BY <2>5 DEF FloatOf
<1> QED
  BY <1>1, <1>3, <1>4 DEF FloatOf, FloatIn

(* A value with its sign, ...                                                 *)
LEMMA SignedRead ==
  ASSUME NEW C, NEW v \in Seq(C), NEW n \in Nat, n = Len(v), n > 1, v[1] \in {"+", "-"}
  PROVE  /\ IntegerText(v) <=> DigitsIn(v, 2, n)
         /\ FloatText(v) <=> FloatIn(v, n, 2, {})
<1>1. v # <<>>
  BY EmptySeq
<1>2. PICK u : u = Tail(v)
  OBVIOUS
<1>3. Unsigned(v) = u
  BY <1>1, <1>2 DEF Unsigned
<1>4. u \in Seq(C) /\ Len(u) = n - 1 /\ \A j \in 1..(n - 1) : u[j] = v[j + 1]
  BY <1>1, <1>2, HeadTailProperties
<1>5. Behind(C, v, u, 1, n)
  BY <1>4 DEF Behind
<1>6. FloatOf(u) <=> FloatIn(v, n, 2, {})
  <2>1. ~Digit(v[1])
    BY NumberCharacters
  <2>2. FloatOf(u) <=> FloatIn(v, n, 1 + 1, {})
    BY <1>5, <2>1, FloatBehind
  <2> QED
    BY <2>2
<1>7. AllDigits(u) <=> DigitsIn(v, 2, n)
  <2>1. PICK w : w = SubSeq(u, 1, Len(u))
    OBVIOUS
  <2>2. w = u /\ 1 \in 1..(Len(u) + 1)
    BY <1>4, <2>1, SubSeqFull
  <2>3. AllDigits(w) <=> DigitsIn(v, 1 + 1, n)
    BY <1>5, <2>1, <2>2, DigitsBehind
  <2> QED
    BY <2>2, <2>3
<1>8. u # <<>>
  BY <1>4, EmptySeq
<1>9. IntegerText(v) <=> AllDigits(u)
  BY <1>3, <1>8 DEF IntegerText
<1>10. FloatText(v) <=> FloatOf(u)
  BY <1>3 DEF FloatText, FloatOf
<1> QED
  BY <1>6, <1>7, <1>9, <1>10

(* ... and one without.                                                       *)
LEMMA UnsignedRead ==
  ASSUME NEW C, NEW v \in Seq(C), NEW n \in Nat, n = Len(v), n > 0, v[1] \notin {"+", "-"},
         v[1] # "e"
  PROVE  /\ IntegerText(v) <=> DigitsIn(v, 1, n)
         /\ FloatText(v) <=> FloatIn(v, n, 1, {})
<1>1. Unsigned(v) = v
  BY DEF Unsigned
<1>2. Behind(C, v, v, 0, n)
  BY DEF Behind
<1>3. FloatOf(v) <=> FloatIn(v, n, 1, {})
  <2>1. ~(Digit(v[0]) /\ v[0 + 1] = "e")
    OBVIOUS
  <2>2. FloatOf(v) <=> FloatIn(v, n, 0 + 1, {})
    BY <1>2, <2>1, FloatBehind
  <2> QED
    BY <2>2
<1>4. AllDigits(v) <=> DigitsIn(v, 1, n)
  <2>1. PICK w : w = SubSeq(v, 1, Len(v))
    OBVIOUS
  <2>2. w = v /\ 1 \in 1..(Len(v) + 1)
    BY <2>1, SubSeqFull
  <2>3. AllDigits(w) <=> DigitsIn(v, 1 + 0, n)
    BY <1>2, <2>1, <2>2, DigitsBehind
  <2> QED
    BY <2>2, <2>3
<1>5. v # <<>>
  BY EmptySeq
<1>6. IntegerText(v) <=> AllDigits(v)
  BY <1>1, <1>5 DEF IntegerText
<1>7. FloatText(v) <=> FloatOf(v)
  BY <1>1 DEF FloatText, FloatOf
<1> QED
  BY <1>3, <1>4, <1>6, <1>7

(* Digit or sign, a value whose every character was looked at.                *)
LEMMA NumberTyped ==
  ASSUME NEW C, NEW v \in Seq(C), NEW n \in Nat, n = Len(v), n > 0,
         Digit(v[1]) \/ (n > 1 /\ v[1] \in {"+", "-", "."})
  PROVE  NumberType(v) = IF IntegerText(v) THEN "INTEGER"
                         ELSE IF FloatText(v) THEN "FLOAT" ELSE "STRING"
<1>0. /\ "." # "e" /\ "." # "+" /\ "." # "-" /\ "e" # "+" /\ "e" # "-"
      /\ \A c : Digit(c) => c # "." /\ c # "e" /\ c # "+" /\ c # "-"
  BY NumberCharacters
<1>1. PICK h : h = IF v[1] = "." THEN {"period"} ELSE {}
  OBVIOUS
<1>2. NumberType(v) = TypeFrom(v, n, 2, h)
  <2>1. n \in Nat \ {0}
    OBVIOUS
  <2> QED
    BY <1>1, <2>1, NumberRead
<1>3. "exponent" \notin h
  BY <1>1
<1>4. CASE v[1] = "."
  <2>1. h = {"period"} /\ h # {}
    BY <1>1, <1>4
  <2>2. TypeFrom(v, n, 2, h) = IF FloatIn(v, n, 2, h) THEN "FLOAT" ELSE "STRING"
    BY <1>3, <2>1 DEF TypeFrom
  <2>3. IntegerText(v) <=> DigitsIn(v, 1, n)
    BY <1>0, <1>4, UnsignedRead
  <2>4. FloatText(v) <=> FloatIn(v, n, 1, {})
    BY <1>0, <1>4, UnsignedRead
  <2>5. ~IntegerText(v)
    <3>1. ~Digit(v[1]) /\ 1 \in 1..n
      BY <1>0, <1>4
    <3> QED
      BY <2>3, <3>1 DEF DigitsIn
  <2>6. PICK none : none = {}
    OBVIOUS
  <2>7. FloatIn(v, n, 1, none) <=> /\ 1 = n \/ Digit(v[2])
                                   /\ FloatIn(v, n, 2, h)
    <3>1. "period" \notin none /\ 1 \in Nat \ {0} /\ 1 <= n /\ 1 + 1 = 2
      BY <2>6
    <3>2. FloatIn(v, n, 1, none) <=> /\ "period" \notin none
                                     /\ 1 = n \/ Digit(v[1 + 1])
                                     /\ FloatIn(v, n, 1 + 1, {"period"})
      BY <1>4, <3>1, FloatPeriod
    <3> QED
      BY <2>1, <3>1, <3>2
  <2>8. FloatIn(v, n, 2, h) => Digit(v[2])
    <3>1. n > 1 /\ 2 \in Nat \ {0} /\ 2 <= n /\ 2 - 1 = 1
      BY <1>0, <1>4
    <3>2. CASE v[2] = "."
      <4>1. "period" \in h
        BY <2>1
      <4>2. ~FloatIn(v, n, 2, h)
        BY <3>1, <3>2, <4>1, FloatPeriod
      <4> QED
        BY <4>2
    <3>3. CASE v[2] # "." /\ ~Digit(v[2])
      <4>1. FloatIn(v, n, 2, h) => Digit(v[2 - 1])
        BY <3>1, <3>3, FloatOther
      <4> QED
        BY <1>0, <1>4, <3>1, <4>1
    <3> QED
      BY <3>2, <3>3
  <2> QED
    BY <1>2, <2>2, <2>4, <2>5, <2>6, <2>7, <2>8
<1>5. ASSUME v[1] # "."
      PROVE  NumberType(v) = IF DigitsIn(v, 2, n) THEN "INTEGER"
                             ELSE IF FloatIn(v, n, 2, {}) THEN "FLOAT" ELSE "STRING"
  <2>1. h = {}
    BY <1>1, <1>5
  <2> QED
    BY <1>2, <1>3, <2>1 DEF TypeFrom
<1>6. CASE n > 1 /\ v[1] \in {"+", "-"}
  <2>1. v[1] # "."
    BY <1>0, <1>6
  <2>2. IntegerText(v) <=> DigitsIn(v, 2, n)
    BY <1>6, SignedRead
  <2>3. FloatText(v) <=> FloatIn(v, n, 2, {})
    BY <1>6, SignedRead
  <2> QED
    BY <1>5, <2>1, <2>2, <2>3
<1>7. CASE Digit(v[1])
  <2>1. v[1] # "." /\ v[1] \notin {"+", "-"} /\ v[1] # "e"
    BY <1>0, <1>7
  <2>2. IntegerText(v) <=> DigitsIn(v, 1, n)
    BY <2>1, UnsignedRead
  <2>3. FloatText(v) <=> FloatIn(v, n, 1, {})
    BY <2>1, UnsignedRead
  <2>4. DigitsIn(v, 1, n) <=> DigitsIn(v, 2, n)
    <3>1. 1 \in Nat /\ 1 <= n /\ 1 + 1 = 2
      OBVIOUS
    <3>2. DigitsIn(v, 1, n) <=> Digit(v[1]) /\ DigitsIn(v, 1 + 1, n)
      BY <3>1, DigitsOnward
    <3> QED
      BY <1>7, <3>1, <3>2
  <2>5. FloatIn(v, n, 1, {}) <=> FloatIn(v, n, 2, {})
    <3>1. 1 \in Nat /\ 1 <= n /\ 1 + 1 = 2
      OBVIOUS
    <3>2. FloatIn(v, n, 1, {}) <=> FloatIn(v, n, 1 + 1, {})
      BY <1>7, <3>1, FloatDigit
    <3> QED
      BY <3>1, <3>2
  <2> QED
    BY <1>5, <2>1, <2>2, <2>3, <2>4, <2>5
<1> QED
  BY <1>4, <1>6, <1>7

(* Something the wrapper turns down at its first character is not a number.    *)
LEMMA FirstTurnedDown ==
  ASSUME NEW C, NEW v \in Seq(C), NEW n \in Nat, n = Len(v), n > 0, v # <<".">>,
         ~Digit(v[1]), n = 1 \/ v[1] \notin {"+", "-", "."}
  PROVE  ~IntegerText(v) /\ ~HexText(v) /\ ~FloatText(v)
<1>0. /\ "." # "e" /\ "." # "+" /\ "." # "-" /\ "e" # "+" /\ "e" # "-"
      /\ \A c : Digit(c) => c # "." /\ c # "e" /\ c # "+" /\ c # "-"
  BY NumberCharacters
<1>1. ~HexText(v)
  <2>1. v[1] # "0"
    BY NumberCharacters
  <2> QED
    BY <2>1 DEF HexText
<1>2. v[1] # "."
  <2>1. SUFFICES ASSUME v[1] = "."
                 PROVE  FALSE
    OBVIOUS
  <2>2. n = 1
    BY <2>1
  <2>3. v = <<".">>
    <3>1. <<".">> \in Seq(C \cup {"."}) /\ v \in Seq(C \cup {"."}) /\ Len(<<".">>) = 1
      OBVIOUS
    <3>2. \A i \in 1..1 : v[i] = <<".">>[i]
      BY <2>1
    <3> QED
      BY <2>2, <3>1, <3>2, SeqEqual
  <2> QED
    BY <2>3
<1>3. CASE v[1] \in {"+", "-"}
  <2>1. n = 1 /\ v # <<>>
    BY <1>3, EmptySeq
  <2>2. PICK u : u = Unsigned(v)
    OBVIOUS
  <2>3. u = Tail(v)
    BY <1>3, <2>1, <2>2 DEF Unsigned
  <2>4. u \in Seq(C) /\ Len(u) = 0
    <3>1. v \in Seq(C) /\ v # <<>> /\ Len(v) = 1
      BY <2>1
    <3>2. u \in Seq(C) /\ Len(u) = Len(v) - 1
      BY ONLY <2>3, <3>1, HeadTailProperties
    <3> QED
      BY <3>1, <3>2
  <2>5. u = <<>>
    BY <2>4, EmptySeq
  <2>6. ~IntegerText(v)
    BY <2>2, <2>5 DEF IntegerText
  <2>7. ~Mantissa(u)
    BY <2>5 DEF Mantissa
  <2>8. 1..(Len(u) - 1) = {}
    BY <2>4
  <2> QED
    BY <1>1, <2>2, <2>6, <2>7, <2>8 DEF FloatText
<1>4. CASE v[1] \notin {"+", "-"} /\ v[1] # "e"
  <2>1. IntegerText(v) <=> DigitsIn(v, 1, n)
    BY <1>4, UnsignedRead
  <2>2. FloatText(v) <=> FloatIn(v, n, 1, {})
    BY <1>4, UnsignedRead
  <2>3. ~DigitsIn(v, 1, n)
    <3>1. 1 \in 1..n
      OBVIOUS
    <3> QED
      BY <3>1 DEF DigitsIn
  <2>4. ~FloatIn(v, n, 1, {})
    <3>1. 1 \in Nat \ {0} /\ 1 <= n
      OBVIOUS
    <3>2. FloatIn(v, n, 1, {}) => v[1] = "e"
      BY <1>2, <3>1, FloatOther
    <3> QED
      BY <1>4, <3>2
  <2> QED
    BY <1>1, <2>1, <2>2, <2>3, <2>4
<1>5. CASE v[1] = "e"
  <2>1. Unsigned(v) = v
    BY <1>0, <1>5 DEF Unsigned
  <2>2. ~AllDigits(v)
    <3>1. 1 \in 1..Len(v)
      OBVIOUS
    <3> QED
      BY <3>1, AllDigitsPlaces
  <2>3. ~Mantissa(v)
    <3>1. 1 \in 1..Len(v)
      OBVIOUS
    <3> QED
      BY <1>2, <3>1, MantissaPlaces
  <2>4. \A m \in 1..(Len(v) - 1) : ~Mantissa(SubSeq(v, 1, m))
    <3> SUFFICES ASSUME NEW m \in 1..(Len(v) - 1)
                 PROVE  ~Mantissa(SubSeq(v, 1, m))
      OBVIOUS
    <3>1. PICK w : w = SubSeq(v, 1, m)
      OBVIOUS
    <3>2. w \in Seq(C) /\ 1 \in 1..Len(w) /\ w[1] = v[1]
      BY <3>1, SubSeqProperties
    <3>3. ~Mantissa(w)
      BY <1>2, <3>2, MantissaPlaces
    <3> QED
      BY <3>1, <3>3
  <2>5. ~FloatText(v)
    BY <2>1, <2>3, <2>4 DEF FloatText
  <2> QED
    BY <1>1, <2>1, <2>2, <2>5 DEF IntegerText
<1> QED
  BY <1>3, <1>4, <1>5

(* A value that begins as one of base sixteen is not another number.           *)
LEMMA HexTurnedDown ==
  ASSUME NEW C, NEW v \in Seq(C), NEW n \in Nat, n = Len(v), n > 1, v[1] = "0", v[2] = "x"
  PROVE  ~IntegerText(v) /\ ~FloatText(v)
<1>0. /\ "." # "e" /\ "." # "x" /\ "e" # "x" /\ Digit("0")
      /\ \A c : Digit(c) => c # "." /\ c # "e" /\ c # "+" /\ c # "-" /\ c # "x"
  BY NumberCharacters
<1>1. Digit(v[1]) /\ v[1] \notin {"+", "-"} /\ v[1] # "e"
  BY <1>0
<1>2. IntegerText(v) <=> DigitsIn(v, 1, n)
  BY <1>1, UnsignedRead
<1>3. FloatText(v) <=> FloatIn(v, n, 1, {})
  BY <1>1, UnsignedRead
<1>4. ~Digit(v[2]) /\ v[2] # "." /\ v[2] # "e"
  BY <1>0
<1>5. ~DigitsIn(v, 1, n)
  <2>1. 2 \in 1..n
    OBVIOUS
  <2> QED
    BY <1>4, <2>1 DEF DigitsIn
<1>6. ~FloatIn(v, n, 1, {})
  <2>1. 1 \in Nat /\ 1 <= n /\ 1 + 1 = 2 /\ 2 \in Nat \ {0} /\ 2 <= n
    OBVIOUS
  <2>2. FloatIn(v, n, 1, {}) <=> FloatIn(v, n, 1 + 1, {})
    BY <1>1, <2>1, FloatDigit
  <2>3. ~FloatIn(v, n, 2, {})
    BY <1>4, <2>1, FloatOther
  <2> QED
    BY <2>1, <2>2, <2>3
<1> QED
  BY <1>2, <1>3, <1>5, <1>6

(* The type a value is passed on with is what its text reads as, whole: an    *)
(* unquoted value, of any characters and any length (nl_kvp_wrapper()).       *)
THEOREM TypeCorrectness ==
  ASSUME NEW C
  PROVE  \A v \in Seq(C) : TypeReadWhole(v)
<1> SUFFICES ASSUME NEW v \in Seq(C), v # <<>>
             PROVE  nl_kvp_wrapper(v, No) =
                      IF v \in TruthWords \/ IntegerText(v) \/ HexText(v) THEN "INTEGER"
                      ELSE IF FloatText(v) /\ v # <<".">> THEN "FLOAT" ELSE "STRING"
  BY DEF TypeReadWhole, No
<1>0. PICK n : n = Len(v)
  OBVIOUS
<1>1. n \in Nat /\ n > 0
  BY <1>0, EmptySeq
<1>2. CASE v \in TruthWords
  BY <1>2 DEF nl_kvp_wrapper, No
<1>3. CASE v \notin TruthWords /\ ~Digit(v[1]) /\ (n = 1 \/ v[1] \notin {"+", "-", "."})
  <2>1. nl_kvp_wrapper(v, No) = "STRING"
    BY <1>0, <1>3 DEF nl_kvp_wrapper, No
  <2>2. CASE v = <<".">>
    <3>1. v[1] = "." /\ Len(v) = 1
      BY <2>2
    <3>2. ~HexText(v)
      BY <3>1 DEF HexText
    <3>3. ~IntegerText(v)
      <4>1. v[1] \notin {"+", "-"} /\ v[1] # "e"
        BY <3>1, NumberCharacters
      <4>2. IntegerText(v) <=> DigitsIn(v, 1, n)
        BY <1>0, <1>1, <4>1, UnsignedRead
      <4>3. 1 \in 1..n
        BY <1>1
      <4> QED
        BY <1>3, <4>2, <4>3 DEF DigitsIn
    <3> QED
      BY <1>3, <2>1, <2>2, <3>2, <3>3
  <2>3. CASE v # <<".">>
    <3>1. ~IntegerText(v) /\ ~HexText(v) /\ ~FloatText(v)
      BY <1>0, <1>1, <1>3, <2>3, FirstTurnedDown
    <3> QED
      BY <1>3, <2>1, <3>1
  <2> QED
    BY <2>2, <2>3
<1>4. CASE /\ v \notin TruthWords /\ (Digit(v[1]) \/ (n > 1 /\ v[1] \in {"+", "-", "."}))
           /\ n > 1 /\ v[1] = "0" /\ v[2] = "x"
  <2>1. ~IntegerText(v) /\ ~FloatText(v)
    BY <1>0, <1>1, <1>4, HexTurnedDown
  <2>2. nl_kvp_wrapper(v, No) = IF HexText(v) THEN "INTEGER" ELSE "STRING"
    <3>1. Digit(v[1])
      BY <1>4, NumberCharacters
    <3> QED
      BY <1>0, <1>4, <3>1 DEF nl_kvp_wrapper, No, HexText
  <2> QED
    BY <1>4, <2>1, <2>2
<1>5. CASE /\ v \notin TruthWords /\ (Digit(v[1]) \/ (n > 1 /\ v[1] \in {"+", "-", "."}))
           /\ ~(n > 1 /\ v[1] = "0" /\ v[2] = "x")
  <2>1. nl_kvp_wrapper(v, No) = NumberType(v)
    <3>1. ~(~Digit(v[1]) /\ (n = 1 \/ v[1] \notin {"+", "-", "."}))
      BY <1>1, <1>5
    <3> QED
      BY <1>0, <1>5, <3>1 DEF nl_kvp_wrapper, No
  <2>2. NumberType(v) = IF IntegerText(v) THEN "INTEGER"
                        ELSE IF FloatText(v) THEN "FLOAT" ELSE "STRING"
    BY <1>0, <1>1, <1>5, NumberTyped
  <2>3. ~HexText(v)
    BY <1>0, <1>5 DEF HexText
  <2>4. v # <<".">>
    <3>1. SUFFICES ASSUME v = <<".">>
                   PROVE  FALSE
      OBVIOUS
    <3>2. v[1] = "." /\ Len(v) = 1
      BY <3>1
    <3>3. ~Digit(v[1]) /\ n = 1
      BY <1>0, <3>2, NumberCharacters
    <3> QED
      BY <1>5, <3>3
  <2> QED
    BY <1>5, <2>1, <2>2, <2>3, <2>4
<1> QED
  BY <1>1, <1>2, <1>3, <1>4, <1>5

-----------------------------------------------------------------------------
(* What is typed as a pair, a line or a value is read as it was written       *)
(* (kvp.c:212, kvp.c:124): in every state of the writer, whatever the readers *)
(* and their alphabets are, and however long the texts.                       *)
THEOREM PairsCorrectness == TextSpec => []PairsAsWritten
<1>1. ASSUME TextType
      PROVE  PairsAsWritten
  <2>1. CASE reader = "pair"
    <3> DEFINE C == Alphabet[reader]
    <3>1. text \in Seq(C)
      BY <1>1, <2>1 DEF TextType, NoReader
    <3> HIDE DEF C
    <3>2. ASSUME NEW i \in Cuts
          PROVE  PairReverses(KeyAt(i), ValueAt(i), FALSE)
      <4>1. i \in Nat /\ i <= Len(text)
        BY <3>1, <3>2 DEF Cuts
      <4>2. SubSeq(text, 1, i) \in Seq(C)
        <5>1. \A j \in 1..i : text[j] \in C
          BY <3>1, <4>1
        <5> QED
          BY <4>1, <5>1, SubSeqProperties
      <4>3. SubSeq(text, i + 1, Len(text)) \in Seq(C)
        <5>1. \A j \in (i + 1)..Len(text) : text[j] \in C
          BY <3>1, <4>1
        <5> QED
          BY <3>1, <4>1, <5>1, SubSeqProperties
      <4> QED
        BY <4>2, <4>3, PairCorrectness DEF KeyAt, ValueAt
    <3> QED
      BY <2>1, <3>2 DEF PairsAsWritten
  <2>2. CASE reader = "line"
    <3>1. text \in Seq(Alphabet[reader])
      BY <1>1, <2>2 DEF TextType, NoReader
    <3>2. PairsInOrder(text)
      BY <3>1, PlacesCorrectness
    <3> QED
      BY <2>2, <3>2 DEF PairsAsWritten
  <2>3. CASE reader = "number"
    <3>1. text \in Seq(Alphabet[reader])
      BY <1>1, <2>3 DEF TextType, NoReader
    <3>2. TypeReadWhole(text)
      BY <3>1, TypeCorrectness
    <3> QED
      BY <2>3, <3>2 DEF PairsAsWritten
  <2>4. CASE reader \notin {"pair", "line", "number"}
    BY <2>4 DEF PairsAsWritten
  <2> QED
    BY <2>1, <2>2, <2>3, <2>4
<1>2. TextType => PairsAsWritten
  BY <1>1
<1> QED
  BY <1>2, TextTyped, PTL
=============================================================================
