------------------------------ MODULE TextProofs ------------------------------
(***************************************************************************)
(* What is written can be read, for texts of any length: percent-encoding, *)
(* hexadecimal, the two escapes, lines and MAC addresses, and the searches *)
(* of two strings agree.  A writer is read as the places its codes have in *)
(* the text it writes, and a reader as a walk from code to code, from the  *)
(* end to the beginning; both are the recursive functions of the model, so *)
(* each step is an induction.                                              *)
(***************************************************************************)
EXTENDS Text, Induction, SequenceTheorems, FiniteSetTheorems, TLAPS

(* f is what FlattenSeq(parts) computes for each of its first k parts.       *)
Joins(f, k, parts) ==
  f = [i \in 1..k |-> IF i = 1 THEN parts[i] ELSE f[i - 1] \o parts[i]]

(* There is one for any parts.                                               *)
LEMMA JoinsExist ==
  ASSUME NEW S, NEW parts \in Seq(Seq(S)), NEW n \in Nat, n = Len(parts)
  PROVE  \E f \in [1..n -> Seq(S)] : Joins(f, n, parts)
<1> DEFINE Some(k) == \E f \in [1..k -> Seq(S)] : Joins(f, k, parts)
           T == {k \in Nat : k <= n => Some(k)}
<1>1. \A i \in 1..n : parts[i] \in Seq(S)
  OBVIOUS
<1>2. 0 \in T
  <2> DEFINE f == [i \in 1..0 |-> <<>>]
  <2>1. f \in [1..0 -> Seq(S)]
    OBVIOUS
  <2>2. f = [i \in 1..0 |-> IF i = 1 THEN parts[i] ELSE f[i - 1] \o parts[i]]
    OBVIOUS
  <2>3. Some(0)
    BY <2>1, <2>2 DEF Joins
  <2> QED
    BY <2>3
<1>3. ASSUME NEW k \in Nat, k \in T
      PROVE  k + 1 \in T
  <2> SUFFICES ASSUME k + 1 <= n
               PROVE  Some(k + 1)
    OBVIOUS
  <2>1. PICK f \in [1..k -> Seq(S)] : Joins(f, k, parts)
    BY <1>3
  <2> DEFINE whole == IF k = 0 THEN parts[1] ELSE f[k] \o parts[k + 1]
             g == [i \in 1..(k + 1) |-> IF i = k + 1 THEN whole ELSE f[i]]
  <2>2. whole \in Seq(S)
    <3>1. parts[k + 1] \in Seq(S)
      BY <1>1
    <3> QED
      BY <3>1
  <2>3. g \in [1..(k + 1) -> Seq(S)]
    BY <2>2
  <2>4. \A i \in 1..k : f[i] = IF i = 1 THEN parts[i] ELSE f[i - 1] \o parts[i]
    BY <2>1 DEF Joins
  <2>5. ASSUME NEW i \in 1..(k + 1)
        PROVE  g[i] = IF i = 1 THEN parts[i] ELSE g[i - 1] \o parts[i]
    <3>1. CASE i = k + 1
      <4>1. g[i] = whole
        BY <3>1
      <4>2. k # 0 => g[k] = f[k]
        OBVIOUS
      <4> HIDE DEF g
      <4> QED
        BY <3>1, <4>1, <4>2
    <3>2. CASE i # k + 1
      <4>1. i \in 1..k /\ g[i] = f[i] /\ (i # 1 => g[i - 1] = f[i - 1])
        BY <3>2
      <4> HIDE DEF g
      <4> QED
        BY <2>4, <4>1
    <3> QED
      BY <3>1, <3>2
  <2>6. g = [i \in 1..(k + 1) |-> IF i = 1 THEN parts[i] ELSE g[i - 1] \o parts[i]]
    BY <2>5
  <2> QED
    BY <2>3, <2>6 DEF Joins
<1>4. Nat \subseteq T
  <2> HIDE DEF T
  <2> QED
    BY <1>2, <1>3, SuccessorInduction
<1> QED
  BY <1>4

(* FlattenSeq() computes one of them.                                         *)
LEMMA FlattenJoins ==
  ASSUME NEW S, NEW parts \in Seq(Seq(S)), NEW n \in Nat \ {0}, n = Len(parts)
  PROVE  \E f \in [1..n -> Seq(S)] : Joins(f, n, parts) /\ FlattenSeq(parts) = f[n]
<1> DEFINE flatten[i \in 1..Len(parts)] == IF i = 1 THEN parts[i] ELSE flatten[i - 1] \o parts[i]
<1>1. PICK f \in [1..n -> Seq(S)] : Joins(f, n, parts)
  BY JoinsExist
<1>2. f = [i \in 1..Len(parts) |-> IF i = 1 THEN parts[i] ELSE f[i - 1] \o parts[i]]
  BY <1>1 DEF Joins
<1>3. flatten = [i \in 1..Len(parts) |-> IF i = 1 THEN parts[i] ELSE flatten[i - 1] \o parts[i]]
  BY <1>2
<1>4. FlattenSeq(parts) = flatten[n]
  BY DEF FlattenSeq
<1> HIDE DEF flatten
<1> DEFINE T == {i \in Nat : i + 1 <= n => flatten[i + 1] \in Seq(S)}
<1>5. \A i \in 1..n : parts[i] \in Seq(S)
  OBVIOUS
<1>6. 0 \in T
  BY <1>3, <1>5
<1>7. ASSUME NEW i \in Nat, i \in T
      PROVE  i + 1 \in T
  <2> SUFFICES ASSUME i + 2 <= n
               PROVE  flatten[i + 2] \in Seq(S)
    OBVIOUS
  <2>1. flatten[i + 1] \in Seq(S) /\ parts[i + 2] \in Seq(S)
    BY <1>5, <1>7
  <2>2. i + 2 \in 1..Len(parts) /\ i + 2 # 1 /\ (i + 2) - 1 = i + 1
    OBVIOUS
  <2>3. flatten[i + 2] = flatten[i + 1] \o parts[i + 2]
    BY <1>3, <2>2
  <2> QED
    BY <2>1, <2>3, ConcatProperties
<1>8. Nat \subseteq T
  <2> HIDE DEF T
  <2> QED
    BY <1>6, <1>7, SuccessorInduction
<1>9. ASSUME NEW i \in 1..n
      PROVE  flatten[i] \in Seq(S)
  <2>1. i - 1 \in Nat /\ (i - 1) + 1 = i /\ i <= n
    OBVIOUS
  <2> QED
    BY <1>8, <2>1
<1>10. flatten \in [1..n -> Seq(S)]
  BY <1>3, <1>9
<1> QED
  BY <1>3, <1>4, <1>10 DEF Joins

(* Where the parts are, one behind the other: part k at places[k - 1] + 1.    *)
Placed(whole, places, parts, n) ==
  /\ places \in [0..n -> Nat]
  /\ places[0] = 0 /\ Len(whole) = places[n]
  /\ \A k \in 0..n : places[k] <= Len(whole)
  /\ \A k \in 1..n : places[k] = places[k - 1] + Len(parts[k])
  /\ \A k \in 1..n : \A j \in 1..Len(parts[k]) : whole[places[k - 1] + j] = parts[k][j]

(* In the last of them each part has its place.                              *)
LEMMA JoinedPlaced ==
  ASSUME NEW S, NEW n \in Nat \ {0}, NEW parts, \A k \in 1..n : parts[k] \in Seq(S),
         NEW f \in [1..n -> Seq(S)], Joins(f, n, parts)
  PROVE  \E places : Placed(f[n], places, parts, n)
<1> DEFINE places == [k \in 0..n |-> IF k = 0 THEN 0 ELSE Len(f[k])]
           Part(m) == /\ \A i \in 0..m : places[i] <= places[m]
                      /\ \A i \in 1..m : \A j \in 1..Len(parts[i]) :
                           f[m][places[i - 1] + j] = parts[i][j]
           T == {m \in Nat : m <= n => Part(m)}
<1>1. \A k \in 1..n : f[k] \in Seq(S) /\ Len(f[k]) \in Nat /\ Len(parts[k]) \in Nat
  OBVIOUS
<1>2. places \in [0..n -> Nat]
  BY <1>1
<1>3. places[0] = 0 /\ \A k \in 1..n : places[k] = Len(f[k])
  OBVIOUS
<1> HIDE DEF places
<1>4. f[1] = parts[1]
  BY DEF Joins
<1>5. ASSUME NEW k \in 1..n, k # 1
      PROVE  f[k] = f[k - 1] \o parts[k]
  BY <1>5 DEF Joins
<1>6. ASSUME NEW k \in 1..n
      PROVE  /\ places[k] = places[k - 1] + Len(parts[k])
             /\ \A j \in 1..Len(parts[k]) : f[k][places[k - 1] + j] = parts[k][j]
             /\ \A j \in 1..places[k - 1] : k # 1 /\ f[k][j] = f[k - 1][j]
  <2>1. CASE k = 1
    <3>1. places[k - 1] = 0 /\ places[k] = Len(parts[k]) /\ f[k] = parts[k]
      BY <1>3, <1>4, <2>1
    <3> QED
      BY <1>1, <3>1
  <2>2. CASE k # 1
    <3> DEFINE s == f[k - 1]
               t == parts[k]
    <3>1. k - 1 \in 1..n
      BY <2>2
    <3>2. s \in Seq(S) /\ t \in Seq(S) /\ places[k - 1] = Len(s) /\ places[k] = Len(f[k])
      BY <1>1, <1>3, <3>1
    <3>3. f[k] = s \o t
      BY <1>5, <2>2
    <3> HIDE DEF s, t
    <3>4. /\ Len(f[k]) = Len(s) + Len(t)
          /\ \A i \in 1..Len(s) + Len(t) : f[k][i] = IF i <= Len(s) THEN s[i] ELSE t[i - Len(s)]
          /\ Len(s) \in Nat /\ Len(t) \in Nat
      BY <3>2, <3>3, ConcatProperties
    <3>5. ASSUME NEW j \in 1..Len(t)
          PROVE  f[k][places[k - 1] + j] = t[j]
      <4>1. /\ Len(s) + j \in 1..Len(s) + Len(t) /\ ~(Len(s) + j <= Len(s))
            /\ (Len(s) + j) - Len(s) = j
        BY <3>4
      <4>2. f[k][Len(s) + j] = t[j]
        BY <3>4, <4>1
      <4> QED
        BY <3>2, <4>2
    <3>6. ASSUME NEW j \in 1..places[k - 1]
          PROVE  f[k][j] = s[j]
      BY <3>2, <3>4
    <3> QED
      BY <2>2, <3>2, <3>4, <3>5, <3>6 DEF s, t
  <2> QED
    BY <2>1, <2>2
<1>7. 0 \in T
  BY <1>3
<1>8. ASSUME NEW m \in Nat, m \in T
      PROVE  m + 1 \in T
  <2> SUFFICES ASSUME m + 1 <= n
               PROVE  Part(m + 1)
    <3> HIDE DEF Part
    <3> QED
      OBVIOUS
  <2>1. m + 1 \in 1..n /\ (m + 1) - 1 = m /\ m \in 0..n /\ m + 1 \in 0..n
    OBVIOUS
  <2>2. /\ places[m + 1] = places[m] + Len(parts[m + 1])
        /\ \A x \in 1..Len(parts[m + 1]) : f[m + 1][places[m] + x] = parts[m + 1][x]
        /\ \A x \in 1..places[m] : f[m + 1][x] = f[m][x]
    BY <1>6, <2>1
  <2>3. places[m] \in Nat /\ places[m + 1] \in Nat /\ Len(parts[m + 1]) \in Nat
    BY <1>1, <1>2, <2>1
  <2>4. Part(m)
    <3> HIDE DEF Part
    <3> QED
      BY <1>8
  <2>5. ASSUME NEW i \in 0..(m + 1)
        PROVE  places[i] <= places[m + 1]
    <3>1. i \in 0..n /\ places[i] \in Nat
      BY <1>2
    <3>2. CASE i = m + 1
      BY <2>3, <3>2
    <3>3. CASE i # m + 1
      <4>1. places[i] <= places[m]
        BY <2>4, <3>3
      <4> QED
        BY <2>2, <2>3, <3>1, <4>1
    <3> QED
      BY <3>2, <3>3
  <2>6. ASSUME NEW i \in 1..(m + 1), NEW j \in 1..Len(parts[i])
        PROVE  f[m + 1][places[i - 1] + j] = parts[i][j]
    <3>1. CASE i = m + 1
      BY <2>2, <3>1
    <3>2. CASE i # m + 1
      <4>1. i \in 1..m /\ i \in 1..n /\ i - 1 \in 0..n
        BY <3>2
      <4>2. f[m][places[i - 1] + j] = parts[i][j] /\ places[i] <= places[m]
        BY <2>4, <4>1
      <4>3. /\ places[i] = places[i - 1] + Len(parts[i])
            /\ places[i - 1] \in Nat /\ Len(parts[i]) \in Nat
        <5>1. places[i] = places[i - 1] + Len(parts[i])
          BY <1>6, <4>1
        <5>2. places[i - 1] \in Nat
          BY <1>2, <4>1
        <5>3. Len(parts[i]) \in Nat
          BY <1>1, <4>1
        <5> QED
          BY <5>1, <5>2, <5>3
      <4>4. PICK x \in 1..places[m] : x = places[i - 1] + j
        <5>1. places[i - 1] + j \in Nat /\ places[i - 1] + j >= 1
          BY <4>3
        <5>2. places[i - 1] + j <= places[i] /\ places[i] <= places[m]
          BY <4>2, <4>3
        <5>3. places[i] \in Nat
          BY <4>3
        <5> QED
          BY <2>3, <5>1, <5>2, <5>3
      <4>5. f[m + 1][x] = f[m][x]
        BY <2>2
      <4> QED
        BY <4>2, <4>4, <4>5
    <3> QED
      BY <3>1, <3>2
  <2> QED
    BY <2>5, <2>6
<1>9. Nat \subseteq T
  <2> HIDE DEF T
  <2> QED
    BY <1>7, <1>8, SuccessorInduction
<1>10. Part(n)
  BY <1>9
<1>11. /\ \A i \in 1..n : \A j \in 1..Len(parts[i]) : f[n][places[i - 1] + j] = parts[i][j]
       /\ \A i \in 0..n : places[i] <= Len(f[n])
  <2>1. places[n] = Len(f[n])
    BY <1>3
  <2>2. \A i \in 0..n : places[i] <= places[n]
    BY <1>10
  <2>3. \A i \in 1..n : \A j \in 1..Len(parts[i]) : f[n][places[i - 1] + j] = parts[i][j]
    BY <1>10
  <2> QED
    BY <2>1, <2>2, <2>3
<1>12. /\ places[0] = 0 /\ Len(f[n]) = places[n]
       /\ \A k \in 1..n : places[k] = places[k - 1] + Len(parts[k])
  BY <1>3, <1>6
<1>13. Placed(f[n], places, parts, n)
  BY <1>2, <1>11, <1>12 DEF Placed
<1> QED
  BY <1>13

(* FlattenSeq() puts the parts one behind the other.                          *)
LEMMA Flattened ==
  ASSUME NEW S, NEW parts \in Seq(Seq(S)), NEW n \in Nat, n = Len(parts)
  PROVE  /\ FlattenSeq(parts) \in Seq(S)
         /\ \E places : Placed(FlattenSeq(parts), places, parts, n)
<1>1. CASE n = 0
  <2>1. FlattenSeq(parts) = <<>> /\ <<>> \in Seq(S)
    BY <1>1, EmptySeq DEF FlattenSeq
  <2> DEFINE places == [k \in 0..n |-> 0]
  <2>2. places \in [0..n -> Nat] /\ places[0] = 0 /\ Len(FlattenSeq(parts)) = places[n]
    BY <1>1, <2>1
  <2>3. 1..n = {}
    BY <1>1
  <2> HIDE DEF places
  <2>4. \A k \in 0..n : places[k] <= Len(FlattenSeq(parts))
    BY <1>1, <2>2
  <2>5. Placed(FlattenSeq(parts), places, parts, n)
    BY <2>2, <2>3, <2>4 DEF Placed
  <2> QED
    BY <2>1, <2>5
<1>2. CASE n # 0
  <2>1. PICK f \in [1..n -> Seq(S)] : Joins(f, n, parts) /\ FlattenSeq(parts) = f[n]
    BY <1>2, FlattenJoins
  <2>2. \A k \in 1..n : parts[k] \in Seq(S)
    OBVIOUS
  <2>3. \E places : Placed(f[n], places, parts, n)
    BY <1>2, <2>1, <2>2, JoinedPlaced
  <2> QED
    BY <1>2, <2>1, <2>3
<1> QED
  BY <1>1, <1>2

-----------------------------------------------------------------------------
(* Loops over a text from its start, as functions of the place.              *)

(* A loop that goes on from place i with what it does there: it ends with     *)
(* base at the end of the text, and turns what comes later into what there is *)
(* from place i on.                                                           *)
Walks(f, n, base, turn, step) ==
  f = [i \in 1..(n + 1) |-> IF i > n THEN base ELSE turn[i][f[step[i]]]]

(* There is one, wherever the steps go on.                                    *)
LEMMA WalkExists ==
  ASSUME NEW V, NEW base \in V, NEW n \in Nat, NEW turn \in [1..n -> [V -> V]],
         NEW step \in [1..n -> Nat], \A i \in 1..n : i < step[i] /\ step[i] <= n + 1
  PROVE  \E f \in [1..(n + 1) -> V] : Walks(f, n, base, turn, step)
<1> DEFINE Made(f, d) == \A i \in (n + 1 - d)..(n + 1) :
                           f[i] = IF i > n THEN base ELSE turn[i][f[step[i]]]
           Some(d) == \E f \in [(n + 1 - d)..(n + 1) -> V] : Made(f, d)
           T == {d \in Nat : d <= n => Some(d)}
<1>1. 0 \in T
  <2> DEFINE f == [i \in (n + 1 - 0)..(n + 1) |-> base]
  <2>1. f \in [(n + 1 - 0)..(n + 1) -> V]
    OBVIOUS
  <2>2. ASSUME NEW i \in (n + 1 - 0)..(n + 1)
        PROVE  f[i] = IF i > n THEN base ELSE turn[i][f[step[i]]]
    <3>1. i > n
      OBVIOUS
    <3>2. f[i] = base
      OBVIOUS
    <3> HIDE DEF f
    <3> QED
      BY <3>1, <3>2
  <2> HIDE DEF f
  <2> QED
    BY <2>1, <2>2
<1>2. ASSUME NEW d \in Nat, d \in T
      PROVE  d + 1 \in T
  <2> SUFFICES ASSUME d + 1 <= n
               PROVE  Some(d + 1)
    <3> HIDE DEF Some
    <3> QED
      OBVIOUS
  <2>0. Some(d)
    <3> HIDE DEF Some
    <3> QED
      BY <1>2
  <2>1. PICK f \in [(n + 1 - d)..(n + 1) -> V] : Made(f, d)
    BY <2>0
  <2> DEFINE p == n - d
             g == [i \in p..(n + 1) |-> IF i = p THEN turn[p][f[step[p]]] ELSE f[i]]
  <2>2. p \in 1..n /\ n + 1 - d = p + 1 /\ n + 1 - (d + 1) = p
    OBVIOUS
  <2> HIDE DEF p
  <2>3. step[p] \in (p + 1)..(n + 1) /\ turn[p] \in [V -> V]
    BY <2>2
  <2>4. turn[p][f[step[p]]] \in V
    BY <2>2, <2>3
  <2>5. g \in [p..(n + 1) -> V]
    <3>1. ASSUME NEW i \in p..(n + 1), i # p
          PROVE  f[i] \in V
      <4>1. i \in (p + 1)..(n + 1)
        BY <2>2, <3>1
      <4> QED
        BY <2>2, <4>1
    <3> QED
      BY <2>4, <3>1
  <2>6. g[p] = turn[p][f[step[p]]] /\ \A i \in (p + 1)..(n + 1) : g[i] = f[i]
    <3>1. p \in p..(n + 1) /\ \A i \in (p + 1)..(n + 1) : i \in p..(n + 1) /\ i # p
      BY <2>2
    <3> QED
      BY <3>1
  <2> HIDE DEF g
  <2>7. ASSUME NEW i \in p..(n + 1)
        PROVE  g[i] = IF i > n THEN base ELSE turn[i][g[step[i]]]
    <3>1. CASE i = p
      <4>1. ~(i > n)
        BY <2>2, <3>1
      <4>2. g[step[p]] = f[step[p]]
        BY <2>3, <2>6
      <4> QED
        BY <2>6, <3>1, <4>1, <4>2
    <3>2. CASE i # p
      <4>1. i \in (p + 1)..(n + 1) /\ g[i] = f[i]
        BY <2>2, <2>6, <3>2
      <4>2. f[i] = IF i > n THEN base ELSE turn[i][f[step[i]]]
        BY <2>1, <2>2, <4>1
      <4>3. i <= n => step[i] \in (p + 1)..(n + 1)
        BY <2>2, <4>1
      <4> QED
        BY <2>6, <4>1, <4>2, <4>3
    <3> QED
      BY <3>1, <3>2
  <2>8. Made(g, d + 1)
    BY <2>2, <2>7
  <2>9. g \in [(n + 1 - (d + 1))..(n + 1) -> V]
    BY <2>2, <2>5
  <2> HIDE DEF Made
  <2> QED
    BY <2>8, <2>9
<1>3. Nat \subseteq T
  <2> HIDE DEF T
  <2> QED
    BY <1>1, <1>2, SuccessorInduction
<1>4. CASE n = 0
  <2>1. PICK f \in [1..(n + 1) -> V] : Made(f, 0)
    BY <1>1, <1>4
  <2>2. f = [i \in 1..(n + 1) |-> IF i > n THEN base ELSE turn[i][f[step[i]]]]
    BY <1>4, <2>1
  <2> QED
    BY <2>2 DEF Walks
<1>5. PICK f \in [1..(n + 1) -> V] : \A i \in 1..(n + 1) :
                  f[i] = IF i > n THEN base ELSE turn[i][f[step[i]]]
  <2>1. Some(n)
    <3> HIDE DEF Some
    <3> QED
      BY <1>3
  <2>2. PICK f \in [(n + 1 - n)..(n + 1) -> V] : Made(f, n)
    BY <2>1
  <2>3. n + 1 - n = 1
    OBVIOUS
  <2> QED
    BY <2>2, <2>3
<1>6. f = [i \in 1..(n + 1) |-> IF i > n THEN base ELSE turn[i][f[step[i]]]]
  BY <1>5
<1> QED
  BY <1>6 DEF Walks

(* The text that is made from place i on: a head, and what is made from a     *)
(* later place on.                                                            *)
Onward(f, n, head, step) ==
  f = [i \in 1..(n + 1) |-> IF i > n THEN <<>> ELSE head[i] \o f[step[i]]]

(* There is one for any heads and steps that go on.                           *)
LEMMA OnwardExists ==
  ASSUME NEW S, NEW n \in Nat, NEW head \in [1..n -> Seq(S)], NEW step \in [1..n -> Nat],
         \A i \in 1..n : i < step[i] /\ step[i] <= n + 1
  PROVE  \E f \in [1..(n + 1) -> Seq(S)] : Onward(f, n, head, step)
<1> DEFINE turn == [i \in 1..n |-> [v \in Seq(S) |-> head[i] \o v]]
<1>1. turn \in [1..n -> [Seq(S) -> Seq(S)]]
  <2>1. \A i \in 1..n : \A v \in Seq(S) : head[i] \o v \in Seq(S)
    BY ConcatProperties
  <2> QED
    BY <2>1
<1>2. <<>> \in Seq(S)
  BY EmptySeq
<1>3. PICK f \in [1..(n + 1) -> Seq(S)] : Walks(f, n, <<>>, turn, step)
  <2> HIDE DEF turn
  <2> QED
    BY <1>1, <1>2, WalkExists
<1>4. ASSUME NEW i \in 1..(n + 1), ~(i > n)
      PROVE  turn[i][f[step[i]]] = head[i] \o f[step[i]]
  <2>1. i \in 1..n
    BY <1>4
  <2>2. step[i] \in 1..(n + 1)
    BY <2>1
  <2>3. f[step[i]] \in Seq(S)
    BY <2>2
  <2> QED
    BY <2>1, <2>3
<1> HIDE DEF turn
<1>5. f = [i \in 1..(n + 1) |-> IF i > n THEN <<>> ELSE turn[i][f[step[i]]]]
  BY <1>3 DEF Walks
<1>6. f = [i \in 1..(n + 1) |-> IF i > n THEN <<>> ELSE head[i] \o f[step[i]]]
  BY <1>4, <1>5
<1> QED
  BY <1>6 DEF Onward

-----------------------------------------------------------------------------
(* Percent encoding.                                                         *)

UrlCharacters == UrlDigits \cup {"z", "+", "/", " ", "%", "f2"}
UrlBytes == UrlCharacters \cup {"another byte"}

UrlCodeAt(s, i) == /\ s[i] = "%" /\ i + 2 <= Len(s)
                   /\ s[i + 1] \in UrlDigits /\ s[i + 2] \in UrlDigits
                   /\ <<s[i + 1], s[i + 2]>> # <<"0", "0">>

(* What the loop of nl_url_decode() writes at one place, and where it goes on. *)
UrlHead(s, i, ignore_plus) ==
  IF UrlCodeAt(s, i) THEN <<ByteOfCode(<<s[i + 1], s[i + 2]>>)>>
  ELSE IF s[i] = "+" /\ ~ignore_plus THEN <<" ">> ELSE <<s[i]>>

UrlStep(s, i) == IF UrlCodeAt(s, i) THEN i + 3 ELSE i + 1

(* nl_url_decode() goes through the text that way.                            *)
LEMMA UrlDecoded ==
  ASSUME NEW s \in Seq(UrlCharacters), NEW ignore_plus \in BOOLEAN, NEW n \in Nat, n = Len(s)
  PROVE  \E f : /\ nl_url_decode(s, ignore_plus) = f[1]
                /\ \A i \in 1..n : f[i] = UrlHead(s, i, ignore_plus) \o f[UrlStep(s, i)]
                /\ f[n + 1] = <<>>
<1> DEFINE head == [i \in 1..n |-> UrlHead(s, i, ignore_plus)]
           step == [i \in 1..n |-> UrlStep(s, i)]
           IsCode(i) == /\ s[i] = "%" /\ i + 2 <= Len(s)
                        /\ s[i + 1] \in UrlDigits /\ s[i + 2] \in UrlDigits
                        /\ <<s[i + 1], s[i + 2]>> # <<"0", "0">>
           From[i \in 1..(Len(s) + 1)] ==
             IF i > Len(s) THEN <<>>
             ELSE IF IsCode(i) THEN <<ByteOfCode(<<s[i + 1], s[i + 2]>>)>> \o From[i + 3]
             ELSE IF s[i] = "+" /\ ~ignore_plus THEN <<" ">> \o From[i + 1]
             ELSE <<s[i]>> \o From[i + 1]
<1>1. ASSUME NEW i \in 1..n
      PROVE  UrlHead(s, i, ignore_plus) \in Seq(UrlBytes)
  <2>1. s[i] \in UrlBytes
    <3>1. s[i] \in UrlCharacters
      BY ElementOfSeq
    <3> QED
      BY <3>1 DEF UrlBytes
  <2>2. \A code : ByteOfCode(code) \in UrlBytes
    BY DEF ByteOfCode, UrlBytes, UrlCharacters, UrlHex
  <2>3. " " \in UrlBytes
    BY DEF UrlBytes, UrlCharacters
  <2>4. \A b \in UrlBytes : <<b>> \in Seq(UrlBytes)
    OBVIOUS
  <2>5. /\ <<s[i]>> \in Seq(UrlBytes) /\ <<" ">> \in Seq(UrlBytes)
        /\ <<ByteOfCode(<<s[i + 1], s[i + 2]>>)>> \in Seq(UrlBytes)
    BY <2>1, <2>2, <2>3, <2>4
  <2> QED
    BY <2>5 DEF UrlHead
<1>2. \A i \in 1..n : step[i] \in Nat /\ i < step[i] /\ step[i] <= n + 1
  BY DEF UrlStep, UrlCodeAt
<1>3. PICK f \in [1..(n + 1) -> Seq(UrlBytes)] : Onward(f, n, head, step)
  <2>1. head \in [1..n -> Seq(UrlBytes)] /\ step \in [1..n -> Nat]
    BY <1>1, <1>2
  <2> HIDE DEF head, step
  <2> QED
    BY <1>2, <2>1, OnwardExists
<1>4. ASSUME NEW i \in 1..(n + 1)
      PROVE  f[i] = IF i > n THEN <<>> ELSE UrlHead(s, i, ignore_plus) \o f[UrlStep(s, i)]
  <2>1. f[i] = IF i > n THEN <<>> ELSE head[i] \o f[step[i]]
    BY <1>3 DEF Onward
  <2>2. i <= n => head[i] = UrlHead(s, i, ignore_plus) /\ step[i] = UrlStep(s, i)
    OBVIOUS
  <2> HIDE DEF head, step
  <2> QED
    BY <2>1, <2>2
<1>5. f = [i \in 1..(Len(s) + 1) |->
             IF i > Len(s) THEN <<>>
             ELSE IF IsCode(i) THEN <<ByteOfCode(<<s[i + 1], s[i + 2]>>)>> \o f[i + 3]
             ELSE IF s[i] = "+" /\ ~ignore_plus THEN <<" ">> \o f[i + 1]
             ELSE <<s[i]>> \o f[i + 1]]
  BY <1>4 DEF UrlHead, UrlStep, UrlCodeAt
<1>6. From = [i \in 1..(Len(s) + 1) |->
             IF i > Len(s) THEN <<>>
             ELSE IF IsCode(i) THEN <<ByteOfCode(<<s[i + 1], s[i + 2]>>)>> \o From[i + 3]
             ELSE IF s[i] = "+" /\ ~ignore_plus THEN <<" ">> \o From[i + 1]
             ELSE <<s[i]>> \o From[i + 1]]
  BY <1>5
<1>7. nl_url_decode(s, ignore_plus) = From[1]
  BY DEF nl_url_decode
<1>8. \A i \in 1..n : IsCode(i) <=> UrlCodeAt(s, i)
  BY DEF UrlCodeAt
<1> HIDE DEF From, IsCode, head, step
<1>9. ASSUME NEW i \in 1..n
      PROVE  From[i] = UrlHead(s, i, ignore_plus) \o From[UrlStep(s, i)]
  <2>1. ~(i > Len(s)) /\ i \in 1..(Len(s) + 1)
    OBVIOUS
  <2>2. From[i] = IF IsCode(i) THEN <<ByteOfCode(<<s[i + 1], s[i + 2]>>)>> \o From[i + 3]
                  ELSE IF s[i] = "+" /\ ~ignore_plus THEN <<" ">> \o From[i + 1]
                  ELSE <<s[i]>> \o From[i + 1]
    BY <1>6, <2>1
  <2> QED
    BY <1>8, <2>2 DEF UrlHead, UrlStep
<1>10. From[n + 1] = <<>>
  <2>1. n + 1 > Len(s) /\ n + 1 \in 1..(Len(s) + 1)
    OBVIOUS
  <2> QED
    BY <1>6, <2>1
<1> QED
  BY <1>7, <1>9, <1>10

(* Each character is encoded with characters.                                 *)
LEMMA EncodedType ==
  ASSUME NEW c \in UrlCharacters, NEW encode_space \in BOOLEAN, NEW allow_reserved \in BOOLEAN
  PROVE  LET code == Encoded(c, encode_space, allow_reserved)
         IN  code \in Seq(UrlCharacters) /\ Len(code) \in {1, 3}
<1>1. CASE nl_url_is_allowed(c, allow_reserved)
  <2>1. Encoded(c, encode_space, allow_reserved) = <<c>>
    BY <1>1 DEF Encoded
  <2> QED
    BY <2>1
<1>2. CASE ~nl_url_is_allowed(c, allow_reserved) /\ c = " " /\ ~encode_space
  <2>1. Encoded(c, encode_space, allow_reserved) = <<"+">> /\ "+" \in UrlCharacters
    BY <1>2 DEF Encoded, UrlCharacters
  <2> QED
    BY <2>1
<1>3. CASE ~nl_url_is_allowed(c, allow_reserved) /\ ~(c = " " /\ ~encode_space)
  <2>1. Encoded(c, encode_space, allow_reserved) = <<"%">> \o UrlHex[c]
    BY <1>3 DEF Encoded
  <2>2. c \in {" ", "%", "+", "/", "f2"}
    BY <1>3 DEF nl_url_is_allowed, UrlCharacters, Alphanumeric
  <2>3. PICK a \in UrlCharacters, b \in UrlCharacters : UrlHex[c] = <<a, b>>
    BY <2>2 DEF UrlHex, UrlCharacters, UrlDigits
  <2>4. "%" \in UrlCharacters
    BY DEF UrlCharacters
  <2>5. <<"%">> \o <<a, b>> \in Seq(UrlCharacters) /\ Len(<<"%">> \o <<a, b>>) = 3
    <3>1. <<"%">> \in Seq(UrlCharacters) /\ <<a, b>> \in Seq(UrlCharacters)
      BY <2>4
    <3> QED
      BY <3>1, ConcatProperties
  <2> QED
    BY <2>1, <2>3, <2>5
<1> QED
  BY <1>1, <1>2, <1>3

(* Equal pairs have equal parts.                                              *)
LEMMA EqualPairs ==
  ASSUME NEW a, NEW b, NEW c, NEW d, <<a, b>> = <<c, d>>
  PROVE  a = c /\ b = d
<1>1. <<a, b>>[1] = <<c, d>>[1] /\ <<a, b>>[2] = <<c, d>>[2]
  OBVIOUS
<1> QED
  BY <1>1

(* A character that is encoded with a percent sign is the one its two digits  *)
(* stand for.                                                                 *)
LEMMA HexByte ==
  ASSUME NEW c \in {" ", "%", "+", "/", "f2"}
  PROVE  \E a, b \in UrlDigits : /\ UrlHex[c] = <<a, b>> /\ <<a, b>> # <<"0", "0">>
                                 /\ ByteOfCode(<<a, b>>) = c
<1> DEFINE H == {" ", "%", "+", "/", "f2"}
<1>1. DOMAIN UrlHex = H
  BY DEF UrlHex
<1>2. /\ UrlHex[" "] = <<"2", "0">> /\ UrlHex["%"] = <<"2", "5">> /\ UrlHex["+"] = <<"2", "b">>
      /\ UrlHex["/"] = <<"2", "f">> /\ UrlHex["f2"] = <<"f", "2">>
  BY DEF UrlHex
<1>3. ASSUME NEW d \in H, UrlHex[d] = UrlHex[c]
      PROVE  d = c
  <2> DEFINE First(h) == CASE h = " " -> "2" [] h = "%" -> "2" [] h = "+" -> "2"
                           [] h = "/" -> "2" [] OTHER -> "f"
             Second(h) == CASE h = " " -> "0" [] h = "%" -> "5" [] h = "+" -> "b"
                            [] h = "/" -> "f" [] OTHER -> "2"
  <2>1. ASSUME NEW h \in H
        PROVE  UrlHex[h] = <<First(h), Second(h)>>
    <3>1. CASE h = " " \/ h = "%"
      BY <1>2, <3>1
    <3>2. CASE h = "+" \/ h = "/"
      BY <1>2, <3>2
    <3>3. CASE h = "f2"
      BY <1>2, <3>3
    <3> QED
      BY <3>1, <3>2, <3>3
  <2>2. <<First(d), Second(d)>> = <<First(c), Second(c)>>
    <3>1. UrlHex[d] = <<First(d), Second(d)>> /\ UrlHex[c] = <<First(c), Second(c)>>
      BY <2>1
    <3> HIDE DEF First, Second
    <3> QED
      BY <1>3, <3>1
  <2>3. First(d) = First(c) /\ Second(d) = Second(c)
    <3> HIDE DEF First, Second
    <3> QED
      BY <2>2, EqualPairs
  <2> QED
    BY <1>3, <2>3
<1>4. ByteOfCode(UrlHex[c]) = c
  BY <1>1, <1>3 DEF ByteOfCode
<1>5. \E a, b \in UrlDigits : UrlHex[c] = <<a, b>> /\ <<a, b>> # <<"0", "0">>
  BY <1>2 DEF UrlDigits
<1> QED
  BY <1>4, <1>5

(* Plus means the same on both sides.                                         *)
PlusAgrees(encode_space, allow_reserved, ignore_plus) ==
  IF ignore_plus THEN encode_space ELSE ~allow_reserved

(* The code of a character behind place q of a text.                          *)
HasCode(e, q, code) ==
  q \in Nat /\ q + Len(code) <= Len(e) /\ \A j \in 1..Len(code) : e[q + j] = code[j]

(* Where a text has the code of a character, the loop of nl_url_decode()      *)
(* writes the character and goes on behind the code.                          *)
LEMMA CodeDecoded ==
  ASSUME NEW c \in UrlCharacters, NEW encode_space \in BOOLEAN, NEW allow_reserved \in BOOLEAN,
         NEW ignore_plus \in BOOLEAN, PlusAgrees(encode_space, allow_reserved, ignore_plus),
         NEW e \in Seq(UrlCharacters), NEW q, NEW code,
         code = Encoded(c, encode_space, allow_reserved), HasCode(e, q, code)
  PROVE  UrlHead(e, q + 1, ignore_plus) = <<c>> /\ UrlStep(e, q + 1) = q + Len(code) + 1
<1>0. q \in Nat /\ q + Len(code) <= Len(e) /\ \A j \in 1..Len(code) : e[q + j] = code[j]
  BY DEF HasCode
<1>1. CASE nl_url_is_allowed(c, allow_reserved)
  <2>1. code = <<c>> /\ Len(code) = 1 /\ e[q + 1] = c
    BY <1>0, <1>1 DEF Encoded
  <2>2. c # "%" /\ (c = "+" => ignore_plus)
    BY <1>1 DEF nl_url_is_allowed, PlusAgrees, Alphanumeric, UrlDigits, Reserved
  <2>3. ~UrlCodeAt(e, q + 1)
    BY <1>0, <2>1, <2>2 DEF UrlCodeAt
  <2> QED
    BY <1>0, <2>1, <2>2, <2>3 DEF UrlHead, UrlStep
<1>2. CASE ~nl_url_is_allowed(c, allow_reserved) /\ c = " " /\ ~encode_space
  <2>0. code = <<"+">>
    BY <1>2 DEF Encoded
  <2>1. code = <<"+">> /\ Len(code) = 1 /\ e[q + 1] = "+"
    BY <1>0, <2>0
  <2>2. ~ignore_plus
    BY <1>2 DEF PlusAgrees
  <2>3. ~UrlCodeAt(e, q + 1)
    BY <1>0, <2>1 DEF UrlCodeAt
  <2> QED
    BY <1>0, <1>2, <2>1, <2>2, <2>3 DEF UrlHead, UrlStep
<1>3. CASE ~nl_url_is_allowed(c, allow_reserved) /\ ~(c = " " /\ ~encode_space)
  <2>1. code = <<"%">> \o UrlHex[c]
    BY <1>3 DEF Encoded
  <2>2. c \in {" ", "%", "+", "/", "f2"}
    BY <1>3 DEF nl_url_is_allowed, UrlCharacters, Alphanumeric
  <2>3. PICK a \in UrlDigits, b \in UrlDigits :
           /\ UrlHex[c] = <<a, b>> /\ <<a, b>> # <<"0", "0">> /\ ByteOfCode(<<a, b>>) = c
    BY <2>2, HexByte
  <2>4. Len(code) = 3 /\ code[1] = "%" /\ code[2] = a /\ code[3] = b
    <3>1. code = <<"%">> \o <<a, b>>
      BY <2>1, <2>3
    <3> QED
      BY <3>1
  <2>5. e[q + 1] = "%" /\ e[q + 2] = a /\ e[q + 3] = b
    BY <1>0, <2>4
  <2>6. (q + 1) + 1 = q + 2 /\ (q + 1) + 2 = q + 3 /\ (q + 1) + 3 = q + 3 + 1
    BY <1>0
  <2>7. UrlCodeAt(e, q + 1)
    BY <1>0, <2>3, <2>4, <2>5, <2>6 DEF UrlCodeAt
  <2>8. UrlStep(e, q + 1) = q + Len(code) + 1
    BY <1>0, <2>4, <2>6, <2>7 DEF UrlStep
  <2>9. UrlHead(e, q + 1, ignore_plus) = <<ByteOfCode(<<a, b>>)>>
    BY <2>5, <2>6, <2>7 DEF UrlHead
  <2> QED
    BY <2>3, <2>8, <2>9
<1> QED
  BY <1>1, <1>2, <1>3

(* Decoding undoes encoding (url.c:78), for a text of any length, whenever    *)
(* plus means the same on both sides.                                         *)
THEOREM UrlCorrectness == \A s \in Seq(UrlCharacters) : UrlReverses(s)
<1> SUFFICES ASSUME NEW s \in Seq(UrlCharacters), NEW encode_space \in BOOLEAN,
                    NEW allow_reserved \in BOOLEAN, NEW ignore_plus \in BOOLEAN,
                    PlusAgrees(encode_space, allow_reserved, ignore_plus)
             PROVE  nl_url_decode(nl_url_encode(s, encode_space, allow_reserved), ignore_plus) = s
  BY DEF UrlReverses, PlusAgrees
<1> DEFINE e == nl_url_encode(s, encode_space, allow_reserved)
           parts == [i \in DOMAIN s |-> Encoded(s[i], encode_space, allow_reserved)]
<1>1. PICK n \in Nat : n = Len(s)
  OBVIOUS
<1>2. parts \in Seq(Seq(UrlCharacters)) /\ Len(parts) = n
  <2>1. DOMAIN s = 1..n
    BY <1>1
  <2>2. \A i \in 1..n : Encoded(s[i], encode_space, allow_reserved) \in Seq(UrlCharacters)
    BY <1>1, ElementOfSeq, EncodedType
  <2> QED
    BY <2>1, <2>2
<1>3. \A i \in 1..n : /\ parts[i] = Encoded(s[i], encode_space, allow_reserved)
                      /\ s[i] \in UrlCharacters
  BY <1>1, ElementOfSeq
<1>4. e = FlattenSeq(parts)
  BY DEF nl_url_encode
<1> HIDE DEF e, parts
<1>5. e \in Seq(UrlCharacters)
  BY <1>1, <1>2, <1>4, Flattened
<1>6. PICK places : Placed(e, places, parts, n)
  BY <1>1, <1>2, <1>4, Flattened
<1>7. PICK f : /\ nl_url_decode(e, ignore_plus) = f[1]
               /\ \A i \in 1..Len(e) : f[i] = UrlHead(e, i, ignore_plus) \o f[UrlStep(e, i)]
               /\ f[Len(e) + 1] = <<>>
  <2>1. Len(e) \in Nat
    BY <1>5
  <2> QED
    BY <1>5, <2>1, UrlDecoded
<1> DEFINE T == {d \in Nat : d <= n => f[places[n - d] + 1] = SubSeq(s, n - d + 1, n)}
<1>8. 0 \in T
  <2>1. places[n - 0] = Len(e) /\ n - 0 + 1 = n + 1
    BY <1>6 DEF Placed
  <2>2. SubSeq(s, n + 1, n) = <<>>
    BY SubSeqEmpty
  <2> QED
    BY <1>7, <2>1, <2>2
<1>9. ASSUME NEW d \in Nat, d \in T
      PROVE  d + 1 \in T
  <2> SUFFICES ASSUME d + 1 <= n
               PROVE  f[places[n - (d + 1)] + 1] = SubSeq(s, n - (d + 1) + 1, n)
    OBVIOUS
  <2>1. PICK k \in 1..n : k = n - d
    OBVIOUS
  <2>2. n - (d + 1) = k - 1 /\ n - (d + 1) + 1 = k
    BY <2>1
  <2>3. f[places[k] + 1] = SubSeq(s, k + 1, n)
    BY <1>9, <2>1
  <2> DEFINE q == places[k - 1]
             code == parts[k]
  <2>4. /\ q \in Nat /\ places[k] = q + Len(code) /\ places[k] <= Len(e)
        /\ \A j \in 1..Len(code) : e[q + j] = code[j]
    <3>1. k - 1 \in 0..n /\ k \in 0..n
      BY <2>1
    <3>2. q \in Nat /\ places[k] = q + Len(code) /\ \A j \in 1..Len(code) : e[q + j] = code[j]
      BY <1>6, <3>1 DEF Placed
    <3>3. places[k] <= Len(e)
      BY <1>6, <3>1 DEF Placed
    <3> QED
      BY <3>2, <3>3
  <2>5. s[k] \in UrlCharacters /\ code = Encoded(s[k], encode_space, allow_reserved)
    BY <1>3
  <2>5a. Len(code) \in {1, 3}
    BY <2>5, EncodedType
  <2> HIDE DEF q, code
  <2>6. UrlHead(e, q + 1, ignore_plus) = <<s[k]>> /\ UrlStep(e, q + 1) = places[k] + 1
    <3>1. HasCode(e, q, code)
      BY <2>4 DEF HasCode
    <3>2. PICK c \in UrlCharacters : c = s[k]
      BY <2>5
    <3>3. code = Encoded(c, encode_space, allow_reserved)
      BY <2>5, <3>2
    <3>4. UrlHead(e, q + 1, ignore_plus) = <<c>> /\ UrlStep(e, q + 1) = q + Len(code) + 1
      BY <1>5, <3>1, <3>3, CodeDecoded
    <3> QED
      BY <2>4, <3>2, <3>4
  <2>7. q + 1 \in 1..Len(e)
    <3>1. Len(e) \in Nat
      BY <1>5
    <3>2. Len(code) >= 1 /\ Len(code) \in Nat
      BY <2>5a
    <3>3. q \in Nat /\ q + Len(code) <= Len(e)
      BY <2>4
    <3> QED
      BY <3>1, <3>2, <3>3
  <2>8. f[q + 1] = <<s[k]>> \o SubSeq(s, k + 1, n)
    BY <1>7, <2>3, <2>6, <2>7
  <2>9. SubSeq(s, k, n) = <<s[k]>> \o SubSeq(s, k + 1, n)
    BY <1>1, SubSeqRecursiveFirst
  <2> QED
    BY <2>2, <2>8, <2>9 DEF q
<1>10. Nat \subseteq T
  <2> HIDE DEF T
  <2> QED
    BY <1>8, <1>9, SuccessorInduction
<1>11. f[places[n - n] + 1] = SubSeq(s, n - n + 1, n)
  BY <1>10
<1>12. places[n - n] + 1 = 1 /\ n - n + 1 = 1
  BY <1>6 DEF Placed
<1>13. SubSeq(s, 1, n) = s
  BY <1>1, SubSeqFull
<1>14. f[1] = s
  BY <1>11, <1>12, <1>13
<1> QED
  BY <1>7, <1>14 DEF e

(* Text with neither code nor plus is left alone (url.c:110).                 *)
THEOREM PlainCorrectness == \A s \in Seq(UrlCharacters) : UrlPlainKept(s)
<1> SUFFICES ASSUME NEW s \in Seq(UrlCharacters), ToSet(s) \cap {"%", "+"} = {},
                    NEW plus \in BOOLEAN
             PROVE  nl_url_decode(s, plus) = s
  BY DEF UrlPlainKept
<1>1. PICK n \in Nat : n = Len(s)
  OBVIOUS
<1>2. PICK f : /\ nl_url_decode(s, plus) = f[1]
               /\ \A i \in 1..n : f[i] = UrlHead(s, i, plus) \o f[UrlStep(s, i)]
               /\ f[n + 1] = <<>>
  BY <1>1, UrlDecoded
<1>3. ASSUME NEW i \in 1..n
      PROVE  UrlHead(s, i, plus) = <<s[i]>> /\ UrlStep(s, i) = i + 1
  <2>1. s[i] \in ToSet(s)
    BY <1>1 DEF ToSet
  <2>2. s[i] # "%" /\ s[i] # "+"
    BY <2>1
  <2> QED
    BY <2>2 DEF UrlHead, UrlStep, UrlCodeAt
<1> DEFINE T == {d \in Nat : d <= n => f[n - d + 1] = SubSeq(s, n - d + 1, n)}
<1>4. 0 \in T
  <2>1. n - 0 + 1 = n + 1 /\ SubSeq(s, n + 1, n) = <<>>
    BY SubSeqEmpty
  <2> QED
    BY <1>2, <2>1
<1>5. ASSUME NEW d \in Nat, d \in T
      PROVE  d + 1 \in T
  <2> SUFFICES ASSUME d + 1 <= n
               PROVE  f[n - (d + 1) + 1] = SubSeq(s, n - (d + 1) + 1, n)
    OBVIOUS
  <2>1. PICK k \in 1..n : k = n - d
    OBVIOUS
  <2>2. n - (d + 1) + 1 = k /\ n - d + 1 = k + 1
    BY <2>1
  <2>3. f[k + 1] = SubSeq(s, k + 1, n)
    BY <1>5, <2>2
  <2>4. f[k] = <<s[k]>> \o SubSeq(s, k + 1, n)
    BY <1>2, <1>3, <2>3
  <2>5. SubSeq(s, k, n) = <<s[k]>> \o SubSeq(s, k + 1, n)
    BY <1>1, SubSeqRecursiveFirst
  <2> QED
    BY <2>2, <2>4, <2>5
<1>6. Nat \subseteq T
  <2> HIDE DEF T
  <2> QED
    BY <1>4, <1>5, SuccessorInduction
<1>7. f[n - n + 1] = SubSeq(s, n - n + 1, n)
  BY <1>6
<1>8. f[1] = SubSeq(s, 1, n)
  BY <1>7
<1> QED
  BY <1>1, <1>2, <1>8, SubSeqFull

-----------------------------------------------------------------------------
(* Hexadecimal.                                                               *)

HexCharacters == [hex : Nat, upper : BOOLEAN]
HexDigitsOnly == [hex : 0..15, upper : {FALSE}]

(* Byte k of a text: its digits 2k - 1 and 2k.                                *)
HexPair(hex, k) == 2 * k <= Len(hex) /\ isxdigit(hex[2 * k - 1]) /\ isxdigit(hex[2 * k])
HexBytes(hex, m) == [k \in 1..m |-> <<hex[2 * k - 1].hex, hex[2 * k].hex>>]

(* The bytes of the pairs a text begins with.                                 *)
LEMMA HexBytesTyped ==
  ASSUME NEW hex \in Seq(HexCharacters), NEW m \in Nat, \A k \in 1..m : HexPair(hex, k)
  PROVE  HexBytes(hex, m) \in Seq(Seq(Nat)) /\ Len(HexBytes(hex, m)) = m
<1>1. ASSUME NEW k \in 1..m
      PROVE  <<hex[2 * k - 1].hex, hex[2 * k].hex>> \in Seq(Nat)
  <2>1. HexPair(hex, k)
    OBVIOUS
  <2>2. 2 * k - 1 \in 1..Len(hex) /\ 2 * k \in 1..Len(hex)
    BY <2>1 DEF HexPair
  <2>3. hex[2 * k - 1] \in HexCharacters /\ hex[2 * k] \in HexCharacters
    BY <2>2, ElementOfSeq
  <2> QED
    BY <2>3 DEF HexCharacters
<1> QED
  BY <1>1 DEF HexBytes

(* nl_from_hex() reads bytes up to the first place that has none.             *)
LEMMA FromHex ==
  ASSUME NEW hex \in Seq(HexCharacters), NEW n \in Nat, n = Len(hex)
  PROVE  \E m \in Nat : /\ 2 * m <= n
                        /\ \A k \in 1..m : HexPair(hex, k)
                        /\ ~HexPair(hex, m + 1)
                        /\ nl_from_hex(hex) = HexBytes(hex, m)
<1> DEFINE Here(i) == i + 1 <= Len(hex) /\ isxdigit(hex[i]) /\ isxdigit(hex[i + 1])
           Byte(i) == <<hex[i].hex, hex[i + 1].hex>>
           head == [i \in 1..(n + 1) |-> IF Here(i) THEN <<Byte(i)>> ELSE <<>>]
           step == [i \in 1..(n + 1) |-> IF Here(i) THEN i + 2 ELSE n + 2]
           From[i \in 1..(Len(hex) + 2)] == IF Here(i) THEN <<Byte(i)>> \o From[i + 2] ELSE <<>>
<1>1. nl_from_hex(hex) = From[1]
  BY DEF nl_from_hex
<1>2. ASSUME NEW i \in 1..(n + 1)
      PROVE  /\ head[i] \in Seq(Seq(Nat))
             /\ step[i] \in Nat /\ i < step[i] /\ step[i] <= n + 2
  <2>1. CASE Here(i)
    <3>1. i \in 1..Len(hex) /\ i + 1 \in 1..Len(hex)
      BY <2>1
    <3>2. hex[i] \in HexCharacters /\ hex[i + 1] \in HexCharacters
      BY <3>1, ElementOfSeq
    <3>3. Byte(i) \in Seq(Nat)
      BY <3>2 DEF HexCharacters
    <3>4. head[i] = <<Byte(i)>> /\ step[i] = i + 2
      BY <2>1
    <3> HIDE DEF Byte, head, step
    <3> QED
      BY <3>1, <3>3, <3>4
  <2>2. CASE ~Here(i)
    BY <2>2
  <2> QED
    BY <2>1, <2>2
<1>3. PICK f \in [1..(n + 2) -> Seq(Seq(Nat))] : Onward(f, n + 1, head, step)
  <2>1. head \in [1..(n + 1) -> Seq(Seq(Nat))] /\ step \in [1..(n + 1) -> Nat]
    BY <1>2
  <2>2. PICK p \in Nat : p = n + 1
    OBVIOUS
  <2>3. \A i \in 1..p : i < step[i] /\ step[i] <= p + 1
    BY <1>2, <2>2
  <2> HIDE DEF head, step
  <2>4. head \in [1..p -> Seq(Seq(Nat))] /\ step \in [1..p -> Nat]
    BY <2>1, <2>2
  <2>5. PICK f \in [1..(p + 1) -> Seq(Seq(Nat))] : Onward(f, p, head, step)
    BY <2>3, <2>4, OnwardExists
  <2>6. p + 1 = n + 2
    BY <2>2
  <2> QED
    BY <2>2, <2>5, <2>6
<1>4. f = [i \in 1..((n + 1) + 1) |-> IF i > n + 1 THEN <<>> ELSE head[i] \o f[step[i]]]
  BY <1>3 DEF Onward
<1>5. f[n + 2] = <<>>
  <2>1. n + 2 \in 1..((n + 1) + 1) /\ n + 2 > n + 1
    OBVIOUS
  <2> HIDE DEF head, step
  <2> QED
    BY <1>4, <2>1
<1>6. ASSUME NEW i \in 1..(n + 2)
      PROVE  f[i] = IF Here(i) THEN <<Byte(i)>> \o f[i + 2] ELSE <<>>
  <2>1. CASE i = n + 2
    <3>1. ~Here(i)
      BY <2>1
    <3> QED
      BY <1>5, <2>1, <3>1
  <2>2. CASE i # n + 2
    <3>1. i \in 1..(n + 1) /\ ~(i > n + 1)
      BY <2>2
    <3>2. f[i] = head[i] \o f[step[i]]
      <4> HIDE DEF head, step
      <4> QED
        BY <1>4, <3>1
    <3>3. CASE Here(i)
      <4>1. head[i] = <<Byte(i)>> /\ step[i] = i + 2
        BY <3>1, <3>3
      <4> HIDE DEF head, step, Byte, Here
      <4> QED
        BY <3>2, <3>3, <4>1
    <3>4. CASE ~Here(i)
      <4>1. head[i] = <<>> /\ step[i] = n + 2
        BY <3>1, <3>4
      <4>2. <<>> \o <<>> = <<>>
        BY ConcatEmptySeq, EmptySeq
      <4> HIDE DEF head, step, Byte, Here
      <4> QED
        BY <1>5, <3>2, <3>4, <4>1, <4>2
    <3> QED
      BY <3>3, <3>4
  <2> QED
    BY <2>1, <2>2
<1>7. f = [i \in 1..(Len(hex) + 2) |-> IF Here(i) THEN <<Byte(i)>> \o f[i + 2] ELSE <<>>]
  <2> HIDE DEF Here, Byte, head, step
  <2> QED
    BY <1>6
<1>8. From = [i \in 1..(Len(hex) + 2) |-> IF Here(i) THEN <<Byte(i)>> \o From[i + 2] ELSE <<>>]
  <2> HIDE DEF Here, Byte, head, step
  <2> QED
    BY <1>7
<1> HIDE DEF From
<1> DEFINE None == {m \in Nat : ~HexPair(hex, m + 1)}
<1>9. PICK m \in None : \A k \in None : m <= k
  <2>1. ~(2 * (n + 1) <= Len(hex))
    OBVIOUS
  <2>2. n \in None
    BY <2>1 DEF HexPair
  <2> HIDE DEF None
  <2>3. None \subseteq Nat
    BY DEF None
  <2> QED
    BY <2>2, <2>3, SmallestMember
<1>10. m \in Nat /\ ~HexPair(hex, m + 1)
  OBVIOUS
<1>11. ASSUME NEW k \in 1..m
       PROVE  HexPair(hex, k)
  <2>1. k - 1 \in Nat /\ k - 1 < m /\ (k - 1) + 1 = k
    BY <1>10
  <2>2. k - 1 \notin None
    <3> HIDE DEF None
    <3>1. ~(m <= k - 1)
      BY <1>10, <2>1
    <3> QED
      BY <1>9, <3>1
  <2> QED
    BY <2>1, <2>2
<1> HIDE DEF None
<1>12. 2 * m <= n
  <2>1. CASE m = 0
    BY <2>1
  <2>2. CASE m # 0
    <3>1. HexPair(hex, m)
      BY <1>10, <1>11, <2>2
    <3> QED
      BY <3>1 DEF HexPair
  <2> QED
    BY <2>1, <2>2
<1> DEFINE bytes == HexBytes(hex, m)
           T == {d \in Nat : d <= m => From[2 * (m - d) + 1] = SubSeq(bytes, m - d + 1, m)}
<1>13. bytes \in Seq(Seq(Nat)) /\ Len(bytes) = m /\ \A k \in 1..m : bytes[k] = Byte(2 * k - 1)
  <2>1. bytes \in Seq(Seq(Nat)) /\ Len(bytes) = m
    BY <1>10, <1>11, HexBytesTyped
  <2>2. \A k \in 1..m : (2 * k - 1) + 1 = 2 * k
    BY <1>10
  <2>3. \A k \in 1..m : bytes[k] = Byte(2 * k - 1)
    BY <2>2 DEF HexBytes
  <2> QED
    BY <2>1, <2>3
<1>14. \A k \in Nat : 2 * k + 1 <= n + 2 =>
          From[2 * k + 1] = IF HexPair(hex, k + 1) THEN <<Byte(2 * k + 1)>> \o From[2 * k + 3]
                            ELSE <<>>
  <2> SUFFICES ASSUME NEW k \in Nat, 2 * k + 1 <= n + 2
               PROVE  From[2 * k + 1] = IF HexPair(hex, k + 1)
                                        THEN <<Byte(2 * k + 1)>> \o From[2 * k + 3] ELSE <<>>
    OBVIOUS
  <2>1. /\ 2 * k + 1 \in 1..(Len(hex) + 2)
        /\ (2 * k + 1) + 2 = 2 * k + 3 /\ (2 * k + 1) + 1 = 2 * k + 2
        /\ 2 * (k + 1) = 2 * k + 2 /\ 2 * (k + 1) - 1 = 2 * k + 1
    OBVIOUS
  <2>2. Here(2 * k + 1) <=> HexPair(hex, k + 1)
    BY <2>1 DEF HexPair
  <2> HIDE DEF Here, Byte
  <2> QED
    BY <1>8, <2>1, <2>2
<1> HIDE DEF bytes, Byte, Here, head, step
<1>15. 0 \in T
  <2>1. m - 0 = m /\ 2 * m + 1 <= n + 2
    BY <1>10, <1>12
  <2>2. From[2 * m + 1] = <<>>
    BY <1>10, <1>14, <2>1
  <2>3. SubSeq(bytes, m + 1, m) = <<>>
    BY <1>10, SubSeqEmpty
  <2> QED
    BY <2>1, <2>2, <2>3
<1>16. ASSUME NEW d \in Nat, d \in T
       PROVE  d + 1 \in T
  <2> SUFFICES ASSUME d + 1 <= m
               PROVE  From[2 * (m - (d + 1)) + 1] = SubSeq(bytes, m - (d + 1) + 1, m)
    OBVIOUS
  <2>1. PICK k \in 1..m : k = m - d
    BY <1>10
  <2>2. PICK j \in Nat : j = k - 1
    BY <1>10
  <2>3. m - (d + 1) = j /\ m - (d + 1) + 1 = k /\ m - d = k /\ j + 1 = k
    BY <1>10, <2>1, <2>2
  <2>4. /\ 2 * j + 1 <= n + 2 /\ 2 * j + 3 = 2 * k + 1 /\ 2 * j + 1 = 2 * k - 1
    BY <1>10, <1>12, <2>2
  <2>5. From[2 * k + 1] = SubSeq(bytes, k + 1, m)
    <3>1. d <= m /\ 2 * (m - d) + 1 = 2 * k + 1 /\ m - d + 1 = k + 1
      BY <1>10, <2>1
    <3>2. From[2 * (m - d) + 1] = SubSeq(bytes, m - d + 1, m)
      BY <1>16, <3>1
    <3> QED
      BY <3>1, <3>2
  <2>6. HexPair(hex, j + 1)
    BY <1>11, <2>3
  <2>7. From[2 * j + 1] = <<Byte(2 * j + 1)>> \o From[2 * j + 3]
    BY <1>14, <2>4, <2>6
  <2>8. Byte(2 * j + 1) = bytes[k]
    BY <1>13, <2>4
  <2>9. SubSeq(bytes, k, m) = <<bytes[k]>> \o SubSeq(bytes, k + 1, m)
    <3>1. k \in 1..Len(bytes) /\ m \in k..Len(bytes)
      BY <1>10, <1>13
    <3> QED
      BY <1>13, <3>1, SubSeqRecursiveFirst
  <2> QED
    BY <2>3, <2>4, <2>5, <2>7, <2>8, <2>9
<1>17. Nat \subseteq T
  <2> HIDE DEF T
  <2> QED
    BY <1>15, <1>16, SuccessorInduction
<1>18. From[2 * (m - m) + 1] = SubSeq(bytes, m - m + 1, m)
  BY <1>10, <1>17
<1>19. 2 * (m - m) + 1 = 1 /\ m - m + 1 = 1
  BY <1>10
<1>20. From[1] = bytes
  BY <1>13, <1>18, <1>19, SubSeqFull
<1> QED
  BY <1>1, <1>10, <1>11, <1>12, <1>20 DEF bytes

(* nl_to_hex() writes the digits of a byte side by side.                      *)
LEMMA ToHex ==
  ASSUME NEW n \in Nat, NEW data \in Seq(Seq(0..15)), n = Len(data),
         \A k \in 1..n : Len(data[k]) = 2
  PROVE  LET hex == nl_to_hex(data) IN
         /\ hex \in Seq(HexDigitsOnly) /\ Len(hex) = 2 * n
         /\ \A k \in 1..n : hex[2 * k - 1] = digit(data[k][1], FALSE)
                            /\ hex[2 * k] = digit(data[k][2], FALSE)
<1> DEFINE hex == nl_to_hex(data)
           parts == [i \in DOMAIN data |-> <<digit(data[i][1], FALSE), digit(data[i][2], FALSE)>>]
<1>1. hex = FlattenSeq(parts)
  BY DEF nl_to_hex
<1>2. ASSUME NEW k \in 1..n
      PROVE  /\ parts[k] = <<digit(data[k][1], FALSE), digit(data[k][2], FALSE)>>
             /\ parts[k] \in Seq(HexDigitsOnly) /\ Len(parts[k]) = 2
             /\ parts[k][1] = digit(data[k][1], FALSE) /\ parts[k][2] = digit(data[k][2], FALSE)
  <2>1. data[k] \in Seq(0..15) /\ 1 \in 1..Len(data[k]) /\ 2 \in 1..Len(data[k])
    <3>1. data[k] \in Seq(0..15)
      BY ElementOfSeq
    <3>2. Len(data[k]) = 2
      OBVIOUS
    <3> QED
      BY <3>1, <3>2
  <2>2. data[k][1] \in 0..15 /\ data[k][2] \in 0..15
    BY <2>1, ElementOfSeq
  <2>3. digit(data[k][1], FALSE) \in HexDigitsOnly /\ digit(data[k][2], FALSE) \in HexDigitsOnly
    BY <2>2 DEF digit, HexDigitsOnly
  <2>4. parts[k] = <<digit(data[k][1], FALSE), digit(data[k][2], FALSE)>>
    <3>1. k \in DOMAIN data
      OBVIOUS
    <3> QED
      BY <3>1
  <2> HIDE DEF parts
  <2>5. PICK a \in HexDigitsOnly, b \in HexDigitsOnly :
           a = digit(data[k][1], FALSE) /\ b = digit(data[k][2], FALSE)
    BY <2>3
  <2>6. parts[k] = <<a, b>>
    BY <2>4, <2>5
  <2>7. <<a, b>> \in Seq(HexDigitsOnly) /\ Len(<<a, b>>) = 2 /\ <<a, b>>[1] = a /\ <<a, b>>[2] = b
    OBVIOUS
  <2> QED
    BY <2>4, <2>5, <2>6, <2>7
<1>3. parts \in Seq(Seq(HexDigitsOnly)) /\ Len(parts) = n
  <2>1. DOMAIN data = 1..n
    OBVIOUS
  <2>2. DOMAIN parts = 1..n
    BY <2>1
  <2>3. parts = [k \in 1..n |-> parts[k]]
    BY <2>2
  <2> HIDE DEF parts
  <2>4. parts \in [1..n -> Seq(HexDigitsOnly)]
    BY <1>2, <2>3
  <2> QED
    BY <2>4
<1> HIDE DEF hex, parts
<1>4. hex \in Seq(HexDigitsOnly)
  BY <1>1, <1>3, Flattened
<1>5. PICK places : Placed(hex, places, parts, n)
  BY <1>1, <1>3, Flattened
<1> DEFINE T == {k \in Nat : k <= n => places[k] = 2 * k}
<1>6. 0 \in T
  BY <1>5 DEF Placed
<1>7. ASSUME NEW k \in Nat, k \in T
      PROVE  k + 1 \in T
  <2> SUFFICES ASSUME k + 1 <= n
               PROVE  places[k + 1] = 2 * (k + 1)
    OBVIOUS
  <2>1. k + 1 \in 1..n /\ (k + 1) - 1 = k /\ places[k] = 2 * k
    BY <1>7
  <2>2. places[k + 1] = places[(k + 1) - 1] + Len(parts[k + 1])
    BY <1>5, <2>1 DEF Placed
  <2>3. Len(parts[k + 1]) = 2
    BY <1>2, <2>1
  <2> QED
    BY <2>1, <2>2, <2>3
<1>8. Nat \subseteq T
  <2> HIDE DEF T
  <2> QED
    BY <1>6, <1>7, SuccessorInduction
<1>9. \A k \in 0..n : places[k] = 2 * k
  BY <1>8
<1>10. Len(hex) = 2 * n
  BY <1>5, <1>9 DEF Placed
<1>11. ASSUME NEW k \in 1..n
       PROVE  hex[2 * k - 1] = digit(data[k][1], FALSE) /\ hex[2 * k] = digit(data[k][2], FALSE)
  <2>1. k - 1 \in 0..n /\ 1 \in 1..2 /\ 2 \in 1..2
    OBVIOUS
  <2>2. places[k - 1] = 2 * (k - 1)
    BY <1>9, <2>1
  <2>3. 2 * (k - 1) + 1 = 2 * k - 1 /\ 2 * (k - 1) + 2 = 2 * k
    OBVIOUS
  <2>4. \A j \in 1..Len(parts[k]) : hex[places[k - 1] + j] = parts[k][j]
    BY <1>5 DEF Placed
  <2>5. hex[2 * (k - 1) + 1] = parts[k][1] /\ hex[2 * (k - 1) + 2] = parts[k][2]
    BY <1>2, <2>1, <2>2, <2>4
  <2> QED
    BY <1>2, <2>3, <2>5
<1> QED
  BY <1>4, <1>10, <1>11 DEF hex

(* The bytes nl_from_hex() reads have two digits each.                        *)
LEMMA BytesOfDigits ==
  ASSUME NEW hex \in Seq(HexCharacters), NEW m \in Nat, \A k \in 1..m : HexPair(hex, k)
  PROVE  /\ HexBytes(hex, m) \in Seq(Seq(0..15)) /\ Len(HexBytes(hex, m)) = m
         /\ \A k \in 1..m : /\ HexBytes(hex, m)[k] = <<hex[2 * k - 1].hex, hex[2 * k].hex>>
                            /\ Len(HexBytes(hex, m)[k]) = 2
                            /\ HexBytes(hex, m)[k][1] = hex[2 * k - 1].hex
                            /\ HexBytes(hex, m)[k][2] = hex[2 * k].hex
<1> DEFINE bytes == HexBytes(hex, m)
<1>1. ASSUME NEW k \in 1..m
      PROVE  /\ bytes[k] = <<hex[2 * k - 1].hex, hex[2 * k].hex>>
             /\ <<hex[2 * k - 1].hex, hex[2 * k].hex>> \in Seq(0..15)
  <2>1. HexPair(hex, k)
    OBVIOUS
  <2>2. 2 * k - 1 \in 1..Len(hex) /\ 2 * k \in 1..Len(hex)
    BY <2>1 DEF HexPair
  <2>3. hex[2 * k - 1] \in HexCharacters /\ hex[2 * k] \in HexCharacters
    BY <2>2, ElementOfSeq
  <2>4. hex[2 * k - 1].hex < 16 /\ hex[2 * k].hex < 16
    BY <2>1 DEF HexPair, isxdigit
  <2>5. hex[2 * k - 1].hex \in 0..15 /\ hex[2 * k].hex \in 0..15
    <3>1. PICK a \in Nat, b \in Nat : a = hex[2 * k - 1].hex /\ b = hex[2 * k].hex
      BY <2>3 DEF HexCharacters
    <3>2. a < 16 /\ b < 16
      BY <2>4, <3>1
    <3>3. a \in 0..15 /\ b \in 0..15
      BY <3>2
    <3> QED
      BY <3>1, <3>3
  <2> QED
    BY <2>5 DEF HexBytes
<1>2. bytes \in Seq(Seq(0..15)) /\ Len(bytes) = m
  <2>1. bytes = [k \in 1..m |-> bytes[k]]
    BY DEF HexBytes
  <2> HIDE DEF bytes
  <2>2. bytes \in [1..m -> Seq(0..15)]
    BY <1>1, <2>1
  <2> QED
    BY <2>2
<1> HIDE DEF bytes
<1>3. ASSUME NEW k \in 1..m
      PROVE  Len(bytes[k]) = 2 /\ bytes[k][1] = hex[2 * k - 1].hex /\ bytes[k][2] = hex[2 * k].hex
  <2>1. PICK a, b : a = hex[2 * k - 1].hex /\ b = hex[2 * k].hex
    OBVIOUS
  <2>2. bytes[k] = <<a, b>>
    BY <1>1, <2>1
  <2> QED
    BY <2>1, <2>2
<1> QED
  BY <1>1, <1>2, <1>3 DEF bytes

(* nl_keep_only_hex() leaves digits, and the digits a text begins with where  *)
(* they are.                                                                  *)
LEMMA KeepHex ==
  ASSUME NEW str \in Seq(HexCharacters), NEW m \in Nat, m <= Len(str),
         \A i \in 1..m : isxdigit(str[i])
  PROVE  LET clean == nl_keep_only_hex(str) IN
         /\ clean \in Seq(HexDigitsOnly) /\ m <= Len(clean)
         /\ \A i \in 1..m : clean[i] = digit(str[i].hex, FALSE)
<1> DEFINE clean == nl_keep_only_hex(str)
           Kept(c) == IF isxdigit(c) THEN <<digit(c.hex, FALSE)>> ELSE <<>>
           parts == [i \in DOMAIN str |-> Kept(str[i])]
<1>1. clean = FlattenSeq(parts)
  BY DEF nl_keep_only_hex
<1>2. PICK n \in Nat : n = Len(str)
  OBVIOUS
<1>3. ASSUME NEW c \in HexCharacters
      PROVE  Kept(c) \in Seq(HexDigitsOnly)
  <2>1. CASE isxdigit(c)
    <3>1. PICK a \in Nat : a = c.hex
      BY DEF HexCharacters
    <3>1a. c.hex < 16
      BY <2>1 DEF isxdigit
    <3>1b. a < 16
      BY <3>1, <3>1a
    <3>2. a \in 0..15
      BY <3>1b
    <3>3. digit(c.hex, FALSE) \in HexDigitsOnly
      BY <3>1, <3>2 DEF digit, HexDigitsOnly
    <3>4. PICK d \in HexDigitsOnly : d = digit(c.hex, FALSE)
      BY <3>3
    <3>5. Kept(c) = <<d>>
      BY <2>1, <3>4
    <3> HIDE DEF Kept
    <3> QED
      BY <3>5
  <2>2. CASE ~isxdigit(c)
    BY <2>2, EmptySeq
  <2> QED
    BY <2>1, <2>2
<1>4. parts \in Seq(Seq(HexDigitsOnly)) /\ Len(parts) = n /\ \A i \in 1..n : parts[i] = Kept(str[i])
  <2> HIDE DEF Kept
  <2>1. DOMAIN str = 1..n
    BY <1>2
  <2>2. \A i \in 1..n : str[i] \in HexCharacters
    BY <1>2, ElementOfSeq
  <2>3. \A i \in 1..n : Kept(str[i]) \in Seq(HexDigitsOnly)
    BY <1>3, <2>2
  <2> QED
    BY <2>1, <2>3
<1> HIDE DEF clean, parts
<1>5. clean \in Seq(HexDigitsOnly)
  BY <1>1, <1>2, <1>4, Flattened
<1>6. PICK places : Placed(clean, places, parts, n)
  BY <1>1, <1>2, <1>4, Flattened
<1>7. ASSUME NEW i \in 1..m
      PROVE  Len(parts[i]) = 1 /\ parts[i][1] = digit(str[i].hex, FALSE) /\ i \in 1..n
  <2>1. i \in 1..n
    BY <1>2
  <2>2. parts[i] = Kept(str[i])
    BY <1>4, <2>1
  <2>3. isxdigit(str[i])
    OBVIOUS
  <2>4. PICK d : d = digit(str[i].hex, FALSE)
    OBVIOUS
  <2>5. parts[i] = <<d>>
    BY <2>2, <2>3, <2>4
  <2> QED
    BY <2>1, <2>4, <2>5
<1> DEFINE T == {k \in Nat : k <= m => places[k] = k}
<1>8. 0 \in T
  BY <1>6 DEF Placed
<1>9. ASSUME NEW k \in Nat, k \in T
      PROVE  k + 1 \in T
  <2> SUFFICES ASSUME k + 1 <= m
               PROVE  places[k + 1] = k + 1
    OBVIOUS
  <2>1. k + 1 \in 1..n /\ (k + 1) - 1 = k /\ places[k] = k
    BY <1>2, <1>9
  <2>2. places[k + 1] = places[(k + 1) - 1] + Len(parts[k + 1])
    BY <1>6, <2>1 DEF Placed
  <2>3. Len(parts[k + 1]) = 1
    <3>1. k + 1 \in 1..m
      OBVIOUS
    <3> QED
      BY <1>7, <3>1
  <2> QED
    BY <2>1, <2>2, <2>3
<1>10. Nat \subseteq T
  <2> HIDE DEF T
  <2> QED
    BY <1>8, <1>9, SuccessorInduction
<1>11. \A k \in 0..m : places[k] = k
  BY <1>10
<1>12. m <= Len(clean)
  <2>1. places[m] <= Len(clean)
    BY <1>2, <1>6 DEF Placed
  <2> QED
    BY <1>11, <2>1
<1>13. ASSUME NEW i \in 1..m
       PROVE  clean[i] = digit(str[i].hex, FALSE)
  <2>1. places[i - 1] = i - 1 /\ (i - 1) + 1 = i
    BY <1>11
  <2>2. \A j \in 1..Len(parts[i]) : clean[places[i - 1] + j] = parts[i][j]
    BY <1>6, <1>7 DEF Placed
  <2>3. clean[places[i - 1] + 1] = parts[i][1]
    <3>0. Len(parts[i]) = 1
      BY <1>7
    <3>1. 1 \in 1..Len(parts[i])
      BY <3>0
    <3> QED
      BY <2>2, <3>1
  <2> QED
    BY <1>7, <2>1, <2>3
<1> QED
  BY <1>5, <1>12, <1>13 DEF clean

(* Every place of 1..2m is the first or the second of a byte.                 *)
LEMMA DigitPlaces ==
  ASSUME NEW m \in Nat, NEW i \in 1..(2 * m)
  PROVE  \E k \in 1..m : i = 2 * k - 1 \/ i = 2 * k
<1>1. CASE i % 2 = 0
  <2>1. i \div 2 \in 1..m /\ i = 2 * (i \div 2)
    BY <1>1
  <2> QED
    BY <2>1
<1>2. CASE i % 2 = 1
  <2>1. (i + 1) \div 2 \in 1..m /\ i = 2 * ((i + 1) \div 2) - 1
    BY <1>2
  <2> QED
    BY <2>1
<1> QED
  BY <1>1, <1>2

(* nl_to_hex() of what nl_from_hex() reads: the digits, in lower case.        *)
LEMMA ReadAndWritten ==
  ASSUME NEW hex \in Seq(HexCharacters), NEW m \in Nat, \A k \in 1..m : HexPair(hex, k)
  PROVE  LET again == nl_to_hex(HexBytes(hex, m)) IN
         /\ again \in Seq(HexDigitsOnly) /\ Len(again) = 2 * m
         /\ \A i \in 1..(2 * m) : again[i] = digit(hex[i].hex, FALSE)
<1> DEFINE bytes == HexBytes(hex, m)
           again == nl_to_hex(bytes)
<1>1. /\ bytes \in Seq(Seq(0..15)) /\ Len(bytes) = m
      /\ \A k \in 1..m : Len(bytes[k]) = 2 /\ bytes[k][1] = hex[2 * k - 1].hex
                         /\ bytes[k][2] = hex[2 * k].hex
  BY BytesOfDigits
<1> HIDE DEF bytes
<1>2. /\ again \in Seq(HexDigitsOnly) /\ Len(again) = 2 * m
      /\ \A k \in 1..m : again[2 * k - 1] = digit(bytes[k][1], FALSE)
                         /\ again[2 * k] = digit(bytes[k][2], FALSE)
  BY <1>1, ToHex
<1> HIDE DEF again
<1>3. ASSUME NEW i \in 1..(2 * m)
      PROVE  again[i] = digit(hex[i].hex, FALSE)
  <2>1. PICK k \in 1..m : i = 2 * k - 1 \/ i = 2 * k
    BY DigitPlaces
  <2>2. /\ again[2 * k - 1] = digit(hex[2 * k - 1].hex, FALSE)
        /\ again[2 * k] = digit(hex[2 * k].hex, FALSE)
    BY <1>1, <1>2
  <2> QED
    BY <2>1, <2>2
<1> QED
  BY <1>2, <1>3 DEF again, bytes

(* Hexadecimal text is read up to the first place where there are not two     *)
(* digits, and what was read can be written and read again (str.c:164,        *)
(* str.c:184): for a text of any length.                                      *)
THEOREM HexCorrectness == \A hex \in Seq(HexCharacters) : HexReverses(hex)
<1> SUFFICES ASSUME NEW hex \in Seq(HexCharacters)
             PROVE  HexReverses(hex)
  OBVIOUS
<1> DEFINE data == nl_from_hex(hex)
           again == nl_to_hex(data)
           clean == nl_keep_only_hex(hex)
           full == 2 * (Len(clean) \div 2)
           cleanAgain == nl_to_hex(nl_from_hex(clean))
<1>0. \A s \in Seq(HexDigitsOnly) : s \in Seq(HexCharacters)
  <2>1. HexDigitsOnly \subseteq HexCharacters
    <3>1. 0..15 \subseteq Nat
      OBVIOUS
    <3> QED
      BY <3>1 DEF HexDigitsOnly, HexCharacters
  <2> QED
    BY <2>1, SeqMonotonic
<1>0a. \A c \in HexDigitsOnly : isxdigit(c)
  <2>1. ASSUME NEW c \in HexDigitsOnly
        PROVE  c.hex < 16
    <3>1. PICK a \in 0..15 : a = c.hex
      BY DEF HexDigitsOnly
    <3> QED
      BY <3>1
  <2> QED
    BY <2>1 DEF isxdigit
<1>1. PICK n \in Nat : n = Len(hex)
  OBVIOUS
<1>2. PICK m \in Nat : /\ 2 * m <= n
                       /\ \A k \in 1..m : HexPair(hex, k)
                       /\ data = HexBytes(hex, m)
  BY <1>1, FromHex
<1>3. /\ again \in Seq(HexDigitsOnly) /\ Len(again) = 2 * m
      /\ \A i \in 1..(2 * m) : again[i] = digit(hex[i].hex, FALSE)
  BY <1>2, ReadAndWritten
<1>4. ASSUME NEW i \in 1..(2 * m)
      PROVE  isxdigit(hex[i])
  <2>1. PICK k \in 1..m : i = 2 * k - 1 \/ i = 2 * k
    BY DigitPlaces
  <2>2. HexPair(hex, k)
    BY <1>2
  <2> QED
    BY <2>1, <2>2 DEF HexPair
<1>5. /\ clean \in Seq(HexDigitsOnly) /\ 2 * m <= Len(clean)
      /\ \A i \in 1..(2 * m) : clean[i] = digit(hex[i].hex, FALSE)
  <2>1. PICK p \in Nat : p = 2 * m
    OBVIOUS
  <2>2. p <= Len(hex) /\ \A i \in 1..p : isxdigit(hex[i])
    BY <1>1, <1>2, <1>4, <2>1
  <2>3. /\ clean \in Seq(HexDigitsOnly) /\ p <= Len(clean)
        /\ \A i \in 1..p : clean[i] = digit(hex[i].hex, FALSE)
    BY <2>2, KeepHex
  <2> QED
    BY <2>1, <2>3
<1> HIDE DEF clean, again, data
<1>6. IsPrefix(again, clean)
  <2>1. SubSeq(again, 1, 2 * m) = SubSeq(clean, 1, 2 * m)
    <3>1. PICK p \in Nat : p = 2 * m
      OBVIOUS
    <3>2. \A i \in 1..p : again[i] \in HexDigitsOnly /\ clean[i] \in HexDigitsOnly
      BY <1>3, <1>5, <3>1, ElementOfSeq
    <3>3. /\ SubSeq(again, 1, p) \in Seq(HexDigitsOnly) /\ Len(SubSeq(again, 1, p)) = p
          /\ \A i \in 1..p : SubSeq(again, 1, p)[i] = again[i]
      BY <3>2, SubSeqProperties
    <3>4. /\ SubSeq(clean, 1, p) \in Seq(HexDigitsOnly) /\ Len(SubSeq(clean, 1, p)) = p
          /\ \A i \in 1..p : SubSeq(clean, 1, p)[i] = clean[i]
      BY <3>2, SubSeqProperties
    <3>5. \A i \in 1..p : again[i] = clean[i]
      BY <1>3, <1>5, <3>1
    <3>6. SubSeq(again, 1, p) = SubSeq(clean, 1, p)
      BY <3>3, <3>4, <3>5, SeqEqual
    <3> QED
      BY <3>1, <3>6
  <2> QED
    BY <1>3, <1>5, <2>1 DEF IsPrefix
<1>7. nl_from_hex(again) = data
  <2>1. PICK p \in Nat : p = 2 * m
    OBVIOUS
  <2>2. again \in Seq(HexCharacters) /\ p = Len(again)
    BY <1>0, <1>3, <2>1
  <2>3. PICK j \in Nat : /\ 2 * j <= p
                         /\ ~HexPair(again, j + 1)
                         /\ nl_from_hex(again) = HexBytes(again, j)
    BY <2>2, FromHex
  <2>4. \A i \in 1..p : isxdigit(again[i])
    BY <1>0a, <1>3, <2>2, ElementOfSeq
  <2>5. j = m
    <3>1. ASSUME j < m
          PROVE  FALSE
      <4>1. 2 * (j + 1) <= p /\ 2 * (j + 1) - 1 \in 1..p /\ 2 * (j + 1) \in 1..p
        BY <2>1, <3>1
      <4> QED
        BY <2>2, <2>3, <2>4, <4>1 DEF HexPair
    <3>2. j <= m
      BY <2>1, <2>3
    <3> QED
      BY <3>1, <3>2
  <2>6. ASSUME NEW k \in 1..m
        PROVE  <<again[2 * k - 1].hex, again[2 * k].hex>> = <<hex[2 * k - 1].hex, hex[2 * k].hex>>
    <3>1. 2 * k - 1 \in 1..(2 * m) /\ 2 * k \in 1..(2 * m)
      OBVIOUS
    <3>2. /\ again[2 * k - 1] = digit(hex[2 * k - 1].hex, FALSE)
          /\ again[2 * k] = digit(hex[2 * k].hex, FALSE)
      BY <1>3, <3>1
    <3> QED
      BY <3>2 DEF digit
  <2>7. HexBytes(again, m) = HexBytes(hex, m)
    BY <2>6 DEF HexBytes
  <2> QED
    BY <1>2, <2>3, <2>5, <2>7
<1>8. cleanAgain = SubSeq(clean, 1, full)
  <2>1. PICK p \in Nat : p = Len(clean)
    BY <1>5
  <2>2. clean \in Seq(HexCharacters) /\ \A i \in 1..p : isxdigit(clean[i])
    BY <1>0, <1>0a, <1>5, <2>1, ElementOfSeq
  <2>3. PICK j \in Nat : /\ 2 * j <= p
                         /\ \A k \in 1..j : HexPair(clean, k)
                         /\ ~HexPair(clean, j + 1)
                         /\ nl_from_hex(clean) = HexBytes(clean, j)
    BY <2>1, <2>2, FromHex
  <2>4. ~(2 * (j + 1) <= p)
    <3>1. ASSUME 2 * (j + 1) <= p
          PROVE  FALSE
      <4>1. 2 * (j + 1) - 1 \in 1..p /\ 2 * (j + 1) \in 1..p
        BY <3>1
      <4> QED
        BY <2>1, <2>2, <2>3, <3>1, <4>1 DEF HexPair
    <3> QED
      BY <3>1
  <2>5. full = 2 * j
    BY <2>1, <2>3, <2>4
  <2>6. /\ cleanAgain \in Seq(HexDigitsOnly) /\ Len(cleanAgain) = 2 * j
        /\ \A i \in 1..(2 * j) : cleanAgain[i] = digit(clean[i].hex, FALSE)
    BY <2>2, <2>3, ReadAndWritten
  <2> HIDE DEF cleanAgain, full
  <2>7. PICK q \in Nat : q = 2 * j
    OBVIOUS
  <2>8. ASSUME NEW i \in 1..q
        PROVE  clean[i] \in HexDigitsOnly /\ cleanAgain[i] = clean[i]
    <3>1. clean[i] \in HexDigitsOnly
      BY <1>5, <2>1, <2>3, <2>7, ElementOfSeq
    <3>2. digit(clean[i].hex, FALSE) = clean[i]
      BY <3>1 DEF digit, HexDigitsOnly
    <3> QED
      BY <2>6, <2>7, <3>1, <3>2
  <2>9. /\ SubSeq(clean, 1, q) \in Seq(HexDigitsOnly) /\ Len(SubSeq(clean, 1, q)) = q
        /\ \A i \in 1..q : SubSeq(clean, 1, q)[i] = clean[i]
    BY <2>8, SubSeqProperties
  <2>10. cleanAgain = SubSeq(clean, 1, q)
    BY <2>6, <2>7, <2>8, <2>9, SeqEqual
  <2> QED
    BY <2>5, <2>7, <2>10
<1> QED
  BY <1>6, <1>7, <1>8 DEF HexReverses, clean, again, data

-----------------------------------------------------------------------------
(* Escapes.                                                                   *)

(* How many of the places up to k + 1 are in a set.                           *)
LEMMA CountNext ==
  ASSUME NEW A, NEW k \in Nat
  PROVE  /\ IsFiniteSet(A \cap (1..k)) /\ Cardinality(A \cap (1..k)) \in Nat
         /\ Cardinality(A \cap (1..(k + 1)))
              = Cardinality(A \cap (1..k)) + (IF k + 1 \in A THEN 1 ELSE 0)
<1>1. IsFiniteSet(1..k)
  BY FS_Interval
<1>2. IsFiniteSet(A \cap (1..k))
  BY <1>1, FS_Subset
<1>3. Cardinality(A \cap (1..k)) \in Nat
  BY <1>2, FS_CardinalityType
<1>4. 1..(k + 1) = (1..k) \cup {k + 1} /\ k + 1 \notin 1..k
  OBVIOUS
<1>5. CASE k + 1 \in A
  <2>1. A \cap (1..(k + 1)) = (A \cap (1..k)) \cup {k + 1} /\ k + 1 \notin A \cap (1..k)
    BY <1>4, <1>5
  <2>2. Cardinality((A \cap (1..k)) \cup {k + 1}) = Cardinality(A \cap (1..k)) + 1
    BY <1>2, <2>1, FS_AddElement
  <2> QED
    BY <1>2, <1>3, <1>5, <2>1, <2>2
<1>6. CASE k + 1 \notin A
  <2>1. A \cap (1..(k + 1)) = A \cap (1..k)
    BY <1>4, <1>6
  <2> QED
    BY <1>2, <1>3, <1>6, <2>1
<1> QED
  BY <1>5, <1>6

(* The codes of esc_chars: no two characters have the same, and none is "x".  *)
LEMMA EscapeCodes ==
  \A c \in DOMAIN esc_chars : /\ IsEscape(esc_chars[c]) /\ get_original(esc_chars[c]) = c
                              /\ esc_chars[c] # "x"
<1> DEFINE D == {"tab", "nl", "cr", "vt", "ff", ":", Quote, Backslash}
           Code(c) == CASE c = "tab" -> "t" [] c = "nl" -> "n" [] c = "cr" -> "r" [] c = "vt" -> "v"
                        [] c = "ff" -> "f" [] OTHER -> c
<1>1. DOMAIN esc_chars = D /\ \A c \in D : esc_chars[c] = Code(c)
  BY DEF esc_chars
<1>2. \A c, d \in D : Code(c) = Code(d) => c = d
  <2>1. Code("tab") = "t" /\ Code("nl") = "n" /\ Code("cr") = "r" /\ Code("vt") = "v"
    OBVIOUS
  <2>2. Code("ff") = "f" /\ Code(":") = ":" /\ Code(Quote) = Quote /\ Code(Backslash) = Backslash
    BY DEF Quote, Backslash
  <2> HIDE DEF Code
  <2> QED
    BY <2>1, <2>2 DEF Quote, Backslash
<1>3. \A c \in D : Code(c) # "x"
  BY DEF Quote, Backslash
<1> HIDE DEF Code
<1> QED
  BY <1>1, <1>2, <1>3 DEF IsEscape, get_original

(* The digits of a byte stand for it, and any two digits for a byte.          *)
LEMMA BytesOfHex ==
  /\ \A b \in Unprintable : \E hi, lo \in HexDigits : HexOf(b) = <<hi, lo>> /\ ByteOf(hi, lo) = b
  /\ \A hi, lo \in HexDigits : ByteOf(hi, lo) \in Unprintable /\ HexOf(ByteOf(hi, lo)) = <<hi, lo>>
<1> DEFINE Hi(b) == CASE b = "00" -> "0" [] b = "01" -> "0" [] b = "10" -> "1" [] b = "11" -> "1"
           Lo(b) == CASE b = "00" -> "0" [] b = "01" -> "1" [] b = "10" -> "0" [] b = "11" -> "1"
<1>1. ASSUME NEW b \in Unprintable
      PROVE  HexOf(b) = <<Hi(b), Lo(b)>> /\ Hi(b) \in HexDigits /\ Lo(b) \in HexDigits
  <2>1. CASE b = "00"
    BY <2>1 DEF HexOf, HexDigits
  <2>2. CASE b = "01"
    BY <2>2 DEF HexOf, HexDigits
  <2>3. CASE b = "10"
    BY <2>3 DEF HexOf, HexDigits
  <2>4. CASE b = "11"
    BY <2>4 DEF HexOf, HexDigits
  <2> QED
    BY <2>1, <2>2, <2>3, <2>4 DEF Unprintable
<1>2. \A b, d \in Unprintable : Hi(b) = Hi(d) /\ Lo(b) = Lo(d) => b = d
  BY DEF Unprintable
<1>3. \A hi, lo \in HexDigits : \E b \in Unprintable : hi = Hi(b) /\ lo = Lo(b)
  <2>1. Hi("00") = "0" /\ Lo("00") = "0" /\ Hi("01") = "0" /\ Lo("01") = "1"
    OBVIOUS
  <2>2. Hi("10") = "1" /\ Lo("10") = "0" /\ Hi("11") = "1" /\ Lo("11") = "1"
    OBVIOUS
  <2> HIDE DEF Hi, Lo
  <2> QED
    BY <2>1, <2>2 DEF HexDigits, Unprintable
<1> HIDE DEF Hi, Lo
<1>4. \A b, d \in Unprintable : HexOf(b) = HexOf(d) => b = d
  BY <1>1, <1>2, EqualPairs
<1>5. ASSUME NEW b \in Unprintable
      PROVE  ByteOf(Hi(b), Lo(b)) = b
  <2>1. HexOf(b) = <<Hi(b), Lo(b)>>
    BY <1>1
  <2> QED
    BY <1>4, <2>1 DEF ByteOf
<1> QED
  BY <1>1, <1>3, <1>5

(* What nl_unescape_string() finds at one place: the code of a byte, or of a  *)
(* character.                                                                 *)
ByteCodeAt(s, i) ==
  s[i] = Backslash /\ i + 2 <= Len(s) /\ s[i + 1] = "x" /\ s[i + 2] \in HexDigits
TwoDigitsAt(s, i) == i + 3 <= Len(s) /\ s[i + 3] \in HexDigits
ByteAt(s, i) == IF TwoDigitsAt(s, i) THEN ByteOf(s[i + 2], s[i + 3]) ELSE ByteOf("0", s[i + 2])
ByteCodeLength(s, i) == IF TwoDigitsAt(s, i) THEN 4 ELSE 3
EscapeAt(s, i) == s[i] = Backslash /\ i + 1 <= Len(s) /\ IsEscape(s[i + 1])
LastQuoteAt(s, i, quoted) == quoted /\ s[i] = Quote /\ i = Len(s)

(* What it writes there, how many characters it removes and where it goes on. *)
PlainHead(s, i, quoted) ==
  IF EscapeAt(s, i) THEN <<get_original(s[i + 1])>>
  ELSE IF s[i] = Backslash /\ i < Len(s) THEN <<s[i], s[i + 1]>>
  ELSE IF LastQuoteAt(s, i, quoted) THEN <<>> ELSE <<s[i]>>

PlainGone(s, i, quoted) ==
  IF EscapeAt(s, i) THEN 1 ELSE IF s[i] = Backslash /\ i < Len(s) THEN 0
  ELSE IF LastQuoteAt(s, i, quoted) THEN 1 ELSE 0

PlainStep(s, i) == IF EscapeAt(s, i) \/ (s[i] = Backslash /\ i < Len(s)) THEN i + 2 ELSE i + 1

Writes(s, i, include_zero) == ByteAt(s, i) # "00" \/ include_zero

UnescapeHead(s, i, include_zero, quoted) ==
  IF ByteCodeAt(s, i) THEN IF Writes(s, i, include_zero) THEN <<ByteAt(s, i)>> ELSE <<>>
  ELSE PlainHead(s, i, quoted)

UnescapeGone(s, i, include_zero, quoted) ==
  IF ByteCodeAt(s, i)
  THEN IF Writes(s, i, include_zero) THEN ByteCodeLength(s, i) - 1 ELSE ByteCodeLength(s, i)
  ELSE PlainGone(s, i, quoted)

UnescapeStep(s, i) == IF ByteCodeAt(s, i) THEN i + ByteCodeLength(s, i) ELSE PlainStep(s, i)

(* The characters that unescaping a text over C can write.                    *)
Unescapes(C) == C \cup DOMAIN esc_chars \cup Unprintable

(* At each place, every character is written or removed.                      *)
LEMMA TurnAccounts ==
  ASSUME NEW C, NEW s \in Seq(C), NEW n \in Nat, n = Len(s), NEW i \in 1..n,
         NEW include_zero, NEW quoted
  PROVE  LET head == UnescapeHead(s, i, include_zero, quoted)
             gone == UnescapeGone(s, i, include_zero, quoted)
             step == UnescapeStep(s, i)
         IN  /\ head \in Seq(Unescapes(C)) /\ gone \in Nat /\ step \in Nat
             /\ i < step /\ step <= n + 1 /\ Len(head) + gone = step - i
<1> DEFINE head == UnescapeHead(s, i, include_zero, quoted)
           gone == UnescapeGone(s, i, include_zero, quoted)
           step == UnescapeStep(s, i)
<1>0. \A j \in 1..n : s[j] \in Unescapes(C)
  <2>1. \A j \in 1..n : s[j] \in C
    BY ElementOfSeq
  <2> QED
    BY <2>1 DEF Unescapes
<1>1. CASE ByteCodeAt(s, i)
  <2>1. ByteAt(s, i) \in Unescapes(C)
    <3>1. "0" \in HexDigits /\ s[i + 2] \in HexDigits
      BY <1>1 DEF ByteCodeAt, HexDigits
    <3>2. TwoDigitsAt(s, i) => s[i + 3] \in HexDigits
      BY DEF TwoDigitsAt
    <3> QED
      BY <3>1, <3>2, BytesOfHex DEF ByteAt, Unescapes
  <2>2. ByteCodeLength(s, i) \in {3, 4} /\ i + ByteCodeLength(s, i) <= n + 1
    BY <1>1 DEF ByteCodeLength, ByteCodeAt, TwoDigitsAt
  <2>3. step = i + ByteCodeLength(s, i)
    BY <1>1 DEF UnescapeStep
  <2>4. CASE Writes(s, i, include_zero)
    <3>1. head = <<ByteAt(s, i)>> /\ gone = ByteCodeLength(s, i) - 1
      BY <1>1, <2>4 DEF UnescapeHead, UnescapeGone
    <3>2. head \in Seq(Unescapes(C)) /\ Len(head) = 1
      BY <2>1, <3>1
    <3> HIDE DEF head, gone, step
    <3> QED
      BY <2>2, <2>3, <3>1, <3>2 DEF head, gone, step
  <2>5. CASE ~Writes(s, i, include_zero)
    <3>1. head = <<>> /\ gone = ByteCodeLength(s, i)
      BY <1>1, <2>5 DEF UnescapeHead, UnescapeGone
    <3>2. head \in Seq(Unescapes(C)) /\ Len(head) = 0
      BY <3>1, EmptySeq
    <3> HIDE DEF head, gone, step
    <3> QED
      BY <2>2, <2>3, <3>1, <3>2 DEF head, gone, step
  <2> QED
    BY <2>4, <2>5
<1>2. CASE ~ByteCodeAt(s, i)
  <2>0. head = PlainHead(s, i, quoted) /\ gone = PlainGone(s, i, quoted) /\ step = PlainStep(s, i)
    BY <1>2 DEF UnescapeHead, UnescapeGone, UnescapeStep
  <2> HIDE DEF head, gone, step
  <2>1. CASE EscapeAt(s, i)
    <3>1. get_original(s[i + 1]) \in Unescapes(C)
      BY <2>1 DEF EscapeAt, IsEscape, get_original, Unescapes
    <3>2. head = <<get_original(s[i + 1])>> /\ gone = 1 /\ step = i + 2 /\ i + 1 <= n
      BY <2>0, <2>1 DEF PlainHead, PlainGone, PlainStep, EscapeAt
    <3>3. head \in Seq(Unescapes(C)) /\ Len(head) = 1
      BY <3>1, <3>2
    <3> QED
      BY <3>2, <3>3 DEF head, gone, step
  <2>2. CASE ~EscapeAt(s, i) /\ s[i] = Backslash /\ i < Len(s)
    <3>1. head = <<s[i], s[i + 1]>> /\ gone = 0 /\ step = i + 2
      BY <2>0, <2>2 DEF PlainHead, PlainGone, PlainStep
    <3>2. i + 1 \in 1..n
      BY <2>2
    <3>3. head \in Seq(Unescapes(C)) /\ Len(head) = 2
      BY <1>0, <3>1, <3>2
    <3> QED
      BY <3>1, <3>2, <3>3 DEF head, gone, step
  <2>3. CASE ~EscapeAt(s, i) /\ ~(s[i] = Backslash /\ i < Len(s)) /\ LastQuoteAt(s, i, quoted)
    <3>1. head = <<>> /\ gone = 1 /\ step = i + 1
      BY <2>0, <2>3 DEF PlainHead, PlainGone, PlainStep
    <3>2. head \in Seq(Unescapes(C)) /\ Len(head) = 0
      BY <3>1, EmptySeq
    <3> QED
      BY <3>1, <3>2 DEF head, gone, step
  <2>4. CASE ~EscapeAt(s, i) /\ ~(s[i] = Backslash /\ i < Len(s)) /\ ~LastQuoteAt(s, i, quoted)
    <3>1. head = <<s[i]>> /\ gone = 0 /\ step = i + 1
      BY <2>0, <2>4 DEF PlainHead, PlainGone, PlainStep
    <3>2. head \in Seq(Unescapes(C)) /\ Len(head) = 1
      BY <1>0, <3>1
    <3> QED
      BY <3>1, <3>2 DEF head, gone, step
  <2> QED
    BY <2>1, <2>2, <2>3, <2>4
<1> QED
  BY <1>1, <1>2

(* Whether nl_unescape_string() takes the quotes around a text away.          *)
Dequotes(s, dequote) == dequote # "NO" /\ Len(s) > 0 /\ s[1] = Quote

NothingLeft == [text |-> <<>>, removed |-> 0]

(* f is what there is from each place on.                                     *)
UnescapesFrom(f, s, n, include_zero, quoted) ==
  /\ f[n + 1] = NothingLeft
  /\ \A i \in 1..n : f[i] = Unescaped(UnescapeHead(s, i, include_zero, quoted),
                                      UnescapeGone(s, i, include_zero, quoted),
                                      f[UnescapeStep(s, i)])

(* nl_unescape_string() goes through the text that way.                       *)
LEMMA UnescapeWalks ==
  ASSUME NEW C, NEW s \in Seq(C), NEW n \in Nat, n = Len(s), NEW include_zero, NEW dequote
  PROVE  LET quoted == Dequotes(s, dequote) IN
         \E f : /\ nl_unescape_string(s, include_zero, dequote)
                     = IF quoted THEN Unescaped(<<>>, 1, f[2])
                       ELSE IF dequote = "IF_QUOTED" THEN [text |-> s, removed |-> 0] ELSE f[1]
                /\ UnescapesFrom(f, s, n, include_zero, quoted)
<1> DEFINE At(i) == IF i <= Len(s) THEN s[i] ELSE "end of string"
           quoted == dequote # "NO" /\ At(1) = Quote
           Hex(i, rest) ==
             LET two == At(i + 3) \in HexDigits
                 byte == IF two THEN ByteOf(At(i + 2), At(i + 3)) ELSE ByteOf("0", At(i + 2))
                 length == IF two THEN 4 ELSE 3
             IN IF byte # "00" \/ include_zero
                THEN Unescaped(<<byte>>, length - 1, rest[i + length])
                ELSE Unescaped(<<>>, length, rest[i + length])
           Turn(i, rest) ==
             IF i > Len(s) THEN [text |-> <<>>, removed |-> 0]
             ELSE IF s[i] = Backslash /\ At(i + 1) = "x" /\ At(i + 2) \in HexDigits
               THEN Hex(i, rest)
             ELSE IF s[i] = Backslash /\ IsEscape(At(i + 1))
                  THEN Unescaped(<<get_original(At(i + 1))>>, 1, rest[i + 2])
             ELSE IF s[i] = Backslash /\ i < Len(s)
                  THEN Unescaped(<<s[i], s[i + 1]>>, 0, rest[i + 2])
             ELSE IF quoted /\ s[i] = Quote /\ i = Len(s) THEN Unescaped(<<>>, 1, rest[i + 1])
             ELSE Unescaped(<<s[i]>>, 0, rest[i + 1])
           From[i \in 1..(Len(s) + 1)] ==
             IF i > Len(s) THEN [text |-> <<>>, removed |-> 0]
             ELSE IF s[i] = Backslash /\ At(i + 1) = "x" /\ At(i + 2) \in HexDigits
               THEN Hex(i, From)
             ELSE IF s[i] = Backslash /\ IsEscape(At(i + 1))
                  THEN Unescaped(<<get_original(At(i + 1))>>, 1, From[i + 2])
             ELSE IF s[i] = Backslash /\ i < Len(s)
                  THEN Unescaped(<<s[i], s[i + 1]>>, 0, From[i + 2])
             ELSE IF quoted /\ s[i] = Quote /\ i = Len(s) THEN Unescaped(<<>>, 1, From[i + 1])
             ELSE Unescaped(<<s[i]>>, 0, From[i + 1])
           dequotes == Dequotes(s, dequote)
           head(i) == UnescapeHead(s, i, include_zero, dequotes)
           gone(i) == UnescapeGone(s, i, include_zero, dequotes)
           V == [text : Seq(Unescapes(C)), removed : Nat]
<1>1. nl_unescape_string(s, include_zero, dequote)
        = IF quoted THEN Unescaped(<<>>, 1, From[2])
          ELSE IF dequote = "IF_QUOTED" THEN [text |-> s, removed |-> 0] ELSE From[1]
  BY DEF nl_unescape_string
<1>2. quoted <=> dequotes
  <2>1. At(1) = IF 1 <= Len(s) THEN s[1] ELSE "end of string"
    OBVIOUS
  <2>2. "end of string" # Quote /\ (1 <= Len(s) <=> Len(s) > 0)
    BY DEF Quote
  <2> HIDE DEF At
  <2> QED
    BY <2>1, <2>2 DEF Dequotes
<1>3. ASSUME NEW i \in 1..n, NEW rest
      PROVE  Turn(i, rest) = Unescaped(head(i), gone(i), rest[UnescapeStep(s, i)])
  <2>0. ~(i > Len(s)) /\ At(i) = s[i]
    OBVIOUS
  <2>1. /\ At(i + 1) = IF i + 1 <= Len(s) THEN s[i + 1] ELSE "end of string"
        /\ At(i + 2) = IF i + 2 <= Len(s) THEN s[i + 2] ELSE "end of string"
        /\ At(i + 3) = IF i + 3 <= Len(s) THEN s[i + 3] ELSE "end of string"
    OBVIOUS
  <2>2. "end of string" \notin HexDigits /\ ~IsEscape("end of string") /\ "end of string" # "x"
    BY DEF HexDigits, IsEscape, esc_chars, Quote, Backslash
  <2>3. ByteCodeAt(s, i) <=> s[i] = Backslash /\ At(i + 1) = "x" /\ At(i + 2) \in HexDigits
    <3>1. i + 2 <= Len(s) => i + 1 <= Len(s)
      OBVIOUS
    <3>2. At(i + 2) \in HexDigits => i + 2 <= Len(s)
      <4> HIDE DEF At
      <4> QED
        BY <2>1, <2>2
    <3> HIDE DEF At
    <3> QED
      BY <2>1, <2>2, <3>1, <3>2 DEF ByteCodeAt
  <2>4. TwoDigitsAt(s, i) <=> At(i + 3) \in HexDigits
    BY <2>1, <2>2 DEF TwoDigitsAt
  <2>5. EscapeAt(s, i) <=> s[i] = Backslash /\ IsEscape(At(i + 1))
    BY <2>1, <2>2 DEF EscapeAt
  <2> HIDE DEF At, quoted, dequotes
  <2>6. CASE ByteCodeAt(s, i)
    <3>1. i + 2 <= Len(s) /\ At(i + 2) = s[i + 2]
      BY <2>1, <2>6 DEF ByteCodeAt
    <3>2. ByteAt(s, i) = IF At(i + 3) \in HexDigits THEN ByteOf(At(i + 2), At(i + 3))
                                                    ELSE ByteOf("0", At(i + 2))
      BY <2>1, <2>4, <3>1 DEF ByteAt, TwoDigitsAt
    <3>3. ByteCodeLength(s, i) = IF At(i + 3) \in HexDigits THEN 4 ELSE 3
      BY <2>4 DEF ByteCodeLength
    <3>4. Hex(i, rest) = IF Writes(s, i, include_zero)
                         THEN Unescaped(<<ByteAt(s, i)>>, ByteCodeLength(s, i) - 1,
                                        rest[i + ByteCodeLength(s, i)])
                         ELSE Unescaped(<<>>, ByteCodeLength(s, i), rest[i + ByteCodeLength(s, i)])
      BY <3>2, <3>3 DEF Writes
    <3>5. Turn(i, rest) = Hex(i, rest)
      <4> HIDE DEF Hex
      <4> QED
        BY <2>0, <2>3, <2>6
    <3> HIDE DEF Hex, Turn
    <3>6. UnescapeStep(s, i) = i + ByteCodeLength(s, i)
      BY <2>6 DEF UnescapeStep
    <3>7. CASE Writes(s, i, include_zero)
      BY <2>6, <3>4, <3>5, <3>6, <3>7 DEF UnescapeHead, UnescapeGone
    <3>8. CASE ~Writes(s, i, include_zero)
      BY <2>6, <3>4, <3>5, <3>6, <3>8 DEF UnescapeHead, UnescapeGone
    <3> QED
      BY <3>7, <3>8
  <2>7. CASE ~ByteCodeAt(s, i)
    <3>0. /\ head(i) = PlainHead(s, i, dequotes) /\ gone(i) = PlainGone(s, i, dequotes)
          /\ UnescapeStep(s, i) = PlainStep(s, i)
      BY <2>7 DEF UnescapeHead, UnescapeGone, UnescapeStep
    <3> HIDE DEF head, gone, Hex
    <3>1. CASE EscapeAt(s, i)
      <4>1. At(i + 1) = s[i + 1]
        BY <2>1, <3>1 DEF EscapeAt
      <4>2. Turn(i, rest) = Unescaped(<<get_original(s[i + 1])>>, 1, rest[i + 2])
        BY <2>0, <2>3, <2>5, <2>7, <3>1, <4>1
      <4> QED
        BY <3>0, <3>1, <4>2 DEF PlainHead, PlainGone, PlainStep
    <3>2. CASE ~EscapeAt(s, i) /\ s[i] = Backslash /\ i < Len(s)
      <4>1. Turn(i, rest) = Unescaped(<<s[i], s[i + 1]>>, 0, rest[i + 2])
        BY <2>0, <2>3, <2>5, <2>7, <3>2
      <4> QED
        BY <3>0, <3>2, <4>1 DEF PlainHead, PlainGone, PlainStep
    <3>3. CASE ~EscapeAt(s, i) /\ ~(s[i] = Backslash /\ i < Len(s)) /\ LastQuoteAt(s, i, dequotes)
      <4>1. Turn(i, rest) = Unescaped(<<>>, 1, rest[i + 1])
        BY <1>2, <2>0, <2>3, <2>5, <2>7, <3>3 DEF LastQuoteAt
      <4> QED
        BY <3>0, <3>3, <4>1 DEF PlainHead, PlainGone, PlainStep
    <3>4. CASE ~EscapeAt(s, i) /\ ~(s[i] = Backslash /\ i < Len(s)) /\ ~LastQuoteAt(s, i, dequotes)
      <4>1. Turn(i, rest) = Unescaped(<<s[i]>>, 0, rest[i + 1])
        BY <1>2, <2>0, <2>3, <2>5, <2>7, <3>4 DEF LastQuoteAt
      <4> QED
        BY <3>0, <3>4, <4>1 DEF PlainHead, PlainGone, PlainStep
    <3> QED
      BY <3>1, <3>2, <3>3, <3>4
  <2> QED
    BY <2>6, <2>7
<1>4. ASSUME NEW i \in 1..n
      PROVE  /\ head(i) \in Seq(Unescapes(C)) /\ gone(i) \in Nat
             /\ UnescapeStep(s, i) \in Nat /\ i < UnescapeStep(s, i) /\ UnescapeStep(s, i) <= n + 1
  <2> HIDE DEF dequotes
  <2> QED
    BY TurnAccounts
<1> HIDE DEF head, gone
<1>5. PICK f : /\ f = [i \in 1..(n + 1) |->
                        IF i > n THEN NothingLeft
                        ELSE Unescaped(head(i), gone(i), f[UnescapeStep(s, i)])]
  <2> DEFINE turn == [i \in 1..n |-> [v \in V |-> Unescaped(head(i), gone(i), v)]]
             step == [i \in 1..n |-> UnescapeStep(s, i)]
  <2>1. NothingLeft \in V
    BY EmptySeq DEF NothingLeft
  <2>2. turn \in [1..n -> [V -> V]]
    <3>1. ASSUME NEW i \in 1..n, NEW v \in V
          PROVE  Unescaped(head(i), gone(i), v) \in V
      <4>1. PICK t \in Seq(Unescapes(C)), r \in Nat : v = [text |-> t, removed |-> r]
        OBVIOUS
      <4>2. head(i) \o t \in Seq(Unescapes(C)) /\ gone(i) + r \in Nat
        BY <1>4, ConcatProperties
      <4>3. Unescaped(head(i), gone(i), v) = [text |-> head(i) \o t, removed |-> gone(i) + r]
        BY <4>1 DEF Unescaped
      <4> QED
        BY <4>2, <4>3
    <3> HIDE DEF V
    <3> QED
      BY <3>1
  <2>3. step \in [1..n -> Nat] /\ \A i \in 1..n : i < step[i] /\ step[i] <= n + 1
    BY <1>4
  <2> HIDE DEF V
  <2>4. PICK f \in [1..(n + 1) -> V] : Walks(f, n, NothingLeft, turn, step)
    <3> HIDE DEF turn, step
    <3> QED
      BY <2>1, <2>2, <2>3, WalkExists
  <2>5. f = [i \in 1..(n + 1) |-> IF i > n THEN NothingLeft ELSE turn[i][f[step[i]]]]
    BY <2>4 DEF Walks
  <2>6. ASSUME NEW i \in 1..(n + 1), ~(i > n)
        PROVE  turn[i][f[step[i]]] = Unescaped(head(i), gone(i), f[UnescapeStep(s, i)])
    <3>1. i \in 1..n
      BY <2>6
    <3>2. step[i] = UnescapeStep(s, i) /\ step[i] \in 1..(n + 1)
      BY <1>4, <3>1
    <3> HIDE DEF step
    <3>3. f[step[i]] \in V
      BY <3>2
    <3> QED
      BY <3>1, <3>2, <3>3
  <2> HIDE DEF turn, step
  <2>7. f = [i \in 1..(n + 1) |-> IF i > n THEN NothingLeft
                                 ELSE Unescaped(head(i), gone(i), f[UnescapeStep(s, i)])]
    BY <2>5, <2>6
  <2> QED
    BY <2>7
<1>6. ASSUME NEW rest, NEW i \in 1..(n + 1)
      PROVE  Turn(i, rest) = IF i > n THEN NothingLeft
                             ELSE Unescaped(head(i), gone(i), rest[UnescapeStep(s, i)])
  <2>1. CASE i > n
    BY <2>1 DEF NothingLeft
  <2>2. CASE ~(i > n)
    <3>1. i \in 1..n
      BY <2>2
    <3> HIDE DEF Turn
    <3> QED
      BY <1>3, <2>2, <3>1
  <2> QED
    BY <2>1, <2>2
<1>7. f = [i \in 1..(Len(s) + 1) |-> Turn(i, f)]
  <2> HIDE DEF Turn
  <2> QED
    BY <1>5, <1>6
<1>8. From = [i \in 1..(Len(s) + 1) |-> Turn(i, From)]
  <2> HIDE DEF At, quoted, Hex
  <2> QED
    BY <1>7
<1> HIDE DEF From, Turn, At
<1>9. From = [i \in 1..(n + 1) |-> IF i > n THEN NothingLeft
                                 ELSE Unescaped(head(i), gone(i), From[UnescapeStep(s, i)])]
  BY <1>6, <1>8
<1>10. From[n + 1] = NothingLeft
  <2>1. n + 1 > n /\ n + 1 \in 1..(n + 1)
    OBVIOUS
  <2> QED
    BY <1>9, <2>1
<1>11. ASSUME NEW i \in 1..n
       PROVE  From[i] = Unescaped(head(i), gone(i), From[UnescapeStep(s, i)])
  <2>1. ~(i > n) /\ i \in 1..(n + 1)
    OBVIOUS
  <2> QED
    BY <1>9, <2>1
<1> HIDE DEF quoted
<1>12. /\ nl_unescape_string(s, include_zero, dequote)
            = IF dequotes THEN Unescaped(<<>>, 1, From[2])
              ELSE IF dequote = "IF_QUOTED" THEN [text |-> s, removed |-> 0] ELSE From[1]
       /\ UnescapesFrom(From, s, n, include_zero, dequotes)
  <2> HIDE DEF dequotes
  <2> QED
    BY <1>1, <1>2, <1>10, <1>11 DEF head, gone, UnescapesFrom
<1> QED
  BY <1>12

(* What is left of a text from a place on, and what was removed of it, make   *)
(* up the whole rest.                                                         *)
LEMMA RestAccounts ==
  ASSUME NEW C, NEW s \in Seq(C), NEW n \in Nat, n = Len(s),
         NEW include_zero, NEW quoted, NEW f, UnescapesFrom(f, s, n, include_zero, quoted)
  PROVE  \A i \in 1..(n + 1) : /\ f[i].text \in Seq(Unescapes(C)) /\ f[i].removed \in Nat
                               /\ Len(f[i].text) + f[i].removed = n + 1 - i
<1> DEFINE Good(i) == /\ f[i].text \in Seq(Unescapes(C)) /\ f[i].removed \in Nat
                      /\ Len(f[i].text) + f[i].removed = n + 1 - i
           T == {d \in Nat : d <= n => Good(n + 1 - d)}
<1>1. Good(n + 1)
  BY EmptySeq DEF NothingLeft, UnescapesFrom
<1>2. ASSUME NEW d \in Nat, \A e \in Nat : e < d => e \in T
      PROVE  d \in T
  <2> SUFFICES ASSUME d <= n
               PROVE  Good(n + 1 - d)
    <3> HIDE DEF Good
    <3> QED
      OBVIOUS
  <2>1. CASE d = 0
    <3>1. n + 1 - 0 = n + 1
      OBVIOUS
    <3> HIDE DEF Good
    <3> QED
      BY <1>1, <2>1, <3>1
  <2>2. CASE d # 0
    <3> HIDE DEF Good
    <3>0. n + 1 - d \in 1..n
      BY <2>2
    <3>1. PICK i \in 1..n : i = n + 1 - d
      BY <3>0
    <3> USE DEF Good
    <3>2. PICK head, gone, step :
             /\ head = UnescapeHead(s, i, include_zero, quoted)
             /\ gone = UnescapeGone(s, i, include_zero, quoted)
             /\ step = UnescapeStep(s, i)
      OBVIOUS
    <3>3. /\ head \in Seq(Unescapes(C)) /\ gone \in Nat /\ step \in Nat
          /\ i < step /\ step <= n + 1 /\ Len(head) + gone = step - i
      BY <3>2, TurnAccounts
    <3>4. PICK e \in Nat : e = n + 1 - step
      BY <3>3
    <3>5. e < d /\ e <= n /\ step = n + 1 - e
      BY <3>1, <3>3, <3>4
    <3>6. Good(step)
      <4> HIDE DEF Good
      <4>1. Good(n + 1 - e)
        BY <1>2, <3>5
      <4> QED
        BY <3>5, <4>1
    <3>7. PICK rest, removed : rest = f[step].text /\ removed = f[step].removed
      OBVIOUS
    <3>8. f[i].text = head \o rest /\ f[i].removed = gone + removed
      <4>1. f[i] = Unescaped(head, gone, f[step])
        BY <3>2 DEF UnescapesFrom
      <4> QED
        BY <3>7, <4>1 DEF Unescaped
    <3>9. rest \in Seq(Unescapes(C)) /\ removed \in Nat /\ Len(rest) + removed = n + 1 - step
      BY <3>6, <3>7
    <3>10. head \o rest \in Seq(Unescapes(C)) /\ Len(head \o rest) = Len(head) + Len(rest)
      BY <3>3, <3>9, ConcatProperties
    <3>11. Len(head) \in Nat /\ Len(rest) \in Nat
      BY <3>3, <3>9
    <3>12. Len(head \o rest) + (gone + removed) = n + 1 - i
      BY <3>3, <3>9, <3>10, <3>11
    <3>13. Good(i)
      BY <3>3, <3>8, <3>9, <3>10, <3>12
    <3> HIDE DEF Good
    <3> QED
      BY <3>1, <3>13
  <2> QED
    BY <2>1, <2>2
<1>3. Nat \subseteq T
  <2> HIDE DEF T
  <2> QED
    BY <1>2, CompleteInduction
<1>4. ASSUME NEW i \in 1..(n + 1)
      PROVE  Good(i)
  <2>1. PICK d \in Nat : d = n + 1 - i
    OBVIOUS
  <2>2. d \in T /\ (d <= n \/ i = 0) /\ i = n + 1 - d
    BY <1>3, <2>1
  <2> HIDE DEF Good
  <2>3. d <= n
    BY <2>2
  <2> QED
    BY <2>2, <2>3
<1> QED
  BY <1>4

(* Unescaping accounts for every character of a text (escape.c:179): for a    *)
(* text of any length over any characters.                                    *)
THEOREM RemovedCorrectness ==
  ASSUME NEW C
  PROVE  \A s \in Seq(C) : RemovedExactly(s)
<1> SUFFICES ASSUME NEW s \in Seq(C), NEW dequote \in {"NO", "DEQUOTE", "IF_QUOTED"},
                    NEW include_zero \in BOOLEAN
             PROVE  LET u == nl_unescape_string(s, include_zero, dequote)
                    IN Len(u.text) + u.removed = Len(s)
  BY DEF RemovedExactly
<1>1. PICK n \in Nat : n = Len(s)
  OBVIOUS
<1> DEFINE quoted == Dequotes(s, dequote)
           u == nl_unescape_string(s, include_zero, dequote)
<1>2. PICK f : /\ u = IF quoted THEN Unescaped(<<>>, 1, f[2])
                      ELSE IF dequote = "IF_QUOTED" THEN [text |-> s, removed |-> 0] ELSE f[1]
               /\ UnescapesFrom(f, s, n, include_zero, quoted)
  BY <1>1, UnescapeWalks
<1>3. quoted => n >= 1
  BY <1>1 DEF Dequotes
<1> HIDE DEF u, quoted
<1>4. \A i \in 1..(n + 1) : /\ f[i].text \in Seq(Unescapes(C)) /\ f[i].removed \in Nat
                            /\ Len(f[i].text) + f[i].removed = n + 1 - i
  BY <1>1, <1>2, RestAccounts
<1>5. CASE quoted
  <2>1. PICK rest, removed : rest = f[2].text /\ removed = f[2].removed
    OBVIOUS
  <2>2. 2 \in 1..(n + 1)
    BY <1>3, <1>5
  <2>3. rest \in Seq(Unescapes(C)) /\ removed \in Nat /\ Len(rest) + removed = n - 1
    BY <1>4, <2>1, <2>2
  <2>4. u.text = <<>> \o rest /\ u.removed = 1 + removed
    BY <1>2, <1>5, <2>1 DEF Unescaped
  <2>5. <<>> \o rest = rest
    BY <2>3
  <2> QED
    BY <1>1, <2>3, <2>4, <2>5 DEF u
<1>6. CASE ~quoted /\ dequote = "IF_QUOTED"
  BY <1>1, <1>2, <1>6 DEF u
<1>7. CASE ~quoted /\ dequote # "IF_QUOTED"
  <2>1. u = f[1] /\ 1 \in 1..(n + 1)
    BY <1>2, <1>7
  <2>2. Len(f[1].text) + f[1].removed = n + 1 - 1
    BY <1>4, <2>1
  <2> QED
    BY <1>1, <2>1, <2>2 DEF u
<1> QED
  BY <1>5, <1>6, <1>7

(* A walk from code to code, where what is at each place stands for a         *)
(* character and each code is removed but for one.                            *)
CodeWalk(f, s, n, at, gone) ==
  /\ at \in [0..n -> Nat] /\ gone \in [1..n -> Nat]
  /\ \A k \in 1..n : f[at[k - 1]] = Unescaped(<<s[k]>>, gone[k], f[at[k]])
  /\ \A k \in 1..n : at[k] = at[k - 1] + gone[k] + 1

(* The text is read back.                                                     *)
LEMMA CodesUndone ==
  ASSUME NEW C, NEW s \in Seq(C), NEW n \in Nat, n = Len(s), NEW f, NEW r \in Nat,
         NEW at, NEW gone, CodeWalk(f, s, n, at, gone),
         f[at[n]].text = <<>>, f[at[n]].removed = r
  PROVE  f[at[0]].text = s /\ f[at[0]].removed = r + (at[n] - at[0]) - n
<1> DEFINE Good(d) == /\ f[at[n - d]].text = SubSeq(s, n - d + 1, n)
                      /\ f[at[n - d]].removed = r + (at[n] - at[n - d]) - d
           T == {d \in Nat : d <= n => Good(d)}
<1> HIDE DEF Good
<1>1. 0 \in T
  <2>1. SubSeq(s, n - 0 + 1, n) = <<>>
    BY SubSeqEmpty
  <2>2. PICK e \in Nat : e = at[n]
    <3>1. n \in 0..n
      OBVIOUS
    <3> QED
      BY <3>1 DEF CodeWalk
  <2>3. n - 0 = n /\ r + (e - e) - 0 = r
    OBVIOUS
  <2>4. Good(0)
    BY <2>1, <2>2, <2>3 DEF Good
  <2> QED
    BY <2>4
<1>2. ASSUME NEW d \in Nat, d \in T
      PROVE  d + 1 \in T
  <2> SUFFICES ASSUME d + 1 <= n
               PROVE  Good(d + 1)
    OBVIOUS
  <2>0. Good(d)
    BY <1>2
  <2>1. n - d \in 1..n
    OBVIOUS
  <2>1a. PICK k \in 1..n : k = n - d
    BY <2>1
  <2>2. n - (d + 1) = k - 1 /\ n - d = k /\ k \in 0..n /\ k - 1 \in 0..n /\ n - (d + 1) + 1 = k
    BY <2>1a
  <2>3. f[at[k]].text = SubSeq(s, k + 1, n) /\ f[at[k]].removed = r + (at[n] - at[k]) - d
    BY <2>0, <2>2 DEF Good
  <2>4. /\ f[at[k - 1]].text = <<s[k]>> \o f[at[k]].text
        /\ f[at[k - 1]].removed = gone[k] + f[at[k]].removed
    <3>1. f[at[k - 1]] = Unescaped(<<s[k]>>, gone[k], f[at[k]])
      BY DEF CodeWalk
    <3>2. PICK x, y, z : x = f[at[k]] /\ y = s[k] /\ z = gone[k]
      OBVIOUS
    <3>3. f[at[k - 1]] = Unescaped(<<y>>, z, x)
      BY <3>1, <3>2
    <3> QED
      BY <3>2, <3>3 DEF Unescaped
  <2>5. SubSeq(s, k, n) = <<s[k]>> \o SubSeq(s, k + 1, n)
    <3>1. k \in 1..Len(s) /\ n \in k..Len(s)
      OBVIOUS
    <3> QED
      BY <3>1, SubSeqRecursiveFirst
  <2>6. at[k - 1] \in Nat /\ at[k] \in Nat /\ at[n] \in Nat /\ gone[k] \in Nat
    <3>1. k - 1 \in 0..n /\ k \in 0..n /\ n \in 0..n
      BY <2>2
    <3>2. at[k - 1] \in Nat /\ at[k] \in Nat /\ at[n] \in Nat
      BY <3>1 DEF CodeWalk
    <3> QED
      BY <3>2 DEF CodeWalk
  <2>6a. PICK a \in Nat, b \in Nat, e \in Nat, g \in Nat :
           a = at[k - 1] /\ b = at[k] /\ e = at[n] /\ g = gone[k]
    BY <2>6
  <2>7. b = a + g + 1
    BY <2>6a DEF CodeWalk
  <2>8. f[at[k - 1]].removed = r + (e - a) - (d + 1)
    <3>1. f[at[k - 1]].removed = g + (r + (e - b) - d)
      BY <2>3, <2>4, <2>6a
    <3> QED
      BY <2>7, <3>1
  <2> QED
    BY <2>2, <2>3, <2>4, <2>5, <2>6a, <2>8 DEF Good
<1>3. Nat \subseteq T
  <2> HIDE DEF T
  <2> QED
    BY <1>1, <1>2, SuccessorInduction
<1>4. Good(n)
  BY <1>3
<1>5. n - n = 0 /\ 0 + 1 = 1 /\ SubSeq(s, 1, n) = s
  BY SubSeqFull
<1>6. f[at[0]].text = SubSeq(s, 0 + 1, n) /\ f[at[0]].removed = r + (at[n] - at[0]) - n
  BY <1>4, <1>5 DEF Good
<1> QED
  BY <1>5, <1>6

(* A text with codes for the characters of s: the code of s[k] at at[k - 1].  *)
CodesIn(w, m, include_zero, quoted, s, n, at) ==
  /\ at \in [0..n -> Nat]
  /\ \A k \in 1..n :
       /\ at[k - 1] \in 1..m /\ at[k - 1] < at[k]
       /\ UnescapeHead(w, at[k - 1], include_zero, quoted) = <<s[k]>>
       /\ UnescapeGone(w, at[k - 1], include_zero, quoted) = at[k] - at[k - 1] - 1
       /\ UnescapeStep(w, at[k - 1]) = at[k]

(* What a text whose characters are coded one after the other gives: the      *)
(* characters, and what each code is longer than its character as removed.    *)
CodesGive(f, s, n, at) ==
  f[at[n]].text = <<>> /\ f[at[n]].removed \in Nat
    => /\ f[at[0]].text = s
       /\ f[at[0]].removed = f[at[n]].removed + (at[n] - at[0]) - n

(* nl_unescape_string() reads the characters.                                 *)
LEMMA CodesRead ==
  ASSUME NEW C, NEW s \in Seq(C), NEW n, n = Len(s),
         NEW w, NEW m, NEW f, NEW include_zero, NEW quoted,
         UnescapesFrom(f, w, m, include_zero, quoted),
         NEW at, CodesIn(w, m, include_zero, quoted, s, n, at)
  PROVE  CodesGive(f, s, n, at)
<1> SUFFICES ASSUME f[at[n]].text = <<>>, f[at[n]].removed \in Nat
             PROVE  f[at[0]].text = s /\ f[at[0]].removed = f[at[n]].removed + (at[n] - at[0]) - n
  BY DEF CodesGive
<1>0. n \in Nat
  OBVIOUS
<1> DEFINE gone == [k \in 1..n |-> at[k] - at[k - 1] - 1]
<1>1. at \in [0..n -> Nat] /\ \A k \in 1..n : at[k - 1] < at[k]
  BY DEF CodesIn
<1>2. gone \in [1..n -> Nat] /\ \A k \in 1..n : gone[k] = at[k] - at[k - 1] - 1
  <2>1. ASSUME NEW k \in 1..n
        PROVE  at[k] - at[k - 1] - 1 \in Nat
    <3>1. k \in 0..n /\ k - 1 \in 0..n
      OBVIOUS
    <3>2. PICK a \in Nat, b \in Nat : a = at[k - 1] /\ b = at[k]
      BY <1>1, <3>1
    <3>3. a < b
      BY <1>1, <3>2
    <3> QED
      BY <3>2, <3>3
  <2> QED
    BY <2>1
<1> HIDE DEF gone
<1>3. ASSUME NEW k \in 1..n
      PROVE  /\ at[k] = at[k - 1] + gone[k] + 1
             /\ f[at[k - 1]] = Unescaped(<<s[k]>>, gone[k], f[at[k]])
  <2>0. k \in 0..n /\ k - 1 \in 0..n
    OBVIOUS
  <2>1. PICK a \in Nat, b \in Nat : a = at[k - 1] /\ b = at[k]
    BY <1>1, <2>0
  <2>2. gone[k] = b - a - 1
    BY <1>2, <2>1
  <2>3. /\ a \in 1..m /\ UnescapeHead(w, a, include_zero, quoted) = <<s[k]>>
        /\ UnescapeGone(w, a, include_zero, quoted) = b - a - 1
        /\ UnescapeStep(w, a) = b
    BY <2>1 DEF CodesIn
  <2>4. f[a] = Unescaped(UnescapeHead(w, a, include_zero, quoted),
                         UnescapeGone(w, a, include_zero, quoted), f[UnescapeStep(w, a)])
    BY <2>3 DEF UnescapesFrom
  <2>5. f[a] = Unescaped(<<s[k]>>, b - a - 1, f[b])
    BY <2>3, <2>4
  <2>6. b = a + (b - a - 1) + 1
    OBVIOUS
  <2> QED
    BY <2>1, <2>2, <2>5, <2>6
<1>4. CodeWalk(f, s, n, at, gone)
  BY <1>1, <1>2, <1>3 DEF CodeWalk
<1>5. PICK r \in Nat : r = f[at[n]].removed
  OBVIOUS
<1> QED
  BY <1>0, <1>4, <1>5, CodesUndone

(* A code is read as a character wherever it is in a text.                    *)
ReadAs(w, i, code, c, include_zero, quoted) ==
  i + Len(code) <= Len(w) + 1 /\ (\A j \in 1..Len(code) : w[(i - 1) + j] = code[j])
    => /\ UnescapeHead(w, i, include_zero, quoted) = <<c>>
       /\ UnescapeGone(w, i, include_zero, quoted) = Len(code) - 1
       /\ UnescapeStep(w, i) = i + Len(code)

(* The escape of a character is read as the character.                        *)
LEMMA EscapedRead ==
  ASSUME NEW c, NEW w, NEW i \in Nat, NEW include_zero, NEW quoted
  PROVE  ReadAs(w, i, Escaped(c), c, include_zero, quoted)
<1> DEFINE l == Len(Escaped(c))
<1> HIDE DEF l
<1> SUFFICES ASSUME i + l <= Len(w) + 1, \A j \in 1..l : w[(i - 1) + j] = Escaped(c)[j]
             PROVE  /\ UnescapeHead(w, i, include_zero, quoted) = <<c>>
                    /\ UnescapeGone(w, i, include_zero, quoted) = l - 1
                    /\ UnescapeStep(w, i) = i + l
  BY DEF ReadAs, l
<1>1. CASE HasEscape(c)
  <2>1. PICK e : e = esc_chars[c]
    OBVIOUS
  <2>2. Escaped(c) = <<Backslash, e>>
    BY <1>1, <2>1 DEF Escaped
  <2>3. l = 2 /\ Escaped(c)[1] = Backslash /\ Escaped(c)[2] = e
    BY <2>2 DEF l
  <2>4. (i - 1) + 1 = i /\ (i - 1) + 2 = i + 1
    OBVIOUS
  <2>5. w[i] = Backslash /\ w[i + 1] = e
    BY <2>3, <2>4
  <2>6. IsEscape(e) /\ get_original(e) = c /\ e # "x"
    BY <1>1, <2>1, EscapeCodes DEF HasEscape
  <2>7. ~ByteCodeAt(w, i)
    BY <2>5, <2>6 DEF ByteCodeAt
  <2>8. i + 1 <= Len(w)
    BY <2>3
  <2>9. EscapeAt(w, i)
    BY <2>5, <2>6, <2>8 DEF EscapeAt
  <2>10. get_original(w[i + 1]) = c
    BY <2>5, <2>6
  <2> QED
    BY <2>3, <2>7, <2>9, <2>10
       DEF UnescapeHead, UnescapeGone, UnescapeStep, PlainHead, PlainGone, PlainStep
<1>2. CASE ~HasEscape(c)
  <2>1. Escaped(c) = <<c>>
    BY <1>2 DEF Escaped
  <2>2. l = 1 /\ Escaped(c)[1] = c
    BY <2>1 DEF l
  <2>3. (i - 1) + 1 = i
    OBVIOUS
  <2>4. w[i] = c
    BY <2>2, <2>3
  <2>5. c # Backslash /\ c # Quote
    BY <1>2 DEF HasEscape, esc_chars
  <2> QED
    BY <2>2, <2>4, <2>5
       DEF UnescapeHead, UnescapeGone, UnescapeStep, PlainHead, PlainGone, PlainStep,
           ByteCodeAt, EscapeAt, LastQuoteAt
<1> QED
  BY <1>1, <1>2

(* A text with e at offset + 1, and codes that are read as characters there.  *)
HoldsAt(w, m, offset, e) ==
  m = Len(w) /\ offset + Len(e) <= m /\ \A j \in 1..Len(e) : w[offset + j] = e[j]

Readable(w, n, parts, s, include_zero, quoted) ==
  \A k \in 1..n : /\ Len(parts[k]) \in Nat \ {0}
                  /\ \A i \in Nat : ReadAs(w, i, parts[k], s[k], include_zero, quoted)

(* The codes, one behind the other.                                           *)
LEMMA PartsRead ==
  ASSUME NEW n \in Nat, NEW s, NEW e, NEW h \in Nat, h = Len(e), NEW places, NEW parts,
         Placed(e, places, parts, n), NEW w, NEW m \in Nat, NEW offset \in Nat,
         HoldsAt(w, m, offset, e), NEW include_zero, NEW quoted,
         Readable(w, n, parts, s, include_zero, quoted)
  PROVE  \E at : /\ CodesIn(w, m, include_zero, quoted, s, n, at)
                 /\ at[0] = offset + 1 /\ at[n] = at[0] + h
<1> DEFINE at == [k \in 0..n |-> offset + places[k] + 1]
<1>0. places \in [0..n -> Nat] /\ places[0] = 0 /\ places[n] = h
  BY DEF Placed
<1>0a. at \in [0..n -> Nat] /\ \A k \in 0..n : at[k] = offset + places[k] + 1
  BY <1>0
<1> HIDE DEF at
<1>1. ASSUME NEW k \in 1..n
      PROVE  /\ at[k - 1] \in 1..m /\ at[k - 1] < at[k]
             /\ UnescapeHead(w, at[k - 1], include_zero, quoted) = <<s[k]>>
             /\ UnescapeGone(w, at[k - 1], include_zero, quoted) = at[k] - at[k - 1] - 1
             /\ UnescapeStep(w, at[k - 1]) = at[k]
  <2>1. k \in 0..n /\ k - 1 \in 0..n
    OBVIOUS
  <2>2. PICK a \in Nat, b \in Nat, l \in Nat \ {0} :
           a = places[k - 1] /\ b = places[k] /\ l = Len(parts[k])
    <3>1. places[k - 1] \in Nat /\ places[k] \in Nat /\ Len(parts[k]) \in Nat \ {0}
      BY <1>0, <2>1 DEF Readable
    <3> QED
      BY <3>1
  <2>3. b = a + l /\ b <= h
    BY <2>1, <2>2 DEF Placed
  <2>4. \A j \in 1..l : e[a + j] = parts[k][j]
    BY <2>2 DEF Placed
  <2>5. PICK i \in Nat : i = offset + a + 1
    OBVIOUS
  <2>6. i + l <= m + 1 /\ i \in 1..m
    <3>1. offset + h <= m
      BY DEF HoldsAt
    <3> QED
      BY <2>3, <2>5, <3>1
  <2>7. ASSUME NEW j \in 1..l
        PROVE  w[(i - 1) + j] = parts[k][j]
    <3>1. PICK x \in 1..h : x = a + j
      BY <2>3
    <3>2. (i - 1) + j = offset + x
      BY <2>5, <3>1
    <3>3. w[offset + x] = e[x]
      BY DEF HoldsAt
    <3> QED
      BY <2>4, <3>1, <3>2, <3>3
  <2>8. ReadAs(w, i, parts[k], s[k], include_zero, quoted)
    BY DEF Readable
  <2>9. /\ UnescapeHead(w, i, include_zero, quoted) = <<s[k]>>
        /\ UnescapeGone(w, i, include_zero, quoted) = l - 1
        /\ UnescapeStep(w, i) = i + l
    BY <2>2, <2>6, <2>7, <2>8 DEF ReadAs, HoldsAt
  <2>10. at[k - 1] = i /\ at[k] = i + l /\ i < i + l /\ (i + l) - i - 1 = l - 1
    <3>1. at[k - 1] = offset + a + 1 /\ at[k] = offset + b + 1
      BY <1>0a, <2>1, <2>2
    <3>2. offset + b + 1 = i + l /\ i < i + l /\ (i + l) - i - 1 = l - 1
      BY <2>3, <2>5
    <3> QED
      BY <2>5, <3>1, <3>2
  <2> QED
    BY <2>6, <2>9, <2>10
<1>2. at[0] = offset + 1 /\ at[n] = at[0] + h
  <2>1. 0 \in 0..n /\ n \in 0..n /\ offset + 0 + 1 = offset + 1 /\ offset + h + 1 = (offset + 1) + h
    OBVIOUS
  <2> QED
    BY <1>0, <1>0a, <2>1
<1>3. CodesIn(w, m, include_zero, quoted, s, n, at)
  BY <1>0a, <1>1 DEF CodesIn
<1> QED
  BY <1>2, <1>3

(* The characters an escape is made of.                                       *)
EscapeCharacters == {Backslash} \cup {esc_chars[c] : c \in DOMAIN esc_chars}

(* nl_escape_string() makes a text longer by what nl_count_escapes() says.    *)
LEMMA StringEscaped ==
  ASSUME NEW C, NEW s \in Seq(C), NEW n \in Nat, n = Len(s)
  PROVE  LET e == nl_escape_string(s) IN
         /\ e \in Seq(C \cup EscapeCharacters)
         /\ nl_count_escapes(s) \in Nat /\ Len(e) = n + nl_count_escapes(s)
         /\ \E places : Placed(e, places, [k \in 1..n |-> Escaped(s[k])], n)
<1> DEFINE D == C \cup EscapeCharacters
           e == nl_escape_string(s)
           parts == [k \in 1..n |-> Escaped(s[k])]
           A == {i \in DOMAIN s : HasEscape(s[i])}
           Count(k) == Cardinality(A \cap (1..k))
<1>1. e = FlattenSeq(parts) /\ DOMAIN s = 1..n
  BY DEF nl_escape_string
<1>2. ASSUME NEW k \in 1..n
      PROVE  parts[k] \in Seq(D) /\ Len(parts[k]) = 1 + (IF k \in A THEN 1 ELSE 0)
  <2>1. parts[k] = Escaped(s[k]) /\ s[k] \in C
    BY ElementOfSeq
  <2>2. CASE HasEscape(s[k])
    <3>1. esc_chars[s[k]] \in D /\ Backslash \in D
      BY <2>2 DEF HasEscape, EscapeCharacters
    <3>2. PICK x, y : x = Backslash /\ y = esc_chars[s[k]]
      OBVIOUS
    <3>3. parts[k] = <<x, y>>
      BY <2>1, <2>2, <3>2 DEF Escaped
    <3>4. x \in D /\ y \in D
      BY <3>1, <3>2
    <3>5. k \in A
      BY <1>1, <2>2
    <3> HIDE DEF D, A, parts
    <3> QED
      BY <3>3, <3>4, <3>5
  <2>3. CASE ~HasEscape(s[k])
    <3>1. PICK x \in D : x = s[k]
      BY <2>1
    <3>2. parts[k] = <<x>>
      BY <2>1, <2>3, <3>1 DEF Escaped
    <3>3. k \notin A
      BY <2>3
    <3> HIDE DEF D, A, parts
    <3> QED
      BY <3>2, <3>3
  <2> QED
    BY <2>2, <2>3
<1> HIDE DEF D
<1>3. parts \in Seq(Seq(D)) /\ Len(parts) = n
  <2>1. parts = [k \in 1..n |-> parts[k]] /\ \A k \in 1..n : parts[k] \in Seq(D)
    BY <1>2
  <2> HIDE DEF parts
  <2>2. parts \in [1..n -> Seq(D)]
    BY <2>1
  <2> QED
    BY <2>2
<1>4. nl_count_escapes(s) = Count(n)
  <2>1. A \cap (1..n) = A
    BY <1>1
  <2> QED
    BY <2>1 DEF nl_count_escapes
<1> HIDE DEF e, parts, A
<1>5. e \in Seq(D)
  BY <1>1, <1>3, Flattened
<1>6. PICK places : Placed(e, places, parts, n)
  BY <1>1, <1>3, Flattened
<1>7. \A k \in Nat : Count(k) \in Nat /\ Count(k + 1) = Count(k) + (IF k + 1 \in A THEN 1 ELSE 0)
  BY CountNext
<1>8. Count(0) = 0
  <2>1. A \cap (1..0) = {}
    OBVIOUS
  <2> QED
    BY <2>1, FS_EmptySet
<1> HIDE DEF Count
<1> DEFINE T == {k \in Nat : k <= n => places[k] = k + Count(k)}
<1>9. 0 \in T
  BY <1>6, <1>8 DEF Placed
<1>10. ASSUME NEW k \in Nat, k \in T
       PROVE  k + 1 \in T
  <2> SUFFICES ASSUME k + 1 <= n
               PROVE  places[k + 1] = (k + 1) + Count(k + 1)
    OBVIOUS
  <2>1. k + 1 \in 1..n /\ (k + 1) - 1 = k /\ places[k] = k + Count(k)
    BY <1>10
  <2>2. places[k + 1] = places[(k + 1) - 1] + Len(parts[k + 1])
    BY <1>6, <2>1 DEF Placed
  <2>3. Len(parts[k + 1]) = 1 + (IF k + 1 \in A THEN 1 ELSE 0)
    BY <1>2, <2>1
  <2>4. PICK c \in Nat, x \in Nat : c = Count(k) /\ x = IF k + 1 \in A THEN 1 ELSE 0
    BY <1>7
  <2>5. Count(k + 1) = c + x
    BY <1>7, <2>4
  <2>6. places[k + 1] = (k + c) + (1 + x)
    BY <2>1, <2>2, <2>3, <2>4
  <2> QED
    BY <2>5, <2>6
<1>11. Nat \subseteq T
  <2> HIDE DEF T
  <2> QED
    BY <1>9, <1>10, SuccessorInduction
<1>12. Len(e) = n + Count(n)
  <2>1. places[n] = n + Count(n)
    BY <1>11
  <2> QED
    BY <1>6, <2>1 DEF Placed
<1> QED
  BY <1>4, <1>5, <1>6, <1>7, <1>12 DEF D, e, parts

(* The codes of a text with quotes around it.                                 *)
LEMMA WithQuotes ==
  ASSUME NEW D, Quote \in D, NEW e \in Seq(D), NEW h \in Nat, h = Len(e)
  PROVE  LET w == <<Quote>> \o e \o <<Quote>> IN
         /\ w \in Seq(D) /\ Len(w) = h + 2 /\ w[1] = Quote /\ w[h + 2] = Quote
         /\ \A j \in 1..h : w[1 + j] = e[j]
<1> DEFINE v == <<Quote>> \o e
           w == v \o <<Quote>>
<1>1. <<Quote>> \in Seq(D) /\ Len(<<Quote>>) = 1 /\ <<Quote>>[1] = Quote
  OBVIOUS
<1>2. /\ v \in Seq(D) /\ Len(v) = 1 + h
      /\ \A j \in 1..(1 + h) : v[j] = IF j <= 1 THEN <<Quote>>[j] ELSE e[j - 1]
  BY <1>1, ConcatProperties
<1> HIDE DEF v
<1>3. /\ w \in Seq(D) /\ Len(w) = (1 + h) + 1
      /\ \A j \in 1..((1 + h) + 1) : w[j] = IF j <= 1 + h THEN v[j] ELSE <<Quote>>[j - (1 + h)]
  BY <1>1, <1>2, ConcatProperties
<1> HIDE DEF w
<1>4. w[1] = Quote
  BY <1>1, <1>2, <1>3
<1>5. w[h + 2] = Quote
  <2>1. h + 2 \in 1..((1 + h) + 1) /\ ~(h + 2 <= 1 + h) /\ (h + 2) - (1 + h) = 1
    OBVIOUS
  <2> QED
    BY <1>1, <1>3, <2>1
<1>6. ASSUME NEW j \in 1..h
      PROVE  w[1 + j] = e[j]
  <2>1. PICK i \in 1..(1 + h) : i = 1 + j
    OBVIOUS
  <2>2. w[i] = v[i] /\ v[i] = e[i - 1] /\ i - 1 = j
    BY <1>2, <1>3, <2>1
  <2> QED
    BY <2>1, <2>2
<1> QED
  BY <1>3, <1>4, <1>5, <1>6 DEF v, w

(* A text that was escaped is unescaped to what it was, with quotes around it *)
(* or not, and the counts are those of the bytes added and removed            *)
(* (escape.c:53, escape.c:179): for a text of any length over any characters. *)
THEOREM StringEscapeCorrectness ==
  ASSUME NEW C
  PROVE  \A s \in Seq(C) : StringEscapeReverses(s)
<1> SUFFICES ASSUME NEW s \in Seq(C)
             PROVE  StringEscapeReverses(s)
  OBVIOUS
<1> DEFINE D == C \cup EscapeCharacters
           e == nl_escape_string(s)
           count == nl_count_escapes(s)
           plain == nl_unescape_string(e, FALSE, "NO")
           w == <<Quote>> \o e \o <<Quote>>
           quoted == nl_unescape_string(w, FALSE, "IF_QUOTED")
<1>1. PICK n \in Nat : n = Len(s)
  OBVIOUS
<1> DEFINE parts == [k \in 1..n |-> Escaped(s[k])]
<1>2. e \in Seq(D) /\ count \in Nat /\ Len(e) = n + count
  BY <1>1, StringEscaped
<1>3. PICK places : Placed(e, places, parts, n)
  BY <1>1, StringEscaped
<1> HIDE DEF e, count
<1>4. PICK h \in Nat : h = Len(e)
  BY <1>2
<1>5. places \in [0..n -> Nat] /\ places[0] = 0 /\ places[n] = h
  BY <1>3, <1>4 DEF Placed
<1>6. ASSUME NEW k \in 1..n
      PROVE  Len(parts[k]) \in Nat \ {0}
  <2>1. parts[k] = Escaped(s[k])
    OBVIOUS
  <2>2. PICK c, x : c = s[k] /\ x = esc_chars[c]
    OBVIOUS
  <2>3. parts[k] = <<Backslash, x>> \/ parts[k] = <<c>>
    BY <2>1, <2>2 DEF Escaped
  <2> HIDE DEF parts
  <2>4. CASE parts[k] = <<Backslash, x>>
    BY <2>4
  <2>5. CASE parts[k] = <<c>>
    BY <2>5
  <2> QED
    BY <2>3, <2>4, <2>5
<1>6a. PICK zero : zero = FALSE
  OBVIOUS
<1>7. \A v, quotes : Readable(v, n, parts, s, zero, quotes)
  <2>1. \A v, quotes : \A k \in 1..n : \A i \in Nat : ReadAs(v, i, parts[k], s[k], zero, quotes)
    BY EscapedRead
  <2> HIDE DEF parts
  <2> QED
    BY <1>6, <2>1 DEF Readable
<1> HIDE DEF parts
<1>8. plain.text = s /\ plain.removed = count
  <2> DEFINE quotes == Dequotes(e, "NO")
  <2>1. PICK f : /\ plain = IF quotes THEN Unescaped(<<>>, 1, f[2])
                            ELSE IF "NO" = "IF_QUOTED" THEN [text |-> e, removed |-> 0] ELSE f[1]
                 /\ UnescapesFrom(f, e, h, zero, quotes)
    BY <1>2, <1>4, <1>6a, UnescapeWalks
  <2>2. ~quotes
    BY DEF Dequotes
  <2>3. plain = f[1]
    BY <2>1, <2>2
  <2> HIDE DEF quotes, plain
  <2>4. PICK at : CodesIn(e, h, zero, quotes, s, n, at) /\ at[0] = 1 /\ at[n] = h + 1
    <3>1. PICK o \in Nat : o = 0
      OBVIOUS
    <3>2. HoldsAt(e, h, o, e)
      BY <1>4, <3>1 DEF HoldsAt
    <3>3. PICK at : CodesIn(e, h, zero, quotes, s, n, at) /\ at[0] = o + 1 /\ at[n] = at[0] + h
      BY <1>3, <1>4, <1>7, <3>2, PartsRead
    <3> QED
      BY <3>1, <3>3
  <2>5. f[h + 1].text = <<>> /\ f[h + 1].removed = 0
    BY <2>1 DEF UnescapesFrom, NothingLeft
  <2>6. f[1].text = s /\ f[1].removed = count
    <3>1. UnescapesFrom(f, e, h, zero, quotes)
      BY <2>1
    <3>2. f[at[n]].text = <<>> /\ f[at[n]].removed = 0
      BY <2>4, <2>5
    <3>a. CodesIn(e, h, zero, quotes, s, n, at)
      BY <2>4
    <3>b. CodesGive(f, s, n, at)
      BY <1>1, <3>1, <3>a, CodesRead
    <3>3. f[at[0]].text = s /\ f[at[0]].removed = f[at[n]].removed + (at[n] - at[0]) - n
      BY <3>2, <3>b DEF CodesGive
    <3>4. 0 + (h + 1 - 1) - n = count
      BY <1>2, <1>4
    <3> QED
      BY <2>4, <3>2, <3>3, <3>4
  <2> QED
    BY <2>3, <2>6
<1>9. quoted.text = s /\ quoted.removed = count + 2
  <2> DEFINE quotes == Dequotes(w, "IF_QUOTED")
             B == D \cup {Quote}
             m == h + 2
  <2>1. /\ w \in Seq(B) /\ Len(w) = m /\ w[1] = Quote /\ w[m] = Quote
        /\ \A j \in 1..h : w[1 + j] = e[j]
    <3>1. Quote \in B /\ e \in Seq(B)
      <4>1. D \subseteq B
        OBVIOUS
      <4> QED
        BY <1>2, <4>1, SeqMonotonic
    <3> HIDE DEF B
    <3> QED
      BY <1>4, <3>1, WithQuotes
  <2> HIDE DEF w, B
  <2>2. m \in Nat /\ m > 0
    OBVIOUS
  <2>3. quotes
    BY <2>1, <2>2 DEF Dequotes
  <2>4. PICK f : /\ quoted = IF quotes THEN Unescaped(<<>>, 1, f[2])
                             ELSE IF "IF_QUOTED" = "IF_QUOTED" THEN [text |-> w, removed |-> 0]
                             ELSE f[1]
                 /\ UnescapesFrom(f, w, m, zero, quotes)
    <3> HIDE DEF m
    <3> QED
      BY <1>6a, <2>1, <2>2, UnescapeWalks
  <2>5. quoted = Unescaped(<<>>, 1, f[2])
    BY <2>3, <2>4
  <2>6. UnescapesFrom(f, w, m, zero, quotes)
    BY <2>4
  <2>7. PICK at : CodesIn(w, m, zero, quotes, s, n, at) /\ at[0] = 2 /\ at[n] = m
    <3> HIDE DEF quotes
    <3>1. PICK o \in Nat : o = 1
      OBVIOUS
    <3>2. m = (o + 1) + h /\ o + 1 = 2
      BY <3>1
    <3>4. \A j \in 1..Len(e) : w[o + j] = e[j]
      BY <1>4, <2>1, <3>1
    <3>5. m = Len(w) /\ o + Len(e) <= m
      BY <1>4, <2>1, <3>1
    <3>6. HoldsAt(w, m, o, e)
      BY <3>4, <3>5 DEF HoldsAt
    <3>7. Readable(w, n, parts, s, zero, quotes)
      BY <1>7
    <3> HIDE DEF m
    <3>3. PICK at : CodesIn(w, m, zero, quotes, s, n, at) /\ at[0] = o + 1 /\ at[n] = at[0] + h
      BY <1>3, <1>4, <2>2, <3>6, <3>7, PartsRead
    <3> QED
      BY <3>2, <3>3
  <2>8. f[m].text = <<>> /\ f[m].removed = 1
    <3>1. ~ByteCodeAt(w, m) /\ ~EscapeAt(w, m) /\ w[m] # Backslash
      BY <2>1 DEF ByteCodeAt, EscapeAt, Quote, Backslash
    <3>2. LastQuoteAt(w, m, quotes)
      <4> HIDE DEF quotes, m
      <4> QED
        BY <2>1, <2>3 DEF LastQuoteAt
    <3> HIDE DEF quotes
    <3>3. /\ UnescapeHead(w, m, zero, quotes) = <<>> /\ UnescapeGone(w, m, zero, quotes) = 1
          /\ UnescapeStep(w, m) = m + 1
      BY <3>1, <3>2 DEF UnescapeHead, UnescapeGone, UnescapeStep, PlainHead, PlainGone, PlainStep
    <3>4. m \in 1..m
      OBVIOUS
    <3>5. f[m] = Unescaped(<<>>, 1, NothingLeft)
      BY <2>6, <3>3, <3>4 DEF UnescapesFrom
    <3>6. <<>> \o <<>> = <<>>
      OBVIOUS
    <3> QED
      BY <3>5, <3>6 DEF Unescaped, NothingLeft
  <2> HIDE DEF quotes, quoted
  <2>9. f[2].text = s /\ f[2].removed = count + 1
    <3>1. m = h + 2
      OBVIOUS
    <3> HIDE DEF m
    <3>2. f[at[n]].text = <<>> /\ f[at[n]].removed = 1
      BY <2>7, <2>8
    <3>a. CodesIn(w, m, zero, quotes, s, n, at)
      BY <2>7
    <3>b. CodesGive(f, s, n, at)
      BY <1>1, <2>6, <3>a, CodesRead
    <3>3. f[at[0]].text = s /\ f[at[0]].removed = f[at[n]].removed + (at[n] - at[0]) - n
      BY <3>2, <3>b DEF CodesGive
    <3>4. 1 + (m - 2) - n = count + 1
      BY <1>2, <1>4, <3>1
    <3> QED
      BY <2>7, <3>2, <3>3, <3>4
  <2>10. quoted.text = <<>> \o s /\ quoted.removed = 1 + (count + 1)
    BY <2>5, <2>9 DEF Unescaped
  <2>11. <<>> \o s = s
    OBVIOUS
  <2> QED
    BY <1>2, <2>10, <2>11
<1> HIDE DEF plain, quoted
<1> QED
  BY <1>1, <1>2, <1>8, <1>9 DEF StringEscapeReverses, plain, quoted, e, count

(* What an unprintable character is written as.                               *)
LEMMA UnprintableEscape ==
  ASSUME NEW c \in Unprintable
  PROVE  \E hi, lo \in HexDigits :
           /\ DataEscape(c) = <<Backslash, "x", hi, lo>> /\ ByteOf(hi, lo) = c
           /\ ~HasEscape(c)
<1>1. PICK hi, lo \in HexDigits : HexOf(c) = <<hi, lo>> /\ ByteOf(hi, lo) = c
  BY BytesOfHex
<1>2. ~HasEscape(c)
  BY DEF HasEscape, esc_chars, Unprintable, Quote, Backslash
<1>3. DataEscape(c) = <<Backslash, "x">> \o <<hi, lo>>
  BY <1>1, <1>2 DEF DataEscape
<1>4. <<Backslash, "x">> \o <<hi, lo>> = <<Backslash, "x", hi, lo>>
  <2> DEFINE D == {Backslash, "x", hi, lo}
             a == <<Backslash, "x">>
             b == <<hi, lo>>
             ab == <<Backslash, "x", hi, lo>>
  <2>1. /\ a \in Seq(D) /\ Len(a) = 2 /\ a[1] = Backslash /\ a[2] = "x"
        /\ b \in Seq(D) /\ Len(b) = 2 /\ b[1] = hi /\ b[2] = lo
    OBVIOUS
  <2>2. /\ ab \in Seq(D) /\ Len(ab) = 4
        /\ ab[1] = Backslash /\ ab[2] = "x" /\ ab[3] = hi /\ ab[4] = lo
    OBVIOUS
  <2> HIDE DEF a, b, ab, D
  <2>3. /\ a \o b \in Seq(D) /\ Len(a \o b) = Len(a) + Len(b)
        /\ \A i \in 1..Len(a) + Len(b) : (a \o b)[i] = IF i <= Len(a) THEN a[i] ELSE b[i - Len(a)]
    <3>1. a \in Seq(D) /\ b \in Seq(D)
      BY <2>1
    <3> QED
      BY <3>1, ConcatProperties
  <2>4. ASSUME NEW i \in 1..4
        PROVE  (a \o b)[i] = ab[i]
    <3>1. i = 1 \/ i = 2 \/ i = 3 \/ i = 4
      OBVIOUS
    <3> QED
      BY <2>1, <2>2, <2>3, <3>1
  <2>5. a \o b = ab
    <3>1. PICK ab2 \in Seq(D) : ab2 = a \o b
      BY <2>3
    <3>2. ab \in Seq(D) /\ Len(ab2) = Len(ab)
      BY <2>1, <2>2, <2>3, <3>1
    <3>3. \A i \in 1..Len(ab2) : ab2[i] = ab[i]
      BY <2>2, <2>4, <3>1, <3>2
    <3> QED
      BY <3>1, <3>2, <3>3, SeqEqual
  <2> QED
    BY <2>5 DEF a, b, ab
<1> QED
  BY <1>1, <1>2, <1>3, <1>4

(* The escape of a byte is read as the byte, if zero bytes are wanted.        *)
LEMMA DataRead ==
  ASSUME NEW c, NEW w, NEW i \in Nat, NEW include_zero, include_zero, NEW quoted
  PROVE  ReadAs(w, i, DataEscape(c), c, include_zero, quoted)
<1>1. CASE c # ":" /\ HasEscape(c)
  <2>1. DataEscape(c) = Escaped(c)
    BY <1>1 DEF DataEscape, Escaped
  <2> QED
    BY <2>1, EscapedRead
<1>2. CASE ~(c # ":" /\ HasEscape(c)) /\ c \in Unprintable
  <2>1. PICK hi, lo \in HexDigits :
          DataEscape(c) = <<Backslash, "x", hi, lo>> /\ ByteOf(hi, lo) = c
    BY <1>2, UnprintableEscape
  <2> DEFINE code == DataEscape(c)
  <2>2. /\ Len(code) = 4 /\ code[1] = Backslash /\ code[2] = "x" /\ code[3] = hi /\ code[4] = lo
    BY <2>1
  <2> HIDE DEF code
  <2> DEFINE l == Len(code)
  <2> HIDE DEF l
  <2> SUFFICES ASSUME i + l <= Len(w) + 1, \A j \in 1..l : w[(i - 1) + j] = code[j]
               PROVE  /\ UnescapeHead(w, i, include_zero, quoted) = <<c>>
                      /\ UnescapeGone(w, i, include_zero, quoted) = l - 1
                      /\ UnescapeStep(w, i) = i + l
    BY DEF ReadAs, code, l
  <2>2a. l = 4
    BY <2>2 DEF l
  <2>3. (i - 1) + 1 = i /\ (i - 1) + 2 = i + 1 /\ (i - 1) + 3 = i + 2 /\ (i - 1) + 4 = i + 3
    OBVIOUS
  <2>4. w[i] = Backslash /\ w[i + 1] = "x" /\ w[i + 2] = hi /\ w[i + 3] = lo
    <3>1. 1 \in 1..l /\ 2 \in 1..l /\ 3 \in 1..l /\ 4 \in 1..l
      BY <2>2a
    <3>2. /\ w[(i - 1) + 1] = code[1] /\ w[(i - 1) + 2] = code[2]
          /\ w[(i - 1) + 3] = code[3] /\ w[(i - 1) + 4] = code[4]
      BY <3>1
    <3> QED
      BY <2>2, <2>3, <3>2
  <2>5. i + 2 <= Len(w) /\ i + 3 <= Len(w)
    BY <2>2a
  <2>6. ByteCodeAt(w, i) /\ TwoDigitsAt(w, i)
    BY <2>4, <2>5 DEF ByteCodeAt, TwoDigitsAt
  <2>7. ByteAt(w, i) = c /\ ByteCodeLength(w, i) = 4
    BY <2>1, <2>4, <2>6 DEF ByteAt, ByteCodeLength
  <2> QED
    BY <2>2a, <2>6, <2>7 DEF UnescapeHead, UnescapeGone, UnescapeStep, Writes
<1>3. CASE ~(c # ":" /\ HasEscape(c)) /\ c \notin Unprintable
  <2>1. DataEscape(c) = <<c>>
    BY <1>3 DEF DataEscape
  <2> DEFINE code == DataEscape(c)
  <2>2. Len(code) = 1 /\ code[1] = c
    BY <2>1
  <2> HIDE DEF code
  <2> DEFINE l == Len(code)
  <2> HIDE DEF l
  <2> SUFFICES ASSUME i + l <= Len(w) + 1, \A j \in 1..l : w[(i - 1) + j] = code[j]
               PROVE  /\ UnescapeHead(w, i, include_zero, quoted) = <<c>>
                      /\ UnescapeGone(w, i, include_zero, quoted) = l - 1
                      /\ UnescapeStep(w, i) = i + l
    BY DEF ReadAs, code, l
  <2>2a. l = 1
    BY <2>2 DEF l
  <2>3. w[i] = c
    <3>1. (i - 1) + 1 = i /\ 1 \in 1..l
      BY <2>2a
    <3>2. w[(i - 1) + 1] = code[1]
      BY <3>1
    <3> QED
      BY <2>2, <3>1, <3>2
  <2>4. c # Backslash /\ c # Quote
    BY <1>3 DEF HasEscape, esc_chars, Backslash, Quote
  <2> QED
    BY <2>2a, <2>3, <2>4
       DEF UnescapeHead, UnescapeGone, UnescapeStep, PlainHead, PlainGone, PlainStep,
           ByteCodeAt, EscapeAt, LastQuoteAt
<1> QED
  BY <1>1, <1>2, <1>3

(* The bytes that nl_escape_data() writes one code behind the other.          *)
DataCodes(data) == [k \in DOMAIN data |-> DataEscape(data[k])]
DataCharacters == EscapeCharacters \cup HexDigits \cup {"x"}

(* Each has at least one, and as many as nl_count_data_escapes() counts.      *)
LEMMA DataCodeLengths ==
  ASSUME NEW C, NEW c \in C
  PROVE  /\ DataEscape(c) \in Seq(C \cup DataCharacters)
         /\ Len(DataEscape(c)) = 1 + (IF c # ":" /\ HasEscape(c) THEN 1 ELSE 0)
                                   + 3 * (IF c \in Unprintable THEN 1 ELSE 0)
         /\ (~(c # ":" /\ HasEscape(c)) /\ c \notin Unprintable => DataEscape(c) = <<c>>)
<1> DEFINE D == C \cup DataCharacters
<1>1. CASE c # ":" /\ HasEscape(c)
  <2>1. c \notin Unprintable
    BY <1>1, UnprintableEscape
  <2>2. PICK x, y : x = Backslash /\ y = esc_chars[c]
    OBVIOUS
  <2>3. DataEscape(c) = <<x, y>>
    BY <1>1, <2>2 DEF DataEscape
  <2>4. x \in D /\ y \in D
    BY <1>1, <2>2 DEF HasEscape, DataCharacters, EscapeCharacters
  <2> HIDE DEF D
  <2>5. <<x, y>> \in Seq(D) /\ Len(<<x, y>>) = 2
    BY <2>4
  <2> QED
    BY <1>1, <2>1, <2>3, <2>5 DEF D
<1>2. CASE ~(c # ":" /\ HasEscape(c)) /\ c \in Unprintable
  <2>1. PICK hi, lo \in HexDigits : DataEscape(c) = <<Backslash, "x", hi, lo>>
    BY <1>2, UnprintableEscape
  <2>2. Backslash \in D /\ "x" \in D /\ hi \in D /\ lo \in D
    BY DEF DataCharacters, EscapeCharacters
  <2> HIDE DEF D
  <2>3. <<Backslash, "x", hi, lo>> \in Seq(D) /\ Len(<<Backslash, "x", hi, lo>>) = 4
    BY <2>2
  <2> QED
    BY <1>2, <2>1, <2>3 DEF D
<1>3. CASE ~(c # ":" /\ HasEscape(c)) /\ c \notin Unprintable
  <2>1. DataEscape(c) = <<c>>
    BY <1>3 DEF DataEscape
  <2>2. c \in D
    OBVIOUS
  <2> HIDE DEF D
  <2>3. <<c>> \in Seq(D) /\ Len(<<c>>) = 1
    BY <2>2
  <2> QED
    BY <1>3, <2>1, <2>3 DEF D
<1> QED
  BY <1>1, <1>2, <1>3

(* The codes together: they make the data longer by what                      *)
(* nl_count_data_escapes() says, and not at all only if each is its byte.     *)
LEMMA DataEscaped ==
  ASSUME NEW C, NEW data \in Seq(C), NEW n \in Nat, n = Len(data)
  PROVE  LET parts == DataCodes(data)
             e == FlattenSeq(parts)
             count == nl_count_data_escapes(data)
         IN  /\ e \in Seq(C \cup DataCharacters) /\ count \in Nat /\ Len(e) = n + count
             /\ \A k \in 1..n : parts[k] = DataEscape(data[k]) /\ Len(parts[k]) \in Nat \ {0}
             /\ \E places : Placed(e, places, parts, n)
             /\ count = 0 => e = data
<1> DEFINE D == C \cup DataCharacters
           parts == DataCodes(data)
           e == FlattenSeq(parts)
           A == {i \in DOMAIN data : data[i] # ":" /\ HasEscape(data[i])}
           B == {i \in DOMAIN data : data[i] \in Unprintable}
           CountA(k) == Cardinality(A \cap (1..k))
           CountB(k) == Cardinality(B \cap (1..k))
<1>1. DOMAIN data = 1..n /\ \A k \in 1..n : data[k] \in C
  BY ElementOfSeq
<1>2. ASSUME NEW k \in 1..n
      PROVE  /\ parts[k] = DataEscape(data[k]) /\ parts[k] \in Seq(D)
             /\ Len(parts[k]) = 1 + (IF k \in A THEN 1 ELSE 0) + 3 * (IF k \in B THEN 1 ELSE 0)
             /\ (k \notin A /\ k \notin B => parts[k] = <<data[k]>>)
  <2>1. parts[k] = DataEscape(data[k]) /\ data[k] \in C
    BY <1>1 DEF DataCodes
  <2>2. (k \in A <=> data[k] # ":" /\ HasEscape(data[k])) /\ (k \in B <=> data[k] \in Unprintable)
    BY <1>1
  <2> HIDE DEF parts, A, B
  <2>3. PICK c \in C : c = data[k]
    BY <2>1
  <2>4. /\ DataEscape(c) \in Seq(D)
        /\ Len(DataEscape(c)) = 1 + (IF c # ":" /\ HasEscape(c) THEN 1 ELSE 0)
                                  + 3 * (IF c \in Unprintable THEN 1 ELSE 0)
        /\ (~(c # ":" /\ HasEscape(c)) /\ c \notin Unprintable => DataEscape(c) = <<c>>)
    BY DataCodeLengths
  <2> QED
    BY <2>1, <2>2, <2>3, <2>4
<1> HIDE DEF D
<1>3. parts \in Seq(Seq(D)) /\ Len(parts) = n
  <2>1. parts = [k \in 1..n |-> parts[k]] /\ \A k \in 1..n : parts[k] \in Seq(D)
    BY <1>1, <1>2 DEF DataCodes
  <2> HIDE DEF parts
  <2>2. parts \in [1..n -> Seq(D)]
    BY <2>1
  <2> QED
    BY <2>2
<1>4. nl_count_data_escapes(data) = CountA(n) + 3 * CountB(n)
  <2>1. A \cap (1..n) = A /\ B \cap (1..n) = B
    BY <1>1
  <2> QED
    BY <2>1 DEF nl_count_data_escapes
<1> HIDE DEF parts
<1>5. e \in Seq(D)
  BY <1>3, Flattened
<1>6. PICK places : Placed(e, places, parts, n)
  BY <1>3, Flattened
<1> HIDE DEF e
<1>7. /\ \A k \in Nat : /\ CountA(k) \in Nat
                       /\ CountA(k + 1) = CountA(k) + (IF k + 1 \in A THEN 1 ELSE 0)
      /\ \A k \in Nat : /\ CountB(k) \in Nat
                       /\ CountB(k + 1) = CountB(k) + (IF k + 1 \in B THEN 1 ELSE 0)
  <2> HIDE DEF A, B
  <2> QED
    BY CountNext
<1>8. CountA(0) = 0 /\ CountB(0) = 0
  <2>1. A \cap (1..0) = {} /\ B \cap (1..0) = {}
    OBVIOUS
  <2> HIDE DEF A, B
  <2> QED
    BY <2>1, FS_EmptySet
<1>9. CountA(n) = 0 /\ CountB(n) = 0 => A = {} /\ B = {}
  <2>1. A \cap (1..n) = A /\ B \cap (1..n) = B
    BY <1>1
  <2> HIDE DEF A, B
  <2>2. IsFiniteSet(A) /\ IsFiniteSet(B)
    <3>1. A \subseteq 1..n /\ B \subseteq 1..n
      BY <2>1
    <3>2. IsFiniteSet(1..n)
      BY FS_Interval
    <3> QED
      BY <3>1, <3>2, FS_Subset
  <2> QED
    BY <2>1, <2>2, FS_EmptySet
<1> HIDE DEF CountA, CountB, A, B
<1> DEFINE T == {k \in Nat : k <= n => places[k] = k + CountA(k) + 3 * CountB(k)}
<1>10. 0 \in T
  BY <1>6, <1>8 DEF Placed
<1>11. ASSUME NEW k \in Nat, k \in T
       PROVE  k + 1 \in T
  <2> SUFFICES ASSUME k + 1 <= n
               PROVE  places[k + 1] = (k + 1) + CountA(k + 1) + 3 * CountB(k + 1)
    OBVIOUS
  <2>1. k + 1 \in 1..n /\ (k + 1) - 1 = k /\ places[k] = k + CountA(k) + 3 * CountB(k)
    BY <1>11
  <2>2. places[k + 1] = places[(k + 1) - 1] + Len(parts[k + 1])
    BY <1>6, <2>1 DEF Placed
  <2>3. Len(parts[k + 1]) = 1 + (IF k + 1 \in A THEN 1 ELSE 0) + 3 * (IF k + 1 \in B THEN 1 ELSE 0)
    BY <1>2, <2>1
  <2>4. PICK a \in Nat, b \in Nat, x \in Nat, y \in Nat :
           /\ a = CountA(k) /\ b = CountB(k)
           /\ x = IF k + 1 \in A THEN 1 ELSE 0
           /\ y = IF k + 1 \in B THEN 1 ELSE 0
    BY <1>7
  <2>5. CountA(k + 1) = a + x /\ CountB(k + 1) = b + y
    BY <1>7, <2>4
  <2>6. places[k + 1] = (k + a + 3 * b) + (1 + x + 3 * y)
    BY <2>1, <2>2, <2>3, <2>4
  <2>7. (k + a + 3 * b) + (1 + x + 3 * y) = (k + 1) + (a + x) + 3 * (b + y)
    OBVIOUS
  <2> QED
    BY <2>5, <2>6, <2>7
<1>12. Nat \subseteq T
  <2> HIDE DEF T
  <2> QED
    BY <1>10, <1>11, SuccessorInduction
<1>13. PICK a \in Nat, b \in Nat : a = CountA(n) /\ b = CountB(n)
  BY <1>7
<1>14. Len(e) = n + (a + 3 * b)
  <2>1. places[n] = n + CountA(n) + 3 * CountB(n)
    BY <1>12
  <2> QED
    BY <1>6, <1>13, <2>1 DEF Placed
<1>15. ASSUME a + 3 * b = 0
       PROVE  e = data
  <2>1. A = {} /\ B = {}
    <3>1. a = 0 /\ b = 0
      BY <1>15
    <3> QED
      BY <1>9, <1>13, <3>1
  <2>2. Len(e) = n /\ Len(data) = n
    BY <1>14, <1>15
  <2>3. ASSUME NEW k \in 1..n
        PROVE  parts[k] = <<data[k]>>
    BY <1>2, <2>1
  <2>4. ASSUME NEW k \in 1..n
        PROVE  Len(parts[k]) = 1 /\ parts[k][1] = data[k]
    <3>1. PICK c : c = data[k]
      OBVIOUS
    <3>2. parts[k] = <<c>>
      BY <2>3, <3>1
    <3> QED
      BY <3>1, <3>2
  <2> DEFINE U == {k \in Nat : k <= n => places[k] = k}
  <2>5. 0 \in U
    BY <1>6 DEF Placed
  <2>6. ASSUME NEW k \in Nat, k \in U
        PROVE  k + 1 \in U
    <3> SUFFICES ASSUME k + 1 <= n
                 PROVE  places[k + 1] = k + 1
      OBVIOUS
    <3>1. k + 1 \in 1..n /\ (k + 1) - 1 = k /\ places[k] = k
      BY <2>6
    <3>2. places[k + 1] = places[(k + 1) - 1] + Len(parts[k + 1])
      BY <1>6, <3>1 DEF Placed
    <3> QED
      BY <2>4, <3>1, <3>2
  <2>7. Nat \subseteq U
    <3> HIDE DEF U
    <3> QED
      BY <2>5, <2>6, SuccessorInduction
  <2>8. ASSUME NEW k \in 1..n
        PROVE  e[k] = data[k]
    <3>1. places[k - 1] = k - 1 /\ (k - 1) + 1 = k
      BY <2>7
    <3>2. Len(parts[k]) = 1 /\ parts[k][1] = data[k]
      BY <2>4
    <3>3. \A j \in 1..Len(parts[k]) : e[places[k - 1] + j] = parts[k][j]
      BY <1>6 DEF Placed
    <3>4. 1 \in 1..Len(parts[k])
      BY <3>2
    <3>5. e[places[k - 1] + 1] = parts[k][1]
      BY <3>3, <3>4
    <3> QED
      BY <3>1, <3>2, <3>5
  <2>9. e \in Seq(D) /\ data \in Seq(C)
    BY <1>5
  <2> QED
    BY <2>2, <2>8, <2>9, SeqEqual
<1>16. ASSUME NEW k \in 1..n
       PROVE  Len(parts[k]) \in Nat \ {0}
  <2>1. PICK x \in Nat, y \in Nat : x = (IF k \in A THEN 1 ELSE 0) /\ y = (IF k \in B THEN 1 ELSE 0)
    OBVIOUS
  <2>2. Len(parts[k]) = 1 + x + 3 * y
    BY <1>2, <2>1
  <2> QED
    BY <2>2
<1>17. nl_count_data_escapes(data) = a + 3 * b /\ a + 3 * b \in Nat
  BY <1>4, <1>13
<1> QED
  BY <1>2, <1>5, <1>6, <1>14, <1>15, <1>16, <1>17 DEF e, parts, D

(* What the loop of nl_escape_data() has done when `turns` bytes are escaped: *)
(* from the place of the first of them on the buffer is as it will be.        *)
AfterTurns(grown, final, places, n, turns) ==
  [buf |-> [i \in 1..Len(final) |-> IF i <= places[n - turns] THEN grown[i] ELSE final[i]],
   src |-> n - turns, dst |-> places[n - turns]]

(* final begins with the codes, and grown with the data.                      *)
Prepared(grown, final, places, n, data, parts, e) ==
  /\ Placed(e, places, parts, n)
  /\ \A k \in 1..n : parts[k] = DataEscape(data[k]) /\ Len(parts[k]) \in Nat \ {0}
  /\ Len(final) \in Nat /\ Len(e) \in Nat /\ Len(e) <= Len(final)
  /\ \A i \in 1..Len(e) : final[i] = e[i]
  /\ \A k \in 1..n : grown[k] = data[k]

(* One turn of it: the codes do not reach the bytes that are still to be      *)
(* escaped, as no place is before that of its byte.                           *)
LEMMA EscapeTurnNext ==
  ASSUME NEW n \in Nat, NEW data, NEW parts, NEW e, NEW places, NEW final, NEW grown,
         Prepared(grown, final, places, n, data, parts, e), NEW turns \in Nat, turns < n
  PROVE  EscapeTurn(AfterTurns(grown, final, places, n, turns))
           = AfterTurns(grown, final, places, n, turns + 1)
<1> DEFINE b == AfterTurns(grown, final, places, n, turns)
           c == AfterTurns(grown, final, places, n, turns + 1)
           T == {k \in Nat : k <= n => k <= places[k]}
<1>a. PICK h \in Nat, m \in Nat : h = Len(final) /\ m = Len(e)
  BY DEF Prepared
<1>b. /\ \A k \in 1..n : parts[k] = DataEscape(data[k]) /\ Len(parts[k]) \in Nat \ {0}
      /\ m <= h
      /\ \A i \in 1..m : final[i] = e[i]
      /\ \A k \in 1..n : grown[k] = data[k]
  BY <1>a DEF Prepared
<1>0. /\ places \in [0..n -> Nat] /\ places[0] = 0
      /\ \A k \in 0..n : places[k] <= m
      /\ \A k \in 1..n : places[k] = places[k - 1] + Len(parts[k])
      /\ \A k \in 1..n : \A j \in 1..Len(parts[k]) : e[places[k - 1] + j] = parts[k][j]
  BY <1>a DEF Placed, Prepared
<1>1. 0 \in T
  BY <1>0
<1>2. ASSUME NEW k \in Nat, k \in T
      PROVE  k + 1 \in T
  <2> SUFFICES ASSUME k + 1 <= n
               PROVE  k + 1 <= places[k + 1]
    OBVIOUS
  <2>1. k + 1 \in 1..n /\ (k + 1) - 1 = k /\ k \in 0..n /\ k + 1 \in 0..n
    OBVIOUS
  <2>2. PICK p \in Nat, q \in Nat, l \in Nat \ {0} :
           p = places[k] /\ q = places[k + 1] /\ l = Len(parts[k + 1])
    <3>1. places[k] \in Nat /\ places[k + 1] \in Nat
      BY <1>0, <2>1
    <3>2. Len(parts[k + 1]) \in Nat \ {0}
      BY <1>b, <2>1
    <3> QED
      BY <3>1, <3>2
  <2>3. q = p + l
    BY <1>0, <2>1, <2>2
  <2>4. k <= p
    BY <1>2, <2>2
  <2> QED
    BY <2>2, <2>3, <2>4
<1>3. Nat \subseteq T
  <2> HIDE DEF T
  <2> QED
    BY <1>1, <1>2, SuccessorInduction
<1>4. PICK k \in 1..n : k = n - turns
  <2>1. n - turns \in 1..n
    OBVIOUS
  <2> QED
    BY <2>1
<1>5. k \in 0..n /\ k - 1 \in 0..n /\ n - (turns + 1) = k - 1
  BY <1>4
<1>6. PICK p \in Nat, q \in Nat, l \in Nat \ {0} :
         p = places[k - 1] /\ q = places[k] /\ l = Len(parts[k])
  <2>1. places[k - 1] \in Nat /\ places[k] \in Nat
    BY <1>0, <1>5
  <2>2. Len(parts[k]) \in Nat \ {0}
    BY <1>b
  <2> QED
    BY <2>1, <2>2
<1>7. q = p + l /\ q <= m /\ k <= q
  <2>1. q = p + l /\ q <= m
    BY <1>0, <1>5, <1>6
  <2>2. k <= q
    BY <1>3, <1>6
  <2> QED
    BY <2>1, <2>2
<1>8. /\ b.src = k /\ b.dst = q
      /\ b.buf = [i \in 1..h |-> IF i <= q THEN grown[i] ELSE final[i]]
  BY <1>a, <1>4, <1>6 DEF AfterTurns
<1>9. /\ c = [buf |-> [i \in 1..h |-> IF i <= p THEN grown[i] ELSE final[i]],
              src |-> k - 1, dst |-> p]
  BY <1>a, <1>5, <1>6 DEF AfterTurns
<1> HIDE DEF b, c, T
<1>10. b.buf[b.src] = data[k] /\ ~(b.dst < 1 \/ b.src < 1)
  <2>1. k \in 1..h /\ k <= q
    BY <1>7, <1>b
  <2> QED
    BY <1>8, <1>b, <2>1
<1>11. DataEscape(b.buf[b.src]) = parts[k]
  BY <1>10, <1>b
<1>12. b.dst - Len(parts[k]) = p
  BY <1>6, <1>7, <1>8
<1>13. EscapeTurn(b) = [buf |-> [i \in 1..h |-> IF i \in (p + 1)..q THEN parts[k][i - p]
                                                                   ELSE b.buf[i]],
                        src |-> k - 1, dst |-> p]
  <2>1. DOMAIN b.buf = 1..h
    BY <1>8
  <2> QED
    BY <1>8, <1>10, <1>11, <1>12, <2>1 DEF EscapeTurn
<1>14. ASSUME NEW i \in 1..h
       PROVE  (IF i \in (p + 1)..q THEN parts[k][i - p] ELSE b.buf[i])
                = IF i <= p THEN grown[i] ELSE final[i]
  <2>1. CASE i \in (p + 1)..q
    <3>1. PICK j \in 1..l : i = p + j /\ j = i - p
      <4>1. i - p \in 1..l /\ i = p + (i - p)
        BY <1>7, <2>1
      <4> QED
        BY <4>1
    <3>2. e[p + j] = parts[k][j]
      BY <1>0, <1>6
    <3>3. i \in 1..m /\ ~(i <= p)
      BY <1>b, <1>7, <2>1
    <3>4. final[i] = e[i]
      BY <1>b, <3>3
    <3> QED
      BY <2>1, <3>1, <3>2, <3>3, <3>4
  <2>2. CASE i <= p
    <3>1. ~(i \in (p + 1)..q) /\ i <= q
      BY <1>7, <2>2
    <3> QED
      BY <1>8, <2>2, <3>1
  <2>3. CASE i > q
    <3>1. ~(i \in (p + 1)..q) /\ ~(i <= q) /\ ~(i <= p)
      BY <1>7, <2>3
    <3> QED
      BY <1>8, <3>1
  <2>4. i <= p \/ i > q \/ i \in (p + 1)..q
    BY <1>7
  <2> QED
    BY <2>1, <2>2, <2>3, <2>4
<1>15. EscapeTurn(b) = c
  BY <1>9, <1>13, <1>14
<1> QED
  BY <1>15 DEF b, c

(* nl_escape_data() writes the codes, and the zero byte if it is wanted.      *)
LEMMA DataWritten ==
  ASSUME NEW C, NEW data \in Seq(C), NEW add_null \in BOOLEAN
  PROVE  nl_escape_data(data, add_null)
           = FlattenSeq(DataCodes(data)) \o (IF add_null THEN <<"00">> ELSE <<>>)
<1> DEFINE D == C \cup DataCharacters \cup {"00"}
           parts == DataCodes(data)
           e == FlattenSeq(parts)
           count == nl_count_data_escapes(data)
           zero == IF add_null THEN <<"00">> ELSE <<>>
           final == e \o zero
           new_size == Len(data) + Len(zero) + count
           grown == [i \in 1..new_size |-> IF i <= Len(data) THEN data[i]
                                           ELSE IF add_null /\ i = new_size THEN "00"
                                           ELSE "unset"]
           begin == [buf |-> grown, src |-> Len(data), dst |-> new_size - Len(zero)]
           After[turns \in 0..Len(data)] ==
             IF turns = 0 THEN begin ELSE EscapeTurn(After[turns - 1])
<1>1. PICK n \in Nat : n = Len(data)
  OBVIOUS
<1>2. /\ e \in Seq(C \cup DataCharacters) /\ count \in Nat /\ Len(e) = n + count
      /\ \A k \in 1..n : parts[k] = DataEscape(data[k]) /\ Len(parts[k]) \in Nat \ {0}
      /\ count = 0 => e = data
  BY <1>1, DataEscaped
<1>3. PICK places : Placed(e, places, parts, n)
  BY <1>1, DataEscaped
<1>4. nl_escape_data(data, add_null) = IF new_size = Len(data) THEN data ELSE After[Len(data)].buf
  BY DEF nl_escape_data
<1> HIDE DEF parts, e, count
<1>5. PICK m \in Nat : m = Len(e)
  BY <1>2
<1>6. e \in Seq(D)
  <2>1. C \cup DataCharacters \subseteq D
    OBVIOUS
  <2> HIDE DEF D
  <2> QED
    BY <1>2, <2>1, SeqMonotonic
<1>7. zero \in Seq(D) /\ Len(zero) = (IF add_null THEN 1 ELSE 0) /\ (add_null => zero[1] = "00")
  <2>1. "00" \in D
    OBVIOUS
  <2> HIDE DEF D
  <2>2. CASE add_null
    <3>1. zero = <<"00">>
      BY <2>2
    <3> HIDE DEF zero
    <3> QED
      BY <2>1, <2>2, <3>1
  <2>3. CASE ~add_null
    <3>1. zero = <<>>
      BY <2>3
    <3> HIDE DEF zero
    <3> QED
      BY <2>3, <3>1, EmptySeq
  <2> QED
    BY <2>2, <2>3
<1> HIDE DEF zero, D
<1>8. PICK z \in Nat : z = Len(zero) /\ z = (IF add_null THEN 1 ELSE 0)
  BY <1>7
<1>9. /\ final \in Seq(D) /\ Len(final) = m + z
      /\ \A i \in 1..(m + z) : final[i] = IF i <= m THEN e[i] ELSE zero[i - m]
  <2>1. /\ final \in Seq(D) /\ Len(final) = Len(e) + Len(zero)
        /\ \A i \in 1..(Len(e) + Len(zero)) :
             final[i] = IF i <= Len(e) THEN e[i] ELSE zero[i - Len(e)]
    BY <1>6, <1>7, ConcatProperties
  <2> HIDE DEF final
  <2> QED
    BY <1>5, <1>8, <2>1
<1> HIDE DEF final
<1>10. PICK h \in Nat : h = m + z
  OBVIOUS
<1>11. new_size = h /\ h - z = m /\ n <= m
  BY <1>1, <1>2, <1>5, <1>8, <1>10
<1>12. /\ grown = [i \in 1..h |-> IF i <= n THEN data[i]
                                 ELSE IF add_null /\ i = h THEN "00" ELSE "unset"]
       /\ begin = [buf |-> grown, src |-> n, dst |-> m]
  <2>1. new_size - Len(zero) = m
    BY <1>8, <1>11
  <2> HIDE DEF new_size
  <2> QED
    BY <1>1, <1>11, <2>1
<1> HIDE DEF new_size, begin
<1>13. \A k \in 1..n : grown[k] = data[k]
  BY <1>11, <1>12
<1>14. ASSUME NEW i \in 1..h, ~(i <= m)
       PROVE  grown[i] = final[i]
  <2>1. z = 1 /\ add_null /\ i = h /\ i - m = 1 /\ ~(i <= n)
    BY <1>8, <1>10, <1>11, <1>14
  <2>2. grown[i] = "00"
    BY <1>12, <2>1
  <2>3. final[i] = zero[1]
    BY <1>9, <1>10, <1>14, <2>1
  <2> QED
    BY <1>7, <2>1, <2>2, <2>3
<1> DEFINE Done(turns) == AfterTurns(grown, final, places, n, turns)
           G == [turns \in 0..n |-> Done(turns)]
<1> HIDE DEF grown
<1>15. Done(0) = begin
  <2>1. n - 0 = n /\ places[n] = m /\ Len(final) = h
    BY <1>3, <1>5, <1>9, <1>10 DEF Placed
  <2>2. ASSUME NEW i \in 1..h
        PROVE  (IF i <= m THEN grown[i] ELSE final[i]) = grown[i]
    BY <1>14
  <2>3. grown = [i \in 1..h |-> grown[i]]
    BY <1>12
  <2>4. grown = [i \in 1..h |-> IF i <= m THEN grown[i] ELSE final[i]]
    BY <2>2, <2>3
  <2>5. Done(0) = [buf |-> [i \in 1..h |-> IF i <= m THEN grown[i] ELSE final[i]],
                   src |-> n, dst |-> m]
    BY <2>1 DEF AfterTurns
  <2> QED
    BY <1>12, <2>4, <2>5
<1>16. ASSUME NEW turns \in Nat, turns < n
       PROVE  EscapeTurn(Done(turns)) = Done(turns + 1)
  <2>1. \A i \in 1..m : final[i] = e[i]
    BY <1>9
  <2>2. h = Len(final) /\ m <= h
    BY <1>9, <1>10
  <2>3. Prepared(grown, final, places, n, data, parts, e)
    BY <1>2, <1>3, <1>5, <1>13, <2>1, <2>2 DEF Prepared
  <2> QED
    BY <1>16, <2>3, EscapeTurnNext
<1> HIDE DEF Done
<1>17. G = [turns \in 0..Len(data) |-> IF turns = 0 THEN begin ELSE EscapeTurn(G[turns - 1])]
  <2>1. ASSUME NEW turns \in 0..n
        PROVE  Done(turns) = IF turns = 0 THEN begin ELSE EscapeTurn(G[turns - 1])
    <3>1. CASE turns = 0
      BY <1>15, <3>1
    <3>2. CASE turns # 0
      <4>0. turns - 1 \in Nat
        BY <3>2
      <4>1. PICK t \in Nat : t = turns - 1
        BY <4>0
      <4>2. t \in 0..n /\ t < n /\ t + 1 = turns
        BY <4>1
      <4>3. G[t] = Done(t)
        BY <4>2
      <4> HIDE DEF G
      <4> QED
        BY <1>16, <3>2, <4>1, <4>2, <4>3
    <3> QED
      BY <3>1, <3>2
  <2> QED
    BY <1>1, <2>1
<1>18. After = [turns \in 0..Len(data) |->
                  IF turns = 0 THEN begin ELSE EscapeTurn(After[turns - 1])]
  <2> HIDE DEF G
  <2> QED
    BY <1>17
<1> HIDE DEF After, G
<1> DEFINE T == {t \in Nat : t <= n => After[t] = Done(t)}
<1>19. 0 \in T
  <2>1. After[0] = begin
    BY <1>1, <1>18
  <2> QED
    BY <1>15, <2>1
<1>20. ASSUME NEW t \in Nat, t \in T
       PROVE  t + 1 \in T
  <2> SUFFICES ASSUME t + 1 <= n
               PROVE  After[t + 1] = Done(t + 1)
    OBVIOUS
  <2>1. t + 1 \in 0..Len(data) /\ t + 1 # 0 /\ (t + 1) - 1 = t /\ t < n
    BY <1>1
  <2>2. After[t + 1] = EscapeTurn(After[t])
    BY <1>18, <2>1
  <2>3. After[t] = Done(t)
    BY <1>20, <2>1
  <2> QED
    BY <1>16, <2>1, <2>2, <2>3
<1>21. Nat \subseteq T
  <2> HIDE DEF T
  <2> QED
    BY <1>19, <1>20, SuccessorInduction
<1>22. After[Len(data)].buf = final
  <2>1. After[n] = Done(n)
    BY <1>21
  <2>2. n - n = 0 /\ places[0] = 0 /\ Len(final) = h
    BY <1>3, <1>9, <1>10 DEF Placed
  <2>3. Done(n).buf = [i \in 1..h |-> IF i <= 0 THEN grown[i] ELSE final[i]]
    BY <2>2 DEF AfterTurns, Done
  <2>4. \A i \in 1..h : (IF i <= 0 THEN grown[i] ELSE final[i]) = final[i]
    OBVIOUS
  <2>5. final = [i \in 1..h |-> final[i]]
    BY <1>9, <2>2
  <2> QED
    BY <1>1, <2>1, <2>3, <2>4, <2>5
<1>23. ASSUME new_size = Len(data)
       PROVE  data = final
  <2>1. z = 0 /\ count = 0
    BY <1>1, <1>2, <1>5, <1>8, <1>10, <1>11, <1>23
  <2>2. zero = <<>>
    BY <1>8, <2>1 DEF zero
  <2>3. e \o <<>> = e
    BY <1>6
  <2> QED
    BY <1>2, <2>1, <2>2, <2>3 DEF final
<1> QED
  BY <1>4, <1>22, <1>23 DEF final, e, parts, zero

(* Any data that was escaped in place, zero bytes and all, is unescaped to    *)
(* what it was; it fills the buffer that was counted out for it, and the zero *)
(* byte is the last of it (escape.c:109, escape.c:179): for data of any       *)
(* length over any characters.                                                *)
THEOREM DataEscapeCorrectness ==
  ASSUME NEW C
  PROVE  \A data \in Seq(C) : DataEscapeReverses(data)
<1> SUFFICES ASSUME NEW data \in Seq(C)
             PROVE  DataEscapeReverses(data)
  OBVIOUS
<1> DEFINE D == C \cup DataCharacters
           parts == DataCodes(data)
           e == FlattenSeq(parts)
           count == nl_count_data_escapes(data)
           plain == nl_unescape_string(e, TRUE, "NO")
           quotes == Dequotes(e, "NO")
<1>1. PICK n \in Nat : n = Len(data)
  OBVIOUS
<1>2. /\ e \in Seq(D) /\ count \in Nat /\ Len(e) = n + count
      /\ \A k \in 1..n : parts[k] = DataEscape(data[k]) /\ Len(parts[k]) \in Nat \ {0}
  BY <1>1, DataEscaped
<1>3. PICK places : Placed(e, places, parts, n)
  BY <1>1, DataEscaped
<1>4. nl_escape_data(data, FALSE) = e
  <2>1. nl_escape_data(data, FALSE) = e \o (IF FALSE THEN <<"00">> ELSE <<>>)
    BY DataWritten
  <2>2. (IF FALSE THEN <<"00">> ELSE <<>>) = <<>>
    OBVIOUS
  <2> HIDE DEF e
  <2>3. e \o <<>> = e
    BY <1>2
  <2> QED
    BY <2>1, <2>2, <2>3
<1>5. nl_escape_data(data, TRUE) = Append(e, "00")
  <2>1. nl_escape_data(data, TRUE) = e \o (IF TRUE THEN <<"00">> ELSE <<>>)
    BY DataWritten
  <2>2. (IF TRUE THEN <<"00">> ELSE <<>>) = <<"00">>
    OBVIOUS
  <2> HIDE DEF e
  <2>3. e \in Seq(D \cup {"00"})
    <3>1. D \subseteq D \cup {"00"}
      OBVIOUS
    <3> HIDE DEF D
    <3> QED
      BY <1>2, <3>1, SeqMonotonic
  <2>4. "00" \in D \cup {"00"}
    OBVIOUS
  <2> HIDE DEF D
  <2>5. e \o <<"00">> = Append(e, "00")
    BY <2>3, <2>4, AppendIsConcat
  <2> QED
    BY <2>1, <2>2, <2>5
<1> HIDE DEF e, count, parts, plain, quotes
<1>6. PICK h \in Nat : h = Len(e)
  BY <1>2
<1>7. PICK zero : zero = TRUE /\ zero
  OBVIOUS
<1>8. Readable(e, n, parts, data, zero, quotes)
  <2>1. ASSUME NEW k \in 1..n, NEW i \in Nat
        PROVE  ReadAs(e, i, parts[k], data[k], zero, quotes)
    <3>1. PICK c : c = data[k]
      OBVIOUS
    <3>2. ReadAs(e, i, DataEscape(c), c, zero, quotes)
      BY <1>7, DataRead
    <3>3. parts[k] = DataEscape(c)
      BY <1>2, <3>1
    <3> QED
      BY <3>1, <3>2, <3>3
  <2> QED
    BY <1>2, <2>1 DEF Readable
<1>9. PICK f : /\ plain = IF quotes THEN Unescaped(<<>>, 1, f[2])
                          ELSE IF "NO" = "IF_QUOTED" THEN [text |-> e, removed |-> 0] ELSE f[1]
               /\ UnescapesFrom(f, e, h, zero, quotes)
  BY <1>2, <1>6, <1>7, UnescapeWalks DEF plain, quotes
<1>10. plain = f[1]
  BY <1>9 DEF Dequotes, quotes
<1>11. PICK at : CodesIn(e, h, zero, quotes, data, n, at) /\ at[0] = 1 /\ at[n] = h + 1
  <2>1. PICK o \in Nat : o = 0
    OBVIOUS
  <2>2. HoldsAt(e, h, o, e)
    BY <1>6, <2>1 DEF HoldsAt
  <2>3. PICK at : CodesIn(e, h, zero, quotes, data, n, at) /\ at[0] = o + 1 /\ at[n] = at[0] + h
    BY <1>3, <1>6, <1>8, <2>2, PartsRead
  <2> QED
    BY <2>1, <2>3
<1>12. f[1].text = data /\ f[1].removed = count
  <2>1. UnescapesFrom(f, e, h, zero, quotes)
    BY <1>9
  <2>2. f[at[n]].text = <<>> /\ f[at[n]].removed = 0
    BY <1>11, <2>1 DEF UnescapesFrom, NothingLeft
  <2>a. CodesIn(e, h, zero, quotes, data, n, at)
    BY <1>11
  <2>b. CodesGive(f, data, n, at)
    BY <1>1, <2>1, <2>a, CodesRead
  <2>3. f[at[0]].text = data /\ f[at[0]].removed = f[at[n]].removed + (at[n] - at[0]) - n
    BY <2>2, <2>b DEF CodesGive
  <2>4. 0 + (h + 1 - 1) - n = count
    BY <1>2, <1>6
  <2> QED
    BY <1>11, <2>2, <2>3, <2>4
<1> QED
  BY <1>4, <1>5, <1>10, <1>12 DEF DataEscapeReverses, plain, count

-----------------------------------------------------------------------------
(* Searching and comparing.                                                  *)

(* The least of a set of natural numbers, ...                                *)
LEMMA LeastOf ==
  ASSUME NEW S, S \subseteq Nat, S # {}
  PROVE  Min(S) \in S /\ \A k \in S : Min(S) <= k
BY SmallestMember DEF Min

(* ... the smaller and the larger of two numbers.                             *)
LEMMA LesserOf ==
  ASSUME NEW a \in Nat, NEW b \in Nat
  PROVE  Min({a, b}) = IF a <= b THEN a ELSE b
<1>1. PICK S : S = {a, b}
  OBVIOUS
<1>2. Min(S) \in S /\ \A k \in S : Min(S) <= k
  <2>1. S \subseteq Nat /\ S # {}
    BY <1>1
  <2> QED
    BY <2>1, LeastOf
<1>3. PICK m : m = Min(S)
  OBVIOUS
<1>4. (m = a \/ m = b) /\ m <= a /\ m <= b
  BY <1>1, <1>2, <1>3
<1>5. m = IF a <= b THEN a ELSE b
  BY <1>4
<1> QED
  BY <1>1, <1>3, <1>5

LEMMA GreaterOf ==
  ASSUME NEW a \in Int, NEW b \in Int
  PROVE  Max({a, b}) = IF a >= b THEN a ELSE b
<1>1. PICK S : S = {a, b}
  OBVIOUS
<1>2. \E x \in S : \A y \in S : x >= y
  BY <1>1
<1>3. Max(S) \in S /\ \A k \in S : Max(S) >= k
  BY <1>2 DEF Max
<1>4. PICK m : m = Max(S)
  OBVIOUS
<1>5. (m = a \/ m = b) /\ m >= a /\ m >= b
  BY <1>1, <1>3, <1>4
<1>6. m = IF a >= b THEN a ELSE b
  BY <1>5
<1> QED
  BY <1>1, <1>4, <1>6

(* What a string begins with and what it ends with.                           *)
LEMMA StartOf ==
  ASSUME NEW C, NEW s \in Seq(C), NEW i \in 0..Len(s)
  PROVE  /\ SubSeq(s, 1, i) \in Seq(C) /\ Len(SubSeq(s, 1, i)) = i
         /\ \A j \in 1..i : SubSeq(s, 1, i)[j] = s[j]
<1>1. \A j \in 1..i : s[j] \in C
  OBVIOUS
<1> QED
  BY <1>1, SubSeqProperties

LEMMA EndOf ==
  ASSUME NEW C, NEW s \in Seq(C), NEW i \in 0..Len(s)
  PROVE  /\ SubSeq(s, i + 1, Len(s)) \in Seq(C) /\ Len(SubSeq(s, i + 1, Len(s))) = Len(s) - i
         /\ \A j \in 1..(Len(s) - i) : SubSeq(s, i + 1, Len(s))[j] = s[i + j]
<1>1. \A j \in (i + 1)..Len(s) : s[j] \in C
  OBVIOUS
<1>2. PICK w : w = SubSeq(s, i + 1, Len(s))
  OBVIOUS
<1>3. /\ w \in Seq(C) /\ Len(w) = IF i + 1 <= Len(s) THEN Len(s) - (i + 1) + 1 ELSE 0
      /\ \A j \in 1..(Len(s) - (i + 1) + 1) : w[j] = s[(i + 1) + j - 1]
  BY <1>1, <1>2, SubSeqProperties
<1>4. Len(w) = Len(s) - i
  BY <1>3
<1>5. ASSUME NEW j \in 1..(Len(s) - i)
      PROVE  w[j] = s[i + j]
  <2>1. j \in 1..(Len(s) - (i + 1) + 1)
    OBVIOUS
  <2>2. w[j] = s[(i + 1) + j - 1]
    BY <1>3, <2>1
  <2>3. (i + 1) + j - 1 = i + j
    OBVIOUS
  <2> QED
    BY <2>2, <2>3
<1> QED
  BY <1>2, <1>3, <1>4, <1>5

(* Two strings go on alike at k.                                             *)
GoesOn(a, b, k) == k < Len(a) /\ k < Len(b) /\ a[k + 1] = b[k + 1]

(* nl_strcommon() ends at the first place where they do not.                  *)
LEMMA CommonStops ==
  ASSUME NEW C, NEW a \in Seq(C), NEW b
  PROVE  /\ nl_strcommon(a, b) \in 0..Len(a)
         /\ ~GoesOn(a, b, nl_strcommon(a, b))
         /\ \A k \in 0..(nl_strcommon(a, b) - 1) : GoesOn(a, b, k)
<1> DEFINE common[n \in 0..Len(a)] ==
             IF n < Len(a) /\ n < Len(b) /\ a[n + 1] = b[n + 1] THEN common[n + 1] ELSE n
           Stops(n) == {k \in n..Len(a) : ~GoesOn(a, b, k)}
           First == [n \in 0..Len(a) |-> Min(Stops(n))]
           Turned(f) == [n \in 0..Len(a) |-> IF GoesOn(a, b, n) THEN f[n + 1] ELSE n]
<1>0. Len(a) \in Nat
  OBVIOUS
<1>1. nl_strcommon(a, b) = common[0]
  BY DEF nl_strcommon
<1>2. common = CHOOSE f : f = Turned(f)
  BY DEF GoesOn
<1> HIDE DEF common
<1>3. ASSUME NEW n \in 0..Len(a)
      PROVE  /\ Min(Stops(n)) \in n..Len(a) /\ ~GoesOn(a, b, Min(Stops(n)))
             /\ \A k \in Stops(n) : Min(Stops(n)) <= k
  <2>1. ~GoesOn(a, b, Len(a))
    BY <1>0 DEF GoesOn
  <2>2. Len(a) \in n..Len(a)
    BY <1>0
  <2>3. Stops(n) \subseteq Nat /\ Stops(n) # {}
    BY <1>0, <2>1, <2>2
  <2>4. Min(Stops(n)) \in Stops(n) /\ \A k \in Stops(n) : Min(Stops(n)) <= k
    <3> HIDE DEF Stops
    <3> QED
      BY <2>3, LeastOf
  <2> QED
    BY <2>4
<1>4. ASSUME NEW n \in 0..Len(a)
      PROVE  Min(Stops(n)) = IF GoesOn(a, b, n) THEN First[n + 1] ELSE n
  <2>1. CASE GoesOn(a, b, n)
    <3>1. n < Len(a)
      BY <2>1 DEF GoesOn
    <3>2. n + 1 \in 0..Len(a)
      BY <1>0, <3>1
    <3>3. \A k \in n..Len(a) : k = n \/ k \in (n + 1)..Len(a)
      BY <1>0
    <3>4. \A k \in (n + 1)..Len(a) : k \in n..Len(a)
      BY <1>0
    <3>5. Stops(n) = Stops(n + 1)
      BY <2>1, <3>3, <3>4
    <3>6. First[n + 1] = Min(Stops(n + 1))
      BY <3>2
    <3> HIDE DEF Stops, First
    <3> QED
      BY <2>1, <3>5, <3>6
  <2>2. CASE ~GoesOn(a, b, n)
    <3>1. n \in n..Len(a)
      BY <1>0
    <3>2. n \in Stops(n)
      BY <2>2, <3>1
    <3>3. Min(Stops(n)) \in n..Len(a) /\ Min(Stops(n)) <= n
      <4> HIDE DEF Stops
      <4> QED
        BY <1>3, <3>2
    <3>4. PICK m : m = Min(Stops(n))
      OBVIOUS
    <3>5. m = n
      BY <1>0, <3>3, <3>4
    <3> QED
      BY <2>2, <3>4, <3>5
  <2> QED
    BY <2>1, <2>2
<1>5. First = Turned(First)
  <2>1. PICK f : f = First
    OBVIOUS
  <2>2. \A n \in 0..Len(a) : Min(Stops(n)) = IF GoesOn(a, b, n) THEN f[n + 1] ELSE n
    <3> HIDE DEF Stops
    <3> QED
      BY <1>4, <2>1
  <2>3. First = Turned(f)
    <3> HIDE DEF Stops
    <3> QED
      BY <2>2
  <2> QED
    BY <2>1, <2>3
<1>6. common = Turned(common)
  <2> HIDE DEF First, Turned
  <2> QED
    BY <1>2, <1>5
<1> HIDE DEF First
<1> DEFINE Right(n) == /\ common[n] \in n..Len(a) /\ ~GoesOn(a, b, common[n])
                       /\ \A k \in n..(common[n] - 1) : GoesOn(a, b, k)
           T == {d \in Nat : \A n \in 0..Len(a) : n + d >= Len(a) => Right(n)}
<1>7. ASSUME NEW n \in 0..Len(a)
      PROVE  common[n] = IF GoesOn(a, b, n) THEN common[n + 1] ELSE n
  <2>1. PICK g : g = common
    OBVIOUS
  <2>2. PICK h : h = Turned(g)
    OBVIOUS
  <2>3. h[n] = IF GoesOn(a, b, n) THEN g[n + 1] ELSE n
    BY <2>2
  <2> QED
    BY <1>6, <2>1, <2>2, <2>3
<1> HIDE DEF Turned
<1>8. ASSUME NEW n \in 0..Len(a), ~GoesOn(a, b, n)
      PROVE  Right(n)
  <2>1. common[n] = n
    BY <1>7, <1>8
  <2>2. n..(n - 1) = {} /\ n \in n..Len(a)
    BY <1>0
  <2> QED
    BY <1>8, <2>1, <2>2
<1>9. ASSUME NEW n \in 0..Len(a), n + 1 \in 0..Len(a), GoesOn(a, b, n), Right(n + 1)
      PROVE  Right(n)
  <2>1. PICK c : c = common[n]
    OBVIOUS
  <2>2. c = common[n + 1]
    BY <1>7, <1>9, <2>1
  <2>3. c \in (n + 1)..Len(a) /\ ~GoesOn(a, b, c) /\ \A k \in (n + 1)..(c - 1) : GoesOn(a, b, k)
    BY <1>9, <2>2
  <2>4. c \in n..Len(a) /\ \A k \in n..(c - 1) : k = n \/ k \in (n + 1)..(c - 1)
    BY <1>0, <2>3
  <2> QED
    BY <1>9, <2>1, <2>3, <2>4
<1>10. 0 \in T
  <2> SUFFICES ASSUME NEW n \in 0..Len(a), n >= Len(a)
               PROVE  Right(n)
    OBVIOUS
  <2>1. ~GoesOn(a, b, n)
    BY <1>0 DEF GoesOn
  <2> HIDE DEF Right
  <2> QED
    BY <1>8, <2>1
<1>11. ASSUME NEW d \in Nat, d \in T
       PROVE  d + 1 \in T
  <2> HIDE DEF Right
  <2> SUFFICES ASSUME NEW n \in 0..Len(a), n + (d + 1) >= Len(a)
               PROVE  Right(n)
    OBVIOUS
  <2>1. CASE GoesOn(a, b, n)
    <3>1. n + 1 \in 0..Len(a) /\ (n + 1) + d >= Len(a)
      BY <1>0, <2>1 DEF GoesOn
    <3>2. Right(n + 1)
      BY <1>11, <3>1
    <3> QED
      BY <1>9, <2>1, <3>1, <3>2
  <2>2. CASE ~GoesOn(a, b, n)
    BY <1>8, <2>2
  <2> QED
    BY <2>1, <2>2
<1>12. Len(a) \in T
  <2> HIDE DEF T
  <2> QED
    BY <1>0, <1>10, <1>11, SuccessorInduction
<1>13. Right(0)
  <2>1. 0 \in 0..Len(a) /\ 0 + Len(a) >= Len(a)
    BY <1>0
  <2> HIDE DEF Right
  <2> QED
    BY <1>12, <2>1
<1> QED
  BY <1>1, <1>13

(* As many characters as they have in common: n is that number.               *)
LEMMA CommonIs ==
  ASSUME NEW C, NEW a \in Seq(C), NEW b \in Seq(C), NEW n \in Nat,
         n <= Len(a), n <= Len(b), \A j \in 1..n : a[j] = b[j],
         n = Len(a) \/ n = Len(b)
  PROVE  nl_strcommon(a, b) = n
<1>1. PICK c : c = nl_strcommon(a, b)
  OBVIOUS
<1>2. c \in 0..Len(a) /\ ~GoesOn(a, b, c) /\ \A k \in 0..(c - 1) : GoesOn(a, b, k)
  BY <1>1, CommonStops
<1>3. ~(c < n)
  <2>1. SUFFICES ASSUME c < n
                 PROVE  FALSE
    OBVIOUS
  <2>2. c + 1 \in 1..n /\ c < Len(a) /\ c < Len(b)
    BY <1>2, <2>1
  <2> QED
    BY <1>2, <2>2 DEF GoesOn
<1>4. ~(n < c)
  <2>1. SUFFICES ASSUME n < c
                 PROVE  FALSE
    OBVIOUS
  <2>2. n \in 0..(c - 1)
    BY <1>2, <2>1
  <2>3. n < Len(a) /\ n < Len(b)
    BY <1>2, <2>2 DEF GoesOn
  <2> QED
    BY <2>3
<1> QED
  BY <1>1, <1>2, <1>3, <1>4

(* A string starts with another one that has all of it in common with it.     *)
LEMMA StartIsCommon ==
  ASSUME NEW C, NEW str \in Seq(C), NEW start \in Seq(C)
  PROVE  nl_strstart(str, start) <=> nl_strcommon(start, str) = Len(start)
<1> DEFINE n == Len(start)
<1>0. n \in Nat /\ Len(str) \in Nat
  OBVIOUS
<1>1. PICK m : m = Min({Len(str), n})
  OBVIOUS
<1>2. m = IF Len(str) <= n THEN Len(str) ELSE n
  BY <1>0, <1>1, LesserOf
<1>3. PICK s : s = SubSeq(str, 1, m)
  OBVIOUS
<1>4. s \in Seq(C) /\ Len(s) = m /\ \A j \in 1..m : s[j] = str[j]
  <2>1. \A j \in 1..m : str[j] \in C
    BY <1>0, <1>2
  <2>2. m \in Nat
    BY <1>0, <1>2
  <2> QED
    BY <1>3, <2>1, <2>2, SubSeqProperties
<1>5. nl_strstart(str, start) <=> s = start
  BY <1>1, <1>3 DEF nl_strstart
<1>6. ASSUME s = start
      PROVE  nl_strcommon(start, str) = n
  <2>1. m = n /\ n <= Len(str)
    BY <1>0, <1>2, <1>4, <1>6
  <2>2. \A j \in 1..n : start[j] = str[j]
    BY <1>4, <1>6, <2>1
  <2> QED
    BY <2>1, <2>2, CommonIs
<1>7. ASSUME nl_strcommon(start, str) = n
      PROVE  s = start
  <2>1. \A k \in 0..(n - 1) : GoesOn(start, str, k)
    BY <1>7, CommonStops
  <2>2. \A k \in 0..(n - 1) : k < Len(str) /\ start[k + 1] = str[k + 1]
    BY <2>1 DEF GoesOn
  <2>3. n <= Len(str)
    <3>1. n # 0 => n - 1 \in 0..(n - 1)
      BY <1>0
    <3>2. n # 0 => n - 1 < Len(str)
      BY <2>2, <3>1
    <3> QED
      BY <1>0, <3>2
  <2>4. m = n
    BY <1>0, <1>2, <2>3
  <2>5. \A j \in 1..n : start[j] = str[j]
    <3>1. \A j \in 1..n : j - 1 \in 0..(n - 1) /\ (j - 1) + 1 = j
      BY <1>0
    <3> QED
      BY <2>2, <3>1
  <2> QED
    BY <1>4, <2>4, <2>5, SeqEqual
<1> QED
  BY <1>5, <1>6, <1>7

(* A string ends with another one if that is a suffix of it.                  *)
LEMMA EndIsSuffix ==
  ASSUME NEW C, NEW str \in Seq(C), NEW end \in Seq(C)
  PROVE  nl_strend(str, end) <=> IsSuffix(end, str)
<1> DEFINE n == Len(end)
           l == Len(str)
           d == l - n
           Same == \A j \in 1..n : str[d + j] = end[j]
<1>0. n \in Nat /\ l \in Nat /\ d \in Int
  OBVIOUS
<1>1. PICK off : off = Max({0, d})
  OBVIOUS
<1>2. off = IF d >= 0 THEN d ELSE 0
  BY <1>0, <1>1, GreaterOf
<1>3. PICK s : s = SubSeq(str, off + 1, l)
  OBVIOUS
<1>4. s \in Seq(C) /\ Len(s) = l - off /\ \A j \in 1..(l - off) : s[j] = str[off + j]
  <2>1. off \in 0..Len(str)
    BY <1>0, <1>2
  <2> QED
    BY <1>3, <2>1, EndOf
<1>5. nl_strend(str, end) <=> s = end
  BY <1>1, <1>3 DEF nl_strend
<1>6. s = end <=> n <= l /\ Same
  <2>1. ASSUME s = end
        PROVE  n <= l /\ Same
    <3>1. n = l - off
      BY <1>4, <2>1
    <3>2. off = d /\ n <= l
      BY <1>0, <1>2, <3>1
    <3> QED
      BY <1>4, <2>1, <3>1, <3>2
  <2>2. ASSUME n <= l, Same
        PROVE  s = end
    <3>1. off = d /\ l - off = n
      BY <1>0, <1>2, <2>2
    <3>2. \A j \in 1..n : s[j] = end[j]
      BY <1>4, <2>2, <3>1
    <3> QED
      BY <1>4, <3>1, <3>2, SeqEqual
  <2> QED
    BY <2>1, <2>2
<1>7. PICK r, q : r = Reverse(end) /\ q = Reverse(str)
  OBVIOUS
<1>8. /\ r \in Seq(C) /\ Len(r) = n /\ \A j \in 1..n : r[j] = end[(n - j) + 1]
      /\ q \in Seq(C) /\ Len(q) = l /\ \A j \in 1..l : q[j] = str[(l - j) + 1]
  <2>1. \A j \in 1..n : end[(n - j) + 1] \in C
    BY <1>0
  <2>2. \A j \in 1..l : str[(l - j) + 1] \in C
    BY <1>0
  <2>3. r = [j \in 1..n |-> end[(n - j) + 1]] /\ q = [j \in 1..l |-> str[(l - j) + 1]]
    BY <1>7 DEF Reverse
  <2> QED
    BY <1>0, <2>1, <2>2, <2>3
<1>9. IsSuffix(end, str) <=> n <= l /\ SubSeq(r, 1, n) = SubSeq(q, 1, n)
  BY <1>7, <1>8 DEF IsSuffix, IsPrefix
<1>10. ASSUME n <= l
       PROVE  SubSeq(r, 1, n) = SubSeq(q, 1, n) <=> Same
  <2>1. PICK x : x = SubSeq(r, 1, n)
    OBVIOUS
  <2>2. PICK y : y = SubSeq(q, 1, n)
    OBVIOUS
  <2>3. x \in Seq(C) /\ Len(x) = n /\ \A j \in 1..n : x[j] = r[j]
    BY <1>0, <1>8, <2>1, SubSeqProperties
  <2>4. y \in Seq(C) /\ Len(y) = n /\ \A j \in 1..n : y[j] = q[j]
    <3>1. \A j \in 1..n : q[j] \in C
      BY <1>0, <1>8, <1>10
    <3> QED
      BY <1>0, <2>2, <3>1, SubSeqProperties
  <2>5. x = y <=> \A j \in 1..n : r[j] = q[j]
    BY <2>3, <2>4, SeqEqual
  <2>6. \A j \in 1..n : j \in 1..l /\ (n - j) + 1 \in 1..n /\ (l - j) + 1 = d + ((n - j) + 1)
    BY <1>0, <1>10
  <2>7. \A j \in 1..n : r[j] = end[(n - j) + 1] /\ q[j] = str[d + ((n - j) + 1)]
    BY <1>8, <2>6
  <2>8. \A j \in 1..n : (n - ((n - j) + 1)) + 1 = j
    BY <1>0
  <2>9. ASSUME \A j \in 1..n : r[j] = q[j], NEW j \in 1..n
        PROVE  str[d + j] = end[j]
    <3>1. PICK k \in 1..n : k = (n - j) + 1
      BY <2>6
    <3>2. (n - k) + 1 = j
      BY <1>0, <3>1
    <3> QED
      BY <2>7, <2>9, <3>2
  <2>10. Same => \A j \in 1..n : r[j] = q[j]
    BY <2>6, <2>7
  <2> QED
    BY <2>1, <2>2, <2>5, <2>9, <2>10
<1> QED
  BY <1>5, <1>6, <1>9, <1>10

(* Counting is additive.                                                     *)
LEMMA CountsAdd ==
  ASSUME NEW C, NEW s \in Seq(C), NEW i \in 0..Len(s), NEW c
  PROVE  nl_strcount(SubSeq(s, 1, i), c) + nl_strcount(SubSeq(s, i + 1, Len(s)), c)
           = nl_strcount(s, c)
<1> DEFINE n == Len(s)
           A == {j \in 1..i : s[j] = c}
           B == {j \in (i + 1)..n : s[j] = c}
           D == {j \in 1..(n - i) : s[i + j] = c}
<1>0. n \in Nat /\ i \in Nat /\ i <= n
  OBVIOUS
<1>1. nl_strcount(SubSeq(s, 1, i), c) = Cardinality(A)
  <2>1. PICK w : w = SubSeq(s, 1, i)
    OBVIOUS
  <2>3. w \in Seq(C) /\ Len(w) = i /\ \A j \in 1..i : w[j] = s[j]
    BY <2>1, StartOf
  <2>4. {j \in DOMAIN w : w[j] = c} = A
    BY <2>3
  <2> QED
    BY <2>1, <2>4 DEF nl_strcount
<1>2. nl_strcount(SubSeq(s, i + 1, n), c) = Cardinality(D)
  <2>1. PICK w : w = SubSeq(s, i + 1, n)
    OBVIOUS
  <2>5. w \in Seq(C) /\ Len(w) = n - i /\ \A j \in 1..(n - i) : w[j] = s[i + j]
    BY <2>1, EndOf
  <2>6. {j \in DOMAIN w : w[j] = c} = D
    BY <2>5
  <2> QED
    BY <2>1, <2>6 DEF nl_strcount
<1>3. nl_strcount(s, c) = Cardinality(A \cup B)
  <2>1. \A j \in 1..n : j \in 1..i \/ j \in (i + 1)..n
    BY <1>0
  <2>2. \A j : j \in 1..i \/ j \in (i + 1)..n => j \in 1..n
    BY <1>0
  <2>3. DOMAIN s = 1..n
    OBVIOUS
  <2>4. {j \in DOMAIN s : s[j] = c} = A \cup B
    BY <2>1, <2>2, <2>3
  <2> QED
    BY <2>4 DEF nl_strcount
<1>4. IsFiniteSet(A) /\ IsFiniteSet(B) /\ IsFiniteSet(D)
  <2>1. IsFiniteSet(1..i) /\ IsFiniteSet((i + 1)..n) /\ IsFiniteSet(1..(n - i))
    BY <1>0, FS_Interval
  <2>2. A \in SUBSET (1..i) /\ B \in SUBSET ((i + 1)..n) /\ D \in SUBSET (1..(n - i))
    OBVIOUS
  <2> HIDE DEF A, B, D
  <2> QED
    BY <2>1, <2>2, FS_Subset
<1>5. A \cap B = {}
  BY <1>0
<1>6. Cardinality(D) = Cardinality(B)
  <2> DEFINE f == [j \in D |-> i + j]
  <2>1. f \in [D -> B]
    BY <1>0
  <2>2. \A j, k \in D : f[j] = f[k] => j = k
    BY <1>0
  <2>3. ASSUME NEW k \in B
        PROVE  \E j \in D : f[j] = k
    <3>1. k - i \in 1..(n - i) /\ i + (k - i) = k
      BY <1>0
    <3>2. k - i \in D
      BY <3>1
    <3> QED
      BY <3>1, <3>2
  <2> HIDE DEF f, D, B
  <2>4. f \in Bijection(D, B)
    BY <2>1, <2>2, <2>3 DEF Bijection, Injection, Surjection, IsInjective
  <2>5. ExistsBijection(D, B)
    BY <2>4 DEF ExistsBijection
  <2> QED
    BY <1>4, <2>5, FS_Bijection
<1> HIDE DEF A, B, D
<1>7. Cardinality(A \cup B) = Cardinality(A) + Cardinality(B) - Cardinality({})
  BY <1>4, <1>5, FS_Union
<1>8. Cardinality({}) = 0 /\ Cardinality(A) \in Nat /\ Cardinality(B) \in Nat
  BY <1>4, FS_EmptySet, FS_CardinalityType
<1> QED
  BY <1>1, <1>2, <1>3, <1>6, <1>7, <1>8

(* A character is found in the first i ones if there is one to count.         *)
LEMMA FoundIsCounted ==
  ASSUME NEW C, NEW s \in Seq(C), NEW i \in 0..Len(s), NEW c
  PROVE  nl_strnpbrk(s, {c}, i) = 0 <=> nl_strcount(SubSeq(s, 1, i), c) = 0
<1> DEFINE found == {j \in DOMAIN s : j <= i /\ s[j] \in {c}}
           A == {j \in 1..i : s[j] = c}
<1>1. found = A
  OBVIOUS
<1>2. nl_strcount(SubSeq(s, 1, i), c) = Cardinality(A)
  <2>1. PICK w : w = SubSeq(s, 1, i)
    OBVIOUS
  <2>3. w \in Seq(C) /\ Len(w) = i /\ \A j \in 1..i : w[j] = s[j]
    BY <2>1, StartOf
  <2>4. {j \in DOMAIN w : w[j] = c} = A
    BY <2>3
  <2> QED
    BY <2>1, <2>4 DEF nl_strcount
<1>3. Cardinality(A) = 0 <=> A = {}
  <2>1. IsFiniteSet(1..i)
    BY FS_Interval
  <2>2. A \in SUBSET (1..i)
    OBVIOUS
  <2> HIDE DEF A
  <2> QED
    BY <2>1, <2>2, FS_Subset, FS_EmptySet
<1>4. nl_strnpbrk(s, {c}, i) = IF A = {} THEN 0 ELSE Min(A)
  BY <1>1 DEF nl_strnpbrk
<1>5. A # {} => Min(A) # 0
  <2>1. A \subseteq Nat /\ 0 \notin A
    OBVIOUS
  <2> HIDE DEF A
  <2> QED
    BY <2>1, LeastOf
<1> QED
  BY <1>2, <1>3, <1>4, <1>5

(* The searches agree on any two parts of any text (str.c:81).                *)
THEOREM SearchCorrectness ==
  ASSUME NEW C
  PROVE  \A s \in Seq(C) : SearchesAgree(s)
<1> SUFFICES ASSUME NEW s \in Seq(C), NEW i \in 0..Len(s)
             PROVE  LET start == SubSeq(s, 1, i)  end == SubSeq(s, i + 1, Len(s)) IN
                    /\ nl_strstart(s, start) /\ nl_strend(s, end)
                    /\ nl_strcommon(s, start) = i
                    /\ nl_strstart(end, start) <=> nl_strcommon(start, end) = i
                    /\ nl_strend(start, end) <=> IsSuffix(end, start)
                    /\ \A c \in ToSet(s) :
                         nl_strcount(start, c) + nl_strcount(end, c) = nl_strcount(s, c)
                    /\ \A c \in ToSet(s) :
                         nl_strnpbrk(s, {c}, i) = 0 <=> nl_strcount(start, c) = 0
  BY DEF SearchesAgree
<1>1. PICK start : start = SubSeq(s, 1, i)
  OBVIOUS
<1>2. PICK end : end = SubSeq(s, i + 1, Len(s))
  OBVIOUS
<1>3. start \in Seq(C) /\ Len(start) = i /\ \A j \in 1..i : start[j] = s[j]
  BY <1>1, StartOf
<1>4. end \in Seq(C) /\ Len(end) = Len(s) - i
  BY <1>2, EndOf
<1>5. nl_strcommon(s, start) = i /\ nl_strcommon(start, s) = i
  <2>1. i \in Nat /\ i <= Len(s) /\ i <= Len(start)
    BY <1>3
  <2> QED
    BY <1>3, <2>1, CommonIs
<1>6. nl_strstart(s, start)
  BY <1>3, <1>5, StartIsCommon
<1>7. nl_strend(s, end)
  <2>1. PICK off : off = Max({0, Len(s) - Len(end)})
    OBVIOUS
  <2>2. off = IF Len(s) - Len(end) >= 0 THEN Len(s) - Len(end) ELSE 0
    <3>1. Len(s) - Len(end) \in Int /\ 0 \in Int
      BY <1>4
    <3>2. PICK x \in Int : x = Len(s) - Len(end)
      BY <3>1
    <3>3. Max({x, 0}) = IF x >= 0 THEN x ELSE 0
      BY <3>1, GreaterOf
    <3>4. {x, 0} = {0, x}
      OBVIOUS
    <3> QED
      BY <2>1, <3>2, <3>3, <3>4
  <2>3. off = i
    BY <1>4, <2>2
  <2> QED
    BY <1>2, <2>1, <2>3 DEF nl_strend
<1>8. nl_strstart(end, start) <=> nl_strcommon(start, end) = i
  BY <1>3, <1>4, StartIsCommon
<1>9. nl_strend(start, end) <=> IsSuffix(end, start)
  BY <1>3, <1>4, EndIsSuffix
<1>10. \A c : nl_strcount(start, c) + nl_strcount(end, c) = nl_strcount(s, c)
  BY <1>1, <1>2, CountsAdd
<1>11. \A c : nl_strnpbrk(s, {c}, i) = 0 <=> nl_strcount(start, c) = 0
  BY <1>1, FoundIsCounted
<1> QED
  BY <1>1, <1>2, <1>5, <1>6, <1>7, <1>8, <1>9, <1>10, <1>11

-----------------------------------------------------------------------------
(* One turn of a loop over a text, of which there are three: the one over the *)
(* characters of pairs, over line ends and over those of a MAC address.       *)
Turn(loop, data, x, i) ==
  IF loop = "kvp" THEN KvpTurn(x, data, i)
  ELSE IF loop = "lines" THEN LineTurn(x, i) ELSE MacTurn(x, data[i])

(* What the loop has after each turn is a function, for a text of any length. *)
Loops(f, loop, data, begin, n) ==
  f = [i \in 0..n |-> IF i = 0 THEN begin ELSE Turn(loop, data, f[i - 1], i)]

LEMMA LoopExists ==
  ASSUME NEW loop, NEW data, NEW begin, NEW n \in Nat
  PROVE  \E f : Loops(f, loop, data, begin, n)
<1> DEFINE Some(k) ==
             \E f : f = [i \in 0..k |-> IF i = 0 THEN begin ELSE Turn(loop, data, f[i - 1], i)]
           T == {k \in Nat : Some(k)}
<1>1. 0 \in T
  <2> DEFINE f == [i \in 0..0 |-> begin]
  <2>1. f = [i \in 0..0 |-> IF i = 0 THEN begin ELSE Turn(loop, data, f[i - 1], i)]
    OBVIOUS
  <2> HIDE DEF f
  <2> QED
    BY <2>1
<1>2. ASSUME NEW k \in Nat, k \in T
      PROVE  k + 1 \in T
  <2>1. PICK f : f = [i \in 0..k |-> IF i = 0 THEN begin ELSE Turn(loop, data, f[i - 1], i)]
    BY <1>2
  <2> DEFINE last == Turn(loop, data, f[k], k + 1)
             g == [i \in 0..(k + 1) |-> IF i = k + 1 THEN last ELSE f[i]]
  <2>2. ASSUME NEW i \in 0..(k + 1)
        PROVE  g[i] = IF i = 0 THEN begin ELSE Turn(loop, data, g[i - 1], i)
    <3>1. CASE i = 0
      <4>1. 0 # k + 1 /\ 0 \in 0..k
        OBVIOUS
      <4>2. g[0] = f[0]
        BY <4>1
      <4>3. f[0] = begin
        BY <2>1, <4>1
      <4> HIDE DEF g
      <4> QED
        BY <3>1, <4>2, <4>3
    <3>2. CASE i = k + 1
      <4>1. k \in 0..(k + 1) /\ k # k + 1 /\ k + 1 # 0 /\ (k + 1) - 1 = k /\ k + 1 \in 0..(k + 1)
        OBVIOUS
      <4>2. g[k + 1] = last /\ g[k] = f[k]
        BY <4>1
      <4> HIDE DEF g
      <4> QED
        BY <3>2, <4>1, <4>2
    <3>3. CASE i # 0 /\ i # k + 1
      <4>1. i \in 0..k /\ i - 1 \in 0..k /\ i - 1 # k + 1 /\ i - 1 \in 0..(k + 1)
        BY <3>3
      <4>2. g[i] = f[i] /\ g[i - 1] = f[i - 1]
        BY <3>3, <4>1
      <4> HIDE DEF g
      <4>3. f[i] = Turn(loop, data, f[i - 1], i)
        BY <2>1, <3>3, <4>1
      <4> QED
        BY <3>3, <4>2, <4>3
    <3> QED
      BY <3>1, <3>2, <3>3
  <2>3. g = [i \in 0..(k + 1) |-> g[i]]
    OBVIOUS
  <2> HIDE DEF g
  <2>4. g = [i \in 0..(k + 1) |-> IF i = 0 THEN begin ELSE Turn(loop, data, g[i - 1], i)]
    BY <2>2, <2>3
  <2> QED
    BY <2>4
<1>3. n \in T
  <2> HIDE DEF T
  <2> QED
    BY <1>1, <1>2, SuccessorInduction
<1> QED
  BY <1>3 DEF Loops

-----------------------------------------------------------------------------
(* Lines.                                                                    *)
LineBegin(data, stop) ==
  [data |-> data, stop |-> stop, lines |-> <<>>, count |-> 0,
   start |-> 1, skip |-> 1, stopped |-> FALSE]

(* The end of the text ends a line if there is something in it.               *)
AtLast(l, n) == IF ~l.stopped /\ l.start <= n THEN Split(l, n + 1) ELSE l

(* nl_split_lines() is such a function's way through the text.                *)
LEMMA SplitterSplits ==
  ASSUME NEW C, NEW data \in Seq(C), NEW stop
  PROVE  \E f : /\ f[0] = LineBegin(data, stop)
                /\ \A i \in 1..Len(data) : f[i] = LineTurn(f[i - 1], i)
                /\ nl_split_lines(data, stop) = AtLast(f[Len(data)], Len(data))
<1> DEFINE After[off \in 0..Len(data)] ==
             IF off = 0 THEN LineBegin(data, stop) ELSE LineTurn(After[off - 1], off)
<1>1. nl_split_lines(data, stop) = AtLast(After[Len(data)], Len(data))
  BY DEF nl_split_lines, AtLast, LineBegin
<1>2. After = [off \in 0..Len(data) |->
                 IF off = 0 THEN LineBegin(data, stop) ELSE LineTurn(After[off - 1], off)]
  <2>1. PICK loop : loop = "lines"
    OBVIOUS
  <2>2. PICK begin : begin = LineBegin(data, stop)
    OBVIOUS
  <2>3. PICK n \in Nat : n = Len(data)
    OBVIOUS
  <2>4. \A x, i : Turn(loop, data, x, i) = LineTurn(x, i)
    BY <2>1 DEF Turn
  <2>5. PICK f : Loops(f, loop, data, begin, n)
    BY LoopExists
  <2>6. f = [i \in 0..n |-> IF i = 0 THEN begin ELSE LineTurn(f[i - 1], i)]
    BY <2>4, <2>5 DEF Loops
  <2> QED
    BY <2>2, <2>3, <2>6
<1> HIDE DEF After
<1>3. After[0] = LineBegin(data, stop)
  <2>1. 0 \in 0..Len(data)
    OBVIOUS
  <2> QED
    BY <1>2, <2>1
<1>4. ASSUME NEW i \in 1..Len(data)
      PROVE  After[i] = LineTurn(After[i - 1], i)
  <2>1. i \in 0..Len(data) /\ i # 0
    OBVIOUS
  <2> QED
    BY <1>2, <2>1
<1> QED
  BY <1>1, <1>3, <1>4

(* The fields of the loop's locals.                                          *)
LineShape(l) ==
  l = [data |-> l.data, stop |-> l.stop, lines |-> l.lines, count |-> l.count,
       start |-> l.start, skip |-> l.skip, stopped |-> l.stopped]

IsSplit(s, l, off) ==
  /\ LineShape(s) /\ s.data = l.data /\ s.stop = l.stop
  /\ s.lines = Append(l.lines, SubSeq(l.data, l.start, off - 1))
  /\ s.count = l.count + 1
  /\ (s.stopped <=> Len(l.lines) + 1 = l.stop)

LEMMA SplitFields ==
  ASSUME NEW l, LineShape(l), NEW off
  PROVE  IsSplit(Split(l, off), l, off)
<1>1. PICK s : s = Split(l, off)
  OBVIOUS
<1>2. /\ LineShape(s) /\ s.data = l.data /\ s.stop = l.stop
      /\ s.lines = Append(l.lines, SubSeq(l.data, l.start, off - 1))
      /\ s.count = l.count + 1
      /\ (s.stopped <=> Len(l.lines) + 1 = l.stop)
  BY <1>1 DEF LineShape, Split
<1> QED
  BY <1>1, <1>2 DEF IsSplit

IsMoved(s, l, next) ==
  /\ LineShape(s) /\ s.data = l.data /\ s.stop = l.stop /\ s.lines = l.lines
  /\ s.count = l.count /\ s.start = next /\ s.skip = next
  /\ (s.stopped <=> l.stopped)

LEMMA StartFields ==
  ASSUME NEW l, LineShape(l), NEW next
  PROVE  IsMoved([l EXCEPT !.start = next, !.skip = next], l, next)
<1>1. PICK s : s = [l EXCEPT !.start = next, !.skip = next]
  OBVIOUS
<1>2. /\ LineShape(s) /\ s.data = l.data /\ s.stop = l.stop /\ s.lines = l.lines
      /\ s.count = l.count /\ s.start = next /\ s.skip = next
      /\ (s.stopped <=> l.stopped)
  BY <1>1 DEF LineShape
<1> QED
  BY <1>1, <1>2 DEF IsMoved

(* The line ends of a text, those up to a place, and the k-th of them.        *)
Ends(data) == {e \in 1..(Len(data) + 1) : LineEnd(data, e)}
Upto(data, off) == {e \in Ends(data) : e <= off}
NthEnd(data, k) == CHOOSE e \in Ends(data) : Cardinality(Upto(data, e)) = k

LEMMA LinesAre ==
  ASSUME NEW data
  PROVE  LinesOf(data) = [k \in 1..Cardinality(Ends(data)) |-> LineBefore(data, NthEnd(data, k))]
BY DEF LinesOf, Ends, Upto, NthEnd

LEMMA UptoFinite ==
  ASSUME NEW C, NEW data \in Seq(C), NEW off
  PROVE  /\ IsFiniteSet(Upto(data, off)) /\ Cardinality(Upto(data, off)) \in Nat
         /\ IsFiniteSet(Ends(data)) /\ Cardinality(Ends(data)) \in Nat
         /\ Cardinality(Upto(data, off)) <= Cardinality(Ends(data))
<1>1. IsFiniteSet(1..(Len(data) + 1))
  BY FS_Interval
<1>2. Ends(data) \in SUBSET (1..(Len(data) + 1)) /\ Upto(data, off) \in SUBSET Ends(data)
  BY DEF Ends, Upto
<1>3. IsFiniteSet(Ends(data))
  BY <1>1, <1>2, FS_Subset
<1>4. IsFiniteSet(Upto(data, off)) /\ Cardinality(Upto(data, off)) <= Cardinality(Ends(data))
  BY <1>2, <1>3, FS_Subset
<1> QED
  BY <1>3, <1>4, FS_CardinalityType

(* Each line end has a number of its own, ...                                 *)
LEMMA EndRank ==
  ASSUME NEW C, NEW data \in Seq(C), NEW e \in Ends(data), NEW k,
         k = Cardinality(Upto(data, e))
  PROVE  NthEnd(data, k) = e
<1>1. ASSUME NEW d \in Ends(data), NEW c \in Ends(data), d < c,
             Cardinality(Upto(data, d)) = Cardinality(Upto(data, c))
      PROVE  FALSE
  <2>1. d \in Nat /\ c \in Nat
    BY DEF Ends
  <2>2. Upto(data, d) \in SUBSET Upto(data, c) /\ c \in Upto(data, c) /\ c \notin Upto(data, d)
    <3>1. \A x \in Ends(data) : x \in Nat
      BY DEF Ends
    <3>2. \A x \in Ends(data) : x <= d => x <= c
      BY <1>1, <2>1, <3>1
    <3>3. Upto(data, d) \in SUBSET Upto(data, c)
      BY <3>2 DEF Upto
    <3>4. c \in Upto(data, c)
      BY <2>1 DEF Upto
    <3>5. c \notin Upto(data, d)
      BY <1>1, <2>1 DEF Upto
    <3> QED
      BY <3>3, <3>4, <3>5
  <2>3. IsFiniteSet(Upto(data, c))
    BY UptoFinite
  <2>4. Upto(data, c) = Upto(data, d)
    BY <1>1, <2>2, <2>3, FS_Subset
  <2> QED
    BY <2>2, <2>4
<1>2. \A x \in Ends(data) : x \in Nat
  BY DEF Ends
<1>3. \A x \in Ends(data) : Cardinality(Upto(data, x)) = k => x = e
  <2> SUFFICES ASSUME NEW x \in Ends(data), Cardinality(Upto(data, x)) = k
               PROVE  x = e
    OBVIOUS
  <2>1. x < e \/ e < x \/ x = e
    BY <1>2
  <2> QED
    BY <1>1, <2>1
<1> QED
  BY <1>3 DEF NthEnd

(* ... which is one more than that of the one before.                         *)
LEMMA UptoNext ==
  ASSUME NEW C, NEW data \in Seq(C), NEW off \in 1..(Len(data) + 1)
  PROVE  IF off \in Ends(data)
         THEN Cardinality(Upto(data, off)) = Cardinality(Upto(data, off - 1)) + 1
         ELSE Upto(data, off) = Upto(data, off - 1)
<1>1. \A e \in Ends(data) : e \in Nat
  BY DEF Ends
<1>2. \A e \in Ends(data) : e <= off <=> e <= off - 1 \/ e = off
  BY <1>1
<1>3. ~(off <= off - 1)
  OBVIOUS
<1>4. CASE off \in Ends(data)
  <2>1. Upto(data, off) = Upto(data, off - 1) \cup {off}
    BY <1>2, <1>4 DEF Upto
  <2>2. off \notin Upto(data, off - 1)
    BY <1>3 DEF Upto
  <2>3. IsFiniteSet(Upto(data, off - 1))
    BY UptoFinite
  <2>4. Cardinality(Upto(data, off - 1) \cup {off}) = Cardinality(Upto(data, off - 1)) + 1
    BY <2>2, <2>3, FS_AddElement
  <2> QED
    BY <1>4, <2>1, <2>4
<1>5. CASE off \notin Ends(data)
  BY <1>2, <1>5 DEF Upto
<1> QED
  BY <1>4, <1>5

(* The last break before a place.                                            *)
LastBreak(data, e) == Max({0} \cup {i \in 1..(e - 1) : IsBreak(data[i])})

LEMMA GreatestOf ==
  ASSUME NEW n \in Nat, NEW S, S \subseteq 0..n, S # {}
  PROVE  Max(S) \in S /\ \A k \in S : Max(S) >= k
<1> DEFINE D == {n - x : x \in S}
<1>1. D \subseteq Nat /\ D # {}
  <2>1. \A x \in S : n - x \in Nat
    OBVIOUS
  <2>2. PICK x \in S : TRUE
    OBVIOUS
  <2>3. n - x \in D
    OBVIOUS
  <2> QED
    BY <2>1, <2>3
<1>2. PICK d \in D : \A k \in D : d <= k
  <2> HIDE DEF D
  <2> QED
    BY <1>1, SmallestMember
<1>3. PICK x \in S : d = n - x
  BY <1>2
<1>4. \A y \in S : x >= y
  <2> SUFFICES ASSUME NEW y \in S
               PROVE  x >= y
    OBVIOUS
  <2>1. n - y \in D
    OBVIOUS
  <2>2. n - x <= n - y /\ x \in Nat /\ y \in Nat
    BY <1>2, <1>3, <2>1
  <2> QED
    BY <2>2
<1> QED
  BY <1>4 DEF Max

LEMMA LastBreakIs ==
  ASSUME NEW data, NEW e \in Nat \ {0}
  PROVE  /\ LastBreak(data, e) \in 0..(e - 1)
         /\ LastBreak(data, e) # 0 => IsBreak(data[LastBreak(data, e)])
         /\ \A i \in 1..(e - 1) : IsBreak(data[i]) => i <= LastBreak(data, e)
<1>1. PICK S : S = {0} \cup {i \in 1..(e - 1) : IsBreak(data[i])}
  OBVIOUS
<1>2. S \subseteq 0..(e - 1) /\ S # {} /\ e - 1 \in Nat
  BY <1>1
<1>3. Max(S) \in S /\ \A k \in S : Max(S) >= k
  BY <1>2, GreatestOf
<1>4. PICK m : m = Max(S)
  OBVIOUS
<1>5. LastBreak(data, e) = m
  BY <1>1, <1>4 DEF LastBreak
<1>6. m \in 0..(e - 1) /\ (m # 0 => IsBreak(data[m]))
  BY <1>1, <1>2, <1>3, <1>4
<1>7. ASSUME NEW i \in 1..(e - 1), IsBreak(data[i])
      PROVE  i <= m
  <2>1. i \in S
    BY <1>1, <1>7
  <2>2. m >= i
    BY <1>3, <1>4, <2>1
  <2> QED
    BY <1>6, <2>2
<1> QED
  BY <1>5, <1>6, <1>7

LEMMA LastBreakNext ==
  ASSUME NEW data, NEW off \in Nat \ {0}
  PROVE  LastBreak(data, off + 1) = IF IsBreak(data[off]) THEN off ELSE LastBreak(data, off)
<1>1. PICK a : a = LastBreak(data, off)
  OBVIOUS
<1>2. PICK b : b = LastBreak(data, off + 1)
  OBVIOUS
<1>3. /\ a \in 0..(off - 1) /\ (a # 0 => IsBreak(data[a]))
      /\ \A i \in 1..(off - 1) : IsBreak(data[i]) => i <= a
  BY <1>1, LastBreakIs
<1>4. off + 1 \in Nat \ {0} /\ (off + 1) - 1 = off
  OBVIOUS
<1>5. /\ b \in 0..off /\ (b # 0 => IsBreak(data[b]))
      /\ \A i \in 1..off : IsBreak(data[i]) => i <= b
  BY <1>2, <1>4, LastBreakIs
<1>6. CASE IsBreak(data[off])
  <2>1. off \in 1..off
    OBVIOUS
  <2>2. off <= b
    BY <1>5, <1>6, <2>1
  <2> QED
    BY <1>2, <1>5, <1>6, <2>2
<1>7. CASE ~IsBreak(data[off])
  <2>1. b # off
    BY <1>5, <1>7
  <2>2. b \in 0..(off - 1)
    BY <1>5, <2>1
  <2>3. b <= a
    BY <1>3, <1>5, <2>2
  <2>4. a <= b
    <3>1. a # 0 => a \in 1..off
      BY <1>3
    <3> QED
      BY <1>3, <1>5, <3>1
  <2>5. a = b
    BY <1>3, <1>5, <2>3, <2>4
  <2> QED
    BY <1>1, <1>2, <1>7, <2>5
<1> QED
  BY <1>6, <1>7

(* Where the line begins that comes after off.                                *)
EndsTwice(data, off) == off \in 1..(Len(data) - 1) /\ data[off] = "cr" /\ data[off + 1] = "nl"
StartAt(data, off) == IF EndsTwice(data, off) THEN off + 2 ELSE LastBreak(data, off + 1) + 1

(* What a callback may be given.                                              *)
Givens(data) == {LineBefore(data, NthEnd(data, k)) : k \in Nat}

(* The lines given so far are the first ones of the text, and the loop looks  *)
(* for the end of the next one.                                              *)
LinesAt(data, stop, off, l) ==
  /\ LineShape(l) /\ l.data = data /\ l.stop = stop
  /\ l.lines \in Seq(Givens(data))
  /\ l.count = Len(l.lines)
  /\ \A j \in 1..Len(l.lines) : l.lines[j] = LineBefore(data, NthEnd(data, j))
  /\ l.stopped => stop \in 1..Cardinality(Ends(data)) /\ Len(l.lines) = stop
  /\ ~l.stopped => /\ Len(l.lines) = Cardinality(Upto(data, off)) /\ stop \notin 1..Len(l.lines)
                   /\ l.start = StartAt(data, off) /\ l.skip = l.start

LEMMA LinesBegin ==
  ASSUME NEW C, NEW data \in Seq(C), NEW stop \in Nat
  PROVE  LinesAt(data, stop, 0, LineBegin(data, stop))
<1>0. PICK l : l = LineBegin(data, stop)
  OBVIOUS
<1>1. LineShape(l) /\ l.data = data /\ l.stop = stop /\ l.lines = <<>> /\ l.count = 0
      /\ l.start = 1 /\ l.skip = 1 /\ ~l.stopped
  BY <1>0 DEF LineBegin, LineShape
<1>2. Upto(data, 0) = {}
  <2>1. \A e \in Ends(data) : e \in Nat \ {0}
    BY DEF Ends
  <2> QED
    BY <2>1 DEF Upto
<1>3. Cardinality(Upto(data, 0)) = 0
  BY <1>2, FS_EmptySet
<1>4. StartAt(data, 0) = 1
  <2>1. ~EndsTwice(data, 0)
    BY DEF EndsTwice
  <2>2. LastBreak(data, 0 + 1) = 0
    <3>1. PICK e : e = 0 + 1
      OBVIOUS
    <3>2. e \in Nat \ {0} /\ e - 1 = 0
      BY <3>1
    <3>3. LastBreak(data, e) \in 0..(e - 1)
      BY <3>2, LastBreakIs
    <3> QED
      BY <3>1, <3>2, <3>3
  <2> QED
    BY <2>1, <2>2 DEF StartAt
<1>5. Len(l.lines) = 0 /\ l.lines \in Seq(Givens(data))
  BY <1>1, EmptySeq
<1>6. \A j : j \notin 1..Len(l.lines)
  BY <1>5
<1> QED
  BY <1>0, <1>1, <1>3, <1>4, <1>5, <1>6 DEF LinesAt

(* A line that is split off is the next one.                                  *)
LEMMA NextSplit ==
  ASSUME NEW C, NEW data \in Seq(C), NEW stop \in Nat, NEW off \in 1..(Len(data) + 1),
         off \in Ends(data), NEW l, LinesAt(data, stop, off - 1, l), ~l.stopped,
         l.start = LastBreak(data, off) + 1, NEW s, s = Split(l, off)
  PROVE  /\ LineShape(s) /\ s.data = data /\ s.stop = stop
         /\ s.lines \in Seq(Givens(data))
         /\ Len(s.lines) = Cardinality(Upto(data, off)) /\ s.count = Len(s.lines)
         /\ \A j \in 1..Len(s.lines) : s.lines[j] = LineBefore(data, NthEnd(data, j))
         /\ s.stopped => stop \in 1..Cardinality(Ends(data)) /\ Len(s.lines) = stop
         /\ ~s.stopped => stop \notin 1..Len(s.lines)
<1> DEFINE X == Givens(data)
           n == Len(l.lines)
           line == SubSeq(l.data, l.start, off - 1)
<1>1. /\ LineShape(l) /\ l.data = data /\ l.stop = stop /\ l.lines \in Seq(X)
      /\ l.count = n /\ stop \notin 1..n
      /\ n = Cardinality(Upto(data, off - 1))
      /\ \A j \in 1..n : l.lines[j] = LineBefore(data, NthEnd(data, j))
  BY DEF LinesAt
<1>2. /\ LineShape(s) /\ s.data = data /\ s.stop = stop
      /\ s.lines = Append(l.lines, line) /\ s.count = n + 1
      /\ (s.stopped <=> n + 1 = stop)
  <2> HIDE DEF X
  <2>1. IsSplit(s, l, off)
    <3>1. LineShape(l)
      BY <1>1
    <3> QED
      BY <3>1, SplitFields
  <2> QED
    BY <1>1, <2>1 DEF IsSplit
<1>3. n \in Nat
  BY <1>1
<1>4. Cardinality(Upto(data, off)) = n + 1
  BY <1>1, UptoNext
<1>5. line = LineBefore(data, off)
  BY <1>1 DEF LineBefore, LastBreak
<1>6. NthEnd(data, n + 1) = off
  BY <1>4, EndRank
<1>7. line = LineBefore(data, NthEnd(data, n + 1)) /\ line \in X
  <2>1. PICK m \in Nat : m = n + 1
    BY <1>3
  <2>2. line = LineBefore(data, NthEnd(data, m))
    BY <1>5, <1>6, <2>1
  <2>3. LineBefore(data, NthEnd(data, m)) \in X
    BY DEF Givens
  <2> QED
    BY <2>1, <2>2, <2>3
<1> HIDE DEF X, line
<1>8. /\ s.lines \in Seq(X) /\ Len(s.lines) = n + 1 /\ s.lines[n + 1] = line
      /\ \A j \in 1..n : s.lines[j] = l.lines[j]
  BY <1>1, <1>2, <1>7, AppendProperties
<1>9. \A j \in 1..(n + 1) : j = n + 1 \/ j \in 1..n
  BY <1>3
<1>10. \A j \in 1..(n + 1) : s.lines[j] = LineBefore(data, NthEnd(data, j))
  BY <1>1, <1>7, <1>8, <1>9
<1>11. n + 1 <= Cardinality(Ends(data)) /\ Cardinality(Ends(data)) \in Nat
  BY <1>4, UptoFinite
<1>12. n + 1 = stop => stop \in 1..Cardinality(Ends(data))
  BY <1>3, <1>11
<1>13. n + 1 # stop => stop \notin 1..(n + 1)
  BY <1>1, <1>9
<1> QED
  BY <1>2, <1>4, <1>8, <1>10, <1>12, <1>13 DEF X

(* A turn of the loop keeps to the lines of the text.                         *)
LEMMA LinesTurn ==
  ASSUME NEW C, NEW data \in Seq(C), NEW stop \in Nat, NEW off \in 1..Len(data),
         NEW l, LinesAt(data, stop, off - 1, l)
  PROVE  LinesAt(data, stop, off, LineTurn(l, off))
<1>0. off \in Nat \ {0} /\ off <= Len(data) /\ Len(data) \in Nat /\ (off - 1) + 1 = off
  OBVIOUS
<1>1. CASE l.stopped
  <2>1. LineTurn(l, off) = l
    BY <1>1 DEF LineTurn
  <2> QED
    BY <1>1, <2>1 DEF LinesAt
<1>2. ASSUME ~l.stopped
      PROVE  /\ Len(l.lines) = Cardinality(Upto(data, off - 1)) /\ l.data = data
             /\ l.start = StartAt(data, off - 1) /\ l.skip = l.start
  BY <1>2 DEF LinesAt
<1>3. LineEnd(data, off)
        <=> data[off] = "cr" \/ (data[off] = "nl" /\ ~(off > 1 /\ data[off - 1] = "cr"))
  BY <1>0 DEF LineEnd
<1>4. off \in Ends(data) <=> LineEnd(data, off)
  BY <1>0 DEF Ends
<1>5. EndsTwice(data, off - 1) <=> off > 1 /\ data[off - 1] = "cr" /\ data[off] = "nl"
  BY <1>0 DEF EndsTwice
<1>6. "cr" # "nl"
  OBVIOUS
<1>7. LastBreak(data, off + 1) = IF IsBreak(data[off]) THEN off ELSE LastBreak(data, off)
  BY <1>0, LastBreakNext
<1>8. StartAt(data, off - 1) = IF EndsTwice(data, off - 1) THEN (off - 1) + 2
                               ELSE LastBreak(data, off) + 1
  BY <1>0 DEF StartAt
<1>9. LastBreak(data, off) \in 0..(off - 1)
  BY <1>0, LastBreakIs
<1>10. CASE ~l.stopped /\ off \notin Ends(data)
  <2>1. LineTurn(l, off) = l /\ StartAt(data, off) = StartAt(data, off - 1)
    <3>1. CASE ~IsBreak(data[off])
      <4>1. LineTurn(l, off) = l
        BY <1>2, <1>10, <3>1 DEF LineTurn, IsBreak
      <4>2. ~EndsTwice(data, off - 1) /\ ~EndsTwice(data, off)
        BY <1>5, <3>1 DEF IsBreak, EndsTwice
      <4> QED
        BY <1>7, <1>8, <3>1, <4>1, <4>2 DEF StartAt
    <3>2. CASE IsBreak(data[off])
      <4>1. EndsTwice(data, off - 1) /\ data[off] = "nl"
        BY <1>3, <1>4, <1>5, <1>10, <3>2 DEF IsBreak
      <4>2. off < (off - 1) + 2 /\ (off - 1) + 2 = off + 1
        BY <1>0
      <4>3. LineTurn(l, off) = l
        BY <1>2, <1>8, <1>10, <4>1, <4>2 DEF LineTurn
      <4>4. ~EndsTwice(data, off)
        BY <1>6, <4>1 DEF EndsTwice
      <4> QED
        BY <1>7, <1>8, <3>2, <4>1, <4>2, <4>3, <4>4 DEF StartAt
    <3> QED
      BY <3>1, <3>2
  <2>2. Upto(data, off) = Upto(data, off - 1)
    <3>1. off \in 1..(Len(data) + 1)
      BY <1>0
    <3> QED
      BY <1>10, <3>1, UptoNext
  <2> QED
    BY <1>10, <2>1, <2>2 DEF LinesAt
<1>11. CASE ~l.stopped /\ off \in Ends(data)
  <2>1. ~EndsTwice(data, off - 1) /\ data[off] \in {"cr", "nl"} /\ IsBreak(data[off])
    BY <1>3, <1>4, <1>5, <1>6, <1>11 DEF IsBreak
  <2>2. l.start = LastBreak(data, off) + 1 /\ l.skip = l.start
    BY <1>2, <1>8, <1>11, <2>1
  <2>3. ~(off < l.skip)
    BY <1>0, <1>9, <2>2
  <2>4. PICK s : s = Split(l, off)
    OBVIOUS
  <2>5. PICK next : next = IF EndsTwice(data, off) THEN off + 2 ELSE off + 1
    OBVIOUS
  <2>6. LineTurn(l, off) = [s EXCEPT !.start = next, !.skip = next]
    <3>1. off < Len(l.data) /\ l.data[off] = "cr" /\ l.data[off + 1] = "nl"
            <=> EndsTwice(data, off)
      BY <1>0, <1>2, <1>11 DEF EndsTwice
    <3> QED
      BY <1>2, <1>11, <2>1, <2>3, <2>4, <2>5, <3>1 DEF LineTurn
  <2>7. PICK t : t = [s EXCEPT !.start = next, !.skip = next]
    OBVIOUS
  <2>8. /\ LineShape(s) /\ s.data = data /\ s.stop = stop
        /\ s.lines \in Seq(Givens(data))
        /\ Len(s.lines) = Cardinality(Upto(data, off)) /\ s.count = Len(s.lines)
        /\ \A j \in 1..Len(s.lines) : s.lines[j] = LineBefore(data, NthEnd(data, j))
        /\ s.stopped => stop \in 1..Cardinality(Ends(data)) /\ Len(s.lines) = stop
        /\ ~s.stopped => stop \notin 1..Len(s.lines)
    <3>1. off \in 1..(Len(data) + 1) /\ l.start = LastBreak(data, off) + 1
      BY <1>0, <2>2
    <3> QED
      BY <1>11, <2>4, <3>1, NextSplit
  <2>9. IsMoved(t, s, next)
    <3>1. LineShape(s)
      BY <2>8
    <3> QED
      BY <2>7, <3>1, StartFields
  <2>10. StartAt(data, off) = next
    BY <1>7, <2>1, <2>5 DEF StartAt
  <2>11. LinesAt(data, stop, off, t)
    BY <2>8, <2>9, <2>10 DEF LinesAt, IsMoved
  <2> QED
    BY <2>6, <2>7, <2>11
<1> QED
  BY <1>1, <1>10, <1>11

(* A callback that never stops gets every line of the text, whatever mixture  *)
(* of line ends it has, and one that stops gets the lines up to there          *)
(* (str.c:234).                                                               *)
THEOREM LineCorrectness ==
  ASSUME NEW C
  PROVE  \A data \in Seq(C) : LinesReverse(data)
<1> SUFFICES ASSUME NEW data \in Seq(C), NEW stop \in Nat
             PROVE  LET lines == LinesOf(data)
                        l == nl_split_lines(data, stop)
                    IN /\ l.lines = IF stop \in DOMAIN lines THEN SubSeq(lines, 1, stop) ELSE lines
                       /\ l.count = Len(l.lines)
  BY DEF LinesReverse
<1> DEFINE X == Givens(data)
           N == Cardinality(Ends(data))
<1>0. PICK n \in Nat : n = Len(data)
  OBVIOUS
<1>1. PICK f : /\ f[0] = LineBegin(data, stop)
               /\ \A i \in 1..Len(data) : f[i] = LineTurn(f[i - 1], i)
               /\ nl_split_lines(data, stop) = AtLast(f[Len(data)], Len(data))
  BY SplitterSplits
<1>2. LinesAt(data, stop, n, f[n])
  <2> DEFINE T == {i \in Nat : i <= n => LinesAt(data, stop, i, f[i])}
  <2>1. 0 \in T
    BY <1>1, LinesBegin
  <2>2. ASSUME NEW i \in Nat, i \in T
        PROVE  i + 1 \in T
    <3> SUFFICES ASSUME i + 1 <= n
                 PROVE  LinesAt(data, stop, i + 1, f[i + 1])
      OBVIOUS
    <3>1. PICK j : j = i + 1
      OBVIOUS
    <3>2. j \in 1..Len(data) /\ j - 1 = i /\ i <= n
      BY <1>0, <3>1
    <3>3. LinesAt(data, stop, j - 1, f[j - 1])
      BY <2>2, <3>2
    <3>4. LinesAt(data, stop, j, LineTurn(f[j - 1], j))
      BY <3>2, <3>3, LinesTurn
    <3>5. f[j] = LineTurn(f[j - 1], j)
      BY <1>1, <3>2
    <3> QED
      BY <3>1, <3>4, <3>5
  <2> HIDE DEF T
  <2>3. n \in T
    BY <2>1, <2>2, SuccessorInduction
  <2> QED
    BY <2>3 DEF T
<1>3. PICK l : l = f[n]
  OBVIOUS
<1>4. PICK L : L = LinesOf(data)
  OBVIOUS
<1>5. N \in Nat
  BY UptoFinite
<1>6. L \in Seq(X) /\ Len(L) = N /\ \A j \in 1..N : L[j] = LineBefore(data, NthEnd(data, j))
  <2>1. L = [k \in 1..N |-> LineBefore(data, NthEnd(data, k))]
    BY <1>4, LinesAre
  <2>2. \A k \in 1..N : LineBefore(data, NthEnd(data, k)) \in X
    BY <1>5 DEF Givens
  <2> HIDE DEF X, N
  <2> QED
    BY <1>5, <2>1, <2>2
<1> HIDE DEF X, N
<1>7. ASSUME NEW r, r.lines \in Seq(X), r.count = Len(r.lines),
             \A j \in 1..Len(r.lines) : r.lines[j] = LineBefore(data, NthEnd(data, j)),
             IF stop \in 1..N THEN Len(r.lines) = stop ELSE Len(r.lines) = N
      PROVE  /\ r.lines = IF stop \in DOMAIN L THEN SubSeq(L, 1, stop) ELSE L
             /\ r.count = Len(r.lines)
  <2>1. DOMAIN L = 1..N
    BY <1>6
  <2>2. CASE stop \in 1..N
    <3>1. PICK s : s = SubSeq(L, 1, stop)
      OBVIOUS
    <3>2. stop \in 0..Len(L)
      BY <1>5, <1>6, <2>2
    <3>3. s \in Seq(X) /\ Len(s) = stop /\ \A j \in 1..stop : s[j] = L[j]
      BY <1>6, <3>1, <3>2, StartOf
    <3>4. \A j \in 1..stop : s[j] = r.lines[j]
      <4>1. \A j \in 1..stop : j \in 1..N
        BY <1>5, <2>2
      <4> QED
        BY <1>6, <1>7, <2>2, <3>3, <4>1
    <3>5. Len(r.lines) = stop
      BY <1>7, <2>2
    <3>6. s = r.lines
      BY <1>7, <3>3, <3>4, <3>5, SeqEqual
    <3> QED
      BY <1>7, <2>1, <2>2, <3>1, <3>6
  <2>3. CASE stop \notin 1..N
    <3>1. L = r.lines
      <4>1. Len(r.lines) = N
        BY <1>7, <2>3
      <4>2. \A j \in 1..N : L[j] = r.lines[j]
        BY <1>6, <1>7, <4>1
      <4> QED
        BY <1>6, <1>7, <4>1, <4>2, SeqEqual
    <3> QED
      BY <1>7, <2>1, <2>3, <3>1
  <2> QED
    BY <2>2, <2>3
<1>8. PICK r : r = AtLast(l, n)
  OBVIOUS
<1>9. /\ r.lines \in Seq(X) /\ r.count = Len(r.lines)
      /\ \A j \in 1..Len(r.lines) : r.lines[j] = LineBefore(data, NthEnd(data, j))
      /\ IF stop \in 1..N THEN Len(r.lines) = stop ELSE Len(r.lines) = N
  <2>0. /\ l.lines \in Seq(X) /\ l.count = Len(l.lines)
        /\ \A j \in 1..Len(l.lines) : l.lines[j] = LineBefore(data, NthEnd(data, j))
    BY <1>2, <1>3 DEF LinesAt, X
  <2>1. CASE l.stopped
    <3>1. r = l
      BY <1>8, <2>1 DEF AtLast
    <3>2. stop \in 1..N /\ Len(l.lines) = stop
      BY <1>2, <1>3, <2>1 DEF LinesAt, N
    <3> QED
      BY <2>0, <3>1, <3>2
  <2>2. ASSUME ~l.stopped
        PROVE  /\ Len(l.lines) = Cardinality(Upto(data, n)) /\ stop \notin 1..Len(l.lines)
               /\ l.start = StartAt(data, n)
    BY <1>2, <1>3, <2>2 DEF LinesAt
  <2>3. PICK m \in 1..(Len(data) + 1) : m = n + 1 /\ m - 1 = n /\ m > Len(data)
    BY <1>0
  <2>4. StartAt(data, n) = LastBreak(data, m) + 1
    <3>1. ~EndsTwice(data, n)
      BY <1>0 DEF EndsTwice
    <3> QED
      BY <2>3, <3>1 DEF StartAt
  <2>5. LastBreak(data, m) + 1 <= n <=> m \in Ends(data)
    <3>1. m \in Ends(data) <=> data # <<>> /\ ~IsBreak(data[n])
      BY <1>0, <2>3 DEF Ends, LineEnd, Last
    <3>2. CASE n = 0
      <4>1. data = <<>>
        BY <1>0, <3>2, EmptySeq
      <4>2. m \in Nat \ {0}
        BY <2>3
      <4>3. LastBreak(data, m) \in 0..(m - 1)
        BY <4>2, LastBreakIs
      <4> QED
        BY <2>3, <3>1, <3>2, <4>1, <4>3
    <3>3. CASE n # 0
      <4>1. data # <<>> /\ n \in Nat \ {0}
        BY <1>0, <3>3
      <4>2. LastBreak(data, n + 1) = IF IsBreak(data[n]) THEN n ELSE LastBreak(data, n)
        BY <4>1, LastBreakNext
      <4>3. LastBreak(data, n) \in 0..(n - 1)
        BY <4>1, LastBreakIs
      <4> QED
        BY <2>3, <3>1, <4>1, <4>2, <4>3
    <3> QED
      BY <3>2, <3>3
  <2>6. Upto(data, m) = Ends(data)
    <3>1. \A e \in Ends(data) : e <= m
      BY <2>3 DEF Ends
    <3> QED
      BY <3>1 DEF Upto
  <2>7. CASE ~l.stopped /\ m \in Ends(data)
    <3>1. r = Split(l, m)
      BY <1>8, <2>2, <2>3, <2>4, <2>5, <2>7 DEF AtLast
    <3>2. LinesAt(data, stop, m - 1, l) /\ l.start = LastBreak(data, m) + 1
      BY <1>2, <1>3, <2>2, <2>3, <2>4, <2>7
    <3>3. /\ r.lines \in Seq(X)
          /\ Len(r.lines) = Cardinality(Upto(data, m)) /\ r.count = Len(r.lines)
          /\ \A j \in 1..Len(r.lines) : r.lines[j] = LineBefore(data, NthEnd(data, j))
          /\ r.stopped => stop \in 1..Cardinality(Ends(data)) /\ Len(r.lines) = stop
          /\ ~r.stopped => stop \notin 1..Len(r.lines)
      <4>1. m \in Ends(data) /\ ~l.stopped
        BY <2>7
      <4> QED
        BY <3>1, <3>2, <4>1, NextSplit DEF X
    <3> QED
      BY <2>6, <3>3 DEF N
  <2>8. CASE ~l.stopped /\ m \notin Ends(data)
    <3>1. r = l
      BY <1>8, <2>2, <2>4, <2>5, <2>8 DEF AtLast
    <3>2. Upto(data, m) = Upto(data, n)
      BY <2>3, <2>8, UptoNext
    <3> QED
      BY <2>0, <2>2, <2>6, <2>8, <3>1, <3>2 DEF N
  <2> QED
    BY <2>1, <2>7, <2>8
<1>10. nl_split_lines(data, stop) = r
  BY <1>0, <1>1, <1>3, <1>8
<1> QED
  BY <1>4, <1>7, <1>9, <1>10

-----------------------------------------------------------------------------
(* MAC addresses.                                                            *)

(* Every number is so many times two, or three, and a rest.                   *)
LEMMA Parted ==
  ASSUME NEW p \in Nat
  PROVE  /\ \E q \in Nat : \E r \in 0..1 : p = 2 * q + r
         /\ \E q \in Nat : \E r \in 0..2 : p = 3 * q + r
<1> DEFINE Two(k) == \E q \in Nat : \E r \in 0..1 : k = 2 * q + r
           Three(k) == \E q \in Nat : \E r \in 0..2 : k = 3 * q + r
           T == {k \in Nat : Two(k) /\ Three(k)}
<1>1. 0 \in T
  <2>1. 0 \in 0..1 /\ 0 \in 0..2 /\ 0 = 2 * 0 + 0 /\ 0 = 3 * 0 + 0
    OBVIOUS
  <2> QED
    BY <2>1
<1>2. ASSUME NEW k \in Nat, k \in T
      PROVE  k + 1 \in T
  <2>1. PICK q \in Nat : \E r \in 0..1 : k = 2 * q + r
    BY <1>2
  <2>2. PICK r \in 0..1 : k = 2 * q + r
    BY <2>1
  <2>3. Two(k + 1)
    <3>1. CASE r = 0
      <4>1. k + 1 = 2 * q + 1 /\ 1 \in 0..1
        BY <2>2, <3>1
      <4> QED
        BY <4>1
    <3>2. CASE r = 1
      <4>1. k + 1 = 2 * (q + 1) + 0 /\ 0 \in 0..1 /\ q + 1 \in Nat
        BY <2>2, <3>2
      <4> QED
        BY <4>1
    <3> QED
      BY <3>1, <3>2
  <2>4. PICK x \in Nat : \E y \in 0..2 : k = 3 * x + y
    BY <1>2
  <2>5. PICK y \in 0..2 : k = 3 * x + y
    BY <2>4
  <2>6. Three(k + 1)
    <3>1. CASE y # 2
      <4>1. k + 1 = 3 * x + (y + 1) /\ y + 1 \in 0..2
        BY <2>5, <3>1
      <4> QED
        BY <4>1
    <3>2. CASE y = 2
      <4>1. k + 1 = 3 * (x + 1) + 0 /\ 0 \in 0..2 /\ x + 1 \in Nat
        BY <2>5, <3>2
      <4> QED
        BY <4>1
    <3> QED
      BY <3>1, <3>2
  <2> QED
    BY <2>3, <2>6
<1>3. p \in T
  <2> HIDE DEF T
  <2> QED
    BY <1>1, <1>2, SuccessorInduction
<1> QED
  BY <1>3

(* What separates the octets of an address, or nothing; how long it is then,  *)
(* and the character it has at each place.                                    *)
Kinds == Separators \cup {"none"}
SepPlaces == {3 * k : k \in Nat \ {0}}
MacLength(sep) == IF sep = "none" THEN 2 * MacOctets ELSE 3 * MacOctets - 1
MacChar(sep, p) == IF sep # "none" /\ p \in SepPlaces THEN sep ELSE "h"

LEMMA SepPlace ==
  ASSUME NEW q \in Nat
  PROVE  /\ 3 * q + 1 \notin SepPlaces /\ 3 * q + 2 \notin SepPlaces
         /\ q # 0 => 3 * q \in SepPlaces
<1>1. \A k \in Nat : 3 * q + 1 # 3 * k /\ 3 * q + 2 # 3 * k
  OBVIOUS
<1> QED
  BY <1>1 DEF SepPlaces

(* Mac(sep) is that.                                                         *)
LEMMA MacIs ==
  ASSUME NEW sep \in Kinds
  PROVE  /\ Mac(sep) \in Seq({sep, "h"}) /\ Len(Mac(sep)) = MacLength(sep)
         /\ \A p \in 1..MacLength(sep) : Mac(sep)[p] = MacChar(sep, p)
<1> DEFINE S == {sep, "h"}
           n == MacOctets
           parts == [i \in 1..MacOctets |->
                      IF i = 1 \/ sep = "none" THEN <<"h", "h">> ELSE <<sep, "h", "h">>]
<1>0. n \in Nat \ {0}
  BY MacAssumption
<1>1. PICK w : w = Mac(sep)
  OBVIOUS
<1>2. w = FlattenSeq(parts)
  BY <1>1 DEF Mac
<1>3. ASSUME NEW k \in 1..n
      PROVE  parts[k] = IF k = 1 \/ sep = "none" THEN <<"h", "h">> ELSE <<sep, "h", "h">>
  OBVIOUS
<1>4. <<"h", "h">> \in Seq(S) /\ <<sep, "h", "h">> \in Seq(S)
  OBVIOUS
<1>5. parts \in Seq(Seq(S)) /\ Len(parts) = n
  <2>1. \A k \in 1..n : parts[k] \in Seq(S)
    <3> HIDE DEF S, parts
    <3> QED
      BY <1>3, <1>4
  <2>2. parts = [k \in 1..n |-> parts[k]]
    OBVIOUS
  <2> HIDE DEF parts, S
  <2>3. parts \in [1..n -> Seq(S)]
    BY <2>1, <2>2
  <2> QED
    BY <1>0, <2>3
<1> HIDE DEF S, parts
<1>6. w \in Seq(S)
  BY <1>2, <1>5, Flattened
<1>7. PICK places : Placed(w, places, parts, n)
  BY <1>0, <1>2, <1>5, Flattened
<1>8. ASSUME NEW k \in 1..n
      PROVE  IF k = 1 \/ sep = "none"
             THEN Len(parts[k]) = 2 /\ parts[k][1] = "h" /\ parts[k][2] = "h"
             ELSE /\ Len(parts[k]) = 3 /\ parts[k][1] = sep /\ parts[k][2] = "h"
                  /\ parts[k][3] = "h"
  BY <1>3
<1> DEFINE Place(k) == IF k = 0 THEN 0 ELSE IF sep = "none" THEN 2 * k ELSE 3 * k - 1
           T == {k \in Nat : k <= n => places[k] = Place(k)}
<1>9. 0 \in T
  BY <1>7 DEF Placed
<1>10. ASSUME NEW k \in Nat, k \in T
       PROVE  k + 1 \in T
  <2> SUFFICES ASSUME k + 1 <= n
               PROVE  places[k + 1] = Place(k + 1)
    OBVIOUS
  <2>1. k + 1 \in 1..n /\ (k + 1) - 1 = k /\ places[k] = Place(k)
    BY <1>0, <1>10
  <2>2. places[k + 1] = places[(k + 1) - 1] + Len(parts[k + 1])
    BY <1>7, <2>1 DEF Placed
  <2>3. Len(parts[k + 1]) = IF k + 1 = 1 \/ sep = "none" THEN 2 ELSE 3
    BY <1>8, <2>1
  <2> QED
    BY <2>1, <2>2, <2>3
<1>11. \A k \in 0..n : places[k] = Place(k)
  <2> HIDE DEF T
  <2>1. Nat \subseteq T
    BY <1>9, <1>10, SuccessorInduction
  <2>2. \A k \in 0..n : k \in Nat /\ k <= n
    BY <1>0
  <2> QED
    BY <2>1, <2>2 DEF T
<1>12. Len(w) = MacLength(sep)
  <2>1. Len(w) = places[n] /\ n \in 0..n
    BY <1>0, <1>7 DEF Placed
  <2> QED
    BY <1>0, <1>11, <2>1 DEF MacLength
<1>13. ASSUME NEW k \in 1..n, NEW j \in 1..Len(parts[k])
       PROVE  w[Place(k - 1) + j] = parts[k][j]
  <2>1. w[places[k - 1] + j] = parts[k][j]
    BY <1>7 DEF Placed
  <2>2. k - 1 \in 0..n
    BY <1>0
  <2> QED
    BY <1>11, <2>1, <2>2
<1> HIDE DEF T
<1>14. ASSUME sep = "none", NEW p \in 1..MacLength(sep)
       PROVE  w[p] = MacChar(sep, p)
  <2>1. p - 1 \in Nat /\ p - 1 < 2 * n
    BY <1>0, <1>14 DEF MacLength
  <2>2. PICK q \in Nat : \E r \in 0..1 : p - 1 = 2 * q + r
    BY <2>1, Parted
  <2>3. PICK r \in 0..1 : p - 1 = 2 * q + r
    BY <2>2
  <2>4. q + 1 \in 1..n /\ (q + 1) - 1 = q /\ r + 1 \in 1..2 /\ (r + 1 = 1 \/ r + 1 = 2)
    BY <1>0, <2>1, <2>3
  <2>5. Len(parts[q + 1]) = 2 /\ parts[q + 1][r + 1] = "h"
    BY <1>8, <1>14, <2>4
  <2>6. w[Place((q + 1) - 1) + (r + 1)] = parts[q + 1][r + 1]
    BY <1>13, <2>4, <2>5
  <2>7. Place(q) + (r + 1) = p
    BY <1>14, <2>3
  <2> HIDE DEF Place
  <2> QED
    BY <1>14, <2>4, <2>5, <2>6, <2>7 DEF MacChar
<1>15. ASSUME sep # "none", NEW p \in 1..MacLength(sep)
       PROVE  w[p] = MacChar(sep, p)
  <2>0. p \in Nat /\ p <= 3 * n - 1 /\ p >= 1
    BY <1>0, <1>15 DEF MacLength
  <2>1. PICK q \in Nat : \E r \in 0..2 : p = 3 * q + r
    BY <2>0, Parted
  <2>2. PICK r \in 0..2 : p = 3 * q + r
    BY <2>1
  <2>3. q + 1 \in 1..n /\ (q + 1) - 1 = q
    BY <1>0, <2>0, <2>2
  <2>4. CASE q = 0
    <3>1. p = r /\ r \in 1..2 /\ r <= 2
      BY <2>0, <2>2, <2>4
    <3>2. Len(parts[1]) = 2 /\ parts[1][r] = "h" /\ 1 \in 1..n
      <4>1. 1 \in 1..n /\ (r = 1 \/ r = 2)
        BY <1>0, <3>1
      <4> QED
        BY <1>8, <4>1
    <3>3. w[Place(1 - 1) + r] = parts[1][r]
      BY <1>13, <3>1, <3>2
    <3>4. Place(1 - 1) + r = p
      BY <3>1
    <3>5. p \notin SepPlaces
      BY <2>2, <2>4, <3>1, SepPlace
    <3> QED
      BY <3>2, <3>3, <3>4, <3>5 DEF MacChar
  <2>5. CASE q # 0
    <3>1. Place(q) = 3 * q - 1 /\ Place(q) + (r + 1) = p /\ r + 1 \in 1..3
      BY <1>15, <2>2, <2>5
    <3>2. q + 1 # 1
      BY <2>5
    <3>3. Len(parts[q + 1]) = 3 /\ parts[q + 1][r + 1] = IF r = 0 THEN sep ELSE "h"
      <4>1. r + 1 = 1 \/ r + 1 = 2 \/ r + 1 = 3
        OBVIOUS
      <4> QED
        BY <1>8, <1>15, <2>3, <3>2, <4>1
    <3>4. w[Place((q + 1) - 1) + (r + 1)] = parts[q + 1][r + 1]
      BY <1>13, <2>3, <3>1, <3>3
    <3>5. p \in SepPlaces <=> r = 0
      BY <2>2, <2>5, SepPlace
    <3> HIDE DEF Place
    <3> QED
      BY <1>15, <2>3, <3>1, <3>3, <3>4, <3>5 DEF MacChar
  <2> QED
    BY <2>4, <2>5
<1> QED
  BY <1>1, <1>6, <1>12, <1>14, <1>15 DEF S

LEMMA NotSeparators == "h" \notin Separators /\ "NUL" \notin Separators /\ "none" \notin Separators
  BY DEF Separators

(* What one turn of nl_parse_mac() leaves of its locals.                      *)
MacRec(state, digits, sep) == [state |-> state, digits |-> digits, expect_sep |-> sep]

LEMMA MacTurns ==
  ASSUME NEW d \in Nat, NEW e, NEW c
  PROVE  /\ MacTurn(MacRec("INVALID", d, e), c) = MacRec("INVALID", d, e)
         /\ c # "NUL" =>
              MacTurn(MacRec("WANT_END", d, e), c) = MacRec("INVALID", d, e)
         /\ MacTurn(MacRec("WANT_END", d, e), "NUL") = MacRec("DONE", d, e)
         /\ MacTurn(MacRec("WANT_SEP", d, e), c)
              = MacRec(IF c = e THEN "WANT_DIGIT_1" ELSE "INVALID", d, e)
         /\ c = "h" =>
              MacTurn(MacRec("WANT_DIGIT_1", d, e), c) = MacRec("WANT_DIGIT_2", d + 1, e)
         /\ c # "h" =>
              MacTurn(MacRec("WANT_DIGIT_1", d, e), c) = MacRec("INVALID", d, e)
         /\ c \in Separators =>
              MacTurn(MacRec("WANT_DIGIT_1_OR_SEP", d, e), c) = MacRec("WANT_DIGIT_1", d, c)
         /\ c = "h" =>
              MacTurn(MacRec("WANT_DIGIT_1_OR_SEP", d, e), c) = MacRec("WANT_DIGIT_2", d + 1, e)
         /\ c # "h" /\ c \notin Separators =>
              MacTurn(MacRec("WANT_DIGIT_1_OR_SEP", d, e), c) = MacRec("INVALID", d, e)
         /\ c # "h" =>
              MacTurn(MacRec("WANT_DIGIT_2", d, e), c) = MacRec("INVALID", d, e)
         /\ c = "h" =>
              MacTurn(MacRec("WANT_DIGIT_2", d, e), c)
                = MacRec(IF d + 1 = 2 * MacOctets THEN "WANT_END"
                         ELSE IF d + 1 = 2 THEN "WANT_DIGIT_1_OR_SEP"
                         ELSE IF e # "none" THEN "WANT_SEP" ELSE "WANT_DIGIT_1", d + 1, e)
<1>1. /\ MacTurn(MacRec("INVALID", d, e), c) = MacRec("INVALID", d, e)
      /\ c # "NUL" => MacTurn(MacRec("WANT_END", d, e), c) = MacRec("INVALID", d, e)
      /\ MacTurn(MacRec("WANT_END", d, e), "NUL") = MacRec("DONE", d, e)
      /\ MacTurn(MacRec("WANT_SEP", d, e), c)
           = MacRec(IF c = e THEN "WANT_DIGIT_1" ELSE "INVALID", d, e)
  BY DEF MacTurn, MacRec
<1>2. /\ c = "h" => MacTurn(MacRec("WANT_DIGIT_1", d, e), c) = MacRec("WANT_DIGIT_2", d + 1, e)
      /\ c # "h" => MacTurn(MacRec("WANT_DIGIT_1", d, e), c) = MacRec("INVALID", d, e)
  BY DEF MacTurn, MacRec, Digit1
<1>3. /\ c \in Separators =>
           MacTurn(MacRec("WANT_DIGIT_1_OR_SEP", d, e), c) = MacRec("WANT_DIGIT_1", d, c)
      /\ c = "h" =>
           MacTurn(MacRec("WANT_DIGIT_1_OR_SEP", d, e), c) = MacRec("WANT_DIGIT_2", d + 1, e)
      /\ c # "h" /\ c \notin Separators =>
           MacTurn(MacRec("WANT_DIGIT_1_OR_SEP", d, e), c) = MacRec("INVALID", d, e)
  BY NotSeparators DEF MacTurn, MacRec, Digit1
<1>4. /\ c # "h" => MacTurn(MacRec("WANT_DIGIT_2", d, e), c) = MacRec("INVALID", d, e)
      /\ c = "h" =>
           MacTurn(MacRec("WANT_DIGIT_2", d, e), c)
             = MacRec(IF d + 1 = 2 * MacOctets THEN "WANT_END"
                      ELSE IF d + 1 = 2 THEN "WANT_DIGIT_1_OR_SEP"
                      ELSE IF e # "none" THEN "WANT_SEP" ELSE "WANT_DIGIT_1", d + 1, e)
  BY DEF MacTurn, MacRec, Digit2
<1> QED
  BY <1>1, <1>2, <1>3, <1>4

(* nl_parse_mac() is such a function's way through the text.                  *)
LEMMA ParserOfMac ==
  ASSUME NEW C, NEW t \in Seq(C)
  PROVE  \E f : /\ f[0] = MacRec("WANT_DIGIT_1", 0, "none")
                /\ \A i \in 1..Len(t) : f[i] = MacTurn(f[i - 1], t[i])
                /\ nl_parse_mac(t) <=> MacTurn(f[Len(t)], "NUL").state = "DONE"
<1> DEFINE begin == [state |-> "WANT_DIGIT_1", digits |-> 0, expect_sep |-> "none"]
           After[i \in 0..Len(t)] == IF i = 0 THEN begin ELSE MacTurn(After[i - 1], t[i])
<1>1. nl_parse_mac(t) <=> MacTurn(After[Len(t)], "NUL").state = "DONE"
  BY DEF nl_parse_mac
<1>2. begin = MacRec("WANT_DIGIT_1", 0, "none")
  BY DEF MacRec
<1> HIDE DEF begin
<1>3. After = [i \in 0..Len(t) |-> IF i = 0 THEN begin ELSE MacTurn(After[i - 1], t[i])]
  <2>1. PICK loop : loop = "mac"
    OBVIOUS
  <2>2. PICK n \in Nat : n = Len(t)
    OBVIOUS
  <2>3. \A x, i : Turn(loop, t, x, i) = MacTurn(x, t[i])
    BY <2>1 DEF Turn
  <2>4. PICK f : Loops(f, loop, t, begin, n)
    BY LoopExists
  <2>5. f = [i \in 0..n |-> IF i = 0 THEN begin ELSE MacTurn(f[i - 1], t[i])]
    BY <2>3, <2>4 DEF Loops
  <2> QED
    BY <2>2, <2>5
<1> HIDE DEF After
<1>4. After[0] = begin
  <2>1. 0 \in 0..Len(t)
    OBVIOUS
  <2> QED
    BY <1>3, <2>1
<1>5. ASSUME NEW i \in 1..Len(t)
      PROVE  After[i] = MacTurn(After[i - 1], t[i])
  <2>1. i \in 0..Len(t) /\ i # 0
    OBVIOUS
  <2> QED
    BY <1>3, <2>1
<1> QED
  BY <1>1, <1>2, <1>4, <1>5

(* The text's first i characters may be an address's.                         *)
Fits(t, i, sep) == i <= MacLength(sep) /\ \A p \in 1..i : t[p] = MacChar(sep, p)

(* From the third character on there is one way left to separate octets.      *)
LEMMA OneFits ==
  ASSUME NEW t, NEW i \in Nat, NEW a \in Kinds, NEW b \in Kinds,
         i >= 3, Fits(t, i, a), Fits(t, i, b)
  PROVE  a = b
<1>1. 3 \in 1..i /\ 3 = 3 * 1
  OBVIOUS
<1>2. 3 \in SepPlaces
  BY <1>1 DEF SepPlaces
<1>3. t[3] = MacChar(a, 3) /\ t[3] = MacChar(b, 3)
  BY <1>1 DEF Fits
<1>4. MacChar(a, 3) = (IF a # "none" THEN a ELSE "h")
      /\ MacChar(b, 3) = (IF b # "none" THEN b ELSE "h")
  BY <1>2 DEF MacChar
<1> QED
  BY <1>3, <1>4, NotSeparators DEF Kinds

LEMMA FitsNext ==
  ASSUME NEW t, NEW i \in Nat, NEW sep \in Kinds
  PROVE  Fits(t, i + 1, sep)
           <=> /\ Fits(t, i, sep) /\ i + 1 <= MacLength(sep)
               /\ t[i + 1] = MacChar(sep, i + 1)
<1>1. MacLength(sep) \in Nat
  BY MacAssumption DEF MacLength
<1>2. i + 1 \in 1..(i + 1) /\ \A p \in 1..(i + 1) : p \in 1..i \/ p = i + 1
  OBVIOUS
<1>3. \A p \in 1..i : p \in 1..(i + 1)
  OBVIOUS
<1>4. i + 1 <= MacLength(sep) => i <= MacLength(sep)
  BY <1>1
<1> QED
  BY <1>2, <1>3, <1>4 DEF Fits

(* What the parser has after i characters: digits only, so far; a separator   *)
(* after the first octet; or no address begins like that.                     *)
PlainState(q, r) ==
  IF r = 1 THEN "WANT_DIGIT_2"
  ELSE IF q = MacOctets THEN "WANT_END"
  ELSE IF q = 1 THEN "WANT_DIGIT_1_OR_SEP" ELSE "WANT_DIGIT_1"
SepState(q, r) ==
  IF r = 0 THEN "WANT_DIGIT_1"
  ELSE IF r = 1 THEN "WANT_DIGIT_2"
  ELSE IF q = MacOctets - 1 THEN "WANT_END" ELSE "WANT_SEP"

PlainAt(t, i, m, q, r) ==
  /\ i = 2 * q + r /\ Fits(t, i, "none")
  /\ m = MacRec(PlainState(q, r), i, "none")
SepAt(t, i, m, e, q, r) ==
  /\ i = 3 * q + r /\ Fits(t, i, e)
  /\ m = MacRec(SepState(q, r), 2 * q + r, e)
NoneFits(t, i, m, d, e) ==
  /\ m = MacRec("INVALID", d, e)
  /\ \A k \in Kinds : ~Fits(t, i, k)

MacOk(t, i, m) ==
  \/ \E q \in Nat, r \in 0..1 : PlainAt(t, i, m, q, r)
  \/ \E e \in Separators, q \in Nat \ {0}, r \in 0..2 : SepAt(t, i, m, e, q, r)
  \/ \E d \in Nat, e \in Kinds : NoneFits(t, i, m, d, e)
(* One character is in the way of every address.                              *)
LEMMA NoneNext ==
  ASSUME NEW t, NEW i \in Nat, NEW m, NEW d \in Nat, NEW e \in Kinds,
         m = MacRec("INVALID", d, e),
         \A k \in Kinds : Fits(t, i, k) =>
           i + 1 > MacLength(k) \/ t[i + 1] # MacChar(k, i + 1)
  PROVE  MacOk(t, i + 1, m)
<1>1. ASSUME NEW k \in Kinds
      PROVE  ~Fits(t, i + 1, k)
  <2>1. MacLength(k) \in Nat
    BY MacAssumption DEF MacLength
  <2> QED
    BY <2>1, FitsNext
<1> QED
  BY <1>1 DEF MacOk, NoneFits

LEMMA OctetsStep ==
  ASSUME NEW t, NEW i \in Nat, NEW m, NEW q \in Nat, NEW r \in 0..1,
         PlainAt(t, i, m, q, r), t[i + 1] # "NUL"
  PROVE  MacOk(t, i + 1, MacTurn(m, t[i + 1]))
<1> DEFINE c == t[i + 1]
           n == MacOctets
<1>0. n \in Nat \ {0} /\ MacLength("none") = 2 * n /\ "none" \in Kinds
  BY MacAssumption DEF MacLength, Kinds
<1>1. i = 2 * q + r /\ Fits(t, i, "none") /\ i <= 2 * n
  BY <1>0 DEF PlainAt, Fits
<1>2. PICK x : x = PlainState(q, r)
  OBVIOUS
<1>3. m = MacRec(x, i, "none")
  BY <1>2 DEF PlainAt
<1>4. MacChar("none", i + 1) = "h"
  BY DEF MacChar
<1>5. ASSUME i >= 3, NEW k \in Kinds, Fits(t, i, k)
      PROVE  k = "none"
  BY <1>0, <1>1, <1>5, OneFits
<1> HIDE DEF c, n
<1>6. CASE r = 1
  <2>1. x = "WANT_DIGIT_2" /\ i + 1 = 2 * (q + 1) + 0 /\ 0 \in 0..1 /\ q + 1 \in Nat
    BY <1>1, <1>2, <1>6 DEF PlainState
  <2>2. i + 1 <= 2 * n
    BY <1>0, <1>1, <1>6
  <2>3. CASE c = "h"
    <3>1. Fits(t, i + 1, "none")
      BY <1>0, <1>1, <1>4, <2>2, <2>3, FitsNext DEF c
    <3>2. MacTurn(m, c) = MacRec(IF i + 1 = 2 * n THEN "WANT_END"
                                 ELSE IF i + 1 = 2 THEN "WANT_DIGIT_1_OR_SEP"
                                 ELSE "WANT_DIGIT_1", i + 1, "none")
      BY <1>3, <2>1, <2>3, MacTurns DEF n
    <3>3. (i + 1 = 2 * n <=> q + 1 = n) /\ (i + 1 = 2 <=> q + 1 = 1)
      BY <1>0, <2>1
    <3>4. PlainState(q + 1, 0) = (IF i + 1 = 2 * n THEN "WANT_END"
                                  ELSE IF i + 1 = 2 THEN "WANT_DIGIT_1_OR_SEP"
                                  ELSE "WANT_DIGIT_1")
      BY <3>3 DEF PlainState, n
    <3>5. PlainAt(t, i + 1, MacTurn(m, c), q + 1, 0)
      BY <2>1, <3>1, <3>2, <3>4 DEF PlainAt
    <3> QED
      BY <2>1, <3>5 DEF MacOk, c
  <2>4. CASE c # "h"
    <3>1. MacTurn(m, c) = MacRec("INVALID", i, "none")
      BY <1>3, <2>1, <2>4, MacTurns
    <3>2. ASSUME NEW k \in Kinds, Fits(t, i, k)
          PROVE  MacChar(k, i + 1) = "h"
      <4>1. CASE i >= 3
        BY <1>4, <1>5, <3>2, <4>1
      <4>2. CASE ~(i >= 3)
        <5>1. i + 1 = 3 * 0 + 2
          BY <1>1, <1>6, <4>2
        <5>2. i + 1 \notin SepPlaces
          BY <5>1, SepPlace
        <5> QED
          BY <5>2 DEF MacChar
      <4> QED
        BY <4>1, <4>2
    <3> QED
      BY <1>0, <2>4, <3>1, <3>2, NoneNext DEF c
  <2> QED
    BY <2>3, <2>4
<1>7. CASE r = 0 /\ q = n
  <2>1. x = "WANT_END" /\ i = 2 * n
    BY <1>1, <1>2, <1>7 DEF PlainState, n
  <2>2. MacTurn(m, c) = MacRec("INVALID", i, "none")
    <3>1. c # "NUL"
      BY DEF c
    <3> QED
      BY <1>3, <2>1, <3>1, MacTurns
  <2>3. ASSUME NEW k \in Kinds, Fits(t, i, k)
        PROVE  i + 1 > MacLength(k)
    <3>1. CASE i >= 3
      <4>1. k = "none"
        BY <1>5, <2>3, <3>1
      <4> QED
        BY <1>0, <2>1, <4>1
    <3>2. CASE ~(i >= 3)
      <4>1. n = 1
        BY <1>0, <2>1, <3>2
      <4>2. MacLength(k) = 2
        BY <4>1 DEF MacLength, n
      <4> QED
        BY <2>1, <4>1, <4>2
    <3> QED
      BY <3>1, <3>2
  <2> QED
    BY <1>0, <2>2, <2>3, NoneNext DEF c
<1>8. CASE r = 0 /\ q # n
  <2>1. i = 2 * q /\ q < n /\ i + 1 <= 2 * n /\ i + 1 = 2 * q + 1 /\ 1 \in 0..1
    BY <1>0, <1>1, <1>8
  <2>2. x = IF q = 1 THEN "WANT_DIGIT_1_OR_SEP" ELSE "WANT_DIGIT_1"
    BY <1>2, <1>8 DEF PlainState, n
  <2>3. CASE c = "h"
    <3>1. MacTurn(m, c) = MacRec("WANT_DIGIT_2", i + 1, "none")
      BY <1>3, <2>2, <2>3, MacTurns
    <3>2. Fits(t, i + 1, "none")
      BY <1>0, <1>1, <1>4, <2>1, <2>3, FitsNext DEF c
    <3>3. PlainState(q, 1) = "WANT_DIGIT_2"
      BY DEF PlainState
    <3>4. PlainAt(t, i + 1, MacTurn(m, c), q, 1)
      BY <2>1, <3>1, <3>2, <3>3 DEF PlainAt
    <3> QED
      BY <2>1, <3>4 DEF MacOk, c
  <2>4. CASE c \in Separators /\ q = 1
    <3>1. MacTurn(m, c) = MacRec("WANT_DIGIT_1", i, c)
      BY <1>3, <2>2, <2>4, MacTurns
    <3>2. i = 2 /\ n >= 2 /\ i + 1 = 3 * 1 + 0 /\ i = 2 * 1 + 0 /\ 1 \in Nat \ {0} /\ 0 \in 0..2
      BY <1>0, <2>1, <2>4
    <3>3. c \in Kinds /\ c # "none" /\ MacLength(c) = 3 * n - 1
      BY <2>4, NotSeparators DEF Kinds, MacLength, n
    <3>4. Fits(t, i, c)
      <4>1. ASSUME NEW p \in 1..i
            PROVE  t[p] = MacChar(c, p)
        <5>1. p = 3 * 0 + 1 \/ p = 3 * 0 + 2
          BY <3>2
        <5>2. p \notin SepPlaces
          BY <5>1, SepPlace
        <5> QED
          BY <1>1, <5>2 DEF Fits, MacChar
      <4>2. i <= MacLength(c)
        BY <1>0, <3>2, <3>3
      <4> QED
        BY <4>1, <4>2 DEF Fits
    <3>5. MacChar(c, i + 1) = c
      <4>1. i + 1 \in SepPlaces
        BY <3>2 DEF SepPlaces
      <4> QED
        BY <3>3, <4>1 DEF MacChar
    <3>6. Fits(t, i + 1, c)
      <4>1. i + 1 <= MacLength(c)
        BY <1>0, <3>2, <3>3
      <4> QED
        BY <3>3, <3>4, <3>5, <4>1, FitsNext DEF c
    <3>7. SepState(1, 0) = "WANT_DIGIT_1"
      BY DEF SepState
    <3>8. SepAt(t, i + 1, MacTurn(m, c), c, 1, 0)
      BY <3>1, <3>2, <3>6, <3>7 DEF SepAt
    <3> QED
      BY <2>4, <3>2, <3>8 DEF MacOk, c
  <2>5. CASE c # "h" /\ ~(c \in Separators /\ q = 1)
    <3>1. MacTurn(m, c) = MacRec("INVALID", i, "none")
      BY <1>3, <2>2, <2>5, MacTurns
    <3>2. ASSUME NEW k \in Kinds, Fits(t, i, k)
          PROVE  c # MacChar(k, i + 1)
      <4>1. CASE i >= 3
        BY <1>4, <1>5, <2>5, <3>2, <4>1
      <4>2. CASE q = 0
        <5>1. i + 1 = 3 * 0 + 1
          BY <2>1, <4>2
        <5>2. i + 1 \notin SepPlaces
          BY <5>1, SepPlace
        <5> QED
          BY <2>5, <5>2 DEF MacChar
      <4>3. CASE q = 1
        BY <2>5, <4>3 DEF MacChar, Kinds
      <4>4. q = 0 \/ q = 1 \/ i >= 3
        BY <2>1
      <4> QED
        BY <4>1, <4>2, <4>3, <4>4
    <3> QED
      BY <1>0, <3>1, <3>2, NoneNext DEF c
  <2> QED
    BY <2>3, <2>4, <2>5
<1> QED
  BY <1>6, <1>7, <1>8

LEMMA SeparatedStep ==
  ASSUME NEW t, NEW i \in Nat, NEW m, NEW e \in Separators, NEW q \in Nat \ {0}, NEW r \in 0..2,
         SepAt(t, i, m, e, q, r), t[i + 1] # "NUL"
  PROVE  MacOk(t, i + 1, MacTurn(m, t[i + 1]))
<1> DEFINE c == t[i + 1]
           n == MacOctets
           d == 2 * q + r
<1>0. n \in Nat \ {0} /\ MacLength(e) = 3 * n - 1 /\ e \in Kinds /\ e # "none" /\ d \in Nat
  BY MacAssumption, NotSeparators DEF MacLength, Kinds
<1>1. i = 3 * q + r /\ Fits(t, i, e) /\ i <= 3 * n - 1 /\ i >= 3 /\ q <= n - 1
  BY <1>0 DEF SepAt, Fits
<1>2. PICK x : x = SepState(q, r)
  OBVIOUS
<1>3. m = MacRec(x, d, e)
  BY <1>2 DEF SepAt
<1>4. ASSUME NEW k \in Kinds, Fits(t, i, k)
      PROVE  k = e
  BY <1>0, <1>1, <1>4, OneFits
<1>5. ASSUME MacTurn(m, c) = MacRec("INVALID", d, e),
             i + 1 > MacLength(e) \/ c # MacChar(e, i + 1)
      PROVE  MacOk(t, i + 1, MacTurn(m, c))
  <2>1. \A k \in Kinds : Fits(t, i, k) =>
          i + 1 > MacLength(k) \/ t[i + 1] # MacChar(k, i + 1)
    BY <1>4, <1>5
  <2> HIDE DEF c, d
  <2> QED
    BY <1>0, <1>5, <2>1, NoneNext
<1>6. CASE r = 0
  <2>1. /\ x = "WANT_DIGIT_1" /\ i + 1 = 3 * q + 1 /\ 1 \in 0..2 /\ d + 1 = 2 * q + 1
        /\ i + 1 <= MacLength(e) /\ MacChar(e, i + 1) = "h"
    <3>1. x = "WANT_DIGIT_1" /\ i + 1 = 3 * q + 1 /\ 1 \in 0..2 /\ d + 1 = 2 * q + 1
          /\ i + 1 <= MacLength(e)
      BY <1>0, <1>1, <1>2, <1>6 DEF SepState
    <3>2. i + 1 \notin SepPlaces
      BY <3>1, SepPlace
    <3> QED
      BY <3>1, <3>2 DEF MacChar
  <2> HIDE DEF c, d
  <2>2. CASE c = "h"
    <3>1. MacTurn(m, c) = MacRec("WANT_DIGIT_2", d + 1, e)
      BY <1>0, <1>3, <2>1, <2>2, MacTurns
    <3>2. Fits(t, i + 1, e)
      BY <1>0, <1>1, <2>1, <2>2, FitsNext DEF c
    <3>3. SepAt(t, i + 1, MacTurn(m, c), e, q, 1)
      BY <2>1, <3>1, <3>2 DEF SepAt, SepState
    <3> QED
      BY <2>1, <3>3 DEF MacOk, c
  <2>3. CASE c # "h"
    <3>1. MacTurn(m, c) = MacRec("INVALID", d, e)
      BY <1>0, <1>3, <2>1, <2>3, MacTurns
    <3> QED
      BY <1>5, <2>1, <2>3, <3>1 DEF c
  <2> QED
    BY <2>2, <2>3
<1>7. CASE r = 1
  <2>1. /\ x = "WANT_DIGIT_2" /\ i + 1 = 3 * q + 2 /\ 2 \in 0..2 /\ d + 1 = 2 * q + 2
        /\ i + 1 <= MacLength(e) /\ MacChar(e, i + 1) = "h"
    <3>1. x = "WANT_DIGIT_2" /\ i + 1 = 3 * q + 2 /\ 2 \in 0..2 /\ d + 1 = 2 * q + 2
          /\ i + 1 <= MacLength(e)
      BY <1>0, <1>1, <1>2, <1>7 DEF SepState
    <3>2. i + 1 \notin SepPlaces
      BY <3>1, SepPlace
    <3> QED
      BY <3>1, <3>2 DEF MacChar
  <2>2. (d + 1 = 2 * n <=> q = n - 1) /\ d + 1 # 2
    BY <1>0, <1>1, <1>7
  <2> HIDE DEF c, d
  <2>3. CASE c = "h"
    <3>1. MacTurn(m, c) = MacRec(IF d + 1 = 2 * n THEN "WANT_END" ELSE "WANT_SEP", d + 1, e)
      BY <1>0, <1>3, <2>1, <2>2, <2>3, MacTurns
    <3>2. Fits(t, i + 1, e)
      BY <1>0, <1>1, <2>1, <2>3, FitsNext DEF c
    <3>3. SepState(q, 2) = IF d + 1 = 2 * n THEN "WANT_END" ELSE "WANT_SEP"
      BY <2>2 DEF SepState
    <3>4. SepAt(t, i + 1, MacTurn(m, c), e, q, 2)
      BY <2>1, <3>1, <3>2, <3>3 DEF SepAt
    <3> QED
      BY <2>1, <3>4 DEF MacOk, c
  <2>4. CASE c # "h"
    <3>1. MacTurn(m, c) = MacRec("INVALID", d, e)
      BY <1>0, <1>3, <2>1, <2>4, MacTurns
    <3> QED
      BY <1>5, <2>1, <2>4, <3>1 DEF c
  <2> QED
    BY <2>3, <2>4
<1>8. CASE r = 2
  <2>1. /\ x = (IF q = n - 1 THEN "WANT_END" ELSE "WANT_SEP")
        /\ i + 1 = 3 * (q + 1) + 0 /\ 0 \in 0..2 /\ d = 2 * (q + 1) + 0
        /\ q + 1 \in Nat \ {0} /\ (q # n - 1 => i + 1 <= MacLength(e))
        /\ (q = n - 1 => i + 1 > MacLength(e)) /\ i + 1 = 3 * (q + 1)
    BY <1>0, <1>1, <1>2, <1>8 DEF SepState
  <2>2. MacChar(e, i + 1) = e
    <3>1. i + 1 \in SepPlaces
      BY <2>1 DEF SepPlaces
    <3> QED
      BY <1>0, <3>1 DEF MacChar
  <2>3. c # "NUL"
    OBVIOUS
  <2> HIDE DEF c, d
  <2>4. CASE q = n - 1
    <3>1. MacTurn(m, c) = MacRec("INVALID", d, e)
      BY <1>0, <1>3, <2>1, <2>3, <2>4, MacTurns
    <3> QED
      BY <1>5, <2>1, <2>4, <3>1 DEF c
  <2>5. CASE q # n - 1 /\ c = e
    <3>1. MacTurn(m, c) = MacRec("WANT_DIGIT_1", d, e)
      BY <1>0, <1>3, <2>1, <2>5, MacTurns
    <3>2. Fits(t, i + 1, e)
      BY <1>0, <1>1, <2>1, <2>2, <2>5, FitsNext DEF c
    <3>3. SepState(q + 1, 0) = "WANT_DIGIT_1"
      BY DEF SepState
    <3>4. SepAt(t, i + 1, MacTurn(m, c), e, q + 1, 0)
      BY <2>1, <3>1, <3>2, <3>3 DEF SepAt
    <3> QED
      BY <2>1, <3>4 DEF MacOk, c
  <2>6. CASE q # n - 1 /\ c # e
    <3>1. MacTurn(m, c) = MacRec("INVALID", d, e)
      BY <1>0, <1>3, <2>1, <2>6, MacTurns
    <3> QED
      BY <1>5, <2>2, <2>6, <3>1 DEF c
  <2> QED
    BY <2>4, <2>5, <2>6
<1> QED
  BY <1>6, <1>7, <1>8

LEMMA MacStep ==
  ASSUME NEW t, NEW i \in Nat, NEW m, MacOk(t, i, m), t[i + 1] # "NUL"
  PROVE  MacOk(t, i + 1, MacTurn(m, t[i + 1]))
<1>1. ASSUME NEW d \in Nat, NEW e \in Kinds, NoneFits(t, i, m, d, e)
      PROVE  MacOk(t, i + 1, MacTurn(m, t[i + 1]))
  <2>1. MacTurn(m, t[i + 1]) = MacRec("INVALID", d, e)
    BY <1>1, MacTurns DEF NoneFits
  <2> QED
    BY <1>1, <2>1, NoneNext DEF NoneFits
<1>2. ASSUME NEW q \in Nat, NEW r \in 0..1, PlainAt(t, i, m, q, r)
      PROVE  MacOk(t, i + 1, MacTurn(m, t[i + 1]))
  BY <1>2, OctetsStep
<1>3. ASSUME NEW e \in Separators, NEW q \in Nat \ {0}, NEW r \in 0..2,
             SepAt(t, i, m, e, q, r)
      PROVE  MacOk(t, i + 1, MacTurn(m, t[i + 1]))
  BY <1>3, SeparatedStep
<1>4. \/ \E q \in Nat, r \in 0..1 : PlainAt(t, i, m, q, r)
      \/ \E e \in Separators, q \in Nat \ {0}, r \in 0..2 : SepAt(t, i, m, e, q, r)
      \/ \E d \in Nat, e \in Kinds : NoneFits(t, i, m, d, e)
  BY DEF MacOk
<1> QED
  BY <1>1, <1>2, <1>3, <1>4
LEMMA MacRun ==
  ASSUME NEW C, "NUL" \notin C, NEW t \in Seq(C), NEW f,
         f[0] = MacRec("WANT_DIGIT_1", 0, "none"),
         \A i \in 1..Len(t) : f[i] = MacTurn(f[i - 1], t[i])
  PROVE  MacOk(t, Len(t), f[Len(t)])
<1> DEFINE T == {i \in Nat : i <= Len(t) => MacOk(t, i, f[i])}
<1>1. 0 \in T
  <2>1. Fits(t, 0, "none") /\ PlainState(0, 0) = "WANT_DIGIT_1"
    BY MacAssumption DEF Fits, MacLength, PlainState
  <2>2. 0 = 2 * 0 + 0 /\ 0 \in 0..1
    OBVIOUS
  <2>3. PlainAt(t, 0, f[0], 0, 0)
    BY <2>1, <2>2 DEF PlainAt
  <2> QED
    BY <2>2, <2>3 DEF MacOk
<1>2. ASSUME NEW i \in Nat, i \in T
      PROVE  i + 1 \in T
  <2> SUFFICES ASSUME i + 1 <= Len(t)
               PROVE  MacOk(t, i + 1, f[i + 1])
    OBVIOUS
  <2>1. i + 1 \in 1..Len(t) /\ (i + 1) - 1 = i /\ i <= Len(t)
    OBVIOUS
  <2>2. MacOk(t, i, f[i])
    BY <1>2, <2>1
  <2>3. f[i + 1] = MacTurn(f[i], t[i + 1])
    BY <2>1
  <2>4. t[i + 1] # "NUL"
    BY <2>1
  <2> HIDE DEF T
  <2> QED
    BY <2>2, <2>3, <2>4, MacStep
<1>3. Len(t) \in T
  <2> HIDE DEF T
  <2>1. Nat \subseteq T
    BY <1>1, <1>2, SuccessorInduction
  <2>2. Len(t) \in Nat
    OBVIOUS
  <2> QED
    BY <2>1, <2>2
<1> QED
  BY <1>3

(* A text that an address's characters fill is the address.                   *)
LEMMA FitsIsMac ==
  ASSUME NEW C, NEW t \in Seq(C), NEW sep \in Kinds
  PROVE  t = Mac(sep) <=> Len(t) = MacLength(sep) /\ Fits(t, Len(t), sep)
<1>1. /\ Mac(sep) \in Seq({sep, "h"}) /\ Len(Mac(sep)) = MacLength(sep)
      /\ \A p \in 1..MacLength(sep) : Mac(sep)[p] = MacChar(sep, p)
  BY MacIs
<1>2. PICK w : w = Mac(sep)
  OBVIOUS
<1>3. MacLength(sep) \in Nat
  BY MacAssumption DEF MacLength
<1>4. ASSUME t = w
      PROVE  Len(t) = MacLength(sep) /\ Fits(t, Len(t), sep)
  BY <1>1, <1>2, <1>3, <1>4 DEF Fits
<1>5. ASSUME Len(t) = MacLength(sep), Fits(t, Len(t), sep)
      PROVE  t = w
  <2>1. PICK D : D = C \cup {sep, "h"}
    OBVIOUS
  <2>2. t \in Seq(D)
    BY <2>1, SeqMonotonic
  <2>3. w \in Seq(D)
    <3>1. {sep, "h"} \subseteq D /\ w \in Seq({sep, "h"})
      BY <1>1, <1>2, <2>1
    <3> QED
      BY <3>1, SeqMonotonic
  <2>4. Len(w) = Len(t)
    BY <1>1, <1>2, <1>5
  <2>5. ASSUME NEW p \in 1..Len(t)
        PROVE  t[p] = w[p]
    BY <1>1, <1>2, <1>5 DEF Fits
  <2> QED
    BY <2>2, <2>3, <2>4, <2>5, SeqEqual
<1> QED
  BY <1>2, <1>4, <1>5

(* nl_parse_mac() takes MAC addresses, with a separator throughout or with     *)
(* none, and nothing else (net.c:21): of whatever characters, for any number    *)
(* of octets.                                                                 *)
THEOREM MacCorrectness ==
  ASSUME NEW C, "NUL" \notin C
  PROVE  \A t \in Seq(C) : MacsExactly(t)
<1> SUFFICES ASSUME NEW t \in Seq(C)
             PROVE  MacsExactly(t)
  OBVIOUS
<1> DEFINE n == Len(t)
<1>0. MacOctets \in Nat \ {0} /\ n \in Nat
  BY MacAssumption
<1>1. PICK f : /\ f[0] = MacRec("WANT_DIGIT_1", 0, "none")
               /\ \A i \in 1..Len(t) : f[i] = MacTurn(f[i - 1], t[i])
               /\ nl_parse_mac(t) <=> MacTurn(f[Len(t)], "NUL").state = "DONE"
  BY ParserOfMac
<1>2. PICK m : m = f[n]
  OBVIOUS
<1>3. MacOk(t, n, m)
  BY <1>1, <1>2, MacRun
<1>4. nl_parse_mac(t) <=> MacTurn(m, "NUL").state = "DONE"
  BY <1>1, <1>2
<1> HIDE DEF n
<1>5. ASSUME NEW k \in Kinds
      PROVE  t = Mac(k) <=> n = MacLength(k) /\ Fits(t, n, k)
  BY FitsIsMac DEF n
<1>6. ASSUME NEW d \in Nat, NEW e
      PROVE  /\ MacTurn(MacRec("INVALID", d, e), "NUL").state # "DONE"
             /\ MacTurn(MacRec("WANT_END", d, e), "NUL").state = "DONE"
             /\ e # "NUL" => MacTurn(MacRec("WANT_SEP", d, e), "NUL").state # "DONE"
             /\ MacTurn(MacRec("WANT_DIGIT_1", d, e), "NUL").state # "DONE"
             /\ MacTurn(MacRec("WANT_DIGIT_1_OR_SEP", d, e), "NUL").state # "DONE"
             /\ MacTurn(MacRec("WANT_DIGIT_2", d, e), "NUL").state # "DONE"
  BY NotSeparators DEF MacTurn, MacRec, Digit1, Digit2
<1>7. ASSUME NEW q \in Nat, NEW r \in 0..1, PlainAt(t, n, m, q, r)
      PROVE  nl_parse_mac(t) <=> \E k \in Kinds : t = Mac(k)
  <2>1. n = 2 * q + r /\ Fits(t, n, "none") /\ n <= 2 * MacOctets /\ "none" \in Kinds
        /\ MacLength("none") = 2 * MacOctets
    BY <1>7 DEF PlainAt, Fits, MacLength, Kinds
  <2>2. nl_parse_mac(t) <=> r = 0 /\ q = MacOctets
    BY <1>0, <1>4, <1>6, <1>7 DEF PlainAt, PlainState
  <2>3. ASSUME r = 0, q = MacOctets
        PROVE  \E k \in Kinds : t = Mac(k)
    <3>1. n = MacLength("none")
      BY <1>0, <2>1, <2>3
    <3> QED
      BY <1>5, <2>1, <3>1
  <2>4. ASSUME NEW k \in Kinds, t = Mac(k)
        PROVE  r = 0 /\ q = MacOctets
    <3>1. n = MacLength(k) /\ Fits(t, n, k)
      BY <1>5, <2>4
    <3>2. CASE n >= 3
      <4>1. k = "none"
        BY <1>0, <2>1, <3>1, <3>2, OneFits
      <4> QED
        BY <1>0, <2>1, <3>1, <4>1
    <3>3. CASE ~(n >= 3)
      <4>1. MacLength(k) = 2 * MacOctets \/ MacLength(k) = 3 * MacOctets - 1
        BY DEF MacLength
      <4> QED
        BY <1>0, <2>1, <3>1, <3>3, <4>1
    <3> QED
      BY <3>2, <3>3
  <2> QED
    BY <2>2, <2>3, <2>4
<1>8. ASSUME NEW e \in Separators, NEW q \in Nat \ {0}, NEW r \in 0..2, SepAt(t, n, m, e, q, r)
      PROVE  nl_parse_mac(t) <=> \E k \in Kinds : t = Mac(k)
  <2>1. n = 3 * q + r /\ Fits(t, n, e) /\ e \in Kinds /\ e # "NUL" /\ e # "none"
        /\ MacLength(e) = 3 * MacOctets - 1
    BY <1>8, NotSeparators DEF SepAt, Kinds, MacLength
  <2>2. nl_parse_mac(t) <=> r = 2 /\ q = MacOctets - 1
    <3>1. 2 * q + r \in Nat
      OBVIOUS
    <3> QED
      BY <1>4, <1>6, <1>8, <2>1, <3>1 DEF SepAt, SepState
  <2>3. r = 2 /\ q = MacOctets - 1 <=> n = MacLength(e)
    BY <1>0, <2>1
  <2>4. ASSUME NEW k \in Kinds, t = Mac(k)
        PROVE  n = MacLength(e)
    <3>1. n = MacLength(k) /\ Fits(t, n, k)
      BY <1>5, <2>4
    <3>2. n >= 3
      BY <2>1
    <3> QED
      BY <1>0, <2>1, <3>1, <3>2, OneFits
  <2> QED
    BY <1>5, <2>1, <2>2, <2>3, <2>4
<1>9. ASSUME NEW d \in Nat, NEW e \in Kinds, NoneFits(t, n, m, d, e)
      PROVE  nl_parse_mac(t) <=> \E k \in Kinds : t = Mac(k)
  <2>1. ~nl_parse_mac(t)
    BY <1>4, <1>6, <1>9 DEF NoneFits
  <2>2. \A k \in Kinds : t # Mac(k)
    BY <1>5, <1>9 DEF NoneFits
  <2> QED
    BY <2>1, <2>2
<1>10. nl_parse_mac(t) <=> \E k \in Kinds : t = Mac(k)
  BY <1>3, <1>7, <1>8, <1>9 DEF MacOk
<1> QED
  BY <1>10 DEF MacsExactly, Kinds

-----------------------------------------------------------------------------
(* The text being typed is one over the alphabet of its reader.              *)
TextType ==
  /\ reader \in Readers \cup {NoReader}
  /\ reader = NoReader => text = <<>>
  /\ reader # NoReader => text \in Seq(Alphabet[reader])

(* It stays so.                                                               *)
LEMMA TextTyped == TextSpec => []TextType
<1>1. TextInit => TextType
  BY DEF TextInit, TextType
<1>2. TextType /\ [TextNext]_textVars => TextType'
  <2> SUFFICES ASSUME TextType, [TextNext]_textVars
               PROVE  TextType'
    OBVIOUS
  <2>1. ASSUME NEW r \in Readers, StartWith(r)
        PROVE  TextType'
    BY <2>1 DEF StartWith, TextType
  <2>2. ASSUME reader # NoReader, NEW c \in Alphabet[reader], Type(c)
        PROVE  TextType'
    <3>1. text \in Seq(Alphabet[reader]) /\ text' = Append(text, c) /\ reader' = reader
      BY <2>2 DEF Type, TextType
    <3>2. Append(text, c) \in Seq(Alphabet[reader])
      BY <2>2, <3>1
    <3> QED
      BY <2>2, <3>1, <3>2 DEF TextType
  <2>3. CASE UNCHANGED textVars
    BY <2>3 DEF TextType, textVars
  <2> QED
    BY <2>1, <2>2, <2>3 DEF TextNext
<1> QED
  BY <1>1, <1>2, PTL DEF TextSpec

(* In every state of the writer, whatever readers it has and however long the  *)
(* texts are, what is typed is undone: escaped and unescaped, percent-encoded   *)
(* and decoded, written in hexadecimal and read; its lines are what precedes    *)
(* its line ends, a MAC address is taken for one and nothing else is, and the   *)
(* searches agree (escape.c:175, url.c:85, str.c:164, str.c:234, net.c:21,      *)
(* str.c:81).  Only the codes say which characters there are; a C string has    *)
(* no NUL.                                                                      *)
THEOREM CodecCorrectness ==
  ASSUME "url" \in Readers => Alphabet["url"] \subseteq UrlCharacters,
         "hex" \in Readers => Alphabet["hex"] \subseteq HexCharacters,
         "mac" \in Readers => "NUL" \notin Alphabet["mac"]
  PROVE  TextSpec => []CodecsReverse
<1>1. ASSUME TextType, reader \in Readers
      PROVE  CodecsReverse
  <2>1. text \in Seq(Alphabet[reader])
    <3>1. reader = NoReader => text = <<>>
      BY <1>1 DEF TextType
    <3>2. reader # NoReader => text \in Seq(Alphabet[reader])
      BY <1>1 DEF TextType
    <3>3. <<>> \in Seq(Alphabet[reader])
      OBVIOUS
    <3> QED
      BY <3>1, <3>2, <3>3
  <2>2. CASE reader = "escape"
    <3>1. StringEscapeReverses(text) /\ DataEscapeReverses(text) /\ RemovedExactly(text)
      BY <2>1, StringEscapeCorrectness, DataEscapeCorrectness, RemovedCorrectness
    <3> QED
      BY <2>2, <3>1 DEF CodecsReverse
  <2>3. CASE reader = "url"
    <3>1. text \in Seq(UrlCharacters)
      BY <1>1, <2>1, <2>3, SeqMonotonic
    <3> QED
      BY <2>3, <3>1, UrlCorrectness, PlainCorrectness DEF CodecsReverse
  <2>4. CASE reader = "hex"
    <3>1. text \in Seq(HexCharacters)
      BY <1>1, <2>1, <2>4, SeqMonotonic
    <3> QED
      BY <2>4, <3>1, HexCorrectness DEF CodecsReverse
  <2>5. CASE reader = "lines"
    <3>1. LinesReverse(text)
      BY <2>1, LineCorrectness
    <3> QED
      BY <2>5, <3>1 DEF CodecsReverse
  <2>6. CASE reader = "mac"
    <3>1. MacsExactly(text)
      BY <1>1, <2>1, <2>6, MacCorrectness
    <3> QED
      BY <2>6, <3>1 DEF CodecsReverse
  <2>7. CASE reader = "search"
    <3>1. SearchesAgree(text)
      BY <2>1, SearchCorrectness
    <3> QED
      BY <2>7, <3>1 DEF CodecsReverse
  <2>8. CASE reader \notin {"escape", "url", "hex", "lines", "mac", "search"}
    BY <2>8 DEF CodecsReverse
  <2> QED
    BY <2>2, <2>3, <2>4, <2>5, <2>6, <2>7, <2>8
<1>2. ASSUME reader = NoReader
      PROVE  CodecsReverse
  BY <1>2 DEF CodecsReverse, NoReader
<1>3. TextType => CodecsReverse
  <2>1. TextType => reader \in Readers \cup {NoReader}
    BY DEF TextType
  <2> QED
    BY <1>1, <1>2, <2>1
<1> QED
  BY <1>3, TextTyped, PTL
=============================================================================
