--------------------------------- MODULE Kvp ---------------------------------
(***************************************************************************)
(* The key-value line parser of src/kvp.c, character by character, with    *)
(* the escapes of src/escape.c and its characters.                         *)
(***************************************************************************)
EXTENDS Escape

IsSpace(c) == c \in {" ", "tab", "nl", "cr", "vt", "ff"}

-----------------------------------------------------------------------------
(* nl_kvp_wrapper(): the type a value is passed on with.  Of the digits of   *)
(* base sixteen there are those of Escape, and "e".                          *)
Digit(c) == c \in HexDigits

(* What a number has had: its two flags.                                     *)
NumberParts == SUBSET {"exponent", "period"}

(* Whether a period or an exponent may stand at i.                           *)
PeriodFits(v, i, had) == had = {} /\ (i = Len(v) \/ Digit(v[i + 1]))

ExponentFits(v, i, had) ==
  /\ "exponent" \notin had /\ i < Len(v)
  /\ \/ Digit(v[i + 1])
     \/ v[i + 1] \in {"+", "-"} /\ i + 1 < Len(v) /\ Digit(v[i + 2])

NumberType(v) ==
  LET From[i \in 2..(Len(v) + 2)] == [had \in NumberParts |->
        IF i > Len(v) THEN IF had = {} THEN "INTEGER" ELSE "FLOAT"
        ELSE IF v[i] = "." THEN
          IF PeriodFits(v, i, had) THEN From[i + 1][{"period"}] ELSE "STRING"
        ELSE IF Digit(v[i - 1]) /\ v[i] = "e" THEN
          IF ~ExponentFits(v, i, had) THEN "STRING"
          ELSE From[IF Digit(v[i + 1]) THEN i + 1 ELSE i + 2][had \cup {"exponent"}]
        ELSE IF Digit(v[i]) THEN From[i + 1][had]
        ELSE "STRING"]
  IN From[2][IF v[1] = "." THEN {"period"} ELSE {}]

TruthWords == {<<"t", "r", "u", "e">>, <<"f", "a", "l", "s", "e">>}

nl_kvp_wrapper(v, quoted) ==
  IF quoted THEN "STRING"
  ELSE IF v \in TruthWords THEN "INTEGER"
  ELSE IF ~Digit(v[1]) /\ (Len(v) = 1 \/ v[1] \notin {"+", "-", "."}) THEN "STRING"
  ELSE IF Len(v) > 1 /\ v[1] = "0" /\ v[2] = "x"
       THEN IF \A i \in 3..Len(v) : Digit(v[i]) \/ v[i] = "e" THEN "INTEGER" ELSE "STRING"
  ELSE NumberType(v)

-----------------------------------------------------------------------------
(* nl_parse_kvp(): the locals of its loop, and the pairs the callback got.   *)
Dequoted(s) == nl_unescape_string(s, FALSE, "IF_QUOTED").text

send_pair(line, p, value_length) ==
  LET Cut(start, length) == SubSeq(line, start, start + length - 1)
      value == Cut(p.value_start, value_length)
  IN [p EXCEPT !.state = "EXPECT_KEY",
               !.sent = Append(@, [key |-> Dequoted(Cut(p.key_start, p.key_length)),
                                   value |-> Dequoted(value),
                                   quoted |-> value[1] = Quote,
                                   places |-> <<p.key_start, p.key_start + p.key_length,
                                                p.value_start, p.value_start + value_length>>])]

Escapes(line, i) == line[i] = Backslash /\ i < Len(line) /\ line[i + 1] = Quote

ExpectKey(p, c, i) ==
  IF c = "=" THEN [p EXCEPT !.state = "SKIP_KEY"]
  ELSE IF IsSpace(c) THEN p
  ELSE [p EXCEPT !.key_start = i, !.state = IF c = Quote THEN "READ_QUOTED_KEY" ELSE "READ_KEY"]

(* After a key: its length, if the equals sign follows.                      *)
EndKey(p, i) == [p EXCEPT !.state = "EXPECT_VALUE", !.key_length = i - p.key_start]

ReadKey(p, c, i) ==
  IF IsSpace(c) THEN [p EXCEPT !.state = "EXPECT_KEY"] ELSE IF c = "=" THEN EndKey(p, i) ELSE p

ReadQuotedKey(p, line, i) ==
  IF line[i] = Quote THEN [p EXCEPT !.state = "EXPECT_EQUALS"]
  ELSE [p EXCEPT !.skip = Escapes(line, i)]

ExpectValue(p, c, i) ==
  IF IsSpace(c) THEN [p EXCEPT !.state = "EXPECT_KEY"]
  ELSE [p EXCEPT !.value_start = i,
                 !.state = IF c = Quote THEN "READ_QUOTED_VALUE" ELSE "READ_VALUE"]

ReadQuotedValueRaw(p, line, i) ==
  IF line[i] = Quote THEN send_pair(line, p, i - p.value_start + 1) ELSE p

ReadQuotedValue(p, line, i) ==
  IF line[i] = Quote THEN send_pair(line, p, i - p.value_start + 1)
  ELSE [p EXCEPT !.skip = Escapes(line, i)]

KvpTurn(p, line, i) ==
  LET c == line[i] IN
  IF p.skip THEN [p EXCEPT !.skip = FALSE] ELSE
  CASE p.state = "EXPECT_KEY"      -> ExpectKey(p, c, i)
    [] p.state = "SKIP_KEY"        -> IF IsSpace(c) THEN [p EXCEPT !.state = "EXPECT_KEY"] ELSE p
    [] p.state = "READ_KEY"        -> ReadKey(p, c, i)
    [] p.state = "READ_QUOTED_KEY" -> ReadQuotedKey(p, line, i)
    [] p.state = "EXPECT_EQUALS"   -> IF c = "=" THEN EndKey(p, i)
                                                 ELSE [p EXCEPT !.state = "EXPECT_KEY"]
    [] p.state = "EXPECT_VALUE"    -> ExpectValue(p, c, i)
    [] p.state = "READ_VALUE"      -> IF IsSpace(c) THEN send_pair(line, p, i - p.value_start)
                                                    ELSE p
    [] p.state = "READ_QUOTED_VALUE" -> ReadQuotedValue(p, line, i)

nl_parse_kvp(line) ==
  LET begin == [state |-> "EXPECT_KEY", skip |-> FALSE, key_start |-> 1, key_length |-> 0,
                value_start |-> 1, sent |-> <<>>]
      After[i \in 0..Len(line)] == IF i = 0 THEN begin ELSE KvpTurn(After[i - 1], line, i)
      end == After[Len(line)]
  IN (IF end.state \in {"READ_VALUE", "READ_QUOTED_VALUE"}
      THEN send_pair(line, end, Len(line) + 1 - end.value_start) ELSE end).sent

-----------------------------------------------------------------------------
(* A pair as the header comment writes it, with or without quotes.            *)
WrittenPart(s, quoted) ==
  IF quoted THEN <<Quote>> \o nl_escape_string(s) \o <<Quote>> ELSE s

(* What may be written without quotes.                                        *)
PlainKey(s) == s # <<>> /\ s[1] # Quote /\ \A i \in DOMAIN s : ~IsSpace(s[i]) /\ s[i] # "="
PlainValue(s) == s # <<>> /\ s[1] # Quote /\ \A i \in DOMAIN s : ~IsSpace(s[i])

ReadBack(key, value, qk, qv) ==
  LET line == WrittenPart(key, qk) \o <<"=">> \o WrittenPart(value, qv) \o <<" ", "z", "=", "z">>
      pairs == nl_parse_kvp(line)
      Is(p, k, v, q) == p.key = k /\ p.value = v /\ p.quoted = q
  IN Len(pairs) = 2 /\ Is(pairs[1], key, value, qv) /\ Is(pairs[2], <<"z">>, <<"z">>, FALSE)

EndsInBackslash(s) == s # <<>> /\ Last(s) = Backslash

(* The pairs a text cut in two can be: what is written is read, and what      *)
(* follows is not swallowed.                                                  *)
PairReverses(key, value, may_end_in_backslash) ==
  \A qk, qv \in BOOLEAN :
    LET written == /\ qk \/ PlainKey(key)
                   /\ qv \/ PlainValue(value)
        swallows == (qk /\ EndsInBackslash(key)) \/ (qv /\ EndsInBackslash(value))
    IN written /\ (may_end_in_backslash \/ ~swallows) => ReadBack(key, value, qk, qv)

(* On any line, the key and the value of a pair are not empty, the value is   *)
(* behind the key, and the next pair behind both.                             *)
PlacesInOrder(places, length) ==
  /\ 1 <= places[1] /\ places[1] < places[2] /\ places[2] < places[3]
  /\ places[3] < places[4] /\ places[4] <= length + 1

PairsInOrder(line) ==
  LET pairs == nl_parse_kvp(line) IN
  /\ \A i \in DOMAIN pairs : PlacesInOrder(pairs[i].places, Len(line))
  /\ \A i \in 1..(Len(pairs) - 1) : pairs[i].places[4] <= pairs[i + 1].places[1]

(* An unquoted value is passed on as a number if it reads as one to its end.  *)
AllDigits(s) == ToSet(s) \subseteq HexDigits
Unsigned(s) == IF s # <<>> /\ s[1] \in {"+", "-"} THEN Tail(s) ELSE s
IntegerText(s) == Unsigned(s) # <<>> /\ AllDigits(Unsigned(s))
HexText(s) == Len(s) > 1 /\ s[1] = "0" /\ s[2] = "x" /\
              \A i \in 3..Len(s) : Digit(s[i]) \/ s[i] = "e"
Mantissa(s) == s # <<>> /\ ToSet(s) \subseteq HexDigits \cup {"."}
               /\ \A i, j \in DOMAIN s : s[i] = "." /\ s[j] = "." => i = j
FloatText(s) ==
  LET u == Unsigned(s) IN
  \/ Mantissa(u)
  \/ \E m \in 1..(Len(u) - 1) :
       /\ Mantissa(SubSeq(u, 1, m)) /\ Digit(u[m]) /\ u[m + 1] = "e"
       /\ IntegerText(SubSeq(u, m + 2, Len(u)))

TypeReadWhole(v) ==
  v # <<>> => nl_kvp_wrapper(v, FALSE) =
    IF v \in TruthWords \/ IntegerText(v) \/ HexText(v) THEN "INTEGER"
    ELSE IF FloatText(v) /\ v # <<".">> THEN "FLOAT" ELSE "STRING"
=============================================================================
