------------------------------- MODULE Strings -------------------------------
(***************************************************************************)
(* The string functions of src/str.c, and nl_parse_mac() of src/net.c.     *)
(***************************************************************************)
EXTENDS Integers, Sequences, SequencesExt, FiniteSetsExt

CONSTANT MacOctets   \* 6 in the code
ASSUME MacAssumption == MacOctets \in Nat \ {0}

-----------------------------------------------------------------------------
(* Searching and comparing.  Positions start at 1; 0 is NULL.                *)
nl_strnpbrk(str, accept, size) ==
  LET found == {i \in DOMAIN str : i <= size /\ str[i] \in accept}
  IN IF found = {} THEN 0 ELSE Min(found)

nl_strcount(str, c) == Cardinality({i \in DOMAIN str : str[i] = c})

nl_strstart(str, start) == SubSeq(str, 1, Min({Len(str), Len(start)})) = start

nl_strend(str, end) ==
  LET offset == Max({0, Len(str) - Len(end)})
  IN SubSeq(str, offset + 1, Len(str)) = end

(* The loop goes on as long as both strings do and agree.                    *)
nl_strcommon(a, b) ==
  LET common[n \in 0..Len(a)] ==
        IF n < Len(a) /\ n < Len(b) /\ a[n + 1] = b[n + 1] THEN common[n + 1] ELSE n
  IN common[0]

-----------------------------------------------------------------------------
(* Hexadecimal.  A nibble is a number, a byte two of them; a digit is a      *)
(* number with its case, which converting to a number forgets.               *)
digit(n, upper) == [hex |-> n, upper |-> upper]
NotADigit == [hex |-> 16, upper |-> FALSE]
isxdigit(c) == c.hex < 16

nl_to_hex(data) == FlattenSeq([i \in DOMAIN data |-> <<digit(data[i][1], FALSE),
                                                       digit(data[i][2], FALSE)>>])

nl_from_hex(hex) ==
  LET From[i \in 1..(Len(hex) + 2)] ==
        IF i + 1 <= Len(hex) /\ isxdigit(hex[i]) /\ isxdigit(hex[i + 1])
        THEN <<<<hex[i].hex, hex[i + 1].hex>>>> \o From[i + 2]
        ELSE <<>>
  IN From[1]

nl_keep_only_hex(str) ==
  FlattenSeq([i \in DOMAIN str |-> IF isxdigit(str[i]) THEN <<digit(str[i].hex, FALSE)>>
                                   ELSE <<>>])

-----------------------------------------------------------------------------
(* nl_split_lines(), with a callback that stops at the line number `stop':   *)
(* the lines it is given and the count that is returned.                     *)
Split(l, off) ==
  [l EXCEPT !.lines = Append(@, SubSeq(l.data, l.start, off - 1)), !.count = @ + 1,
            !.stopped = Len(l.lines) + 1 = l.stop]

LineTurnSingly(l, off) ==
  IF l.stopped \/ off < l.skip \/ l.data[off] \notin {"cr", "nl"} THEN l
  ELSE [Split(l, off) EXCEPT !.start = off + 1, !.skip = off + 1]

LineTurn(l, off) ==
  IF l.stopped \/ off < l.skip \/ l.data[off] \notin {"cr", "nl"} THEN l
  ELSE LET crlf == off < Len(l.data) /\ l.data[off] = "cr" /\ l.data[off + 1] = "nl"
           next == IF crlf THEN off + 2 ELSE off + 1
       IN [Split(l, off) EXCEPT !.start = next, !.skip = next]

nl_split_lines(data, stop) ==
  LET begin == [data |-> data, stop |-> stop, lines |-> <<>>, count |-> 0,
                start |-> 1, skip |-> 1, stopped |-> FALSE]
      After[off \in 0..Len(data)] == IF off = 0 THEN begin ELSE LineTurn(After[off - 1], off)
      end == After[Len(data)]
  IN IF ~end.stopped /\ end.start <= Len(data) THEN Split(end, Len(data) + 1) ELSE end

-----------------------------------------------------------------------------
(* nl_parse_mac(): one turn of its loop, over a text that ends with NUL.     *)
(* Characters: "h" for a hexadecimal digit, "-", ":", "NUL" or another.      *)
Separators == {"-", ":"}

(* A digit that may be the first of an octet.                                *)
Digit1(m, c, sep) ==
  IF c = "h" THEN [m EXCEPT !.state = "WANT_DIGIT_2", !.digits = @ + 1, !.expect_sep = sep]
             ELSE [m EXCEPT !.state = "INVALID"]

Digit2(m, c) ==
  LET digits == m.digits + 1 IN
  IF c # "h" THEN [m EXCEPT !.state = "INVALID"]
  ELSE [m EXCEPT !.digits = digits,
          !.state = IF digits = 2 * MacOctets THEN "WANT_END"
                    ELSE IF digits = 2 THEN "WANT_DIGIT_1_OR_SEP"
                    ELSE IF m.expect_sep # "none" THEN "WANT_SEP" ELSE "WANT_DIGIT_1"]

MacTurn(m, c) ==
  CASE m.state \in {"DONE", "INVALID"} -> m
    [] m.state = "WANT_DIGIT_1_OR_SEP" ->
         IF c \in Separators THEN [m EXCEPT !.state = "WANT_DIGIT_1", !.expect_sep = c]
                             ELSE Digit1(m, c, m.expect_sep)
    [] m.state = "WANT_DIGIT_1" -> Digit1(m, c, m.expect_sep)
    [] m.state = "WANT_DIGIT_2" -> Digit2(m, c)
    [] m.state = "WANT_SEP" -> [m EXCEPT !.state = IF c = m.expect_sep THEN "WANT_DIGIT_1"
                                                                        ELSE "INVALID"]
    [] m.state = "WANT_END" -> [m EXCEPT !.state = IF c = "NUL" THEN "DONE" ELSE "INVALID"]

nl_parse_mac(mac_in) ==
  LET begin == [state |-> "WANT_DIGIT_1", digits |-> 0, expect_sep |-> "none"]
      After[i \in 0..Len(mac_in)] ==
        IF i = 0 THEN begin ELSE MacTurn(After[i - 1], mac_in[i])
  IN MacTurn(After[Len(mac_in)], "NUL").state = "DONE"

-----------------------------------------------------------------------------
(* The lines of a text: each is what precedes a line end, or the end of a     *)
(* text that does not end in one, back to the last character of a line end.   *)
(* The "nl" of a "cr", "nl" is no end of its own.                             *)
IsBreak(c) == c \in {"cr", "nl"}
LineEnd(data, e) ==
  IF e > Len(data) THEN data # <<>> /\ ~IsBreak(Last(data))
  ELSE data[e] = "cr" \/ (data[e] = "nl" /\ ~(e > 1 /\ data[e - 1] = "cr"))
LineBefore(data, e) ==
  SubSeq(data, Max({0} \cup {i \in 1..(e - 1) : IsBreak(data[i])}) + 1, e - 1)

LinesOf(data) ==
  LET ends == {e \in 1..(Len(data) + 1) : LineEnd(data, e)}
      Nth(k) == CHOOSE e \in ends : Cardinality({d \in ends : d <= e}) = k
  IN [k \in 1..Cardinality(ends) |-> LineBefore(data, Nth(k))]

(* Every line is given once, whatever mixture of line ends the text has, and  *)
(* a callback that stops gets the lines up to there.                          *)
LinesReverse(data) ==
  LET lines == LinesOf(data) IN
  \A stop \in 0..2 :
    LET l == nl_split_lines(data, stop) IN
    /\ l.lines = IF stop \in DOMAIN lines THEN SubSeq(lines, 1, stop) ELSE lines
    /\ l.count = Len(l.lines)

(* MAC addresses are octets, all of them separated by the same character or   *)
(* none of them.                                                              *)
Mac(sep) == FlattenSeq([i \in 1..MacOctets |->
              IF i = 1 \/ sep = "none" THEN <<"h", "h">> ELSE <<sep, "h", "h">>])
MacsExactly(text) ==
  nl_parse_mac(text) <=> text \in {Mac(sep) : sep \in Separators \cup {"none"}}

(* Two strings' common start, and the searches, say the same.                 *)
SearchesAgree(text) ==
  \A i \in 0..Len(text) :
    LET start == SubSeq(text, 1, i)  end == SubSeq(text, i + 1, Len(text)) IN
    /\ nl_strstart(text, start) /\ nl_strend(text, end)
    /\ nl_strcommon(text, start) = i
    /\ nl_strstart(end, start) <=> nl_strcommon(start, end) = i
    /\ nl_strend(start, end) <=> IsSuffix(end, start)
    /\ \A c \in ToSet(text) :
         nl_strcount(start, c) + nl_strcount(end, c) = nl_strcount(text, c)
    /\ \A c \in ToSet(text) :
         nl_strnpbrk(text, {c}, i) = 0 <=> nl_strcount(start, c) = 0

(* Hexadecimal text is read back, up to the first character that is none.     *)
HexReverses(hex) ==
  LET data == nl_from_hex(hex)
      clean == nl_keep_only_hex(hex)
      full == 2 * (Len(clean) \div 2)
  IN /\ IsPrefix(nl_to_hex(data), nl_keep_only_hex(hex))
     /\ nl_from_hex(nl_to_hex(data)) = data
     /\ nl_to_hex(nl_from_hex(clean)) = SubSeq(clean, 1, full)
=============================================================================
