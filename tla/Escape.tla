------------------------------- MODULE Escape -------------------------------
(***************************************************************************)
(* The string and data escapes of src/escape.c.  A character is a string:  *)
(* itself, the name of a control character with an escape of its own, or   *)
(* the two hexadecimal digits of a byte that cannot be printed.  A         *)
(* 0-terminated string is a sequence without "00".                         *)
(***************************************************************************)
EXTENDS Integers, Sequences, SequencesExt, FiniteSets

Backslash == "\\"
Quote == "\""

(* Digits and bytes that texts contain.                                      *)
HexDigits == {"0", "1"}
Unprintable == {"00", "01", "10", "11"}
HexOf(b) == CASE b = "00" -> <<"0", "0">> [] b = "01" -> <<"0", "1">>
              [] b = "10" -> <<"1", "0">> [] b = "11" -> <<"1", "1">>
ByteOf(hi, lo) == CHOOSE b \in Unprintable : HexOf(b) = <<hi, lo>>

(* esc_chars: characters and what stands for them after a backslash.         *)
esc_chars == [c \in {"tab", "nl", "cr", "vt", "ff", ":", Quote, Backslash} |->
  CASE c = "tab" -> "t" [] c = "nl" -> "n" [] c = "cr" -> "r" [] c = "vt" -> "v"
    [] c = "ff" -> "f" [] OTHER -> c]

HasEscape(c) == c \in DOMAIN esc_chars
IsEscape(c) == \E b \in DOMAIN esc_chars : esc_chars[b] = c
get_original(c) == CHOOSE b \in DOMAIN esc_chars : esc_chars[b] = c

-----------------------------------------------------------------------------
Escaped(c) == IF HasEscape(c) THEN <<Backslash, esc_chars[c]>> ELSE <<c>>
EscapedQuotes(c) == IF HasEscape(c) /\ c # Backslash THEN <<Backslash, esc_chars[c]>> ELSE <<c>>

nl_count_escapes(s) == Cardinality({i \in DOMAIN s : HasEscape(s[i])})
nl_escape_string(s) == FlattenSeq([i \in DOMAIN s |-> Escaped(s[i])])

-----------------------------------------------------------------------------
(* The text, and the count of removed characters that is returned.           *)
Unescaped(text, removed, rest) ==
  [text |-> text \o rest.text, removed |-> removed + rest.removed]

nl_unescape_string(s, include_zero, dequote) ==
  LET At(i) == IF i <= Len(s) THEN s[i] ELSE "end of string"
      quoted == dequote # "NO" /\ At(1) = Quote
      Hex(i, rest) ==   \* the escape has two digits, or one
        LET two == At(i + 3) \in HexDigits
            byte == IF two THEN ByteOf(At(i + 2), At(i + 3)) ELSE ByteOf("0", At(i + 2))
            length == IF two THEN 4 ELSE 3
        IN IF byte # "00" \/ include_zero
           THEN Unescaped(<<byte>>, length - 1, rest[i + length])
           ELSE Unescaped(<<>>, length, rest[i + length])
      From[i \in 1..(Len(s) + 1)] ==
        IF i > Len(s) THEN [text |-> <<>>, removed |-> 0]
        ELSE IF s[i] = Backslash /\ At(i + 1) = "x" /\ At(i + 2) \in HexDigits THEN Hex(i, From)
        ELSE IF s[i] = Backslash /\ IsEscape(At(i + 1))
             THEN Unescaped(<<get_original(At(i + 1))>>, 1, From[i + 2])
        ELSE IF s[i] = Backslash /\ i < Len(s)
             THEN Unescaped(<<s[i], s[i + 1]>>, 0, From[i + 2])
        ELSE IF quoted /\ s[i] = Quote /\ i = Len(s) THEN Unescaped(<<>>, 1, From[i + 1])
        ELSE Unescaped(<<s[i]>>, 0, From[i + 1])
  IN IF quoted THEN Unescaped(<<>>, 1, From[2])
     ELSE IF dequote = "IF_QUOTED" THEN [text |-> s, removed |-> 0]
     ELSE From[1]

-----------------------------------------------------------------------------
DataEscape(c) == IF c # ":" /\ HasEscape(c) THEN <<Backslash, esc_chars[c]>>
                 ELSE IF c \in Unprintable THEN <<Backslash, "x">> \o HexOf(c)
                 ELSE <<c>>

nl_count_data_escapes(data) ==
  Cardinality({i \in DOMAIN data : data[i] # ":" /\ HasEscape(data[i])})
    + 3 * Cardinality({i \in DOMAIN data : data[i] \in Unprintable})

(* nl_escape_data() works in place and backwards, in a buffer as long as the *)
(* count says.                                                               *)
EscapeTurn(b) ==
  LET escape == DataEscape(b.buf[b.src])
      dst == b.dst - Len(escape)
  IN IF b.dst < 1 \/ b.src < 1 THEN b
     ELSE [buf |-> [i \in DOMAIN b.buf |-> IF i \in (dst + 1)..b.dst THEN escape[i - dst]
                                                                     ELSE b.buf[i]],
           src |-> b.src - 1, dst |-> dst]

nl_escape_data(data, add_null) ==
  LET zero == IF add_null THEN <<"00">> ELSE <<>>
      new_size == Len(data) + Len(zero) + nl_count_data_escapes(data)
      grown == [i \in 1..new_size |-> IF i <= Len(data) THEN data[i]
                                      ELSE IF add_null /\ i = new_size THEN "00"
                                      ELSE "unset"]
      After[turns \in 0..Len(data)] ==
        IF turns = 0 THEN [buf |-> grown, src |-> Len(data), dst |-> new_size - Len(zero)]
        ELSE EscapeTurn(After[turns - 1])
  IN IF new_size = Len(data) THEN data ELSE After[Len(data)].buf

-----------------------------------------------------------------------------
(* What escaping promises of a text without zero bytes: it can be undone,     *)
(* with quotes around it or not, and the counts are those of the bytes added  *)
(* and removed.                                                               *)
StringEscapeReverses(s) ==
  LET escaped == nl_escape_string(s)
      plain == nl_unescape_string(escaped, FALSE, "NO")
      quoted == nl_unescape_string(<<Quote>> \o escaped \o <<Quote>>, FALSE, "IF_QUOTED")
  IN /\ plain.text = s /\ quoted.text = s
     /\ Len(escaped) = Len(s) + nl_count_escapes(s)
     /\ plain.removed = nl_count_escapes(s) /\ quoted.removed = plain.removed + 2

(* ... and of any data, which fills the buffer exactly.                       *)
DataEscapeReverses(data) ==
  LET escaped == nl_escape_data(data, FALSE)
      plain == nl_unescape_string(escaped, TRUE, "NO")
  IN /\ plain.text = data
     /\ plain.removed = nl_count_data_escapes(data)
     /\ nl_escape_data(data, TRUE) = Append(escaped, "00")

(* Unescaping any text at all accounts for every character.                   *)
RemovedExactly(s) ==
  \A dequote \in {"NO", "DEQUOTE", "IF_QUOTED"}, include_zero \in BOOLEAN :
    LET u == nl_unescape_string(s, include_zero, dequote)
    IN Len(u.text) + u.removed = Len(s)
=============================================================================
