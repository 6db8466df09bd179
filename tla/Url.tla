--------------------------------- MODULE Url ---------------------------------
(***************************************************************************)
(* Percent encoding and decoding, src/url.c.  The characters are those of  *)
(* which something is said: allowed, reserved, plus, percent, a space, a   *)
(* byte above 127, and the digits of their codes.                          *)
(***************************************************************************)
EXTENDS Integers, Sequences, SequencesExt

UrlHex == [c \in {" ", "%", "+", "/", "f2"} |->
  CASE c = " " -> <<"2", "0">> [] c = "%" -> <<"2", "5">> [] c = "+" -> <<"2", "b">>
    [] c = "/" -> <<"2", "f">> [] OTHER -> <<"f", "2">>]

UrlDigits == {"0", "2", "5", "b", "f"}
Reserved == {"+", "/"}
Alphanumeric == UrlDigits \cup {"z"}

nl_url_is_allowed(c, allow_reserved) == c \in Alphanumeric \/ (allow_reserved /\ c \in Reserved)

Encoded(c, encode_space, allow_reserved) ==
  IF nl_url_is_allowed(c, allow_reserved) THEN <<c>>
  ELSE IF c = " " /\ ~encode_space THEN <<"+">>
  ELSE <<"%">> \o UrlHex[c]

nl_url_encode(s, encode_space, allow_reserved) ==
  FlattenSeq([i \in DOMAIN s |-> Encoded(s[i], encode_space, allow_reserved)])

ByteOfCode(code) == IF \E c \in DOMAIN UrlHex : UrlHex[c] = code
                    THEN CHOOSE c \in DOMAIN UrlHex : UrlHex[c] = code
                    ELSE "another byte"

nl_url_decode(s, ignore_plus) ==
  LET IsCode(i) == /\ s[i] = "%" /\ i + 2 <= Len(s)
                   /\ s[i + 1] \in UrlDigits /\ s[i + 2] \in UrlDigits
                   /\ <<s[i + 1], s[i + 2]>> # <<"0", "0">>
      From[i \in 1..(Len(s) + 1)] ==
        IF i > Len(s) THEN <<>>
        ELSE IF IsCode(i) THEN <<ByteOfCode(<<s[i + 1], s[i + 2]>>)>> \o From[i + 3]
        ELSE IF s[i] = "+" /\ ~ignore_plus THEN <<" ">> \o From[i + 1]
        ELSE <<s[i]>> \o From[i + 1]
  IN From[1]

-----------------------------------------------------------------------------
(* Decoding undoes encoding whenever plus means the same on both sides: it is *)
(* decoded as a space and never left in the code, or not decoded and spaces   *)
(* are not written so.                                                        *)
UrlReverses(s) ==
  \A encode_space, allow_reserved, ignore_plus \in BOOLEAN :
    (IF ignore_plus THEN encode_space ELSE ~allow_reserved) =>
      nl_url_decode(nl_url_encode(s, encode_space, allow_reserved), ignore_plus) = s

(* What decoding leaves alone: text with neither code nor plus.               *)
UrlPlainKept(s) ==
  ToSet(s) \cap {"%", "+"} = {} => \A plus \in BOOLEAN : nl_url_decode(s, plus) = s
=============================================================================
