-------------------------------- MODULE Text --------------------------------
(***************************************************************************)
(* Every short text, given to the functions that read and write text: a    *)
(* writer types it character by character and starts again.                *)
(***************************************************************************)
EXTENDS Kvp, Url, Strings

CONSTANTS Alphabet,   \* the characters that matter to each reader
          MaxLength   \* the longest text each reader is given

VARIABLES reader, text
textVars == <<reader, text>>

Readers == DOMAIN Alphabet
NoReader == "none"

TextInit == reader = NoReader /\ text = <<>>

Type(c) ==
  /\ Len(text) < MaxLength[reader]
  /\ text' = Append(text, c)
  /\ UNCHANGED reader

StartWith(r) == reader' = r /\ text' = <<>>

TextNext ==
  \/ \E r \in Readers : (reader = NoReader \/ text # <<>>) /\ StartWith(r)
  \/ reader # NoReader /\ \E c \in Alphabet[reader] : Type(c)

TextSpec == TextInit /\ [][TextNext]_textVars

-----------------------------------------------------------------------------
(* Properties.                                                               *)

(* What is written can be read: escaping, percent-encoding and hexadecimal    *)
(* are undone by their inverses, on texts made of the very characters that    *)
(* the codes are made of; counts used to size buffers are exact; data with    *)
(* zero bytes survives the escape that works backwards in place; lines and    *)
(* MAC addresses are those of the text (escape.c:179, url.c:78, str.c:234,    *)
(* net.c:43).                                                                 *)
CodecsReverse ==
  CASE reader = "escape" -> /\ "00" \notin ToSet(text) => StringEscapeReverses(text)
                            /\ DataEscapeReverses(text)
                            /\ "00" \notin ToSet(text) => RemovedExactly(text)
    [] reader = "url"    -> UrlReverses(text) /\ UrlPlainKept(text)
    [] reader = "hex"    -> HexReverses(text)
    [] reader = "lines"  -> LinesReverse(text)
    [] reader = "mac"    -> MacsExactly(text)
    [] reader = "search" -> SearchesAgree(text)
    [] OTHER             -> TRUE

Cuts == 0..Len(text)
KeyAt(i) == SubSeq(text, 1, i)
ValueAt(i) == SubSeq(text, i + 1, Len(text))

(* A pair written with or without quotes is read as it was written and the    *)
(* pair behind it is not swallowed, if nothing quoted ends in a backslash;    *)
(* on a line of any form each pair is cut from places in order within the     *)
(* line, although the parser keeps lengths of earlier pairs; and a value is   *)
(* typed as a number only if it is one to its end (kvp.c:212, kvp.c:124).     *)
PairsAsWritten ==
  CASE reader = "pair"   -> \A i \in Cuts : PairReverses(KeyAt(i), ValueAt(i), FALSE)
    [] reader = "line"   -> PairsInOrder(text)
    [] reader = "number" -> TypeReadWhole(text)
    [] OTHER             -> TRUE

(* kvp.c:212 promises that keys and values are "dequoted and unescaped" and   *)
(* kvp.c:344 that a quoted value ends at a quote that is not escaped: so any  *)
(* pair that is escaped and quoted would be read back.                        *)
QuotedPairsReadBack ==
  reader = "pair" => \A i \in Cuts : PairReverses(KeyAt(i), ValueAt(i), TRUE)
=============================================================================
