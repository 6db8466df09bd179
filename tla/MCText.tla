------------------------------- MODULE MCText -------------------------------
(* The characters that matter to each reader of Text, and how many of them. *)
EXTENDS Text

Specials == {"a", "=", " ", Quote, Backslash}

MCAlphabet == [
  escape |-> {"nl", ":", Quote, Backslash, "n", "x", "0", "1", "00", "11"},
  url    |-> {" ", "%", "+", "/", "f2"} \cup Alphanumeric,
  hex    |-> {digit(1, FALSE), digit(10, FALSE), digit(10, TRUE), NotADigit},
  lines  |-> {"a", "cr", "nl"},
  mac    |-> {"h", "-", ":"},
  search |-> {"a", "b"},
  pair   |-> Specials,
  line   |-> Specials,
  number |-> {"0", "1", ".", "e", "+", "x"}]

MCMaxLength == [escape |-> 4, url |-> 4, hex |-> 5, lines |-> 6, mac |-> 9, search |-> 5,
                pair |-> 4, line |-> 7, number |-> 5]
=============================================================================
