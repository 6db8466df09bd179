SPECIFICATION TextSpec
CONSTANTS
  MacOctets = 3
  Alphabet <- MCAlphabet
  MaxLength <- MCMaxLength
INVARIANTS
  QuotedPairsReadBack
