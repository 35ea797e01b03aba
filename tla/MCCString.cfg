SPECIFICATION Spec
CONSTANTS
  Size = 5
  Bytes <- MCBytes
  Ints <- MCInts
  CharSets <- MCCharSets
  MaxTokens = 4
  NULL = NULL
INVARIANTS
  
  SearchesAreExact
  TokensAreTheWords
