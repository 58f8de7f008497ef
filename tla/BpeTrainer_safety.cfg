SPECIFICATION Spec
CONSTANTS
  NBytes = 2
  Pieces <- MCPieces
  Texts <- MCTexts
  VocabSize = 6
  MinFrequency = 2
  MaxPieces = 3
CHECK_DEADLOCK FALSE
INVARIANTS
  IndexSound
  MergesAreNew
  EncodeFaithful
PROPERTIES
  Greedy
