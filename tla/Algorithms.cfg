SPECIFICATION AlgorithmsSpec
CONSTANTS
  Keys <- MCKeys
  Null = Null
  Letters <- MCLetters
  Texts <- MCTexts
  Rank <- Place
  MaxPattern = 4
  MaxString = 3
INVARIANTS RedBlack GlobRight
PROPERTIES ImplementsKeySet LoopsClimb
CHECK_DEADLOCK FALSE
