SPECIFICATION Spec
CONSTANTS
  Nodes = {n1, n2, n3, n4, n5, n6}
  Sentinel = Sentinel
  Null = Null
  Width = 3
  Keys = {0, 3, 6}
SYMMETRY Symmetry
INVARIANTS RedBlack
PROPERTIES ImplementsQueue LoopsClimb
