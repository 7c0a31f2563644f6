SPECIFICATION ViewSpec
SYMMETRY MCSymmetry
VIEW MCView
CONSTANTS
  Symbols <- MCSymbols
  Base = 3
  Capacity = 5
  Outputs = {o1, o2}
  Texts <- MCTexts
  Inputs <- MCInputs
  Again <- MCAgain
  PartRoom = 3
  LiteralRoom = 8
  Served <- MCServed
  Alignments = {0, 2}
  Lengths = {0, 1, 4}
INVARIANTS
  LiveMemoryIntact
PROPERTIES
  RenderAllOrNothing
  PreparedIsExact
