SPECIFICATION ViewSpec
CONSTANTS
  Symbols <- MCSymbols
  Base = 3
  Capacity = 5
  Outputs = {o1}
  Texts <- MCTexts
  Inputs <- MCEverywhere
  Again = {}
  PartRoom = 3
  LiteralRoom = 20
  Served <- MCServed
  Alignments = {0, 2}
  Lengths = {0, 1, 4}
PROPERTIES
  TagsTakeNoSubstitution
