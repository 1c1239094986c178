CONSTANTS
  Symbols = {x, y}
  Nil = nil
  Atoms = {nil, one}
  It = it
  Paths <- MCPaths
  Indices <- MCIndices
  MaxList = 2
  MaxActive = 1
  MaxNodes = 2
  Missing = missing
SPECIFICATION Spec
INVARIANTS TypeOK Acyclic SwapExchangesApart
PROPERTY ImplementsPlaces
SYMMETRY MCSymmetry
