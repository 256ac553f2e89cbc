CONSTANTS
  c1 = c1
  c2 = c2
  c3 = c3
  NoClient = NoClient
  Clients = {c1, c2, c3}
  Kinds <- Most
  MaxInput = 2
SPECIFICATION Spec
SYMMETRY Symmetry
INVARIANTS ClientsAccounted NobodyForgotten
PROPERTY ServedInTurn
CHECK_DEADLOCK FALSE
