SPECIFICATION Spec
CONSTANTS
  Contracts = {a, b}
  Codes = {v1, v2}
  Users = {u1, u2}
  None = None
  Depth = 3
  Liberties = {"nested", "flush", "crash"}
SYMMETRY Symmetric
INVARIANTS LoaderInv KeysComeInOrder
PROPERTIES ContractsAreKept
