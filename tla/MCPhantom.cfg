SPECIFICATION Spec
CONSTANTS
  Contracts = {a, b}
  Codes = {v1, v2}
  Users = {u1}
  None = None
  Depth = 3
  Liberties = {"nested"}
SYMMETRY Symmetric
INVARIANTS ModulesAreTheState
