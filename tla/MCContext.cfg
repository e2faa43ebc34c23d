SPECIFICATION ContextSpec
CONSTANTS
  a = a
  b = b
  c = c
  d = d
  alice = alice
  ContractNames <- MCContracts
  Signers = {alice, bob}
  Nobody = Nobody
  Owner <- MCOwner
  MaxLen = 5
  MaxCalls = 5
  SelfCalls = FALSE
INVARIANTS ContextInv SeesItsOwnFrame
