SPECIFICATION Spec
CONSTANTS
    Names = {"f", "g", "v", "n"}
    Privatize <- UnderscoresBefore
    InitName = "____"
    None = None
    Contracts <- SmallContracts
    Liberties = {"unlinted"}
INVARIANTS CompilerInv VerdictIsItsOwn BindingsKept InterfaceIsFound
