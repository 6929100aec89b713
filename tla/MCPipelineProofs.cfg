CONSTANTS
    Files <- MCFiles
    Contracts <- MCContracts
    Target = "T"

SPECIFICATION Spec
INVARIANT IInv
