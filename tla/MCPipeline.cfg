CONSTANTS
    Files <- MCFiles
    Contracts <- MCContracts
    Target = "T"

SPECIFICATION Spec
INVARIANT TypeOK
INVARIANT RejectedBeforeWrite
INVARIANT CloneMetaNamesUniqueTarget
INVARIANT OkRunLeavesReadOnlyRecord
