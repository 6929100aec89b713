CONSTANTS
    ElemTypes <- MCElemTypes
    Depth = 2

SPECIFICATION Spec

INVARIANTS
    LintReturns
