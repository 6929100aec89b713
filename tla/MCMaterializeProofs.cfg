CONSTANTS
    Tops <- MCTops
    Kids <- MCKids
    AtNames <- MCAtNames
    ContractsLike <- MCContractsLike
    MetaRemaps <- MCMetaRemaps
    MaxTops = 3
    MaxFiles = 3

SPECIFICATION Spec
INVARIANT
    IInv
    RInv
