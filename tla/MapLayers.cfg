SPECIFICATION Spec
CONSTANTS
    LayerObjs = {l1, l2, l3, l4}
    NULL = NULL
    Dangling = Dangling
    MS_LAYER_ALLOCSIZE = 2
    MaxLayers = 3
    MaxHandles = 1
SYMMETRY LayerSymmetry
INVARIANTS
    TypeOK
    OrderIsPermutation
    IndexNamesLayer
    RefCountExact
PROPERTY
    InsertKeepsOrder
