\* Four blocks: every order of the free list, every mixture of counts up to 3.
CONSTANTS
    NumBlocks = 4
    MaxRefs = 3
SPECIFICATION Spec
INVARIANTS
    FreeListExact
PROPERTY PoolSpec
