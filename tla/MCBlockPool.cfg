SPECIFICATION Spec
CONSTANTS
    NumBlocks = 4
    Hashes = {h1, h2}
    NoHash = NoHash
    MaxRef = 2
    MaxEntries = 3
INVARIANTS
    FreeListExact
    HashMapExact
PROPERTY EvictionOrder
