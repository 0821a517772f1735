SPECIFICATION Spec
CONSTANTS
    Addresses = {a1, a2, a3, a4, a5}
    Null = Null
    BlockSize = 16
    Header = 10
    DataHeader = 8
    NodeSize = 4
    Alignment = 2
    MaxAlloc = 15
    SizeModulus = 64
    FailLimit = 0
    ProbeLimit = 0
    Sizes = {3, 6, 7}
SYMMETRY AddressSymmetry
INVARIANTS
    ChunksApart
    HeapOwnedOnce
    NodesInPlace
    FailuresAlongChain
