SPECIFICATION MemorySpec
CONSTANTS
    Resources = {"pool", "buffer"}
    c1 = c1  c2 = c2
    r1 = r1  r2 = r2  r3 = r3
    Classes = {c1, c2}
    Regions = {r1, r2, r3}
    MaxBlocks = 3
    DefaultNextCapacity = 1
    ReleaseEmpty = TRUE
    Oversized = Oversized
    Null = Null
    MaxSize = 63
    HeaderSize = 2
    HeaderAlign = 2
    MinBufferSize = 3
    MaxLive = 2
    Alignments = {1, 4}
    Sizes = {0, 1, 5, 9, 63}
    Bases = {10, 14, 40}
    InitialSizes = {2, 33, 63}
SYMMETRY Symm
INVARIANTS TypeOK BlockAccounting UpstreamConserved ListsExact BumpIsSafe
PROPERTIES NewChunkOnlyWhenFull ContractSpec ChunkServesRequest
