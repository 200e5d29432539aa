SPECIFICATION Spec
CONSTANTS
    Literals = {1, 2, 3}
    Buffers <- MCBuffers
    TextAt <- MCTextAt
    Texts <- MCTexts
    Dispatchers = {d1, d2}
    Buckets = 3
    CharIsSigned = TRUE
    None = None
    EntryBound = 2
INVARIANTS
    HashIsPolynomial
    AddressesFound
PROPERTIES
    TableIsMap
    FoundByContents
