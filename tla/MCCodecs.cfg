SPECIFICATION CodecsSpec
CONSTANTS
    OtlpBatches <- MCOtlpBatches
    WordBits = 7
    HalfBits = 4
    GroupBits = 2
    MaxGroups = 4
    Structs <- MCStructs
    IdBits = 5
    MaxShortSize = 2
    JaegerBatches <- MCJaegerBatches
    ZipkinLists <- MCZipkinLists
    NanoRange = 2000000000
    Composites <- MCComposites
    Roots <- MCRoots
    Foreign <- MCForeign
    EntryKeys = {"a", "A"}
    EntryValues = {"s", "L"}
    Lower <- MCLower
    Bytes <- MCBytes
    MaxEntries = 2
    MaxBytes = 7
    MaxHops = 2
    MaxContextEdits = 2
INVARIANTS
    UnmarshalUndoesMarshal
    
    
    
CHECK_DEADLOCK FALSE
