SPECIFICATION Spec
CONSTANTS
    None = None
    Base = 3
    IntBits = 5
    Schemas <- MCSplitSchemas
    Lengths <- MCLengths
    MaxInput = 6
    MaxChunk = 5
INVARIANTS
    SplitsDoNotMatter
