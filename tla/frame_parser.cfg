SPECIFICATION Spec
CONSTANTS
    None = None
    Base = 3
    IntBits = 5
    Schemas <- MCSchemas
    Lengths <- MCLengths
    MaxInput = 6
    MaxChunk = 5
INVARIANTS
    FramesAsScanned
    StreamIntact
    NeverStarves
    FieldsInPayload
