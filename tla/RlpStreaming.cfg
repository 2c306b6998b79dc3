SPECIFICATION Spec
CONSTANTS
    Strings <- MCStrings
    Numbers <- MCNumbers
    ChunkSizes <- MCChunkSizes
    Wire <- MCWire
    MaxOps = 3
INVARIANTS
    EncodedAsSpecified
    DecodesBack
    ChunksReassemble
    AcceptedIsCanonical
CHECK_DEADLOCK FALSE
