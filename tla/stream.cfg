\* Every response of MCResponses, cut into chunks in every way.
SPECIFICATION StreamSpec
\* A stream that ended or failed takes no further step.
CHECK_DEADLOCK FALSE
CONSTANTS
    Responses <- MCResponses
    MaxSseBuffer = 17
    MaxAttempts = 3
INVARIANTS
    StreamSound
PROPERTIES
    ChunkingInvisible
    StreamEnds
