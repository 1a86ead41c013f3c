SPECIFICATION FairSpec
CONSTANTS
    Messages <- Said
    Garbled <- NotJSON
    Pin <- PIN
    Forms <- AllForms
    Pieces <- Sizes
    Lengths <- Limits
    BufferSize = 6
    NoBuffer = NoBuffer
    MaxFrames = 2
CHECK_DEADLOCK FALSE
INVARIANTS
    HeadersAreReadable
    NothingIsLeft
PROPERTIES
    ImplementsStream
    Delivered
