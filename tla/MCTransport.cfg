\* Three messages over a stream cut anywhere, one damaged symbol, a sender that may die.
CONSTANTS
    Bytes = {0, 1, 2, 3}
    Tags = {0, 1}
    Magic = 3
    Version = 1
    MaxPayload = 2
    Messages <- MCMessages
    ReadSize = 3
    MaxSent = 3
SPECIFICATION Spec
INVARIANTS BufferBounded StreamIsWhole
PROPERTIES ImplementsChannel SentIsReceived CloseIsNoticed
CHECK_DEADLOCK FALSE
