SPECIFICATION StatusSpec
CONSTANTS
    Codes = {undefinedHeader}
    NoError = noError
    QueueOverflow = queueOverflow
    Capacity = 1
    MaxErrors = 2
    Watches <- EachRegister
    Masks <- OpenOrShut
    ByteMasks <- ByteValues
INVARIANTS
    NoPhantomEvents
    LastingRiseReported
    ServiceRequested
    ReadingsTellTheirInputs
