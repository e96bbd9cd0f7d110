SPECIFICATION FairSpec
CONSTANTS
    plain = plain
    again = again
    late = late
    bad = bad
    mute = mute
    broken = broken
    garbled = garbled
    w1 = w1
    w2 = w2
    None = None
    Requests <- SmallRequests
    Workers = {w1, w2}
    Malformed = {garbled}
    NoAction = {mute}
    NoOutput = {mute}
    ImportOutcomes <- MCImport
    JobOutcomes <- MCJob
    MaxSerial = 2
    SizeMod = 8
PROPERTIES
    ImplementsService
    EveryRequestHandled
