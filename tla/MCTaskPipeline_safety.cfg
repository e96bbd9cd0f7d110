SPECIFICATION Spec
CONSTANTS
    plain = plain
    again = again
    late = late
    bad = bad
    mute = mute
    broken = broken
    garbled = garbled
    w1 = w1
    w2 = w2
    None = None
    Requests <- SafetyRequests
    Workers = {w1, w2}
    Malformed = {}
    NoAction = {mute}
    NoOutput = {mute, bad}
    ImportOutcomes <- MCImport
    JobOutcomes <- MCJob
    MaxSerial = 2
    SizeMod = 8
INVARIANTS
    TypeOK
    DequeueNeverWaits
    LabelsCorrect
    WatcherThrowsOnlyMislabelled
