SPECIFICATION Spec
CONSTANTS
    Size = 5
    Radix = 3
    MaxBody = 8
    MaxFields = 3
    ForgedNum <- MCForgedNum
    MaxRecFields = 2
    MaxArray = 2
    RecWidths = {1, 2}
    RecBytes = {1, 2}
INVARIANTS
    TypeOK
    EncodersWriteMaximalRuns
    DecodeInvertsEncode
    ReadsAtMostTerminator
    AcceptedPagesAscend
    AppendStaysInside
    RecordRoundTrip
    OverreadStopsAtEnd
