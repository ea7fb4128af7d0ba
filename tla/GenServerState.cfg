\* Scaled widths: AsciiMax < ByteMax < Int32Max < DoubleMax < Int64Max.
CONSTANTS
    AsciiMax = 0
    ByteMax = 1
    Int32Max = 3
    DoubleMax = 8
    Int64Max = 32
    Requests <- AllRequests
    Values <- AllValues
    MaxDepth = 4
    Names <- AllNames
    MaxLen = 2
SPECIFICATION Spec
INVARIANTS KeptIfPlain Settled
