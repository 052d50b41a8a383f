SPECIFICATION Spec
CONSTANTS
    W = 6
    SIZE = 16
    kMaxNumericSize = 5
    MaxDouble = 4
    MaxText = 4
    TimeLen = 2
    NameLen = 1
    FileNameLen = 2
INVARIANTS FormatsExactly StaysInside
CHECK_DEADLOCK FALSE
