CONSTANTS
    Names = {"b", "c"}
    Byte = {"x", "nl"}
    Zero = "x"
    Newline = "nl"
    MaxLen = 2
    Strings <- MCStrings
    KInititalSize = 2
    KCheapPrepend = 1
    ExtraSize = 2
    MaxReadable = 2
SPECIFICATION Spec
INVARIANTS TypeOK AssertsHold BoundedCapacity
PROPERTIES ImplementsByteQueue
CHECK_DEADLOCK FALSE
