CONSTANTS
    Devices = {"d1", "d2"}
    Indexes = {1, 4}
    LineCalls <- SomeLineCalls
    MaxLineCalls = 2
    Families = {"AM", "BM", "2232C", "R", "2232H", "4232H", "232H", "230X"}
    External <- TwoSizes
    SetCalls <- SomeValues
    UserStrings <- SomeStrings
    UserEnds = {108}
    MaxCalls <- CallsByType
    LineFamilies = {"AM"}
    MaxFaults = 1
    BuildsClosed = FALSE
SPECIFICATION Spec
INVARIANTS TypeOK LineAsAsked InitializedForThisDevice ReadBack TablesAgree
PROPERTIES EraseFindsChip
CHECK_DEADLOCK FALSE
