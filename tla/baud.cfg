CONSTANTS
    Types = {"AM", "BM", "232H"}
    Bauds <- SomeBauds
    ControlFails = TRUE
SPECIFICATION Spec
INVARIANTS TypeOK ChipAtBaudrate BitbangIsKnown AMDivisorExists DivisorIsClosest
