CONSTANTS
    Contexts = {"w1", "w2"}
    Wrappers = {"w1", "w2"}
    Creating = {"w1", "w2"}
    Bus <- ThreeDevices
    Product <- TwoProducts
    UsbDevices <- TwoEntries
    ConfigPort <- PortA
    Ports = {0, 1}
    AppUsb = FALSE
    MaxFaults = 0
SPECIFICATION Spec
INVARIANT ExitIsLast
