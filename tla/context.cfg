CONSTANTS
    Contexts = {"w1", "w2", "c"}
    Wrappers = {"w1", "w2"}
    Creating = {"w1"}
    Bus <- ThreeDevices
    Product <- TwoProducts
    UsbDevices <- TwoEntries
    ConfigPort <- PortA
    Ports = {0, 1}
    AppUsb = TRUE
    MaxFaults = 1
SPECIFICATION Spec
INVARIANTS TypeOK NoHandleLost SessionHoldsClaim ExitIsLast NothingLeftBehind FirstDeviceOpened
