SPECIFICATION Spec
CONSTANT Devices = {"/dev/ttyUSB1"}
INVARIANTS OneSource GapsAreKnown ManagedOnce
CHECK_DEADLOCK FALSE
