SPECIFICATION Spec
CONSTANTS
    r1 = r1
    r2 = r2
    rotated = rotated
    off = off
    NoRow = NoRow
    NoPin = NoPin
    Rows = {r1, r2, rotated, off}
    Enabled = {r1, r2, rotated}
    PinOf <- MCPinOf
    Backoff <- MCBackoff
    N = 1
    ActiveInterval = 1
    IdleInterval = 2
    ProbeInterval = 1
    Hysteresis = 2
    Spacing = 1
    MaxDisturb = 4
INVARIANTS TypeOK 
PROPERTIES  DeadlineOutlivesRestart
