SPECIFICATION ClockSpec
CONSTANTS
    MaxForward = 1
    ConfirmSpan = 2
    MinConfirmations = 3
    MaxReading = 6
    MaxSeen = 5
INVARIANTS ClockTypeOK PendingIsWitnessed
PROPERTIES LeapsAreCorroborated
CHECK_DEADLOCK FALSE
