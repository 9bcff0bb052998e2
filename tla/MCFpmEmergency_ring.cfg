SPECIFICATION Spec
CONSTANTS
    emergency_restart_threshold = 3
    emergency_restart_interval = 2
    StartClock = 0
    MaxClock = 8
    MaxFaults = 6
PROPERTIES ReloadNotMissed ReloadJustified
CHECK_DEADLOCK FALSE
