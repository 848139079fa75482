CONSTANTS
    e2b = e2b
    daytona = daytona
    u1 = u1
    u2 = u2
    Nobody = Nobody
    Providers = {e2b}
    Users = {u1, u2}
    Requests = {"stop", "restart"}
    Faults = {"open", "stop", "call"}
    MaxTurns = 1
    MaxInstances = 1
    MaxCrashes = 1
    MaxFaults = 1
SPECIFICATION Spec
INVARIANTS TypeOK SessionFollowsMachine RunningIsTimed
PROPERTIES IdleStopSpares
CHECK_DEADLOCK FALSE
