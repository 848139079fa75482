CONSTANTS
    e2b = e2b
    daytona = daytona
    u1 = u1
    u2 = u2
    Nobody = Nobody
    Providers = {e2b, daytona}
    Users = {u1}
    Requests = {"switch", "credentials", "destroy"}
    Faults = {}
    MaxTurns = 0
    MaxInstances = 2
    MaxCrashes = 0
    MaxFaults = 0
SPECIFICATION Spec
INVARIANTS SessionFollowsMachine
CHECK_DEADLOCK FALSE
