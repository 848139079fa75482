CONSTANTS
    local = local
    e2b = e2b
    daytona = daytona
    k1 = k1
    k2 = k2
    w1 = w1
    w2 = w2
    t1 = t1
    t2 = t2
    Old = Old
    Nothing = Nothing
    Providers = {local, e2b}
    Direct = {local}
    Keys = {k1}
    Writers = {w1}
    Turns = {t1}
    Requests = {"switch", "credentials", "destroy"}
    Faults = {"open", "write", "scan"}
    MaxRequests = 1
    MaxFaults = 1
SPECIFICATION Spec
INVARIANTS TypeOK CopiesArrive LockMoves
PROPERTIES DeletesAreReal NoWriteReverted
CHECK_DEADLOCK FALSE
