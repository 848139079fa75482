CONSTANTS
    ann = ann
    bob = bob
    r1 = r1
    e1 = e1
    Bots = {ann}
    Setups <- MCSetups
    Requests = {r1}
    Keys = {1}
    Editors = {e1}
    FailureLimit = 2
    MaxInvocations = 2
    MaxTime = 2
    MaxCrashes = 1
SPECIFICATION FairSpec
INVARIANTS StrikesPause  
 
CHECK_DEADLOCK FALSE
