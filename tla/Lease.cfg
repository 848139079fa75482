CONSTANTS
    ann = ann
    bob = bob
    t1 = t1
    t2 = t2
    s1 = s1
    s2 = s2
    Bot = Bot
    Users = {ann, bob}
    Turns = {t1}
    Sockets = {s1}
    MaxStreams = 1
    MaxTail = 1
    MaxEpoch = 2
    MaxRejections = 1
SPECIFICATION FairSpec
INVARIANTS TakeoverIsNoticed ControlFollowsHolder
PROPERTIES WaitersWake LeaseReturns
CHECK_DEADLOCK FALSE
