CONSTANTS
    Unread = Unread
    MaxMessages = 2
    Limit = 1
    MaxFaults = 1
    MaxRefetches = 1
SPECIFICATION Spec
INVARIANTS TypeOK NothingElseMissed OnlyOwnDisorders 
CHECK_DEADLOCK FALSE
