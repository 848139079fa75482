CONSTANTS
    ann = ann
    bob = bob
    group = group
    dm = dm
    cat = cat
    other = other
    Bots = {ann, bob, cat}
    Rooms = {group, dm, other}
    Kind <- MCKind
    Members <- MCMembers
    Mentions <- MCMentions
    Automations = {}
    Connects = FALSE
    Decisions = {"reply", "decline"}
    MaxHandoffDepth = 1
    MaxConcurrentTurns = 2
    Slots = {}
    MaxSeq = 1
    MaxStops = 0
    MaxCrashes = 0
SPECIFICATION FairSpec
INVARIANT ExclusiveWork
PROPERTIES PlannedOrder QueuedTurnsSettle
CHECK_DEADLOCK FALSE
