CONSTANTS
    ann = ann
    bob = bob
    group = group
    dm = dm
    cat = cat
    other = other
    Bots = {ann, bob}
    Rooms = {group}
    Kind <- MCKind
    Members <- MCMembers
    Mentions <- MCMentionBob
    Automations = {}
    Connects = FALSE
    Decisions = {"decline"}
    MaxHandoffDepth = 1
    MaxConcurrentTurns = 2
    Slots = {1, 2}
    MaxSeq = 2
    MaxStops = 0
    MaxCrashes = 0
SPECIFICATION Spec
INVARIANTS WaitingIsAnswerable
PROPERTIES KeepsPromise
CHECK_DEADLOCK FALSE
