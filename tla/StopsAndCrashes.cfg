CONSTANTS
    ann = ann
    bob = bob
    group = group
    dm = dm
    cat = cat
    other = other
    Bots = {ann, bob}
    Rooms = {group}
    Kind <- MCKind
    Members <- MCMembers
    Mentions <- MCMentions
    Automations <- MCAutomations
    Connects = TRUE
    Decisions = {"reply", "decline", "error", "nokey"}
    MaxHandoffDepth = 1
    MaxConcurrentTurns = 2
    Slots = {1}
    MaxSeq = 1
    MaxStops = 1
    MaxCrashes = 1
SPECIFICATION Spec
INVARIANTS AnswersOnce NeverSilent OneNotice FreshIsHeld
PROPERTIES FinalStaysFinal
\* the last message may have been answered and everybody gone
CHECK_DEADLOCK FALSE
