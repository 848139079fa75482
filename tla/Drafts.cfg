CONSTANTS
    t1 = t1
    t2 = t2
    Nobody = Nobody
    Tabs = {t1, t2}
    MaxTexts = 3
    MaxVisits = 3
SPECIFICATION DraftsSpec
INVARIANTS DraftsTypeOK SavesOnlyTyped StorageFollows
SYMMETRY Symmetry
CHECK_DEADLOCK FALSE
