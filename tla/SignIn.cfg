CONSTANTS
    Health = Health
    t1 = t1
    c1 = c1
    c2 = c2
    Refreshers = {Health, t1}
    Callbacks = {c1, c2}
    MaxSignIns = 2
    MaxTokens = 2
    MaxDisconnects = 1
SPECIFICATION Spec
INVARIANTS TypeOK LoneSignInConnects
CHECK_DEADLOCK FALSE
SYMMETRY Symmetry
