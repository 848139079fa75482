CONSTANTS
    t1 = t1
    t2 = t2
    t3 = t3
    Nobody = Nobody
    Turns = {t1, t2}
    MaxTabs = 2
    MaxLosses = 1
    MaxStalls = 1
SPECIFICATION Spec
 
PROPERTIES KeepsItsTab 
CHECK_DEADLOCK FALSE
SYMMETRY Symmetry
