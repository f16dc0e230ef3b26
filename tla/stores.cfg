SPECIFICATION Spec
CONSTANTS
    c1 = c1
    c2 = c2
    c3 = c3
    Calls = {c1, c2, c3}
    Tabs = {"t1", "t2"}
    TabOf <- InTab
    KindsOf <- Kinds
    ModesOf <- TabModes
    NKeys = 6
    None = None
INVARIANTS
    StoresInv
PROPERTIES
    BoundReturn
    RequiredPersists
    EveryCallSettles
CHECK_DEADLOCK FALSE
