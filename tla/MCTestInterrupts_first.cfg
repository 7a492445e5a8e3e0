\* a sync right after a handler is added
SPECIFICATION Spec
CONSTANTS
    h1 = h1  h2 = h2  h3 = h3
    Isrs = {h1, h2, h3}
    Scripts <- FirstSyncScripts
INVARIANTS AllCounted
CHECK_DEADLOCK FALSE
