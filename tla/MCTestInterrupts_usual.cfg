\* settled scripts, and scripts that raise an interrupt twice or remove
\* handlers and do not settle
SPECIFICATION Spec
CONSTANTS
    h1 = h1  h2 = h2  h3 = h3
    Isrs = {h1, h2, h3}
    Scripts <- AllScripts
INVARIANT RunsOncePerInterrupt
PROPERTIES  SyncWaitsForHandlers ScriptEnds
CHECK_DEADLOCK FALSE
