SPECIFICATION Spec
CONSTANTS
    Addresses = {a}
    Cells = {1, 2}
    MaxEvents = 4
    MaxMemory = 2
PROPERTIES PeekSeesLastPoke SyncPassesIffPaired
