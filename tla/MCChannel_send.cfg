\* core 1 sends, core 0 receives
SPECIFICATION FairSpec
CONSTANTS
    core0 = core0  core1 = core1  isr = isr
    Actors = {core0, core1}
    Handlers = {}
    Core <- CoreOf
    Senders = {core1}
    Sharers = {}
    Receivers = {core0}
    Peekers = {core1}
    Markers = {}
    Data = {d1, d2}
    Nil = Nil  Torn = Torn
    NoOne = NoOne
    Capacity = 3
    SizeT = 16
INVARIANTS WaitStillHolds
PROPERTIES ImplementsQueue CallsComplete
