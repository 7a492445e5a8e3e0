\* the README's button: a handler of core 0 shares; core 0 receives, peeks
\* and collects garbage
SPECIFICATION FairSpec
CONSTANTS
    core0 = core0  core1 = core1  isr = isr
    Actors = {core0, isr}
    Handlers = {isr}
    Core <- CoreOf
    Senders = {}
    Sharers = {isr}
    Receivers = {core0}
    Peekers = {core0}
    Markers = {core0}
    Data = {d1, d2}
    Nil = Nil  Torn = Torn
    NoOne = NoOne
    Capacity = 3
    SizeT = 16
INVARIANTS Inv
PROPERTIES PeekSeesQueued MarkCoversHeld ImplementsQueue
