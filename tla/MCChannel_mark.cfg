\* core 1 shares while core 0 collects garbage and marks the channel
SPECIFICATION Spec
CONSTANTS
    core0 = core0  core1 = core1  isr = isr
    Actors = {core0, core1}
    Handlers = {}
    Core <- CoreOf
    Senders = {}
    Sharers = {core1}
    Receivers = {}
    Peekers = {}
    Markers = {core0}
    Data = {d1, d2}
    Nil = Nil  Torn = Torn
    NoOne = NoOne
    Capacity = 3
    SizeT = 16
PROPERTIES MarkCoversHeld
