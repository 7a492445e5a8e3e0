CONSTANTS
  a = a
  b = b
  c = c
  d = d
  Keys = {a, b, c, d}
  Nil = Nil
  True = True
  Values = {Nil, True}
  NoKey = NoKey
  Absent = Absent
  NoAnswer = NoAnswer
  Hash <- MCHash
  FirstCapacity = 4
  MaxCapacity = 8
SPECIFICATION Spec
CHECK_DEADLOCK FALSE
INVARIANTS ProbesEnd KeysAreFound
PROPERTIES ImplementsMap NoWhiteLeft
