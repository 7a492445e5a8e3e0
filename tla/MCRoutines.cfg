CONSTANTS
  co = co
  dual = dual
  next = next
  inner = inner
  handler = handler
  other = other
  Main = Main
  None = None
  Routines = {co, dual, next, inner, handler, other}
  Arity <- MCArity
  Uses <- MCUses
  Resumable = {co, inner}
  Startable = {dual, next}
  Pinnable = {handler, other}
  Slots = {0, 1}
  FramesMax = 2
  Yielding = {co, inner}
  Failing = {Main, inner}
  Misuses = {"unbound"}
SPECIFICATION FairSpec
CHECK_DEADLOCK FALSE
INVARIANTS OneRunner RunningIsRun PinnedIsReady
PROPERTIES StaysInside ReceiveWaits ReceiveEnds
