CONSTANTS
  Base = 4
  MaxDigits = 4
  Radix = 3
  Chunk = 4
  Junk = 2
  Lefts <- MCLefts
  Rights <- MCRights
SPECIFICATION Spec
INVARIANTS DivisionKeepsSum ResultIsExact ComparisonsAgree ConversionsAgree
PROPERTIES DivisionProgresses
