SPECIFICATION Spec
CONSTANTS
  Slots = {1, 2}
  Boot = 1
  PGSIZE = 2
  FAN = 2
  Sizes = {20, 22, 24, 27, 34}
  Image <- TwoSegments
  USERSTACK = 1
  MAXARG = 1
  Calls <- MCCalls
VIEW UpToPages
INVARIANTS TypeOK PagesConserved NoPanic MappedBelowSize
