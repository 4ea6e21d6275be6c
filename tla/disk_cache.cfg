SPECIFICATION Spec
CONSTANTS
  Proc = {p1, p2}
  Block = {b1, b2, b3, b4}
  None = None
  NBUF = 3
  Buf <- MCBuf
  MAXPINS = 2
  Sizes = {4, 7}
SYMMETRY Symmetry
INVARIANTS TypeOK ReadsLastWrite OneBufferPerBlock PanicsOnlyWhenFull SleepersWait DescriptorsConserved
