CONSTANTS
  Names = {"a"}
  MaxSize = 5
  Header = 2
  MaxLen = 3
  LengthMod = 10
  Freq = 3
  FlushBytes = 4
  BufSecs = 2
  StopIfFull = TRUE
SPECIFICATION FairSpec
INVARIANTS TypeOK FewMissed BufferBounded SizeBounded
PROPERTIES WriteFlushesOld ResumesWhenFree
