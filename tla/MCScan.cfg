SPECIFICATION ScanSpec
CONSTANTS
  LF = LF
  CR = CR
  Space = Space
  Letter = Letter
  Stop = Stop
  Bad = Bad
  Bytes = {LF, CR, Space, Letter, Stop, Bad}
  maxSSELine = 3
  ChunkSize = 2
  MaxBody = 6
INVARIANTS
  CutAnywhere
  CleanEndIsComplete
  BufferBounded
CHECK_DEADLOCK FALSE
