\* One library at a time.  Memory for three elements and half of a fourth;
\* priorities of four bits, up to the highest that the assumption admits;
\* time that wraps around; lines of two characters.
SPECIFICATION Spec
CONSTANTS
  None = None
  a = a
  b = b
  c = c
  n1 = n1
  n2 = n2
  n3 = n3
  Messages = {a, b}
  Size = 4
  Fields = 2
  Elements = {a, b}
  Bytes = 7
  ElemBytes = 2
  Half = 8
  Priorities = {0, 1, 3, 5}
  Capacity = 3
  Items = {a, b, c}
  Cells = {n1, n2, n3}
  Rank <- MCRank
  Equal <- MCEqual
  Sizes = 8
  HeapPriorities = {0, 1, 2}
  Compare <- MCCompare
  Worth <- MCWorth
  MaxElem = 4
  Patterns <- MCPatterns
  TimeMod = 8
  Plain = {"x", "y"}
  BufSize = 4
  Junk <- MCJunk
  MaxHistory = 2
INVARIANTS MemoryKept WaitBounded
PROPERTIES
  CanFifoImplementsDeque
  GenericImplementsQueue
  PriorityImplementsRanks
  ListImplementsSequence
  HeapImplementsBag
  BlinkyImplementsSchedule
  CliImplementsHistory
