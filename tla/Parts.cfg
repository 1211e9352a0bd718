\* Six components by themselves: three timers on a clock of ten values; two
\* slots with two priorities and two tries; a heap of 26 words with three
\* blocks; sparse images of three chunks in packages of four sizes; the
\* command loop of fastboot with every fault of the cable; DRAM of two ranks,
\* three pages and two, with three records.
SPECIFICATION PartsSpec
CONSTANTS
  Timers = {a, b, c}
  NoTimer = NoTimer
  TimeRange = 10
  Delays = {0, 3}
  Periods = {2}
  MaxLate = 1
  NoSlot = NoSlot
  MaxPriority = 2
  MaxTries = 2
  HeapLen = 26
  AllocHeader = 3
  FreeHeader = 3
  MinAlignment = 4
  Sizes = {0, 1, 4}
  Alignments = {0, 2}
  MaxBlocksHeld = 3
  FileHeader = 2
  ChunkHeader = 3
  Block = 3
  FillCache = 6
  BlockSizes = {3, 6}
  MaxBlocks = 2
  MaxChunks = 3
  PackageSizes = {2, 3, 5, 11}
  Ranks = {4, 10}
  DramEnd = 14
  Page = 2
  ReserveSizes = {2, 3, 6}
  Aligns = {0, 1, 4}
  Limits = {8, 14}
  MaxReserved = 3
  MaxMblocks = 4
SYMMETRY TimerSymmetry
INVARIANTS
  TimersInv
  BootControlInv
  HeapInv
  UnsparseInv
  FastbootInv NoStaleCompletion
  MblockInv AsHighAsPossible
PROPERTIES
  FiresWhenDue TickFiresAll
  ActiveSlotTakes
  LoopAdvances LaysInOrder
  OneAnswer
CHECK_DEADLOCK FALSE
