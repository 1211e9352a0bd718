\* Two ranks of three pages and of two, three records.
SPECIFICATION MblockSpec
CONSTANTS
  Ranks = {4, 10}
  DramEnd = 14
  Page = 2
  ReserveSizes = {2, 3, 6}
  Aligns = {0, 1, 4}
  Limits = {8, 14}
  MaxReserved = 3
  MaxMblocks = 4
INVARIANTS SanityCheckPasses
CHECK_DEADLOCK FALSE
