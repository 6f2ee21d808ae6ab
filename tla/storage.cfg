CONSTANTS
  Terms = {1, 2}
  Readers = {r1}
  MaxIdx = 3
  MaxVersion = 2
  Absent = Absent
  Torn = Torn
SPECIFICATION SpecAll
INVARIANT Contiguous
INVARIANT ReadersCovered
INVARIANT LastEntryWasLast
INVARIANT SavesNotForgotten
PROPERTY ImplementsLog
