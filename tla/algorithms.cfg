SPECIFICATION Spec
CONSTANTS
  MaxText = 7
  MaxNumber = 3
  MaxPieces = 2
  Speakers = {"a", "b"}
  Names = {"n", "m"}
  Categories = {"c"}
  Absent = Absent
  Malformed = Malformed
  Empty = Empty
  Fail = Fail
  Other = Other
  Blank = Blank
  NotRun = NotRun
INVARIANTS
  TextIsChunked
  RangeServesWhatWasAsked
  SegmentsKeepTheirPlace
  ElementsAreKept
CHECK_DEADLOCK FALSE
