SPECIFICATION Spec
CONSTANTS
  Script <- MCScript
  Plans <- MCPlans
  Windows <- MCWindows
  Limit = 2
  Mode = "all"
  ReadingRetention = 4
  IntervalRetention = 3
  MaxFaults = 1
INVARIANTS
  ShownOnceInOrder
  EndShowsTheLog
  IntervalsDisjoint
PROPERTIES
  GaugeMovesForward
  StreamEnds
