SPECIFICATION Spec
CONSTANTS
  Thousand = 2
  Sixty = 2
  HoursPerDay = 2
  DaysPerWeek = 2
  DaysPerYear = 5
  Grain = 2
  MaxSpan = 340
  MaxTime = 40
  Amounts = {0, 1, 3, 7, 13}
INVARIANT ReadsBack
CHECK_DEADLOCK FALSE
