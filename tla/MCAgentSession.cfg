SPECIFICATION SessionSpec
CONSTANTS
  None = None
  NaN = NaN
  NotANumber = NotANumber
  Torn = Torn
  Subjects <- MCSubjects
  Submissions <- MCSubmissions
  Generations = 3
  MaxStops = 1
INVARIANTS
  Recorded
  FallbackIsLastWorking
  Briefed
PROPERTY
  Finishes
CHECK_DEADLOCK FALSE
