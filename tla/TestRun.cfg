SPECIFICATION FairSpec
CONSTANTS
  Section <- MCSection
  Manual = {4, 5}
  ManualCap = 1
  ListCap = 4
  Fixtures = {2}
  Deaths = {3}
  DeathSignal <- MCDeathSignal
  Signals = {6, 9}
  Handled = {6}
  ExitCodes = {0, 2}
  DiagCap = 2
  Filters <- MCFilters
  ChldIgnored = FALSE
  NULL = NULL
INVARIANTS
  ReportExact
  VerdictHonest
  CountsMatch
  TeardownPaired
  CrashNamed
PROPERTIES
  RunEnds
CHECK_DEADLOCK FALSE
