SPECIFICATION Spec
CONSTANTS
  Section <- MCOne
  Manual = {}
  ManualCap = 1
  ListCap = 4
  Fixtures = {}
  Deaths = {}
  DeathSignal <- MCDeathSignal
  Signals = {6, 9}
  Handled = {6}
  ExitCodes = {}
  DiagCap = 2
  Filters <- MCFilters
  ChldIgnored = TRUE
  NULL = NULL
INVARIANT CrashAttributed
CHECK_DEADLOCK FALSE
