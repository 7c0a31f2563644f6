SPECIFICATION SupportSpec
SYMMETRY MCSymmetry
CONSTANTS
  Ids = {0, 1, 2}
  Capacity = 2
  Tokens = {t1, t2}
  Times <- MCTimes
  MaxU64 = 2
  MaxSpans = 3
  Scenarios <- MCScenarios
  Replacements <- MCReplacements
  BadNames <- MCBadNames
  MaxUnsigned = 63
  MaxSigned = 31
  MaxChanges = 1
  Documents <- MCDocuments
  Capacities = {0, 3, 5}
  MaxDiagnostics = 4
  MaxDepth = 2
  Findings <- MCFindings
INVARIANTS
  SpansAreAccounted
  PublishedIsResolved
  MeasureIsExact
  WholeReportOrNothing
  ReportIsComplete
  RefusedOnlyWhenFull
PROPERTIES
  FailureWritesNothing
