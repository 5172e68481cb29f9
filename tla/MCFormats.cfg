SPECIFICATION FormatsSpec
CONSTANTS
  Inputs <- MCInputs
  Reports <- MCReports
  Delays <- MCDelays
  Samples <- OneSeries
INVARIANTS
  NothingEmpty
  AlertsAccountedFor
  ChartShowsAlert
CHECK_DEADLOCK FALSE
