SPECIFICATION FormatsSpec
CONSTANTS
  Inputs <- ChartedInputs
  Reports <- MCReports
  Delays <- MCDelays
  Samples <- SomeSeries
INVARIANTS
  PointsAtTheirTimes
CHECK_DEADLOCK FALSE
