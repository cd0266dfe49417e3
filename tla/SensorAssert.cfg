SPECIFICATION Spec
CONSTANTS
  Devices = {d1, d2}
  Strengths = {1, 2}
  MaxScanningDevices = 4
  MaxTopDevices = 3
  ReportFailureLimit = 2
  MaxReports = 2
INVARIANTS
  StateEventHandled
