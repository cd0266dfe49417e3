SPECIFICATION BadgeSpec
CONSTANTS
  Devices = {d1, d2}
  Strengths <- TwoStrengths
  MaxScanningDevices = 4
  MaxTopDevices = 3
  ReportFailureLimit = 2
  MaxReports = 2
INVARIANTS
  TypeOK
  BadgeTypeOK
  ReportMatchesScan
  AppNeverStalls
  PanelShowsReport
PROPERTIES
  FullReportStays
