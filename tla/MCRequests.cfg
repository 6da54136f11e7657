SPECIFICATION Spec
CONSTANTS
  main = main
  compress = compress
  Request = {main, compress}
  Job = {compress}
  Unnamed = {}
  Limit = 1
  MaxRetries = 1
INVARIANT ReportSound
PROPERTY RunReports
CHECK_DEADLOCK FALSE
