CONSTANTS
  Packages <- MCPackages
  Calls <- MCCalls
  Blank <- MCBlank
  MaxRuns = 1
SPECIFICATION Spec
INVARIANT CertificateIsFetched
CHECK_DEADLOCK FALSE
