CONSTANTS
  Packages <- MCPackages
  Calls <- MCCalls
  Blank <- MCBlank
  MaxRuns = 2
  FileLists <- MCFileLists
  OffsetLimit <- MCOffsetLimit
SPECIFICATION ScriptSpec
INVARIANTS SignatureResolves NothingFromBefore SuccessIsComplete Mountable Readable
CHECK_DEADLOCK FALSE
