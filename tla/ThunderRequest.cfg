\* A batch of three calls; the default capacity of the queue does not matter
\* for one caller, so it is 1.
SPECIFICATION Spec
CONSTANTS
  Calls = 3
  MaxConcurrent = 1
INVARIANTS CallContained SuccessIsOwn
PROPERTIES TimeoutSticks BatchEnds
CHECK_DEADLOCK FALSE
