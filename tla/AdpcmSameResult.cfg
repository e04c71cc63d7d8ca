\* The claim of aows_test_server.js:151.
SPECIFICATION DecoderSpec
CONSTANTS
  Formats <- MCFormats
  Lengths = {0, 6, 7, 14, 15}
  StepBytes = {0, 45, 88, 255}
  Words = {0, 32767, 32768, 65535}
  Bytes = {0, 23, 127, 128, 255}
INVARIANT SameAsBitAccumulation
CHECK_DEADLOCK FALSE
