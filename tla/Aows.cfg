\* Two sessions, two frames each, decoding and idle close enabled; messages of zero to
\* two frames with the extremes of every field.
SPECIFICATION ServerSpec
CONSTANTS
  Sessions = {s1, s2}
  IdleClose = TRUE
  DecodeAdpcm = TRUE
  MaxFrames = 2
  Formats <- MCFormats
  Lengths = {0, 6, 7, 14, 15}
  StepBytes = {0, 45, 88, 255}
  Words = {0, 32767, 32768, 65535}
  Bytes = {0, 23, 127, 128, 255}
INVARIANTS CountsHonest ClosedIsQuiet OutputFits
PROPERTIES FirstCloseWins SessionEnds
CHECK_DEADLOCK FALSE
