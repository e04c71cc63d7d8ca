\* The render loop with a progress value below and one above 100.
SPECIFICATION Spec
CONSTANT Percents = {0, 120}
INVARIANTS FrameChain NoLostWakeup NoUseAfterFree
PROPERTIES LatestShown SettledRequestApplied ImplementsContract
CHECK_DEADLOCK FALSE
