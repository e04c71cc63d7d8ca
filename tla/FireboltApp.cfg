\* Two events; one change may be waiting while another is handled.
SPECIFICATION Spec
CONSTANTS
  Events = {"e1", "e2"}
  Methods <- MCMethods
  Changes <- MCChanges
  MaxQueue = 1
INVARIANTS CallbackHasTracker RenderThreadOwned ExitQuiesces 
PROPERTIES HonoursContract ExitCompletes ProgressTaken
CHECK_DEADLOCK FALSE
