\* gl.h:94 says resume() switches the loop into active rendering mode.
SPECIFICATION Spec
CONSTANT Percents = {50}
PROPERTY ResumeTakesEffect
CHECK_DEADLOCK FALSE
