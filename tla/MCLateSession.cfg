\* Two views; the dial of the first outlives it.
CONSTANTS
    Dirs = {home}
    Home = home
    NoDir = nodir
    MaxViews = 2
    MaxTransfers = 0
    MaxListings = 0
    Buffer = 1

SPECIFICATION Spec

INVARIANT LateSessionIsClosed

\* A program that has quit or crashed takes no step.
CHECK_DEADLOCK FALSE
