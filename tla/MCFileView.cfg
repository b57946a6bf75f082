\* One view from opening to leaving, with two directories, two transfers one after
\* the other and two listings out at once.
CONSTANTS
    Dirs = {home, sub}
    Home = home
    NoDir = nodir
    MaxViews = 1
    MaxTransfers = 2
    MaxListings = 2
    Buffer = 1

SPECIFICATION FairSpec

INVARIANTS
    FileViewTypeOK
    SessionIsOwned
    OneReader
    PaneShowsAsked

PROPERTIES
    LeavingReleases
    CancelledTransfersEnd

\* A program that has quit or crashed takes no step.
CHECK_DEADLOCK FALSE
