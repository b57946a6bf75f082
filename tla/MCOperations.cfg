\* Two owners racing the keepalive loop, and one operation on the connection.  A shell
\* over every kind of stdin with two keys typed; a command; a file session that tries
\* the five paths of the code; two closes of a proxy command; every tree of three
\* entries (a file, or a link back to the root, two directories down); one run of at
\* most two files, each way, over any files already there; a progress display on no
\* terminal, on one too narrow for a bar, and on wider ones.
CONSTANTS
    Callers = {view, command}
    Loop = loop
    NoOne = nobody
    Ops = {transfer}
    MaxKeys = 2
    Attempts = 5
    ProxyClosers = {owner, mux}
    NoCloser = nobody
    MaxEntries = 3
    Runs = {r1}
    NoFile = nofile
    MaxPackets = 2
    Terminals = {0, 8, 12, 13, 30, 60}
    LabelWidths = {4, 24}
    TailWidths = {3, 20}
    MaxRows = 7

SPECIFICATION AllSpec

INVARIANTS
    TypeOK
    TornDownInOrder
    CloseMeansReleased
    OperationsTypeOK
    PlanIsSound
    FailureIsClean
    ReportsAreShown

PROPERTIES
    NothingHangs
    GoroutinesEnd
    GivesBackWhatItTook
    EndIsToldRight
    CallsReturn

\* Each of them ends.
CHECK_DEADLOCK FALSE
