\* Dials direct, and through one to three bastions; any host may fall silent at any
\* time.  Two handshakes of one process with a host of two types of keys, set up anew
\* once, that known_hosts has any keys of, of either type, old or new.
CONSTANTS
    MaxHops = 3
    Processes = {"p"}
    Handshakes = {"c", "d"}
    ProcessOf <- OneProcess
    Hosts = {"h"}
    Preference <- Order
    MaxKeys = 2
    NoOne = nobody
    NoKey = nokey

SPECIFICATION AllSpec

INVARIANTS
    TypeOK
    NothingOutlivesItsOwner

PROPERTIES
    ReleaseOrder
    DialsReturn
    

\* Dial returns, and a stalled bastion can hold it for good.
CHECK_DEADLOCK FALSE
