\* One bastion, which may stall after it opened the channel to the target.
CONSTANTS
    MaxHops = 1
    Processes = {"p"}
    Handshakes = {"c"}
    ProcessOf <- OneProcess
    Hosts = {"h"}
    Preference <- Order
    MaxKeys = 1
    NoOne = nobody
    NoKey = nokey

SPECIFICATION AllSpec

PROPERTY HandshakeBounded

CHECK_DEADLOCK FALSE
