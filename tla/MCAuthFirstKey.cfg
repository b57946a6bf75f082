\* One key in the agent or in a file of its own, another in a default file, and a host
\* that may trust either.
CONSTANTS
    NoKey = nokey
    KeyFiles = {"own", "ed"}
    DefaultKeys <- OneDefault
    NoFile = nofile
    Passwords = {old, new}
    NoPassword = nopassword
    Passphrase = old
    Keys = {web, db}
    NoStore = nostore
    Procs = {p1}

SPECIFICATION AllSpec

INVARIANT EveryKeyIsOffered

CHECK_DEADLOCK FALSE
