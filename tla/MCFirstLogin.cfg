\* A login with no key to try and no password saved, on a run that may ask.
CONSTANTS
    NoKey = nokey
    KeyFiles = {"own", "ed"}
    DefaultKeys <- OneDefault
    NoFile = nofile
    Passwords = {old, new}
    NoPassword = nopassword
    Passphrase = old
    Keys = {web, db}
    NoStore = nostore
    Procs = {p1}

SPECIFICATION AllSpec

PROPERTY FirstLoginAsks

CHECK_DEADLOCK FALSE
