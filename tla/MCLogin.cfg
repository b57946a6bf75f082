\* Two keys of the user's, in files or an agent, one of them a default, against any
\* host; attempts on two logins, each with the options of its own run; one process
\* after another on the store, dying anywhere, over any files left behind.
CONSTANTS
    NoKey = nokey
    KeyFiles = {"own", "ed"}
    DefaultKeys <- OneDefault
    NoFile = nofile
    Passwords = {old, new}
    NoPassword = nopassword
    Passphrase = old
    Keys = {web, db}
    NoStore = nostore
    Procs = {p1}

SPECIFICATION AllSpec

INVARIANTS
    LoginTypeOK
    WhoMayGetIn

PROPERTIES
    SavesWhatWorked
    CallsDoWhatTheyAsk

\* A dial ends.
CHECK_DEADLOCK FALSE
