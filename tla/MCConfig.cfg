\* Every hosts file of up to four lines, and what up to eight lines can be made of it;
\* every config of up to four lines with an include of up to two, or of up to two
\* with a hosts file of up to four behind it, or of up to three with lines that cannot
\* be read and Includes of no file; every text of up to four characters in each
\* field of the form.
CONSTANTS
    Aliases = {"a", "b"}
    Values = {"v"}
    Tags = {"t"}
    AnyHost = "*"
    MaxLines = 8
    MaxIncludeDepth = 2
    MaxText = 4
    NoHost = nohost
    Files <- ConfigFiles
    Paths <- ConfigPaths
    Contents <- ConfigContents
    Bodies <- Written
    Typed <- Fields

SPECIFICATION Spec

INVARIANTS
    ConfigTypeOK
    ReadsAsSsh
    AddsAreExact

PROPERTY EditsTouchOneHost

\* A config that has been read, or refused, stays as it is.
CHECK_DEADLOCK FALSE
