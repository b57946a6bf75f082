\* One config of two lines: an Include, and a default of the file's own below it.
CONSTANTS
    Aliases = {"a", "b"}
    Values = {"v"}
    Tags = {"t"}
    AnyHost = "*"
    MaxLines = 8
    MaxIncludeDepth = 2
    MaxText = 1
    NoHost = nohost
    Files <- ConfigFiles
    Paths <- ConfigPaths
    Contents <- ConfigContents
    Bodies <- Written
    Typed <- Fields

SPECIFICATION Spec

INVARIANT IncludesCountInPlace

CHECK_DEADLOCK FALSE
