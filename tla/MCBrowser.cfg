\* Two adds or deletes, one after the other and answered in any order, over
\* everything the user can look at; up to five hosts on terminals with room for no
\* row (5, 8), one row (9), some or all; panes with two folders and a file in each
\* directory, or less, on terminals with room for two rows or three; two file views
\* and a session; columns that are short, long or too long on terminals too narrow for
\* two of them and wider, the form on terminals too low for its fields and higher.
CONSTANTS
    Aliases = {web, db}
    NoAlias = none
    Jobs = {j1, j2}
    MaxActive = 1
    MaxHosts = 5
    Heights = {5, 8, 9, 10, 11, 12, 14}
    Folders = {2, 3}
    Leaves = {1}
    MaxDepth = 1
    NoDir = nodir
    PaneHeights = {10, 11}
    MaxReplies = 2
    Views = {v1, v2}
    TheSession = session
    Widths = {5, 18, 19, 30, 60, 120}
    FrameHeights = {3, 5, 6, 7, 14}
    NameWidths = {4, 14, 40}
    OtherWidths = {4, 20}

SPECIFICATION AllSpec

INVARIANTS
    BrowserTypeOK
    ScreenIsWhole

PROPERTIES
    AnswersArrive
    ImplementsHostList
    WindowFollowsCursor
    PanesKeepTheirPlace

\* The browser ends.
CHECK_DEADLOCK FALSE
