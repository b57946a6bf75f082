CONSTANTS
    Chars = {a, b}
    Star = Star
    Any = Any
    MaxLength = 4
SPECIFICATION FairSpec
INVARIANTS
    GlobTypeOK
    AnswersTheGlob
PROPERTIES
    MatchEnds
CHECK_DEADLOCK FALSE
