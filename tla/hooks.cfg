SPECIFICATION FairSpec
CONSTANTS
    Hooks = {"unit", "cache", "common"}
    Program <- MCProgram
    Critical = {"unit", "common"}
    Paths = {"flag", "data", "moved", "alias", "stamp", "conf", "record", "entry"}
    Present = {"data", "conf"}
    Earlier <- MCEarlier
    Ran <- MCRan
    Mishaps = {"fault", "undo", "panic", "later"}
    None = None
INVARIANT TypeOK
INVARIANT OnlyOrphansStay
INVARIANT EarlierIsUndone
INVARIANT TouchedFilesStay
PROPERTY OnlyBegunOutlive
PROPERTY BatchEnds
CHECK_DEADLOCK FALSE
