\* Every command returns; no symmetry: the property is a liveness one.
CONSTANTS
    None = None
    Prefixes = {p0, p1}
    Configs = {c0, c1}
    Genesis = p0
    GenesisConfig = c0
    RetentionDepth = 1
    SeqBound = 3
    Commands = {"update", "uninstall", "files", "commit", "rollback", "pin", "gc"}
    Disturbances = {"fault", "cancel", "undo"}
SPECIFICATION FairSpec
PROPERTIES CommandsReturn
CHECK_DEADLOCK FALSE
