\* rollback cannot change the working config.
CONSTANTS
    None = None
    Prefixes = {p0, p1}
    Configs = {c0, c1}
    Genesis = p0
    GenesisConfig = c0
    RetentionDepth = 1
    SeqBound = 3
    Commands = {"uninstall", "commit", "rollback"}
    Disturbances = {}
SPECIFICATION Spec
SYMMETRY Digests
PROPERTIES RollbackRestoresConfigs
CHECK_DEADLOCK FALSE
