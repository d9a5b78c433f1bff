\* A directory without meta.json stops gc.
CONSTANTS
    None = None
    Prefixes = {p0, p1}
    Configs = {c0}
    Genesis = p0
    GenesisConfig = c0
    RetentionDepth = 1
    SeqBound = 3
    Commands = {"uninstall", "gc"}
    Disturbances = {"fault"}
SPECIFICATION Spec
SYMMETRY Digests
PROPERTIES GcCanRun
CHECK_DEADLOCK FALSE
