\* A command that fails after its swap leaves the machine armed.
CONSTANTS
    None = None
    Prefixes = {p0, p1}
    Configs = {c0}
    Genesis = p0
    GenesisConfig = c0
    RetentionDepth = 2
    SeqBound = 3
    Commands = {"uninstall"}
    Disturbances = {"fault"}
SPECIFICATION Spec
SYMMETRY Digests
INVARIANTS ArmedDeployIsRecorded
CHECK_DEADLOCK FALSE
