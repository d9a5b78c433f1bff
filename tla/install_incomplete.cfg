\* install fails at its declarative hooks.
CONSTANTS
    None = None
    Prefixes = {p0, p1}
    Configs = {c0}
    Genesis = p0
    GenesisConfig = c0
    RetentionDepth = 1
    SeqBound = 3
    Commands = {"install"}
    Disturbances = {}
SPECIFICATION Spec
SYMMETRY Digests
INVARIANTS PipelinesAreComplete
CHECK_DEADLOCK FALSE
