\* The genesis config is not in the genesis record's history.
CONSTANTS
    None = None
    Prefixes = {p0, p1}
    Configs = {c0, c1}
    Genesis = p0
    GenesisConfig = c0
    RetentionDepth = 1
    SeqBound = 3
    Commands = {"commit"}
    Disturbances = {}
SPECIFICATION Spec
SYMMETRY Digests
PROPERTIES SealedConfigsStay
CHECK_DEADLOCK FALSE
