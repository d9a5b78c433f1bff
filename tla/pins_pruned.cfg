\* The clean-up removes the deploy that is staged, when its record is an old one.
CONSTANTS
    None = None
    Prefixes = {p0, p1, p2}
    Configs = {c0}
    Genesis = p0
    GenesisConfig = c0
    RetentionDepth = 1
    SeqBound = 4
    Commands = {"uninstall", "files", "rollback"}
    Disturbances = {"reboot"}
SPECIFICATION Spec
SYMMETRY Digests
PROPERTIES ImmutablePinsStay
CHECK_DEADLOCK FALSE
