\* Package commands, commit and rollback, with failures, cancellations, crashes and reboots.
CONSTANTS
    None = None
    Prefixes = {p0, p1, p2}
    Configs = {c0, c1}
    Genesis = p0
    GenesisConfig = c0
    RetentionDepth = 1
    SeqBound = 4
    Commands = {"install", "uninstall", "commit", "rollback"}
    Disturbances = {"fault", "cancel", "crash", "reboot"}
SPECIFICATION Spec
SYMMETRY Digests
INVARIANTS TypeOK SeqNamesOneRecord
PROPERTIES BootedKeepsRecord AbortRestores
CHECK_DEADLOCK FALSE
