\* files, pins, the retention clean-up and gc, cancelled, killed or rebooted.
CONSTANTS
    None = None
    Prefixes = {p0, p1, p2}
    Configs = {c0, c1}
    Genesis = p0
    GenesisConfig = c0
    RetentionDepth = 1
    SeqBound = 4
    Commands = {"files", "commit", "pin", "gc"}
    Disturbances = {"cancel", "crash", "reboot"}
SPECIFICATION Spec
SYMMETRY Digests
INVARIANTS RecordsOpenable
PROPERTIES CleanupKeepsPolicy GcIsExact
CHECK_DEADLOCK FALSE
