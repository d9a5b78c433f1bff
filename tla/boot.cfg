\* Every kind of machine.
CONSTANTS
    None = None
    Slot = Slot
    d0 = d0
    d1 = d1
    two = two
    none = none
    Digests = {d0, d1, two, none}
    Machines <- MCMachines
SPECIFICATION Spec
INVARIANT TypeOK
PROPERTIES ImplementsBootSelect OkMeansArmed
CHECK_DEADLOCK FALSE
