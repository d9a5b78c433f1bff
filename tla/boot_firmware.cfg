\* No registered file ends with the name of the slot.
CONSTANTS
    None = None
    Slot = Slot
    d0 = d0
    d1 = d1
    two = two
    none = none
    Digests = {d0, d1}
    Machines <- JustFirmware
SPECIFICATION Spec
INVARIANT UkiIsArmed
CHECK_DEADLOCK FALSE
