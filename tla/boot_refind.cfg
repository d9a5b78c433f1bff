\* rEFInd has one option.
CONSTANTS
    None = None
    Slot = Slot
    d0 = d0
    d1 = d1
    two = two
    none = none
    Digests = {d0, d1}
    Machines <- JustRefind
SPECIFICATION Spec
PROPERTY OnlyConfirmed
CHECK_DEADLOCK FALSE
