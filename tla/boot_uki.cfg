\* Unified kernel images share one slot of the ESP.
CONSTANTS
    None = None
    Slot = Slot
    d0 = d0
    d1 = d1
    two = two
    none = none
    Digests = {d0, d1}
    Machines <- JustManagedUki
SPECIFICATION Spec
PROPERTY FallbackStays
CHECK_DEADLOCK FALSE
