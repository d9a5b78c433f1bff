\* A mark of another loader hides the firmware from the search for a plugin.
CONSTANTS
    None = None
    Slot = Slot
    d0 = d0
    d1 = d1
    two = two
    none = none
    Digests = {d0, d1}
    Machines <- JustNoExtension
SPECIFICATION Spec
PROPERTY FirmwareIsRecognized
CHECK_DEADLOCK FALSE
