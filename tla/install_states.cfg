\* install: twelve stages, twelve states of which the last is Setup.
CONSTANTS
    w1 = w1
    w2 = w2
    r1 = r1
    None = None
    Writers = {w1}
    Readers = {}
    Pipeline <- InstallPipeline
    Silent = {"swap", "retention"}
    Results = {"Advance"}
    Given = {}
    Requires <- InstallNoSlots
    Provides <- InstallNoSlots
    Needs <- InstallNoSlots
    Takes <- InstallNoSlots
    Puts <- InstallNoSlots
    StateCount = 12
    MaxEffects = 0
    Mishaps = {"fault"}
SPECIFICATION Spec
INVARIANTS FailuresAreToldApart
CHECK_DEADLOCK FALSE
