\* A writer and a reader, cancelled at any time; no symmetry: liveness.
CONSTANTS
    w1 = w1
    w2 = w2
    r1 = r1
    None = None
    Writers = {w1}
    Readers = {r1}
    Pipeline <- ShortPipeline
    Silent = {"swap"}
    Results = {"Advance", "Repeat", "merge", "swap"}
    Given = {}
    Requires <- ShortNeeds
    Provides <- ShortPuts
    Needs <- ShortNeeds
    Takes <- ShortNeeds
    Puts <- ShortPuts
    StateCount = 2
    MaxEffects = 1
    Mishaps = {"fault", "panic", "cancel"}
SPECIFICATION FairSpec
PROPERTIES CancelEndsRun
CHECK_DEADLOCK FALSE
