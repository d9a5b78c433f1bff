\* Two writers; a stage with a rollback and one without.
CONSTANTS
    w1 = w1
    w2 = w2
    r1 = r1
    None = None
    Writers = {w1, w2}
    Readers = {}
    Pipeline <- ShortPipeline
    Silent = {"swap"}
    Results = {"Advance", "Repeat", "merge", "swap"}
    Given = {}
    Requires <- ShortNeeds
    Provides <- ShortPuts
    Needs <- ShortNeeds
    Takes <- ShortNeeds
    Puts <- ShortPuts
    StateCount = 2
    MaxEffects = 3
    Mishaps = {"fault", "undo", "panic", "crash"}
SPECIFICATION Spec
SYMMETRY Writers2
INVARIANTS TypeOK MutualExclusion
PROPERTIES UndoInReverse RunsAreAtomic
CHECK_DEADLOCK FALSE
