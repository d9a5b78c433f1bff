SPECIFICATION Spec
CONSTANTS
    MaxItems = 2
INVARIANT TypeOK
INVARIANT StagesFindTheirSlots
INVARIANT ReportedStage
INVARIANT CancelledIsToldApart
INVARIANT NothingLeaks
PROPERTY CancelHolds
PROPERTY ProgramsEnd
CHECK_DEADLOCK FALSE
