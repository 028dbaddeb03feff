\* Three jobs on pools of no, one, two and three threads; Ctrl+C up to twice.
CONSTANTS
    Registry <- MCRegistry
    Spellings <- MCSpellings
    Normal <- MCNormal
    RequestChoices <- RequestsAll
    PoolSizes = {0, 1, 2, 3}
    Thresholds = {0}
    Findings = {}
    Deeds <- FewDeeds
    Labels <- TwoLabels
    MaxInterrupts = 2
SPECIFICATION FairSpec
INVARIANTS TypeOK OneResultPerModule EveryRequestAnswered OrderIndependentOfCompletion
    FailureHasCause
PROPERTIES DrainedBeforeLeaving KeepsPromise ScanEnds SubmittedIsCarriedOut
