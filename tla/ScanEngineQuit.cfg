\* One module that calls sys.exit().
CONSTANTS
    Registry <- MCRegistry
    Spellings <- MCSpellings
    Normal <- MCNormal
    RequestChoices <- RequestsTwo
    PoolSizes = {2}
    Thresholds = {0}
    Findings = {}
    Deeds <- QuitDeeds
    Labels = {}
    MaxInterrupts = 0
SPECIFICATION Spec
INVARIANTS ModuleNeverFailsTheScan
