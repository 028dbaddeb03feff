\* Two modules that report any set of findings, at every kind of threshold.
CONSTANTS
    Registry <- MCRegistry
    Spellings <- MCSpellings
    Normal <- MCNormal
    RequestChoices <- RequestsTwo
    PoolSizes = {2}
    Thresholds = {0, 1, 3, 4}
    Findings <- MixedFindings
    Deeds <- AllDeeds
    Labels = {}
    MaxInterrupts = 1
SPECIFICATION Spec
INVARIANTS NoSilentLoss ThresholdKeepsTheGate
