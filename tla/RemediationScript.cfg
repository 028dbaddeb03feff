\* Up to two findings of any severity.
CONSTANTS
    Remediations <- MCRemediations
    Titles = {1, 2}
    MaxFindings = 2
SPECIFICATION Spec
INVARIANTS AnnouncedMeansApplied AppliedInReportOrder OneLineIsSafe
