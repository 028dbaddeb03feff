\* Two scans that may deselect a module, lose it to a crash, or filter it out.
CONSTANTS
    Modules <- MCModules
    Issues <- MCIssues
    Thresholds = {0, 3}
    MaxWrites = 2
SPECIFICATION Spec
INVARIANTS ResolvedMeansFixed
