\* Two scans of hosts with one or two sudo rules of one title.
CONSTANTS
    Modules <- MCModules
    Issues <- MCIssues
    Thresholds = {0, 3}
    MaxWrites = 2
SPECIFICATION Spec
INVARIANTS NewFindingIsAdded
