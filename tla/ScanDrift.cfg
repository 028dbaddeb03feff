\* Up to two reports; the diff reads while they are written or removed.
CONSTANTS
    Modules <- MCModules
    Issues <- MCIssues
    Thresholds = {0, 3}
    MaxWrites = 2
SPECIFICATION Spec
INVARIANTS PassMeansNothingNew ResolvedIsExplained HonestWhenComparable
