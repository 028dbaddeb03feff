\* Two findings with the remediations of the built-in modules.
CONSTANTS
    Remediations <- BuiltinRemediations
    Titles = {1}
    MaxFindings = 2
SPECIFICATION Spec
INVARIANTS OnlyCommandsRun
