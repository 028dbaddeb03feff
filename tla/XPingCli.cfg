\* Every invocation and menu choice; Ctrl+C pressed up to twice.
CONSTANTS
    Invocations <- MCInvocations
    Risks = {"CRITICAL", "LOW"}
    QuitCodes = {0, 3}
    MaxInterrupts = 2
SPECIFICATION FairSpec
INVARIANTS TypeOK ExitCodeFaithful NoTornFilePasses QuietReport CursorRestored
PROPERTIES CommandEnds
