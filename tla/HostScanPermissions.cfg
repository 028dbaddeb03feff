\* The comment at secaudit.py:439 on the permissions of sensitive files.
CONSTANTS
    MaxChanges = 1
    MaxFaults = 1
    MaxRemedies = 1
    Sockets <- MCSockets
    Connections <- MCConnections
    Neighbours <- MCNeighbours
    ServiceOrder <- MCServiceOrder
    Binaries <- MCBinaries
    SensitiveOrder <- MCSensitiveOrder
    BRUTE_FORCE_THRESHOLD = 2
    MAX_LOG_LINES = 4
    MANY_FAILURES = 3
    SHORT_LOG = 2
    EVIDENCE_LIMIT = 1
    BLOCK_LIMIT = 1
    SudoEntries <- MCSudoEntries
    CredentialOrder <- MCCredentialOrder
    Accounts <- MCAccounts
    Processes <- MCProcesses
    Crontabs <- MCCrontabs
    Attackers = {"a", "b"}
    Hosts <- MCHosts
SPECIFICATION Spec
INVARIANTS MorePermissiveIsFlagged
