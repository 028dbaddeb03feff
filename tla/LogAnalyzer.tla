----------------------------- MODULE LogAnalyzer -----------------------------
(***************************************************************************)
(* LogAnalyzerModule (xping/modules/loganalyzer.py).  The log files grow,  *)
(* are rotated and appear while they are looked for, read and looked at    *)
(* again.                                                                  *)
(***************************************************************************)
EXTENDS CheckRun

CONSTANTS
    BRUTE_FORCE_THRESHOLD,
    MAX_LOG_LINES,
    MANY_FAILURES,  \* the number of failed logins from which on they are HIGH
    SHORT_LOG,      \* fewer lines than this are suspicious
    EVIDENCE_LIMIT, \* so many addresses the evidence of a brute force names
    BLOCK_LIMIT,    \* and so many its remediation tells to block
    Attackers       \* the addresses failed logins come from

ASSUME ThresholdAssumption ==
    /\ {BRUTE_FORCE_THRESHOLD, MAX_LOG_LINES, MANY_FAILURES, SHORT_LOG, EVIDENCE_LIMIT, BLOCK_LIMIT}
           \subseteq Nat \ {0}
    /\ SHORT_LOG <= 100 /\ IsFiniteSet(Attackers)

AuthLogs   == <<"auth.log", "secure">>
SystemLogs == <<"syslog", "messages">>
Watched    == AuthLogs \o SystemLogs
LOG_FILES  ==
    {"auth.log", "secure", "syslog", "messages", "kern.log", "faillog", "daemon.log"}
Absent     == [there |-> FALSE, readable |-> FALSE, lines |-> <<>>]

LogQuestions == {"last", "lastlog"}
LogReplies(h, q) == {<<{"sessions"}, 0>>}

Contents(f, max) == ReadFileSafe(host.logs[f], max)
LinesRead(h, f) == ReadFileSafe(h.logs[f], MAX_LOG_LINES)

-----------------------------------------------------------------------------
\* is_available: any log file readable.
LogAvailable ==
    /\ Look("readable") /\ Nothing /\ UNCHANGED held
    /\ IF \E f \in LOG_FILES : host.logs[f].readable
       THEN Goto("authLog", 1) ELSE Goto("skipped", 1)

\* _find_auth_log, _find_syslog: the first readable one of two.
Found(order) ==
    LET ks == {k \in 1 .. Len(order) : host.logs[order[k]].readable}
    IN  IF ks = {} THEN "none" ELSE order[CHOOSE k \in ks : \A m \in ks : k <= m]

FindAuthLog ==
    /\ Look("authLog") /\ held' = Found(AuthLogs)
    /\ IF held' = "none" THEN Goto("syslog", 1) /\ Report({}, {"auth"})
       ELSE Goto("readAuth", 1) /\ Nothing

\* A line is the address a login failed from, or another kind of event.
Failures(lines, ip) == Cardinality({k \in 1 .. Len(lines) : lines[k] = ip})
TotalFailed(lines)  == Cardinality({k \in 1 .. Len(lines) : lines[k] \in Attackers})
Says(lines, word)   == \E k \in 1 .. Len(lines) : lines[k] = word
\* Faulty variant: the threshold itself is not enough.
BruteForceIps_Above(lines) == {ip \in Attackers : Failures(lines, ip) > BRUTE_FORCE_THRESHOLD}
BruteForceIps(lines) == {ip \in Attackers : Failures(lines, ip) >= BRUTE_FORCE_THRESHOLD}
\* Of the addresses above the threshold the worst are named, those with as many
\* failures by the first of them, and the first to fail are to be blocked.
Earlier(lines, a, b) ==
    \E k \in 1 .. Len(lines) : lines[k] = a /\ \A m \in 1 .. k : lines[m] # b
Precedes(lines, a, b) ==
    \/ Failures(lines, a) > Failures(lines, b)
    \/ Failures(lines, a) = Failures(lines, b) /\ Earlier(lines, a, b)
Evidence(lines) ==
    {a \in BruteForceIps(lines) :
        Cardinality({b \in BruteForceIps(lines) : Precedes(lines, b, a)}) < EVIDENCE_LIMIT}
ToBlock(lines) ==
    {a \in BruteForceIps(lines) :
        Cardinality({b \in BruteForceIps(lines) : Earlier(lines, b, a)}) < BLOCK_LIMIT}
BruteForceFindings(lines) ==
    {Finding("bruteForce", [named |-> Evidence(lines), blocked |-> ToBlock(lines)], "CRITICAL") :
        ips \in {BruteForceIps(lines)} \ {{}}}
EventFindings(lines, events) ==
    {Finding(e[1], "log", e[2]) : e \in {e \in events : Says(lines, e[1])}}

AuthEvents == {<<"accepted", "INFO">>, <<"sudo", "INFO">>, <<"su", "MEDIUM">>}
AuthFindings(lines) ==
    {Finding("failedLogins", "auth",
             IF TotalFailed(lines) < MANY_FAILURES THEN "MEDIUM" ELSE "HIGH") :
        n \in {TotalFailed(lines)} \ {0}} \cup
    BruteForceFindings(lines) \cup
    EventFindings(lines, AuthEvents)
CheckAuthLogs ==
    /\ Look("readAuth") /\ Goto("syslog", 1) /\ held' = "none"
    /\ LET lines == Contents(held, MAX_LOG_LINES)
       IN  Report(AuthFindings(lines), IF lines = <<>> THEN {"auth"} ELSE {})

SystemEvents == {<<"oom", "HIGH">>, <<"panic", "CRITICAL">>, <<"segfault", "MEDIUM">>}
FindSyslog ==
    /\ Look("syslog") /\ Nothing /\ held' = Found(SystemLogs)
    /\ IF held' = "none" THEN Goto("last", 1) ELSE Goto("readSyslog", 1)
CheckSystemLogs ==
    /\ Look("readSyslog") /\ Goto("last", 1) /\ held' = "none"
    /\ Report(EventFindings(Contents(held, MAX_LOG_LINES), SystemEvents), {})

\* _check_last_logins; nothing is made of what lastlog says.
CheckLastLogins ==
    /\ UNCHANGED held
    /\ \/ Presence("last", Finding("lastLogins", "last", "INFO"), "lastlog")
       \/ Decide("lastlog") /\ Goto("tampering", 1) /\ Nothing

(***************************************************************************)
(* _check_log_tampering, file by file: is there one, is it empty, and for  *)
(* the authentication logs, read again, is it short.  A file that goes     *)
(* away in between is passed over.                                         *)
(***************************************************************************)
NextLog == IF i < Len(Watched) THEN Goto("tampering", i + 1) ELSE Goto("done", 1)
LogThere ==
    /\ Look("tampering") /\ Nothing /\ UNCHANGED held
    /\ IF host.logs[Watched[i]].there THEN Goto("size", i) ELSE NextLog
CheckEmpty ==
    /\ Look("size") /\ UNCHANGED held
    /\ LET f == host.logs[Watched[i]]
       IN  IF f.there /\ f.lines = <<>>
           THEN NextLog /\ Report({Finding("emptyLog", Watched[i], "HIGH")}, {})
           ELSE /\ Nothing
                /\ IF f.there /\ i <= Len(AuthLogs) THEN Goto("short", i) ELSE NextLog
CheckShort ==
    /\ Look("short") /\ NextLog /\ UNCHANGED held
    /\ IF Len(Contents(Watched[i], 100)) \in 1 .. SHORT_LOG - 1
       THEN Report({Finding("shortLog", Watched[i], "MEDIUM")}, {}) ELSE Nothing

LogAnalyzerRun ==
    \/ LogAvailable \/ FindAuthLog \/ CheckAuthLogs \/ FindSyslog \/ CheckSystemLogs
    \/ CheckLastLogins \/ LogThere \/ CheckEmpty \/ CheckShort
=============================================================================
