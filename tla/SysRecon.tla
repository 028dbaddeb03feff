------------------------------ MODULE SysRecon ------------------------------
(***************************************************************************)
(* SysReconModule (xping/modules/sysrecon.py): the inventory of a machine, *)
(* and what in its accounts, processes, cron jobs and environment is odd.  *)
(***************************************************************************)
EXTENDS CheckRun

CONSTANTS
    Accounts,   \* accounts in /etc/passwd: name -> [uid0, system]
    Processes,  \* lines of ps: name -> [words, tool], the keywords in it, and
                \* whether it is one of the programs these are looked for
    Crontabs    \* contents of the cron directories: name -> the scripts they run

\* The kernels considered whose version begins with 2. or 3.
OutdatedKernels == {"2.6.", "3.10.", "3.13."}
\* The variables considered whose name has a word of SENSITIVE_ENV_PATTERNS.
SensitiveVariables == {"DB_PASSWORD", "API_KEY", "TOKENIZERS_PARALLELISM"}
SuspiciousKeywords ==
    <<"nc ", "ncat", "socat", "msfconsole", "meterpreter", "reverse", "bind_shell",
      "cryptominer", "xmrig", "minerd">>

\* The line ps begins with shows no process.
ASSUME ProcessAssumption ==
    /\ "header" \notin DOMAIN Processes
    /\ \A p \in DOMAIN Processes : Processes[p].words \subseteq
           {SuspiciousKeywords[k] : k \in 1 .. Len(SuspiciousKeywords)}

SysReconQuestions == {"kernelName", "uptime", "arch", "ps", "crontab", "lsmod", "mountList"}
SysReconReplies(h, q) ==
    CASE q = "kernelName" -> {<<{h.kernel}, 0>>}
      [] q = "ps"         -> {<<{"header"} \cup h.procs, 0>>}
      [] q = "crontab"    -> IF h.crontab = {} THEN {<<{}, 1>>} ELSE {<<h.crontab, 0>>}
      [] q = "lsmod"      -> {<<{"lines"}, 0>>, <<{}, 127>>}
      [] OTHER            -> {<<{"lines"}, 0>>}

-----------------------------------------------------------------------------
ReadKernel ==
    /\ Decide("kernelName") /\ Goto("uptime", 1) /\ Nothing
    /\ IF call.out = {} THEN held' = "none" ELSE held' \in call.out
ReadUptime == Decide("uptime") /\ Goto("arch", 1) /\ Nothing
CheckOsInfo ==
    /\ Decide("arch") /\ Goto("passwd", 1) /\ held' = "none"
    /\ Report({Finding("systemInfo", "system", "INFO")} \cup
              {Finding("outdatedKernel", "kernel", "HIGH") : k \in {held} \cap OutdatedKernels}, {})

\* A list of accounts that cannot be read ends the check, before /etc/shadow.
CheckAccounts ==
    /\ Look("passwd")
    /\ LET users == DOMAIN host.accounts
       IN  IF users = {} THEN Goto("ps", 1) /\ Report({}, {"passwd"})
           ELSE /\ Goto("shadow", 1)
                /\ Report({Finding("uid0", "passwd", "CRITICAL") :
                               u \in {u \in users \ {"root"} : Accounts[u].uid0}} \cup
                          {Finding("systemShell", u, "MEDIUM") :
                               u \in {u \in users : Accounts[u].system /\ host.accounts[u] = "login"}},
                          {})
CheckShadow ==
    /\ Look("shadow") /\ Goto("ps", 1)
    /\ Report({Finding("accountSummary", "passwd", "INFO")} \cup
              {Finding("emptyPassword", u, "CRITICAL") :
                   u \in IF host.root THEN host.noPassword ELSE {}}, {})

\* A line is named after the first keyword in it.
KeywordOf(p) ==
    LET found == {k \in 1 .. Len(SuspiciousKeywords) : SuspiciousKeywords[k] \in Processes[p].words}
    IN  SuspiciousKeywords[CHOOSE k \in found : \A m \in found : k <= m]
Suspicious(procs) == {p \in procs : Processes[p].words # {}}
CheckProcesses ==
    /\ Decide("ps") /\ Goto("cronFiles", 1)
    /\ IF call.out = {} THEN Report({}, {"ps"})
       ELSE Report({Finding("processSummary", "ps", "INFO")} \cup
                   {Finding("suspicious", KeywordOf(p), "HIGH") :
                        p \in Suspicious(call.out \ {"header"})}, {})

ReadCronFiles == Look("cronFiles") /\ Goto("crontab", 1) /\ held' = host.cron /\ Nothing
Scripts(cron, own) == Crontabs[cron] \cup own
CheckCronScripts ==
    /\ Decide("crontab") /\ Goto("lsmod", 1) /\ held' = "none"
    /\ LET entries == Scripts(held, IF call.rc = 0 THEN call.out ELSE {})
       IN  IF entries = {} THEN Nothing
           ELSE Report({Finding("cronJobs", "cron", "INFO")} \cup
                       {Finding("writableScript", s, "HIGH") :
                            s \in {s \in entries \cap DOMAIN host.writes : ~host.root}}, {})

CheckKernelModules == Presence("lsmod", Finding("kernelModules", "lsmod", "INFO"), "mountList")
CheckMounts == Presence("mountList", Finding("filesystems", "mount", "INFO"), "env")
CheckEnvironmentVariables ==
    /\ Look("env") /\ Goto("done", 1)
    /\ Report({Finding("secretVariable", v, "MEDIUM") : v \in host.env \cap SensitiveVariables}, {})

(***************************************************************************)
(* What the remediation of a finding f makes of the machine: usermod -s,   *)
(* usermod -L, and chmod 755 with chown root.                              *)
(***************************************************************************)
SysReconFixed(f, h) ==
    CASE f.title = "systemShell" ->
             [h EXCEPT !.accounts = [u \in DOMAIN @ |-> IF u = f.of THEN "nologin" ELSE @[u]]]
      [] f.title = "emptyPassword" -> [h EXCEPT !.noPassword = @ \ {f.of}]
      [] f.title = "writableScript" -> [h EXCEPT !.writes = Without(@, f.of)]

SysReconRun ==
    \/ /\ UNCHANGED held
       /\ \/ ReadUptime \/ CheckAccounts \/ CheckShadow \/ CheckProcesses \/ CheckKernelModules
          \/ CheckMounts \/ CheckEnvironmentVariables
    \/ ReadKernel \/ CheckOsInfo \/ ReadCronFiles \/ CheckCronScripts
=============================================================================
