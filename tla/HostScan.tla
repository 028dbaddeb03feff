------------------------------ MODULE HostScan ------------------------------
(***************************************************************************)
(* One scan module at work in its thread: run() goes through its checks on *)
(* a machine that changes, with commands that hang.  When it has ended,    *)
(* the administrator may carry out remediations, and scan again.           *)
(***************************************************************************)
EXTENDS NetAudit, Hardening, SecAudit, LogAnalyzer, Container, RedTeam, SysRecon

CONSTANTS
    Hosts,       \* module -> families of machines; a machine changes within one
    MaxRemedies  \* bound: how many remediations are carried out

ASSUME RemedyAssumption == MaxRemedies \in Nat

(***************************************************************************)
(* What the checks of all modules can see of a machine.                    *)
(***************************************************************************)
Elements(s) == {s[k] : k \in 1 .. Len(s)}
TimeKeepers == {"NTP=yes"} \cup Elements(NtpServices)
WordFiles  == {"resolv", "ip_forward", "suid_dumpable", "limits.conf", "modprobe.d", "grub",
               "grub2", "20auto-upgrades", "sudoers", "common-auth", "system-auth",
               "password-auth", "login.defs"}
Parameters == {p.name : p \in Elements(KERNEL_CHECKS)}
Words == {"public", "private", "0", "1", "nonzero", "core", "usb-storage", "usb_storage", "password",
          "menu", "enabled", "nopasswdAll", "nopasswd", "shell", "faillock", "maxDaysAbove90",
          "minLenBelow8", "other"}
PlaceLists == {"PATH", "LD_PRELOAD", "LD_LIBRARY_PATH", "ld.so.conf", "units", "cron", "crontab PATH"}
SshLine    == [directive : STRING, value : STRING, commented : BOOLEAN]
LogFile    == [there : BOOLEAN, readable : BOOLEAN, lines : Seq(STRING)]
Machine(h) ==
    /\ h \in [root : BOOLEAN, tool : {"ss", "netstat", "none"},
              iptables : BOOLEAN, accepting : SUBSET {"INPUT", "FORWARD"},
              nft : {"absent", "empty", "rules"},
              selinux : {"absent", "enforcing", "permissive", "disabled"},
              apparmor : {"absent", "empty", "loaded"},
              listening : SUBSET DOMAIN Sockets, connected : SUBSET DOMAIN Connections,
              neighbours : SUBSET DOMAIN Neighbours, setid : SUBSET DOMAIN Binaries,
              sudo : SUBSET DOMAIN SudoEntries, procs : SUBSET DOMAIN Processes,
              units : SUBSET (UNNECESSARY_SERVICES \cup TimeKeepers \cup Elements(Updaters)),
              dangers : SUBSET STRING, mounts : SUBSET STRING,
              tcp : SUBSET STRING, marks : SUBSET STRING, crontab : SUBSET STRING,
              env : SUBSET STRING, noPassword : SUBSET STRING,
              imds : STRING, pidns : STRING, kernel : STRING, cron : DOMAIN Crontabs,
              files : [WordFiles -> SUBSET Words], param : [Parameters -> {"absent", "0", "1", "2", "other"}],
              lists : [PlaceLists -> SUBSET STRING],
              sshd : Seq(SshLine), logs : [LOG_FILES -> LogFile],
              mode : [DOMAIN SENSITIVE_FILES -> SUBSET Bits],
              owner : [DOMAIN SENSITIVE_FILES -> {"absent", "root", "other"}],
              sock : [DOMAIN h.sock -> SUBSET Bits], cloud : [DOMAIN h.cloud -> SUBSET Bits],
              secrets : [DOMAIN h.secrets -> SUBSET STRING],
              accounts : [DOMAIN h.accounts -> {"login", "nologin"}],
              writes : [DOMAIN h.writes -> {"owner", "other"}]]
    /\ DOMAIN h.sock \subseteq Elements(SockPaths) /\ DOMAIN h.cloud \subseteq Elements(CloudFiles)
    /\ DOMAIN h.accounts \subseteq DOMAIN Accounts
    /\ DOMAIN h.secrets \cup DOMAIN h.writes \subseteq STRING

ASSUME HostsAssumption ==
    /\ DOMAIN Hosts \subseteq
           {"netaudit", "hardening", "secaudit", "loganalyzer", "container", "redteam",
            "sysrecon"}
    /\ \A m \in DOMAIN Hosts : \A h \in UNION Hosts[m] : Machine(h)

VARIABLES
    module,    \* the module that runs
    round,     \* 1, and 2 when the machine is scanned again
    remedied   \* the findings remedied, as long as the remedy is in place

admin == <<module, round, remedied>>
vars  == <<helpervars, hostvars, step, i, findings, errors, held, admin>>

FirstStep == [netaudit |-> "which", hardening |-> "kernel",
              secaudit |-> "suid", loganalyzer |-> "readable",
              container |-> "socket", redteam |-> "envPath",
              sysrecon |-> "kernelName"]
Questions == NetQuestions \cup HardeningQuestions \cup SecQuestions \cup LogQuestions
             \cup ContainerQuestions \cup RedTeamQuestions \cup SysReconQuestions
RepliesOf(h, q, k) ==
    CASE q \in NetQuestions       -> NetReplies(h, q)
      [] q \in HardeningQuestions -> HardeningReplies(h, q, k)
      [] q \in SecQuestions       -> SecReplies(h, q)
      [] q \in LogQuestions       -> LogReplies(h, q)
      [] q \in ContainerQuestions -> ContainerReplies(h, q)
      [] q \in RedTeamQuestions   -> RedTeamReplies(h, q)
      [] q \in SysReconQuestions  -> SysReconReplies(h, q)

Ended == step \in {"done", "skipped"}

Init ==
    /\ module \in DOMAIN Hosts
    /\ host \in UNION Hosts[module] /\ seen = {host} /\ changes = 0
    /\ step = FirstStep[module] /\ i = 1 /\ held = "none"
    /\ call = Idle /\ orphans = {} /\ faults = 0 /\ unanswered = {}
    /\ findings = {} /\ errors = {}
    /\ round = 1 /\ remedied = {}

-----------------------------------------------------------------------------
InRun == UNCHANGED <<step, i, findings, errors, held, admin>>

\* run_cmd, on the module's thread.
Ask     == step \in Questions /\ RunCmd /\ InRun /\ UNCHANGED hostvars
Reap    == Reaped /\ InRun /\ UNCHANGED hostvars
Refuse  == Raises /\ InRun /\ UNCHANGED hostvars
\* The command, and the timer of subprocess.run.
Reply   == call.at = "running" /\ Completes(RepliesOf(host, step, i)) /\ InRun /\ UNCHANGED hostvars
Hang    == Hangs /\ InRun /\ UNCHANGED hostvars
Expire  == TimeoutExpired /\ InRun /\ UNCHANGED hostvars
Outlive == OrphanEnds /\ InRun /\ UNCHANGED hostvars

\* The checks of run().
Check ==
    /\ UNCHANGED admin
    /\ \/ (NetAuditRun \/ HardeningRun \/ SecAuditRun \/ ContainerRun) /\ UNCHANGED held
       \/ LogAnalyzerRun \/ RedTeamRun \/ SysReconRun

-----------------------------------------------------------------------------
\* Which findings have a remediation that is a command or a line to write.
NetFixes       == {"promiscuous", "forwarding"}
HardeningFixes == {"kernel", "suidDumpable", "coreDumps", "usbStorage", "noNtp", "service"}
SecFixes       == {"gtfobin", "danger", "permissive", "wrongOwner"}
ContainerFixes == {"worldSocket", "cloudFile"}
RedTeamFixes   == {"writableUnit", "cronDir", "libraryPath", "cronPath", "history"}
SysReconFixes  == {"systemShell", "emptyPassword", "writableScript"}
Fixes == NetFixes \cup HardeningFixes \cup SecFixes \cup ContainerFixes \cup RedTeamFixes
         \cup SysReconFixes
Fixed(f, h) ==
    CASE f.title \in NetFixes       -> NetFixed(f, h)
      [] f.title \in HardeningFixes -> HardeningFixed(f, h)
      [] f.title \in SecFixes       -> SecFixed(f, h)
      [] f.title \in ContainerFixes -> ContainerFixed(f, h)
      [] f.title \in RedTeamFixes   -> RedTeamFixed(f, h)
      [] f.title \in SysReconFixes  -> SysReconFixed(f, h)

\* Whatever else happens to the machine may undo a remedy.
MachineChanges ==
    /\ ~Ended /\ changes < MaxChanges
    /\ \E family \in Hosts[module] : \E h \in family \ {host} :
           /\ host \in family
           /\ host' = h /\ seen' = seen \cup {h} /\ changes' = changes + 1
           /\ remedied' = {f \in remedied : Fixed(f, h) = h}
    /\ UNCHANGED <<helpervars, step, i, findings, errors, held, module, round>>

Remedy ==
    /\ step = "done" /\ round = 1 /\ Cardinality(remedied) < MaxRemedies
    /\ \E f \in findings \ remedied :
           /\ f.title \in Fixes
           /\ host' = Fixed(f, host)
           /\ remedied' = remedied \cup {f}
    /\ UNCHANGED <<seen, changes, helpervars, step, i, findings, errors, held, module, round>>

Rescan ==
    /\ step = "done" /\ round = 1 /\ remedied # {}
    /\ round' = 2 /\ step' = FirstStep[module] /\ i' = 1
    /\ seen' = {host} /\ findings' = {} /\ errors' = {} /\ unanswered' = {}
    /\ UNCHANGED <<host, changes, call, orphans, faults, held, module, remedied>>

Thread == Ask \/ Reap \/ Check
World  == Refuse \/ Reply \/ Hang \/ Expire \/ Outlive
Stay   == Ended /\ UNCHANGED vars
Next   == Thread \/ World \/ MachineChanges \/ Remedy \/ Rescan \/ Stay

Spec == Init /\ [][Next]_vars
\* The thread runs and so does its timer; a command that does not hang ends.
FairSpec == Spec /\ WF_vars(Thread) /\ WF_vars(Expire) /\ WF_vars(Reply)

-----------------------------------------------------------------------------
(***************************************************************************)
(* Types.  Every finding has one of its module's titles, every check that  *)
(* goes through a list is at a place of it, and what is held is what the   *)
(* next step wants.                                                        *)
(***************************************************************************)
NetTitles ==
    {"listeningServices", "dangerousPort", "externalConnections", "firewallRules", "defaultAccept",
     "noFirewall", "dns", "publicDns", "interfaces", "promiscuous", "forwarding", "arpSpoofing"}
HardeningTitles ==
    {"kernel", "kernelTally", "selinuxEnforcing", "selinuxPermissive", "selinuxDisabled", "noMac",
     "apparmorActive", "apparmorEmpty", "suidDumpable", "coreDumps", "usbStorage", "tmpShared",
     "tmpOptions", "vartmpNoexec", "ntpActive", "noNtp", "bootloader", "service", "autoUpdates",
     "noUpdates"}
SecTitles ==
    {"gtfobin", "setidSummary", "danger", "ssh", "sudoNopasswdAll", "sudoNopasswd", "sudoShell",
     "noLockout", "passwordExpiry", "passwordLength", "capability", "wrongOwner"}
ContainerTitles ==
    {"worldSocket", "groupSocket", "dockerTcp", "insideContainer", "privileged", "cloudFile", "imds"}
RedTeamTitles ==
    {"writablePath", "pathHasDot", "sudoPrivesc", "dockerSocket", "insideContainer", "hostDevices",
     "sharesPid", "privateKey", "awsKey", "password", "history", "writableUnit", "ldPreload",
     "ldLibraryPath", "libraryPath", "kernelCves", "cronDir", "cronPath"}
SysReconTitles ==
    {"systemInfo", "outdatedKernel", "uid0", "systemShell", "accountSummary", "emptyPassword",
     "processSummary", "suspicious", "cronJobs", "writableScript", "kernelModules", "filesystems",
     "secretVariable"}
LogTitles ==
    {"failedLogins", "accepted", "sudo", "su", "oom", "panic", "segfault", "lastLogins",
     "emptyLog", "shortLog"}
AuthTitles == {"failedLogins", "bruteForce", "accepted", "sudo", "su"}
Titles  == NetTitles \cup HardeningTitles \cup SecTitles \cup LogTitles \cup AuthTitles
           \cup ContainerTitles \cup RedTeamTitles \cup SysReconTitles \cup {"permissive"}
IsFinding(f) ==
    /\ DOMAIN f = {"title", "of", "sev"}
    /\ f.title \in Titles /\ f.sev \in {"INFO", "LOW", "MEDIUM", "HIGH", "CRITICAL"}
PlacesOf ==
    [netaudit    |-> NetQuestions \cup {"resolv", "forward", "done", "skipped"},
     hardening   |-> HardeningQuestions \cup
                     {"kernel", "dumpable", "limits", "modprobe", "grub", "apt", "done"},
     secaudit    |-> SecQuestions \cup
                     {"sshd", "sudo", "pam", "login", "sensitive", "permissions", "owner", "done"},
     loganalyzer |-> LogQuestions \cup
                     {"readable", "authLog", "readAuth", "syslog", "readSyslog", "tampering",
                      "size", "short", "done", "skipped"},
     container   |-> ContainerQuestions \cup
                     {"socket", "sockMode", "environment", "dev", "cloud", "cloudMode", "done"},
     redteam     |-> RedTeamQuestions \cup
                     {"envPath", "dockerSock", "inside", "credentials", "history", "unitFiles",
                      "libraries", "cron", "done"},
     sysrecon    |-> SysReconQuestions \cup {"passwd", "shadow", "cronFiles", "env", "done"}]
InList ==
    /\ i \in Nat \ {0}
    /\ step = "ntp" => i <= Len(NtpServices)
    /\ step = "services" => i <= Len(ServiceOrder)
    /\ step = "updates" => i <= Len(Updaters)
    /\ step \in {"sensitive", "permissions", "owner"} => i <= Len(SensitiveOrder)
    /\ step \in {"tampering", "size", "short"} => i <= Len(Watched)
    /\ step \in {"socket", "sockMode"} => i <= Len(SockPaths)
    /\ step \in {"cloud", "cloudMode"} => i <= Len(CloudFiles)
    /\ step = "credentials" => i <= Len(CredentialOrder)
Held ==
    /\ step = "readAuth" => held \in Elements(AuthLogs)
    /\ step = "readSyslog" => held \in Elements(SystemLogs)
    /\ step = "crontab" => held \in DOMAIN Crontabs
TypeOK ==
    /\ module \in DOMAIN Hosts /\ round \in {1, 2}
    /\ seen # {} /\ (\A h \in seen \cup {host} : Machine(h)) /\ changes \in 0 .. MaxChanges
    /\ step \in PlacesOf[module] /\ InList /\ Held
    /\ call.at \in {"idle", "running", "hung", "killed", "returned"}
    /\ call.at # "idle" => step \in Questions
    /\ orphans \cup unanswered \subseteq Questions \X (Nat \ {0})
    /\ faults \in 0 .. MaxFaults
    /\ \A f \in findings \cup remedied : IsFinding(f)
    /\ errors \subseteq {"ports", "resolv", "suid", "sudo", "auth", "socket", "cloud",
                      "passwd", "ps"}

Done == step = "done"
Told(title) == \E f \in findings : f.title = title
Throughout(P(_)) == \A h \in seen : P(h)
Sometime(P(_))   == \E h \in seen : P(h)

(***************************************************************************)
(* What protects a machine, whichever command would tell.                  *)
(***************************************************************************)
Filters(h) == (h.iptables /\ "INPUT" \notin h.accepting) \/ h.nft = "rules"
Confines(h) == h.selinux \in {"enforcing", "permissive"} \/ h.apparmor = "loaded"
KeepsTime(h) == h.units \cap TimeKeepers # {}
Updates(h) == h.units \cap Elements(Updaters) # {} \/ "enabled" \in h.files["20auto-upgrades"]

(***************************************************************************)
(* A protection that is missing throughout a scan is reported as missing,  *)
(* whatever commands hang or fail and whatever else changes: no failure of *)
(* a command counts as good news (netaudit.py:192-245, hardening.py:       *)
(* 187-251, 368-402, 450-486).                                             *)
(***************************************************************************)
AbsenceIsReported ==
    /\ Done /\ module = "netaudit" /\ ~Sometime(Filters) =>
           Told("noFirewall") \/ Finding("defaultAccept", "INPUT", "HIGH") \in findings
    /\ Done /\ module = "hardening" =>
           /\ ~Sometime(Confines) =>
                  Told("noMac") \/ Told("selinuxDisabled") \/ Told("apparmorEmpty")
           /\ ~Sometime(KeepsTime) => Told("noNtp")
           /\ ~Sometime(Updates) => Told("noUpdates")

(***************************************************************************)
(* What each module should report of a machine, independent of the order   *)
(* and means by which it finds out.  Not listed are                        *)
(*   - the permissions, the brute force and the protections that are       *)
(*     missing, which have properties of their own;                        *)
(*   - what only counts or lists what is there (Inventories below);        *)
(*   - what NothingInvented alone is about: all that is Noted below;       *)
(*   - what the code reads from the wrong column: external connections     *)
(*     with ss, and listening sockets with netstat; and what it takes for  *)
(*     something else (Mistaken below): sockets on [::1] for those on all  *)
(*     addresses, and set-group-id binaries for set-user-id ones.          *)
(***************************************************************************)
Wide(s) == Sockets[s].addr \in {"0.0.0.0", "[::]", "*"}
Loopback6(s) == Sockets[s].addr = "[::1]"
NetTruth(h) ==
    {DangerousPort(s, Wide(s)) : s \in
            {s \in h.listening : h.tool = "ss" /\ Sockets[s].port \in DANGEROUS_PORTS /\ ~Loopback6(s)}}
    \cup {Finding("defaultAccept", c, "HIGH") : c \in {c \in h.accepting : h.root /\ h.iptables}}
    \cup {Finding("publicDns", "resolv", "LOW") : x \in {"public"} \cap h.files["resolv"]}
    \cup {Finding("promiscuous", "promisc", "HIGH") : x \in {"promisc"} \cap h.dangers}
    \cup {Finding("forwarding", "forward", "MEDIUM") : x \in {"1"} \cap h.files["ip_forward"]}
    \cup {Finding("arpSpoofing", Neighbours[n].mac, "HIGH") : n \in
            {n \in h.neighbours : \E m \in h.neighbours :
                 Neighbours[m].mac = Neighbours[n].mac /\ Neighbours[m].ip # Neighbours[n].ip}}

HardeningTruth(h) ==
    {Finding("kernel", p.name, p.sev) :
        p \in {p \in Elements(KERNEL_CHECKS) : h.param[p.name] \notin {"absent", p.expected}}}
    \cup {Finding("selinuxPermissive", "mac", "MEDIUM") : x \in {"permissive"} \cap {h.selinux}}
    \cup {Finding("suidDumpable", "dumpable", "MEDIUM") : x \in {"nonzero"} \cap h.files["suid_dumpable"]}
    \cup {Finding("service", s, ServiceSeverity(s)) : s \in Elements(ServiceOrder) \cap h.units}
    \cup {Finding("tmpShared", "tmp", "MEDIUM") : x \in {"tmp"} \ h.mounts}
    \cup {Finding("tmpOptions", "tmp", "MEDIUM") :
            x \in {x \in TmpOptions : "tmp" \in h.mounts /\ x \notin h.mounts}}

\* sshd takes the first of two lines; where they differ this says nothing.
SshValues(h, d) == {l.value : l \in {l \in Elements(h.sshd) : l.directive = d /\ ~l.commented}}
SshTruth(h) ==
    {Finding("ssh", b.directive, b.sev) : b \in {b \in SshChecks :
        \/ SshValues(h, b.directive) = {b.value}
        \/ b.directive = "maxauthtries" /\ h.sshd # <<>> /\ SshValues(h, b.directive) = {}}}
SecTruth(h) ==
    SshTruth(h)
    \cup {Finding("gtfobin", b, "HIGH") :
            b \in {b \in h.setid : Binaries[b].gtfobin /\ Binaries[b].setuid}}
    \cup {Finding("danger", d, "MEDIUM") : d \in SecDangers \cap h.dangers}
    \cup {Finding("wrongOwner", f, "HIGH") :
            f \in {f \in Elements(SensitiveOrder) : h.owner[f] \notin {"absent", "root"}}}

ContainerTruth(h) ==
    {Finding("worldSocket", s, "CRITICAL") : s \in {s \in DOMAIN h.sock : 1 \in h.sock[s]}}
    \cup {Finding("groupSocket", s, "HIGH") : s \in {s \in DOMAIN h.sock : {1, 4} \cap h.sock[s] = {4}}}
    \cup {Finding("dockerTcp", p, "CRITICAL") : p \in {p \in h.tcp : h.tool # "none" /\ p = "2375"}}
    \cup {Finding("insideContainer", "environment", "INFO") : x \in h.marks \cap Indicators}
    \cup {Finding("privileged", "dev", "CRITICAL") :
            x \in {x \in h.marks \ Indicators : x \in {"kmsg", "mem"} /\ h.marks \cap Indicators # {}}}
    \cup {Finding("cloudFile", f, "HIGH") : f \in {f \in DOMAIN h.cloud : 2 \in h.cloud[f]}}
    \cup {Finding("imds", "imds", "MEDIUM") : x \in {h.imds} \ {"none"}}

\* May a user who is not root and scans now write one of these places?
Mine(h, list, place) == ~h.root /\ place \in h.lists[list] /\ place \in DOMAIN h.writes
RedTeamTruth(h) ==
    {Finding("writablePath", "PATH", "HIGH") : d \in {d \in h.lists["PATH"] : Mine(h, "PATH", d)}}
    \cup {Finding("sudoPrivesc", SudoEntries[e].command, "CRITICAL") :
            e \in {e \in h.sudo : SudoEntries[e].allowed /\ SudoEntries[e].command \in PRIVESC_CMDS}}
    \cup {Finding("hostDevices", "sda", "CRITICAL") :
            x \in {x \in h.marks : "sda" \in h.marks /\ x \in EscapeIndicators}}
    \cup {Finding("privateKey", f, "CRITICAL") :
            f \in {f \in Elements(CredentialOrder) \cap DOMAIN h.secrets : "pemKey" \in h.secrets[f]}}
    \cup {Finding("password", f, "HIGH") :
            f \in {f \in Elements(CredentialOrder) \cap DOMAIN h.secrets : "password" \in h.secrets[f]}}
    \cup {Finding("writableUnit", u, "CRITICAL") : u \in {u \in DOMAIN h.writes : Mine(h, "units", u)}}
    \cup {Finding("libraryPath", d, "HIGH") : d \in {d \in DOMAIN h.writes : Mine(h, "ld.so.conf", d)}}
    \cup {Finding("cronPath", d, "CRITICAL") : d \in {d \in DOMAIN h.writes : Mine(h, "crontab PATH", d)}}

RunsScript(h, s) == s \in Scripts(h.cron, h.crontab)
MayWrite(h, s) == ~h.root /\ s \in DOMAIN h.writes
SysReconTruth(h) ==
    {Finding("outdatedKernel", "kernel", "HIGH") : k \in {h.kernel} \cap OutdatedKernels}
    \cup {Finding("uid0", "passwd", "CRITICAL") :
            u \in {u \in DOMAIN h.accounts \ {"root"} : Accounts[u].uid0}}
    \cup {Finding("systemShell", u, "MEDIUM") :
            u \in {u \in DOMAIN h.accounts : Accounts[u].system /\ h.accounts[u] = "login"}}
    \cup {Finding("emptyPassword", u, "CRITICAL") :
            u \in {u \in h.noPassword : h.root /\ DOMAIN h.accounts # {}}}
    \cup {Finding("suspicious", KeywordOf(p), "HIGH") :
            p \in {p \in Suspicious(h.procs) : Processes[p].tool}}
    \cup {Finding("writableScript", s, "HIGH") :
            s \in {s \in DOMAIN h.writes : RunsScript(h, s) /\ MayWrite(h, s)}}
    \cup {Finding("secretVariable", v, "MEDIUM") : v \in h.env \cap SensitiveVariables}

Truth(h) ==
    CASE module = "netaudit"  -> NetTruth(h)
      [] module = "hardening" -> HardeningTruth(h)
      [] module = "secaudit"  -> SecTruth(h)
      [] module = "container" -> ContainerTruth(h)
      [] module = "redteam"   -> RedTeamTruth(h)
      [] module = "sysrecon"  -> SysReconTruth(h)
      [] OTHER -> {}

(***************************************************************************)
(* What is true of the machine throughout a scan in which every command    *)
(* answers is reported, wherever the check stands among the others; but    *)
(* for a script that moves between the user's crontab and the cron files,  *)
(* which are read one after the other (sysrecon.py:240-291).               *)
(***************************************************************************)
Moved(f) ==
    /\ f.title = "writableScript"
    /\ Sometime(LAMBDA h : f.of \notin Crontabs[h.cron])
    /\ Sometime(LAMBDA h : f.of \notin h.crontab)
NothingMissed ==
    Done /\ unanswered = {} =>
        \A f \in UNION {Truth(h) : h \in seen} :
            Throughout(LAMBDA h : f \in Truth(h)) /\ ~Moved(f) => f \in findings

(***************************************************************************)
(* What the checks note of a machine beyond Truth; as to these findings    *)
(* it is only stated that they are not invented.                           *)
(***************************************************************************)
Lacks(h, file, word) == h.files[file] # {} /\ word \notin h.files[file]
NetNoted(f, h) ==
    \/ f.title = "firewallRules" /\ f.of = "iptables" /\ h.root /\ h.iptables
    \/ f.title = "firewallRules" /\ f.of = "nft" /\ h.root /\ h.nft = "rules"
    \/ f.title = "externalConnections" /\ h.tool = "netstat" /\ External(h.connected) # {}
    \/ f.title = "dns" /\ h.files["resolv"] \cap {"public", "private"} # {}
HardeningNoted(f, h) ==
    \/ f.title = "selinuxEnforcing" /\ h.selinux = "enforcing"
    \/ f.title = "selinuxDisabled" /\ h.selinux = "disabled" /\ h.apparmor # "loaded"
    \/ f.title = "apparmorActive" /\ h.apparmor = "loaded"
    \/ f.title = "apparmorEmpty" /\ h.apparmor = "empty"
    \/ f.title = "coreDumps" /\ Lacks(h, "limits.conf", "core")
    \/ f.title = "usbStorage" /\ h.files["modprobe.d"] \cap {"usb-storage", "usb_storage"} = {}
    \/ f.title = "vartmpNoexec" /\ "vartmp" \in h.mounts /\ "vartmp:noexec" \notin h.mounts
    \/ f.title = "ntpActive" /\ f.of \in h.units
    \/ f.title = "bootloader" /\ (Lacks(h, "grub", "password") \/ Lacks(h, "grub2", "password"))
    \/ f.title = "autoUpdates" /\ Updates(h)
SecNoted(f, h) ==
    \/ \E r \in SudoRules : f.title = r.title /\ r.word \in h.files["sudoers"]
    \/ f.title = "noLockout" /\ \E file \in {"common-auth", "system-auth", "password-auth"} :
                                   Lacks(h, file, "faillock")
    \/ f.title = "passwordExpiry" /\ "maxDaysAbove90" \in h.files["login.defs"]
    \/ f.title = "passwordLength" /\ "minLenBelow8" \in h.files["login.defs"]
    \/ f.title = "capability" /\ f.of \in DOMAIN Binaries /\ Binaries[f.of].cap
LogNoted(f, h) ==
    \/ /\ f.title = "failedLogins"
       /\ \E log \in Elements(AuthLogs) :
              TotalFailed(LinesRead(h, log)) >= IF f.sev = "HIGH" THEN MANY_FAILURES ELSE 1
    \/ /\ \E e \in AuthEvents : f.title = e[1]
       /\ \E log \in Elements(AuthLogs) : Says(LinesRead(h, log), f.title)
    \/ /\ \E e \in SystemEvents : f.title = e[1]
       /\ \E log \in Elements(SystemLogs) : Says(LinesRead(h, log), f.title)
    \/ f.title = "emptyLog" /\ h.logs[f.of].there /\ h.logs[f.of].lines = <<>>
    \/ f.title = "shortLog" /\ Len(h.logs[f.of].lines) \in 1 .. SHORT_LOG - 1
ContainerNoted(f, h) ==
    \/ f.title = "dockerTcp" /\ f.sev = "MEDIUM" /\ f.of = "2376" /\ h.tool # "none" /\ f.of \in h.tcp
    \/ f.title = "cloudFile" /\ f.sev = "LOW" /\ f.of \in DOMAIN h.cloud /\ 2 \notin h.cloud[f.of]
Contains(h) == h.marks \cap EscapeIndicators # {}
RedTeamNoted(f, h) ==
    \/ f.title = "pathHasDot" /\ h.lists["PATH"] \cap CurrentDirectory # {}
    \/ /\ f.title = "dockerSocket" /\ "var/run/docker" \in DOMAIN h.sock
       /\ h.root \/ "var/run/docker" \in DOMAIN h.writes
    \/ f.title = "insideContainer" /\ f.of = "inside" /\ Contains(h)
    \/ f.title = "sharesPid" /\ Contains(h) /\ h.pidns = "hostNs"
    \/ f.title = "awsKey" /\ f.of \in DOMAIN h.secrets /\ "awsKey" \in h.secrets[f.of]
    \/ f.title = "history" /\ f.of \in DOMAIN h.secrets /\ h.secrets[f.of] \cap HistoryWords # {}
    \/ f.title = "ldPreload" /\ h.lists["LD_PRELOAD"] # {}
    \/ f.title = "ldLibraryPath" /\ \E d \in DOMAIN h.writes : Mine(h, "LD_LIBRARY_PATH", d)
    \/ f.title = "kernelCves" /\ h.kernel \in KERNEL_EXPLOITS
    \/ f.title = "cronDir" /\ Mine(h, "cron", f.of)
Noted(f, h) ==
    \/ NetNoted(f, h) \/ HardeningNoted(f, h) \/ SecNoted(f, h) \/ LogNoted(f, h)
    \/ ContainerNoted(f, h) \/ RedTeamNoted(f, h)

(***************************************************************************)
(* What is reported was true of the machine at some time of the scan, also *)
(* when commands hang; with two kinds of exceptions.  Mistaken is what the *)
(* checks take for something else: [::1] for all addresses, a neighbour on *)
(* two interfaces for two (netaudit.py:339), the process in the fifth      *)
(* column of ss for a peer (netaudit.py:155-166), a machine without        *)
(* SELinux for one without AppArmor, too (hardening.py:204-213), a binary  *)
(* that sets the group id for one that sets the user id, the last          *)
(* directive for sshd's first, a command sudo denies for one it allows,    *)
(* rsync for nc, and a container with process numbers of its own for one   *)
(* that shares the host's: a name space is compared with itself            *)
(* (redteam.py:259-265).                                                   *)
(* Stitched is what two looks at a machine that changes between them find, *)
(* each of them true, but maybe never both at once (container.py:134-174,  *)
(* redteam.py:228-256, sysrecon.py:126-172 and 240-291).                   *)
(* Left out are, besides the two that have properties of their own, only   *)
(* Inventories, that count or list what is there or other findings.        *)
(***************************************************************************)
Absences == {"noFirewall", "noMac", "noNtp", "noUpdates"}
Inventories ==
    {"listeningServices", "interfaces", "kernelTally", "setidSummary", "lastLogins", "systemInfo",
     "accountSummary", "processSummary", "cronJobs", "kernelModules", "filesystems"}
Claims == Titles \ (Absences \cup Inventories \cup {"permissive", "bruteForce"})
TwoInterfaces(h, mac) ==
    \E n, m \in h.neighbours : n # m /\ Neighbours[n].ip = Neighbours[m].ip
                              /\ {Neighbours[n].mac, Neighbours[m].mac} = {mac}
Contradicts(h, d) == \E v, w \in SshValues(h, d) : v # w
Denies(h, c) == \E e \in h.sudo : SudoEntries[e].command = c /\ ~SudoEntries[e].allowed
Resembles(h, k) == \E p \in h.procs : k \in Processes[p].words /\ ~Processes[p].tool
Mistaken(f) ==
    \/ f.title = "dangerousPort" /\ Loopback6(f.of)
    \/ f.title = "arpSpoofing" /\ \E h \in seen : TwoInterfaces(h, f.of)
    \/ f.title = "externalConnections" /\ \E h \in seen : h.tool = "ss"
    \/ f.title = "selinuxDisabled" /\ \E h \in seen : h.selinux = "disabled" /\ h.apparmor = "loaded"
    \/ f.title = "gtfobin" /\ \E h \in seen : f.of \in h.setid /\ ~Binaries[f.of].setuid
    \/ f.title = "ssh" /\ \E h \in seen : Contradicts(h, f.of)
    \/ f.title = "sudoPrivesc" /\ \E h \in seen : Denies(h, f.of)
    \/ f.title = "suspicious" /\ \E h \in seen : Resembles(h, f.of)
    \/ f.title = "sharesPid" /\ \E h \in seen : Contains(h) /\ h.pidns # "hostNs"
Stitched(f) ==
    \/ /\ f.title = "privileged" /\ \E h \in seen : h.marks \cap Indicators # {}
       /\ \E h \in seen : h.marks \cap {"kmsg", "mem"} # {}
    \/ /\ f.title = "hostDevices" /\ \E h \in seen : h.marks \cap EscapeIndicators # {}
       /\ \E h \in seen : "sda" \in h.marks
    \/ /\ f.title = "emptyPassword" /\ \E h \in seen : DOMAIN h.accounts # {}
       /\ \E h \in seen : h.root /\ f.of \in h.noPassword
    \/ /\ f.title = "writableScript" /\ \E h \in seen : RunsScript(h, f.of)
       /\ \E h \in seen : MayWrite(h, f.of)
Founded(f) == (\E h \in seen : f \in Truth(h) \/ Noted(f, h)) \/ Mistaken(f) \/ Stitched(f)
ClaimsAreTrue == \A f \in findings : f.title \in Claims => Founded(f)

(***************************************************************************)
(* That a protection is missing is claimed, as well, where a command did   *)
(* not answer or lacked the rights to; and of a machine that goes from one *)
(* means of it to another, each looked for when it is not there, so that   *)
(* it is every means by itself that was missing.                           *)
(***************************************************************************)
AbsencesAreTrue ==
    unanswered = {} /\ Throughout(LAMBDA h : h.root) =>
        /\ Told("noFirewall") => /\ Sometime(LAMBDA h : ~h.iptables)
                                /\ Sometime(LAMBDA h : h.nft # "rules")
        /\ Told("noMac") => /\ Sometime(LAMBDA h : h.selinux = "absent")
                           /\ Sometime(LAMBDA h : h.apparmor # "loaded")
        /\ Told("noNtp") => \A u \in TimeKeepers : Sometime(LAMBDA h : u \notin h.units)
        /\ Told("noUpdates") =>
               /\ \A u \in Elements(Updaters) : Sometime(LAMBDA h : u \notin h.units)
               /\ Sometime(LAMBDA h : "enabled" \notin h.files["20auto-upgrades"])
NothingInvented == ClaimsAreTrue /\ AbsencesAreTrue

(***************************************************************************)
(* A finding whose remediation has been carried out, and is still in       *)
(* place, does not come back in a scan whose commands answer: the value    *)
(* the remediation sets is the value the check wants.  Exceptions are      *)
(* three remediations that cannot do it: chmod u-s for a binary that sets  *)
(* the group id, chmod 600 for a file reported because it exists, and      *)
(* chmod 755 for a directory the user owns (redteam.py:437, 511).          *)
(***************************************************************************)
CannotHold(f) ==
    \/ f.title = "gtfobin" /\ ~Binaries[f.of].setuid
    \/ f.title = "cloudFile" /\ f.sev = "LOW"
    \/ /\ f.title \in {"libraryPath", "cronPath"}
       /\ Sometime(LAMBDA h : f.of \in DOMAIN h.writes /\ h.writes[f.of] = "owner")
RemediationHolds ==
    Done /\ round = 2 /\ unanswered = {} => \A f \in remedied \cap findings : CannotHold(f)

(***************************************************************************)
(* A sensitive file called overly permissive did permit, at some time of   *)
(* the scan, something it should not (secaudit.py:439-446).                *)
(***************************************************************************)
Grants(h, f) == h.owner[f] # "absent" /\ h.mode[f] \ SENSITIVE_FILES[f] # {}
FlaggedIsMorePermissive ==
    \A f \in findings : f.title = "permissive" => \E h \in seen : Grants(h, f.of)

(***************************************************************************)
(* Conversely (the comment at secaudit.py:439: "Check if permissions are   *)
(* MORE permissive than expected"): a file that permits throughout a scan  *)
(* what it should not is called so.                                        *)
(***************************************************************************)
MorePermissiveIsFlagged ==
    Done /\ module = "secaudit" =>
        \A f \in Elements(SensitiveOrder) :
            Throughout(LAMBDA h : Grants(h, f)) => Finding("permissive", f, "HIGH") \in findings

(***************************************************************************)
(* Log rotation notwithstanding, all the addresses the brute force finding *)
(* names, or tells to block, had enough failures in one of the two logs at *)
(* one time; and an address that has them throughout, in the lines read of *)
(* the log read first, is named, unless EVIDENCE_LIMIT others had, at some *)
(* time, as many at least (loganalyzer.py:127-175).                        *)
(***************************************************************************)
Shows(lines, ip) == Failures(lines, ip) >= BRUTE_FORCE_THRESHOLD
NoLess(lines, ip) == {b \in Attackers \ {ip} : Failures(lines, b) >= Failures(lines, ip)}
Accusations == {f \in findings : f.title = "bruteForce"}
BruteForceExact ==
    module = "loganalyzer" =>
        /\ \A f \in Accusations : \E h \in seen : \E log \in Elements(AuthLogs) :
               \A ip \in f.of.named \cup f.of.blocked : Shows(LinesRead(h, log), ip)
        /\ Done => \A ip \in Attackers : (\A h \in seen : Shows(LinesRead(h, "auth.log"), ip)) =>
               \/ \E f \in Accusations : ip \in f.of.named
               \/ \E h \in seen : Cardinality(NoLess(LinesRead(h, "auth.log"), ip)) >= EVIDENCE_LIMIT

\* Every scan ends, although nothing says that a command does.
HostScanEnds == <>Ended /\ [](round = 2 => <>Ended)
=============================================================================
