--------------------------- MODULE HostScan_proofs ---------------------------
(***************************************************************************)
(* Theorems about HostScan, for any machines and changes of them, and any  *)
(* number of commands that hang.                                           *)
(***************************************************************************)
EXTENDS HostScan, FiniteSetTheorems, TLAPS

(***************************************************************************)
(* What the checks of a module may do: go on, from one of the module's own *)
(* places to another, and add findings of the module's own.                *)
(***************************************************************************)
Going(m, titles) ==
    /\ step \in PlacesOf[m] \ {"done", "skipped"} /\ step' \in PlacesOf[m]
    /\ UNCHANGED hostvars
    /\ call' = Idle \/ (UNCHANGED call /\ step \notin Questions)
    /\ findings \subseteq findings'
    /\ \A f \in findings' \ findings : f.title \in titles

LEMMA ReportGrows ==
    ASSUME NEW fs, NEW es, NEW titles, Report(fs, es), \A f \in fs : f.title \in titles
    PROVE  findings \subseteq findings' /\ \A f \in findings' \ findings : f.title \in titles
BY DEF Report

LEMMA NothingGrows ==
    ASSUME NEW titles, Nothing
    PROVE  findings \subseteq findings' /\ \A f \in findings' \ findings : f.title \in titles
BY DEF Nothing

LEMMA PresenceGoes ==
    ASSUME NEW m, NEW q \in PlacesOf[m] \ {"done", "skipped"}, NEW next \in PlacesOf[m],
           NEW titles, NEW finding, finding.title \in titles, Presence(q, finding, next)
    PROVE  Going(m, titles)
BY DEF Presence, Going, Decide, Goto, Report, Nothing, hostvars

LEMMA ReadForGoes ==
    ASSUME NEW m, NEW s \in PlacesOf[m] \ {"done", "skipped"}, s \notin Questions,
           NEW next \in PlacesOf[m], NEW titles, NEW files, NEW rules,
           \A r \in rules : r.title \in titles, ReadFor(s, files, rules, next)
    PROVE  Going(m, titles)
<1>1. \A f \in Judged(s, rules, FirstOf(files)) : f.title \in titles
  BY DEF Judged, Broken, Finding
<1> QED BY <1>1, ReportGrows DEF ReadFor, Look, Going, Goto, hostvars, helpervars

\* Places where no question is asked.
LEMMA QuietPlaces ==
    {"resolv", "forward", "kernel", "dumpable", "limits", "modprobe", "grub", "apt", "sshd",
     "sudo", "pam", "login", "sensitive", "permissions", "owner", "readable", "authLog",
     "readAuth", "syslog", "readSyslog", "tampering", "size", "short", "socket", "sockMode",
     "environment", "dev", "cloud", "cloudMode", "envPath", "dockerSock", "inside", "credentials",
     "history", "unitFiles", "libraries", "cron", "passwd", "shadow", "cronFiles", "env", "done",
     "skipped"}
        \cap Questions = {}
BY DEF Questions, NetQuestions, HardeningQuestions, SecQuestions, LogQuestions, ContainerQuestions,
   RedTeamQuestions, SysReconQuestions

LEMMA NetGoes == NetAuditRun => Going("netaudit", NetTitles)
<1>p. PlacesOf["netaudit"] = {"which", "ports", "connections", "iptables", "nft", "interfaces",
                              "promisc", "neigh", "resolv", "forward", "done", "skipped"}
  BY DEF PlacesOf, NetQuestions
<1>1. CASE NetAvailable
  BY <1>1, <1>p, NothingGrows DEF NetAvailable, Going, Decide, Goto, hostvars
<1>2. CASE CheckListeningPorts
  BY <1>2, <1>p DEF CheckListeningPorts, Report, Finding, DangerousPort, NetTitles, Going, Decide,
                    Goto, hostvars
<1>3. CASE CheckActiveConnections
  BY <1>3, <1>p DEF CheckActiveConnections, Report, Nothing, Finding, NetTitles, Going, Decide,
                    Goto, hostvars
<1>4. CASE CheckIptables
  BY <1>4, <1>p DEF CheckIptables, Report, Nothing, Finding, NetTitles, Going, Decide, Goto, hostvars
<1>5. CASE CheckNft
  BY <1>5, <1>p DEF CheckNft, Report, Finding, NetTitles, Going, Decide, Goto, hostvars
<1>6. CASE CheckDns
  BY <1>6, <1>p, QuietPlaces DEF CheckDns, Look, helpervars, Report, Finding, NetTitles, Going,
                             Goto, hostvars
<1>7. CASE CheckInterfaces
  <2>1. /\ Finding("interfaces", "interfaces", "INFO").title \in NetTitles
        /\ Finding("promiscuous", "promisc", "HIGH").title \in NetTitles
        /\ \A r \in {Rule("1", TRUE, "forwarding", "MEDIUM")} : r.title \in NetTitles
    BY DEF Rule, Finding, NetTitles
  <2>2. CASE Presence("interfaces", Finding("interfaces", "interfaces", "INFO"), "promisc")
    BY <2>1, <2>2, <1>p, PresenceGoes
  <2>3. CASE Presence("promisc", Finding("promiscuous", "promisc", "HIGH"), "forward")
    BY <2>1, <2>3, <1>p, PresenceGoes
  <2>4. CASE ReadFor("forward", <<"ip_forward">>, {Rule("1", TRUE, "forwarding", "MEDIUM")}, "neigh")
    <3>1. "forward" \notin Questions
      BY QuietPlaces
    <3> DEFINE files == <<"ip_forward">>
    <3> DEFINE rules == {Rule("1", TRUE, "forwarding", "MEDIUM")}
    <3>2. ReadFor("forward", files, rules, "neigh") /\ \A r \in rules : r.title \in NetTitles
      BY <2>1, <2>4
    <3> HIDE DEF files, rules
    <3> QED BY <3>2, <3>1, <1>p, ReadForGoes
  <2> QED BY <1>7, <2>2, <2>3, <2>4 DEF CheckInterfaces
<1>8. CASE CheckArp
  BY <1>8, <1>p DEF CheckArp, Report, Finding, NetTitles, Going, Decide, Goto, hostvars
<1> QED BY <1>1, <1>2, <1>3, <1>4, <1>5, <1>6, <1>7, <1>8 DEF NetAuditRun

LEMMA HardeningGoes == HardeningRun => Going("hardening", HardeningTitles)
<1>p. PlacesOf["hardening"] = {"getenforce", "aaStatus", "mount", "ntp", "timedatectl", "services",
                               "updates", "kernel", "dumpable", "limits", "modprobe", "grub",
                               "apt", "done"}
  BY DEF PlacesOf, HardeningQuestions
<1>1. CASE CheckKernelParam
  BY <1>1, <1>p, QuietPlaces DEF CheckKernelParam, Report, Nothing, Finding, HardeningTitles, Going,
                             Decide, Goto, hostvars, Look, helpervars, Deviates
<1>2. CASE KernelTally
  BY <1>2, <1>p, QuietPlaces DEF KernelTally, Report, Nothing, Finding, HardeningTitles, Going,
                             Decide, Goto, hostvars, Look, helpervars
<1>3. CASE CheckSELinux
  <2>1. step = "getenforce" /\ step' \in {"dumpable", "aaStatus"} /\ UNCHANGED hostvars /\ call' = Idle
    BY <1>3 DEF CheckSELinux, Decide, Goto
  <2>2. \A s : (CASE s = "enforcing"  -> Finding("selinuxEnforcing", "mac", "INFO")
                  [] s = "permissive" -> Finding("selinuxPermissive", "mac", "MEDIUM")
                  [] OTHER            -> Finding("selinuxDisabled", "mac",
                  "HIGH")).title \in HardeningTitles
    BY DEF Finding, HardeningTitles
  <2>3. findings \subseteq findings' /\ \A f \in findings' \ findings : f.title \in HardeningTitles
    BY <1>3, <2>2 DEF CheckSELinux, Report, Nothing
  <2> QED BY <2>1, <2>3, <1>p DEF Going
<1>4. CASE CheckAppArmor
  BY <1>4, <1>p DEF CheckAppArmor, Report, Nothing, Finding, HardeningTitles, Going, Decide, Goto,
                    hostvars
<1>5. CASE CheckSuidDumpable
  <2> DEFINE files == <<"suid_dumpable">>
  <2> DEFINE rules == {Rule("nonzero", TRUE, "suidDumpable", "MEDIUM")}
  <2>1. ReadFor("dumpable", files, rules, "limits")
    BY <1>5 DEF CheckSuidDumpable
  <2>2. \A r \in rules : r.title \in HardeningTitles
    BY DEF Rule, HardeningTitles
  <2>3. "dumpable" \notin Questions
    BY QuietPlaces
  <2> HIDE DEF files, rules
  <2> QED BY <2>1, <2>2, <2>3, <1>p, ReadForGoes
<1>6. CASE CheckLimits
  <2> DEFINE files == <<"limits.conf">>
  <2> DEFINE rules == {Rule("core", FALSE, "coreDumps", "LOW")}
  <2>1. ReadFor("limits", files, rules, "modprobe")
    BY <1>6 DEF CheckLimits
  <2>2. \A r \in rules : r.title \in HardeningTitles
    BY DEF Rule, HardeningTitles
  <2>3. "limits" \notin Questions
    BY QuietPlaces
  <2> HIDE DEF files, rules
  <2> QED BY <2>1, <2>2, <2>3, <1>p, ReadForGoes
<1>7. CASE CheckUsbStorage
  BY <1>7, <1>p, QuietPlaces DEF CheckUsbStorage, Report, Nothing, Finding, HardeningTitles, Going,
                             Decide, Goto, hostvars, Look, helpervars
<1>8. CASE CheckMountOptions
  BY <1>8, <1>p DEF CheckMountOptions, Report, Nothing, Finding, HardeningTitles, Going, Decide,
                    Goto, hostvars, MountFindings
<1>9. CASE CheckNtp
  BY <1>9, <1>p DEF CheckNtp, Report, Nothing, Finding, HardeningTitles, Going, Decide, Goto, hostvars
<1>10. CASE CheckTimedatectl
  BY <1>10, <1>p DEF CheckTimedatectl, Report, Nothing, Finding, HardeningTitles, Going, Decide,
                     Goto, hostvars
<1>11. CASE CheckBootloader
  <2> DEFINE files == <<"grub", "grub2">>
  <2> DEFINE rules == {Rule("password", FALSE, "bootloader", "MEDIUM")}
  <2>1. ReadFor("grub", files, rules, "services")
    BY <1>11 DEF CheckBootloader
  <2>2. \A r \in rules : r.title \in HardeningTitles
    BY DEF Rule, HardeningTitles
  <2>3. "grub" \notin Questions
    BY QuietPlaces
  <2> HIDE DEF files, rules
  <2> QED BY <2>1, <2>2, <2>3, <1>p, ReadForGoes
<1>12. CASE CheckService
  BY <1>12, <1>p DEF CheckService, Report, Nothing, Finding, HardeningTitles, Going, Decide, Goto,
                     hostvars
<1>13. CASE CheckApt
  BY <1>13, <1>p, QuietPlaces DEF CheckApt, Report, Nothing, Finding, HardeningTitles, Going,
                             Decide, Goto, hostvars, Look, helpervars, Updating
<1>14. CASE CheckUpdater
  BY <1>14, <1>p DEF CheckUpdater, Report, Nothing, Finding, HardeningTitles, Going, Decide, Goto,
                     hostvars, Updating
<1> QED BY <1>1, <1>2, <1>3, <1>4, <1>5, <1>6, <1>7, <1>8, <1>9, <1>10, <1>11, <1>12, <1>13,
    <1>14 DEF HardeningRun

LEMMA SecGoes == SecAuditRun /\ ~CheckPermissions => Going("secaudit", SecTitles)
<1>p. PlacesOf["secaudit"] = {"suid", "worldFiles", "worldDirs", "getcap", "unowned", "sshd", "sudo",
    "pam",
                              "login", "sensitive", "permissions", "owner", "done"}
  BY DEF PlacesOf, SecQuestions
<1>1. CASE CheckSuidSgid
  BY <1>1, <1>p DEF CheckSuidSgid, Report, Nothing, Finding, SecTitles, Going, Decide, Goto, hostvars
<1>2. CASE CheckWorldWritable
  <2>1. \A o : Finding("danger", o, "MEDIUM").title \in SecTitles
    BY DEF Finding, SecTitles
  <2>2. CASE Presence("worldFiles", Finding("danger", "worldFiles", "MEDIUM"), "worldDirs")
    BY <2>1, <2>2, <1>p, PresenceGoes
  <2>3. CASE Presence("worldDirs", Finding("danger", "worldDirs", "MEDIUM"), "sshd")
    BY <2>1, <2>3, <1>p, PresenceGoes
  <2> QED BY <1>2, <2>2, <2>3 DEF CheckWorldWritable
<1>3. CASE CheckSshConfig
  BY <1>3, <1>p, QuietPlaces DEF CheckSshConfig, Report, Nothing, Finding, SecTitles, Going, Decide,
                             Goto, hostvars, Look, helpervars, SshFindings
<1>4. CASE CheckSudo
  <2>1. \A f \in Judged("sudo", SudoRules, host.files["sudoers"]) : f.title \in SecTitles
    BY DEF Judged, Broken, SudoRules, Rule, Finding, SecTitles
  <2> QED BY <1>4, <2>1, <1>p, QuietPlaces DEF CheckSudo, Report, Going, Look, Goto, hostvars,
                                     helpervars
<1>5. CASE CheckPam
  <2> DEFINE files == <<"common-auth", "system-auth", "password-auth">>
  <2> DEFINE rules == {Rule("faillock", FALSE, "noLockout", "MEDIUM")}
  <2>1. ReadFor("pam", files, rules, "login")
    BY <1>5 DEF CheckPam
  <2>2. \A r \in rules : r.title \in SecTitles
    BY DEF Rule, SecTitles
  <2>3. "pam" \notin Questions
    BY QuietPlaces
  <2> HIDE DEF files, rules
  <2> QED BY <2>1, <2>2, <2>3, <1>p, ReadForGoes
<1>6. CASE CheckPasswordPolicy
  <2> DEFINE files == <<"login.defs">>
  <2> DEFINE rules == {Rule("maxDaysAbove90", TRUE, "passwordExpiry", "MEDIUM"),
                       Rule("minLenBelow8", TRUE, "passwordLength", "MEDIUM")}
  <2>1. ReadFor("login", files, rules, "getcap")
    BY <1>6 DEF CheckPasswordPolicy
  <2>2. \A r \in rules : r.title \in SecTitles
    BY DEF Rule, SecTitles
  <2>3. "login" \notin Questions
    BY QuietPlaces
  <2> HIDE DEF files, rules
  <2> QED BY <2>1, <2>2, <2>3, <1>p, ReadForGoes
<1>7. CASE CheckCapabilities
  BY <1>7, <1>p DEF CheckCapabilities, Report, Nothing, Finding, SecTitles, Going, Decide, Goto,
                    hostvars
<1>8. CASE SensitiveExists
  BY <1>8, <1>p, QuietPlaces DEF SensitiveExists, Report, Nothing, Finding, SecTitles, Going,
                             Decide, Goto, hostvars, Look, helpervars, NextFile
<1>9. CASE CheckOwner
  BY <1>9, <1>p, QuietPlaces DEF CheckOwner, Report, Nothing, Finding, SecTitles, Going, Decide,
                             Goto, hostvars, Look, helpervars, NextFile
<1>10. CASE CheckUnownedFiles
  <2>1. \A o : Finding("danger", o, "MEDIUM").title \in SecTitles
    BY DEF Finding, SecTitles
  <2>2. CASE Presence("unowned", Finding("danger", "unowned", "MEDIUM"), "done")
    BY <2>1, <2>2, <1>p, PresenceGoes
  <2> QED BY <1>10, <2>2 DEF CheckUnownedFiles
<1> QED BY <1>1, <1>2, <1>3, <1>4, <1>5, <1>6, <1>7, <1>8, <1>9, <1>10 DEF SecAuditRun

LEMMA LogGoes == LogAnalyzerRun /\ ~CheckAuthLogs => Going("loganalyzer", LogTitles)
<1>p. PlacesOf["loganalyzer"] = {"last", "lastlog", "readable", "authLog", "readAuth", "syslog",
    "readSyslog",
                                 "tampering", "size", "short", "done", "skipped"}
  BY DEF PlacesOf, LogQuestions
<1>1. CASE LogAvailable
  BY <1>1, <1>p, QuietPlaces DEF LogAvailable, Report, Nothing, Finding, LogTitles, Going, Decide,
                             Goto, hostvars, Look, helpervars
<1>2. CASE FindAuthLog
  BY <1>2, <1>p, QuietPlaces DEF FindAuthLog, Report, Nothing, Finding, LogTitles, Going, Decide,
                             Goto, hostvars, Look, helpervars
<1>3. CASE FindSyslog
  BY <1>3, <1>p, QuietPlaces DEF FindSyslog, Report, Nothing, Finding, LogTitles, Going, Decide,
                             Goto, hostvars, Look, helpervars
<1>4. CASE CheckSystemLogs
  <2>1. \A lines : \A f \in EventFindings(lines, SystemEvents) : f.title \in LogTitles
    BY DEF EventFindings, SystemEvents, Finding, LogTitles
  <2> QED BY <1>4, <2>1, <1>p, QuietPlaces DEF CheckSystemLogs, Report, Going, Look, Goto, hostvars,
                                     helpervars
<1>5. CASE CheckLastLogins
  <2>1. Finding("lastLogins", "last", "INFO").title \in LogTitles
    BY DEF Finding, LogTitles
  <2>2. CASE Presence("last", Finding("lastLogins", "last", "INFO"), "lastlog")
    BY <2>1, <2>2, <1>p, PresenceGoes
  <2>3. CASE Decide("lastlog") /\ Goto("tampering", 1) /\ Nothing
    BY <2>3, <1>p DEF Nothing, Going, Decide, Goto, hostvars
  <2> QED BY <1>5, <2>2, <2>3 DEF CheckLastLogins
<1>6. CASE LogThere
  BY <1>6, <1>p, QuietPlaces DEF LogThere, Report, Nothing, Finding, LogTitles, Going, Decide, Goto,
                             hostvars, Look, helpervars, NextLog
<1>7. CASE CheckEmpty
  BY <1>7, <1>p, QuietPlaces DEF CheckEmpty, Report, Nothing, Finding, LogTitles, Going, Decide,
                             Goto, hostvars, Look, helpervars, NextLog
<1>8. CASE CheckShort
  BY <1>8, <1>p, QuietPlaces DEF CheckShort, Report, Nothing, Finding, LogTitles, Going, Decide,
                             Goto, hostvars, Look, helpervars, NextLog
<1> QED BY <1>1, <1>2, <1>3, <1>4, <1>5, <1>6, <1>7, <1>8 DEF LogAnalyzerRun

LEMMA ContainerGoes == ContainerRun => Going("container", ContainerTitles)
<1>p. PlacesOf["container"] = {"tcp", "imds", "socket", "sockMode", "environment", "dev", "cloud",
                               "cloudMode", "done"}
  BY DEF PlacesOf, ContainerQuestions
<1>1. CASE SocketThere
  BY <1>1, <1>p, QuietPlaces DEF SocketThere, Nothing, Going, Goto, NextOf, Look, hostvars, helpervars
<1>2. CASE CheckSocket
  <2>1. \A p, mode : \A f \in SocketFindings(p, mode) : f.title \in ContainerTitles
    BY DEF SocketFindings, Finding, ContainerTitles
  <2> QED BY <1>2, <2>1, <1>p, QuietPlaces DEF CheckSocket, Report, Going, Goto, NextOf, Look,
                                     hostvars, helpervars
<1>3. CASE CheckDockerTcp
  BY <1>3, <1>p DEF CheckDockerTcp, Report, Nothing, Finding, ContainerTitles, Going, Decide, Goto,
                    hostvars
<1>4. CASE CheckEnvironment
  BY <1>4, <1>p, QuietPlaces DEF CheckEnvironment, Report, Nothing, Finding, ContainerTitles, Going,
                             Goto, Look, hostvars, helpervars
<1>5. CASE CheckPrivileged
  BY <1>5, <1>p, QuietPlaces DEF CheckPrivileged, Report, Nothing, Finding, ContainerTitles, Going,
                             Goto, Look, hostvars, helpervars
<1>6. CASE CloudThere
  BY <1>6, <1>p, QuietPlaces DEF CloudThere, Nothing, Going, Goto, NextOf, Look, hostvars, helpervars
<1>7. CASE CheckCloudFile
  <2>1. \A p, mode : CloudFinding(p, mode).title \in ContainerTitles
    BY DEF CloudFinding, Finding, ContainerTitles
  <2> QED BY <1>7, <2>1, <1>p, QuietPlaces DEF CheckCloudFile, Report, Going, Goto, NextOf, Look,
                                     hostvars, helpervars
<1>8. CASE CheckImds
  BY <1>8, <1>p DEF CheckImds, Report, Nothing, Finding, ContainerTitles, Going, Decide, Goto, hostvars
<1> QED BY <1>1, <1>2, <1>3, <1>4, <1>5, <1>6, <1>7, <1>8 DEF ContainerRun

LEMMA RedTeamGoes == RedTeamRun => Going("redteam", RedTeamTitles)
<1>p. PlacesOf["redteam"] = {"sudoL", "sda", "pid1ns", "selfns", "uname", "envPath", "dockerSock",
                             "inside", "credentials", "history", "unitFiles", "libraries", "cron",
                             "done"}
  BY DEF PlacesOf, RedTeamQuestions
<1>e. \A list, sev : \A title \in RedTeamTitles : \A f \in Each(title, list, sev) : f.title \in RedTeamTitles
  BY DEF Each, Finding
<1>1. CASE CheckWritablePath
  BY <1>1, <1>p, QuietPlaces DEF CheckWritablePath, Report, Finding, RedTeamTitles, Going, Goto,
                             Look, hostvars, helpervars
<1>2. CASE CheckSudoPrivesc
  BY <1>2, <1>p DEF CheckSudoPrivesc, Report, Nothing, Finding, RedTeamTitles, Going, Decide, Goto,
                    hostvars
<1>3. CASE CheckDockerSocket
  BY <1>3, <1>p, QuietPlaces DEF CheckDockerSocket, Report, Nothing, Finding, RedTeamTitles, Going,
                             Goto, Look, hostvars, helpervars
<1>4. CASE CheckInside
  BY <1>4, <1>p, QuietPlaces DEF CheckInside, Report, Nothing, Finding, RedTeamTitles, Going, Goto,
                             Look, hostvars, helpervars
<1>5. CASE CheckDevices
  <2>1. Finding("hostDevices", "sda", "CRITICAL").title \in RedTeamTitles
    BY DEF Finding, RedTeamTitles
  <2> QED BY <1>5, <2>1, <1>p, PresenceGoes DEF CheckDevices
<1>6. CASE ReadPid1 \/ ComparePid
  BY <1>6, <1>p DEF ReadPid1, ComparePid, Report, Nothing, Finding, RedTeamTitles, Going, Decide,
                    Goto, hostvars
<1>7. CASE CheckCredentialFile
  <2>1. \A s, content : \A f \in Judged(s, SecretRules, content) : f.title \in RedTeamTitles
    BY DEF Judged, Broken, SecretRules, Rule, Finding, RedTeamTitles
  <2> QED BY <1>7, <2>1, <1>p, QuietPlaces DEF CheckCredentialFile, Report, Going, Goto, NextOf,
                                     Look, hostvars, helpervars
<1>8. CASE CheckHistory
  BY <1>8, <1>p, QuietPlaces DEF CheckHistory, Report, Finding, RedTeamTitles, Going, Goto, Look,
                             hostvars, helpervars
<1>9. CASE CheckWritableServices
  <2>1. \A f \in Each("writableUnit", "units", "CRITICAL") : f.title \in RedTeamTitles
    BY <1>e DEF RedTeamTitles
  <2> QED BY <1>9, <2>1, <1>p, QuietPlaces DEF CheckWritableServices, Report, Going, Goto, Look,
                                     hostvars, helpervars
<1>10. CASE CheckLibraries
  <2>1. \A f \in Each("ldLibraryPath", "LD_LIBRARY_PATH", "HIGH") \cup
                  Each("libraryPath", "ld.so.conf", "HIGH") :
            f.title \in RedTeamTitles
    BY <1>e DEF RedTeamTitles
  <2>2. Finding("ldPreload", "LD_PRELOAD", "HIGH").title \in RedTeamTitles
    BY DEF Finding, RedTeamTitles
  <2> QED BY <1>10, <2>1, <2>2, <1>p, QuietPlaces DEF CheckLibraries, Report, Going, Goto, Look,
                                     hostvars, helpervars
<1>11. CASE CheckKernelExploits
  BY <1>11, <1>p DEF CheckKernelExploits, Report, Finding, RedTeamTitles, Going, Decide, Goto, hostvars
<1>12. CASE CheckCron
  <2>1. \A f \in Each("cronDir", "cron", "CRITICAL") \cup Each("cronPath", "crontab PATH", "CRITICAL") :
            f.title \in RedTeamTitles
    BY <1>e DEF RedTeamTitles
  <2> QED BY <1>12, <2>1, <1>p, QuietPlaces DEF CheckCron, Report, Going, Goto, Look, hostvars,
                                     helpervars
<1> QED BY <1>1, <1>2, <1>3, <1>4, <1>5, <1>6, <1>7, <1>8, <1>9, <1>10, <1>11, <1>12 DEF RedTeamRun

LEMMA SysReconGoes == SysReconRun => Going("sysrecon", SysReconTitles)
<1>p. PlacesOf["sysrecon"] = {"kernelName", "uptime", "arch", "ps", "crontab", "lsmod", "mountList",
                              "passwd", "shadow", "cronFiles", "env", "done"}
  BY DEF PlacesOf, SysReconQuestions
<1>1. CASE ReadKernel \/ ReadUptime
  BY <1>1, <1>p DEF ReadKernel, ReadUptime, Nothing, Going, Decide, Goto, hostvars
<1>2. CASE CheckOsInfo
  BY <1>2, <1>p DEF CheckOsInfo, Report, Finding, SysReconTitles, Going, Decide, Goto, hostvars
<1>3. CASE CheckAccounts
  BY <1>3, <1>p, QuietPlaces DEF CheckAccounts, Report, Finding, SysReconTitles, Going, Goto, Look,
                             hostvars, helpervars
<1>4. CASE CheckShadow
  BY <1>4, <1>p, QuietPlaces DEF CheckShadow, Report, Finding, SysReconTitles, Going, Goto, Look,
                             hostvars, helpervars
<1>5. CASE CheckProcesses
  BY <1>5, <1>p DEF CheckProcesses, Report, Finding, SysReconTitles, Going, Decide, Goto, hostvars
<1>6. CASE ReadCronFiles
  BY <1>6, <1>p, QuietPlaces DEF ReadCronFiles, Nothing, Going, Goto, Look, hostvars, helpervars
<1>7. CASE CheckCronScripts
  BY <1>7, <1>p DEF CheckCronScripts, Report, Nothing, Finding, SysReconTitles, Going, Decide, Goto,
                    hostvars
<1>8. CASE CheckKernelModules \/ CheckMounts
  <2>1. /\ Finding("kernelModules", "lsmod", "INFO").title \in SysReconTitles
        /\ Finding("filesystems", "mount", "INFO").title \in SysReconTitles
    BY DEF Finding, SysReconTitles
  <2> QED BY <1>8, <2>1, <1>p, PresenceGoes DEF CheckKernelModules, CheckMounts
<1>9. CASE CheckEnvironmentVariables
  BY <1>9, <1>p, QuietPlaces DEF CheckEnvironmentVariables, Report, Finding, SysReconTitles, Going,
                             Goto, Look, hostvars, helpervars
<1> QED BY <1>1, <1>2, <1>3, <1>4, <1>5, <1>6, <1>7, <1>8, <1>9 DEF SysReconRun

LEMMA PermissionsGoes == CheckPermissions => Going("secaudit", {"permissive"})
<1>p. "permissions" \in PlacesOf["secaudit"] \ {"done", "skipped"} /\ "owner" \in PlacesOf["secaudit"]
  BY DEF PlacesOf
<1> QED BY <1>p, QuietPlaces DEF CheckPermissions, Report, Nothing, Finding, Going, Look, Goto,
                                 hostvars, helpervars

LEMMA AuthGoes == CheckAuthLogs => Going("loganalyzer", AuthTitles)
<1>p. "readAuth" \in PlacesOf["loganalyzer"] \ {"done", "skipped"}
      /\ "syslog" \in PlacesOf["loganalyzer"]
  BY DEF PlacesOf
<1>1. \A lines : \A f \in EventFindings(lines, AuthEvents) : f.title \in AuthTitles
  BY DEF EventFindings, AuthEvents, Finding, AuthTitles
<1>2. \A lines : \A f \in AuthFindings(lines) : f.title \in AuthTitles
  BY <1>1 DEF AuthFindings, BruteForceFindings, Finding, AuthTitles
<1> QED BY <1>p, <1>2, QuietPlaces DEF CheckAuthLogs, Report, Going, Look, Goto, hostvars, helpervars

Modules == {"netaudit", "hardening", "secaudit", "loganalyzer", "container", "redteam", "sysrecon"}
LEMMA CheckGoes == Check => \E m \in Modules : Going(m, Titles)
<1> SUFFICES ASSUME Check PROVE \E m \in Modules : Going(m, Titles)
  OBVIOUS
<1>w. ASSUME NEW m \in Modules, NEW titles, titles \subseteq Titles, Going(m, titles)
      PROVE  Going(m, Titles)
  BY <1>w DEF Going
<1>1. CASE NetAuditRun
  BY <1>1, <1>w, NetGoes DEF Titles, Modules
<1>2. CASE HardeningRun
  BY <1>2, <1>w, HardeningGoes DEF Titles, Modules
<1>3. CASE SecAuditRun
  BY <1>3, <1>w, SecGoes, PermissionsGoes DEF Titles, Modules
<1>4. CASE LogAnalyzerRun
  BY <1>4, <1>w, LogGoes, AuthGoes DEF Titles, Modules
<1>5. CASE ContainerRun
  BY <1>5, <1>w, ContainerGoes DEF Titles, Modules
<1>6. CASE RedTeamRun
  BY <1>6, <1>w, RedTeamGoes DEF Titles, Modules
<1>7. CASE SysReconRun
  BY <1>7, <1>w, SysReconGoes DEF Titles, Modules
<1> QED BY <1>1, <1>2, <1>3, <1>4, <1>5, <1>6, <1>7 DEF Check

-----------------------------------------------------------------------------
(***************************************************************************)
(* Where a run is: at a place of its module, with a command in progress    *)
(* only where a question is asked, and seeing the machine as it is.        *)
(***************************************************************************)
Placed ==
    /\ module \in Modules /\ step \in PlacesOf[module]
    /\ call.at # "idle" => step \in Questions
    /\ ~Ended => host \in seen

\* What the calls, the commands and the timer leave alone.
Waiting == UNCHANGED <<hostvars, step, i, findings, errors, held, admin>>
LEMMA CallsWait == Ask \/ Reap \/ World => Waiting
BY DEF Ask, Reap, World, Refuse, Reply, Hang, Expire, Outlive, InRun, Waiting

LEMMA PlacesApart ==
    ASSUME NEW m \in Modules, NEW n \in Modules, NEW s \in PlacesOf[m] \ {"done", "skipped"},
           s \in PlacesOf[n]
    PROVE  m = n
BY DEF Modules, PlacesOf, NetQuestions, HardeningQuestions, SecQuestions, LogQuestions,
   ContainerQuestions, RedTeamQuestions, SysReconQuestions

\* A check is made by the module it belongs to, on the machine as it is.
LEMMA OwnCheck ==
    ASSUME Placed, NEW m \in Modules, NEW titles, Going(m, titles)
    PROVE  m = module /\ host \in seen
<1>1. step \in PlacesOf[m] \ {"done", "skipped"} /\ step \in PlacesOf[module]
  BY DEF Placed, Going
<1> QED BY <1>1, PlacesApart DEF Placed, Ended

LEMMA PlacedInit == Init => Placed
<1> SUFFICES ASSUME Init PROVE Placed
  OBVIOUS
<1>1. module \in Modules
  BY HostsAssumption DEF Init, Modules
<1>2. FirstStep[module] \in PlacesOf[module]
  BY <1>1 DEF Modules, FirstStep, PlacesOf, NetQuestions, SecQuestions, SysReconQuestions
<1> QED BY <1>1, <1>2 DEF Init, Placed, Idle

LEMMA PlacedNext == Placed /\ [Next]_vars => Placed'
<1> SUFFICES ASSUME Placed, [Next]_vars PROVE Placed'
  OBVIOUS
<1>1. CASE Ask \/ Reap \/ World
  <2>1. Waiting
    BY <1>1, CallsWait
  <2>2. call'.at # "idle" => step \in Questions
    BY <1>1 DEF Ask, Reap, World, Refuse, Reply, Hang, Expire, Outlive, Reaped, Raises, Hangs,
                Completes, TimeoutExpired, OrphanEnds, Placed
  <2> QED BY <2>1, <2>2 DEF Waiting, Placed, Ended, hostvars, admin
<1>2. CASE Check
  <2>1. PICK m \in Modules : Going(m, Titles)
    BY <1>2, CheckGoes
  <2>2. m = module /\ host \in seen
    BY <2>1, OwnCheck
  <2>3. UNCHANGED admin
    BY <1>2 DEF Check
  <2> QED BY <2>1, <2>2, <2>3 DEF Going, Placed, Idle, hostvars, admin
<1>3. CASE MachineChanges
  BY <1>3 DEF MachineChanges, Placed, Ended, helpervars
<1>4. CASE Remedy
  BY <1>4 DEF Remedy, Placed, Ended, helpervars
<1>5. CASE Rescan
  <2>1. FirstStep[module] \in PlacesOf[module]
    BY DEF Placed, Modules, FirstStep, PlacesOf, NetQuestions, SecQuestions, SysReconQuestions
  <2>2. call'.at = "idle"
    BY <1>5, QuietPlaces DEF Rescan, Placed
  <2> QED BY <1>5, <2>1, <2>2 DEF Rescan, Placed
<1>6. CASE UNCHANGED vars
  BY <1>6 DEF vars, Placed, Ended, helpervars, hostvars, admin
<1> QED BY <1>1, <1>2, <1>3, <1>4, <1>5, <1>6 DEF Next, Thread, Stay

-----------------------------------------------------------------------------
(***************************************************************************)
(* Permissions.  Of two modes the one that is the greater number has a bit *)
(* the other one has not.                                                  *)
(***************************************************************************)
LEMMA GreaterHasMore ==
    ASSUME NEW a, NEW e, Octal(a) > Octal(e)
    PROVE  a \ e # {}
<1> SUFFICES ASSUME a \subseteq e PROVE FALSE
  OBVIOUS
<1>1. ASSUME NEW b, NEW w \in Nat
      PROVE  Bit(a, b, w) \in Nat /\ Bit(e, b, w) \in Nat /\ Bit(a, b, w) <= Bit(e, b, w)
  BY <1>1 DEF Bit
<1> QED BY <1>1 DEF Octal

(***************************************************************************)
(* A sensitive file called overly permissive did permit something that it  *)
(* should not (secaudit.py:438-446), whatever happens to it meanwhile.     *)
(***************************************************************************)
THEOREM FlaggedMeansMore == Spec => []FlaggedIsMorePermissive
<1> DEFINE IInv == Placed /\ FlaggedIsMorePermissive
<1>1. Init => IInv
  BY PlacedInit DEF Init, FlaggedIsMorePermissive
<1>2. IInv /\ [Next]_vars => IInv'
  <2> SUFFICES ASSUME IInv, [Next]_vars PROVE FlaggedIsMorePermissive'
    BY PlacedNext
  <2>1. CASE Ask \/ Reap \/ World
    BY <2>1, CallsWait DEF Waiting, FlaggedIsMorePermissive, hostvars
  <2>2. CASE Check
    <3>1. CASE CheckPermissions
      <4>1. PICK f : findings' \subseteq findings \cup {f} /\ f = Finding("permissive", File(i), "HIGH")
        BY <3>1 DEF CheckPermissions, Report, Nothing
      <4>2. CASE findings' = findings
        BY <4>2, <3>1 DEF CheckPermissions, Look, hostvars, FlaggedIsMorePermissive
      <4>3. CASE findings' # findings
        <5>1. /\ host.owner[File(i)] # "absent"
              /\ TooPermissive(host.mode[File(i)], SENSITIVE_FILES[File(i)])
          BY <4>3, <3>1 DEF CheckPermissions, Nothing
        <5>2. Grants(host, File(i))
          BY <5>1, GreaterHasMore DEF TooPermissive, Grants
        <5>3. host \in seen /\ seen' = seen
          BY <3>1, PermissionsGoes, OwnCheck DEF Modules, Going, hostvars
        <5> QED BY <4>1, <5>2, <5>3 DEF FlaggedIsMorePermissive, Finding
      <4> QED BY <4>2, <4>3
    <3>2. CASE ~CheckPermissions
      <4>1. \E m \in Modules : Going(m, Titles \ {"permissive"})
        <5>1. "permissive" \notin NetTitles \cup HardeningTitles \cup SecTitles \cup LogTitles
                                  \cup AuthTitles
                                  \cup ContainerTitles \cup RedTeamTitles \cup SysReconTitles
          BY DEF NetTitles, HardeningTitles, SecTitles, LogTitles, AuthTitles, ContainerTitles,
             RedTeamTitles, SysReconTitles
        <5>2. ASSUME NEW m \in Modules, NEW titles, Going(m, titles),
                     titles \subseteq Titles \ {"permissive"}
              PROVE  Going(m, Titles \ {"permissive"})
          BY <5>2 DEF Going
        <5>3. {"netaudit", "hardening", "secaudit", "loganalyzer", "container", "redteam", "sysrecon"}
                  \subseteq Modules
          BY DEF Modules
        <5>4. /\ NetTitles \subseteq Titles \ {"permissive"}
              /\ HardeningTitles \subseteq Titles \ {"permissive"}
              /\ SecTitles \subseteq Titles \ {"permissive"} /\ LogTitles \subseteq Titles \ {"permissive"}
              /\ AuthTitles \subseteq Titles \ {"permissive"}
              /\ ContainerTitles \subseteq Titles \ {"permissive"}
              /\ RedTeamTitles \subseteq Titles \ {"permissive"}
              /\ SysReconTitles \subseteq Titles \ {"permissive"}
          BY <5>1 DEF Titles
        <5> QED BY <2>2, <3>2, <5>2, <5>3, <5>4, NetGoes, HardeningGoes, SecGoes, LogGoes, AuthGoes,
                   ContainerGoes, RedTeamGoes, SysReconGoes DEF Check
      <4> QED BY <4>1 DEF Going, hostvars, FlaggedIsMorePermissive
    <3> QED BY <3>1, <3>2
  <2>3. CASE MachineChanges
    BY <2>3 DEF MachineChanges, FlaggedIsMorePermissive
  <2>4. CASE Remedy
    BY <2>4 DEF Remedy, FlaggedIsMorePermissive
  <2>5. CASE Rescan
    BY <2>5 DEF Rescan, FlaggedIsMorePermissive
  <2>6. CASE UNCHANGED vars
    BY <2>6 DEF vars, FlaggedIsMorePermissive, hostvars
  <2> QED BY <2>1, <2>2, <2>3, <2>4, <2>5, <2>6 DEF Next, Thread, Stay
<1> QED BY <1>1, <1>2, PTL DEF Spec

-----------------------------------------------------------------------------
(***************************************************************************)
(* Logs.  What is read of one is a sequence of lines, too.                 *)
(***************************************************************************)
LEMMA FailuresNat ==
    ASSUME NEW lines \in Seq(STRING), NEW ip
    PROVE  Failures(lines, ip) \in Nat /\ (lines = <<>> => Failures(lines, ip) = 0)
<1> DEFINE inAll == {k \in 1 .. Len(lines) : lines[k] = ip}
<1>1. IsFiniteSet(1 .. Len(lines)) /\ inAll \subseteq 1 .. Len(lines)
  BY FS_Interval
<1>2. IsFiniteSet(inAll)
  BY <1>1, FS_Subset
<1>3. Cardinality(inAll) \in Nat
  BY <1>2, FS_CardinalityType
<1>4. lines = <<>> => inAll = {}
  OBVIOUS
<1>5. Cardinality({}) = 0
  BY FS_EmptySet
<1> QED BY <1>3, <1>4, <1>5 DEF Failures

LEMMA PartIsLines ==
    ASSUME NEW lines \in Seq(STRING), NEW max \in Nat, max < Len(lines)
    PROVE  SubSeq(lines, 1, max) \in Seq(STRING)
<1>1. SubSeq(lines, 1, max) = [k \in 1 .. max |-> lines[k]]
  OBVIOUS
<1>2. \A k \in 1 .. max : lines[k] \in STRING
  OBVIOUS
<1>3. [k \in 1 .. max |-> lines[k]] \in [1 .. max -> STRING]
  BY <1>2
<1> QED BY <1>1, <1>3

LEMMA ReadIsLines ==
    ASSUME NEW file, file.lines \in Seq(STRING), NEW max \in Nat
    PROVE  ReadFileSafe(file, max) \in Seq(STRING)
<1>1. CASE ~file.readable \/ max = 0 \/ Len(file.lines) <= max
  <2>1. ReadFileSafe(file, max) = <<>> \/ ReadFileSafe(file, max) = file.lines
    BY <1>1 DEF ReadFileSafe
  <2>2. <<>> \in Seq(STRING)
    OBVIOUS
  <2> QED BY <2>1, <2>2
<1>2. CASE ~(~file.readable \/ max = 0 \/ Len(file.lines) <= max)
  <2>1. ReadFileSafe(file, max) = SubSeq(file.lines, 1, max)
    BY <1>2 DEF ReadFileSafe
  <2>2. max < Len(file.lines)
    BY <1>2
  <2>3. \A lines \in Seq(STRING) : max < Len(lines) => SubSeq(lines, 1, max) \in Seq(STRING)
    BY PartIsLines
  <2> QED BY <2>1, <2>2, <2>3
<1> QED BY <1>1, <1>2

\* An unreadable log shows nobody.
LEMMA ShownIsReadable ==
    ASSUME NEW h, NEW log, NEW ip, Shows(LinesRead(h, log), ip)
    PROVE  h.logs[log].readable
<1> SUFFICES ASSUME ~h.logs[log].readable PROVE FALSE
  OBVIOUS
<1>1. LinesRead(h, log) = <<>> /\ <<>> \in Seq(STRING)
  BY DEF LinesRead, ReadFileSafe
<1>2. Failures(LinesRead(h, log), ip) = 0
  BY <1>1, FailuresNat
<1> QED BY <1>2, ThresholdAssumption DEF Shows

\* The finding of brute force is the only one of its title, and names and tells
\* to block addresses the lines show.
LEMMA AccusedAreShown ==
    ASSUME NEW lines, NEW f \in AuthFindings(lines), f.title = "bruteForce"
    PROVE  \A ip \in f.of.named \cup f.of.blocked : Shows(lines, ip)
<1>1. \A e \in EventFindings(lines, AuthEvents) : e.title # "bruteForce"
  BY DEF EventFindings, AuthEvents, Finding
<1>2. \A x, s : Finding("failedLogins", x, s).title # "bruteForce"
  BY DEF Finding
<1>3. f \in BruteForceFindings(lines)
  BY <1>1, <1>2 DEF AuthFindings
<1>4. f.of.named = Evidence(lines) /\ f.of.blocked = ToBlock(lines)
  BY <1>3 DEF BruteForceFindings, Finding
<1> QED BY <1>4 DEF Evidence, ToBlock, BruteForceIps, Shows

\* An address the lines show is named, or as many as are named fail no less.
LEMMA ShownIsAccused ==
    ASSUME NEW lines \in Seq(STRING), NEW ip \in Attackers, Shows(lines, ip)
    PROVE  \/ \E f \in AuthFindings(lines) : f.title = "bruteForce" /\ ip \in f.of.named
           \/ Cardinality(NoLess(lines, ip)) >= EVIDENCE_LIMIT
<1>1. ip \in BruteForceIps(lines)
  BY DEF BruteForceIps, Shows
<1>2. CASE ip \in Evidence(lines)
  <2> DEFINE f == Finding("bruteForce", [named |-> Evidence(lines), blocked |-> ToBlock(lines)],
                          "CRITICAL")
  <2>1. f \in AuthFindings(lines)
    BY <1>1 DEF AuthFindings, BruteForceFindings
  <2>2. f.title = "bruteForce" /\ f.of.named = Evidence(lines)
    BY DEF Finding
  <2> QED BY <1>2, <2>1, <2>2
<1>3. CASE ip \notin Evidence(lines)
  <2> DEFINE ahead == {b \in BruteForceIps(lines) : Precedes(lines, b, ip)}
  <2>1. ~(Cardinality(ahead) < EVIDENCE_LIMIT)
    BY <1>1, <1>3 DEF Evidence
  <2>2. ASSUME NEW b \in ahead
        PROVE  b \in NoLess(lines, ip)
    <3>1. Failures(lines, b) \in Nat /\ Failures(lines, ip) \in Nat /\ Precedes(lines, b, ip)
      BY FailuresNat
    <3>2. ~Earlier(lines, ip, ip)
      BY DEF Earlier
    <3>3. b # ip /\ Failures(lines, b) >= Failures(lines, ip)
      BY <3>1, <3>2 DEF Precedes
    <3>4. b \in Attackers
      BY DEF BruteForceIps
    <3> QED BY <3>3, <3>4 DEF NoLess
  <2> HIDE DEF ahead
  <2>3. IsFiniteSet(NoLess(lines, ip))
    <3>1. IsFiniteSet(Attackers) /\ NoLess(lines, ip) \subseteq Attackers
      BY ThresholdAssumption DEF NoLess
    <3> QED BY <3>1, FS_Subset
  <2>4. IsFiniteSet(ahead) /\ Cardinality(ahead) <= Cardinality(NoLess(lines, ip))
    BY <2>2, <2>3, FS_Subset
  <2>5. Cardinality(ahead) \in Nat /\ Cardinality(NoLess(lines, ip)) \in Nat
    BY <2>3, <2>4, FS_CardinalityType
  <2> QED BY <2>1, <2>4, <2>5, ThresholdAssumption
<1> QED BY <1>2, <1>3

\* The first of the two logs that is readable.
LEMMA FoundIsFirst ==
    /\ Found(AuthLogs) \in {"none", "auth.log", "secure"}
    /\ host.logs["auth.log"].readable => Found(AuthLogs) = "auth.log"
<1> DEFINE ks == {k \in 1 .. 2 : host.logs[AuthLogs[k]].readable}
           first == CHOOSE k \in ks : \A m \in ks : k <= m
<1>1. Len(AuthLogs) = 2 /\ AuthLogs[1] = "auth.log" /\ AuthLogs[2] = "secure"
  BY DEF AuthLogs
<1>2. Found(AuthLogs) = IF ks = {} THEN "none" ELSE AuthLogs[first]
  BY <1>1 DEF Found
<1>3. ASSUME ks # {}
      PROVE  first \in ks /\ \A m \in ks : first <= m
  <2>1. \E k \in ks : \A m \in ks : k <= m
    <3>1. CASE 1 \in ks
      BY <3>1
    <3>2. CASE 1 \notin ks
      BY <1>3, <3>2
    <3> QED BY <3>1, <3>2
  <2> QED BY <2>1
<1>4. host.logs["auth.log"].readable => 1 \in ks
  BY <1>1
<1> HIDE DEF first
<1>5. 1 \in ks => first = 1
  BY <1>3
<1> QED BY <1>1, <1>2, <1>3, <1>4, <1>5

AfterAuth ==
    {"syslog", "readSyslog", "last", "lastlog", "tampering", "size", "short", "done"}
LEMMA LogOrder ==
    LogAnalyzerRun /\ ~FindAuthLog /\ ~CheckAuthLogs =>
        step' # "readAuth" /\ (step' \in AfterAuth => step \in AfterAuth)
<1> SUFFICES ASSUME LogAnalyzerRun, ~FindAuthLog, ~CheckAuthLogs
             PROVE  step' # "readAuth" /\ (step' \in AfterAuth => step \in AfterAuth)
  OBVIOUS
<1>1. CASE LogAvailable
  BY <1>1 DEF LogAvailable, Goto, AfterAuth
<1>2. CASE FindSyslog \/ CheckSystemLogs
  BY <1>2 DEF FindSyslog, CheckSystemLogs, Look, Goto, AfterAuth
<1>3. CASE CheckLastLogins
  BY <1>3 DEF CheckLastLogins, Presence, Decide, Goto, AfterAuth
<1>4. CASE LogThere \/ CheckEmpty \/ CheckShort
  BY <1>4 DEF LogThere, CheckEmpty, CheckShort, Look, Goto, NextLog, AfterAuth
<1> QED BY <1>1, <1>2, <1>3, <1>4 DEF LogAnalyzerRun

(***************************************************************************)
(* The invariant.  An address that auth.log shows throughout is on its way *)
(* to being named, or spared for the sake of others; those accused were    *)
(* shown, by one log at one time.                                          *)
(***************************************************************************)
Guilty(h, ip) == Shows(LinesRead(h, "auth.log"), ip)
Settled(ip) ==
    \/ \E f \in Accusations : ip \in f.of.named
    \/ \E h \in seen : Cardinality(NoLess(LinesRead(h, "auth.log"), ip)) >= EVIDENCE_LIMIT
LogMachines ==
    /\ module \in DOMAIN Hosts
    /\ host \in UNION Hosts[module] /\ seen \subseteq UNION Hosts[module]
    /\ \A f \in findings : f.title \in LogTitles \cup AuthTitles
Caught ==
    \A ip \in Attackers : (\A h \in seen : Guilty(h, ip)) =>
        (step = "readAuth" => held = "auth.log") /\ (step \in AfterAuth => Settled(ip))
Proven ==
    \A f \in Accusations : \E h \in seen : \E log \in Elements(AuthLogs) :
        \A ip \in f.of.named \cup f.of.blocked : Shows(LinesRead(h, log), ip)
LogInv ==
    module = "loganalyzer" =>
        LogMachines /\ Caught /\ Proven /\ (step = "readAuth" => held \in {"auth.log", "secure"})

LEMMA LogInvExact == Placed /\ LogInv => BruteForceExact
BY DEF BruteForceExact, LogInv, Proven, Caught, Guilty, Settled, Done, AfterAuth

\* No finding of the log analyser has a remedy.
LEMMA LogsHaveNoRemedy ==
    ASSUME NEW f, f.title \in LogTitles \cup AuthTitles
    PROVE  f.title \notin Fixes
BY DEF LogTitles, AuthTitles, Fixes, NetFixes, HardeningFixes, SecFixes, ContainerFixes,
   RedTeamFixes, SysReconFixes

LEMMA MachineLogs ==
    ASSUME NEW h, Machine(h), NEW f \in LOG_FILES
    PROVE  h.logs[f].lines \in Seq(STRING)
BY DEF Machine, LogFile

LEMMA LogInvNext == Placed /\ LogInv /\ [Next]_vars => LogInv'
<1> SUFFICES ASSUME Placed, LogInv, [Next]_vars, module' = "loganalyzer"
             PROVE  /\ LogMachines' /\ Caught' /\ Proven'
                    /\ step' = "readAuth" => held' \in {"auth.log", "secure"}
  BY DEF LogInv
<1>m. module' = module
  BY CallsWait DEF Next, Thread, Check, MachineChanges, Remedy, Rescan, Stay, vars, Waiting, admin
<1>i. LogMachines /\ Caught /\ Proven /\ (step = "readAuth" => held \in {"auth.log", "secure"})
  BY <1>m DEF LogInv
<1>1. CASE Waiting \/ UNCHANGED vars
  BY <1>1, <1>i DEF Waiting, vars, hostvars, admin, LogMachines, Caught, Proven, Settled, Accusations
<1>2. CASE Check
  <2>1. PICK n \in Modules : Going(n, Titles)
    BY <1>2, CheckGoes
  <2>2. n = "loganalyzer" /\ host \in seen /\ UNCHANGED hostvars
    BY <2>1, <1>m, OwnCheck DEF Going
  <2>3. /\ step \in PlacesOf["loganalyzer"] \ {"done", "skipped"}
        /\ \A o \in Modules : \A t : Going(o, t) => o = "loganalyzer"
    BY <2>1, <2>2, <1>m, OwnCheck DEF Going
  <2>4. LogAnalyzerRun
    BY <1>2, <2>3, NetGoes, HardeningGoes, SecGoes, PermissionsGoes, ContainerGoes, RedTeamGoes,
       SysReconGoes DEF Check, Modules
  <2>5. CASE CheckAuthLogs
    <3> DEFINE lines == LinesRead(host, held)
    <3>1. /\ held \in {"auth.log", "secure"} /\ step = "readAuth" /\ step' = "syslog"
          /\ findings' = findings \cup AuthFindings(lines)
      BY <2>5, <1>i DEF CheckAuthLogs, Look, Goto, Report, Contents, LinesRead
    <3>2. lines \in Seq(STRING) /\ held \in Elements(AuthLogs)
      <4>1. held \in LOG_FILES
        BY <3>1 DEF LOG_FILES
      <4>2. module \in DOMAIN Hosts
        BY <1>i, <1>m DEF LogMachines
      <4>3. Machine(host)
        BY <4>2, <1>i, HostsAssumption DEF LogMachines
      <4>4. host.logs[held].lines \in Seq(STRING)
        BY <4>1, <4>3, MachineLogs
      <4>5. lines \in Seq(STRING)
        BY <4>4, ReadIsLines, ThresholdAssumption DEF LinesRead
      <4> QED BY <3>1, <4>5 DEF AuthLogs, Elements
    <3>3. LogMachines'
      BY <1>i, <2>2, <1>m, <2>5, AuthGoes DEF LogMachines, Going, hostvars
    <3> HIDE DEF lines
    <3>4. Proven'
      <4> SUFFICES ASSUME NEW f \in findings', f.title = "bruteForce"
                   PROVE  \E h \in seen : \E log \in Elements(AuthLogs) :
                              \A ip \in f.of.named \cup f.of.blocked : Shows(LinesRead(h, log), ip)
        BY <2>2 DEF Proven, Accusations, hostvars
      <4>1. CASE f \in findings
        BY <4>1, <1>i DEF Proven, Accusations
      <4>2. CASE f \in AuthFindings(lines)
        <5>1. \A ip \in f.of.named \cup f.of.blocked : Shows(lines, ip)
          BY <4>2, AccusedAreShown
        <5> QED BY <5>1, <2>2, <3>2 DEF lines
      <4> QED BY <3>1, <4>1, <4>2
    <3>5. Caught'
      <4> SUFFICES ASSUME NEW ip \in Attackers, \A h \in seen : Guilty(h, ip)
                   PROVE  Settled(ip)'
        BY <2>2, <3>1 DEF Caught, hostvars
      <4>1. held = "auth.log" /\ Guilty(host, ip)
        BY <1>i, <2>2, <3>1 DEF Caught
      <4>2. Shows(lines, ip)
        BY <4>1 DEF Guilty, lines
      <4>3. CASE \E f \in AuthFindings(lines) : f.title = "bruteForce" /\ ip \in f.of.named
        BY <3>1, <4>3 DEF Settled, Accusations
      <4>4. CASE Cardinality(NoLess(lines, ip)) >= EVIDENCE_LIMIT
        BY <2>2, <4>1, <4>4 DEF Settled, lines, hostvars
      <4> QED BY <3>2, <4>2, <4>3, <4>4, ShownIsAccused
    <3> QED BY <3>1, <3>3, <3>4, <3>5
  <2>6. CASE ~CheckAuthLogs
    <3>1. Going("loganalyzer", LogTitles)
      BY <2>4, <2>6, LogGoes
    <3>2. LogMachines'
      BY <1>i, <2>2, <1>m, <3>1 DEF LogMachines, Going, hostvars
    <3>3. Accusations' = Accusations
      <4>1. "bruteForce" \notin LogTitles
        BY DEF LogTitles
      <4> QED BY <4>1, <3>1 DEF Accusations, Going
    <3>4. Proven'
      BY <1>i, <2>2, <3>3 DEF Proven, hostvars
    <3>5. CASE FindAuthLog
      <4>1. held' = Found(AuthLogs) /\ step' = IF held' = "none" THEN "syslog" ELSE "readAuth"
        BY <3>5 DEF FindAuthLog, Goto
      <4>2. held' \in {"none", "auth.log",
          "secure"} /\ (host.logs["auth.log"].readable => held' = "auth.log")
        BY <4>1, FoundIsFirst
      <4>3. Caught'
        <5> SUFFICES ASSUME NEW ip \in Attackers, \A h \in seen : Guilty(h, ip)
                     PROVE  held' = "auth.log" /\ step' \notin AfterAuth
          BY <2>2 DEF Caught, hostvars
        <5>1. held' = "auth.log"
          BY <2>2, <4>2, ShownIsReadable DEF Guilty
        <5> QED BY <4>1, <5>1 DEF AfterAuth
      <4> QED BY <4>1, <4>2, <4>3, <3>2, <3>4
    <3>6. CASE ~FindAuthLog
      <4>1. step' # "readAuth" /\ (step' \in AfterAuth => step \in AfterAuth)
        BY <2>4, <2>6, <3>6, LogOrder
      <4>2. Caught'
        BY <4>1, <1>i, <2>2, <3>3 DEF Caught, Settled, hostvars
      <4> QED BY <4>1, <4>2, <3>2, <3>4
    <3> QED BY <3>5, <3>6
  <2> QED BY <2>5, <2>6
<1>3. CASE MachineChanges
  <2>1. /\ UNCHANGED <<step, held, findings>> /\ seen \subseteq seen'
        /\ host' \in UNION Hosts[module] /\ seen' = seen \cup {host'}
    BY <1>3 DEF MachineChanges
  <2>2. LogMachines'
    BY <2>1, <1>i, <1>m DEF LogMachines
  <2>3. Caught' /\ Proven'
    BY <2>1, <1>i DEF Caught, Proven, Settled, Accusations
  <2> QED BY <2>1, <2>2, <2>3, <1>i
<1>4. CASE Remedy
  <2>1. \E f \in findings : f.title \in Fixes
    BY <1>4 DEF Remedy
  <2> QED BY <2>1, <1>i, LogsHaveNoRemedy DEF LogMachines
<1>5. CASE Rescan
  <2>1. step' = "readable" /\ seen' = {host} /\ findings' = {} /\ host' = host
    BY <1>5, <1>m DEF Rescan, FirstStep
  <2>2. LogMachines' /\ Caught' /\ Proven'
    BY <2>1, <1>i, <1>m DEF LogMachines, Caught, Proven, Accusations, AfterAuth
  <2> QED BY <2>1, <2>2
<1> QED BY <1>1, <1>2, <1>3, <1>4, <1>5, CallsWait DEF Next, Thread, Stay

(***************************************************************************)
(* Accusations of brute force are exact: those named or to be blocked were *)
(* shown by what was read of one log at one time; and an address that is   *)
(* shown throughout is named, or EVIDENCE_LIMIT others were seen to fail   *)
(* no less often (loganalyzer.py:116-175).                                 *)
(***************************************************************************)
THEOREM BruteForceIsExact == Spec => []BruteForceExact
<1>1. Init => Placed /\ LogInv
  <2> SUFFICES ASSUME Init PROVE LogInv
    BY PlacedInit
  <2>1. module = "loganalyzer" => step = "readable"
    BY DEF Init, FirstStep
  <2> QED BY <2>1 DEF Init, LogInv, LogMachines, Caught, Proven, Accusations, AfterAuth
<1>2. Placed /\ LogInv /\ [Next]_vars => (Placed /\ LogInv)'
  BY PlacedNext, LogInvNext
<1> QED BY <1>1, <1>2, LogInvExact, PTL DEF Spec

-----------------------------------------------------------------------------
(***************************************************************************)
(* Protections.  An answer that has been returned is none, or what the     *)
(* command says of a machine seen since the scan began.                    *)
(***************************************************************************)
AnswerTrue ==
    /\ "at" \in DOMAIN call
    /\ call.at = "returned" =>
           \/ call.out = {} /\ call.rc = -1
           \/ \E h \in seen : \E r \in RepliesOf(h, step, i) : call.out = r[1] /\ call.rc = r[2]

\* What is answered to a question.
LEMMA NetReply ==
    ASSUME NEW h, NEW k, NEW q \in NetQuestions
    PROVE  RepliesOf(h, q, k) = NetReplies(h, q)
BY DEF RepliesOf, NetQuestions, HardeningQuestions, SecQuestions, LogQuestions, ContainerQuestions,
   RedTeamQuestions, SysReconQuestions

LEMMA HardeningReply ==
    ASSUME NEW h, NEW k, NEW q \in HardeningQuestions
    PROVE  RepliesOf(h, q, k) = HardeningReplies(h, q, k)
BY DEF RepliesOf, NetQuestions, HardeningQuestions, SecQuestions, LogQuestions, ContainerQuestions,
   RedTeamQuestions, SysReconQuestions

LEMMA FirewallReplies ==
    ASSUME NEW h, NEW k
    PROVE  /\ RepliesOf(h, "iptables", k) = Tool(h.root /\ h.iptables, {"chains"} \cup h.accepting)
           /\ RepliesOf(h, "nft", k) = Tool(h.root /\ h.nft # "absent", {"rules"} \cap {h.nft})
<1>1. {"iptables", "nft"} \subseteq NetQuestions
  BY DEF NetQuestions
<1>2. /\ NetReplies(h, "iptables") = Tool(h.root /\ h.iptables, {"chains"} \cup h.accepting)
      /\ NetReplies(h, "nft") = Tool(h.root /\ h.nft # "absent", {"rules"} \cap {h.nft})
  BY DEF NetReplies
<1> QED BY <1>1, <1>2, NetReply

LEMMA MacReplies ==
    ASSUME NEW h, NEW k
    PROVE  /\ RepliesOf(h, "getenforce", k) =
                  IF h.selinux = "absent" THEN {<<{}, 127>>} ELSE {<<{h.selinux}, 0>>}
           /\ h.apparmor # "loaded" => \A r \in RepliesOf(h, "aaStatus", k) : "profiles" \notin r[1]
<1>1. {"getenforce", "aaStatus"} \subseteq HardeningQuestions
  BY DEF HardeningQuestions
<1>2. HardeningReplies(h, "getenforce", k) =
          IF h.selinux = "absent" THEN {<<{}, 127>>} ELSE {<<{h.selinux}, 0>>}
  BY DEF HardeningReplies
<1>3. h.apparmor # "loaded" => HardeningReplies(h, "aaStatus", k) \subseteq
          {<<{}, 127>>, <<{"loaded"}, 4>>, <<{"loaded"}, 0>>, <<{"loaded"}, 2>>}
  BY DEF HardeningReplies
<1> QED BY <1>1, <1>2, <1>3, HardeningReply

LEMMA UnitReplies ==
    ASSUME NEW h, NEW k
    PROVE  /\ RepliesOf(h, "ntp", k) = IsActive(h, NtpServices[k])
           /\ RepliesOf(h, "timedatectl", k) = {<<{"NTP=yes"} \cap h.units, 0>>}
           /\ RepliesOf(h, "updates", k) = IsActive(h, Updaters[k])
<1>1. {"ntp", "timedatectl", "updates"} \subseteq HardeningQuestions
  BY DEF HardeningQuestions
<1>2. /\ HardeningReplies(h, "ntp", k) = IsActive(h, NtpServices[k])
      /\ HardeningReplies(h, "timedatectl", k) = {<<{"NTP=yes"} \cap h.units, 0>>}
      /\ HardeningReplies(h, "updates", k) = IsActive(h, Updaters[k])
  BY DEF HardeningReplies
<1> QED BY <1>1, <1>2, HardeningReply

LEMMA AnswerTrueNext == Placed /\ AnswerTrue /\ [Next]_vars => AnswerTrue'
<1> SUFFICES ASSUME Placed, AnswerTrue, [Next]_vars PROVE AnswerTrue'
  OBVIOUS
<1>1. CASE Ask
  BY <1>1 DEF Ask, RunCmd, Idle, AnswerTrue
<1>2. CASE Reap \/ Refuse
  BY <1>2 DEF Reap, Refuse, Reaped, Raises, NoAnswer, Returned, AnswerTrue
<1>3. CASE Reply
  <2>1. host \in seen
    BY <1>3, QuietPlaces DEF Reply, Placed, Ended
  <2>2. /\ UNCHANGED <<step, i, seen>>
        /\ \E r \in RepliesOf(host, step, i) : call' = Returned(r[1], r[2])
    BY <1>3 DEF Reply, Completes, InRun, hostvars
  <2> QED BY <2>1, <2>2 DEF AnswerTrue, Returned
<1>4. CASE Hang \/ Expire
  BY <1>4 DEF Hang, Expire, Hangs, TimeoutExpired, AnswerTrue
<1>5. CASE Outlive
  BY <1>5 DEF Outlive, OrphanEnds, InRun, hostvars, AnswerTrue
<1>6. CASE Check
  <2>1. call' = Idle \/ (UNCHANGED call /\ step \notin Questions)
    BY <1>6, CheckGoes DEF Going
  <2> QED BY <2>1 DEF Idle, Placed, AnswerTrue
<1>7. CASE MachineChanges
  <2>1. UNCHANGED <<call, step, i>> /\ seen \subseteq seen'
    BY <1>7 DEF MachineChanges, helpervars
  <2> QED BY <2>1 DEF AnswerTrue
<1>8. CASE Remedy \/ Rescan
  <2>1. call.at = "idle" /\ call' = call
    BY <1>8, QuietPlaces DEF Remedy, Rescan, Placed, helpervars
  <2> QED BY <2>1 DEF AnswerTrue
<1>9. CASE UNCHANGED vars
  BY <1>9 DEF vars, helpervars, hostvars, AnswerTrue
<1> QED BY <1>1, <1>2, <1>3, <1>4, <1>5, <1>6, <1>7, <1>8, <1>9 DEF Next, Thread, World, Stay

\* The packet filter: iptables without INPUT open, or rules of nft.
AfterFirewall == {"resolv", "interfaces", "promisc", "forward", "neigh", "done"}
NoFilterTold == Told("noFirewall") \/ Finding("defaultAccept", "INPUT", "HIGH") \in findings

LEMMA FirewallJudged ==
    ASSUME AnswerTrue, NetAuditRun, \A h \in seen : ~Filters(h),
           step \in AfterFirewall => NoFilterTold
    PROVE  step' \in AfterFirewall => NoFilterTold'
<1>1. CASE CheckIptables
  <2>1. CASE call.rc # 0 \/ call.out = {}
    BY <1>1, <2>1 DEF CheckIptables, Goto, AfterFirewall
  <2>2. CASE ~(call.rc # 0 \/ call.out = {})
    <3>1. PICK h \in seen : \E r \in RepliesOf(h, step, i) : call.out = r[1] /\ call.rc = r[2]
      BY <1>1, <2>2 DEF CheckIptables, Decide, AnswerTrue
    <3>2. RepliesOf(h, step, i) = Tool(h.root /\ h.iptables, {"chains"} \cup h.accepting)
      BY <1>1, FirewallReplies DEF CheckIptables, Decide
    <3>3. h.iptables /\ call.out = {"chains"} \cup h.accepting
      BY <3>1, <3>2, <2>2 DEF Tool
    <3>4. "INPUT" \in call.out
      BY <3>3 DEF Filters
    <3> QED BY <1>1, <2>2, <3>4 DEF CheckIptables, Report, NoFilterTold
  <2> QED BY <2>1, <2>2
<1>2. CASE CheckNft
  <2>1. CASE call.rc # 0 \/ call.out = {}
    <3>1. Finding("noFirewall", "firewall", "HIGH") \in findings'
      BY <1>2, <2>1 DEF CheckNft, Report
    <3> QED BY <3>1 DEF NoFilterTold, Told, Finding
  <2>2. CASE ~(call.rc # 0 \/ call.out = {})
    <3>1. PICK h \in seen : \E r \in RepliesOf(h, step, i) : call.out = r[1] /\ call.rc = r[2]
      BY <1>2, <2>2 DEF CheckNft, Decide, AnswerTrue
    <3>2. RepliesOf(h, step, i) = Tool(h.root /\ h.nft # "absent", {"rules"} \cap {h.nft})
      BY <1>2, FirewallReplies DEF CheckNft, Decide
    <3>3. h.nft = "rules"
      BY <3>1, <3>2, <2>2 DEF Tool
    <3> QED BY <3>3 DEF Filters
  <2> QED BY <2>1, <2>2
<1>3. CASE ~CheckIptables /\ ~CheckNft
  <2>1. step' \in AfterFirewall => step \in AfterFirewall
    <3>1. CASE NetAvailable \/ CheckListeningPorts \/ CheckActiveConnections
      BY <3>1 DEF NetAvailable, CheckListeningPorts, CheckActiveConnections, Goto, AfterFirewall
    <3>2. CASE CheckDns \/ CheckArp
      BY <3>2 DEF CheckDns, CheckArp, Look, Decide, AfterFirewall
    <3>3. CASE CheckInterfaces
      BY <3>3 DEF CheckInterfaces, Presence, ReadFor, Look, Decide, AfterFirewall
    <3> QED BY <1>3, <3>1, <3>2, <3>3 DEF NetAuditRun
  <2>2. findings \subseteq findings'
    BY NetGoes DEF Going
  <2> QED BY <2>1, <2>2 DEF NoFilterTold, Told
<1> QED BY <1>1, <1>2, <1>3

\* Mandatory access control: SELinux that is not disabled, or AppArmor with profiles.
AfterMac == {"dumpable", "limits", "modprobe", "mount", "ntp", "timedatectl", "grub", "services",
             "apt", "updates", "done"}
NoMacTold == Told("noMac") \/ Told("selinuxDisabled") \/ Told("apparmorEmpty")

LEMMA MacJudged ==
    ASSUME AnswerTrue, HardeningRun, \A h \in seen : ~Confines(h),
           step \in AfterMac => NoMacTold
    PROVE  step' \in AfterMac => NoMacTold'
<1>1. CASE CheckSELinux
  <2>1. CASE ~(call.rc = 0 /\ call.out # {})
    BY <1>1, <2>1 DEF CheckSELinux, Goto, AfterMac
  <2>2. CASE call.rc = 0 /\ call.out # {}
    <3>1. PICK h \in seen : \E r \in RepliesOf(h, step, i) : call.out = r[1] /\ call.rc = r[2]
      BY <1>1, <2>2 DEF CheckSELinux, Decide, AnswerTrue
    <3>2. RepliesOf(h, step, i) = IF h.selinux = "absent" THEN {<<{}, 127>>} ELSE {<<{h.selinux}, 0>>}
      BY <1>1, MacReplies DEF CheckSELinux, Decide
    <3>3. call.out = {h.selinux} /\ h.selinux \notin {"enforcing", "permissive"}
      BY <3>1, <3>2, <2>2 DEF Confines
    <3>4. Finding("selinuxDisabled", "mac", "HIGH") \in findings'
      BY <1>1, <2>2, <3>3 DEF CheckSELinux, Report
    <3> QED BY <3>4 DEF NoMacTold, Told, Finding
  <2> QED BY <2>1, <2>2
<1>2. CASE CheckAppArmor
  <2>1. CASE call.rc # 0 \/ call.out = {}
    <3>1. Finding("noMac", "mac", "HIGH") \in findings'
      BY <1>2, <2>1 DEF CheckAppArmor, Report
    <3> QED BY <3>1 DEF NoMacTold, Told, Finding
  <2>2. CASE ~(call.rc # 0 \/ call.out = {})
    <3>1. PICK h \in seen : \E r \in RepliesOf(h, step, i) : call.out = r[1] /\ call.rc = r[2]
      BY <1>2, <2>2 DEF CheckAppArmor, Decide, AnswerTrue
    <3>2. h.apparmor # "loaded"
      BY <3>1 DEF Confines
    <3>3. \A r \in RepliesOf(h, step, i) : "profiles" \notin r[1]
      BY <1>2, <3>2, MacReplies DEF CheckAppArmor, Decide
    <3>4. Finding("apparmorEmpty", "mac", "MEDIUM") \in findings'
      BY <1>2, <2>2, <3>1, <3>3 DEF CheckAppArmor, Report
    <3> QED BY <3>4 DEF NoMacTold, Told, Finding
  <2> QED BY <2>1, <2>2
<1>3. CASE ~CheckSELinux /\ ~CheckAppArmor
  <2>1. step' \in AfterMac => step \in AfterMac
    <3>1. CASE CheckKernelParam \/ KernelTally
      BY <3>1 DEF CheckKernelParam, KernelTally, Goto, AfterMac
    <3>2. CASE CheckSuidDumpable \/ CheckLimits \/ CheckUsbStorage \/ CheckBootloader \/ CheckApt
      BY <3>2 DEF CheckSuidDumpable, CheckLimits, CheckUsbStorage, CheckBootloader, CheckApt,
                  ReadFor, Look, AfterMac
    <3>3. CASE CheckMountOptions \/ CheckNtp \/ CheckTimedatectl \/ CheckService \/ CheckUpdater
      BY <3>3 DEF CheckMountOptions, CheckNtp, CheckTimedatectl, CheckService, CheckUpdater, Decide,
                  AfterMac
    <3> QED BY <1>3, <3>1, <3>2, <3>3 DEF HardeningRun
  <2>2. findings \subseteq findings'
    BY HardeningGoes DEF Going
  <2> QED BY <2>1, <2>2 DEF NoMacTold, Told
<1> QED BY <1>1, <1>2, <1>3

\* Where a list is gone through that has an order.
Ranges == (step = "ntp" => i \in 1 .. 3) /\ (step = "updates" => i \in 1 .. 2)
LEMMA RangesRun ==
    ASSUME Ranges, HardeningRun
    PROVE  Ranges'
<1>0. Len(NtpServices) = 3 /\ Len(Updaters) = 2
  BY DEF NtpServices, Updaters
<1>1. CASE CheckKernelParam \/ KernelTally \/ CheckSELinux \/ CheckAppArmor
  BY <1>1 DEF CheckKernelParam, KernelTally, CheckSELinux, CheckAppArmor, Goto, Ranges
<1>2. CASE CheckSuidDumpable \/ CheckLimits \/ CheckUsbStorage \/ CheckBootloader
  BY <1>2 DEF CheckSuidDumpable, CheckLimits, CheckUsbStorage, CheckBootloader, ReadFor, Goto, Ranges
<1>3. CASE CheckMountOptions \/ CheckTimedatectl \/ CheckService \/ CheckApt
  BY <1>3 DEF CheckMountOptions, CheckTimedatectl, CheckService, CheckApt, Goto, Ranges
<1>4. CASE CheckNtp
  BY <1>0, <1>4 DEF CheckNtp, Decide, Goto, Ranges
<1>5. CASE CheckUpdater
  BY <1>0, <1>5 DEF CheckUpdater, Decide, Goto, Ranges
<1> QED BY <1>1, <1>2, <1>3, <1>4, <1>5 DEF HardeningRun

\* systemctl does not say of a unit that is not running that it is active.
LEMMA NotActive ==
    ASSUME AnswerTrue, NEW unit, call.at = "returned",
           \A h \in seen : unit \notin h.units /\ RepliesOf(h, step, i) = IsActive(h, unit)
    PROVE  ~SaysActive
BY DEF AnswerTrue, IsActive, SaysActive

AfterNtp == {"grub", "services", "apt", "updates", "done"}
LEMMA NtpJudged ==
    ASSUME AnswerTrue, Ranges, HardeningRun, \A h \in seen : ~KeepsTime(h),
           step \in AfterNtp => Told("noNtp")
    PROVE  step' \in AfterNtp => Told("noNtp")'
<1>k. \A k \in 1 .. 3 : NtpServices[k] \in TimeKeepers
  BY DEF TimeKeepers, Elements, NtpServices
<1>1. CASE CheckNtp
  <2>1. step = "ntp" /\ i \in 1 .. 3 /\ call.at = "returned"
    BY <1>1 DEF CheckNtp, Decide, Ranges
  <2>2. \A h \in seen : NtpServices[i] \notin h.units
    BY <2>1, <1>k DEF KeepsTime
  <2>3. \A h \in seen : RepliesOf(h, step, i) = IsActive(h, NtpServices[i])
    BY <2>1, UnitReplies
  <2>4. ~SaysActive
    BY <2>1, <2>2, <2>3, NotActive
  <2> QED BY <1>1, <2>4 DEF CheckNtp, Goto, AfterNtp
<1>2. CASE CheckTimedatectl
  <2>1. "NTP=yes" \notin call.out
    <3>1. "NTP=yes" \in TimeKeepers
      BY DEF TimeKeepers
    <3>2. \A h \in seen : RepliesOf(h, step, i) = {<<{"NTP=yes"} \cap h.units, 0>>}
      BY <1>2, UnitReplies DEF CheckTimedatectl, Decide
    <3>3. \A h \in seen : "NTP=yes" \notin h.units
      BY <3>1 DEF KeepsTime
    <3> QED BY <1>2, <3>2, <3>3 DEF CheckTimedatectl, Decide, AnswerTrue
  <2>2. Finding("noNtp", "ntp", "MEDIUM") \in findings'
    BY <1>2, <2>1 DEF CheckTimedatectl, Report
  <2> QED BY <2>2 DEF Told, Finding
<1>3. CASE ~CheckNtp /\ ~CheckTimedatectl
  <2>1. step' \in AfterNtp => step \in AfterNtp
    <3>1. CASE CheckKernelParam \/ KernelTally \/ CheckSELinux \/ CheckAppArmor
      BY <3>1 DEF CheckKernelParam, KernelTally, CheckSELinux, CheckAppArmor, Goto, AfterNtp
    <3>2. CASE CheckSuidDumpable \/ CheckLimits \/ CheckUsbStorage \/ CheckMountOptions
      BY <3>2 DEF CheckSuidDumpable, CheckLimits, CheckUsbStorage, CheckMountOptions, ReadFor, Goto,
                  AfterNtp
    <3>3. CASE CheckBootloader \/ CheckApt
      BY <3>3 DEF CheckBootloader, CheckApt, ReadFor, Look, AfterNtp
    <3>4. CASE CheckService \/ CheckUpdater
      BY <3>4 DEF CheckService, CheckUpdater, Decide, AfterNtp
    <3> QED BY <1>3, <3>1, <3>2, <3>3, <3>4 DEF HardeningRun
  <2>2. findings \subseteq findings'
    BY HardeningGoes DEF Going
  <2> QED BY <2>1, <2>2 DEF Told
<1> QED BY <1>1, <1>2, <1>3

LEMMA UpdatesJudged ==
    ASSUME AnswerTrue, Ranges, HardeningRun, host \in seen, \A h \in seen : ~Updates(h),
           step = "done" => Told("noUpdates")
    PROVE  step' = "done" => Told("noUpdates")'
<1>0. Len(Updaters) = 2 /\ \A k \in 1 .. 2 : Updaters[k] \in Elements(Updaters)
  BY DEF Elements, Updaters
<1>1. CASE CheckApt
  BY <1>1 DEF CheckApt, Goto, Updates
<1>2. CASE CheckUpdater
  <2>1. step = "updates" /\ i \in 1 .. 2 /\ call.at = "returned"
    BY <1>2 DEF CheckUpdater, Decide, Ranges
  <2>2. \A h \in seen : Updaters[i] \notin h.units
    BY <2>1, <1>0 DEF Updates
  <2>3. \A h \in seen : RepliesOf(h, step, i) = IsActive(h, Updaters[i])
    BY <2>1, UnitReplies
  <2>4. ~SaysActive
    BY <2>1, <2>2, <2>3, NotActive
  <2>5. step' = "done" => Finding("noUpdates", "updates", "MEDIUM") \in findings'
    BY <1>2, <2>4 DEF CheckUpdater, Goto, Report
  <2> QED BY <2>5 DEF Told, Finding
<1>3. CASE ~CheckApt /\ ~CheckUpdater
  <2>1. CASE CheckKernelParam \/ KernelTally \/ CheckSELinux \/ CheckAppArmor
    BY <2>1 DEF CheckKernelParam, KernelTally, CheckSELinux, CheckAppArmor, Goto
  <2>2. CASE CheckSuidDumpable \/ CheckLimits \/ CheckUsbStorage \/ CheckMountOptions
    BY <2>2 DEF CheckSuidDumpable, CheckLimits, CheckUsbStorage, CheckMountOptions, ReadFor, Goto
  <2>3. CASE CheckNtp \/ CheckTimedatectl \/ CheckBootloader \/ CheckService
    BY <2>3 DEF CheckNtp, CheckTimedatectl, CheckBootloader, CheckService, ReadFor, Goto
  <2> QED BY <1>3, <2>1, <2>2, <2>3 DEF HardeningRun
<1> QED BY <1>1, <1>2, <1>3

-----------------------------------------------------------------------------
\* What has been said at each place of a run about what is missing.
AbsenceInv ==
    /\ module = "netaudit" /\ (\A h \in seen : ~Filters(h)) =>
           (step \in AfterFirewall => NoFilterTold)
    /\ module = "hardening" =>
           /\ Ranges
           /\ (\A h \in seen : ~Confines(h)) => (step \in AfterMac => NoMacTold)
           /\ (\A h \in seen : ~KeepsTime(h)) => (step \in AfterNtp => Told("noNtp"))
           /\ (\A h \in seen : ~Updates(h)) => (step = "done" => Told("noUpdates"))

LEMMA AbsenceNext == Placed /\ AnswerTrue /\ AbsenceInv /\ [Next]_vars => AbsenceInv'
<1> SUFFICES ASSUME Placed, AnswerTrue, AbsenceInv, [Next]_vars PROVE AbsenceInv'
  OBVIOUS
<1>1. CASE Waiting \/ UNCHANGED vars
  BY <1>1 DEF Waiting, vars, hostvars, admin, AbsenceInv, NoFilterTold, NoMacTold, Told, Ranges
<1>2. CASE Check
  <2>1. PICK n \in Modules : Going(n, Titles)
    BY <1>2, CheckGoes
  <2>2. n = module /\ host \in seen /\ UNCHANGED <<module, seen>>
    BY <1>2, <2>1, OwnCheck DEF Going, hostvars, Check, admin
  <2>3. module = "netaudit" => NetAuditRun
    BY <1>2, <2>2, OwnCheck, HardeningGoes, SecGoes, PermissionsGoes, LogGoes, AuthGoes,
       ContainerGoes, RedTeamGoes, SysReconGoes DEF Check, Modules
  <2>4. module = "hardening" => HardeningRun
    BY <1>2, <2>2, OwnCheck, NetGoes, SecGoes, PermissionsGoes, LogGoes, AuthGoes, ContainerGoes,
       RedTeamGoes, SysReconGoes DEF Check, Modules
  <2>5. ASSUME module = "netaudit", \A h \in seen : ~Filters(h)
        PROVE  step' \in AfterFirewall => NoFilterTold'
    BY <2>3, <2>5, FirewallJudged DEF AbsenceInv
  <2>6. ASSUME module = "hardening"
        PROVE  /\ Ranges'
               /\ (\A h \in seen : ~Confines(h)) => (step' \in AfterMac => NoMacTold')
               /\ (\A h \in seen : ~KeepsTime(h)) => (step' \in AfterNtp => Told("noNtp")')
               /\ (\A h \in seen : ~Updates(h)) => (step' = "done" => Told("noUpdates")')
    BY <2>2, <2>4, <2>6, RangesRun, MacJudged, NtpJudged, UpdatesJudged DEF AbsenceInv
  <2> QED BY <2>2, <2>5, <2>6 DEF AbsenceInv
<1>3. CASE MachineChanges
  <2>1. UNCHANGED <<module, step, i, findings>> /\ seen \subseteq seen'
    BY <1>3 DEF MachineChanges
  <2> QED BY <2>1 DEF AbsenceInv, NoFilterTold, NoMacTold, Told, Ranges
<1>4. CASE Remedy
  BY <1>4 DEF Remedy, AbsenceInv, NoFilterTold, NoMacTold, Told, Ranges
<1>5. CASE Rescan
  BY <1>5 DEF Rescan, FirstStep, AbsenceInv, AfterFirewall, AfterMac, AfterNtp, Ranges
<1> QED BY <1>1, <1>2, <1>3, <1>4, <1>5, CallsWait DEF Next, Thread, Stay

(***************************************************************************)
(* Whatever the machine, its changes, and the commands that hang or fail:  *)
(* a protection missing throughout a scan is reported as missing           *)
(* (netaudit.py:192-245, hardening.py:187-251, 368-402, 450-486).          *)
(***************************************************************************)
THEOREM AbsenceReported == Spec => []AbsenceIsReported
<1>1. Init => Placed /\ AnswerTrue /\ AbsenceInv
  BY PlacedInit DEF Init, FirstStep, Idle, AnswerTrue, AbsenceInv, AfterFirewall, AfterMac,
                    AfterNtp, Ranges
<1>2. Placed /\ AnswerTrue /\ AbsenceInv /\ [Next]_vars => (Placed /\ AnswerTrue /\ AbsenceInv)'
  BY PlacedNext, AnswerTrueNext, AbsenceNext
<1>3. AbsenceInv => AbsenceIsReported
  BY DEF AbsenceInv, AbsenceIsReported, Done, Sometime, AfterFirewall, AfterMac, AfterNtp,
     NoFilterTold, NoMacTold
<1> QED BY <1>1, <1>2, <1>3, PTL DEF Spec
=============================================================================
