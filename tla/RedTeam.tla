------------------------------- MODULE RedTeam -------------------------------
(***************************************************************************)
(* RedTeamModule (xping/modules/redteam.py): what the user of the scan may *)
(* write and run, the container it is in, readable credentials and the     *)
(* version of the kernel.                                                  *)
(***************************************************************************)
EXTENDS CheckRun

CONSTANTS
    SudoEntries,     \* rules sudo -l prints: name -> [command, allowed]
    CredentialOrder  \* the files the patterns find, those of them considered

PRIVESC_CMDS ==
    {"vim", "vi", "nano", "less", "more", "man", "find", "nmap", "python", "python3", "perl",
     "ruby", "lua", "env", "awk", "tar", "zip", "docker", "strace", "gdb", "tcpdump", "wget",
     "curl", "scp", "rsync", "git", "ssh", "tee", "cp", "mv", "chmod", "chown"}
HISTORY_FILES == {"home/.bash_history", "root/.bash_history"}
KERNEL_EXPLOITS ==
    {"3.13.", "4.4.", "4.14.", "4.15.", "5.4.", "5.8.", "5.10.", "5.13.", "5.14.", "5.15.",
     "5.16.", "6.1.", "6.2."}

ASSUME RedTeamAssumption == CredentialOrder # <<>> /\ CredentialOrder \in Seq(STRING)

RedTeamQuestions == {"sudoL", "sda", "pid1ns", "selfns", "uname"}

(***************************************************************************)
(* The process whose number is 1 in a container is the container's own, or *)
(* with --pid=host the host's: each has the name space of the scan.        *)
(* Another user's link may not be read.                                    *)
(***************************************************************************)
RedTeamReplies(h, q) ==
    CASE q = "sudoL"  -> IF h.sudo = {} THEN {<<{}, 1>>} ELSE {<<h.sudo, 0>>}
      [] q = "sda"    -> IF "sda" \in h.marks THEN {<<{"sda"}, 0>>} ELSE {<<{}, 2>>}
      [] q = "pid1ns" -> {<<{h.pidns}, 0>>} \cup IF h.root THEN {} ELSE {<<{}, 1>>}
      [] q = "selfns" -> {<<{h.pidns}, 0>>}
      [] q = "uname"  -> {<<{h.kernel}, 0>>}

-----------------------------------------------------------------------------
(***************************************************************************)
(* The directories and files of a list (PATH, the linker's paths, units,   *)
(* cron's) which the user may write.  DOMAIN h.writes are those which a    *)
(* user other than root may, and h.writes tells as what: their owner, or   *)
(* one of the others.                                                      *)
(***************************************************************************)
Writable(h, list) == IF h.root THEN {} ELSE h.lists[list] \cap DOMAIN h.writes
Each(title, list, sev) == {Finding(title, d, sev) : d \in Writable(host, list)}

CurrentDirectory == {"", "."}
CheckWritablePath ==
    /\ Look("envPath") /\ Goto("sudoL", 1)
    /\ Report({Finding("writablePath", "PATH", "HIGH") : d \in Writable(host, "PATH")} \cup
              {Finding("pathHasDot", "PATH", "HIGH") : d \in host.lists["PATH"] \cap CurrentDirectory}, {})

\* A command is looked for as a word of what sudo prints, also where it is
\* a command sudo denies; "ALL" is none of them.
CheckSudoPrivesc ==
    /\ Decide("sudoL") /\ Goto("dockerSock", 1)
    /\ IF call.out = {} \/ call.rc # 0 THEN Nothing
       ELSE Report({Finding("sudoPrivesc", c, "CRITICAL") :
                        c \in PRIVESC_CMDS \cap {SudoEntries[e].command : e \in call.out}}, {})

CheckDockerSocket ==
    /\ Look("dockerSock") /\ Goto("inside", 1)
    /\ IF "var/run/docker" \in DOMAIN host.sock /\ (host.root \/ "var/run/docker" \in DOMAIN host.writes)
       THEN Report({Finding("dockerSocket", "socket", "CRITICAL")}, {}) ELSE Nothing

EscapeIndicators == {"dockerenv", "cgroup:docker", "cgroup:lxc", "cgroup:containerd"}
CheckInside ==
    /\ Look("inside")
    /\ IF host.marks \cap EscapeIndicators = {} THEN Goto("credentials", 1) /\ Nothing
       ELSE Goto("sda", 1) /\ Report({Finding("insideContainer", "inside", "INFO")}, {})
CheckDevices == Presence("sda", Finding("hostDevices", "sda", "CRITICAL"), "pid1ns")
ReadPid1 ==
    /\ Decide("pid1ns") /\ Goto("selfns", 1) /\ Nothing
    /\ IF call.out = {} THEN held' = "none" ELSE held' \in call.out
ComparePid ==
    /\ Decide("selfns") /\ Goto("credentials", 1) /\ held' = "none"
    /\ IF held \in call.out THEN Report({Finding("sharesPid", "selfns", "HIGH")}, {}) ELSE Nothing

(***************************************************************************)
(* What is readable in the first lines of a file, kind by kind.  Of the    *)
(* commands looked for in a history only these can be found: the others    *)
(* have a capital letter or a wildcard, in lines made lower-case.          *)
(***************************************************************************)
SecretRules ==
    {Rule("pemKey", TRUE, "privateKey", "CRITICAL"), Rule("awsKey", TRUE, "awsKey", "CRITICAL"),
     Rule("password", TRUE, "password", "HIGH")}
HistoryWords == {"mysql -u", "sshpass"}
Secrets(f) == IF f \in DOMAIN host.secrets THEN host.secrets[f] ELSE {}
CheckCredentialFile ==
    /\ Look("credentials") /\ NextOf(CredentialOrder, "credentials", "history")
    /\ Report(Judged(CredentialOrder[i], SecretRules, Secrets(CredentialOrder[i])), {})
CheckHistory ==
    /\ Look("history") /\ Goto("unitFiles", 1)
    /\ Report({Finding("history", f, "MEDIUM") :
                   f \in {f \in HISTORY_FILES : Secrets(f) \cap HistoryWords # {}}}, {})

CheckWritableServices ==
    Look("unitFiles") /\ Goto("libraries", 1) /\ Report(Each("writableUnit", "units", "CRITICAL"), {})
CheckLibraries ==
    /\ Look("libraries") /\ Goto("uname", 1)
    /\ Report({Finding("ldPreload", "LD_PRELOAD", "HIGH") : library \in host.lists["LD_PRELOAD"]} \cup
              Each("ldLibraryPath", "LD_LIBRARY_PATH", "HIGH") \cup
              Each("libraryPath", "ld.so.conf", "HIGH"), {})

CheckKernelExploits ==
    /\ Decide("uname") /\ Goto("cron", 1)
    /\ Report({Finding("kernelCves", "kernel", "HIGH") : v \in call.out \cap KERNEL_EXPLOITS}, {})

CheckCron ==
    /\ Look("cron") /\ Goto("done", 1)
    /\ Report(Each("cronDir", "cron", "CRITICAL") \cup Each("cronPath", "crontab PATH", "CRITICAL"), {})

(***************************************************************************)
(* What the remediation of a finding f makes of the machine.  chmod alone  *)
(* takes the others' right to write, chmod and chown the owner's, too.     *)
(***************************************************************************)
RedTeamFixed(f, h) ==
    CASE f.title \in {"writableUnit", "cronDir"} -> [h EXCEPT !.writes = Without(@, f.of)]
      [] f.title \in {"libraryPath", "cronPath"} ->
             IF f.of \in DOMAIN h.writes /\ h.writes[f.of] = "owner" THEN h
             ELSE [h EXCEPT !.writes = Without(@, f.of)]
      [] f.title = "history" -> [h EXCEPT !.secrets = Without(@, f.of)]

RedTeamRun ==
    \/ /\ UNCHANGED held
       /\ \/ CheckWritablePath \/ CheckSudoPrivesc \/ CheckDockerSocket \/ CheckInside
          \/ CheckDevices \/ CheckCredentialFile \/ CheckHistory \/ CheckWritableServices
          \/ CheckLibraries \/ CheckKernelExploits \/ CheckCron
    \/ ReadPid1 \/ ComparePid
=============================================================================
