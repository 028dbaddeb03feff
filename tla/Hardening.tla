------------------------------ MODULE Hardening ------------------------------
(***************************************************************************)
(* HardeningModule (xping/modules/hardening.py): kernel parameters,        *)
(* mandatory access control, core dumps, USB storage, mount options, time  *)
(* synchronisation, boot loader, services and automatic updates.           *)
(***************************************************************************)
EXTENDS CheckRun

\* Faulty variant: the remediation always switches the parameter on.
Param_On(name, expected, sev, set) ==
    [name |-> name, expected |-> expected, sev |-> sev, set |-> "1"]
\* A kernel parameter: the value expected, and the one the remediation sets.
Param(name, expected, sev, set) ==
    [name |-> name, expected |-> expected, sev |-> sev, set |-> set]

KERNEL_CHECKS == <<
    Param("randomize_va_space", "2", "HIGH", "2"),
    Param("ptrace_scope", "1", "MEDIUM", "1"),
    Param("tcp_syncookies", "1", "MEDIUM", "1"),
    Param("accept_redirects", "0", "MEDIUM", "0"),
    Param("send_redirects", "0", "MEDIUM", "0"),
    Param("accept_source_route", "0", "MEDIUM", "0"),
    Param("log_martians", "1", "LOW", "1"),
    Param("icmp_echo_ignore_broadcasts", "1", "LOW", "1"),
    Param("accept_ra", "0", "MEDIUM", "0"),
    Param("kptr_restrict", "1", "MEDIUM", "1"),
    Param("dmesg_restrict", "1", "LOW", "1"),
    Param("protected_hardlinks", "1", "MEDIUM", "1"),
    Param("protected_symlinks", "1", "MEDIUM", "1") >>

UNNECESSARY_SERVICES ==
    {"telnet", "vsftpd", "rpcbind", "avahi", "cups", "bluetooth", "nfs",
     "xinetd", "rsh", "rlogin"}
ServiceSeverity(svc) ==
    CASE svc \in {"telnet", "rsh", "rlogin"} -> "HIGH"
      [] svc \in {"vsftpd", "rpcbind", "nfs", "xinetd"} -> "MEDIUM"
      [] OTHER -> "LOW"

\* The services each check asks systemctl for, in the order it does.
CONSTANT ServiceOrder     \* UNNECESSARY_SERVICES, those of them considered
ASSUME ServiceAssumption ==
    ServiceOrder \in Seq(UNNECESSARY_SERVICES) /\ ServiceOrder # <<>>
NtpServices == <<"chronyd", "ntpd", "timesyncd">>
Updaters    == <<"dnfAutomatic", "yumCron">>

HardeningQuestions ==
    {"getenforce", "aaStatus", "mount", "ntp", "timedatectl", "services", "updates"}

(***************************************************************************)
(* systemctl is-active prints a word in either case, and tells the two     *)
(* apart by its code.  aa-status needs root to list the profiles, and ends *)
(* with an error when there are none.                                      *)
(***************************************************************************)
IsActive(h, unit) ==
    IF unit \in h.units THEN {<<{"active"}, 0>>} ELSE {<<{"inactive"}, 3>>, <<{}, 127>>}
HardeningReplies(h, q, k) ==
    CASE q = "getenforce"  -> IF h.selinux = "absent" THEN {<<{}, 127>>}
                              ELSE {<<{h.selinux}, 0>>}
      [] q = "aaStatus"    -> IF h.apparmor = "absent" THEN {<<{}, 127>>}
                              ELSE IF ~h.root THEN {<<{"loaded"}, 4>>}
                              ELSE IF h.apparmor = "loaded" THEN {<<{"loaded", "profiles"}, 0>>}
                              ELSE {<<{"loaded"}, 0>>, <<{"loaded"}, 2>>}
      [] q = "mount"       -> {<<{"root"} \cup h.mounts, 0>>}
      [] q = "ntp"         -> IsActive(h, NtpServices[k])
      [] q = "timedatectl" -> {<<{"NTP=yes"} \cap h.units, 0>>}
      [] q = "services"    -> IsActive(h, ServiceOrder[k])
      [] q = "updates"     -> IsActive(h, Updaters[k])

-----------------------------------------------------------------------------
\* read_file_lines(proc_path)[0] against the value expected; then the tally.
Deviates(k) ==
    {Finding("kernel", KERNEL_CHECKS[k].name, KERNEL_CHECKS[k].sev) :
        v \in {host.param[KERNEL_CHECKS[k].name]} \ {"absent", KERNEL_CHECKS[k].expected}}
CheckKernelParam ==
    /\ Look("kernel") /\ i <= Len(KERNEL_CHECKS) /\ Goto("kernel", i + 1)
    /\ Report(Deviates(i), {})
KernelTally ==
    /\ Look("kernel") /\ i > Len(KERNEL_CHECKS) /\ Goto("getenforce", 1)
    /\ Report({Finding("kernelTally", "kernel",
                       IF \E f \in findings : f.title = "kernel" THEN "MEDIUM" ELSE "INFO")}, {})

CheckSELinux ==
    /\ Decide("getenforce")
    /\ IF call.rc = 0 /\ call.out # {}
       THEN /\ Goto("dumpable", 1)
            /\ Report({CASE s = "enforcing"  -> Finding("selinuxEnforcing", "mac", "INFO")
                         [] s = "permissive" -> Finding("selinuxPermissive", "mac", "MEDIUM")
                         [] OTHER            -> Finding("selinuxDisabled", "mac", "HIGH") :
                       s \in call.out}, {})
       ELSE Goto("aaStatus", 1) /\ Nothing
CheckAppArmor ==
    /\ Decide("aaStatus") /\ Goto("dumpable", 1)
    /\ Report({IF call.rc # 0 \/ call.out = {} THEN Finding("noMac", "mac", "HIGH")
               ELSE IF "profiles" \in call.out THEN Finding("apparmorActive", "mac", "INFO")
               ELSE Finding("apparmorEmpty", "mac", "MEDIUM")}, {})

CheckSuidDumpable ==
    ReadFor("dumpable", <<"suid_dumpable">>, {Rule("nonzero", TRUE, "suidDumpable", "MEDIUM")}, "limits")
CheckLimits ==
    ReadFor("limits", <<"limits.conf">>, {Rule("core", FALSE, "coreDumps", "LOW")}, "modprobe")

\* All of modprobe.d together; a directory without a readable file is one
\* that does not mention the module.
CheckUsbStorage ==
    /\ Look("modprobe") /\ Goto("mount", 1)
    /\ IF host.files["modprobe.d"] \cap {"usb-storage", "usb_storage"} = {}
       THEN Report({Finding("usbStorage", "modprobe", "LOW")}, {}) ELSE Nothing

\* A mount point and each of its options that matters is a fact of its own.
TmpOptions == {"tmp:noexec", "tmp:nosuid", "tmp:nodev"}
MountFindings(m) ==
    {Finding("tmpShared", "tmp", "MEDIUM") : o \in {"tmp"} \ m} \cup
    {Finding("tmpOptions", "tmp", "MEDIUM") : o \in IF "tmp" \in m THEN TmpOptions \ m ELSE {}} \cup
    {Finding("vartmpNoexec", "vartmp", "LOW") :
        o \in IF "vartmp" \in m THEN {"vartmp:noexec"} \ m ELSE {}}
CheckMountOptions ==
    /\ Decide("mount") /\ Goto("ntp", 1)
    /\ IF call.out = {} THEN Nothing ELSE Report(MountFindings(call.out), {})

\* Faulty variant: the code of the command is not looked at.
SaysActive_AnyCode == call.out \cap {"active", "inactive"} # {}
\* "active" in out: the output of either case contains that word.
SaysActive == call.rc = 0 /\ call.out \cap {"active", "inactive"} # {}

CheckNtp ==
    /\ Decide("ntp")
    /\ IF SaysActive
       THEN Goto("grub", 1) /\ Report({Finding("ntpActive", NtpServices[i], "INFO")}, {})
       ELSE /\ Nothing
            /\ IF i < Len(NtpServices) THEN Goto("ntp", i + 1) ELSE Goto("timedatectl", 1)
CheckTimedatectl ==
    /\ Decide("timedatectl") /\ Goto("grub", 1)
    /\ IF "NTP=yes" \in call.out THEN Nothing
       ELSE Report({Finding("noNtp", "ntp", "MEDIUM")}, {})

\* The third path has a wildcard that nothing expands: it is never read.
CheckBootloader ==
    ReadFor("grub", <<"grub", "grub2">>, {Rule("password", FALSE, "bootloader", "MEDIUM")},
            "services")

CheckService ==
    /\ Decide("services")
    /\ IF i < Len(ServiceOrder) THEN Goto("services", i + 1) ELSE Goto("apt", 1)
    /\ IF call.rc = 0 /\ call.out = {"active"}
       THEN Report({Finding("service", ServiceOrder[i], ServiceSeverity(ServiceOrder[i]))}, {})
       ELSE Nothing

Updating == Finding("autoUpdates", "updates", "INFO")
CheckApt ==
    /\ Look("apt")
    /\ IF "enabled" \in host.files["20auto-upgrades"]
       THEN Goto("done", 1) /\ Report({Updating}, {})
       ELSE Goto("updates", 1) /\ Nothing
CheckUpdater ==
    /\ Decide("updates")
    /\ IF SaysActive THEN Goto("done", 1) /\ Report({Updating}, {})
       ELSE IF i < Len(Updaters) THEN Goto("updates", i + 1) /\ Nothing
       ELSE Goto("done", 1) /\ Report({Finding("noUpdates", "updates", "MEDIUM")}, {})

\* What the remediation of a finding f makes of the machine.
HardeningFixed(f, h) ==
    CASE f.title = "kernel"  ->
             LET p == CHOOSE p \in {KERNEL_CHECKS[k] : k \in 1 .. Len(KERNEL_CHECKS)} : p.name = f.of
             IN  [h EXCEPT !.param[p.name] = p.set]
      [] f.title = "suidDumpable" -> [h EXCEPT !.files["suid_dumpable"] = {"0"}]
      [] f.title = "coreDumps"    -> [h EXCEPT !.files["limits.conf"] = @ \cup {"core"}]
      [] f.title = "usbStorage"   -> [h EXCEPT !.files["modprobe.d"] = @ \cup {"usb-storage"}]
      [] f.title = "noNtp"        -> [h EXCEPT !.units = @ \cup {"NTP=yes"}]
      [] f.title = "service"      -> [h EXCEPT !.units = @ \ {f.of}]

HardeningRun ==
    \/ CheckKernelParam \/ KernelTally \/ CheckSELinux \/ CheckAppArmor
    \/ CheckSuidDumpable \/ CheckLimits \/ CheckUsbStorage \/ CheckMountOptions
    \/ CheckNtp \/ CheckTimedatectl \/ CheckBootloader \/ CheckService
    \/ CheckApt \/ CheckUpdater
=============================================================================
