----------------------------- MODULE MCHostScan -----------------------------
(***************************************************************************)
(* Machines for HostScan.  Each differs from one whose checks find next to *)
(* nothing in one respect, or in the few that a check looks at together.   *)
(***************************************************************************)
EXTENDS HostScan, TLC

MCSockets ==
    [telnetAny |-> [port |-> 23, addr |-> "0.0.0.0"], redisAny6 |-> [port |-> 6379, addr |-> "[::]"],
     redisHome |-> [port |-> 6379, addr |-> "127.0.0.1"], redisHome6 |-> [port |-> 6379, addr |-> "[::1]"],
     httpsAny |-> [port |-> 443, addr |-> "*"]]
\* Lines of ss without its state column, and one of netstat.
MCConnections ==
    [ssHeader |-> [columns |-> 7, fifth |-> "Peer"], ssLine |-> [columns |-> 5, fifth |-> "process"],
     ssNoName |-> [columns |-> 4, fifth |-> "none"],
     netstatHome |-> [columns |-> 7, fifth |-> "private"]]
MCNeighbours ==
    [router |-> [mac |-> "aa", ip |-> "ip1"], twin |-> [mac |-> "aa", ip |-> "ip2"],
     router2 |-> [mac |-> "aa", ip |-> "ip1"], other |-> [mac |-> "bb", ip |-> "ip3"]]
MCBinaries ==
    [bash |-> [setuid |-> TRUE, gtfobin |-> TRUE, cap |-> FALSE],
     less |-> [setuid |-> FALSE, gtfobin |-> TRUE, cap |-> FALSE],
     ping |-> [setuid |-> TRUE, gtfobin |-> FALSE, cap |-> TRUE]]
MCServiceOrder == <<"telnet", "cups">>
MCSensitiveOrder == <<"shadow", "sudoers">>

MCSudoEntries ==
    [findAllowed |-> [command |-> "find", allowed |-> TRUE],
     viDenied |-> [command |-> "vi", allowed |-> FALSE], all |-> [command |-> "ALL", allowed |-> TRUE]]
MCCredentialOrder == <<"env", "home/.bash_history">>

MCAccounts ==
    [root |-> [uid0 |-> TRUE, system |-> FALSE], toor |-> [uid0 |-> TRUE, system |-> FALSE],
     mysql |-> [uid0 |-> FALSE, system |-> TRUE], ann |-> [uid0 |-> FALSE, system |-> FALSE]]
\* The name of rsync ends in "nc", and a blank follows it.
MCProcesses ==
    [ncat |-> [words |-> {"ncat"}, tool |-> TRUE], rsync |-> [words |-> {"nc "}, tool |-> FALSE],
     miner |-> [words |-> {"xmrig", "cryptominer"}, tool |-> TRUE], init |-> [words |-> {}, tool |-> FALSE]]
MCCrontabs == [none |-> {}, plain |-> {"other"}, backup |-> {"backup.sh"}]

Log(lines) == [there |-> TRUE, readable |-> TRUE, lines |-> lines]
Wanted == [n \in Parameters |-> (CHOOSE p \in Elements(KERNEL_CHECKS) : p.name = n).expected]

NoFiles == [f \in {} |-> {}]

Plain ==
    [root |-> TRUE, tool |-> "ss", listening |-> {"httpsAny"}, connected |-> {"netstatHome"},
     iptables |-> TRUE, accepting |-> {}, nft |-> "absent", neighbours |-> {"router", "other"},
     dangers |-> {}, files |-> [f \in WordFiles |-> CASE f = "20auto-upgrades" -> {"enabled"}
                                                  [] f = "resolv" -> {"private"} [] OTHER -> {"usb-storage"}],
     param |-> Wanted, selinux |-> "absent", apparmor |-> "loaded", units |-> {"ntpd"},
     mounts |-> TmpOptions \cup {"tmp"}, setid |-> {"ping"},
     sshd |-> <<[directive |-> "maxauthtries", value |-> "3", commented |-> FALSE]>>,
     mode |-> SENSITIVE_FILES, owner |-> [f \in DOMAIN SENSITIVE_FILES |-> "root"],
     logs |-> [f \in LOG_FILES |-> Absent], sock |-> NoFiles, cloud |-> NoFiles, tcp |-> {},
     imds |-> "none", marks |-> {}, pidns |-> "ownNs", sudo |-> {}, secrets |-> NoFiles,
     kernel |-> "6.6.", accounts |-> "root" :> "login" @@ "mysql" :> "nologin", noPassword |-> {},
     procs |-> {"init"}, cron |-> "none", crontab |-> {}, env |-> {}, writes |-> NoFiles,
     lists |-> [l \in PlaceLists |-> {}]]

NetHosts ==
    {{[Plain EXCEPT !.iptables = t, !.nft = n] :
         t \in BOOLEAN, n \in {"absent", "empty", "rules"}},
     {Plain, [Plain EXCEPT !.accepting = {"INPUT", "FORWARD"}], [Plain EXCEPT !.root = FALSE],
      [Plain EXCEPT !.nft = "rules", !.root = FALSE]},
     {Plain, [Plain EXCEPT !.tool = "none"], [Plain EXCEPT !.tool = "netstat", !.listening = {"telnetAny"}],
      [Plain EXCEPT !.listening = {"telnetAny", "redisHome", "redisHome6"}],
      [Plain EXCEPT !.listening = {"redisAny6"}, !.connected = {"ssLine", "ssNoName"}]},
     {Plain, [Plain EXCEPT !.files["resolv"] = {}], [Plain EXCEPT !.files["resolv"] = {"public", "private"}],
      [Plain EXCEPT !.dangers = {"promisc"}, !.files["ip_forward"] = {"1"}],
      [Plain EXCEPT !.neighbours = {"router", "twin"}], [Plain EXCEPT !.neighbours = {"router", "router2"}]}}

HardeningHosts ==
    {{[Plain EXCEPT !.selinux = s, !.apparmor = a] :
         s \in {"absent", "enforcing", "permissive", "disabled"}, a \in {"absent", "loaded"}},
     {Plain, [Plain EXCEPT !.apparmor = "empty"], [Plain EXCEPT !.root = FALSE]},
     {[Plain EXCEPT !.param["ptrace_scope"] = "0", !.param["accept_ra"] = w] : w \in {"0", "1", "absent"}},
     {[Plain EXCEPT !.units = u, !.files["20auto-upgrades"] = a] :
         u \in {{}, {"chronyd", "telnet"}, {"NTP=yes", "yumCron", "cups"}}, a \in {{}, {"enabled"}}},
     {Plain, [Plain EXCEPT !.files["suid_dumpable"] = {"nonzero"}, !.files["limits.conf"] = {"other"}],
      [Plain EXCEPT !.files["modprobe.d"] = {}, !.files["grub"] = {}, !.files["grub2"] = {"menu"}],
      [Plain EXCEPT !.mounts = {"vartmp"}], [Plain EXCEPT !.mounts = {"tmp", "tmp:noexec"}]}}

Line(d, v, c) == [directive |-> d, value |-> v, commented |-> c]
Lines == {Line("permitrootlogin", "yes", FALSE), Line("permitrootlogin", "no", FALSE),
          Line("permitrootlogin", "yes", TRUE), Line("maxauthtries", "above5", FALSE)}
SecHosts ==
    {{[Plain EXCEPT !.sshd = l] : l \in {<<>>} \cup {<<a>> : a \in Lines}},
     {[Plain EXCEPT !.mode["shadow"] = m] : m \in {{8, 7, 5}, {8, 7}, {8, 7, 2}, {8, 7, 5, 2}}},
     {[Plain EXCEPT !.mode["sudoers"] = {8, 7}, !.owner["sudoers"] = o] : o \in {"root", "other", "absent"}},
     {Plain, [Plain EXCEPT !.setid = {"bash", "less"}], [Plain EXCEPT !.setid = {}],
      [Plain EXCEPT !.dangers = SecDangers]},
     {[Plain EXCEPT !.files["sudoers"] = {"nopasswdAll", "nopasswd", "shell"}],
      [Plain EXCEPT !.files["sudoers"] = {}, !.files["common-auth"] = {},
                    !.files["system-auth"] = {"faillock"}],
      [Plain EXCEPT !.files["login.defs"] = {"maxDaysAbove90", "minLenBelow8"}]}}
    \cup {{[Plain EXCEPT !.sshd = <<a, b>>] } : a, b \in Lines}

\* Nobody, one and both above the threshold, and one only in the lines not read.
AuthContents ==
    {<<>>, <<"a">>, <<"accepted", "a", "sudo", "a">>, <<"a", "b", "b", "a">>, <<"su", "b", "b", "a", "a">>}
LogHosts ==
    {{[Plain EXCEPT !.logs["auth.log"] = x, !.logs["secure"] = y] :
         x \in {Absent, [Absent EXCEPT !.there = TRUE]} \cup {Log(l) : l \in AuthContents},
         y \in {Absent, Log(<<"b", "b">>)}},
     {[Plain EXCEPT !.logs["syslog"] = Log(<<"oom">>), !.logs["messages"] = Log(<<"panic">>)],
      [Plain EXCEPT !.logs["messages"] = Log(<<"panic", "segfault">>)],
      [Plain EXCEPT !.logs["kern.log"] = Log(<<"oom">>)]}}

DockerSocket(m) == "var/run/docker" :> m @@ "run/docker" :> m
ContainerHosts ==
    {{[Plain EXCEPT !.sock = s] : s \in {NoFiles, DockerSocket({8, 7, 5, 4}), DockerSocket({8, 7}),
         DockerSocket({8, 7, 5, 4, 2, 1}), "podman" :> {8, 7, 2, 1}}},
     {Plain, [Plain EXCEPT !.tool = "none", !.tcp = {"2375"}],
      [Plain EXCEPT !.tcp = {"2375"}, !.imds = "answers"], [Plain EXCEPT !.tcp = {"2376"}]},
     {[Plain EXCEPT !.marks = m] : m \in SUBSET {"dockerenv", "kmsg"}},
     {[Plain EXCEPT !.cloud = c] : c \in {NoFiles, "azure" :> {8, 7}, "azure" :> {8, 7, 5, 2},
         "aws/config" :> {8, 7, 2} @@ "gcloud" :> {8, 7}}}}

User == [Plain EXCEPT !.root = FALSE,
         !.lists = [l \in PlaceLists |-> CASE l = "PATH" -> {"bin", "opt"} [] l = "units" -> {"sshd.service"}
                                       [] l = "cron" -> {"cron.d"} [] l = "crontab PATH" -> {"bin", "opt"}
                                       [] l = "ld.so.conf" -> {"lib"} [] l = "LD_LIBRARY_PATH" -> {"lib"}
                                       [] OTHER -> {}]]
RedTeamHosts ==
    {{User, [User EXCEPT !.root = TRUE, !.writes = "lib" :> "other" @@ "cron.d" :> "other"],
      [User EXCEPT !.writes = "opt" :> "owner" @@ "lib" :> "other"],
      [User EXCEPT !.writes = "sshd.service" :> "other" @@ "cron.d" :> "owner"]},
     {[User EXCEPT !.sudo = s] : s \in {{}, {"findAllowed"}, {"viDenied", "all"}}},
     {[User EXCEPT !.marks = m] : m \in SUBSET {"cgroup:docker", "sda"}},
     {[User EXCEPT !.marks = {"dockerenv"}, !.pidns = n] : n \in {"ownNs", "hostNs"}},
     {Plain, [User EXCEPT !.sock = DockerSocket({8, 7, 5, 4}), !.writes = "var/run/docker" :> "other"],
      [Plain EXCEPT !.sock = DockerSocket({8, 7, 5, 4})]},
     {User, [User EXCEPT !.secrets = "env" :> {"password"}, !.lists["PATH"] = {"."}],
      [User EXCEPT !.secrets = "env" :> {"pemKey", "awsKey"} @@ "home/.bash_history" :> {"sshpass"}],
      [User EXCEPT !.kernel = "5.8.", !.lists["LD_PRELOAD"] = {"trace.so"}]}}

SysReconHosts ==
    {{Plain, [Plain EXCEPT !.accounts = NoFiles], [Plain EXCEPT !.noPassword = {"mysql"}],
      [Plain EXCEPT !.accounts = NoFiles, !.noPassword = {"mysql"}],
      [Plain EXCEPT !.accounts = "root" :> "login" @@ "mysql" :> "login" @@ "ann" :> "login"]},
     {Plain, [Plain EXCEPT !.accounts = "root" :> "login" @@ "toor" :> "login"],
      [Plain EXCEPT !.kernel = "3.10.", !.env = {"DB_PASSWORD", "HOME"}]},
     {[Plain EXCEPT !.procs = p] : p \in {{"init"}, {"init", "ncat"}, {"init", "rsync", "miner"}}},
     {[User EXCEPT !.writes = w, !.cron = c] :
         w \in {NoFiles, "backup.sh" :> "other"}, c \in {"none", "plain", "backup"}},
     {[User EXCEPT !.writes = w, !.crontab = c] :
         w \in {NoFiles, "mine.sh" :> "owner"}, c \in {{}, {"mine.sh"}}},
     {[User EXCEPT !.writes = "backup.sh" :> "other", !.cron = "backup", !.crontab = {"mine.sh"}],
      [User EXCEPT !.writes = "backup.sh" :> "other", !.crontab = {"backup.sh"}]}}

MCHosts == [netaudit |-> NetHosts, hardening |-> HardeningHosts,
            secaudit |-> SecHosts, loganalyzer |-> LogHosts,
            container |-> ContainerHosts, redteam |-> RedTeamHosts,
            sysrecon |-> SysReconHosts]
=============================================================================
