------------------------- MODULE HostScanTruths_proofs -------------------------
(***************************************************************************)
(* Theorems about what HostScan finds, for any machines and changes of     *)
(* them: what is true of a machine throughout a scan whose commands answer *)
(* is reported, and what has been remedied is not reported again.          *)
(***************************************************************************)
EXTENDS HostScanClaims_proofs

(***************************************************************************)
(* What is true of every machine seen so far is kept once it has been      *)
(* looked for: all findings of one title, or the one about one thing.      *)
(***************************************************************************)
Lasts(f) == (\A h \in seen : f \in Truth(h)) /\ ~Moved(f)
Kept(title) == \A f : f.title = title /\ Lasts(f) => f \in findings
KeptOf(title, of) == \A f : f.title = title /\ f.of = of /\ Lasts(f) => f \in findings

LEMMA LastedBefore ==
    ASSUME NEW f, module' = module, seen \subseteq seen', Lasts(f)'
    PROVE  Lasts(f)
<1>1. \A h : Truth(h)' = Truth(h)
  BY DEF Truth
<1>2. Moved(f) => Moved(f)'
  BY DEF Moved, Sometime
<1> QED BY <1>1, <1>2 DEF Lasts

LEMMA KeptStays ==
    ASSUME module' = module, seen \subseteq seen', findings \subseteq findings'
    PROVE  /\ \A title : Kept(title) => Kept(title)'
           /\ \A title, of : KeptOf(title, of) => KeptOf(title, of)'
BY LastedBefore DEF Kept, KeptOf

\* What a check reports of the findings that have lasted until then.
LEMMA KeptNow ==
    ASSUME module' = module, seen \subseteq seen',
           NEW title, \A f : f.title = title /\ Lasts(f) => f \in findings'
    PROVE  Kept(title)'
BY LastedBefore DEF Kept

LEMMA KeptOfNow ==
    ASSUME module' = module, seen \subseteq seen',
           NEW title, NEW of, \A f : f.title = title /\ f.of = of /\ Lasts(f) => f \in findings'
    PROVE  KeptOf(title, of)'
BY LastedBefore DEF KeptOf

\* A check that goes through a list, at its place i; and one that has been through it.
LEMMA ListKeeps ==
    ASSUME module' = module, seen \subseteq seen', findings \subseteq findings', i \in Nat,
           NEW title, NEW order,
           \A k \in 1 .. Len(order) : k < i => KeptOf(title, order[k]),
           \A f : f.title = title /\ f.of = order[i] /\ Lasts(f) => f \in findings'
    PROVE  \A k \in 1 .. Len(order) : k <= i => KeptOf(title, order[k])'
<1>1. PICK of : of = order[i]
  OBVIOUS
<1>2. KeptOf(title, of)'
  BY <1>1, KeptOfNow
<1>3. ASSUME NEW k \in 1 .. Len(order), k <= i
      PROVE  KeptOf(title, order[k])'
  <2>1. CASE k = i
    BY <1>1, <1>2, <2>1
  <2>2. CASE k # i
    BY <1>3, <2>2, KeptStays
  <2> QED BY <2>1, <2>2
<1> QED BY <1>3

LEMMA ListDone ==
    ASSUME module' = module, seen \subseteq seen', NEW title, NEW order,
           \A k \in 1 .. Len(order) : KeptOf(title, order[k])',
           \A f : f.title = title /\ Lasts(f) => f.of \in Elements(order)
    PROVE  Kept(title)'
<1> SUFFICES ASSUME NEW f, f.title = title, Lasts(f)' PROVE f \in findings'
  BY DEF Kept
<1>1. f.of \in Elements(order)
  BY LastedBefore
<1>2. PICK k \in 1 .. Len(order) : f.of = order[k]
  BY <1>1 DEF Elements
<1> QED BY <1>2 DEF KeptOf

LEMMA NextOfGoes ==
    ASSUME module' = module, seen \subseteq seen', NEW title, NEW order, NEW s, NEW next, s # next,
           NextOf(order, s, next), i \in 1 .. Len(order), Len(order) \in Nat,
           \A k \in 1 .. Len(order) : k <= i => KeptOf(title, order[k])',
           \A f : f.title = title /\ Lasts(f) => f.of \in Elements(order)
    PROVE  /\ step' \in {s, next}
           /\ step' = s => \A k \in 1 .. Len(order) : k < i' => KeptOf(title, order[k])'
           /\ step' = next => Kept(title)'
<1>1. CASE i < Len(order)
  <2>1. step' = s /\ i' = i + 1
    BY <1>1 DEF NextOf, Goto
  <2>2. \A k \in 1 .. Len(order) : k < i + 1 => k <= i
    OBVIOUS
  <2> QED BY <2>1, <2>2
<1>2. CASE ~(i < Len(order))
  <2>1. step' = next
    BY <1>2 DEF NextOf, Goto
  <2>2. \A k \in 1 .. Len(order) : k <= i
    BY <1>2
  <2> QED BY <2>1, <2>2, ListDone
<1> QED BY <1>1, <1>2

LEMMA AnswerIs ==
    ASSUME Answered, unanswered = {}, NEW q, Decide(q)
    PROVE  /\ step = q
           /\ \E h \in seen : \E r \in RepliesOf(h, q, i) : call.out = r[1] /\ call.rc = r[2]
BY DEF Answered, Decide

\* A rule on a word that should not be there.
LEMMA WordReports ==
    ASSUME NEW s, NEW word, NEW title, NEW sev, NEW rules, Rule(word, TRUE, title, sev) \in rules,
           NEW content, word \in content
    PROVE  Finding(title, s, sev) \in Judged(s, rules, content)
<1> DEFINE rule == Rule(word, TRUE, title, sev)
<1>1. rule.word = word /\ rule.bad = TRUE /\ rule.title = title /\ rule.sev = sev
  BY DEF Rule
<1> HIDE DEF rule
<1>2. rule \in rules
  BY DEF rule
<1>3. rule \in Broken(rules, content)
  BY <1>1, <1>2, Zenon DEF Broken
<1> QED BY <1>1, <1>3 DEF Judged

LEMMA RuleReports ==
    ASSUME NEW s, NEW word, NEW title, NEW sev, NEW files, NEW next,
           ReadFor(s, files, {Rule(word, TRUE, title, sev)}, next), word \in FirstOf(files)
    PROVE  Finding(title, s, sev) \in findings'
<1> DEFINE rules == {Rule(word, TRUE, title, sev)}
<1>1. Report(Judged(s, rules, FirstOf(files)), {})
  BY DEF ReadFor
<1>2. Rule(word, TRUE, title, sev) \in rules
  OBVIOUS
<1> HIDE DEF rules
<1>3. Finding(title, s, sev) \in Judged(s, rules, FirstOf(files))
  BY <1>2, WordReports
<1> QED BY <1>1, <1>3 DEF Report

-----------------------------------------------------------------------------
(***************************************************************************)
(* netaudit.                                                               *)
(***************************************************************************)
NetKept ==
    /\ step \in {"connections", "iptables", "nft", "resolv", "interfaces", "promisc", "forward",
                 "neigh", "done"} => Kept("dangerousPort")
    /\ step \in {"nft", "resolv", "interfaces", "promisc", "forward", "neigh", "done"} =>
           Kept("defaultAccept")
    /\ step \in {"interfaces", "promisc", "forward", "neigh", "done"} => Kept("publicDns")
    /\ step \in {"forward", "neigh", "done"} => Kept("promiscuous")
    /\ step \in {"neigh", "done"} => Kept("forwarding")
    /\ step = "done" => Kept("arpSpoofing")

LEMMA NetTold ==
    ASSUME NEW h, module = "netaudit", NEW f \in Truth(h)
    PROVE  /\ f.title \in {"dangerousPort", "defaultAccept", "publicDns", "promiscuous",
                          "forwarding", "arpSpoofing"}
           /\ f.title = "dangerousPort" => \E s \in h.listening :
                  /\ h.tool = "ss" /\ Sockets[s].port \in DANGEROUS_PORTS /\ ~Loopback6(s)
                  /\ f = DangerousPort(s, Wide(s))
           /\ f.title = "defaultAccept" => \E c \in h.accepting :
                  h.root /\ h.iptables /\ f = Finding("defaultAccept", c, "HIGH")
           /\ f.title = "publicDns" =>
                  "public" \in h.files["resolv"] /\ f = Finding("publicDns", "resolv", "LOW")
           /\ f.title = "promiscuous" =>
                  "promisc" \in h.dangers /\ f = Finding("promiscuous", "promisc", "HIGH")
           /\ f.title = "forwarding" =>
                  "1" \in h.files["ip_forward"] /\ f = Finding("forwarding", "forward", "MEDIUM")
           /\ f.title = "arpSpoofing" => \E n, m \in h.neighbours :
                  /\ Neighbours[m].mac = Neighbours[n].mac /\ Neighbours[m].ip # Neighbours[n].ip
                  /\ f = Finding("arpSpoofing", Neighbours[n].mac, "HIGH")
<1>1. f \in NetTruth(h)
  BY DEF Truth
<1> QED BY <1>1 DEF NetTruth, DangerousPort, Finding

LEMMA NetKeeps ==
    ASSUME Answered, unanswered = {}, host \in seen, \A h \in seen : Machine(h),
           module = "netaudit", NetAuditRun, NetKept,
           UNCHANGED <<module, seen>>, findings \subseteq findings'
    PROVE  NetKept'
<1>k. \A title : Kept(title) => Kept(title)'
  BY KeptStays
<1>l. \A f : Lasts(f) => \A h \in seen : f \in Truth(h)
  BY DEF Lasts
<1>1. CASE NetAvailable
  <2>1. step' \in {"ports", "skipped"}
    BY <1>1 DEF NetAvailable, Goto
  <2> QED BY <2>1 DEF NetKept
<1>2. CASE CheckListeningPorts
  <2>1. step = "ports" /\ step' = "connections"
    BY <1>2 DEF CheckListeningPorts, Decide, Goto
  <2>2. ASSUME NEW f, f.title = "dangerousPort", Lasts(f)
        PROVE  f \in findings'
    <3>1. PICK h \in seen : \E r \in RepliesOf(h, "ports", i) : call.out = r[1] /\ call.rc = r[2]
      BY <1>2, AnswerIs DEF CheckListeningPorts
    <3>2. PICK s \in h.listening :
              /\ h.tool = "ss" /\ Sockets[s].port \in DANGEROUS_PORTS /\ ~Loopback6(s)
              /\ f = DangerousPort(s, Wide(s))
      BY <1>l, <2>2, NetTold
    <3>3. call.out = {"header"} \cup h.listening
      BY <3>1, <3>2, NetSays DEF Tool
    <3>4. s \in Dangerous(call.out)
      BY <3>2, <3>3 DEF Dangerous, Machine
    <3>5. BindAll(Sockets[s].addr) <=> Wide(s)
      BY <3>2 DEF BindAll, Wide, Loopback6
    <3>6. f = DangerousPort(s, BindAll(Sockets[s].addr))
      BY <3>2, <3>5 DEF DangerousPort
    <3> QED BY <1>2, <3>3, <3>4, <3>6 DEF CheckListeningPorts, Report
  <2>3. Kept("dangerousPort")'
    BY <2>2, KeptNow
  <2> QED BY <2>1, <2>3 DEF NetKept
<1>3. CASE CheckActiveConnections
  <2>1. step = "connections" /\ step' = "iptables"
    BY <1>3 DEF CheckActiveConnections, Decide, Goto
  <2> QED BY <1>k, <2>1 DEF NetKept
<1>4. CASE CheckIptables
  <2>1. step = "iptables" /\ step' \in {"nft", "resolv"}
    BY <1>4 DEF CheckIptables, Decide, Goto
  <2>2. ASSUME NEW f, f.title = "defaultAccept", Lasts(f)
        PROVE  f \in findings'
    <3>1. PICK h \in seen : \E r \in RepliesOf(h, "iptables", i) : call.out = r[1] /\ call.rc = r[2]
      BY <1>4, AnswerIs DEF CheckIptables
    <3>2. PICK c \in h.accepting : h.root /\ h.iptables /\ f = Finding("defaultAccept", c, "HIGH")
      BY <1>l, <2>2, NetTold
    <3>3. call.rc = 0 /\ call.out = {"chains"} \cup h.accepting
      BY <3>1, <3>2, FirewallReplies DEF Tool
    <3>4. c \in call.out \cap {"INPUT", "FORWARD"}
      BY <3>3 DEF Machine
    <3> QED BY <1>4, <3>2, <3>3, <3>4 DEF CheckIptables, Report
  <2>3. Kept("defaultAccept")'
    BY <2>2, KeptNow
  <2> QED BY <1>k, <2>1, <2>3 DEF NetKept
<1>5. CASE CheckNft
  <2>1. step = "nft" /\ step' = "resolv"
    BY <1>5 DEF CheckNft, Decide, Goto
  <2> QED BY <1>k, <2>1 DEF NetKept
<1>6. CASE CheckDns
  <2>1. step = "resolv" /\ step' = "interfaces"
    BY <1>6 DEF CheckDns, Look, Goto
  <2>2. ASSUME NEW f, f.title = "publicDns", Lasts(f)
        PROVE  f \in findings'
    <3>1. "public" \in host.files["resolv"] /\ f = Finding("publicDns", "resolv", "LOW")
      BY <1>l, <2>2, NetTold
    <3> QED BY <1>6, <3>1 DEF CheckDns, Report
  <2>3. Kept("publicDns")'
    BY <2>2, KeptNow
  <2> QED BY <1>k, <2>1, <2>3 DEF NetKept
<1>7. CASE Presence("interfaces", Finding("interfaces", "interfaces", "INFO"), "promisc")
  <2>1. step = "interfaces" /\ step' = "promisc"
    BY <1>7 DEF Presence, Decide, Goto
  <2> QED BY <1>k, <2>1 DEF NetKept
<1>8. CASE Presence("promisc", Finding("promiscuous", "promisc", "HIGH"), "forward")
  <2>1. step = "promisc" /\ step' = "forward"
    BY <1>8 DEF Presence, Decide, Goto
  <2>2. ASSUME NEW f, f.title = "promiscuous", Lasts(f)
        PROVE  f \in findings'
    <3>1. PICK h \in seen : \E r \in RepliesOf(h, "promisc", i) : call.out = r[1] /\ call.rc = r[2]
      BY <1>8, AnswerIs DEF Presence
    <3>2. "promisc" \in h.dangers /\ f = Finding("promiscuous", "promisc", "HIGH")
      BY <1>l, <2>2, NetTold
    <3>3. call.out = {"promisc"}
      BY <3>1, <3>2, NetSays DEF Tool
    <3> QED BY <1>8, <3>2, <3>3 DEF Presence, Report
  <2>3. Kept("promiscuous")'
    BY <2>2, KeptNow
  <2> QED BY <1>k, <2>1, <2>3 DEF NetKept
<1>9. CASE ReadFor("forward", <<"ip_forward">>, {Rule("1", TRUE, "forwarding", "MEDIUM")}, "neigh")
  <2>1. step = "forward" /\ step' = "neigh"
    BY <1>9 DEF ReadFor, Look, Goto
  <2>2. ASSUME NEW f, f.title = "forwarding", Lasts(f)
        PROVE  f \in findings'
    <3>1. "1" \in host.files["ip_forward"] /\ f = Finding("forwarding", "forward", "MEDIUM")
      BY <1>l, <2>2, NetTold
    <3> QED BY <1>9, <3>1, FirstOfOne, RuleReports
  <2>3. Kept("forwarding")'
    BY <2>2, KeptNow
  <2> QED BY <1>k, <2>1, <2>3 DEF NetKept
<1>10. CASE CheckArp
  <2>1. step = "neigh" /\ step' = "done"
    BY <1>10 DEF CheckArp, Decide, Goto
  <2>2. ASSUME NEW f, f.title = "arpSpoofing", Lasts(f)
        PROVE  f \in findings'
    <3>1. PICK h \in seen : \E r \in RepliesOf(h, "neigh", i) : call.out = r[1] /\ call.rc = r[2]
      BY <1>10, AnswerIs DEF CheckArp
    <3>2. PICK n, m \in h.neighbours :
              /\ Neighbours[m].mac = Neighbours[n].mac /\ Neighbours[m].ip # Neighbours[n].ip
              /\ f = Finding("arpSpoofing", Neighbours[n].mac, "HIGH")
      BY <1>l, <2>2, NetTold
    <3>3. call.out = h.neighbours
      <4>1. RepliesOf(h, "neigh", i) = {<<h.neighbours, 0>>}
        BY NetSays
      <4> QED BY <3>1, <4>1
    <3>4. Neighbours[n].mac \in Shared(call.out)
      BY <3>2, <3>3 DEF Shared
    <3> QED BY <1>10, <3>2, <3>4 DEF CheckArp, Report
  <2>3. Kept("arpSpoofing")'
    BY <2>2, KeptNow
  <2> QED BY <1>k, <2>1, <2>3 DEF NetKept
<1> QED BY <1>1, <1>2, <1>3, <1>4, <1>5, <1>6, <1>7, <1>8, <1>9, <1>10
        DEF NetAuditRun, CheckInterfaces

-----------------------------------------------------------------------------
(***************************************************************************)
(* hardening.                                                              *)
(***************************************************************************)
AfterServices == {"apt", "updates", "done"}
AfterMount    == {"ntp", "timedatectl", "grub", "services"} \cup AfterServices
AfterDumpable == {"limits", "modprobe", "mount"} \cup AfterMount
AfterEnforce  == {"aaStatus", "dumpable"} \cup AfterDumpable
HardeningKept ==
    /\ step = "kernel" =>
           \A k \in 1 .. Len(KERNEL_CHECKS) : k < i => KeptOf("kernel", KERNEL_CHECKS[k].name)
    /\ step \in {"getenforce"} \cup AfterEnforce => Kept("kernel")
    /\ step \in AfterEnforce => Kept("selinuxPermissive")
    /\ step \in AfterDumpable => Kept("suidDumpable")
    /\ step \in AfterMount => Kept("tmpShared") /\ Kept("tmpOptions")
    /\ step = "services" =>
           \A k \in 1 .. Len(ServiceOrder) : k < i => KeptOf("service", ServiceOrder[k])
    /\ step \in AfterServices => Kept("service")

LEMMA HardeningTold ==
    ASSUME NEW h, module = "hardening", NEW f \in Truth(h)
    PROVE  /\ f.title \in {"kernel", "selinuxPermissive", "suidDumpable", "service", "tmpShared",
                          "tmpOptions"}
           /\ f.title = "kernel" => \E p \in Elements(KERNEL_CHECKS) :
                  h.param[p.name] \notin {"absent", p.expected} /\ f = Finding("kernel", p.name, p.sev)
           /\ f.title = "selinuxPermissive" =>
                  h.selinux = "permissive" /\ f = Finding("selinuxPermissive", "mac", "MEDIUM")
           /\ f.title = "suidDumpable" => /\ "nonzero" \in h.files["suid_dumpable"]
                                        /\ f = Finding("suidDumpable", "dumpable", "MEDIUM")
           /\ f.title = "service" => \E s \in Elements(ServiceOrder) \cap h.units :
                  f = Finding("service", s, ServiceSeverity(s))
           /\ f.title = "tmpShared" =>
                  "tmp" \notin h.mounts /\ f = Finding("tmpShared", "tmp", "MEDIUM")
           /\ f.title = "tmpOptions" => \E o \in TmpOptions :
                  "tmp" \in h.mounts /\ o \notin h.mounts /\ f = Finding("tmpOptions", "tmp", "MEDIUM")
<1>1. f \in HardeningTruth(h)
  BY DEF Truth
<1> QED BY <1>1 DEF HardeningTruth, Finding

\* No two parameters have the same name.
LEMMA NamesApart ==
    \A j, k \in 1 .. Len(KERNEL_CHECKS) : KERNEL_CHECKS[j].name = KERNEL_CHECKS[k].name => j = k
<1>1. /\ Len(KERNEL_CHECKS) = 13
      /\ KERNEL_CHECKS[1].name = "randomize_va_space" /\ KERNEL_CHECKS[2].name = "ptrace_scope"
      /\ KERNEL_CHECKS[3].name = "tcp_syncookies" /\ KERNEL_CHECKS[4].name = "accept_redirects"
      /\ KERNEL_CHECKS[5].name = "send_redirects" /\ KERNEL_CHECKS[6].name = "accept_source_route"
      /\ KERNEL_CHECKS[7].name = "log_martians"
      /\ KERNEL_CHECKS[8].name = "icmp_echo_ignore_broadcasts"
      /\ KERNEL_CHECKS[9].name = "accept_ra" /\ KERNEL_CHECKS[10].name = "kptr_restrict"
      /\ KERNEL_CHECKS[11].name = "dmesg_restrict" /\ KERNEL_CHECKS[12].name = "protected_hardlinks"
      /\ KERNEL_CHECKS[13].name = "protected_symlinks"
  BY DEF KERNEL_CHECKS, Param
<1> QED BY <1>1

LEMMA IsActiveTells ==
    ASSUME NEW h, NEW unit \in h.units, NEW r \in IsActive(h, unit)
    PROVE  r[1] = {"active"} /\ r[2] = 0
BY DEF IsActive

LEMMA HardeningKeeps ==
    ASSUME Answered, unanswered = {}, InList, host \in seen, \A h \in seen : Machine(h),
           module = "hardening", HardeningRun, HardeningKept,
           UNCHANGED <<module, seen>>, findings \subseteq findings'
    PROVE  HardeningKept'
<1> USE DEF AfterServices, AfterMount, AfterDumpable, AfterEnforce
<1>k. /\ \A title : Kept(title) => Kept(title)'
      /\ \A title, of : KeptOf(title, of) => KeptOf(title, of)'
  BY KeptStays
<1>l. \A f : Lasts(f) => \A h \in seen : f \in Truth(h)
  BY DEF Lasts
<1>i. i \in Nat \ {0}
  BY DEF InList
<1>1. CASE CheckKernelParam
  <2>1. step = "kernel" /\ step' = "kernel" /\ i' = i + 1 /\ i \in 1 .. Len(KERNEL_CHECKS)
    BY <1>1, <1>i DEF CheckKernelParam, Look, Goto, KERNEL_CHECKS
  <2>n. PICK name : name = KERNEL_CHECKS[i].name
    OBVIOUS
  <2>2. ASSUME NEW f, f.title = "kernel", f.of = name, Lasts(f)
        PROVE  f \in findings'
    <3>1. PICK p \in Elements(KERNEL_CHECKS) :
              host.param[p.name] \notin {"absent", p.expected} /\ f = Finding("kernel", p.name, p.sev)
      BY <1>l, <2>2, HardeningTold
    <3>2. p = KERNEL_CHECKS[i]
      <4>1. PICK j \in 1 .. Len(KERNEL_CHECKS) : p = KERNEL_CHECKS[j]
        BY DEF Elements
      <4>2. KERNEL_CHECKS[j].name = KERNEL_CHECKS[i].name
        BY <2>n, <2>2, <3>1, <4>1 DEF Finding
      <4> QED BY <2>1, <4>1, <4>2, NamesApart
    <3>3. f \in Deviates(i)
      BY <3>1, <3>2 DEF Deviates
    <3> QED BY <1>1, <3>3 DEF CheckKernelParam, Report
  <2>3. KeptOf("kernel", name)'
    BY <2>2, KeptOfNow
  <2>4. ASSUME NEW k \in 1 .. Len(KERNEL_CHECKS), k < i + 1
        PROVE  KeptOf("kernel", KERNEL_CHECKS[k].name)'
    <3>1. CASE k = i
      BY <2>n, <2>3, <3>1
    <3>2. CASE k # i
      <4>1. KeptOf("kernel", KERNEL_CHECKS[k].name)
        BY <1>i, <2>1, <2>4, <3>2 DEF HardeningKept
      <4> QED BY <1>k, <4>1
    <3> QED BY <3>1, <3>2
  <2> QED BY <2>1, <2>4 DEF HardeningKept
<1>2. CASE KernelTally
  <2>1. step = "kernel" /\ step' = "getenforce" /\ i > Len(KERNEL_CHECKS)
    BY <1>2 DEF KernelTally, Look, Goto
  <2>2. Len(KERNEL_CHECKS) \in Nat
    BY DEF KERNEL_CHECKS
  <2>3. ASSUME NEW f, f.title = "kernel", Lasts(f)
        PROVE  f \in findings'
    <3>1. PICK p \in Elements(KERNEL_CHECKS) : f = Finding("kernel", p.name, p.sev)
      BY <1>l, <2>3, HardeningTold
    <3>2. PICK k \in 1 .. Len(KERNEL_CHECKS) : p = KERNEL_CHECKS[k]
      BY DEF Elements
    <3>3. KeptOf("kernel", KERNEL_CHECKS[k].name)
      BY <1>i, <2>1, <2>2 DEF HardeningKept
    <3>4. f.of = KERNEL_CHECKS[k].name
      BY <3>1, <3>2 DEF Finding
    <3> QED BY <2>3, <3>3, <3>4 DEF KeptOf
  <2>4. Kept("kernel")'
    BY <2>3, KeptNow
  <2> QED BY <2>1, <2>4 DEF HardeningKept
<1>3. CASE CheckSELinux
  <2>1. step = "getenforce" /\ step' \in {"aaStatus", "dumpable"}
    BY <1>3 DEF CheckSELinux, Decide, Goto
  <2>2. ASSUME NEW f, f.title = "selinuxPermissive", Lasts(f)
        PROVE  f \in findings'
    <3>1. PICK h \in seen :
              \E r \in RepliesOf(h, "getenforce", i) : call.out = r[1] /\ call.rc = r[2]
      BY <1>3, AnswerIs DEF CheckSELinux
    <3>2. h.selinux = "permissive" /\ f = Finding("selinuxPermissive", "mac", "MEDIUM")
      BY <1>l, <2>2, HardeningTold
    <3>3. RepliesOf(h, "getenforce", i) = {<<{"permissive"}, 0>>}
      BY <3>2, MacReplies
    <3>4. call.rc = 0 /\ call.out = {"permissive"}
      BY <3>1, <3>3
    <3> QED BY <1>3, <3>2, <3>4 DEF CheckSELinux, Report
  <2>3. Kept("selinuxPermissive")'
    BY <2>2, KeptNow
  <2> QED BY <1>k, <2>1, <2>3 DEF HardeningKept
<1>4. CASE CheckAppArmor
  <2>1. step = "aaStatus" /\ step' = "dumpable"
    BY <1>4 DEF CheckAppArmor, Decide, Goto
  <2> QED BY <1>k, <2>1 DEF HardeningKept
<1>5. CASE CheckSuidDumpable
  <2>1. step = "dumpable" /\ step' = "limits"
    BY <1>5 DEF CheckSuidDumpable, ReadFor, Look, Goto
  <2>2. ASSUME NEW f, f.title = "suidDumpable", Lasts(f)
        PROVE  f \in findings'
    <3>1. "nonzero" \in host.files["suid_dumpable"] /\ f = Finding("suidDumpable", "dumpable", "MEDIUM")
      BY <1>l, <2>2, HardeningTold
    <3> QED BY <1>5, <3>1, FirstOfOne, RuleReports DEF CheckSuidDumpable
  <2>3. Kept("suidDumpable")'
    BY <2>2, KeptNow
  <2> QED BY <1>k, <2>1, <2>3 DEF HardeningKept
<1>6. CASE CheckLimits
  <2>1. step = "limits" /\ step' = "modprobe"
    BY <1>6 DEF CheckLimits, ReadFor, Look, Goto
  <2> QED BY <1>k, <2>1 DEF HardeningKept
<1>7. CASE CheckUsbStorage
  <2>1. step = "modprobe" /\ step' = "mount"
    BY <1>7 DEF CheckUsbStorage, Look, Goto
  <2> QED BY <1>k, <2>1 DEF HardeningKept
<1>8. CASE CheckMountOptions
  <2>1. step = "mount" /\ step' = "ntp" /\ i' = 1
    BY <1>8 DEF CheckMountOptions, Decide, Goto
  <2>2. PICK h \in seen : call.out = {"root"} \cup h.mounts
    <3>1. PICK h \in seen : \E r \in RepliesOf(h, "mount", i) : call.out = r[1] /\ call.rc = r[2]
      BY <1>8, AnswerIs DEF CheckMountOptions
    <3>2. RepliesOf(h, "mount", i) = {<<{"root"} \cup h.mounts, 0>>}
      BY HardeningSays
    <3> QED BY <3>1, <3>2
  <2>3. MountFindings(call.out) \subseteq findings'
    BY <1>8, <2>2 DEF CheckMountOptions, Report
  <2>4. ASSUME NEW f, f.title = "tmpShared", Lasts(f)
        PROVE  f \in findings'
    <3>1. "tmp" \notin h.mounts /\ f = Finding("tmpShared", "tmp", "MEDIUM")
      BY <1>l, <2>4, HardeningTold
    <3> QED BY <2>2, <2>3, <3>1 DEF MountFindings
  <2>5. ASSUME NEW f, f.title = "tmpOptions", Lasts(f)
        PROVE  f \in findings'
    <3>1. PICK o \in TmpOptions :
              "tmp" \in h.mounts /\ o \notin h.mounts /\ f = Finding("tmpOptions", "tmp", "MEDIUM")
      BY <1>l, <2>5, HardeningTold
    <3>2. "tmp" \in call.out /\ o \notin call.out
      BY <2>2, <3>1 DEF TmpOptions
    <3> QED BY <2>3, <3>1, <3>2 DEF MountFindings
  <2>6. Kept("tmpShared")' /\ Kept("tmpOptions")'
    BY <2>4, <2>5, KeptNow
  <2> QED BY <1>k, <2>1, <2>6 DEF HardeningKept
<1>9. CASE CheckNtp \/ CheckTimedatectl
  <2>1. step \in {"ntp", "timedatectl"} /\ step' \in {"ntp", "timedatectl", "grub"}
    BY <1>9 DEF CheckNtp, CheckTimedatectl, Decide, Goto
  <2> QED BY <1>k, <2>1 DEF HardeningKept
<1>10. CASE CheckBootloader
  <2>1. step = "grub" /\ step' = "services" /\ i' = 1
    BY <1>10 DEF CheckBootloader, ReadFor, Look, Goto
  <2> QED BY <1>k, <2>1 DEF HardeningKept
<1>11. CASE CheckService
  <2>1. step = "services" /\ i \in 1 .. Len(ServiceOrder)
    BY <1>11, Lengths DEF CheckService, Decide, InList
  <2>n. PICK svc : svc = ServiceOrder[i]
    OBVIOUS
  <2>2. ASSUME NEW f, f.title = "service", f.of = svc, Lasts(f)
        PROVE  f \in findings'
    <3>1. PICK h \in seen : \E r \in RepliesOf(h, "services", i) : call.out = r[1] /\ call.rc = r[2]
      BY <1>11, AnswerIs DEF CheckService
    <3>2. svc \in h.units /\ f = Finding("service", svc, ServiceSeverity(svc))
      <4>1. PICK s \in h.units : f = Finding("service", s, ServiceSeverity(s))
        BY <1>l, <2>2, HardeningTold
      <4> QED BY <2>2, <4>1 DEF Finding
    <3>3. RepliesOf(h, "services", i) = IsActive(h, svc)
      BY <2>n, HardeningSays
    <3>4. call.rc = 0 /\ call.out = {"active"}
      BY <3>1, <3>2, <3>3, IsActiveTells
    <3> QED BY <1>11, <2>n, <3>2, <3>4 DEF CheckService, Report
  <2>3. \A k \in 1 .. Len(ServiceOrder) : k <= i => KeptOf("service", ServiceOrder[k])'
    BY <1>i, <2>1, <2>2, <2>n, ListKeeps DEF HardeningKept
  <2>4. NextOf(ServiceOrder, "services", "apt")
    BY <1>11 DEF CheckService, NextOf
  <2>5. \A f : f.title = "service" /\ Lasts(f) => f.of \in Elements(ServiceOrder)
    BY <1>l, HardeningTold DEF Finding
  <2>6. /\ step' \in {"services", "apt"}
        /\ step' = "services" => \A k \in 1 .. Len(ServiceOrder) :
               k < i' => KeptOf("service", ServiceOrder[k])'
        /\ step' = "apt" => Kept("service")'
    BY <2>1, <2>3, <2>4, <2>5, Lengths, NextOfGoes
  <2> QED BY <1>k, <2>1, <2>6 DEF HardeningKept
<1>12. CASE CheckApt \/ CheckUpdater
  <2>1. step \in {"apt", "updates"} /\ step' \in {"updates", "done"}
    BY <1>12 DEF CheckApt, CheckUpdater, Look, Decide, Goto
  <2> QED BY <1>k, <2>1 DEF HardeningKept
<1> QED BY <1>1, <1>2, <1>3, <1>4, <1>5, <1>6, <1>7, <1>8, <1>9, <1>10, <1>11, <1>12
        DEF HardeningRun

-----------------------------------------------------------------------------
(***************************************************************************)
(* secaudit.                                                               *)
(***************************************************************************)
AfterFiles == {"unowned", "done"}
InFiles    == {"sensitive", "permissions", "owner"}
AfterSshd  == {"sudo", "pam", "login", "getcap"} \cup InFiles \cup AfterFiles
AfterDirs  == {"sshd"} \cup AfterSshd
AfterWorld == {"worldDirs"} \cup AfterDirs
SecKept ==
    /\ step \in {"worldFiles"} \cup AfterWorld => Kept("gtfobin")
    /\ step \in AfterWorld => KeptOf("danger", "worldFiles")
    /\ step \in AfterDirs => KeptOf("danger", "worldDirs")
    /\ step \in AfterSshd => Kept("ssh")
    /\ step \in InFiles =>
           \A k \in 1 .. Len(SensitiveOrder) : k < i => KeptOf("wrongOwner", SensitiveOrder[k])
    /\ step \in AfterFiles => Kept("wrongOwner")
    /\ step = "done" => KeptOf("danger", "unowned")

LEMMA SecTold ==
    ASSUME NEW h, module = "secaudit", NEW f \in Truth(h)
    PROVE  /\ f.title \in {"gtfobin", "danger", "ssh", "wrongOwner"}
           /\ f.title = "gtfobin" => \E b \in h.setid :
                  Binaries[b].gtfobin /\ f = Finding("gtfobin", b, "HIGH")
           /\ f.title = "danger" => \E d \in SecDangers \cap h.dangers :
                  f = Finding("danger", d, "MEDIUM")
           /\ f.title = "ssh" => \E b \in SshChecks :
                  /\ \/ SshValues(h, b.directive) = {b.value}
                     \/ b.directive = "maxauthtries" /\ h.sshd # <<>> /\ SshValues(h, b.directive) = {}
                  /\ f = Finding("ssh", b.directive, b.sev)
           /\ f.title = "wrongOwner" => \E file \in Elements(SensitiveOrder) :
                  h.owner[file] \notin {"absent", "root"} /\ f = Finding("wrongOwner", file, "HIGH")
<1>1. f \in SecTruth(h)
  BY DEF Truth
<1> QED BY <1>1 DEF SecTruth, SshTruth, Finding

\* Where all lines on a directive give one value, that one counts.
LEMMA SshReports ==
    ASSUME NEW h, Len(h.sshd) \in Nat, NEW b \in SshChecks,
           \/ SshValues(h, b.directive) = {b.value}
           \/ b.directive = "maxauthtries" /\ h.sshd # <<>> /\ SshValues(h, b.directive) = {}
    PROVE  h.sshd # <<>> /\ Finding("ssh", b.directive, b.sev) \in SshFindings(h.sshd)
<1> DEFINE d == b.directive
           lines == h.sshd
<1>1. SshValues(h, d) = {lines[k].value : k \in Given(lines, d)}
  BY DEF SshValues, Given, Elements
<1>2. CASE SshValues(h, d) = {b.value}
  <2>1. Given(lines, d) # {}
    BY <1>1, <1>2
  <2>2. PICK k \in Given(lines, d) : Actual(lines, d) = lines[k].value
    BY <2>1, ActualIsGiven
  <2>3. Actual(lines, d) = b.value
    BY <1>1, <1>2, <2>2
  <2>4. lines # <<>>
    BY <2>2 DEF Given
  <2> QED BY <2>1, <2>3, <2>4 DEF SshFindings
<1>3. CASE d = "maxauthtries" /\ lines # <<>> /\ SshValues(h, d) = {}
  <2>1. Given(lines, d) = {}
    BY <1>1, <1>3
  <2> QED BY <1>3, <2>1 DEF SshFindings
<1> QED BY <1>2, <1>3

\* One of the three questions whose output is the danger.
LEMMA DangerKept ==
    ASSUME Answered, unanswered = {}, module = "secaudit", UNCHANGED <<module, seen>>,
           NEW q \in SecDangers, NEW next, Presence(q, Finding("danger", q, "MEDIUM"), next)
    PROVE  KeptOf("danger", q)' /\ step = q /\ step' = next
<1>1. PICK h \in seen : \E r \in RepliesOf(h, q, i) : call.out = r[1] /\ call.rc = r[2]
  BY AnswerIs DEF Presence
<1>2. call.out = {q} \cap h.dangers
  BY <1>1, SecSays DEF SecDangers
<1>3. ASSUME NEW f, f.title = "danger", f.of = q, Lasts(f)
      PROVE  f \in findings'
  <2>1. PICK d \in SecDangers \cap h.dangers : f = Finding("danger", d, "MEDIUM")
    BY <1>3, SecTold DEF Lasts
  <2>2. d = q
    BY <1>3, <2>1 DEF Finding
  <2> QED BY <1>2, <2>1, <2>2 DEF Presence, Report
<1>4. KeptOf("danger", q)'
  BY <1>3, KeptOfNow
<1> QED BY <1>4 DEF Presence, Decide, Goto

LEMMA SecKeeps ==
    ASSUME Answered, unanswered = {}, InList, host \in seen, \A h \in seen : Machine(h),
           module = "secaudit", SecAuditRun, SecKept,
           UNCHANGED <<module, seen>>, findings \subseteq findings'
    PROVE  SecKept'
<1> USE DEF AfterFiles, InFiles, AfterSshd, AfterDirs, AfterWorld
<1>k. /\ \A title : Kept(title) => Kept(title)'
      /\ \A title, of : KeptOf(title, of) => KeptOf(title, of)'
  BY KeptStays
<1>l. \A f : Lasts(f) => \A h \in seen : f \in Truth(h)
  BY DEF Lasts
<1>n. Len(SensitiveOrder) \in Nat \ {0}
  BY Lengths
<1>i. i \in Nat \ {0} /\ (step \in InFiles => i \in 1 .. Len(SensitiveOrder))
  BY <1>n DEF InList
<1>o. \A f : f.title = "wrongOwner" /\ Lasts(f) => f.of \in Elements(SensitiveOrder)
  BY SecTold DEF Finding, Lasts
<1>1. CASE CheckSuidSgid
  <2>1. step = "suid" /\ step' = "worldFiles"
    BY <1>1 DEF CheckSuidSgid, Decide, Goto
  <2>2. ASSUME NEW f, f.title = "gtfobin", Lasts(f)
        PROVE  f \in findings'
    <3>1. PICK h \in seen : \E r \in RepliesOf(h, "suid", i) : call.out = r[1] /\ call.rc = r[2]
      BY <1>1, AnswerIs DEF CheckSuidSgid
    <3>2. PICK b \in h.setid : Binaries[b].gtfobin /\ f = Finding("gtfobin", b, "HIGH")
      BY <1>l, <2>2, SecTold
    <3>3. call.out = h.setid
      <4>1. RepliesOf(h, "suid", i) = {<<h.setid, 0>>, <<h.setid, 1>>}
        BY SecSays
      <4> QED BY <3>1, <4>1
    <3> QED BY <1>1, <3>2, <3>3 DEF CheckSuidSgid, Report, Gtfobins
  <2>3. Kept("gtfobin")'
    BY <2>2, KeptNow
  <2> QED BY <2>1, <2>3 DEF SecKept
<1>2. CASE Presence("worldFiles", Finding("danger", "worldFiles", "MEDIUM"), "worldDirs")
  <2>1. KeptOf("danger", "worldFiles")' /\ step = "worldFiles" /\ step' = "worldDirs"
    BY <1>2, DangerKept DEF SecDangers
  <2> QED BY <1>k, <2>1 DEF SecKept
<1>3. CASE Presence("worldDirs", Finding("danger", "worldDirs", "MEDIUM"), "sshd")
  <2>1. KeptOf("danger", "worldDirs")' /\ step = "worldDirs" /\ step' = "sshd"
    BY <1>3, DangerKept DEF SecDangers
  <2> QED BY <1>k, <2>1 DEF SecKept
<1>4. CASE CheckSshConfig
  <2>1. step = "sshd" /\ step' = "sudo"
    BY <1>4 DEF CheckSshConfig, Look, Goto
  <2>2. ASSUME NEW f, f.title = "ssh", Lasts(f)
        PROVE  f \in findings'
    <3>1. PICK b \in SshChecks :
              /\ \/ SshValues(host, b.directive) = {b.value}
                 \/ b.directive = "maxauthtries" /\ host.sshd # <<>> /\ SshValues(host, b.directive) = {}
              /\ f = Finding("ssh", b.directive, b.sev)
      BY <1>l, <2>2, SecTold
    <3>2. Len(host.sshd) \in Nat
      BY DEF Machine
    <3>3. host.sshd # <<>> /\ f \in SshFindings(host.sshd)
      BY <3>1, <3>2, SshReports
    <3> QED BY <1>4, <3>3 DEF CheckSshConfig, Report
  <2>3. Kept("ssh")'
    BY <2>2, KeptNow
  <2> QED BY <1>k, <2>1, <2>3 DEF SecKept
<1>5. CASE CheckSudo \/ CheckPam \/ CheckPasswordPolicy \/ CheckCapabilities
  <2>1. /\ step \in {"sudo", "pam", "login", "getcap"}
        /\ step' \in {"pam", "login", "getcap", "sensitive"} /\ i' = 1
    BY <1>5 DEF CheckSudo, CheckPam, CheckPasswordPolicy, CheckCapabilities, ReadFor, Look, Decide, Goto
  <2>2. \A k \in 1 .. Len(SensitiveOrder) : ~(k < 1)
    OBVIOUS
  <2> QED BY <1>k, <2>1, <2>2 DEF SecKept
<1>6. CASE SensitiveExists
  <2>1. step = "sensitive"
    BY <1>6 DEF SensitiveExists, Look
  <2>2. CASE host.owner[File(i)] = "absent"
    <3>n. PICK file : file = SensitiveOrder[i]
      OBVIOUS
    <3>1. ASSUME NEW f, f.title = "wrongOwner", f.of = file, Lasts(f)
          PROVE  FALSE
      <4>1. PICK g \in Elements(SensitiveOrder) :
                host.owner[g] \notin {"absent", "root"} /\ f = Finding("wrongOwner", g, "HIGH")
        BY <1>l, <3>1, SecTold
      <4> QED BY <2>2, <3>n, <3>1, <4>1 DEF Finding, File
    <3>2. \A k \in 1 .. Len(SensitiveOrder) : k <= i => KeptOf("wrongOwner", SensitiveOrder[k])'
      BY <1>i, <2>1, <3>n, <3>1, ListKeeps DEF SecKept
    <3>3. NextOf(SensitiveOrder, "sensitive", "unowned")
      BY <1>6, <2>2 DEF SensitiveExists, NextFile, NextOf
    <3>4. /\ step' \in {"sensitive", "unowned"}
          /\ step' = "sensitive" => \A k \in 1 .. Len(SensitiveOrder) :
                 k < i' => KeptOf("wrongOwner", SensitiveOrder[k])'
          /\ step' = "unowned" => Kept("wrongOwner")'
      BY <1>i, <1>n, <1>o, <2>1, <3>2, <3>3, NextOfGoes
    <3> QED BY <1>k, <2>1, <3>4 DEF SecKept
  <2>3. CASE host.owner[File(i)] # "absent"
    <3>1. step' = "permissions" /\ i' = i
      BY <1>6, <2>3 DEF SensitiveExists, Goto
    <3> QED BY <1>k, <2>1, <3>1 DEF SecKept
  <2> QED BY <2>2, <2>3
<1>7. CASE CheckPermissions
  <2>1. step = "permissions" /\ step' = "owner" /\ i' = i
    BY <1>7 DEF CheckPermissions, Look, Goto
  <2> QED BY <1>k, <2>1 DEF SecKept
<1>8. CASE CheckOwner
  <2>1. step = "owner" /\ NextOf(SensitiveOrder, "sensitive", "unowned")
    BY <1>8 DEF CheckOwner, Look, NextFile, NextOf
  <2>n. PICK file : file = SensitiveOrder[i]
    OBVIOUS
  <2>2. ASSUME NEW f, f.title = "wrongOwner", f.of = file, Lasts(f)
        PROVE  f \in findings'
    <3>1. host.owner[file] \notin {"absent", "root"} /\ f = Finding("wrongOwner", file, "HIGH")
      <4>1. PICK g \in Elements(SensitiveOrder) :
                host.owner[g] \notin {"absent", "root"} /\ f = Finding("wrongOwner", g, "HIGH")
        BY <1>l, <2>2, SecTold
      <4> QED BY <2>2, <4>1 DEF Finding
    <3> QED BY <1>8, <2>n, <3>1 DEF CheckOwner, Report, File
  <2>3. \A k \in 1 .. Len(SensitiveOrder) : k <= i => KeptOf("wrongOwner", SensitiveOrder[k])'
    BY <1>i, <2>1, <2>n, <2>2, ListKeeps DEF SecKept
  <2>4. /\ step' \in {"sensitive", "unowned"}
        /\ step' = "sensitive" => \A k \in 1 .. Len(SensitiveOrder) :
               k < i' => KeptOf("wrongOwner", SensitiveOrder[k])'
        /\ step' = "unowned" => Kept("wrongOwner")'
    BY <1>i, <1>n, <1>o, <2>1, <2>3, NextOfGoes
  <2> QED BY <1>k, <2>1, <2>4 DEF SecKept
<1>9. CASE CheckUnownedFiles
  <2>1. KeptOf("danger", "unowned")' /\ step = "unowned" /\ step' = "done"
    BY <1>9, DangerKept DEF CheckUnownedFiles, SecDangers
  <2> QED BY <1>k, <2>1 DEF SecKept
<1> QED BY <1>1, <1>2, <1>3, <1>4, <1>5, <1>6, <1>7, <1>8, <1>9
        DEF SecAuditRun, CheckWorldWritable

-----------------------------------------------------------------------------
(***************************************************************************)
(* container.                                                              *)
(***************************************************************************)
InSockets  == {"socket", "sockMode"}
InClouds   == {"cloud", "cloudMode"}
AfterCloud == {"imds", "done"}
AfterDev   == InClouds \cup AfterCloud
AfterTcp   == {"environment", "dev"} \cup AfterDev
ContainerKept ==
    /\ \A title \in {"worldSocket", "groupSocket"} :
           /\ step \in InSockets =>
                  \A k \in 1 .. Len(SockPaths) : k < i => KeptOf(title, SockPaths[k])
           /\ step \in {"tcp"} \cup AfterTcp => Kept(title)
    /\ step \in AfterTcp => Kept("dockerTcp")
    /\ step \in {"dev"} \cup AfterDev => Kept("insideContainer")
    /\ step \in AfterDev => Kept("privileged")
    /\ step \in InClouds =>
           \A k \in 1 .. Len(CloudFiles) : k < i => KeptOf("cloudFile", CloudFiles[k])
    /\ step \in AfterCloud => Kept("cloudFile")
    /\ step = "done" => Kept("imds")

LEMMA ContainerTold ==
    ASSUME NEW h, module = "container", NEW f \in Truth(h)
    PROVE  /\ f.title \in {"worldSocket", "groupSocket", "dockerTcp", "insideContainer",
                          "privileged", "cloudFile", "imds"}
           /\ f.title = "worldSocket" => \E s \in DOMAIN h.sock :
                  1 \in h.sock[s] /\ f = Finding("worldSocket", s, "CRITICAL")
           /\ f.title = "groupSocket" => \E s \in DOMAIN h.sock :
                  {1, 4} \cap h.sock[s] = {4} /\ f = Finding("groupSocket", s, "HIGH")
           /\ f.title = "dockerTcp" =>
                  h.tool # "none" /\ "2375" \in h.tcp /\ f = Finding("dockerTcp", "2375", "CRITICAL")
           /\ f.title = "insideContainer" => /\ h.marks \cap Indicators # {}
                                           /\ f = Finding("insideContainer", "environment", "INFO")
           /\ f.title = "privileged" =>
                  /\ h.marks \cap Indicators # {} /\ h.marks \cap {"kmsg", "mem"} # {}
                  /\ f = Finding("privileged", "dev", "CRITICAL")
           /\ f.title = "cloudFile" => \E file \in DOMAIN h.cloud :
                  2 \in h.cloud[file] /\ f = Finding("cloudFile", file, "HIGH")
           /\ f.title = "imds" => h.imds # "none" /\ f = Finding("imds", "imds", "MEDIUM")
<1>1. f \in ContainerTruth(h)
  BY DEF Truth
<1> QED BY <1>1 DEF ContainerTruth, Finding

LEMMA CloudGoes ==
    ASSUME module' = module, seen \subseteq seen', NextOf(CloudFiles, "cloud", "imds"),
           i \in 1 .. Len(CloudFiles), Len(CloudFiles) \in Nat,
           \A k \in 1 .. Len(CloudFiles) : k <= i => KeptOf("cloudFile", CloudFiles[k])',
           \A f : f.title = "cloudFile" /\ Lasts(f) => f.of \in Elements(CloudFiles)
    PROVE  /\ step' \in {"cloud", "imds"}
           /\ step' = "cloud" => \A k \in 1 .. Len(CloudFiles) :
                  k < i' => KeptOf("cloudFile", CloudFiles[k])'
           /\ step' = "imds" => Kept("cloudFile")'
<1>1. "cloud" # "imds"
  OBVIOUS
<1> QED BY <1>1, NextOfGoes

LEMMA ContainerKeeps ==
    ASSUME Answered, unanswered = {}, InList, host \in seen, \A h \in seen : Machine(h),
           module = "container", ContainerRun, ContainerKept,
           UNCHANGED <<module, seen>>, findings \subseteq findings'
    PROVE  ContainerKept'
<1> USE DEF InSockets, InClouds, AfterCloud, AfterDev, AfterTcp
<1>k. /\ \A title : Kept(title) => Kept(title)'
      /\ \A title, of : KeptOf(title, of) => KeptOf(title, of)'
  BY KeptStays
<1>l. \A f : Lasts(f) => \A h \in seen : f \in Truth(h)
  BY DEF Lasts
<1>i. /\ i \in Nat \ {0} /\ (step \in InSockets => i \in 1 .. Len(SockPaths))
      /\ (step \in InClouds => i \in 1 .. Len(CloudFiles))
      /\ Len(SockPaths) \in Nat /\ Len(CloudFiles) \in Nat
  BY Lengths DEF InList
<1>o. /\ \A title \in {"worldSocket", "groupSocket"} :
             \A f : f.title = title /\ Lasts(f) => f.of \in Elements(SockPaths) \cap DOMAIN host.sock
      /\ \A f : f.title = "cloudFile" /\ Lasts(f) => f.of \in Elements(CloudFiles) \cap DOMAIN host.cloud
  <2>1. /\ DOMAIN host.sock \subseteq Elements(SockPaths)
        /\ DOMAIN host.cloud \subseteq Elements(CloudFiles)
    BY DEF Machine
  <2>2. ASSUME NEW f, Lasts(f)
        PROVE  f.title \in {"worldSocket", "groupSocket"} => f.of \in DOMAIN host.sock
    BY <1>l, <2>2, ContainerTold DEF Finding
  <2>3. ASSUME NEW f, Lasts(f)
        PROVE  f.title = "cloudFile" => f.of \in DOMAIN host.cloud
    BY <1>l, <2>3, ContainerTold DEF Finding
  <2> QED BY <2>1, <2>2, <2>3
<1>1. CASE SocketThere
  <2>1. step = "socket"
    BY <1>1 DEF SocketThere, Look
  <2>2. CASE SockPaths[i] \in DOMAIN host.sock
    <3>1. step' = "sockMode" /\ i' = i
      BY <1>1, <2>2 DEF SocketThere, Goto
    <3> QED BY <1>k, <2>1, <3>1 DEF ContainerKept
  <2>3. CASE SockPaths[i] \notin DOMAIN host.sock
    <3>1. NextOf(SockPaths, "socket", "tcp")
      BY <1>1, <2>3 DEF SocketThere
    <3>2. ASSUME NEW title \in {"worldSocket", "groupSocket"}
          PROVE  /\ step' \in {"socket", "tcp"}
                 /\ step' = "socket" => \A k \in 1 .. Len(SockPaths) :
                        k < i' => KeptOf(title, SockPaths[k])'
                 /\ step' = "tcp" => Kept(title)'
      <4>1. \A f : f.title = title /\ f.of = SockPaths[i] /\ Lasts(f) => f \in findings'
        BY <1>o, <2>3
      <4>2. \A k \in 1 .. Len(SockPaths) : k < i => KeptOf(title, SockPaths[k])
        BY <2>1 DEF ContainerKept
      <4>3. \A k \in 1 .. Len(SockPaths) : k <= i => KeptOf(title, SockPaths[k])'
        BY <1>i, <4>1, <4>2, ListKeeps
      <4> QED BY <1>i, <1>o, <2>1, <3>1, <4>3, NextOfGoes
    <3> QED BY <1>k, <2>1, <3>2 DEF ContainerKept
  <2> QED BY <2>2, <2>3
<1>2. CASE CheckSocket
  <2>1. step = "sockMode" /\ NextOf(SockPaths, "socket", "tcp")
    BY <1>2 DEF CheckSocket, Look
  <2>2. ASSUME NEW title \in {"worldSocket", "groupSocket"}, NEW f,
               f.title = title, f.of = SockPaths[i], Lasts(f)
        PROVE  f \in findings'
    <3>1. SockPaths[i] \in DOMAIN host.sock
      BY <1>o, <2>2
    <3>2. SocketFindings(SockPaths[i], host.sock[SockPaths[i]]) \subseteq findings'
      BY <1>2, <3>1 DEF CheckSocket, Report
    <3>3. CASE title = "worldSocket"
      <4>1. PICK s \in DOMAIN host.sock : 1 \in host.sock[s] /\ f = Finding("worldSocket", s, "CRITICAL")
        BY <1>l, <2>2, <3>3, ContainerTold
      <4>2. s = SockPaths[i]
        BY <2>2, <4>1 DEF Finding
      <4> QED BY <3>2, <4>1, <4>2 DEF SocketFindings
    <3>4. CASE title = "groupSocket"
      <4>1. PICK s \in DOMAIN host.sock :
                {1, 4} \cap host.sock[s] = {4} /\ f = Finding("groupSocket", s, "HIGH")
        BY <1>l, <2>2, <3>4, ContainerTold
      <4>2. s = SockPaths[i]
        BY <2>2, <4>1 DEF Finding
      <4>3. 1 \notin host.sock[s] /\ 4 \in host.sock[s]
        BY <4>1
      <4> QED BY <3>2, <4>1, <4>2, <4>3 DEF SocketFindings
    <3> QED BY <3>3, <3>4
  <2>3. ASSUME NEW title \in {"worldSocket", "groupSocket"}
        PROVE  /\ step' \in {"socket", "tcp"}
               /\ step' = "socket" => \A k \in 1 .. Len(SockPaths) :
                      k < i' => KeptOf(title, SockPaths[k])'
               /\ step' = "tcp" => Kept(title)'
    <3>1. \A k \in 1 .. Len(SockPaths) : k < i => KeptOf(title, SockPaths[k])
      BY <2>1 DEF ContainerKept
    <3>2. \A k \in 1 .. Len(SockPaths) : k <= i => KeptOf(title, SockPaths[k])'
      BY <1>i, <2>2, <3>1, ListKeeps
    <3> QED BY <1>i, <1>o, <2>1, <3>2, NextOfGoes
  <2> QED BY <1>k, <2>1, <2>3 DEF ContainerKept
<1>3. CASE CheckDockerTcp
  <2>1. step = "tcp" /\ step' = "environment"
    BY <1>3 DEF CheckDockerTcp, Decide, Goto
  <2>2. ASSUME NEW f, f.title = "dockerTcp", Lasts(f)
        PROVE  f \in findings'
    <3>1. PICK h \in seen : \E r \in RepliesOf(h, "tcp", i) : call.out = r[1] /\ call.rc = r[2]
      BY <1>3, AnswerIs DEF CheckDockerTcp
    <3>2. h.tool # "none" /\ "2375" \in h.tcp /\ f = Finding("dockerTcp", "2375", "CRITICAL")
      BY <1>l, <2>2, ContainerTold
    <3>3. RepliesOf(h, "tcp", i) = {<<{"header"} \cup h.tcp, 0>>}
      BY <3>2, ContainerSays
    <3>4. call.rc = 0 /\ "2375" \in call.out
      BY <3>1, <3>2, <3>3
    <3> QED BY <1>3, <3>2, <3>4 DEF CheckDockerTcp, Report
  <2>3. Kept("dockerTcp")'
    BY <2>2, KeptNow
  <2> QED BY <1>k, <2>1, <2>3 DEF ContainerKept
<1>4. CASE CheckEnvironment
  <2>1. step = "environment" /\ step' \in {"dev", "cloud"} /\ i' = 1
    BY <1>4 DEF CheckEnvironment, Look, Goto
  <2>2. ASSUME NEW f, f.title \in {"insideContainer", "privileged"}, Lasts(f)
        PROVE  /\ step' = "dev"
               /\ f.title = "insideContainer" => f \in findings'
    <3>1. host.marks \cap Indicators # {}
      BY <1>l, <2>2, ContainerTold
    <3>2. f.title = "insideContainer" => f = Finding("insideContainer", "environment", "INFO")
      BY <1>l, <2>2, ContainerTold
    <3> QED BY <1>4, <3>1, <3>2 DEF CheckEnvironment, Goto, Report
  <2>3. Kept("insideContainer")' /\ (step' = "cloud" => Kept("privileged")')
    BY <2>2, KeptNow
  <2> QED BY <1>k, <2>1, <2>3 DEF ContainerKept
<1>5. CASE CheckPrivileged
  <2>1. step = "dev" /\ step' = "cloud" /\ i' = 1
    BY <1>5 DEF CheckPrivileged, Look, Goto
  <2>2. ASSUME NEW f, f.title = "privileged", Lasts(f)
        PROVE  f \in findings'
    <3>1. host.marks \cap {"kmsg", "mem"} # {} /\ f = Finding("privileged", "dev", "CRITICAL")
      BY <1>l, <2>2, ContainerTold
    <3> QED BY <1>5, <3>1 DEF CheckPrivileged, Report
  <2>3. Kept("privileged")'
    BY <2>2, KeptNow
  <2> QED BY <1>k, <2>1, <2>3 DEF ContainerKept
<1>6. CASE CloudThere
  <2>1. step = "cloud"
    BY <1>6 DEF CloudThere, Look
  <2>2. CASE CloudFiles[i] \in DOMAIN host.cloud
    <3>1. step' = "cloudMode" /\ i' = i
      BY <1>6, <2>2 DEF CloudThere, Goto
    <3> QED BY <1>k, <2>1, <3>1 DEF ContainerKept
  <2>3. CASE CloudFiles[i] \notin DOMAIN host.cloud
    <3>1. NextOf(CloudFiles, "cloud", "imds")
      BY <1>6, <2>3 DEF CloudThere
    <3>2. \A f : f.title = "cloudFile" /\ f.of = CloudFiles[i] /\ Lasts(f) => f \in findings'
      BY <1>o, <2>3
    <3>3. \A k \in 1 .. Len(CloudFiles) : k < i => KeptOf("cloudFile", CloudFiles[k])
      BY <2>1 DEF ContainerKept
    <3>4. \A k \in 1 .. Len(CloudFiles) : k <= i => KeptOf("cloudFile", CloudFiles[k])'
      BY <1>i, <3>2, <3>3, ListKeeps
    <3>5. /\ step' \in {"cloud", "imds"}
          /\ step' = "cloud" => \A k \in 1 .. Len(CloudFiles) :
                 k < i' => KeptOf("cloudFile", CloudFiles[k])'
          /\ step' = "imds" => Kept("cloudFile")'
      <4>1. \A f : f.title = "cloudFile" /\ Lasts(f) => f.of \in Elements(CloudFiles)
        BY <1>o
      <4>2. i \in 1 .. Len(CloudFiles) /\ Len(CloudFiles) \in Nat
        BY <1>i, <2>1
      <4> QED BY <3>1, <3>4, <4>1, <4>2, CloudGoes
    <3> QED BY <1>k, <2>1, <3>5 DEF ContainerKept
  <2> QED BY <2>2, <2>3
<1>7. CASE CheckCloudFile
  <2>1. step = "cloudMode" /\ NextOf(CloudFiles, "cloud", "imds")
    BY <1>7 DEF CheckCloudFile, Look
  <2>2. ASSUME NEW f, f.title = "cloudFile", f.of = CloudFiles[i], Lasts(f)
        PROVE  f \in findings'
    <3>1. PICK file \in DOMAIN host.cloud :
              2 \in host.cloud[file] /\ f = Finding("cloudFile", file, "HIGH")
      BY <1>l, <2>2, ContainerTold
    <3>2. file = CloudFiles[i]
      BY <2>2, <3>1 DEF Finding
    <3>3. f = CloudFinding(file, host.cloud[file])
      BY <3>1 DEF CloudFinding
    <3> QED BY <1>7, <3>2, <3>3 DEF CheckCloudFile, Report
  <2>3. \A k \in 1 .. Len(CloudFiles) : k < i => KeptOf("cloudFile", CloudFiles[k])
    BY <2>1 DEF ContainerKept
  <2>4. \A k \in 1 .. Len(CloudFiles) : k <= i => KeptOf("cloudFile", CloudFiles[k])'
    BY <1>i, <2>2, <2>3, ListKeeps
  <2>5. /\ step' \in {"cloud", "imds"}
        /\ step' = "cloud" => \A k \in 1 .. Len(CloudFiles) :
               k < i' => KeptOf("cloudFile", CloudFiles[k])'
        /\ step' = "imds" => Kept("cloudFile")'
    <3>1. \A f : f.title = "cloudFile" /\ Lasts(f) => f.of \in Elements(CloudFiles)
      BY <1>o
    <3>2. i \in 1 .. Len(CloudFiles) /\ Len(CloudFiles) \in Nat
      BY <1>i, <2>1
    <3> QED BY <2>1, <2>4, <3>1, <3>2, CloudGoes
  <2> QED BY <1>k, <2>1, <2>5 DEF ContainerKept
<1>8. CASE CheckImds
  <2>1. step = "imds" /\ step' = "done"
    BY <1>8 DEF CheckImds, Decide, Goto
  <2>2. ASSUME NEW f, f.title = "imds", Lasts(f)
        PROVE  f \in findings'
    <3>1. PICK h \in seen : \E r \in RepliesOf(h, "imds", i) : call.out = r[1] /\ call.rc = r[2]
      BY <1>8, AnswerIs DEF CheckImds
    <3>2. h.imds # "none" /\ f = Finding("imds", "imds", "MEDIUM")
      BY <1>l, <2>2, ContainerTold
    <3>3. RepliesOf(h, "imds", i) = {<<{h.imds}, 0>>}
      BY <3>2, ContainerSays
    <3>4. call.rc = 0 /\ call.out = {h.imds}
      BY <3>1, <3>3
    <3> QED BY <1>8, <3>2, <3>4 DEF CheckImds, Report
  <2>3. Kept("imds")'
    BY <2>2, KeptNow
  <2> QED BY <1>k, <2>1, <2>3 DEF ContainerKept
<1> QED BY <1>1, <1>2, <1>3, <1>4, <1>5, <1>6, <1>7, <1>8 DEF ContainerRun

-----------------------------------------------------------------------------
(***************************************************************************)
(* redteam.                                                                *)
(***************************************************************************)
AfterLibraries   == {"uname", "cron", "done"}
AfterUnits       == {"libraries"} \cup AfterLibraries
AfterCredentials == {"history", "unitFiles"} \cup AfterUnits
AfterSda         == {"pid1ns", "selfns", "credentials"} \cup AfterCredentials
AfterSudo        == {"dockerSock", "inside", "sda"} \cup AfterSda
SecretTitles     == {"privateKey", "password"}
RedTeamKept ==
    /\ step \in {"sudoL"} \cup AfterSudo => Kept("writablePath")
    /\ step \in AfterSudo => Kept("sudoPrivesc")
    /\ step \in AfterSda => Kept("hostDevices")
    /\ \A title \in SecretTitles :
           /\ step = "credentials" =>
                  \A k \in 1 .. Len(CredentialOrder) : k < i => KeptOf(title, CredentialOrder[k])
           /\ step \in AfterCredentials => Kept(title)
    /\ step \in AfterUnits => Kept("writableUnit")
    /\ step \in AfterLibraries => Kept("libraryPath")
    /\ step = "done" => Kept("cronPath")

LEMMA RedTeamTold ==
    ASSUME NEW h, module = "redteam", NEW f \in Truth(h)
    PROVE  /\ f.title \in {"writablePath", "sudoPrivesc", "hostDevices", "privateKey", "password",
                          "writableUnit", "libraryPath", "cronPath"}
           /\ f.title = "writablePath" =>
                  Writable(h, "PATH") # {} /\ f = Finding("writablePath", "PATH", "HIGH")
           /\ f.title = "sudoPrivesc" => \E e \in h.sudo :
                  /\ SudoEntries[e].command \in PRIVESC_CMDS
                  /\ f = Finding("sudoPrivesc", SudoEntries[e].command, "CRITICAL")
           /\ f.title = "hostDevices" => /\ "sda" \in h.marks /\ h.marks \cap EscapeIndicators # {}
                                       /\ f = Finding("hostDevices", "sda", "CRITICAL")
           /\ f.title = "privateKey" => \E file \in Elements(CredentialOrder) \cap DOMAIN h.secrets :
                  "pemKey" \in h.secrets[file] /\ f = Finding("privateKey", file, "CRITICAL")
           /\ f.title = "password" => \E file \in Elements(CredentialOrder) \cap DOMAIN h.secrets :
                  "password" \in h.secrets[file] /\ f = Finding("password", file, "HIGH")
           /\ f.title = "writableUnit" => \E u \in Writable(h, "units") :
                  f = Finding("writableUnit", u, "CRITICAL")
           /\ f.title = "libraryPath" => \E d \in Writable(h, "ld.so.conf") :
                  f = Finding("libraryPath", d, "HIGH")
           /\ f.title = "cronPath" => \E d \in Writable(h, "crontab PATH") :
                  f = Finding("cronPath", d, "CRITICAL")
<1>1. f \in RedTeamTruth(h)
  BY DEF Truth
<1>2. \A list, place : Mine(h, list, place) <=> place \in Writable(h, list)
  BY DEF Mine, Writable
<1>3. \A title, of, sev : Finding(title, of, sev).title = title
  BY DEF Finding
<1>4. \/ /\ f.title = "writablePath"
         /\ Writable(h, "PATH") # {} /\ f = Finding("writablePath", "PATH", "HIGH")
      \/ /\ f.title = "sudoPrivesc"
         /\ \E e \in h.sudo : /\ SudoEntries[e].command \in PRIVESC_CMDS
                              /\ f = Finding("sudoPrivesc", SudoEntries[e].command, "CRITICAL")
      \/ /\ f.title = "hostDevices" /\ "sda" \in h.marks /\ h.marks \cap EscapeIndicators # {}
         /\ f = Finding("hostDevices", "sda", "CRITICAL")
      \/ /\ f.title = "privateKey"
         /\ \E file \in Elements(CredentialOrder) \cap DOMAIN h.secrets :
                "pemKey" \in h.secrets[file] /\ f = Finding("privateKey", file, "CRITICAL")
      \/ /\ f.title = "password"
         /\ \E file \in Elements(CredentialOrder) \cap DOMAIN h.secrets :
                "password" \in h.secrets[file] /\ f = Finding("password", file, "HIGH")
      \/ /\ f.title = "writableUnit"
         /\ \E u \in Writable(h, "units") : f = Finding("writableUnit", u, "CRITICAL")
      \/ /\ f.title = "libraryPath"
         /\ \E d \in Writable(h, "ld.so.conf") : f = Finding("libraryPath", d, "HIGH")
      \/ /\ f.title = "cronPath"
         /\ \E d \in Writable(h, "crontab PATH") : f = Finding("cronPath", d, "CRITICAL")
  <2>1. CASE f \in {Finding("writablePath", "PATH", "HIGH") :
                       d \in {d \in h.lists["PATH"] : Mine(h, "PATH", d)}}
    <3>1. Writable(h, "PATH") # {} /\ f = Finding("writablePath", "PATH", "HIGH")
      BY <1>2, <2>1
    <3>2. f.title = "writablePath"
      BY <1>3, <3>1, Zenon
    <3> QED BY <3>1, <3>2, Zenon
  <2>2. CASE f \in {Finding("sudoPrivesc", SudoEntries[e].command, "CRITICAL") : e \in {e \in h.sudo :
                       SudoEntries[e].allowed /\ SudoEntries[e].command \in PRIVESC_CMDS}}
    <3>1. PICK e \in h.sudo : /\ SudoEntries[e].command \in PRIVESC_CMDS
                              /\ f = Finding("sudoPrivesc", SudoEntries[e].command, "CRITICAL")
      BY <2>2
    <3>2. f.title = "sudoPrivesc"
      BY <1>3, <3>1, Zenon
    <3> QED BY <3>1, <3>2, Zenon
  <2>3. CASE f \in {Finding("hostDevices", "sda", "CRITICAL") :
                       x \in {x \in h.marks : "sda" \in h.marks /\ x \in EscapeIndicators}}
    <3>1. /\ "sda" \in h.marks /\ h.marks \cap EscapeIndicators # {}
          /\ f = Finding("hostDevices", "sda", "CRITICAL")
      BY <2>3
    <3>2. f.title = "hostDevices"
      BY <1>3, <3>1, Zenon
    <3> QED BY <3>1, <3>2, Zenon
  <2>4. CASE f \in {Finding("privateKey", k, "CRITICAL") :
            k \in {k \in Elements(CredentialOrder) \cap DOMAIN h.secrets : "pemKey" \in h.secrets[k]}}
    <3>1. PICK file \in Elements(CredentialOrder) \cap DOMAIN h.secrets :
              "pemKey" \in h.secrets[file] /\ f = Finding("privateKey", file, "CRITICAL")
      BY <2>4
    <3>2. f.title = "privateKey"
      BY <1>3, <3>1, Zenon
    <3> QED BY <3>1, <3>2, Zenon
  <2>5. CASE f \in {Finding("password", k, "HIGH") :
            k \in {k \in Elements(CredentialOrder) \cap DOMAIN h.secrets : "password" \in h.secrets[k]}}
    <3>1. PICK file \in Elements(CredentialOrder) \cap DOMAIN h.secrets :
              "password" \in h.secrets[file] /\ f = Finding("password", file, "HIGH")
      BY <2>5
    <3>2. f.title = "password"
      BY <1>3, <3>1, Zenon
    <3> QED BY <3>1, <3>2, Zenon
  <2>6. CASE f \in {Finding("writableUnit", u, "CRITICAL") :
                       u \in {u \in DOMAIN h.writes : Mine(h, "units", u)}}
    <3>1. PICK u \in Writable(h, "units") : f = Finding("writableUnit", u, "CRITICAL")
      BY <1>2, <2>6
    <3>2. f.title = "writableUnit"
      BY <1>3, <3>1, Zenon
    <3> QED BY <3>1, <3>2, Zenon
  <2>7. CASE f \in {Finding("libraryPath", d, "HIGH") :
                       d \in {d \in DOMAIN h.writes : Mine(h, "ld.so.conf", d)}}
    <3>1. PICK d \in Writable(h, "ld.so.conf") : f = Finding("libraryPath", d, "HIGH")
      BY <1>2, <2>7
    <3>2. f.title = "libraryPath"
      BY <1>3, <3>1, Zenon
    <3> QED BY <3>1, <3>2, Zenon
  <2>8. CASE f \in {Finding("cronPath", d, "CRITICAL") :
                       d \in {d \in DOMAIN h.writes : Mine(h, "crontab PATH", d)}}
    <3>1. PICK d \in Writable(h, "crontab PATH") : f = Finding("cronPath", d, "CRITICAL")
      BY <1>2, <2>8
    <3>2. f.title = "cronPath"
      BY <1>3, <3>1, Zenon
    <3> QED BY <3>1, <3>2, Zenon
  <2> QED BY <1>1, <2>1, <2>2, <2>3, <2>4, <2>5, <2>6, <2>7, <2>8 DEF RedTeamTruth
<1> QED BY <1>4, Zenon

\* The findings about what the user can write and others run, one title at a time.
LEMMA UnitTold ==
    ASSUME NEW h, module = "redteam", NEW f \in Truth(h), f.title = "writableUnit"
    PROVE  \E u \in Writable(h, "units") : f = Finding("writableUnit", u, "CRITICAL")
BY RedTeamTold, ZenonT(60)

LEMMA LibraryPathTold ==
    ASSUME NEW h, module = "redteam", NEW f \in Truth(h), f.title = "libraryPath"
    PROVE  \E d \in Writable(h, "ld.so.conf") : f = Finding("libraryPath", d, "HIGH")
BY RedTeamTold, ZenonT(60)

LEMMA CronPathTold ==
    ASSUME NEW h, module = "redteam", NEW f \in Truth(h), f.title = "cronPath"
    PROVE  \E d \in Writable(h, "crontab PATH") : f = Finding("cronPath", d, "CRITICAL")
BY RedTeamTold, ZenonT(60)

LEMMA RedTeamKeeps ==
    ASSUME Answered, unanswered = {}, InList, host \in seen,
           module = "redteam", RedTeamRun, RedTeamKept,
           UNCHANGED <<module, seen>>, findings \subseteq findings'
    PROVE  RedTeamKept'
<1> USE DEF AfterLibraries, AfterUnits, AfterCredentials, AfterSda, AfterSudo
<1>k. /\ \A title : Kept(title) => Kept(title)'
      /\ \A title, of : KeptOf(title, of) => KeptOf(title, of)'
  BY KeptStays
<1>l. \A f : Lasts(f) => \A h \in seen : f \in Truth(h)
  BY DEF Lasts
<1>i. /\ i \in Nat \ {0} /\ (step = "credentials" => i \in 1 .. Len(CredentialOrder))
      /\ Len(CredentialOrder) \in Nat
  BY Lengths DEF InList
<1>1. CASE CheckWritablePath
  <2>1. step = "envPath" /\ step' = "sudoL"
    BY <1>1 DEF CheckWritablePath, Look, Goto
  <2>2. ASSUME NEW f, f.title = "writablePath", Lasts(f)
        PROVE  f \in findings'
    <3>1. Writable(host, "PATH") # {} /\ f = Finding("writablePath", "PATH", "HIGH")
      BY <1>l, <2>2, RedTeamTold
    <3> QED BY <1>1, <3>1 DEF CheckWritablePath, Report
  <2>3. Kept("writablePath")'
    BY <2>2, KeptNow
  <2> QED BY <2>1, <2>3 DEF RedTeamKept
<1>2. CASE CheckSudoPrivesc
  <2>1. step = "sudoL" /\ step' = "dockerSock"
    BY <1>2 DEF CheckSudoPrivesc, Decide, Goto
  <2>2. ASSUME NEW f, f.title = "sudoPrivesc", Lasts(f)
        PROVE  f \in findings'
    <3>1. PICK h \in seen : \E r \in RepliesOf(h, "sudoL", i) : call.out = r[1] /\ call.rc = r[2]
      BY <1>2, AnswerIs DEF CheckSudoPrivesc
    <3>2. PICK e \in h.sudo : /\ SudoEntries[e].command \in PRIVESC_CMDS
                              /\ f = Finding("sudoPrivesc", SudoEntries[e].command, "CRITICAL")
      BY <1>l, <2>2, RedTeamTold
    <3>3. RepliesOf(h, "sudoL", i) = {<<h.sudo, 0>>}
      BY <3>2, RedTeamSays
    <3>4. call.rc = 0 /\ call.out = h.sudo
      BY <3>1, <3>3
    <3> QED BY <1>2, <3>2, <3>4 DEF CheckSudoPrivesc, Report
  <2>3. Kept("sudoPrivesc")'
    BY <2>2, KeptNow
  <2> QED BY <1>k, <2>1, <2>3 DEF RedTeamKept
<1>3. CASE CheckDockerSocket
  <2>1. step = "dockerSock" /\ step' = "inside"
    BY <1>3 DEF CheckDockerSocket, Look, Goto
  <2> QED BY <1>k, <2>1 DEF RedTeamKept
<1>4. CASE CheckInside
  <2>1. step = "inside" /\ step' \in {"sda", "credentials"} /\ i' = 1
    BY <1>4 DEF CheckInside, Look, Goto
  <2>2. ASSUME NEW f, f.title = "hostDevices", Lasts(f)
        PROVE  step' = "sda"
    <3>1. host.marks \cap EscapeIndicators # {}
      BY <1>l, <2>2, RedTeamTold
    <3> QED BY <1>4, <3>1 DEF CheckInside, Goto
  <2>3. step' = "credentials" => Kept("hostDevices")'
    BY <2>2, KeptNow
  <2> QED BY <1>k, <2>1, <2>3 DEF RedTeamKept
<1>5. CASE CheckDevices
  <2>1. step = "sda" /\ step' = "pid1ns"
    BY <1>5 DEF CheckDevices, Presence, Decide, Goto
  <2>2. ASSUME NEW f, f.title = "hostDevices", Lasts(f)
        PROVE  f \in findings'
    <3>1. PICK h \in seen : \E r \in RepliesOf(h, "sda", i) : call.out = r[1] /\ call.rc = r[2]
      BY <1>5, AnswerIs DEF CheckDevices, Presence
    <3>2. "sda" \in h.marks /\ f = Finding("hostDevices", "sda", "CRITICAL")
      BY <1>l, <2>2, RedTeamTold
    <3>3. RepliesOf(h, "sda", i) = {<<{"sda"}, 0>>}
      BY <3>2, RedTeamSays
    <3>4. call.out = {"sda"}
      BY <3>1, <3>3
    <3> QED BY <1>5, <3>2, <3>4 DEF CheckDevices, Presence, Report
  <2>3. Kept("hostDevices")'
    BY <2>2, KeptNow
  <2> QED BY <1>k, <2>1, <2>3 DEF RedTeamKept
<1>6. CASE ReadPid1 \/ ComparePid
  <2>1. step \in {"pid1ns", "selfns"} /\ step' \in {"selfns", "credentials"} /\ i' = 1
    BY <1>6 DEF ReadPid1, ComparePid, Decide, Goto
  <2> QED BY <1>k, <2>1 DEF RedTeamKept
<1>7. CASE CheckCredentialFile
  <2>1. step = "credentials" /\ NextOf(CredentialOrder, "credentials", "history")
    BY <1>7 DEF CheckCredentialFile, Look
  <2>n. PICK file : file = CredentialOrder[i]
    OBVIOUS
  <2>2. Judged(file, SecretRules, Secrets(file)) \subseteq findings'
    BY <1>7, <2>n DEF CheckCredentialFile, Report
  <2>3. /\ Rule("pemKey", TRUE, "privateKey", "CRITICAL") \in SecretRules
        /\ Rule("password", TRUE, "password", "HIGH") \in SecretRules
    BY DEF SecretRules
  <2>4. ASSUME NEW title \in SecretTitles, NEW f, f.title = title, f.of = file, Lasts(f)
        PROVE  f \in findings'
    <3>1. CASE title = "privateKey"
      <4>0. PICK k \in Elements(CredentialOrder) \cap DOMAIN host.secrets :
                "pemKey" \in host.secrets[k] /\ f = Finding("privateKey", k, "CRITICAL")
        BY <1>l, <2>4, <3>1, RedTeamTold
      <4>1. file \in DOMAIN host.secrets /\ "pemKey" \in host.secrets[file]
            /\ f = Finding("privateKey", file, "CRITICAL")
        BY <2>4, <4>0 DEF Finding
      <4>2. "pemKey" \in Secrets(file)
        BY <4>1 DEF Secrets
      <4> QED BY <2>2, <2>3, <4>1, <4>2, WordReports
    <3>2. CASE title = "password"
      <4>0. PICK k \in Elements(CredentialOrder) \cap DOMAIN host.secrets :
                "password" \in host.secrets[k] /\ f = Finding("password", k, "HIGH")
        BY <1>l, <2>4, <3>2, RedTeamTold
      <4>1. file \in DOMAIN host.secrets /\ "password" \in host.secrets[file]
            /\ f = Finding("password", file, "HIGH")
        BY <2>4, <4>0 DEF Finding
      <4>2. "password" \in Secrets(file)
        BY <4>1 DEF Secrets
      <4> QED BY <2>2, <2>3, <4>1, <4>2, WordReports
    <3> QED BY <3>1, <3>2 DEF SecretTitles
  <2>5. ASSUME NEW title \in SecretTitles
        PROVE  /\ step' \in {"credentials", "history"}
               /\ step' = "credentials" => \A k \in 1 .. Len(CredentialOrder) :
                      k < i' => KeptOf(title, CredentialOrder[k])'
               /\ step' = "history" => Kept(title)'
    <3>1. \A k \in 1 .. Len(CredentialOrder) : k < i => KeptOf(title, CredentialOrder[k])
      BY <2>1 DEF RedTeamKept
    <3>2. \A k \in 1 .. Len(CredentialOrder) : k <= i => KeptOf(title, CredentialOrder[k])'
      BY <1>i, <2>n, <2>4, <3>1, ListKeeps
    <3>3. \A f : f.title = title /\ Lasts(f) => f.of \in Elements(CredentialOrder)
      <4> SUFFICES ASSUME NEW f, f.title = title, Lasts(f) PROVE f.of \in Elements(CredentialOrder)
        OBVIOUS
      <4>1. f \in Truth(host)
        BY <1>l
      <4>2. \E k \in Elements(CredentialOrder) : \E sev : f = Finding(title, k, sev)
        <5>1. CASE title = "privateKey"
          <6>1. PICK k \in Elements(CredentialOrder) : f = Finding("privateKey", k, "CRITICAL")
            BY <4>1, <5>1, RedTeamTold
          <6> QED BY <5>1, <6>1, Zenon
        <5>2. CASE title = "password"
          <6>1. PICK k \in Elements(CredentialOrder) : f = Finding("password", k, "HIGH")
            BY <4>1, <5>2, RedTeamTold
          <6> QED BY <5>2, <6>1, Zenon
        <5> QED BY <5>1, <5>2 DEF SecretTitles
      <4> QED BY <4>2 DEF Finding
    <3> QED BY <1>i, <2>1, <3>2, <3>3, NextOfGoes
  <2> QED BY <1>k, <2>1, <2>5 DEF RedTeamKept, SecretTitles
<1>8. CASE CheckHistory
  <2>1. step = "history" /\ step' = "unitFiles"
    BY <1>8 DEF CheckHistory, Look, Goto
  <2> QED BY <1>k, <2>1 DEF RedTeamKept
<1>9. CASE CheckWritableServices
  <2>1. step = "unitFiles" /\ step' = "libraries"
    BY <1>9 DEF CheckWritableServices, Look, Goto
  <2>2. ASSUME NEW f, f.title = "writableUnit", Lasts(f)
        PROVE  f \in findings'
    <3>1. PICK u \in Writable(host, "units") : f = Finding("writableUnit", u, "CRITICAL")
      BY <1>l, <2>2, RedTeamTold
    <3> QED BY <1>9, <3>1 DEF CheckWritableServices, Report, Each
  <2>3. Kept("writableUnit")'
    BY <2>2, KeptNow
  <2> QED BY <1>k, <2>1, <2>3 DEF RedTeamKept
<1>10. CASE CheckLibraries
  <2>1. step = "libraries" /\ step' = "uname"
    BY <1>10 DEF CheckLibraries, Look, Goto
  <2>2. ASSUME NEW f, f.title = "libraryPath", Lasts(f)
        PROVE  f \in findings'
    <3>1. PICK d \in Writable(host, "ld.so.conf") : f = Finding("libraryPath", d, "HIGH")
      BY <1>l, <2>2, RedTeamTold
    <3> QED BY <1>10, <3>1 DEF CheckLibraries, Report, Each
  <2>3. Kept("libraryPath")'
    BY <2>2, KeptNow
  <2> QED BY <1>k, <2>1, <2>3 DEF RedTeamKept
<1>11. CASE CheckKernelExploits
  <2>1. step = "uname" /\ step' = "cron"
    BY <1>11 DEF CheckKernelExploits, Decide, Goto
  <2> QED BY <1>k, <2>1 DEF RedTeamKept
<1>12. CASE CheckCron
  <2>1. step = "cron" /\ step' = "done"
    BY <1>12 DEF CheckCron, Look, Goto
  <2>2. ASSUME NEW f, f.title = "cronPath", Lasts(f)
        PROVE  f \in findings'
    <3>0. f \in Truth(host)
      BY <1>l, <2>2
    <3>1. PICK d \in Writable(host, "crontab PATH") : f = Finding("cronPath", d, "CRITICAL")
      BY <2>2, <3>0, CronPathTold, Zenon
    <3>2. f \in Each("cronPath", "crontab PATH", "CRITICAL")
      BY <3>1 DEF Each
    <3>3. Each("cronPath", "crontab PATH", "CRITICAL") \subseteq findings'
      <4>1. Report(Each("cronDir", "cron", "CRITICAL") \cup Each("cronPath", "crontab PATH", "CRITICAL"),
                   {})
        BY <1>12 DEF CheckCron
      <4> QED BY <4>1 DEF Report
    <3> QED BY <3>2, <3>3
  <2>3. Kept("cronPath")'
    BY <2>2, KeptNow
  <2> QED BY <1>k, <2>1, <2>3 DEF RedTeamKept
<1> QED BY <1>1, <1>2, <1>3, <1>4, <1>5, <1>6, <1>7, <1>8, <1>9, <1>10, <1>11, <1>12 DEF RedTeamRun

-----------------------------------------------------------------------------
(***************************************************************************)
(* sysrecon.                                                               *)
(***************************************************************************)
AfterCrontab == {"lsmod", "mountList", "env", "done"}
AfterPs      == {"cronFiles", "crontab"} \cup AfterCrontab
AfterShadow  == {"ps"} \cup AfterPs
AfterPasswd  == {"shadow"} \cup AfterShadow
AfterArch    == {"passwd"} \cup AfterPasswd
SysReconKept ==
    /\ step \in {"uptime", "arch"} => \E h \in seen : held = h.kernel
    /\ step = "crontab" => \E h \in seen : held = h.cron
    /\ step \in AfterArch => Kept("outdatedKernel")
    /\ step \in AfterPasswd => Kept("uid0") /\ Kept("systemShell")
    /\ step \in AfterShadow => Kept("emptyPassword")
    /\ step \in AfterPs => Kept("suspicious")
    /\ step \in AfterCrontab => Kept("writableScript")
    /\ step = "done" => Kept("secretVariable")

LEMMA SysReconTold ==
    ASSUME NEW h, module = "sysrecon", NEW f \in Truth(h)
    PROVE  \/ /\ f.title = "outdatedKernel" /\ h.kernel \in OutdatedKernels
              /\ f = Finding("outdatedKernel", "kernel", "HIGH")
           \/ /\ f.title = "uid0" /\ f = Finding("uid0", "passwd", "CRITICAL")
              /\ \E u \in DOMAIN h.accounts \ {"root"} : Accounts[u].uid0
           \/ /\ f.title = "systemShell" /\ f = Finding("systemShell", f.of, "MEDIUM")
              /\ f.of \in DOMAIN h.accounts /\ Accounts[f.of].system /\ h.accounts[f.of] = "login"
           \/ /\ f.title = "emptyPassword" /\ f = Finding("emptyPassword", f.of, "CRITICAL")
              /\ f.of \in h.noPassword /\ h.root /\ DOMAIN h.accounts # {}
           \/ /\ f.title = "suspicious"
              /\ \E p \in Suspicious(h.procs) : f = Finding("suspicious", KeywordOf(p), "HIGH")
           \/ /\ f.title = "writableScript" /\ f = Finding("writableScript", f.of, "HIGH")
              /\ f.of \in DOMAIN h.writes /\ ~h.root
           \/ /\ f.title = "secretVariable" /\ f = Finding("secretVariable", f.of, "MEDIUM")
              /\ f.of \in h.env \cap SensitiveVariables
<1>1. \A title, of, sev : /\ Finding(title, of, sev).title = title
                          /\ Finding(title, of, sev).of = of
  BY DEF Finding
<1>2. CASE f \in {Finding("outdatedKernel", "kernel", "HIGH") : k \in {h.kernel} \cap OutdatedKernels}
  <2>1. f = Finding("outdatedKernel", "kernel", "HIGH") /\ h.kernel \in OutdatedKernels
    BY <1>2
  <2>2. f.title = "outdatedKernel"
    BY <1>1, <2>1, Zenon
  <2> QED BY <2>1, <2>2, Zenon
<1>3. CASE f \in {Finding("uid0", "passwd", "CRITICAL") :
                      u \in {u \in DOMAIN h.accounts \ {"root"} : Accounts[u].uid0}}
  <2>1. /\ f = Finding("uid0", "passwd", "CRITICAL")
        /\ \E u \in DOMAIN h.accounts \ {"root"} : Accounts[u].uid0
    BY <1>3
  <2>2. f.title = "uid0"
    BY <1>1, <2>1, Zenon
  <2> QED BY <2>1, <2>2, Zenon
<1>4. CASE f \in {Finding("systemShell", u, "MEDIUM") :
                      u \in {u \in DOMAIN h.accounts : Accounts[u].system /\ h.accounts[u] = "login"}}
  <2>1. PICK u \in DOMAIN h.accounts : /\ Accounts[u].system /\ h.accounts[u] = "login"
                                       /\ f = Finding("systemShell", u, "MEDIUM")
    BY <1>4
  <2>2. f.title = "systemShell" /\ f.of = u
    BY <2>1 DEF Finding
  <2> QED BY <2>1, <2>2, Zenon
<1>5. CASE f \in {Finding("emptyPassword", u, "CRITICAL") :
                      u \in {u \in h.noPassword : h.root /\ DOMAIN h.accounts # {}}}
  <2>1. PICK u \in h.noPassword : /\ h.root /\ DOMAIN h.accounts # {}
                                  /\ f = Finding("emptyPassword", u, "CRITICAL")
    BY <1>5
  <2>2. f.title = "emptyPassword" /\ f.of = u
    BY <2>1 DEF Finding
  <2>3. /\ f = Finding("emptyPassword", f.of, "CRITICAL")
        /\ f.of \in h.noPassword /\ h.root /\ DOMAIN h.accounts # {}
    BY <2>1, <2>2
  <2> QED BY <2>2, <2>3
<1>6. CASE f \in {Finding("suspicious", KeywordOf(p), "HIGH") :
                      p \in {p \in Suspicious(h.procs) : Processes[p].tool}}
  <2>1. PICK p \in Suspicious(h.procs) : f = Finding("suspicious", KeywordOf(p), "HIGH")
    BY <1>6
  <2>2. f.title = "suspicious"
    BY <1>1, <2>1, Zenon
  <2> QED BY <2>1, <2>2, Zenon
<1>7. CASE f \in {Finding("writableScript", s, "HIGH") :
                      s \in {s \in DOMAIN h.writes : RunsScript(h, s) /\ MayWrite(h, s)}}
  <2>1. PICK s \in DOMAIN h.writes : MayWrite(h, s) /\ f = Finding("writableScript", s, "HIGH")
    BY <1>7
  <2>2. f.title = "writableScript" /\ f.of = s /\ ~h.root
    BY <2>1 DEF Finding, MayWrite
  <2>3. f = Finding("writableScript", f.of, "HIGH") /\ f.of \in DOMAIN h.writes
    BY <2>1, <2>2
  <2> QED BY <2>2, <2>3
<1>8. CASE f \in {Finding("secretVariable", v, "MEDIUM") : v \in h.env \cap SensitiveVariables}
  <2>1. PICK v \in h.env \cap SensitiveVariables : f = Finding("secretVariable", v, "MEDIUM")
    BY <1>8
  <2>2. f.title = "secretVariable" /\ f.of = v
    BY <1>1, <2>1, Zenon
  <2>3. /\ f = Finding("secretVariable", f.of, "MEDIUM")
        /\ f.of \in h.env \cap SensitiveVariables
    BY <2>1, <2>2
  <2> QED BY <2>2, <2>3
<1>9. f \in SysReconTruth(h)
  BY DEF Truth
<1> QED BY <1>2, <1>3, <1>4, <1>5, <1>6, <1>7, <1>8, <1>9 DEF SysReconTruth

LEMMA SysReconKeeps ==
    ASSUME Answered, unanswered = {}, host \in seen, \A h \in seen : Machine(h),
           module = "sysrecon", SysReconRun, SysReconKept,
           UNCHANGED <<module, seen>>, findings \subseteq findings'
    PROVE  SysReconKept'
<1> USE DEF AfterCrontab, AfterPs, AfterShadow, AfterPasswd, AfterArch
<1>k. \A title : Kept(title) => Kept(title)'
  BY KeptStays
<1>l. \A f : Lasts(f) => \A h \in seen : f \in Truth(h)
  BY DEF Lasts
<1>1. CASE ReadKernel
  <2>1. step' = "uptime"
    BY <1>1 DEF ReadKernel, Goto
  <2>2. PICK h \in seen : \E r \in RepliesOf(h, "kernelName", i) : call.out = r[1] /\ call.rc = r[2]
    BY <1>1, AnswerIs DEF ReadKernel
  <2>3. call.out = {h.kernel}
    BY <2>2, SysReconSays
  <2>4. held' = h.kernel
    BY <1>1, <2>3 DEF ReadKernel
  <2> QED BY <2>1, <2>4 DEF SysReconKept
<1>2. CASE ReadUptime /\ UNCHANGED held
  <2>1. step = "uptime" /\ step' = "arch"
    BY <1>2 DEF ReadUptime, Decide, Goto
  <2> QED BY <1>2, <2>1 DEF SysReconKept
<1>3. CASE CheckOsInfo
  <2>1. step = "arch" /\ step' = "passwd"
    BY <1>3 DEF CheckOsInfo, Decide, Goto
  <2>2. ASSUME NEW f, f.title = "outdatedKernel", Lasts(f)
        PROVE  f \in findings'
    <3>1. PICK h \in seen : held = h.kernel
      BY <2>1 DEF SysReconKept
    <3>2. h.kernel \in OutdatedKernels /\ f = Finding("outdatedKernel", "kernel", "HIGH")
      BY <1>l, <2>2, SysReconTold
    <3> QED BY <1>3, <3>1, <3>2 DEF CheckOsInfo, Report
  <2>3. Kept("outdatedKernel")'
    BY <2>2, KeptNow
  <2> QED BY <2>1, <2>3 DEF SysReconKept
<1>4. CASE CheckAccounts
  <2>1. step = "passwd" /\ step' \in {"shadow", "ps"}
    BY <1>4 DEF CheckAccounts, Look, Goto
  <2>2. ASSUME NEW f, f.title = "uid0", Lasts(f)
        PROVE  f \in findings'
    <3>1. /\ f = Finding("uid0", "passwd", "CRITICAL")
          /\ \E u \in DOMAIN host.accounts \ {"root"} : Accounts[u].uid0
      BY <1>l, <2>2, SysReconTold
    <3> QED BY <1>4, <3>1 DEF CheckAccounts, Report
  <2>3. ASSUME NEW f, f.title = "systemShell", Lasts(f)
        PROVE  f \in findings'
    <3>1. /\ f = Finding("systemShell", f.of, "MEDIUM")
          /\ f.of \in DOMAIN host.accounts /\ Accounts[f.of].system /\ host.accounts[f.of] = "login"
      BY <1>l, <2>3, SysReconTold
    <3> QED BY <1>4, <3>1 DEF CheckAccounts, Report
  <2>4. ASSUME NEW f, f.title = "emptyPassword", Lasts(f)
        PROVE  step' = "shadow"
    <3>1. DOMAIN host.accounts # {}
      BY <1>l, <2>4, SysReconTold
    <3> QED BY <1>4, <3>1 DEF CheckAccounts, Goto
  <2>5. step' = "ps" => Kept("emptyPassword")'
    BY <2>4, KeptNow
  <2>6. Kept("uid0")' /\ Kept("systemShell")'
    BY <2>2, <2>3, KeptNow
  <2> QED BY <1>k, <2>1, <2>5, <2>6 DEF SysReconKept
<1>5. CASE CheckShadow
  <2>1. step = "shadow" /\ step' = "ps"
    BY <1>5 DEF CheckShadow, Look, Goto
  <2>2. ASSUME NEW f, f.title = "emptyPassword", Lasts(f)
        PROVE  f \in findings'
    <3>1. f = Finding("emptyPassword", f.of, "CRITICAL") /\ f.of \in host.noPassword /\ host.root
      BY <1>l, <2>2, SysReconTold
    <3> QED BY <1>5, <3>1 DEF CheckShadow, Report
  <2>3. Kept("emptyPassword")'
    BY <2>2, KeptNow
  <2> QED BY <1>k, <2>1, <2>3 DEF SysReconKept
<1>6. CASE CheckProcesses
  <2>1. step = "ps" /\ step' = "cronFiles"
    BY <1>6 DEF CheckProcesses, Decide, Goto
  <2>2. ASSUME NEW f, f.title = "suspicious", Lasts(f)
        PROVE  f \in findings'
    <3>1. PICK h \in seen : \E r \in RepliesOf(h, "ps", i) : call.out = r[1] /\ call.rc = r[2]
      BY <1>6, AnswerIs DEF CheckProcesses
    <3>2. PICK p \in Suspicious(h.procs) : f = Finding("suspicious", KeywordOf(p), "HIGH")
      BY <1>l, <2>2, SysReconTold
    <3>3. call.out = {"header"} \cup h.procs
      <4>1. RepliesOf(h, "ps", i) = {<<{"header"} \cup h.procs, 0>>}
        BY SysReconSays
      <4> QED BY <3>1, <4>1
    <3>4. p \in Suspicious(call.out \ {"header"})
      BY <3>2, <3>3, ProcessAssumption DEF Suspicious, Machine
    <3> QED BY <1>6, <3>2, <3>3, <3>4 DEF CheckProcesses, Report
  <2>3. Kept("suspicious")'
    BY <2>2, KeptNow
  <2> QED BY <1>k, <2>1, <2>3 DEF SysReconKept
<1>7. CASE ReadCronFiles
  <2>1. step = "cronFiles" /\ step' = "crontab" /\ held' = host.cron
    BY <1>7 DEF ReadCronFiles, Look, Goto
  <2> QED BY <1>k, <2>1 DEF SysReconKept
<1>8. CASE CheckCronScripts
  <2>1. step = "crontab" /\ step' = "lsmod"
    BY <1>8 DEF CheckCronScripts, Decide, Goto
  <2>2. ASSUME NEW f, f.title = "writableScript", Lasts(f)
        PROVE  f \in findings'
    <3>1. PICK h \in seen : \E r \in RepliesOf(h, "crontab", i) : call.out = r[1] /\ call.rc = r[2]
      BY <1>8, AnswerIs DEF CheckCronScripts
    <3>2. PICK g \in seen : held = g.cron
      BY <2>1 DEF SysReconKept
    <3>3. f = Finding("writableScript", f.of, "HIGH") /\ f.of \in DOMAIN host.writes /\ ~host.root
      BY <1>l, <2>2, SysReconTold
    <3>4. f.of \in Crontabs[g.cron] \/ f.of \in h.crontab
      BY <2>2 DEF Lasts, Moved, Sometime
    <3>5. f.of \in h.crontab => call.rc = 0 /\ call.out = h.crontab
      BY <3>1, SysReconSays
    <3>6. f.of \in Scripts(held, IF call.rc = 0 THEN call.out ELSE {})
      BY <3>2, <3>4, <3>5 DEF Scripts
    <3> QED BY <1>8, <3>3, <3>6 DEF CheckCronScripts, Report
  <2>3. Kept("writableScript")'
    BY <2>2, KeptNow
  <2> QED BY <1>k, <2>1, <2>3 DEF SysReconKept
<1>9. CASE CheckKernelModules \/ CheckMounts
  <2>1. step \in {"lsmod", "mountList"} /\ step' \in {"mountList", "env"}
    BY <1>9 DEF CheckKernelModules, CheckMounts, Presence, Decide, Goto
  <2> QED BY <1>k, <2>1 DEF SysReconKept
<1>10. CASE CheckEnvironmentVariables
  <2>1. step = "env" /\ step' = "done"
    BY <1>10 DEF CheckEnvironmentVariables, Look, Goto
  <2>2. ASSUME NEW f, f.title = "secretVariable", Lasts(f)
        PROVE  f \in findings'
    <3>1. f = Finding("secretVariable", f.of, "MEDIUM") /\ f.of \in host.env \cap SensitiveVariables
      BY <1>l, <2>2, SysReconTold
    <3> QED BY <1>10, <3>1 DEF CheckEnvironmentVariables, Report
  <2>3. Kept("secretVariable")'
    BY <2>2, KeptNow
  <2> QED BY <1>k, <2>1, <2>3 DEF SysReconKept
<1> QED BY <1>1, <1>2, <1>3, <1>4, <1>5, <1>6, <1>7, <1>8, <1>9, <1>10 DEF SysReconRun

-----------------------------------------------------------------------------
(***************************************************************************)
(* All modules.                                                            *)
(***************************************************************************)
TruthKept ==
    /\ module = "netaudit"  => NetKept
    /\ module = "hardening" => HardeningKept
    /\ module = "secaudit"  => SecKept
    /\ module = "container" => ContainerKept
    /\ module = "redteam"   => RedTeamKept
    /\ module = "sysrecon"  => SysReconKept
TruthInv == unanswered = {} => TruthKept

LEMMA TruthKeptStays ==
    ASSUME UNCHANGED <<module, step, i, held>>, seen \subseteq seen', findings \subseteq findings',
           TruthKept
    PROVE  TruthKept'
<1>k. /\ \A title : Kept(title) => Kept(title)'
      /\ \A title, of : KeptOf(title, of) => KeptOf(title, of)'
  BY KeptStays
<1>1. ASSUME module = "netaudit" PROVE NetKept'
  BY <1>k, <1>1 DEF TruthKept, NetKept
<1>2. ASSUME module = "hardening" PROVE HardeningKept'
  BY <1>k, <1>2 DEF TruthKept, HardeningKept
<1>3. ASSUME module = "secaudit" PROVE SecKept'
  BY <1>k, <1>3 DEF TruthKept, SecKept
<1>4. ASSUME module = "container" PROVE ContainerKept'
  BY <1>k, <1>4 DEF TruthKept, ContainerKept
<1>5. ASSUME module = "redteam" PROVE RedTeamKept'
  BY <1>k, <1>5 DEF TruthKept, RedTeamKept
<1>6. ASSUME module = "sysrecon" PROVE SysReconKept'
  BY <1>k, <1>6 DEF TruthKept, SysReconKept
<1> QED BY <1>1, <1>2, <1>3, <1>4, <1>5, <1>6 DEF TruthKept

\* Nothing has been looked for where a scan begins.
FirstPlace == module \in Modules /\ step = FirstStep[module] /\ i = 1

LEMMA TruthKeptFirst == FirstPlace => TruthKept
<1> SUFFICES ASSUME FirstPlace PROVE TruthKept
  OBVIOUS
<1> USE DEF FirstPlace
<1>1. ASSUME module = "netaudit" PROVE NetKept
  BY <1>1 DEF FirstStep, NetKept
<1>2. ASSUME module = "hardening" PROVE HardeningKept
  BY <1>2 DEF FirstStep, HardeningKept, AfterServices, AfterMount, AfterDumpable, AfterEnforce
<1>3. ASSUME module = "secaudit" PROVE SecKept
  BY <1>3 DEF FirstStep, SecKept, AfterFiles, InFiles, AfterSshd, AfterDirs, AfterWorld
<1>4. ASSUME module = "container" PROVE ContainerKept
  BY <1>4 DEF FirstStep, ContainerKept, InSockets, InClouds, AfterCloud, AfterDev, AfterTcp
<1>5. ASSUME module = "redteam" PROVE RedTeamKept
  BY <1>5 DEF FirstStep, RedTeamKept, AfterLibraries, AfterUnits, AfterCredentials, AfterSda,
              AfterSudo
<1>6. ASSUME module = "sysrecon" PROVE SysReconKept
  BY <1>6 DEF FirstStep, SysReconKept, AfterCrontab, AfterPs, AfterShadow, AfterPasswd, AfterArch
<1> QED BY <1>1, <1>2, <1>3, <1>4, <1>5, <1>6 DEF TruthKept

LEMMA CheckKeeps ==
    ASSUME FitInv, Answered, unanswered = {}, TruthKept, Check
    PROVE  TruthKept'
<1>1. /\ host \in seen /\ UNCHANGED <<hostvars, admin>> /\ findings \subseteq findings'
      /\ module = "netaudit"    => NetAuditRun
      /\ module = "hardening"   => HardeningRun
      /\ module = "secaudit"    => SecAuditRun
      /\ module = "container"   => ContainerRun
      /\ module = "redteam"     => RedTeamRun
      /\ module = "sysrecon"    => SysReconRun
  BY CheckOfModule DEF FitInv
<1>2. UNCHANGED <<module, seen>>
  BY <1>1 DEF hostvars, admin
<1>3. InList /\ \A h \in seen : Machine(h)
  BY DEF FitInv, Prepared, Typed
<1>4. ASSUME module = "netaudit" PROVE NetKept'
  BY <1>1, <1>2, <1>3, <1>4, NetKeeps DEF TruthKept
<1>5. ASSUME module = "hardening" PROVE HardeningKept'
  BY <1>1, <1>2, <1>3, <1>5, HardeningKeeps DEF TruthKept
<1>6. ASSUME module = "secaudit" PROVE SecKept'
  BY <1>1, <1>2, <1>3, <1>6, SecKeeps DEF TruthKept
<1>7. ASSUME module = "container" PROVE ContainerKept'
  BY <1>1, <1>2, <1>3, <1>7, ContainerKeeps DEF TruthKept
<1>8. ASSUME module = "redteam" PROVE RedTeamKept'
  BY <1>1, <1>2, <1>3, <1>8, RedTeamKeeps DEF TruthKept
<1>9. ASSUME module = "sysrecon" PROVE SysReconKept'
  BY <1>1, <1>2, <1>3, <1>9, SysReconKeeps DEF TruthKept
<1> QED BY <1>2, <1>4, <1>5, <1>6, <1>7, <1>8, <1>9 DEF TruthKept

LEMMA TruthNext == FitInv /\ Answered /\ TruthInv /\ [Next]_vars => TruthInv'
<1> SUFFICES ASSUME FitInv, Answered, TruthInv, [Next]_vars, unanswered' = {} PROVE TruthKept'
  BY DEF TruthInv
<1>0. Placed
  BY DEF FitInv
<1>1. CASE Ask \/ Reap \/ World
  <2>1. Waiting
    BY <1>1, CallsWait
  <2>2. unanswered \subseteq unanswered'
    BY <1>1 DEF Ask, Reap, World, Refuse, Reply, Hang, Expire, Outlive, RunCmd, Reaped, Raises, Hangs,
                Completes, TimeoutExpired, OrphanEnds
  <2>3. TruthKept
    BY <2>2 DEF TruthInv
  <2> QED BY <2>1, <2>3, TruthKeptStays DEF Waiting, hostvars, admin
<1>2. CASE Check
  <2>1. unanswered = {}
    BY <1>2, CheckAsksNothing
  <2> QED BY <1>2, <2>1, CheckKeeps DEF TruthInv
<1>3. CASE MachineChanges \/ Remedy \/ UNCHANGED vars
  <2>1. /\ UNCHANGED <<module, step, i, held, findings, unanswered>> /\ seen \subseteq seen'
    BY <1>3 DEF MachineChanges, Remedy, vars, helpervars, hostvars, admin
  <2> QED BY <2>1, TruthKeptStays DEF TruthInv
<1>4. CASE Rescan
  <2>1. FirstPlace'
    BY <1>0, <1>4 DEF Rescan, Placed, FirstPlace
  <2> QED BY <2>1, TruthKeptFirst, PTL
<1> QED BY <1>1, <1>2, <1>3, <1>4 DEF Next, Thread, Stay

\* When the scan is done, everything has been looked for.
LEMMA LastedIsFound ==
    ASSUME TruthKept, step = "done", NEW f, Lasts(f), seen # {}
    PROVE  f \in findings
<1>1. PICK h \in seen : f \in Truth(h)
  BY DEF Lasts
<1>2. CASE module = "netaudit"
  <2>1. f.title \in {"dangerousPort", "defaultAccept", "publicDns", "promiscuous", "forwarding",
                     "arpSpoofing"}
    BY <1>1, <1>2, NetTold
  <2> QED BY <1>2, <2>1 DEF TruthKept, NetKept, Kept
<1>3. CASE module = "hardening"
  <2>1. f.title \in {"kernel", "selinuxPermissive", "suidDumpable", "service", "tmpShared",
                     "tmpOptions"}
    BY <1>1, <1>3, HardeningTold
  <2> QED BY <1>3, <2>1 DEF TruthKept, HardeningKept, Kept, AfterServices, AfterMount, AfterDumpable,
                            AfterEnforce
<1>4. CASE module = "secaudit"
  <2>1. f.title \in {"gtfobin", "danger", "ssh", "wrongOwner"}
    BY <1>1, <1>4, SecTold
  <2>2. f.title = "danger" => f.of \in {"worldFiles", "worldDirs", "unowned"}
    BY <1>1, <1>4, SecTold DEF SecDangers, Finding
  <2> QED BY <1>4, <2>1, <2>2 DEF TruthKept, SecKept, Kept, KeptOf, AfterFiles, AfterSshd, AfterDirs,
                                  AfterWorld
<1>5. CASE module = "container"
  <2>1. f.title \in {"worldSocket", "groupSocket", "dockerTcp", "insideContainer", "privileged",
                     "cloudFile", "imds"}
    BY <1>1, <1>5, ContainerTold
  <2> QED BY <1>5, <2>1 DEF TruthKept, ContainerKept, Kept, AfterCloud, AfterDev, AfterTcp
<1>6. CASE module = "redteam"
  <2>1. f.title \in {"writablePath", "sudoPrivesc", "hostDevices", "privateKey", "password",
                     "writableUnit", "libraryPath", "cronPath"}
    BY <1>1, <1>6, RedTeamTold
  <2> QED BY <1>6, <2>1 DEF TruthKept, RedTeamKept, Kept, SecretTitles, AfterLibraries, AfterUnits,
                            AfterCredentials, AfterSda, AfterSudo
<1>7. CASE module = "sysrecon"
  <2>1. f.title \in {"outdatedKernel", "uid0", "systemShell", "emptyPassword", "suspicious",
                     "writableScript", "secretVariable"}
    BY <1>1, <1>7, SysReconTold
  <2> QED BY <1>7, <2>1 DEF TruthKept, SysReconKept, Kept, AfterCrontab, AfterPs, AfterShadow,
                            AfterPasswd, AfterArch
<1> QED BY <1>1, <1>2, <1>3, <1>4, <1>5, <1>6, <1>7 DEF Truth

(***************************************************************************)
(* Nothing is missed: when a scan has ended whose commands all answered,   *)
(* whatever was true of the machine all along is among its findings; but   *)
(* for a script that moved between the crontabs (xping/modules/*.py).      *)
(***************************************************************************)
THEOREM MissesNothing == Spec => []NothingMissed
<1>1. Init => Answered /\ TruthInv
  <2> SUFFICES ASSUME Init PROVE Answered /\ TruthKept
    BY DEF TruthInv
  <2>1. Answered
    BY DEF Init, Answered, Idle
  <2>2. TruthKept
    BY PlacedInit, TruthKeptFirst DEF Init, Placed, FirstPlace
  <2> QED BY <2>1, <2>2
<1>2. FitInv /\ Answered /\ TruthInv /\ [Next]_vars => (Answered /\ TruthInv)'
  BY AnsweredNext, TruthNext DEF FitInv
<1>3. FitInv /\ TruthInv => NothingMissed
  <2> SUFFICES ASSUME TruthInv, Done, unanswered = {}, NEW f, NEW g \in seen,
                      \A h \in seen : f \in Truth(h), ~Moved(f)
               PROVE  f \in findings
    BY DEF NothingMissed, Throughout
  <2> QED BY LastedIsFound DEF TruthInv, Done, Lasts
<1> QED BY <1>1, <1>2, <1>3, FitInvAlways, PTL DEF Spec

-----------------------------------------------------------------------------
(***************************************************************************)
(* Remediations.  A finding's holds on a machine when what it reports is   *)
(* no longer there; a machine eased is one with some of it taken away.     *)
(***************************************************************************)
Remediable(f) ==
    /\ f.title \in Fixes
    /\ f.title = "kernel" => f.of \in Parameters
    /\ f.title = "service" => f.of \in UNNECESSARY_SERVICES
    /\ f.title \in {"permissive", "wrongOwner"} => f.of \in DOMAIN SENSITIVE_FILES
Holds(f, h) ==
    /\ f.title = "promiscuous"  => "promisc" \notin h.dangers
    /\ f.title = "forwarding"   => h.files["ip_forward"] = {"0"}
    /\ f.title = "kernel"       =>
           \A p \in Elements(KERNEL_CHECKS) : p.name = f.of => h.param[p.name] = p.set
    /\ f.title = "suidDumpable" => h.files["suid_dumpable"] = {"0"}
    /\ f.title = "coreDumps"    => "core" \in h.files["limits.conf"]
    /\ f.title = "usbStorage"   => "usb-storage" \in h.files["modprobe.d"]
    /\ f.title = "noNtp"        => "NTP=yes" \in h.units
    /\ f.title = "service"      => f.of \notin h.units
    /\ f.title = "gtfobin" /\ f.of \in h.setid => ~Binaries[f.of].setuid
    /\ f.title = "danger"       => f.of \notin h.dangers
    /\ f.title = "permissive"   => h.mode[f.of] = SENSITIVE_FILES[f.of]
    /\ f.title = "wrongOwner"   => h.owner[f.of] = "root"
    /\ f.title = "worldSocket" /\ f.of \in DOMAIN h.sock => h.sock[f.of] = {8, 7, 5, 4}
    /\ f.title = "cloudFile" /\ f.of \in DOMAIN h.cloud => h.cloud[f.of] = {8, 7}
    /\ f.title \in {"writableUnit", "cronDir", "writableScript"} => f.of \notin DOMAIN h.writes
    /\ f.title \in {"libraryPath", "cronPath"} /\ f.of \in DOMAIN h.writes => h.writes[f.of] = "owner"
    /\ f.title = "history"       => f.of \notin DOMAIN h.secrets
    /\ f.title = "systemShell" /\ f.of \in DOMAIN h.accounts => h.accounts[f.of] = "nologin"
    /\ f.title = "emptyPassword" => f.of \notin h.noPassword
Eased(h, n) ==
    /\ n.dangers \subseteq h.dangers /\ n.setid \subseteq h.setid /\ n.noPassword \subseteq h.noPassword
    /\ n.units \cap UNNECESSARY_SERVICES \subseteq h.units
    /\ "NTP=yes" \in h.units => "NTP=yes" \in n.units
    /\ \A s \in {"ip_forward", "suid_dumpable"} : n.files[s] \in {h.files[s], {"0"}}
    /\ \A s \in {"limits.conf", "modprobe.d"} : h.files[s] \subseteq n.files[s]
    /\ \A p \in Elements(KERNEL_CHECKS) : n.param[p.name] \in {h.param[p.name], p.set}
    /\ \A s \in DOMAIN SENSITIVE_FILES : /\ n.mode[s] \in {h.mode[s], SENSITIVE_FILES[s]}
                                        /\ n.owner[s] \in {h.owner[s], "root"}
    /\ \A s \in DOMAIN n.sock : s \in DOMAIN h.sock /\ n.sock[s] \in {h.sock[s], {8, 7, 5, 4}}
    /\ \A s \in DOMAIN n.cloud : s \in DOMAIN h.cloud /\ n.cloud[s] \in {h.cloud[s], {8, 7}}
    /\ \A u \in DOMAIN n.accounts :
           u \in DOMAIN h.accounts /\ n.accounts[u] \in {h.accounts[u], "nologin"}
    /\ \A s \in DOMAIN n.writes : s \in DOMAIN h.writes /\ n.writes[s] = h.writes[s]
    /\ DOMAIN n.secrets \subseteq DOMAIN h.secrets

LEMMA HoldsOn ==
    ASSUME NEW f, Remediable(f), NEW h, NEW n, Holds(f, h), Eased(h, n)
    PROVE  Holds(f, n)
<1>1. /\ f.title = "promiscuous" => "promisc" \notin n.dangers
      /\ f.title = "danger" => f.of \notin n.dangers
      /\ f.title = "emptyPassword" => f.of \notin n.noPassword
  BY DEF Holds, Eased
<1>2. /\ f.title = "forwarding" => n.files["ip_forward"] = {"0"}
      /\ f.title = "suidDumpable" => n.files["suid_dumpable"] = {"0"}
      /\ f.title = "coreDumps" => "core" \in n.files["limits.conf"]
      /\ f.title = "usbStorage" => "usb-storage" \in n.files["modprobe.d"]
  BY DEF Holds, Eased
<1>3. f.title = "kernel" => \A p \in Elements(KERNEL_CHECKS) : p.name = f.of => n.param[p.name] = p.set
  BY DEF Holds, Eased
<1>4. /\ f.title = "noNtp" => "NTP=yes" \in n.units
      /\ f.title = "service" => f.of \notin n.units
  BY DEF Holds, Eased, Remediable
<1>5. f.title = "gtfobin" /\ f.of \in n.setid => ~Binaries[f.of].setuid
  BY DEF Holds, Eased
<1>6. /\ f.title = "permissive" => n.mode[f.of] = SENSITIVE_FILES[f.of]
      /\ f.title = "wrongOwner" => n.owner[f.of] = "root"
  BY DEF Holds, Eased, Remediable
<1>7. /\ f.title = "worldSocket" /\ f.of \in DOMAIN n.sock => n.sock[f.of] = {8, 7, 5, 4}
      /\ f.title = "cloudFile" /\ f.of \in DOMAIN n.cloud => n.cloud[f.of] = {8, 7}
      /\ f.title = "systemShell" /\ f.of \in DOMAIN n.accounts => n.accounts[f.of] = "nologin"
  BY DEF Holds, Eased
<1>8. /\ f.title \in {"writableUnit", "cronDir", "writableScript"} => f.of \notin DOMAIN n.writes
      /\ f.title \in {"libraryPath", "cronPath"} /\ f.of \in DOMAIN n.writes => n.writes[f.of] = "owner"
      /\ f.title = "history" => f.of \notin DOMAIN n.secrets
  BY DEF Holds, Eased
<1> QED BY <1>1, <1>2, <1>3, <1>4, <1>5, <1>6, <1>7, <1>8, Zenon DEF Holds

(***************************************************************************)
(* Each part of a machine that remediations change eases it.               *)
(***************************************************************************)
LEMMA EasedDangers ==
    ASSUME NEW h, Machine(h), NEW v \in SUBSET h.dangers
    PROVE  [h EXCEPT !.dangers = v].dangers = v /\ Eased(h, [h EXCEPT !.dangers = v])
BY DEF Machine, Eased

LEMMA EasedSetid ==
    ASSUME NEW h, Machine(h), NEW v \in SUBSET h.setid
    PROVE  [h EXCEPT !.setid = v].setid = v /\ Eased(h, [h EXCEPT !.setid = v])
BY DEF Machine, Eased

LEMMA EasedNoPassword ==
    ASSUME NEW h, Machine(h), NEW v \in SUBSET h.noPassword
    PROVE  [h EXCEPT !.noPassword = v].noPassword = v /\ Eased(h, [h EXCEPT !.noPassword = v])
BY DEF Machine, Eased

LEMMA EasedUnits ==
    ASSUME NEW h, Machine(h), NEW v, v \cap UNNECESSARY_SERVICES \subseteq h.units,
           "NTP=yes" \in h.units => "NTP=yes" \in v
    PROVE  [h EXCEPT !.units = v].units = v /\ Eased(h, [h EXCEPT !.units = v])
BY DEF Machine, Eased

LEMMA EasedFiles ==
    ASSUME NEW h, Machine(h), NEW v,
           \A s \in {"ip_forward", "suid_dumpable"} : v[s] \in {h.files[s], {"0"}},
           \A s \in {"limits.conf", "modprobe.d"} : h.files[s] \subseteq v[s]
    PROVE  [h EXCEPT !.files = v].files = v /\ Eased(h, [h EXCEPT !.files = v])
BY DEF Machine, Eased

LEMMA EasedParam ==
    ASSUME NEW h, Machine(h), NEW v,
           \A p \in Elements(KERNEL_CHECKS) : v[p.name] \in {h.param[p.name], p.set}
    PROVE  [h EXCEPT !.param = v].param = v /\ Eased(h, [h EXCEPT !.param = v])
BY DEF Machine, Eased

LEMMA EasedMode ==
    ASSUME NEW h, Machine(h), NEW v,
           \A s \in DOMAIN SENSITIVE_FILES : v[s] \in {h.mode[s], SENSITIVE_FILES[s]}
    PROVE  [h EXCEPT !.mode = v].mode = v /\ Eased(h, [h EXCEPT !.mode = v])
BY DEF Machine, Eased

LEMMA EasedOwner ==
    ASSUME NEW h, Machine(h), NEW v, \A s \in DOMAIN SENSITIVE_FILES : v[s] \in {h.owner[s], "root"}
    PROVE  [h EXCEPT !.owner = v].owner = v /\ Eased(h, [h EXCEPT !.owner = v])
BY DEF Machine, Eased

LEMMA EasedSock ==
    ASSUME NEW h, Machine(h), NEW v,
           \A s \in DOMAIN v : s \in DOMAIN h.sock /\ v[s] \in {h.sock[s], {8, 7, 5, 4}}
    PROVE  [h EXCEPT !.sock = v].sock = v /\ Eased(h, [h EXCEPT !.sock = v])
BY DEF Machine, Eased

LEMMA EasedCloud ==
    ASSUME NEW h, Machine(h), NEW v,
           \A s \in DOMAIN v : s \in DOMAIN h.cloud /\ v[s] \in {h.cloud[s], {8, 7}}
    PROVE  [h EXCEPT !.cloud = v].cloud = v /\ Eased(h, [h EXCEPT !.cloud = v])
BY DEF Machine, Eased

LEMMA EasedAccounts ==
    ASSUME NEW h, Machine(h), NEW v,
           \A u \in DOMAIN v : u \in DOMAIN h.accounts /\ v[u] \in {h.accounts[u], "nologin"}
    PROVE  [h EXCEPT !.accounts = v].accounts = v /\ Eased(h, [h EXCEPT !.accounts = v])
BY DEF Machine, Eased

LEMMA EasedWrites ==
    ASSUME NEW h, Machine(h), NEW v, \A s \in DOMAIN v : s \in DOMAIN h.writes /\ v[s] = h.writes[s]
    PROVE  [h EXCEPT !.writes = v].writes = v /\ Eased(h, [h EXCEPT !.writes = v])
BY DEF Machine, Eased

LEMMA EasedSecrets ==
    ASSUME NEW h, Machine(h), NEW v, DOMAIN v \subseteq DOMAIN h.secrets
    PROVE  [h EXCEPT !.secrets = v].secrets = v /\ Eased(h, [h EXCEPT !.secrets = v])
BY DEF Machine, Eased

LEMMA NetFixedHolds ==
    ASSUME NEW h, Machine(h), NEW f, f.title \in NetFixes
    PROVE  Holds(f, NetFixed(f, h)) /\ Eased(h, NetFixed(f, h))
<1>1. CASE f.title = "promiscuous"
  <2> DEFINE v == h.dangers \ {"promisc"}
  <2>1. NetFixed(f, h) = [h EXCEPT !.dangers = v]
    BY <1>1 DEF NetFixed
  <2>2. [h EXCEPT !.dangers = v].dangers = v /\ Eased(h, [h EXCEPT !.dangers = v])
    BY EasedDangers
  <2> QED BY <1>1, <2>1, <2>2 DEF Holds
<1>2. CASE f.title = "forwarding"
  <2> DEFINE v == [h.files EXCEPT !["ip_forward"] = {"0"}]
  <2>1. NetFixed(f, h) = [h EXCEPT !.files = v]
    BY <1>2 DEF NetFixed
  <2>2. v["ip_forward"] = {"0"} /\ \A s \in WordFiles \ {"ip_forward"} : v[s] = h.files[s]
    BY DEF Machine, WordFiles
  <2> HIDE DEF v
  <2>3. [h EXCEPT !.files = v].files = v /\ Eased(h, [h EXCEPT !.files = v])
    BY <2>2, EasedFiles DEF WordFiles
  <2> QED BY <1>2, <2>1, <2>2, <2>3 DEF Holds
<1> QED BY <1>1, <1>2 DEF NetFixes

LEMMA HardeningFixedHolds ==
    ASSUME NEW h, Machine(h), NEW f, Remediable(f), f.title \in HardeningFixes
    PROVE  Holds(f, HardeningFixed(f, h)) /\ Eased(h, HardeningFixed(f, h))
<1>1. CASE f.title = "kernel"
  <2> DEFINE p == CHOOSE p \in {KERNEL_CHECKS[k] : k \in 1 .. Len(KERNEL_CHECKS)} : p.name = f.of
             v == [h.param EXCEPT ![p.name] = p.set]
  <2>1. HardeningFixed(f, h) = [h EXCEPT !.param = v]
    BY <1>1 DEF HardeningFixed
  <2>2. p \in Elements(KERNEL_CHECKS) /\ p.name = f.of /\ f.of \in Parameters
    BY <1>1, ParameterOf DEF Remediable
  <2> HIDE DEF p
  <2>3. \A q \in Elements(KERNEL_CHECKS) : q.name = f.of => q = p
    BY <2>2, NamesApart DEF Elements
  <2>4. DOMAIN h.param = Parameters /\ \A q \in Elements(KERNEL_CHECKS) : q.name \in Parameters
    BY DEF Machine, Parameters
  <2>5. v[f.of] = p.set /\ \A s \in Parameters \ {f.of} : v[s] = h.param[s]
    BY <2>2, <2>4
  <2> HIDE DEF v
  <2>6. \A q \in Elements(KERNEL_CHECKS) : v[q.name] \in {h.param[q.name], q.set}
    BY <2>3, <2>4, <2>5
  <2>7. [h EXCEPT !.param = v].param = v /\ Eased(h, [h EXCEPT !.param = v])
    BY <2>6, EasedParam
  <2> QED BY <1>1, <2>1, <2>3, <2>5, <2>7 DEF Holds
<1>2. CASE f.title = "suidDumpable"
  <2> DEFINE v == [h.files EXCEPT !["suid_dumpable"] = {"0"}]
  <2>1. HardeningFixed(f, h) = [h EXCEPT !.files = v]
    BY <1>2 DEF HardeningFixed
  <2>2. v["suid_dumpable"] = {"0"} /\ \A s \in WordFiles \ {"suid_dumpable"} : v[s] = h.files[s]
    BY DEF Machine, WordFiles
  <2> HIDE DEF v
  <2>3. [h EXCEPT !.files = v].files = v /\ Eased(h, [h EXCEPT !.files = v])
    BY <2>2, EasedFiles DEF WordFiles
  <2> QED BY <1>2, <2>1, <2>2, <2>3 DEF Holds
<1>3. CASE f.title = "coreDumps"
  <2> DEFINE v == [h.files EXCEPT !["limits.conf"] = h.files["limits.conf"] \cup {"core"}]
  <2>1. HardeningFixed(f, h) = [h EXCEPT !.files = v]
    BY <1>3 DEF HardeningFixed
  <2>2. /\ v["limits.conf"] = h.files["limits.conf"] \cup {"core"}
        /\ \A s \in WordFiles \ {"limits.conf"} : v[s] = h.files[s]
    BY DEF Machine, WordFiles
  <2> HIDE DEF v
  <2>3. [h EXCEPT !.files = v].files = v /\ Eased(h, [h EXCEPT !.files = v])
    BY <2>2, EasedFiles DEF WordFiles
  <2> QED BY <1>3, <2>1, <2>2, <2>3 DEF Holds
<1>4. CASE f.title = "usbStorage"
  <2> DEFINE v == [h.files EXCEPT !["modprobe.d"] = h.files["modprobe.d"] \cup {"usb-storage"}]
  <2>1. HardeningFixed(f, h) = [h EXCEPT !.files = v]
    BY <1>4 DEF HardeningFixed
  <2>2. /\ v["modprobe.d"] = h.files["modprobe.d"] \cup {"usb-storage"}
        /\ \A s \in WordFiles \ {"modprobe.d"} : v[s] = h.files[s]
    BY DEF Machine, WordFiles
  <2> HIDE DEF v
  <2>3. [h EXCEPT !.files = v].files = v /\ Eased(h, [h EXCEPT !.files = v])
    BY <2>2, EasedFiles DEF WordFiles
  <2> QED BY <1>4, <2>1, <2>2, <2>3 DEF Holds
<1>5. CASE f.title = "noNtp"
  <2> DEFINE v == h.units \cup {"NTP=yes"}
  <2>1. HardeningFixed(f, h) = [h EXCEPT !.units = v]
    BY <1>5 DEF HardeningFixed
  <2>2. [h EXCEPT !.units = v].units = v /\ Eased(h, [h EXCEPT !.units = v])
    BY EasedUnits DEF UNNECESSARY_SERVICES
  <2> QED BY <1>5, <2>1, <2>2 DEF Holds
<1>6. CASE f.title = "service"
  <2> DEFINE v == h.units \ {f.of}
  <2>1. HardeningFixed(f, h) = [h EXCEPT !.units = v]
    BY <1>6 DEF HardeningFixed
  <2>2. [h EXCEPT !.units = v].units = v /\ Eased(h, [h EXCEPT !.units = v])
    BY <1>6, EasedUnits DEF Remediable, UNNECESSARY_SERVICES
  <2> QED BY <1>6, <2>1, <2>2 DEF Holds
<1> QED BY <1>1, <1>2, <1>3, <1>4, <1>5, <1>6 DEF HardeningFixes

LEMMA SecFixedHolds ==
    ASSUME NEW h, Machine(h), NEW f, Remediable(f), f.title \in SecFixes
    PROVE  Holds(f, SecFixed(f, h)) /\ Eased(h, SecFixed(f, h))
<1>1. CASE f.title = "gtfobin"
  <2> DEFINE v == h.setid \ {b \in {f.of} : Binaries[b].setuid}
  <2>1. SecFixed(f, h) = [h EXCEPT !.setid = v]
    BY <1>1 DEF SecFixed
  <2>2. [h EXCEPT !.setid = v].setid = v /\ Eased(h, [h EXCEPT !.setid = v])
    BY EasedSetid
  <2> QED BY <1>1, <2>1, <2>2 DEF Holds
<1>2. CASE f.title = "danger"
  <2> DEFINE v == h.dangers \ {f.of}
  <2>1. SecFixed(f, h) = [h EXCEPT !.dangers = v]
    BY <1>2 DEF SecFixed
  <2>2. [h EXCEPT !.dangers = v].dangers = v /\ Eased(h, [h EXCEPT !.dangers = v])
    BY EasedDangers
  <2> QED BY <1>2, <2>1, <2>2 DEF Holds
<1>3. CASE f.title = "permissive"
  <2> DEFINE v == [h.mode EXCEPT ![f.of] = SENSITIVE_FILES[f.of]]
  <2>1. SecFixed(f, h) = [h EXCEPT !.mode = v]
    BY <1>3 DEF SecFixed
  <2>2. /\ v[f.of] = SENSITIVE_FILES[f.of]
        /\ \A s \in DOMAIN SENSITIVE_FILES \ {f.of} : v[s] = h.mode[s]
    BY <1>3 DEF Machine, Remediable
  <2> HIDE DEF v
  <2>3. [h EXCEPT !.mode = v].mode = v /\ Eased(h, [h EXCEPT !.mode = v])
    BY <2>2, EasedMode
  <2> QED BY <1>3, <2>1, <2>2, <2>3 DEF Holds
<1>4. CASE f.title = "wrongOwner"
  <2> DEFINE v == [h.owner EXCEPT ![f.of] = "root"]
  <2>1. SecFixed(f, h) = [h EXCEPT !.owner = v]
    BY <1>4 DEF SecFixed
  <2>2. v[f.of] = "root" /\ \A s \in DOMAIN SENSITIVE_FILES \ {f.of} : v[s] = h.owner[s]
    BY <1>4 DEF Machine, Remediable
  <2> HIDE DEF v
  <2>3. [h EXCEPT !.owner = v].owner = v /\ Eased(h, [h EXCEPT !.owner = v])
    BY <2>2, EasedOwner
  <2> QED BY <1>4, <2>1, <2>2, <2>3 DEF Holds
<1> QED BY <1>1, <1>2, <1>3, <1>4 DEF SecFixes

LEMMA ContainerFixedHolds ==
    ASSUME NEW h, Machine(h), NEW f, f.title \in ContainerFixes
    PROVE  Holds(f, ContainerFixed(f, h)) /\ Eased(h, ContainerFixed(f, h))
<1>1. CASE f.title = "worldSocket"
  <2> DEFINE v == [p \in DOMAIN h.sock |-> IF p = f.of THEN {8, 7, 5, 4} ELSE h.sock[p]]
  <2>1. ContainerFixed(f, h) = [h EXCEPT !.sock = v]
    BY <1>1 DEF ContainerFixed
  <2>2. [h EXCEPT !.sock = v].sock = v /\ Eased(h, [h EXCEPT !.sock = v])
    BY EasedSock
  <2> QED BY <1>1, <2>1, <2>2 DEF Holds
<1>2. CASE f.title = "cloudFile"
  <2> DEFINE v == [p \in DOMAIN h.cloud |-> IF p = f.of THEN {8, 7} ELSE h.cloud[p]]
  <2>1. ContainerFixed(f, h) = [h EXCEPT !.cloud = v]
    BY <1>2 DEF ContainerFixed
  <2>2. [h EXCEPT !.cloud = v].cloud = v /\ Eased(h, [h EXCEPT !.cloud = v])
    BY EasedCloud
  <2> QED BY <1>2, <2>1, <2>2 DEF Holds
<1> QED BY <1>1, <1>2 DEF ContainerFixes

LEMMA WithoutWrites ==
    ASSUME NEW h, Machine(h), NEW x
    PROVE  LET n == [h EXCEPT !.writes = Without(h.writes, x)]
           IN  x \notin DOMAIN n.writes /\ Eased(h, n)
<1> DEFINE v == Without(h.writes, x)
<1>1. x \notin DOMAIN v /\ \A s \in DOMAIN v : s \in DOMAIN h.writes /\ v[s] = h.writes[s]
  BY DEF Without
<1> HIDE DEF v
<1>2. [h EXCEPT !.writes = v].writes = v /\ Eased(h, [h EXCEPT !.writes = v])
  BY <1>1, EasedWrites
<1> QED BY <1>1, <1>2 DEF v

LEMMA RedTeamFixedHolds ==
    ASSUME NEW h, Machine(h), NEW f, f.title \in RedTeamFixes
    PROVE  Holds(f, RedTeamFixed(f, h)) /\ Eased(h, RedTeamFixed(f, h))
<1> DEFINE n == [h EXCEPT !.writes = Without(h.writes, f.of)]
<1>w. f.of \notin DOMAIN n.writes /\ Eased(h, n)
  BY WithoutWrites
<1>1. CASE f.title \in {"writableUnit", "cronDir"}
  <2>1. RedTeamFixed(f, h) = n
    BY <1>1 DEF RedTeamFixed
  <2> HIDE DEF n
  <2> QED BY <1>w, <1>1, <2>1 DEF Holds
<1>2. CASE f.title \in {"libraryPath", "cronPath"}
  <2>1. RedTeamFixed(f, h) = IF f.of \in DOMAIN h.writes /\ h.writes[f.of] = "owner" THEN h ELSE n
    BY <1>2 DEF RedTeamFixed
  <2> HIDE DEF n
  <2>2. Eased(h, h)
    BY DEF Eased
  <2> QED BY <1>w, <1>2, <2>1, <2>2 DEF Holds
<1>3. CASE f.title = "history"
  <2> DEFINE v == Without(h.secrets, f.of)
  <2>1. RedTeamFixed(f, h) = [h EXCEPT !.secrets = v]
    BY <1>3 DEF RedTeamFixed
  <2>2. f.of \notin DOMAIN v /\ DOMAIN v \subseteq DOMAIN h.secrets
    BY DEF Without
  <2> HIDE DEF v
  <2>3. [h EXCEPT !.secrets = v].secrets = v /\ Eased(h, [h EXCEPT !.secrets = v])
    BY <2>2, EasedSecrets
  <2> QED BY <1>3, <2>1, <2>2, <2>3 DEF Holds
<1> QED BY <1>1, <1>2, <1>3 DEF RedTeamFixes

LEMMA SysReconFixedHolds ==
    ASSUME NEW h, Machine(h), NEW f, f.title \in SysReconFixes
    PROVE  Holds(f, SysReconFixed(f, h)) /\ Eased(h, SysReconFixed(f, h))
<1>1. CASE f.title = "systemShell"
  <2> DEFINE v == [u \in DOMAIN h.accounts |-> IF u = f.of THEN "nologin" ELSE h.accounts[u]]
  <2>1. SysReconFixed(f, h) = [h EXCEPT !.accounts = v]
    BY <1>1 DEF SysReconFixed
  <2>2. [h EXCEPT !.accounts = v].accounts = v /\ Eased(h, [h EXCEPT !.accounts = v])
    BY EasedAccounts
  <2> QED BY <1>1, <2>1, <2>2 DEF Holds
<1>2. CASE f.title = "emptyPassword"
  <2> DEFINE v == h.noPassword \ {f.of}
  <2>1. SysReconFixed(f, h) = [h EXCEPT !.noPassword = v]
    BY <1>2 DEF SysReconFixed
  <2>2. [h EXCEPT !.noPassword = v].noPassword = v /\ Eased(h, [h EXCEPT !.noPassword = v])
    BY EasedNoPassword
  <2> QED BY <1>2, <2>1, <2>2 DEF Holds
<1>3. CASE f.title = "writableScript"
  <2> DEFINE n == [h EXCEPT !.writes = Without(h.writes, f.of)]
  <2>1. SysReconFixed(f, h) = n
    BY <1>3 DEF SysReconFixed
  <2>2. f.of \notin DOMAIN n.writes /\ Eased(h, n)
    BY WithoutWrites
  <2> HIDE DEF n
  <2> QED BY <1>3, <2>1, <2>2 DEF Holds
<1> QED BY <1>1, <1>2, <1>3 DEF SysReconFixes

\* A remediation does what it is for, and undoes none.
LEMMA FixedHolds ==
    ASSUME NEW h, Machine(h), NEW f, Remediable(f)
    PROVE  Holds(f, Fixed(f, h)) /\ Eased(h, Fixed(f, h))
<1>1. /\ f.title \in NetFixes       => Fixed(f, h) = NetFixed(f, h)
      /\ f.title \in HardeningFixes => Fixed(f, h) = HardeningFixed(f, h)
      /\ f.title \in SecFixes       => Fixed(f, h) = SecFixed(f, h)
      /\ f.title \in ContainerFixes => Fixed(f, h) = ContainerFixed(f, h)
      /\ f.title \in RedTeamFixes   => Fixed(f, h) = RedTeamFixed(f, h)
      /\ f.title \in SysReconFixes  => Fixed(f, h) = SysReconFixed(f, h)
  BY DEF Fixed, NetFixes, HardeningFixes, SecFixes, ContainerFixes, RedTeamFixes, SysReconFixes
<1> QED BY <1>1, NetFixedHolds, HardeningFixedHolds, SecFixedHolds, ContainerFixedHolds,
           RedTeamFixedHolds, SysReconFixedHolds DEF Remediable, Fixes

-----------------------------------------------------------------------------
(***************************************************************************)
(* The remediation of a finding was needed when it did not hold on some    *)
(* machine seen; or when it is one that cannot hold.                       *)
(***************************************************************************)
Needed(f) == CannotHold(f) \/ \E h \in seen : ~Holds(f, h)

LEMMA SetIsExpected ==
    \A p \in Elements(KERNEL_CHECKS) : p.set = p.expected
<1>1. \A n, e, v, s : Param(n, e, v, s).expected = e /\ Param(n, e, v, s).set = s
  BY DEF Param
<1>2. /\ Len(KERNEL_CHECKS) = 13
      /\ \A k \in 1 .. 13 : \E n, v : \E e \in {"0", "1", "2"} : KERNEL_CHECKS[k] = Param(n, e, v, e)
  BY DEF KERNEL_CHECKS
<1> QED BY <1>1, <1>2 DEF Elements

LEMMA OrdersKnown ==
    /\ Elements(ServiceOrder) \subseteq UNNECESSARY_SERVICES
    /\ Elements(SensitiveOrder) \subseteq DOMAIN SENSITIVE_FILES
BY ServiceAssumption, SensitiveAssumption DEF Elements

\* What is true of a machine seen needs its remediation, and can have it.
LEMMA NetTruthShows ==
    ASSUME NEW h \in seen, module = "netaudit", NEW f \in Truth(h), f.title \in Fixes
    PROVE  Remediable(f) /\ Needed(f)
<1>1. f.title \in {"promiscuous", "forwarding"}
  BY NetTold DEF Fixes, NetFixes, HardeningFixes, SecFixes, ContainerFixes, RedTeamFixes,
     SysReconFixes
<1>2. f.title = "promiscuous" => ~Holds(f, h)
  BY NetTold DEF Holds
<1>3. f.title = "forwarding" => ~Holds(f, h)
  <2>1. f.title = "forwarding" => "1" \in h.files["ip_forward"]
    BY NetTold
  <2> QED BY <2>1 DEF Holds
<1> QED BY <1>1, <1>2, <1>3 DEF Remediable, Needed

LEMMA HardeningTruthShows ==
    ASSUME NEW h \in seen, module = "hardening", NEW f \in Truth(h), f.title \in Fixes
    PROVE  Remediable(f) /\ Needed(f)
<1>1. f.title \in {"kernel", "suidDumpable", "service"}
  BY HardeningTold DEF Fixes, NetFixes, HardeningFixes, SecFixes, ContainerFixes, RedTeamFixes,
     SysReconFixes
<1>2. CASE f.title = "kernel"
  <2>1. PICK p \in Elements(KERNEL_CHECKS) :
            h.param[p.name] \notin {"absent", p.expected} /\ f = Finding("kernel", p.name, p.sev)
    BY <1>2, HardeningTold
  <2>2. f.of = p.name /\ p.name \in Parameters
    BY <2>1 DEF Finding, Parameters
  <2>3. ~Holds(f, h)
    BY <1>2, <2>1, <2>2, SetIsExpected DEF Holds
  <2> QED BY <1>2, <2>2, <2>3 DEF Remediable, Needed
<1>3. CASE f.title = "suidDumpable"
  <2>1. "nonzero" \in h.files["suid_dumpable"]
    BY <1>3, HardeningTold
  <2>2. ~Holds(f, h)
    BY <1>3, <2>1 DEF Holds
  <2> QED BY <1>3, <2>2 DEF Remediable, Needed
<1>4. CASE f.title = "service"
  <2>1. PICK s \in Elements(ServiceOrder) \cap h.units : f = Finding("service", s, ServiceSeverity(s))
    BY <1>4, HardeningTold
  <2>2. f.of = s /\ s \in UNNECESSARY_SERVICES /\ s \in h.units
    BY <2>1, OrdersKnown DEF Finding
  <2>3. ~Holds(f, h)
    BY <1>4, <2>2 DEF Holds
  <2> QED BY <1>4, <2>2, <2>3 DEF Remediable, Needed
<1> QED BY <1>1, <1>2, <1>3, <1>4

LEMMA SecTruthShows ==
    ASSUME NEW h \in seen, module = "secaudit", NEW f \in Truth(h), f.title \in Fixes
    PROVE  Remediable(f) /\ Needed(f)
<1>1. f.title \in {"gtfobin", "danger", "wrongOwner"}
  BY SecTold DEF Fixes, NetFixes, HardeningFixes, SecFixes, ContainerFixes, RedTeamFixes,
     SysReconFixes
<1>2. CASE f.title = "gtfobin"
  <2>1. PICK b \in h.setid : f = Finding("gtfobin", b, "HIGH")
    BY <1>2, SecTold
  <2>2. f.of = b
    BY <2>1 DEF Finding
  <2>3. CannotHold(f) \/ ~Holds(f, h)
    BY <1>2, <2>2 DEF CannotHold, Holds
  <2> QED BY <1>2, <2>3 DEF Remediable, Needed
<1>3. CASE f.title = "danger"
  <2>1. PICK d \in h.dangers : f = Finding("danger", d, "MEDIUM")
    BY <1>3, SecTold
  <2>2. f.of = d
    BY <2>1 DEF Finding
  <2>3. ~Holds(f, h)
    BY <1>3, <2>2 DEF Holds
  <2> QED BY <1>3, <2>3 DEF Remediable, Needed
<1>4. CASE f.title = "wrongOwner"
  <2>1. PICK file \in Elements(SensitiveOrder) :
            h.owner[file] \notin {"absent", "root"} /\ f = Finding("wrongOwner", file, "HIGH")
    BY <1>4, SecTold
  <2>2. f.of = file /\ file \in DOMAIN SENSITIVE_FILES
    BY <2>1, OrdersKnown DEF Finding
  <2>3. ~Holds(f, h)
    BY <1>4, <2>1, <2>2 DEF Holds
  <2> QED BY <1>4, <2>2, <2>3 DEF Remediable, Needed
<1> QED BY <1>1, <1>2, <1>3, <1>4

LEMMA ContainerTruthShows ==
    ASSUME NEW h \in seen, module = "container", NEW f \in Truth(h), f.title \in Fixes
    PROVE  Remediable(f) /\ Needed(f)
<1>1. f.title \in {"worldSocket", "cloudFile"}
  BY ContainerTold DEF Fixes, NetFixes, HardeningFixes, SecFixes, ContainerFixes, RedTeamFixes,
     SysReconFixes
<1>2. CASE f.title = "worldSocket"
  <2>1. PICK s \in DOMAIN h.sock : 1 \in h.sock[s] /\ f = Finding("worldSocket", s, "CRITICAL")
    BY <1>2, ContainerTold
  <2>2. f.of = s
    BY <2>1 DEF Finding
  <2>3. h.sock[s] # {8, 7, 5, 4}
    BY <2>1
  <2>4. ~Holds(f, h)
    BY <1>2, <2>2, <2>3 DEF Holds
  <2> QED BY <1>2, <2>4 DEF Remediable, Needed
<1>3. CASE f.title = "cloudFile"
  <2>1. PICK s \in DOMAIN h.cloud : 2 \in h.cloud[s] /\ f = Finding("cloudFile", s, "HIGH")
    BY <1>3, ContainerTold
  <2>2. f.of = s
    BY <2>1 DEF Finding
  <2>3. h.cloud[s] # {8, 7}
    BY <2>1
  <2>4. ~Holds(f, h)
    BY <1>3, <2>2, <2>3 DEF Holds
  <2> QED BY <1>3, <2>4 DEF Remediable, Needed
<1> QED BY <1>1, <1>2, <1>3

\* What may be written is what no remediation leaves, unless it leaves its owner's.
LEMMA WritableShows ==
    ASSUME NEW h \in seen, NEW f, f.of \in DOMAIN h.writes,
           f.title \in {"writableUnit", "cronDir", "writableScript", "libraryPath", "cronPath"}
    PROVE  Remediable(f) /\ Needed(f)
<1>1. Remediable(f)
  BY DEF Remediable, Fixes, RedTeamFixes, SysReconFixes
<1>2. f.title \in {"writableUnit", "cronDir", "writableScript"} => ~Holds(f, h)
  BY DEF Holds
<1>3. f.title \in {"libraryPath", "cronPath"} /\ h.writes[f.of] # "owner" => ~Holds(f, h)
  BY DEF Holds
<1>4. f.title \in {"libraryPath", "cronPath"} /\ h.writes[f.of] = "owner" => CannotHold(f)
  BY DEF CannotHold, Sometime
<1> QED BY <1>1, <1>2, <1>3, <1>4 DEF Needed

LEMMA RedTeamTruthShows ==
    ASSUME NEW h \in seen, module = "redteam", NEW f \in Truth(h), f.title \in Fixes
    PROVE  Remediable(f) /\ Needed(f)
<1>1. f.title \in {"writableUnit", "libraryPath", "cronPath"}
  BY RedTeamTold DEF Fixes, NetFixes, HardeningFixes, SecFixes, ContainerFixes, RedTeamFixes,
     SysReconFixes
<1>2. \A list : Writable(h, list) \subseteq DOMAIN h.writes
  BY DEF Writable
<1>3. CASE f.title = "writableUnit"
  <2>1. PICK u \in Writable(h, "units") : f = Finding("writableUnit", u, "CRITICAL")
    BY <1>3, UnitTold, Zenon
  <2> QED BY <1>2, <1>3, <2>1, WritableShows DEF Finding
<1>4. CASE f.title = "libraryPath"
  <2>1. PICK d \in Writable(h, "ld.so.conf") : f = Finding("libraryPath", d, "HIGH")
    BY <1>4, LibraryPathTold, Zenon
  <2> QED BY <1>2, <1>4, <2>1, WritableShows DEF Finding
<1>5. CASE f.title = "cronPath"
  <2>1. PICK d \in Writable(h, "crontab PATH") : f = Finding("cronPath", d, "CRITICAL")
    BY <1>5, CronPathTold, Zenon
  <2> QED BY <1>2, <1>5, <2>1, WritableShows DEF Finding
<1> QED BY <1>1, <1>3, <1>4, <1>5

LEMMA EmptyPasswordShows ==
    ASSUME NEW h \in seen, NEW f, f.title = "emptyPassword", f.of \in h.noPassword
    PROVE  Remediable(f) /\ Needed(f)
<1>1. ~Holds(f, h)
  BY DEF Holds
<1> QED BY <1>1 DEF Needed, Remediable, Fixes, SysReconFixes

LEMMA SysReconTruthShows ==
    ASSUME NEW h \in seen, module = "sysrecon", NEW f \in Truth(h), f.title \in Fixes
    PROVE  Remediable(f) /\ Needed(f)
<1>1. \/ f.title = "systemShell" /\ f.of \in DOMAIN h.accounts /\ h.accounts[f.of] = "login"
      \/ f.title = "emptyPassword" /\ f.of \in h.noPassword
      \/ f.title = "writableScript" /\ f.of \in DOMAIN h.writes
  <2>1. f.title \notin {"outdatedKernel", "uid0", "suspicious", "secretVariable"}
    BY DEF Fixes, NetFixes, HardeningFixes, SecFixes, ContainerFixes, RedTeamFixes,
       SysReconFixes
  <2> QED BY <2>1, SysReconTold
<1>2. CASE f.title = "systemShell" /\ f.of \in DOMAIN h.accounts /\ h.accounts[f.of] = "login"
  <2>1. ~Holds(f, h)
    BY <1>2 DEF Holds
  <2> QED BY <1>2, <2>1 DEF Remediable, Needed
<1> QED BY <1>1, <1>2, EmptyPasswordShows, WritableShows

LEMMA TruthShows ==
    ASSUME NEW h \in seen, NEW f \in Truth(h), f.title \in Fixes
    PROVE  Remediable(f) /\ Needed(f)
<1>1. module \in {"netaudit", "hardening", "secaudit", "container", "redteam", "sysrecon"}
  BY DEF Truth
<1> QED BY <1>1, NetTruthShows, HardeningTruthShows, SecTruthShows, ContainerTruthShows,
           RedTeamTruthShows, SysReconTruthShows

-----------------------------------------------------------------------------
(***************************************************************************)
(* The remediations of what is no protection missing, no log and no list,  *)
(* but only noted of a machine; their findings need them in the scan that  *)
(* reports them, as long as every command answers.  Check by check, a new  *)
(* one of them does.                                                       *)
(***************************************************************************)
OtherFixes ==
    {"coreDumps", "usbStorage", "noNtp", "cloudFile", "cronDir", "history", "permissive"}
Shown(f) == Remediable(f) /\ (unanswered = {} => Needed(f))
NewShown == \A f \in findings' \ findings : f.title \in OtherFixes => Shown(f)

LEMMA NotedOther ==
    ASSUME NEW h, NEW f, Noted(f, h), f.title \in Fixes
    PROVE  f.title \in OtherFixes
<1> USE DEF Fixes, NetFixes, HardeningFixes, SecFixes, ContainerFixes, RedTeamFixes,
            SysReconFixes, OtherFixes
<1>1. CASE NetNoted(f, h)
  BY <1>1 DEF NetNoted
<1>2. CASE HardeningNoted(f, h)
  BY <1>2 DEF HardeningNoted
<1>3. CASE SecNoted(f, h)
  BY <1>3, SudoRule DEF SecNoted
<1>4. CASE LogNoted(f, h)
  <2>1. \A e \in AuthEvents \cup SystemEvents : e[1] \notin Fixes
    BY DEF AuthEvents, SystemEvents
  <2>2. f.title \in {"failedLogins", "emptyLog", "shortLog"}
    BY <1>4, <2>1 DEF LogNoted
  <2> QED BY <2>2
<1>5. CASE ContainerNoted(f, h)
  BY <1>5 DEF ContainerNoted
<1>6. CASE RedTeamNoted(f, h)
  BY <1>6 DEF RedTeamNoted
<1> QED BY <1>1, <1>2, <1>3, <1>4, <1>5, <1>6 DEF Noted

\* What is founded on more than what is noted shows the same as the truth.
LEMMA FoundedShows ==
    ASSUME NEW f, Founded(f), f.title \in Fixes \ OtherFixes
    PROVE  Remediable(f) /\ Needed(f)
<1>1. CASE \E h \in seen : f \in Truth(h)
  BY <1>1, TruthShows
<1>2. CASE \E h \in seen : Noted(f, h)
  BY <1>2, NotedOther
<1>3. CASE Mistaken(f)
  <2>1. f.title = "gtfobin" /\ ~Binaries[f.of].setuid
    BY <1>3 DEF Mistaken, Fixes, NetFixes, HardeningFixes, SecFixes, ContainerFixes, RedTeamFixes,
                SysReconFixes
  <2> QED BY <2>1 DEF Remediable, Needed, CannotHold, Fixes, SecFixes
<1>4. CASE Stitched(f)
  <2>1. f.title \notin {"privileged", "hostDevices"}
    BY DEF Fixes, NetFixes, HardeningFixes, SecFixes, ContainerFixes, RedTeamFixes,
       SysReconFixes
  <2>2. CASE f.title = "emptyPassword" /\ \E h \in seen : f.of \in h.noPassword
    BY <2>2, EmptyPasswordShows
  <2>3. CASE f.title = "writableScript" /\ \E h \in seen : f.of \in DOMAIN h.writes
    BY <2>3, WritableShows
  <2> QED BY <1>4, <2>1, <2>2, <2>3 DEF Stitched, MayWrite
<1> QED BY <1>1, <1>2, <1>3, <1>4 DEF Founded

\* A rule that was broken because a word is not there.
LEMMA WordLacks ==
    ASSUME NEW s, NEW word, NEW title, NEW sev, NEW content,
           NEW f \in Judged(s, {Rule(word, FALSE, title, sev)}, content)
    PROVE  f = Finding(title, s, sev) /\ word \notin content
<1> DEFINE rule == Rule(word, FALSE, title, sev)
<1>1. rule.word = word /\ rule.bad = FALSE /\ rule.title = title /\ rule.sev = sev
  BY DEF Rule
<1> HIDE DEF rule
<1>2. PICK r \in Broken({rule}, content) : f = Finding(r.title, s, r.sev)
  BY DEF Judged, rule
<1>3. r = rule /\ (r.word \in content) = r.bad
  BY <1>2, Zenon DEF Broken
<1>4. word \notin content
  BY <1>1, <1>3, Zenon
<1> QED BY <1>1, <1>2, <1>3, <1>4

\* What a check finds has another title.
LEMMA OthersShown ==
    ASSUME NEW titles, \A f \in findings' \ findings : f.title \in titles,
           titles \cap OtherFixes = {}
    PROVE  NewShown
BY DEF NewShown

LEMMA HardeningShown ==
    ASSUME Answered, host \in seen, HardeningRun
    PROVE  NewShown
<1>1. CASE CheckLimits
  <2> DEFINE files == <<"limits.conf">>
             rules == {Rule("core", FALSE, "coreDumps", "LOW")}
  <2>1. Report(Judged("limits", rules, FirstOf(files)), {})
    BY <1>1 DEF CheckLimits, ReadFor
  <2>2. FirstOf(files) = host.files["limits.conf"]
    BY FirstOfOne
  <2>3. ASSUME NEW f \in findings' \ findings
        PROVE  Shown(f)
    <3>1. f \in Judged("limits", rules, FirstOf(files))
      BY <2>1 DEF Report
    <3>2. f = Finding("coreDumps", "limits", "LOW") /\ "core" \notin FirstOf(files)
      BY <3>1, WordLacks
    <3>3. f.title = "coreDumps" /\ ~Holds(f, host)
      BY <2>2, <3>2 DEF Finding, Holds
    <3> QED BY <3>3 DEF Shown, Needed, Remediable, Fixes, HardeningFixes
  <2> QED BY <2>3 DEF NewShown
<1>2. CASE CheckUsbStorage
  <2>1. ASSUME NEW f \in findings' \ findings
        PROVE  Shown(f)
    <3>1. /\ f = Finding("usbStorage", "modprobe", "LOW")
          /\ host.files["modprobe.d"] \cap {"usb-storage", "usb_storage"} = {}
      BY <1>2 DEF CheckUsbStorage, Report, Nothing
    <3>2. f.title = "usbStorage" /\ ~Holds(f, host)
      BY <3>1 DEF Finding, Holds
    <3> QED BY <3>2 DEF Shown, Needed, Remediable, Fixes, HardeningFixes
  <2> QED BY <2>1 DEF NewShown
<1>3. CASE CheckTimedatectl
  <2>1. ASSUME NEW f \in findings' \ findings
        PROVE  Shown(f)
    <3>1. f = Finding("noNtp", "ntp", "MEDIUM") /\ "NTP=yes" \notin call.out
      BY <1>3 DEF CheckTimedatectl, Report, Nothing
    <3>2. f.title = "noNtp"
      BY <3>1 DEF Finding
    <3>3. ASSUME unanswered = {}
          PROVE  \E h \in seen : ~Holds(f, h)
      <4>1. PICK h \in seen : \E r \in RepliesOf(h, "timedatectl", i) : call.out = r[1] /\ call.rc = r[2]
        BY <1>3, <3>3, AnswerIs DEF CheckTimedatectl
      <4>2. RepliesOf(h, "timedatectl", i) = {<<{"NTP=yes"} \cap h.units, 0>>}
        BY UnitReplies
      <4>3. "NTP=yes" \notin h.units
        BY <3>1, <4>1, <4>2
      <4> QED BY <3>2, <4>3 DEF Holds
    <3> QED BY <3>2, <3>3 DEF Shown, Needed, Remediable, Fixes, HardeningFixes
  <2> QED BY <2>1 DEF NewShown
<1>4. CASE CheckKernelParam \/ KernelTally \/ CheckMountOptions \/ CheckNtp \/ CheckService \/ CheckApt
           \/ CheckUpdater \/ CheckAppArmor
  <2>1. \A f \in findings' \ findings : f.title \in {"kernel", "kernelTally", "tmpShared", "tmpOptions",
            "vartmpNoexec", "ntpActive", "service", "autoUpdates", "noUpdates", "noMac",
            "apparmorActive", "apparmorEmpty"}
    <3>1. CASE CheckKernelParam \/ KernelTally
      BY <3>1 DEF CheckKernelParam, KernelTally, Deviates, Report, Finding
    <3>2. CASE CheckMountOptions \/ CheckNtp \/ CheckService
      BY <3>2 DEF CheckMountOptions, MountFindings, CheckNtp, CheckService, Report, Nothing, Finding
    <3>3. CASE CheckApt \/ CheckUpdater \/ CheckAppArmor
      BY <3>3 DEF CheckApt, CheckUpdater, CheckAppArmor, Updating, Report, Nothing, Finding
    <3> QED BY <1>4, <3>1, <3>2, <3>3
  <2> QED BY <2>1, OthersShown DEF OtherFixes
<1>5. CASE CheckSELinux
  <2>1. \A f \in findings' \ findings :
            f.title \in {"selinuxEnforcing", "selinuxPermissive", "selinuxDisabled"}
    <3>1. \A s : (CASE s = "enforcing"  -> Finding("selinuxEnforcing", "mac", "INFO")
                    [] s = "permissive" -> Finding("selinuxPermissive", "mac", "MEDIUM")
                    [] OTHER            -> Finding("selinuxDisabled", "mac", "HIGH")).title
                     \in {"selinuxEnforcing", "selinuxPermissive", "selinuxDisabled"}
      BY DEF Finding
    <3> QED BY <1>5, <3>1 DEF CheckSELinux, Report, Nothing
  <2> QED BY <2>1, OthersShown DEF OtherFixes
<1>6. CASE CheckSuidDumpable
  <2> DEFINE rules == {Rule("nonzero", TRUE, "suidDumpable", "MEDIUM")}
  <2>1. Report(Judged("dumpable", rules, FirstOf(<<"suid_dumpable">>)), {})
    BY <1>6 DEF CheckSuidDumpable, ReadFor
  <2>2. \A r \in rules : r.title \in {"suidDumpable"}
    BY DEF Rule
  <2> HIDE DEF rules
  <2>3. \A f \in findings' \ findings : f.title \in {"suidDumpable"}
    BY <2>1, <2>2 DEF Report, Judged, Broken, Finding
  <2> QED BY <2>3, OthersShown DEF OtherFixes
<1>7. CASE CheckBootloader
  <2> DEFINE rules == {Rule("password", FALSE, "bootloader", "MEDIUM")}
  <2>1. Report(Judged("grub", rules, FirstOf(<<"grub", "grub2">>)), {})
    BY <1>7 DEF CheckBootloader, ReadFor
  <2>2. \A r \in rules : r.title \in {"bootloader"}
    BY DEF Rule
  <2> HIDE DEF rules
  <2>3. \A f \in findings' \ findings : f.title \in {"bootloader"}
    BY <2>1, <2>2 DEF Report, Judged, Broken, Finding
  <2> QED BY <2>3, OthersShown DEF OtherFixes
<1> QED BY <1>1, <1>2, <1>3, <1>4, <1>5, <1>6, <1>7 DEF HardeningRun

LEMMA ContainerShown ==
    ASSUME host \in seen, ContainerRun
    PROVE  NewShown
<1>1. CASE CheckCloudFile
  <2> DEFINE file == CloudFiles[i]
  <2>1. ASSUME NEW f \in findings' \ findings
        PROVE  Shown(f)
    <3>1. file \in DOMAIN host.cloud /\ f = CloudFinding(file, host.cloud[file])
      BY <1>1 DEF CheckCloudFile, Report
    <3> HIDE DEF file
    <3>2. /\ f.title = "cloudFile" /\ f.of = file
          /\ f.sev = IF 2 \in host.cloud[file] THEN "HIGH" ELSE "LOW"
      BY <3>1 DEF CloudFinding, Finding
    <3>3. CASE 2 \in host.cloud[file]
      <4>1. host.cloud[file] # {8, 7}
        BY <3>3
      <4>2. ~Holds(f, host)
        BY <3>1, <3>2, <4>1 DEF Holds
      <4> QED BY <3>2, <4>2 DEF Shown, Needed, Remediable, Fixes, ContainerFixes
    <3>4. CASE 2 \notin host.cloud[file]
      BY <3>2, <3>4 DEF Shown, Needed, CannotHold, Remediable, Fixes, ContainerFixes
    <3> QED BY <3>3, <3>4
  <2> QED BY <2>1 DEF NewShown
<1>2. CASE SocketThere \/ CheckSocket \/ CheckDockerTcp \/ CheckEnvironment \/ CheckPrivileged
           \/ CloudThere \/ CheckImds
  <2>1. \A p, mode : \A f \in SocketFindings(p, mode) : f.title \in {"worldSocket", "groupSocket"}
    BY DEF SocketFindings, Finding
  <2>2. \A f \in findings' \ findings : f.title \in {"worldSocket", "groupSocket", "dockerTcp",
            "insideContainer", "privileged", "imds"}
    <3>1. CASE SocketThere \/ CloudThere
      BY <3>1 DEF SocketThere, CloudThere, Nothing
    <3>2. CASE CheckSocket
      BY <2>1, <3>2 DEF CheckSocket, Report
    <3>3. CASE CheckDockerTcp \/ CheckEnvironment \/ CheckPrivileged \/ CheckImds
      BY <3>3 DEF CheckDockerTcp, CheckEnvironment, CheckPrivileged, CheckImds, Report, Nothing, Finding
    <3> QED BY <1>2, <3>1, <3>2, <3>3
  <2> QED BY <2>2, OthersShown DEF OtherFixes
<1> QED BY <1>1, <1>2 DEF ContainerRun

LEMMA RedTeamShown ==
    ASSUME host \in seen, RedTeamRun
    PROVE  NewShown
<1>1. CASE CheckCron
  <2>1. Report(Each("cronDir", "cron", "CRITICAL") \cup Each("cronPath", "crontab PATH", "CRITICAL"), {})
    BY <1>1 DEF CheckCron
  <2>2. ASSUME NEW f \in findings' \ findings, f.title \in OtherFixes
        PROVE  Shown(f)
    <3>1. f \in Each("cronDir", "cron", "CRITICAL") \cup Each("cronPath", "crontab PATH", "CRITICAL")
      BY <2>1 DEF Report
    <3>2. \E title \in {"cronDir", "cronPath"} : \E of \in DOMAIN host.writes : \E sev :
              f = Finding(title, of, sev)
      BY <3>1 DEF Each, Writable
    <3>3. f.title \in {"cronDir", "cronPath"} /\ f.of \in DOMAIN host.writes
      BY <3>2 DEF Finding
    <3> QED BY <3>3, WritableShows DEF Shown
  <2> QED BY <2>2 DEF NewShown
<1>2. CASE CheckHistory
  <2>1. ASSUME NEW f \in findings' \ findings
        PROVE  Shown(f)
    <3>1. PICK file \in HISTORY_FILES : /\ Secrets(file) \cap HistoryWords # {}
                                        /\ f = Finding("history", file, "MEDIUM")
      BY <1>2 DEF CheckHistory, Report
    <3>2. f.title = "history" /\ f.of = file /\ file \in DOMAIN host.secrets
      BY <3>1 DEF Finding, Secrets
    <3>3. ~Holds(f, host)
      BY <3>2 DEF Holds
    <3> QED BY <3>2, <3>3 DEF Shown, Needed, Remediable, Fixes, RedTeamFixes
  <2> QED BY <2>1 DEF NewShown
<1>3. CASE CheckWritablePath \/ CheckSudoPrivesc \/ CheckDockerSocket \/ CheckInside \/ CheckDevices
           \/ CheckWritableServices \/ CheckLibraries \/ CheckKernelExploits \/ ReadPid1 \/ ComparePid
  <2>1. \A f \in findings' \ findings : f.title \in {"writablePath", "pathHasDot", "sudoPrivesc",
            "dockerSocket", "insideContainer", "hostDevices", "sharesPid", "writableUnit",
            "ldPreload", "ldLibraryPath", "libraryPath", "kernelCves"}
    <3>1. CASE CheckWritablePath \/ CheckSudoPrivesc \/ CheckDockerSocket
      BY <3>1 DEF CheckWritablePath, CheckSudoPrivesc, CheckDockerSocket, Report, Nothing, Finding
    <3>2. CASE CheckInside \/ CheckDevices \/ CheckKernelExploits \/ ReadPid1 \/ ComparePid
      BY <3>2 DEF CheckInside, CheckDevices, Presence, CheckKernelExploits, ReadPid1, ComparePid,
                  Report, Nothing, Finding
    <3>3. CASE CheckWritableServices \/ CheckLibraries
      BY <3>3 DEF CheckWritableServices, CheckLibraries, Each, Report, Finding
    <3> QED BY <1>3, <3>1, <3>2, <3>3
  <2> QED BY <2>1, OthersShown DEF OtherFixes
<1>4. CASE CheckCredentialFile
  <2>1. \A r \in SecretRules : r.title \in {"privateKey", "awsKey", "password"}
    BY SecretRule
  <2>2. \A f \in findings' \ findings : f.title \in {"privateKey", "awsKey", "password"}
    BY <1>4, <2>1 DEF CheckCredentialFile, Report, Judged, Broken, Finding
  <2> QED BY <2>2, OthersShown DEF OtherFixes
<1> QED BY <1>1, <1>2, <1>3, <1>4 DEF RedTeamRun

LEMMA SecShown ==
    ASSUME InList, host \in seen, SecAuditRun
    PROVE  NewShown
<1>1. CASE CheckPermissions
  <2> DEFINE file == File(i)
  <2>1. file \in Elements(SensitiveOrder)
    BY <1>1 DEF CheckPermissions, Look, InList, File, Elements
  <2>2. ASSUME NEW f \in findings' \ findings
        PROVE  Shown(f)
    <3>1. /\ f = Finding("permissive", file, "HIGH")
          /\ TooPermissive(host.mode[file], SENSITIVE_FILES[file])
      BY <1>1 DEF CheckPermissions, Report, Nothing
    <3> HIDE DEF file
    <3>2. f.title = "permissive" /\ f.of = file /\ file \in DOMAIN SENSITIVE_FILES
      BY <2>1, <3>1, OrdersKnown DEF Finding
    <3>3. host.mode[file] # SENSITIVE_FILES[file]
      BY <3>1 DEF TooPermissive
    <3>4. ~Holds(f, host)
      BY <3>2, <3>3 DEF Holds
    <3> QED BY <3>2, <3>4 DEF Shown, Needed, Remediable, Fixes, SecFixes
  <2> QED BY <2>2 DEF NewShown
<1>2. CASE ~CheckPermissions
  <2>1. \A f \in findings' \ findings : f.title \in SecTitles
    BY <1>2, SecGoes DEF Going
  <2> QED BY <2>1, OthersShown DEF SecTitles, OtherFixes
<1> QED BY <1>1, <1>2

LEMMA CheckShown ==
    ASSUME FitInv, Answered, Check
    PROVE  NewShown
<1>1. /\ host \in seen /\ InList /\ module \in Modules
      /\ module = "netaudit"    => NetAuditRun
      /\ module = "hardening"   => HardeningRun
      /\ module = "secaudit"    => SecAuditRun
      /\ module = "loganalyzer" => LogAnalyzerRun
      /\ module = "container"   => ContainerRun
      /\ module = "redteam"     => RedTeamRun
      /\ module = "sysrecon"    => SysReconRun
  BY CheckOfModule DEF FitInv, Prepared, Placed
<1>2. CASE NetAuditRun
  <2>1. \A f \in findings' \ findings : f.title \in NetTitles
    BY <1>2, NetGoes DEF Going
  <2> QED BY <2>1, OthersShown DEF NetTitles, OtherFixes
<1>3. CASE LogAnalyzerRun
  <2>1. \A f \in findings' \ findings : f.title \in LogTitles \cup AuthTitles
    BY <1>3, LogGoes, AuthGoes DEF Going
  <2> QED BY <2>1, OthersShown DEF LogTitles, AuthTitles, OtherFixes
<1>4. CASE SysReconRun
  <2>1. \A f \in findings' \ findings : f.title \in SysReconTitles
    BY <1>4, SysReconGoes DEF Going
  <2> QED BY <2>1, OthersShown DEF SysReconTitles, OtherFixes
<1> QED BY <1>1, <1>2, <1>3, <1>4, HardeningShown, SecShown, ContainerShown, RedTeamShown DEF Modules

(***************************************************************************)
(* What has been remedied, and whatever has not undone the remedies since, *)
(* leaves a machine on which they hold; during the second scan all that    *)
(* the scan sees are such machines.                                        *)
(***************************************************************************)
ShownInv == \A f \in findings : f.title \in OtherFixes => Shown(f)
RemedyInv ==
    /\ \A f \in remedied : Remediable(f) /\ Holds(f, host)
    /\ round = 2 => \A f \in remedied : \A h \in seen : Holds(f, h)

LEMMA ShownKept ==
    ASSUME NEW f, Shown(f), seen \subseteq seen', unanswered \subseteq unanswered'
    PROVE  Shown(f)'
<1>1. CannotHold(f) => CannotHold(f)'
  BY DEF CannotHold, Sometime
<1>2. Needed(f) => Needed(f)'
  BY <1>1 DEF Needed
<1> QED BY <1>2 DEF Shown

LEMMA ShownNext == FitInv /\ Answered /\ ShownInv /\ [Next]_vars => ShownInv'
<1> SUFFICES ASSUME FitInv, Answered, ShownInv, [Next]_vars PROVE ShownInv'
  OBVIOUS
<1>0. OtherFixes' = OtherFixes
  OBVIOUS
<1>1. CASE Ask \/ Reap \/ World
  <2>1. Waiting
    BY <1>1, CallsWait
  <2>2. unanswered \subseteq unanswered'
    BY <1>1 DEF Ask, Reap, World, Refuse, Reply, Hang, Expire, Outlive, RunCmd, Reaped, Raises, Hangs,
                Completes, TimeoutExpired, OrphanEnds
  <2> QED BY <2>1, <2>2, ShownKept DEF ShownInv, Waiting, hostvars
<1>2. CASE Check
  <2>1. NewShown
    BY <1>2, CheckShown
  <2>2. UNCHANGED <<seen, unanswered>>
    BY <1>2, CheckOfModule, CheckAsksNothing DEF FitInv, hostvars
  <2>3. \A f \in findings' : f.title \in OtherFixes => Shown(f)
    BY <2>1 DEF NewShown, ShownInv
  <2> QED BY <2>2, <2>3, ShownKept DEF ShownInv
<1>3. CASE MachineChanges \/ Remedy \/ UNCHANGED vars
  <2>1. UNCHANGED <<findings, unanswered>> /\ seen \subseteq seen'
    BY <1>3 DEF MachineChanges, Remedy, vars, helpervars, hostvars
  <2> QED BY <2>1, ShownKept DEF ShownInv
<1>4. CASE Rescan
  BY <1>4 DEF Rescan, ShownInv
<1> QED BY <1>1, <1>2, <1>3, <1>4 DEF Next, Thread, Stay

\* Every finding that can be remedied needs to be, as long as all commands answer.
LEMMA FixesShown ==
    ASSUME FitInv, ShownInv, NEW f \in findings, f.title \in Fixes
    PROVE  Shown(f)
<1>1. CASE f.title \in OtherFixes
  BY <1>1 DEF ShownInv
<1>2. CASE f.title \notin OtherFixes
  <2>1. f.title \in Titles
    BY <1>2 DEF Fixes, NetFixes, HardeningFixes, SecFixes, ContainerFixes, RedTeamFixes,
       SysReconFixes, OtherFixes, Titles, NetTitles, HardeningTitles, SecTitles, ContainerTitles,
       RedTeamTitles, SysReconTitles
  <2>2. f.title \notin Absences \cup Inventories \cup {"permissive", "bruteForce"}
    BY <1>2 DEF Fixes, NetFixes, HardeningFixes, SecFixes, ContainerFixes, RedTeamFixes,
       SysReconFixes, OtherFixes, Absences, Inventories
  <2>3. Founded(f)
    BY <2>1, <2>2 DEF FitInv, FindingsFit, Fit, Claims
  <2> QED BY <1>2, <2>3, FoundedShows DEF Shown
<1> QED BY <1>1, <1>2

LEMMA RemedyNext == FitInv /\ ShownInv /\ RemedyInv /\ [Next]_vars => RemedyInv'
<1> SUFFICES ASSUME FitInv, ShownInv, RemedyInv, [Next]_vars PROVE RemedyInv'
  OBVIOUS
<1>1. CASE Ask \/ Reap \/ World \/ Check \/ UNCHANGED vars
  <2>1. UNCHANGED <<host, seen, remedied, round>>
    <3>1. CASE Ask \/ Reap \/ World
      BY <3>1, CallsWait DEF Waiting, hostvars, admin
    <3>2. CASE Check
      BY <3>2, CheckOfModule DEF FitInv, hostvars, admin
    <3>3. CASE UNCHANGED vars
      BY <3>3 DEF vars, hostvars, admin
    <3> QED BY <1>1, <3>1, <3>2, <3>3
  <2> QED BY <2>1 DEF RemedyInv
<1>2. CASE MachineChanges
  <2>1. /\ host' \in UNION Hosts[module] /\ seen' = seen \cup {host'} /\ round' = round
        /\ remedied' = {f \in remedied : Fixed(f, host') = host'}
    BY <1>2 DEF MachineChanges
  <2>2. PICK h : h = host'
    OBVIOUS
  <2>3. Machine(h)
    BY <2>1, <2>2, HostsAssumption DEF FitInv, Typed
  <2>4. \A f \in remedied' : Remediable(f) /\ Holds(f, h)
    <3> SUFFICES ASSUME NEW f \in remedied, Fixed(f, h) = h
                 PROVE  Remediable(f) /\ Holds(f, h)
      BY <2>1, <2>2
    <3>1. Remediable(f)
      BY DEF RemedyInv
    <3> QED BY <2>3, <3>1, FixedHolds
  <2> QED BY <2>1, <2>2, <2>4 DEF RemedyInv
<1>3. CASE Remedy
  <2>1. PICK f \in findings :
            f.title \in Fixes /\ host' = Fixed(f, host) /\ remedied' = remedied \cup {f}
    BY <1>3 DEF Remedy
  <2>2. round = 1 /\ round' = round
    BY <1>3 DEF Remedy
  <2>3. Remediable(f) /\ Machine(host)
    BY <2>1, FixesShown DEF Shown, FitInv, Typed
  <2>4. PICK n : n = Fixed(f, host)
    OBVIOUS
  <2>5. Holds(f, n) /\ Eased(host, n)
    BY <2>3, <2>4, FixedHolds
  <2>6. \A g \in remedied : Remediable(g) /\ Holds(g, n)
    BY <2>5, HoldsOn DEF RemedyInv
  <2>7. \A g \in remedied' : Remediable(g) /\ Holds(g, host')
    BY <2>1, <2>3, <2>4, <2>5, <2>6
  <2> QED BY <2>2, <2>7 DEF RemedyInv
<1>4. CASE Rescan
  <2>1. UNCHANGED <<host, remedied>> /\ seen' = {host}
    BY <1>4 DEF Rescan
  <2> QED BY <2>1 DEF RemedyInv
<1> QED BY <1>1, <1>2, <1>3, <1>4 DEF Next, Thread, Stay

(***************************************************************************)
(* What has been remedied does not come back: the value each remediation   *)
(* sets is one its check accepts, and no other remediation undoes it; but  *)
(* for the three that cannot help what they are given for (hardening.py:   *)
(* 30-146, redteam.py:437, 511, and remediation= of all modules).          *)
(***************************************************************************)
THEOREM RemediesHold == Spec => []RemediationHolds
<1> DEFINE IInv == FitInv /\ Answered /\ ShownInv /\ RemedyInv
<1>1. Init => Answered /\ ShownInv /\ RemedyInv
  BY DEF Init, Answered, Idle, ShownInv, RemedyInv
<1>2. IInv /\ [Next]_vars => (Answered /\ ShownInv /\ RemedyInv)'
  BY AnsweredNext, ShownNext, RemedyNext DEF FitInv
<1>3. IInv => RemediationHolds
  <2> SUFFICES ASSUME IInv, round = 2, unanswered = {}, NEW f \in remedied, f \in findings
               PROVE  CannotHold(f)
    BY DEF RemediationHolds
  <2>1. Remediable(f) /\ \A h \in seen : Holds(f, h)
    BY DEF RemedyInv
  <2>2. Needed(f)
    BY <2>1, FixesShown DEF Remediable, Shown
  <2> QED BY <2>1, <2>2 DEF Needed
<1> QED BY <1>1, <1>2, <1>3, FitInvAlways, PTL DEF Spec
=============================================================================
