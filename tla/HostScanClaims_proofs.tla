------------------------- MODULE HostScanClaims_proofs -------------------------
(***************************************************************************)
(* Theorems about what HostScan reports, for any machines and changes of   *)
(* them, and any number of commands that hang: every finding is well       *)
(* typed, and what is claimed of the machine was true of it.               *)
(***************************************************************************)
EXTENDS HostScan_proofs, WellFoundedInduction

(***************************************************************************)
(* A machine stays one when something about it is changed.                 *)
(***************************************************************************)
LEMMA WithDangers ==
    ASSUME NEW h, Machine(h), NEW v \in SUBSET STRING
    PROVE  h.dangers \in SUBSET STRING /\ Machine([h EXCEPT !.dangers = v])
BY DEF Machine

LEMMA WithUnits ==
    ASSUME NEW h, Machine(h),
           NEW v \in SUBSET (UNNECESSARY_SERVICES \cup TimeKeepers \cup Elements(Updaters))
    PROVE  /\ h.units \in SUBSET (UNNECESSARY_SERVICES \cup TimeKeepers \cup Elements(Updaters))
           /\ Machine([h EXCEPT !.units = v])
BY DEF Machine

LEMMA WithNoPassword ==
    ASSUME NEW h, Machine(h), NEW v \in SUBSET STRING
    PROVE  h.noPassword \in SUBSET STRING /\ Machine([h EXCEPT !.noPassword = v])
BY DEF Machine

LEMMA WithSetid ==
    ASSUME NEW h, Machine(h), NEW v \in SUBSET DOMAIN Binaries
    PROVE  h.setid \in SUBSET DOMAIN Binaries /\ Machine([h EXCEPT !.setid = v])
BY DEF Machine

LEMMA WithFiles ==
    ASSUME NEW h, Machine(h), NEW v \in [WordFiles -> SUBSET Words]
    PROVE  h.files \in [WordFiles -> SUBSET Words] /\ Machine([h EXCEPT !.files = v])
BY DEF Machine

LEMMA WithParam ==
    ASSUME NEW h, Machine(h), NEW v \in [Parameters -> {"absent", "0", "1", "2", "other"}]
    PROVE  /\ h.param \in [Parameters -> {"absent", "0", "1", "2", "other"}]
           /\ Machine([h EXCEPT !.param = v])
BY DEF Machine

LEMMA WithMode ==
    ASSUME NEW h, Machine(h), NEW v \in [DOMAIN SENSITIVE_FILES -> SUBSET Bits]
    PROVE  h.mode \in [DOMAIN SENSITIVE_FILES -> SUBSET Bits] /\ Machine([h EXCEPT !.mode = v])
BY DEF Machine

LEMMA WithOwner ==
    ASSUME NEW h, Machine(h), NEW v \in [DOMAIN SENSITIVE_FILES -> {"absent", "root", "other"}]
    PROVE  /\ h.owner \in [DOMAIN SENSITIVE_FILES -> {"absent", "root", "other"}]
           /\ Machine([h EXCEPT !.owner = v])
BY DEF Machine

LEMMA WithSock ==
    ASSUME NEW h, Machine(h), NEW v \in [DOMAIN h.sock -> SUBSET Bits]
    PROVE  h.sock \in [DOMAIN h.sock -> SUBSET Bits] /\ Machine([h EXCEPT !.sock = v])
BY DEF Machine

LEMMA WithCloud ==
    ASSUME NEW h, Machine(h), NEW v \in [DOMAIN h.cloud -> SUBSET Bits]
    PROVE  h.cloud \in [DOMAIN h.cloud -> SUBSET Bits] /\ Machine([h EXCEPT !.cloud = v])
BY DEF Machine

LEMMA WithAccounts ==
    ASSUME NEW h, Machine(h), NEW v \in [DOMAIN h.accounts -> {"login", "nologin"}]
    PROVE  /\ h.accounts \in [DOMAIN h.accounts -> {"login", "nologin"}]
           /\ Machine([h EXCEPT !.accounts = v])
BY DEF Machine

LEMMA WithWrites ==
    ASSUME NEW h, Machine(h), NEW x
    PROVE  Machine([h EXCEPT !.writes = Without(h.writes, x)])
BY DEF Machine, Without

LEMMA WithSecrets ==
    ASSUME NEW h, Machine(h), NEW x
    PROVE  Machine([h EXCEPT !.secrets = Without(h.secrets, x)])
BY DEF Machine, Without

LEMMA UpdateIn ==
    ASSUME NEW D, NEW R, NEW g \in [D -> R], NEW x, NEW v \in R
    PROVE  [g EXCEPT ![x] = v] \in [D -> R]
OBVIOUS

\* The parameter of a name, as a remediation looks it up.
LEMMA ParameterOf ==
    ASSUME NEW name \in Parameters
    PROVE  LET p == CHOOSE p \in {KERNEL_CHECKS[k] : k \in 1 .. Len(KERNEL_CHECKS)} : p.name = name
           IN  p \in Elements(KERNEL_CHECKS) /\ p.name = name /\ p.set \in {"absent", "0", "1", "2", "other"}
<1>1. \A k \in 1 .. Len(KERNEL_CHECKS) : KERNEL_CHECKS[k].set \in {"absent", "0", "1", "2", "other"}
  <2>1. \A n, e, v, s : Param(n, e, v, s).set = s
    BY DEF Param
  <2>2. /\ Len(KERNEL_CHECKS) = 13
        /\ \A k \in 1 .. 13 : \E n, e, v : \E s \in {"0", "1", "2"} : KERNEL_CHECKS[k] = Param(n, e, v, s)
    BY DEF KERNEL_CHECKS
  <2> QED BY <2>1, <2>2
<1>2. \A p \in Elements(KERNEL_CHECKS) : p.set \in {"absent", "0", "1", "2", "other"}
  BY <1>1 DEF Elements
<1> QED BY <1>2 DEF Parameters, Elements

LEMMA NetFixedStays ==
    ASSUME NEW h, Machine(h), NEW f, f.title \in NetFixes
    PROVE  Machine(NetFixed(f, h))
<1>1. CASE f.title = "promiscuous"
  <2> DEFINE v == h.dangers \ {"promisc"}
  <2>1. NetFixed(f, h) = [h EXCEPT !.dangers = v]
    BY <1>1 DEF NetFixed
  <2>2. v \in SUBSET STRING
    BY DEF Machine
  <2> HIDE DEF v
  <2> QED BY <2>1, <2>2, WithDangers
<1>2. CASE f.title = "forwarding"
  <2> DEFINE v == [h.files EXCEPT !["ip_forward"] = {"0"}]
  <2>1. NetFixed(f, h) = [h EXCEPT !.files = v]
    BY <1>2 DEF NetFixed
  <2>2. v \in [WordFiles -> SUBSET Words]
    <3>1. h.files \in [WordFiles -> SUBSET Words]
      BY DEF Machine
    <3>2. {"0"} \in SUBSET Words
      BY DEF Words
    <3> QED BY <3>1, <3>2, UpdateIn
  <2> HIDE DEF v
  <2> QED BY <2>1, <2>2, WithFiles
<1> QED BY <1>1, <1>2 DEF NetFixes

LEMMA HardeningFixedStays ==
    ASSUME NEW h, Machine(h), NEW f, f.title \in HardeningFixes,
           f.title = "kernel" => f.of \in Parameters
    PROVE  Machine(HardeningFixed(f, h))
<1>1. CASE f.title = "kernel"
  <2> DEFINE p == CHOOSE p \in {KERNEL_CHECKS[k] : k \in 1 .. Len(KERNEL_CHECKS)} : p.name = f.of
             v == [h.param EXCEPT ![p.name] = p.set]
  <2>1. HardeningFixed(f, h) = [h EXCEPT !.param = v]
    BY <1>1 DEF HardeningFixed
  <2>2. p.set \in {"absent", "0", "1", "2", "other"}
    BY <1>1, ParameterOf
  <2> HIDE DEF p
  <2>3. v \in [Parameters -> {"absent", "0", "1", "2", "other"}]
    <3>1. h.param \in [Parameters -> {"absent", "0", "1", "2", "other"}]
      BY DEF Machine
    <3> QED BY <2>2, <3>1, UpdateIn
  <2> HIDE DEF v
  <2> QED BY <2>1, <2>3, WithParam
<1>2. CASE f.title = "suidDumpable"
  <2> DEFINE v == [h.files EXCEPT !["suid_dumpable"] = {"0"}]
  <2>1. HardeningFixed(f, h) = [h EXCEPT !.files = v]
    BY <1>2 DEF HardeningFixed
  <2>2. v \in [WordFiles -> SUBSET Words]
    <3>1. h.files \in [WordFiles -> SUBSET Words]
      BY DEF Machine
    <3>2. {"0"} \in SUBSET Words
      BY DEF Words
    <3> QED BY <3>1, <3>2, UpdateIn
  <2> HIDE DEF v
  <2> QED BY <2>1, <2>2, WithFiles
<1>3. CASE f.title = "coreDumps"
  <2> DEFINE v == [h.files EXCEPT !["limits.conf"] = h.files["limits.conf"] \cup {"core"}]
  <2>1. HardeningFixed(f, h) = [h EXCEPT !.files = v]
    BY <1>3 DEF HardeningFixed
  <2>2. v \in [WordFiles -> SUBSET Words]
    <3>1. h.files \in [WordFiles -> SUBSET Words]
      BY DEF Machine
    <3>2. h.files["limits.conf"] \cup {"core"} \in SUBSET Words
      BY <3>1 DEF WordFiles, Words
    <3> QED BY <3>1, <3>2, UpdateIn
  <2> HIDE DEF v
  <2> QED BY <2>1, <2>2, WithFiles
<1>4. CASE f.title = "usbStorage"
  <2> DEFINE v == [h.files EXCEPT !["modprobe.d"] = h.files["modprobe.d"] \cup {"usb-storage"}]
  <2>1. HardeningFixed(f, h) = [h EXCEPT !.files = v]
    BY <1>4 DEF HardeningFixed
  <2>2. v \in [WordFiles -> SUBSET Words]
    <3>1. h.files \in [WordFiles -> SUBSET Words]
      BY DEF Machine
    <3>2. h.files["modprobe.d"] \cup {"usb-storage"} \in SUBSET Words
      BY <3>1 DEF WordFiles, Words
    <3> QED BY <3>1, <3>2, UpdateIn
  <2> HIDE DEF v
  <2> QED BY <2>1, <2>2, WithFiles
<1>5. CASE f.title = "noNtp"
  <2> DEFINE v == h.units \cup {"NTP=yes"}
  <2>1. HardeningFixed(f, h) = [h EXCEPT !.units = v]
    BY <1>5 DEF HardeningFixed
  <2>2. v \in SUBSET (UNNECESSARY_SERVICES \cup TimeKeepers \cup Elements(Updaters))
    BY DEF Machine, TimeKeepers
  <2> HIDE DEF v
  <2> QED BY <2>1, <2>2, WithUnits
<1>6. CASE f.title = "service"
  <2> DEFINE v == h.units \ {f.of}
  <2>1. HardeningFixed(f, h) = [h EXCEPT !.units = v]
    BY <1>6 DEF HardeningFixed
  <2>2. v \in SUBSET (UNNECESSARY_SERVICES \cup TimeKeepers \cup Elements(Updaters))
    BY DEF Machine
  <2> HIDE DEF v
  <2> QED BY <2>1, <2>2, WithUnits
<1> QED BY <1>1, <1>2, <1>3, <1>4, <1>5, <1>6 DEF HardeningFixes

LEMMA SecFixedStays ==
    ASSUME NEW h, Machine(h), NEW f, f.title \in SecFixes
    PROVE  Machine(SecFixed(f, h))
<1>1. CASE f.title = "gtfobin"
  <2> DEFINE v == h.setid \ {b \in {f.of} : Binaries[b].setuid}
  <2>1. SecFixed(f, h) = [h EXCEPT !.setid = v]
    BY <1>1 DEF SecFixed
  <2>2. v \in SUBSET DOMAIN Binaries
    BY DEF Machine
  <2> HIDE DEF v
  <2> QED BY <2>1, <2>2, WithSetid
<1>2. CASE f.title = "danger"
  <2> DEFINE v == h.dangers \ {f.of}
  <2>1. SecFixed(f, h) = [h EXCEPT !.dangers = v]
    BY <1>2 DEF SecFixed
  <2>2. v \in SUBSET STRING
    BY DEF Machine
  <2> HIDE DEF v
  <2> QED BY <2>1, <2>2, WithDangers
<1>3. CASE f.title = "permissive"
  <2> DEFINE v == [h.mode EXCEPT ![f.of] = SENSITIVE_FILES[f.of]]
  <2>1. SecFixed(f, h) = [h EXCEPT !.mode = v]
    BY <1>3 DEF SecFixed
  <2>2. v \in [DOMAIN SENSITIVE_FILES -> SUBSET Bits]
    <3>1. h.mode \in [DOMAIN SENSITIVE_FILES -> SUBSET Bits]
      BY DEF Machine
    <3>2. SENSITIVE_FILES \in [DOMAIN SENSITIVE_FILES -> SUBSET Bits]
      BY DEF SENSITIVE_FILES, Bits
    <3> QED BY <3>1, <3>2
  <2> HIDE DEF v
  <2> QED BY <2>1, <2>2, WithMode
<1>4. CASE f.title = "wrongOwner"
  <2> DEFINE v == [h.owner EXCEPT ![f.of] = "root"]
  <2>1. SecFixed(f, h) = [h EXCEPT !.owner = v]
    BY <1>4 DEF SecFixed
  <2>2. v \in [DOMAIN SENSITIVE_FILES -> {"absent", "root", "other"}]
    <3>1. h.owner \in [DOMAIN SENSITIVE_FILES -> {"absent", "root", "other"}]
      BY DEF Machine
    <3>2. "root" \in {"absent", "root", "other"}
      OBVIOUS
    <3> QED BY <3>1, <3>2, UpdateIn
  <2> HIDE DEF v
  <2> QED BY <2>1, <2>2, WithOwner
<1> QED BY <1>1, <1>2, <1>3, <1>4 DEF SecFixes

LEMMA ContainerFixedStays ==
    ASSUME NEW h, Machine(h), NEW f, f.title \in ContainerFixes
    PROVE  Machine(ContainerFixed(f, h))
<1>1. CASE f.title = "worldSocket"
  <2> DEFINE v == [p \in DOMAIN h.sock |-> IF p = f.of THEN {8, 7, 5, 4} ELSE h.sock[p]]
  <2>1. ContainerFixed(f, h) = [h EXCEPT !.sock = v]
    BY <1>1 DEF ContainerFixed
  <2>2. v \in [DOMAIN h.sock -> SUBSET Bits]
    BY DEF Machine, Bits
  <2> HIDE DEF v
  <2> QED BY <2>1, <2>2, WithSock
<1>2. CASE f.title = "cloudFile"
  <2> DEFINE v == [p \in DOMAIN h.cloud |-> IF p = f.of THEN {8, 7} ELSE h.cloud[p]]
  <2>1. ContainerFixed(f, h) = [h EXCEPT !.cloud = v]
    BY <1>2 DEF ContainerFixed
  <2>2. v \in [DOMAIN h.cloud -> SUBSET Bits]
    BY DEF Machine, Bits
  <2> HIDE DEF v
  <2> QED BY <2>1, <2>2, WithCloud
<1> QED BY <1>1, <1>2 DEF ContainerFixes

LEMMA RedTeamFixedStays ==
    ASSUME NEW h, Machine(h), NEW f, f.title \in RedTeamFixes
    PROVE  Machine(RedTeamFixed(f, h))
<1>1. RedTeamFixed(f, h) \in {h, [h EXCEPT !.writes = Without(h.writes, f.of)],
                              [h EXCEPT !.secrets = Without(h.secrets, f.of)]}
  BY DEF RedTeamFixed, RedTeamFixes
<1> QED BY <1>1, WithWrites, WithSecrets

LEMMA SysReconFixedStays ==
    ASSUME NEW h, Machine(h), NEW f, f.title \in SysReconFixes
    PROVE  Machine(SysReconFixed(f, h))
<1>1. CASE f.title = "systemShell"
  <2> DEFINE v == [u \in DOMAIN h.accounts |-> IF u = f.of THEN "nologin" ELSE h.accounts[u]]
  <2>1. SysReconFixed(f, h) = [h EXCEPT !.accounts = v]
    BY <1>1 DEF SysReconFixed
  <2>2. v \in [DOMAIN h.accounts -> {"login", "nologin"}]
    BY DEF Machine
  <2> HIDE DEF v
  <2> QED BY <2>1, <2>2, WithAccounts
<1>2. CASE f.title = "emptyPassword"
  <2> DEFINE v == h.noPassword \ {f.of}
  <2>1. SysReconFixed(f, h) = [h EXCEPT !.noPassword = v]
    BY <1>2 DEF SysReconFixed
  <2>2. v \in SUBSET STRING
    BY DEF Machine
  <2> HIDE DEF v
  <2> QED BY <2>1, <2>2, WithNoPassword
<1>3. CASE f.title = "writableScript"
  <2>1. SysReconFixed(f, h) = [h EXCEPT !.writes = Without(h.writes, f.of)]
    BY <1>3 DEF SysReconFixed
  <2> QED BY <2>1, WithWrites
<1> QED BY <1>1, <1>2, <1>3 DEF SysReconFixes

\* What a remediation makes of a machine is a machine.
LEMMA FixedIsMachine ==
    ASSUME NEW h, Machine(h), NEW f, f.title \in Fixes, f.title = "kernel" => f.of \in Parameters
    PROVE  Machine(Fixed(f, h))
<1>1. /\ f.title \in NetFixes       => Fixed(f, h) = NetFixed(f, h)
      /\ f.title \in HardeningFixes => Fixed(f, h) = HardeningFixed(f, h)
      /\ f.title \in SecFixes       => Fixed(f, h) = SecFixed(f, h)
      /\ f.title \in ContainerFixes => Fixed(f, h) = ContainerFixed(f, h)
      /\ f.title \in RedTeamFixes   => Fixed(f, h) = RedTeamFixed(f, h)
      /\ f.title \in SysReconFixes  => Fixed(f, h) = SysReconFixed(f, h)
  BY DEF Fixed, NetFixes, HardeningFixes, SecFixes, ContainerFixes, RedTeamFixes, SysReconFixes
<1> QED BY <1>1, NetFixedStays, HardeningFixedStays, SecFixedStays, ContainerFixedStays,
           RedTeamFixedStays, SysReconFixedStays DEF Fixes

-----------------------------------------------------------------------------
(***************************************************************************)
(* The least and the greatest of some numbers.                             *)
(***************************************************************************)
LEMMA LeastOf ==
    ASSUME NEW S, S \subseteq Nat, S # {}
    PROVE  \E k \in S : \A m \in S : k <= m
<1> DEFINE R == {p \in Nat \X Nat : p[1] < p[2]}
<1>1. IsWellFoundedOn(R, Nat)
  BY NatLessThanWellFounded DEF OpToRel
<1>2. \A m, k \in Nat : <<m, k>> \in R <=> m < k
  OBVIOUS
<1> HIDE DEF R
<1>3. PICK k \in S : \A m \in S : ~(<<m, k>> \in R)
  BY <1>1, WFMin
<1>4. ASSUME NEW m \in S
      PROVE  k <= m
  <2>1. m \in Nat /\ k \in Nat
    OBVIOUS
  <2>2. ~(m < k)
    BY <1>2, <1>3, <2>1
  <2> QED BY <2>1, <2>2
<1> QED BY <1>4

LEMMA GreatestOf ==
    ASSUME NEW n \in Nat, NEW S, S \subseteq 1 .. n, S # {}
    PROVE  \E k \in S : \A m \in S : m <= k
<1> DEFINE T == {d \in Nat : n - d \in S}
<1>1. T \subseteq Nat /\ T # {}
  <2>1. PICK k \in S : TRUE
    OBVIOUS
  <2>2. k \in 1 .. n /\ n - k \in Nat /\ n - (n - k) = k
    OBVIOUS
  <2> QED BY <2>1, <2>2
<1>2. PICK d \in T : \A m \in T : d <= m
  <2> HIDE DEF T
  <2> QED BY <1>1, LeastOf
<1>3. ASSUME NEW m \in S
      PROVE  m <= n - d
  <2>1. m \in 1 .. n /\ n - m \in Nat /\ n - (n - m) = m
    OBVIOUS
  <2>2. n - m \in T /\ d \in Nat
    BY <2>1
  <2>3. d <= n - m
    BY <1>2, <2>2
  <2> QED BY <2>1, <2>2, <2>3
<1> QED BY <1>2, <1>3

-----------------------------------------------------------------------------
(***************************************************************************)
(* What the commands say, question by question.                            *)
(***************************************************************************)
LEMMA SecReply ==
    ASSUME NEW h, NEW k, NEW q \in SecQuestions
    PROVE  RepliesOf(h, q, k) = SecReplies(h, q)
BY DEF RepliesOf, NetQuestions, HardeningQuestions, SecQuestions, LogQuestions, ContainerQuestions,
   RedTeamQuestions, SysReconQuestions

LEMMA ContainerReply ==
    ASSUME NEW h, NEW k, NEW q \in ContainerQuestions
    PROVE  RepliesOf(h, q, k) = ContainerReplies(h, q)
BY DEF RepliesOf, NetQuestions, HardeningQuestions, SecQuestions, LogQuestions, ContainerQuestions,
   RedTeamQuestions, SysReconQuestions

LEMMA RedTeamReply ==
    ASSUME NEW h, NEW k, NEW q \in RedTeamQuestions
    PROVE  RepliesOf(h, q, k) = RedTeamReplies(h, q)
BY DEF RepliesOf, NetQuestions, HardeningQuestions, SecQuestions, LogQuestions, ContainerQuestions,
   RedTeamQuestions, SysReconQuestions

LEMMA SysReconReply ==
    ASSUME NEW h, NEW k, NEW q \in SysReconQuestions
    PROVE  RepliesOf(h, q, k) = SysReconReplies(h, q)
BY DEF RepliesOf, NetQuestions, HardeningQuestions, SecQuestions, LogQuestions, ContainerQuestions,
   RedTeamQuestions, SysReconQuestions

LEMMA NetSays ==
    ASSUME NEW h, NEW k
    PROVE  /\ RepliesOf(h, "ports", k) = Tool(h.tool # "none", {"header"} \cup
                                        IF h.tool = "ss" THEN h.listening ELSE {"anyPeer"})
           /\ RepliesOf(h, "promisc", k) = Tool("promisc" \in h.dangers, {"promisc"})
           /\ RepliesOf(h, "neigh", k) = {<<h.neighbours, 0>>}
<1>1. {"ports", "promisc", "neigh"} \subseteq NetQuestions
  BY DEF NetQuestions
<1>2. /\ NetReplies(h, "ports") = Tool(h.tool # "none", {"header"} \cup
                                        IF h.tool = "ss" THEN h.listening ELSE {"anyPeer"})
      /\ NetReplies(h, "promisc") = Tool("promisc" \in h.dangers, {"promisc"})
      /\ NetReplies(h, "neigh") = {<<h.neighbours, 0>>}
  BY DEF NetReplies
<1> QED BY <1>1, <1>2, NetReply

LEMMA ConnectionsSay ==
    ASSUME NEW h, NEW k
    PROVE  RepliesOf(h, "connections", k) = Tool(h.tool # "none", h.connected \cup
                                        IF h.tool = "ss" THEN {"ssHeader"} ELSE {})
<1>1. "connections" \in NetQuestions
  BY DEF NetQuestions
<1>2. NetReplies(h, "connections") = Tool(h.tool # "none", h.connected \cup
                                        IF h.tool = "ss" THEN {"ssHeader"} ELSE {})
  BY DEF NetReplies
<1> QED BY <1>1, <1>2, NetReply

LEMMA HardeningSays ==
    ASSUME NEW h, NEW k
    PROVE  /\ RepliesOf(h, "mount", k) = {<<{"root"} \cup h.mounts, 0>>}
           /\ RepliesOf(h, "services", k) = IsActive(h, ServiceOrder[k])
<1>1. {"mount", "services"} \subseteq HardeningQuestions
  BY DEF HardeningQuestions
<1>2. /\ HardeningReplies(h, "mount", k) = {<<{"root"} \cup h.mounts, 0>>}
      /\ HardeningReplies(h, "services", k) = IsActive(h, ServiceOrder[k])
  BY DEF HardeningReplies
<1> QED BY <1>1, <1>2, HardeningReply

LEMMA SecSays ==
    ASSUME NEW h, NEW k
    PROVE  /\ RepliesOf(h, "suid", k) = {<<h.setid, 0>>, <<h.setid, 1>>}
           /\ RepliesOf(h, "worldFiles", k) = {<<{"worldFiles"} \cap h.dangers, 0>>,
                  <<{"worldFiles"} \cap h.dangers, 1>>}
           /\ RepliesOf(h, "worldDirs", k) = {<<{"worldDirs"} \cap h.dangers, 0>>,
                  <<{"worldDirs"} \cap h.dangers, 1>>}
           /\ RepliesOf(h, "unowned", k) = {<<{"unowned"} \cap h.dangers, 0>>,
                  <<{"unowned"} \cap h.dangers, 1>>}
           /\ RepliesOf(h, "getcap", k) = {<<{b \in DOMAIN Binaries : Binaries[b].cap}, 0>>}
<1>1. {"suid", "worldFiles", "worldDirs", "unowned", "getcap"} \subseteq SecQuestions
  BY DEF SecQuestions
<1>2. /\ SecReplies(h, "suid") = {<<h.setid, 0>>, <<h.setid, 1>>}
      /\ SecReplies(h, "worldFiles") = {<<{"worldFiles"} \cap h.dangers, 0>>,
                  <<{"worldFiles"} \cap h.dangers, 1>>}
      /\ SecReplies(h, "worldDirs") = {<<{"worldDirs"} \cap h.dangers, 0>>,
                  <<{"worldDirs"} \cap h.dangers, 1>>}
      /\ SecReplies(h, "unowned") = {<<{"unowned"} \cap h.dangers, 0>>,
                  <<{"unowned"} \cap h.dangers, 1>>}
      /\ SecReplies(h, "getcap") = {<<{b \in DOMAIN Binaries : Binaries[b].cap}, 0>>}
  BY DEF SecReplies
<1> QED BY <1>1, <1>2, SecReply

LEMMA ContainerSays ==
    ASSUME NEW h, NEW k
    PROVE  /\ RepliesOf(h, "tcp", k) = IF h.tool = "none" THEN {<<{}, 127>>}
                  ELSE {<<{"header"} \cup h.tcp, 0>>}
           /\ RepliesOf(h, "imds", k) = IF h.imds = "none" THEN {<<{}, 7>>, <<{}, 28>>}
                  ELSE {<<{h.imds}, 0>>}
<1>1. {"tcp", "imds"} \subseteq ContainerQuestions
  BY DEF ContainerQuestions
<1>2. /\ ContainerReplies(h, "tcp") = IF h.tool = "none" THEN {<<{}, 127>>}
                  ELSE {<<{"header"} \cup h.tcp, 0>>}
      /\ ContainerReplies(h, "imds") = IF h.imds = "none" THEN {<<{}, 7>>, <<{}, 28>>}
                  ELSE {<<{h.imds}, 0>>}
  BY DEF ContainerReplies
<1> QED BY <1>1, <1>2, ContainerReply

LEMMA RedTeamSays ==
    ASSUME NEW h, NEW k
    PROVE  /\ RepliesOf(h, "sudoL", k) = IF h.sudo = {} THEN {<<{}, 1>>} ELSE {<<h.sudo, 0>>}
           /\ RepliesOf(h, "sda", k) = IF "sda" \in h.marks THEN {<<{"sda"}, 0>>} ELSE {<<{}, 2>>}
           /\ RepliesOf(h, "uname", k) = {<<{h.kernel}, 0>>}
<1>1. {"sudoL", "sda", "uname"} \subseteq RedTeamQuestions
  BY DEF RedTeamQuestions
<1>2. /\ RedTeamReplies(h, "sudoL") = IF h.sudo = {} THEN {<<{}, 1>>} ELSE {<<h.sudo, 0>>}
      /\ RedTeamReplies(h, "sda") = IF "sda" \in h.marks THEN {<<{"sda"}, 0>>} ELSE {<<{}, 2>>}
      /\ RedTeamReplies(h, "uname") = {<<{h.kernel}, 0>>}
  BY DEF RedTeamReplies
<1> QED BY <1>1, <1>2, RedTeamReply

LEMMA SysReconSays ==
    ASSUME NEW h, NEW k
    PROVE  /\ RepliesOf(h, "kernelName", k) = {<<{h.kernel}, 0>>}
           /\ RepliesOf(h, "ps", k) = {<<{"header"} \cup h.procs, 0>>}
           /\ RepliesOf(h, "crontab", k) = IF h.crontab = {} THEN {<<{}, 1>>} ELSE {<<h.crontab, 0>>}
<1>1. {"kernelName", "ps", "crontab"} \subseteq SysReconQuestions
  BY DEF SysReconQuestions
<1>2. /\ SysReconReplies(h, "kernelName") = {<<{h.kernel}, 0>>}
      /\ SysReconReplies(h, "ps") = {<<{"header"} \cup h.procs, 0>>}
      /\ SysReconReplies(h, "crontab") = IF h.crontab = {} THEN {<<{}, 1>>} ELSE {<<h.crontab, 0>>}
  BY DEF SysReconReplies
<1> QED BY <1>1, <1>2, SysReconReply

\* An output, or a code other than run_cmd's own, is a command's.
LEMMA Heard ==
    ASSUME AnswerTrue, NEW q, Decide(q), call.out # {} \/ call.rc # -1
    PROVE  /\ step = q
           /\ \E h \in seen : \E r \in RepliesOf(h, q, i) : call.out = r[1] /\ call.rc = r[2]
BY DEF AnswerTrue, Decide

-----------------------------------------------------------------------------
(***************************************************************************)
(* A finding fits if it is well typed, can be remedied if it is one that   *)
(* has a remedy, and is founded if it claims something.                    *)
(***************************************************************************)
Severities == {"INFO", "LOW", "MEDIUM", "HIGH", "CRITICAL"}
Fit(f) ==
    /\ IsFinding(f)
    /\ f.title = "kernel" => f.of \in Parameters
    /\ f.title \in Claims => Founded(f)
FindingsFit == \A f \in findings : Fit(f)

LEMMA ClaimFits ==
    ASSUME NEW title \in Titles, NEW of, NEW sev \in Severities,
           title = "kernel" => of \in Parameters, Founded(Finding(title, of, sev))
    PROVE  Fit(Finding(title, of, sev))
BY DEF Fit, IsFinding, Severities, Finding

LEMMA OtherFits ==
    ASSUME NEW title \in Titles \ Claims, NEW of, NEW sev \in Severities
    PROVE  Fit(Finding(title, of, sev))
<1>1. "kernel" \in Claims
  BY DEF Claims, Titles, HardeningTitles, Absences, Inventories
<1> QED BY <1>1 DEF Fit, IsFinding, Severities, Finding

\* What is true of one machine seen is founded.
LEMMA TruthFits ==
    ASSUME NEW title \in Titles, NEW of, NEW sev \in Severities,
           title = "kernel" => of \in Parameters,
           NEW h \in seen, Finding(title, of, sev) \in Truth(h)
    PROVE  Fit(Finding(title, of, sev))
BY ClaimFits DEF Founded

\* What is noted of one machine seen is founded, too.
LEMMA NotedFits ==
    ASSUME NEW title \in Titles \ {"kernel"}, NEW of, NEW sev \in Severities,
           NEW h \in seen, Noted(Finding(title, of, sev), h)
    PROVE  Fit(Finding(title, of, sev))
BY ClaimFits DEF Founded

LEMMA PartsOf ==
    ASSUME NEW title, NEW of, NEW sev
    PROVE  /\ Finding(title, of, sev).title = title
           /\ Finding(title, of, sev).of = of
           /\ Finding(title, of, sev).sev = sev
BY DEF Finding

\* What is made of a content fits if it does for each rule that is broken.
LEMMA RulesFit ==
    ASSUME NEW s, NEW rules, NEW content, NEW f \in Judged(s, rules, content),
           \A r \in rules : content # {} /\ (r.word \in content) = r.bad => Fit(Finding(r.title, s, r.sev))
    PROVE  Fit(f)
BY Zenon DEF Judged, Broken

\* A rule that was broken because of a word.
LEMMA WordBroken ==
    ASSUME NEW s, NEW word, NEW title, NEW sev, NEW content,
           NEW f \in Judged(s, {Rule(word, TRUE, title, sev)}, content)
    PROVE  f = Finding(title, s, sev) /\ word \in content
<1> DEFINE rule == Rule(word, TRUE, title, sev)
<1>1. rule.word = word /\ rule.bad = TRUE /\ rule.title = title /\ rule.sev = sev
  BY DEF Rule
<1> HIDE DEF rule
<1>2. PICK r \in Broken({rule}, content) : f = Finding(r.title, s, r.sev)
  BY DEF Judged, rule
<1>3. r = rule /\ (r.word \in content) = r.bad
  BY <1>2, Zenon DEF Broken
<1>4. word \in content
  BY <1>1, <1>3, Zenon
<1> QED BY <1>1, <1>2, <1>3, <1>4

\* And because one was not there.
LEMMA WordMissing ==
    ASSUME NEW s, NEW word, NEW title, NEW sev, NEW content,
           NEW f \in Judged(s, {Rule(word, FALSE, title, sev)}, content)
    PROVE  f = Finding(title, s, sev) /\ content # {} /\ word \notin content
<1> DEFINE rule == Rule(word, FALSE, title, sev)
<1>1. rule.word = word /\ rule.bad = FALSE /\ rule.title = title /\ rule.sev = sev
  BY DEF Rule
<1> HIDE DEF rule
<1>2. PICK r \in Broken({rule}, content) : f = Finding(r.title, s, r.sev)
  BY DEF Judged, rule
<1>3. r = rule /\ content # {} /\ (r.word \in content) = r.bad
  BY <1>2, Zenon DEF Broken
<1>4. word \notin content
  BY <1>1, <1>3, Zenon
<1> QED BY <1>1, <1>2, <1>3, <1>4

LEMMA FirstOfOne ==
    ASSUME NEW file
    PROVE  FirstOf(<<file>>) = host.files[file]
<1> DEFINE files == <<file>>
           yield == {k \in 1 .. Len(files) : host.files[files[k]] # {}}
<1>1. Len(files) = 1 /\ files[1] = file
  OBVIOUS
<1>2. FirstOf(files) = IF yield = {} THEN {}
                       ELSE host.files[files[CHOOSE k \in yield : \A m \in yield : k <= m]]
  BY DEF FirstOf
<1>3. CASE host.files[file] = {}
  BY <1>1, <1>2, <1>3
<1>4. CASE host.files[file] # {}
  <2>1. yield = {1}
    BY <1>1, <1>4
  <2>2. (CHOOSE k \in yield : \A m \in yield : k <= m) = 1
    BY <2>1
  <2> QED BY <1>1, <1>2, <2>1, <2>2
<1> QED BY <1>3, <1>4

\* What the first of some files yields is what one of them holds.
LEMMA FirstOfSome ==
    ASSUME NEW files, Len(files) \in Nat, FirstOf(files) # {}
    PROVE  \E k \in 1 .. Len(files) : FirstOf(files) = host.files[files[k]]
<1> DEFINE yield == {k \in 1 .. Len(files) : host.files[files[k]] # {}}
           first == CHOOSE k \in yield : \A m \in yield : k <= m
<1>1. FirstOf(files) = IF yield = {} THEN {} ELSE host.files[files[first]]
  BY DEF FirstOf
<1>2. yield \subseteq Nat /\ yield # {} /\ yield \subseteq 1 .. Len(files)
  <2>1. yield \subseteq Nat /\ yield \subseteq 1 .. Len(files)
    OBVIOUS
  <2>2. yield # {}
    <3> HIDE DEF yield, first
    <3> QED BY <1>1
  <2> QED BY <2>1, <2>2
<1>3. \E k \in yield : \A m \in yield : k <= m
  <2> HIDE DEF yield
  <2> QED BY <1>2, LeastOf
<1>4. first \in yield
  <2> HIDE DEF yield
  <2> QED BY <1>3
<1> QED BY <1>1, <1>2, <1>4

\* The titles that are no claims; and some of those that are.
LEMMA Unclaimed ==
    {"listeningServices", "noFirewall", "interfaces", "kernelTally", "noMac", "noNtp", "noUpdates",
     "setidSummary", "permissive", "bruteForce", "lastLogins", "systemInfo",
     "accountSummary", "processSummary", "cronJobs", "kernelModules", "filesystems"}
        \subseteq Titles \ Claims
BY DEF Titles, NetTitles, HardeningTitles, SecTitles, LogTitles, AuthTitles, ContainerTitles,
   RedTeamTitles, SysReconTitles, Claims, Absences, Inventories

LEMMA ClaimTitles ==
    /\ "kernel" \in Titles
    /\ {"dangerousPort", "externalConnections", "firewallRules", "defaultAccept", "dns", "publicDns",
        "promiscuous", "forwarding", "arpSpoofing"} \subseteq Titles \ {"kernel"}
    /\ {"selinuxEnforcing", "selinuxPermissive", "selinuxDisabled", "apparmorActive",
        "apparmorEmpty", "suidDumpable", "coreDumps", "usbStorage", "tmpShared", "tmpOptions",
        "vartmpNoexec", "ntpActive", "bootloader", "service", "autoUpdates"}
           \subseteq Titles \ {"kernel"}
    /\ {"gtfobin", "danger", "ssh", "sudoNopasswdAll", "sudoNopasswd", "sudoShell", "noLockout",
        "passwordExpiry", "passwordLength", "capability", "wrongOwner"} \subseteq Titles \ {"kernel"}
    /\ {"failedLogins", "accepted", "sudo", "su", "oom", "panic", "segfault", "emptyLog",
        "shortLog"} \subseteq Titles \ {"kernel"}
    /\ {"worldSocket", "groupSocket", "dockerTcp", "insideContainer", "privileged", "cloudFile",
        "imds"} \subseteq Titles \ {"kernel"}
    /\ {"writablePath", "pathHasDot", "sudoPrivesc", "dockerSocket", "insideContainer",
        "hostDevices", "privateKey", "awsKey", "password", "history", "writableUnit", "ldPreload",
        "ldLibraryPath", "libraryPath", "kernelCves", "cronDir", "cronPath", "sharesPid"}
           \subseteq Titles \ {"kernel"}
    /\ {"outdatedKernel", "uid0", "systemShell", "emptyPassword", "suspicious", "writableScript",
        "secretVariable"} \subseteq Titles \ {"kernel"}
BY DEF Titles, NetTitles, HardeningTitles, SecTitles, LogTitles, AuthTitles, ContainerTitles,
   RedTeamTitles, SysReconTitles

-----------------------------------------------------------------------------
(***************************************************************************)
(* Check by check, what a module adds to the findings fits.                *)
(***************************************************************************)
NewFit == \A f \in findings' \ findings : Fit(f)

\* What a report adds fits if it fits.
LEMMA ReportFits ==
    ASSUME NEW fs, NEW es, Report(fs, es), \A f \in fs : Fit(f)
    PROVE  NewFit
BY DEF Report, NewFit

LEMMA PresenceFits ==
    ASSUME NEW q, NEW finding, NEW next, Presence(q, finding, next), call.out # {} => Fit(finding)
    PROVE  NewFit
BY DEF Presence, Report, Nothing, NewFit

\* netaudit.
LEMMA NetTruths ==
    ASSUME NEW h, module = "netaudit"
    PROVE  /\ \A s \in h.listening :
                  h.tool = "ss" /\ Sockets[s].port \in DANGEROUS_PORTS /\ ~Loopback6(s) =>
                      DangerousPort(s, Wide(s)) \in Truth(h)
           /\ \A c \in h.accepting :
                  h.root /\ h.iptables => Finding("defaultAccept", c, "HIGH") \in Truth(h)
           /\ "public" \in h.files["resolv"] => Finding("publicDns", "resolv", "LOW") \in Truth(h)
           /\ "promisc" \in h.dangers => Finding("promiscuous", "promisc", "HIGH") \in Truth(h)
           /\ "1" \in h.files["ip_forward"] =>
                  Finding("forwarding", "forward", "MEDIUM") \in Truth(h)
           /\ \A n, m \in h.neighbours :
                  Neighbours[m].mac = Neighbours[n].mac /\ Neighbours[m].ip # Neighbours[n].ip =>
                      Finding("arpSpoofing", Neighbours[n].mac, "HIGH") \in Truth(h)
<1>1. Truth(h) = NetTruth(h)
  BY DEF Truth
<1> QED BY <1>1 DEF NetTruth

LEMMA NetNotes ==
    ASSUME NEW h
    PROVE  /\ h.root /\ h.iptables => Noted(Finding("firewallRules", "iptables", "INFO"), h)
           /\ h.root /\ h.nft = "rules" => Noted(Finding("firewallRules", "nft", "INFO"), h)
           /\ h.tool = "netstat" /\ External(h.connected) # {} =>
                  Noted(Finding("externalConnections", "connections", "MEDIUM"), h)
           /\ h.files["resolv"] \cap {"public", "private"} # {} =>
                  Noted(Finding("dns", "resolv", "INFO"), h)
<1>1. \A f : NetNoted(f, h) => Noted(f, h)
  BY DEF Noted
<1> QED BY <1>1, PartsOf DEF NetNoted

LEMMA NetFits ==
    ASSUME AnswerTrue, host \in seen, \A h \in seen : Machine(h), module = "netaudit", NetAuditRun
    PROVE  NewFit
<1>s. \A sev \in {"INFO", "LOW", "MEDIUM", "HIGH", "CRITICAL"} : sev \in Severities
  BY DEF Severities
<1>t. {"dangerousPort", "externalConnections", "firewallRules", "defaultAccept", "dns", "publicDns",
       "promiscuous", "forwarding", "arpSpoofing"} \subseteq Titles \ {"kernel"}
  BY ClaimTitles
<1>1. CASE NetAvailable
  BY <1>1 DEF NetAvailable, Nothing, NewFit
<1>7. CASE CheckActiveConnections
  <2>1. CASE External(call.out) = {}
    BY <1>7, <2>1 DEF CheckActiveConnections, Nothing, NewFit
  <2>2. CASE External(call.out) # {}
    <3>1. call.out # {}
      BY <2>2 DEF External
    <3>2. PICK h \in seen : \E r \in RepliesOf(h, "connections", i) :
              call.out = r[1] /\ call.rc = r[2]
      BY <1>7, <3>1, Heard DEF CheckActiveConnections
    <3>3. h.tool \in {"ss", "netstat", "none"}
      BY DEF Machine
    <3>4. RepliesOf(h, "connections", i) = Tool(h.tool # "none", h.connected \cup
                                        IF h.tool = "ss" THEN {"ssHeader"} ELSE {})
      BY ConnectionsSay
    <3>5. h.tool # "none"
      BY <3>1, <3>2, <3>4 DEF Tool
    <3>6. call.out = h.connected \cup IF h.tool = "ss" THEN {"ssHeader"} ELSE {}
      BY <3>2, <3>4, <3>5 DEF Tool
    <3>7. ASSUME h.tool = "netstat"
          PROVE  Fit(Finding("externalConnections", "connections", "MEDIUM"))
      <4>1. External(h.connected) # {}
        BY <2>2, <3>6, <3>7
      <4>2. Noted(Finding("externalConnections", "connections", "MEDIUM"), h)
        BY <3>7, <4>1, NetNotes
      <4> QED BY <4>2, <1>s, <1>t, NotedFits
    <3>8. ASSUME h.tool = "ss"
          PROVE  Fit(Finding("externalConnections", "connections", "MEDIUM"))
      <4>1. Founded(Finding("externalConnections", "connections", "MEDIUM"))
        BY <3>8 DEF Founded, Mistaken, Finding
      <4> QED BY <4>1, <1>s, <1>t, ClaimFits
    <3>9. Fit(Finding("externalConnections", "connections", "MEDIUM"))
      BY <3>3, <3>5, <3>7, <3>8
    <3> QED BY <1>7, <2>2, <3>9 DEF CheckActiveConnections, Report, NewFit
  <2> QED BY <2>1, <2>2
<1>8. CASE CheckNft
  <2>1. CASE call.rc # 0 \/ call.out = {}
    <3>1. Fit(Finding("noFirewall", "firewall", "HIGH"))
      BY <1>s, Unclaimed, OtherFits
    <3> QED BY <1>8, <2>1, <3>1 DEF CheckNft, Report, NewFit
  <2>2. CASE ~(call.rc # 0 \/ call.out = {})
    <3>1. PICK h \in seen : \E r \in RepliesOf(h, "nft", i) : call.out = r[1] /\ call.rc = r[2]
      BY <1>8, <2>2, Heard DEF CheckNft
    <3>2. h.root /\ h.nft = "rules"
      BY <2>2, <3>1, FirewallReplies DEF Tool
    <3>3. Fit(Finding("firewallRules", "nft", "INFO"))
      BY <3>2, <1>s, <1>t, NetNotes, NotedFits
    <3> QED BY <1>8, <2>2, <3>3 DEF CheckNft, Report, NewFit
  <2> QED BY <2>1, <2>2
<1>2. CASE CheckListeningPorts
  <2>1. CASE call.out = {}
    BY <1>2, <2>1 DEF CheckListeningPorts, Report, NewFit
  <2>2. CASE call.out # {}
    <3>1. PICK h \in seen : \E r \in RepliesOf(h, "ports", i) : call.out = r[1] /\ call.rc = r[2]
      BY <1>2, <2>2, Heard DEF CheckListeningPorts
    <3>2. call.out = {"header"} \cup IF h.tool = "ss" THEN h.listening ELSE {"anyPeer"}
      BY <2>2, <3>1, NetSays DEF Tool
    <3>3. ASSUME NEW s \in Dangerous(call.out)
          PROVE  Fit(DangerousPort(s, BindAll(Sockets[s].addr)))
      <4>1. s \in call.out /\ s \in DOMAIN Sockets /\ Sockets[s].port \in DANGEROUS_PORTS
        BY DEF Dangerous
      <4>2. h.tool = "ss" /\ s \in h.listening
        BY <3>2, <4>1, SocketAssumption
      <4>3. PICK sev \in Severities :
                DangerousPort(s, BindAll(Sockets[s].addr)) = Finding("dangerousPort", s, sev)
        BY <1>s DEF DangerousPort
      <4>4. CASE Loopback6(s)
        <5>1. Mistaken(Finding("dangerousPort", s, sev))
          BY <4>4 DEF Mistaken, Finding
        <5> QED BY <4>3, <5>1, <1>t, ClaimFits DEF Founded
      <4>5. CASE ~Loopback6(s)
        <5>1. BindAll(Sockets[s].addr) <=> Wide(s)
          BY <4>5 DEF BindAll, Wide, Loopback6
        <5>2. Finding("dangerousPort", s, sev) \in Truth(h)
          <6>1. DangerousPort(s, BindAll(Sockets[s].addr)) = DangerousPort(s, Wide(s))
            BY <5>1 DEF DangerousPort
          <6> QED BY <4>1, <4>2, <4>3, <4>5, <6>1, NetTruths
        <5> QED BY <4>3, <5>2, <1>t, TruthFits
      <4> QED BY <4>4, <4>5
    <3>4. Fit(Finding("listeningServices", "ports", "INFO"))
      BY <1>s, Unclaimed, OtherFits
    <3> QED BY <1>2, <2>2, <3>3, <3>4 DEF CheckListeningPorts, Report, NewFit
  <2> QED BY <2>1, <2>2
<1>3. CASE CheckIptables
  <2>1. CASE call.rc # 0 \/ call.out = {}
    BY <1>3, <2>1 DEF CheckIptables, Nothing, NewFit
  <2>2. CASE ~(call.rc # 0 \/ call.out = {})
    <3>1. PICK h \in seen : \E r \in RepliesOf(h, "iptables", i) : call.out = r[1] /\ call.rc = r[2]
      BY <1>3, <2>2, Heard DEF CheckIptables
    <3>2. h.root /\ h.iptables /\ call.out = {"chains"} \cup h.accepting
      BY <2>2, <3>1, FirewallReplies DEF Tool
    <3>3. ASSUME NEW c \in call.out \cap {"INPUT", "FORWARD"}
          PROVE  Fit(Finding("defaultAccept", c, "HIGH"))
      <4>1. Finding("defaultAccept", c, "HIGH") \in Truth(h)
        BY <3>2, NetTruths
      <4> QED BY <4>1, <1>s, <1>t, TruthFits
    <3>4. Fit(Finding("firewallRules", "iptables", "INFO"))
      BY <3>2, <1>s, <1>t, NetNotes, NotedFits
    <3> QED BY <1>3, <2>2, <3>3, <3>4 DEF CheckIptables, Report, NewFit
  <2> QED BY <2>1, <2>2
<1>4. CASE CheckDns
  <2> DEFINE known == host.files["resolv"]
  <2>1. "public" \in known => Fit(Finding("publicDns", "resolv", "LOW"))
    BY <1>s, <1>t, NetTruths, TruthFits
  <2>2. known \cap {"public", "private"} # {} => Fit(Finding("dns", "resolv", "INFO"))
    BY <1>s, <1>t, NetNotes, NotedFits
  <2> QED BY <1>4, <2>1, <2>2 DEF CheckDns, Report, NewFit
<1>5. CASE CheckInterfaces
  <2>1. CASE Presence("interfaces", Finding("interfaces", "interfaces", "INFO"), "promisc")
    BY <2>1, <1>s, Unclaimed, OtherFits, PresenceFits
  <2>2. CASE Presence("promisc", Finding("promiscuous", "promisc", "HIGH"), "forward")
    <3>1. ASSUME call.out # {}
          PROVE  \E h \in seen : "promisc" \in h.dangers
      <4>1. PICK h \in seen :
                \E r \in RepliesOf(h, "promisc", i) : call.out = r[1] /\ call.rc = r[2]
        BY <2>2, <3>1, Heard DEF Presence
      <4> QED BY <3>1, <4>1, NetSays DEF Tool
    <3>2. call.out # {} => Fit(Finding("promiscuous", "promisc", "HIGH"))
      BY <3>1, <1>s, <1>t, NetTruths, TruthFits
    <3> QED BY <2>2, <3>2, PresenceFits
  <2>3. CASE ReadFor("forward", <<"ip_forward">>, {Rule("1", TRUE, "forwarding", "MEDIUM")}, "neigh")
    <3> DEFINE content == FirstOf(<<"ip_forward">>)
    <3>1. content = host.files["ip_forward"]
      BY FirstOfOne
    <3>2. ASSUME NEW f \in Judged("forward", {Rule("1", TRUE, "forwarding", "MEDIUM")}, content)
          PROVE  Fit(f)
      <4>1. f = Finding("forwarding", "forward", "MEDIUM") /\ "1" \in content
        BY WordBroken
      <4>2. f \in Truth(host)
        BY <3>1, <4>1, NetTruths
      <4> QED BY <4>1, <4>2, <1>s, <1>t, TruthFits
    <3> QED BY <2>3, <3>2, ReportFits DEF ReadFor
  <2> QED BY <1>5, <2>1, <2>2, <2>3 DEF CheckInterfaces
<1>6. CASE CheckArp
  <2>1. ASSUME NEW mac \in Shared(call.out)
        PROVE  Fit(Finding("arpSpoofing", mac, "HIGH"))
    <3>1. PICK n \in call.out : \E m \in call.out \ {n} :
              Neighbours[n].mac = mac /\ Neighbours[m].mac = mac
      BY <2>1 DEF Shared
    <3>2. PICK m \in call.out \ {n} : Neighbours[n].mac = mac /\ Neighbours[m].mac = mac
      BY <3>1
    <3>3. PICK h \in seen : \E r \in RepliesOf(h, "neigh", i) : call.out = r[1] /\ call.rc = r[2]
      BY <1>6, <3>1, Heard DEF CheckArp
    <3>4. call.out = h.neighbours
      <4>1. RepliesOf(h, "neigh", i) = {<<h.neighbours, 0>>}
        BY NetSays
      <4> QED BY <3>3, <4>1
    <3>5. CASE Neighbours[n].ip # Neighbours[m].ip
      <4>1. Finding("arpSpoofing", mac, "HIGH") \in Truth(h)
        BY <3>2, <3>4, <3>5, NetTruths
      <4> QED BY <4>1, <1>s, <1>t, TruthFits
    <3>6. CASE Neighbours[n].ip = Neighbours[m].ip
      <4>1. TwoInterfaces(h, mac)
        BY <3>2, <3>4, <3>6 DEF TwoInterfaces
      <4>2. Founded(Finding("arpSpoofing", mac, "HIGH"))
        BY <4>1 DEF Founded, Mistaken, Finding
      <4> QED BY <4>2, <1>s, <1>t, ClaimFits
    <3> QED BY <3>5, <3>6
  <2> QED BY <1>6, <2>1 DEF CheckArp, Report, NewFit
<1> QED BY <1>1, <1>2, <1>3, <1>4, <1>5, <1>6, <1>7, <1>8 DEF NetAuditRun

\* hardening.
LEMMA KernelSeverity ==
    \A k \in 1 .. Len(KERNEL_CHECKS) : KERNEL_CHECKS[k].sev \in Severities
<1>1. \A n, e, v, s : Param(n, e, v, s).sev = v
  BY DEF Param
<1>2. /\ Len(KERNEL_CHECKS) = 13
      /\ \A k \in 1 .. 13 : \E n, e, s : \E v \in {"LOW", "MEDIUM", "HIGH"} :
             KERNEL_CHECKS[k] = Param(n, e, v, s)
  BY DEF KERNEL_CHECKS
<1> QED BY <1>1, <1>2 DEF Severities

LEMMA HardeningTruths ==
    ASSUME NEW h, module = "hardening"
    PROVE  /\ \A p \in Elements(KERNEL_CHECKS) : h.param[p.name] \notin {"absent", p.expected} =>
                  Finding("kernel", p.name, p.sev) \in Truth(h)
           /\ h.selinux = "permissive" => Finding("selinuxPermissive", "mac", "MEDIUM") \in Truth(h)
           /\ "nonzero" \in h.files["suid_dumpable"] =>
                  Finding("suidDumpable", "dumpable", "MEDIUM") \in Truth(h)
           /\ \A s \in Elements(ServiceOrder) \cap h.units :
                  Finding("service", s, ServiceSeverity(s)) \in Truth(h)
           /\ "tmp" \notin h.mounts => Finding("tmpShared", "tmp", "MEDIUM") \in Truth(h)
           /\ \A o \in TmpOptions : "tmp" \in h.mounts /\ o \notin h.mounts =>
                  Finding("tmpOptions", "tmp", "MEDIUM") \in Truth(h)
<1>1. Truth(h) = HardeningTruth(h)
  BY DEF Truth
<1> QED BY <1>1 DEF HardeningTruth

LEMMA HardeningNotes ==
    ASSUME NEW h
    PROVE  /\ h.selinux = "enforcing" => Noted(Finding("selinuxEnforcing", "mac", "INFO"), h)
           /\ h.selinux = "disabled" /\ h.apparmor # "loaded" =>
                  Noted(Finding("selinuxDisabled", "mac", "HIGH"), h)
           /\ h.apparmor = "loaded" => Noted(Finding("apparmorActive", "mac", "INFO"), h)
           /\ h.apparmor = "empty" => Noted(Finding("apparmorEmpty", "mac", "MEDIUM"), h)
           /\ Lacks(h, "limits.conf", "core") => Noted(Finding("coreDumps", "limits", "LOW"), h)
           /\ h.files["modprobe.d"] \cap {"usb-storage", "usb_storage"} = {} =>
                  Noted(Finding("usbStorage", "modprobe", "LOW"), h)
           /\ "vartmp" \in h.mounts /\ "vartmp:noexec" \notin h.mounts =>
                  Noted(Finding("vartmpNoexec", "vartmp", "LOW"), h)
           /\ \A u \in h.units : Noted(Finding("ntpActive", u, "INFO"), h)
           /\ Lacks(h, "grub", "password") \/ Lacks(h, "grub2", "password") =>
                  Noted(Finding("bootloader", "grub", "MEDIUM"), h)
           /\ Updates(h) => Noted(Updating, h)
<1>1. \A f : HardeningNoted(f, h) => Noted(f, h)
  BY DEF Noted
<1>2. /\ h.selinux = "enforcing" => HardeningNoted(Finding("selinuxEnforcing", "mac", "INFO"), h)
      /\ h.selinux = "disabled" /\ h.apparmor # "loaded" =>
             HardeningNoted(Finding("selinuxDisabled", "mac", "HIGH"), h)
      /\ h.apparmor = "loaded" => HardeningNoted(Finding("apparmorActive", "mac", "INFO"), h)
      /\ h.apparmor = "empty" => HardeningNoted(Finding("apparmorEmpty", "mac", "MEDIUM"), h)
  BY PartsOf DEF HardeningNoted
<1>3. /\ Lacks(h, "limits.conf", "core") => HardeningNoted(Finding("coreDumps", "limits", "LOW"), h)
      /\ h.files["modprobe.d"] \cap {"usb-storage", "usb_storage"} = {} =>
             HardeningNoted(Finding("usbStorage", "modprobe", "LOW"), h)
      /\ "vartmp" \in h.mounts /\ "vartmp:noexec" \notin h.mounts =>
             HardeningNoted(Finding("vartmpNoexec", "vartmp", "LOW"), h)
      /\ \A u \in h.units : HardeningNoted(Finding("ntpActive", u, "INFO"), h)
  BY PartsOf DEF HardeningNoted
<1>4. /\ Lacks(h, "grub", "password") \/ Lacks(h, "grub2", "password") =>
             HardeningNoted(Finding("bootloader", "grub", "MEDIUM"), h)
      /\ Updates(h) => HardeningNoted(Updating, h)
  BY PartsOf DEF HardeningNoted, Updating
<1> QED BY <1>1, <1>2, <1>3, <1>4

\* aa-status lists profiles only where they are, and ends well without any only
\* where there are none.
LEMMA AaStatusSays ==
    ASSUME NEW h, Machine(h), NEW k, NEW r \in RepliesOf(h, "aaStatus", k)
    PROVE  /\ "profiles" \in r[1] => h.apparmor = "loaded"
           /\ "profiles" \notin r[1] /\ r[2] = 0 /\ r[1] # {} => h.apparmor = "empty"
<1>1. "aaStatus" \in HardeningQuestions
  BY DEF HardeningQuestions
<1>2. HardeningReplies(h, "aaStatus", k) =
          IF h.apparmor = "absent" THEN {<<{}, 127>>}
          ELSE IF ~h.root THEN {<<{"loaded"}, 4>>}
          ELSE IF h.apparmor = "loaded" THEN {<<{"loaded", "profiles"}, 0>>}
          ELSE {<<{"loaded"}, 0>>, <<{"loaded"}, 2>>}
  BY DEF HardeningReplies
<1>3. h.apparmor \in {"absent", "empty", "loaded"}
  BY DEF Machine
<1> QED BY <1>1, <1>2, <1>3, HardeningReply

\* A unit of which systemctl says in either word, with code 0, that it is
\* active is so.
LEMMA ActiveUnit ==
    ASSUME NEW h, NEW unit, NEW r \in IsActive(h, unit), r[2] = 0
    PROVE  unit \in h.units
BY DEF IsActive

LEMMA HardeningFits ==
    ASSUME AnswerTrue, InList, host \in seen, \A h \in seen : Machine(h),
           module = "hardening", HardeningRun
    PROVE  NewFit
<1>s. \A sev \in {"INFO", "LOW", "MEDIUM", "HIGH", "CRITICAL"} : sev \in Severities
  BY DEF Severities
<1>k. "kernel" \in Titles
  BY ClaimTitles
<1>t. {"selinuxEnforcing", "selinuxPermissive", "selinuxDisabled", "apparmorActive",
       "apparmorEmpty", "suidDumpable", "coreDumps", "usbStorage", "tmpShared", "tmpOptions",
       "vartmpNoexec", "ntpActive", "bootloader", "service", "autoUpdates"}
          \subseteq Titles \ {"kernel"}
  BY ClaimTitles
<1>1. CASE CheckKernelParam
  <2> DEFINE p == KERNEL_CHECKS[i]
  <2>1. p \in Elements(KERNEL_CHECKS) /\ p.name \in Parameters /\ p.sev \in Severities
    BY <1>1, KernelSeverity DEF CheckKernelParam, InList, Elements, Parameters
  <2>2. host.param[p.name] \notin {"absent", p.expected} => Fit(Finding("kernel", p.name, p.sev))
    BY <2>1, <1>k, HardeningTruths, TruthFits
  <2> QED BY <1>1, <2>2 DEF CheckKernelParam, Deviates, Report, NewFit
<1>2. CASE KernelTally
  BY <1>2, <1>s, Unclaimed, OtherFits DEF KernelTally, Report, NewFit
<1>3. CASE CheckSELinux
  <2> DEFINE said(s) == CASE s = "enforcing"  -> Finding("selinuxEnforcing", "mac", "INFO")
                          [] s = "permissive" -> Finding("selinuxPermissive", "mac", "MEDIUM")
                          [] OTHER            -> Finding("selinuxDisabled", "mac", "HIGH")
  <2>1. CASE ~(call.rc = 0 /\ call.out # {})
    BY <1>3, <2>1 DEF CheckSELinux, Nothing, NewFit
  <2>2. CASE call.rc = 0 /\ call.out # {}
    <3>1. PICK h \in seen : \E r \in RepliesOf(h, "getenforce", i) :
              call.out = r[1] /\ call.rc = r[2]
      BY <1>3, <2>2, Heard DEF CheckSELinux
    <3>2. call.out = {h.selinux} /\ h.selinux # "absent"
      BY <2>2, <3>1, MacReplies
    <3>3. h.selinux = "permissive" => Fit(Finding("selinuxPermissive", "mac", "MEDIUM"))
      BY <1>s, <1>t, HardeningTruths, TruthFits
    <3>4. h.selinux = "enforcing" => Fit(Finding("selinuxEnforcing", "mac", "INFO"))
      BY <1>s, <1>t, HardeningNotes, NotedFits
    <3>8. ASSUME h.selinux = "disabled"
          PROVE  Fit(Finding("selinuxDisabled", "mac", "HIGH"))
      <4>1. CASE h.apparmor # "loaded"
        BY <3>8, <4>1, <1>s, <1>t, HardeningNotes, NotedFits
      <4>2. CASE h.apparmor = "loaded"
        <5>1. Founded(Finding("selinuxDisabled", "mac", "HIGH"))
          BY <3>8, <4>2 DEF Founded, Mistaken, Finding
        <5> QED BY <5>1, <1>s, <1>t, ClaimFits
      <4> QED BY <4>1, <4>2
    <3>9. h.selinux \in {"absent", "enforcing", "permissive", "disabled"}
      BY DEF Machine
    <3>5. Fit(said(h.selinux))
      BY <3>2, <3>3, <3>4, <3>8, <3>9
    <3>6. \A f \in {said(s) : s \in call.out} : Fit(f)
      BY <3>2, <3>5
    <3>7. Report({said(s) : s \in call.out}, {})
      BY <1>3, <2>2 DEF CheckSELinux
    <3> QED BY <3>6, <3>7, ReportFits
  <2> QED BY <2>1, <2>2
<1>4. CASE CheckAppArmor
  <2>1. CASE call.rc # 0 \/ call.out = {}
    <3>1. Fit(Finding("noMac", "mac", "HIGH"))
      BY <1>s, Unclaimed, OtherFits
    <3> QED BY <1>4, <2>1, <3>1 DEF CheckAppArmor, Report, NewFit
  <2>2. CASE call.rc = 0 /\ call.out # {}
    <3>1. PICK h \in seen : \E r \in RepliesOf(h, "aaStatus", i) :
              call.out = r[1] /\ call.rc = r[2]
      BY <1>4, <2>2, Heard DEF CheckAppArmor
    <3>2. /\ "profiles" \in call.out => h.apparmor = "loaded"
          /\ "profiles" \notin call.out => h.apparmor = "empty"
      BY <2>2, <3>1, AaStatusSays
    <3>3. /\ "profiles" \in call.out => Fit(Finding("apparmorActive", "mac", "INFO"))
          /\ "profiles" \notin call.out => Fit(Finding("apparmorEmpty", "mac", "MEDIUM"))
      BY <3>2, <1>s, <1>t, HardeningNotes, NotedFits
    <3> QED BY <1>4, <2>2, <3>3 DEF CheckAppArmor, Report, NewFit
  <2> QED BY <2>1, <2>2
<1>5. CASE CheckSuidDumpable
  <2> DEFINE rules   == {Rule("nonzero", TRUE, "suidDumpable", "MEDIUM")}
             content == FirstOf(<<"suid_dumpable">>)
  <2>1. content = host.files["suid_dumpable"]
    BY FirstOfOne
  <2>2. ASSUME NEW f \in Judged("dumpable", rules, content)
        PROVE  Fit(f)
    <3>1. f = Finding("suidDumpable", "dumpable", "MEDIUM") /\ "nonzero" \in content
      BY WordBroken
    <3>2. f \in Truth(host)
      BY <2>1, <3>1, HardeningTruths
    <3> QED BY <3>1, <3>2, <1>s, <1>t, TruthFits
  <2> QED BY <1>5, <2>2, ReportFits DEF CheckSuidDumpable, ReadFor
<1>6. CASE CheckLimits
  <2> DEFINE rules   == {Rule("core", FALSE, "coreDumps", "LOW")}
             content == FirstOf(<<"limits.conf">>)
  <2>1. content = host.files["limits.conf"]
    BY FirstOfOne
  <2>2. ASSUME NEW f \in Judged("limits", rules, content)
        PROVE  Fit(f)
    <3>1. f = Finding("coreDumps", "limits", "LOW") /\ content # {} /\ "core" \notin content
      BY WordMissing
    <3>2. Lacks(host, "limits.conf", "core")
      BY <2>1, <3>1 DEF Lacks
    <3> QED BY <3>1, <3>2, <1>s, <1>t, HardeningNotes, NotedFits
  <2> QED BY <1>6, <2>2, ReportFits DEF CheckLimits, ReadFor
<1>7. CASE CheckUsbStorage
  <2>1. host.files["modprobe.d"] \cap {"usb-storage", "usb_storage"} = {} =>
            Fit(Finding("usbStorage", "modprobe", "LOW"))
    BY <1>s, <1>t, HardeningNotes, NotedFits
  <2> QED BY <1>7, <2>1 DEF CheckUsbStorage, Report, Nothing, NewFit
<1>8. CASE CheckMountOptions
  <2>1. CASE call.out = {}
    BY <1>8, <2>1 DEF CheckMountOptions, Nothing, NewFit
  <2>2. CASE call.out # {}
    <3>1. PICK h \in seen : \E r \in RepliesOf(h, "mount", i) : call.out = r[1] /\ call.rc = r[2]
      BY <1>8, <2>2, Heard DEF CheckMountOptions
    <3>2. call.out = {"root"} \cup h.mounts
      <4>1. RepliesOf(h, "mount", i) = {<<{"root"} \cup h.mounts, 0>>}
        BY HardeningSays
      <4> QED BY <3>1, <4>1
    <3>3. "tmp" \notin call.out => Fit(Finding("tmpShared", "tmp", "MEDIUM"))
      BY <3>2, <1>s, <1>t, HardeningTruths, TruthFits
    <3>4. ASSUME NEW o \in TmpOptions \ call.out, "tmp" \in call.out
          PROVE  Fit(Finding("tmpOptions", "tmp", "MEDIUM"))
      BY <3>2, <3>4, <1>s, <1>t, HardeningTruths, TruthFits
    <3>5. "vartmp" \in call.out /\ "vartmp:noexec" \notin call.out =>
              Fit(Finding("vartmpNoexec", "vartmp", "LOW"))
      BY <3>2, <1>s, <1>t, HardeningNotes, NotedFits
    <3>6. \A f \in MountFindings(call.out) : Fit(f)
      BY <3>3, <3>4, <3>5 DEF MountFindings
    <3> QED BY <1>8, <2>2, <3>6, ReportFits DEF CheckMountOptions
  <2> QED BY <2>1, <2>2
<1>9. CASE CheckNtp
  <2>1. CASE ~SaysActive
    BY <1>9, <2>1 DEF CheckNtp, Nothing, NewFit
  <2>2. CASE SaysActive
    <3>1. call.rc = 0 /\ call.out # {}
      BY <2>2 DEF SaysActive
    <3>2. PICK h \in seen : \E r \in RepliesOf(h, "ntp", i) : call.out = r[1] /\ call.rc = r[2]
      BY <1>9, <3>1, Heard DEF CheckNtp
    <3>3. NtpServices[i] \in h.units
      BY <3>1, <3>2, UnitReplies, ActiveUnit
    <3>4. Fit(Finding("ntpActive", NtpServices[i], "INFO"))
      BY <3>3, <1>s, <1>t, HardeningNotes, NotedFits
    <3> QED BY <1>9, <2>2, <3>4 DEF CheckNtp, Report, NewFit
  <2> QED BY <2>1, <2>2
<1>13. CASE CheckTimedatectl
  <2>1. Fit(Finding("noNtp", "ntp", "MEDIUM"))
    BY <1>s, Unclaimed, OtherFits
  <2> QED BY <1>13, <2>1 DEF CheckTimedatectl, Report, Nothing, NewFit
<1>10. CASE CheckBootloader
  <2> DEFINE rules   == {Rule("password", FALSE, "bootloader", "MEDIUM")}
             files   == <<"grub", "grub2">>
             content == FirstOf(files)
  <2>1. ASSUME NEW f \in Judged("grub", rules, content)
        PROVE  Fit(f)
    <3>1. f = Finding("bootloader", "grub", "MEDIUM") /\ content # {} /\ "password" \notin content
      BY WordMissing
    <3>2. Len(files) = 2 /\ files[1] = "grub" /\ files[2] = "grub2"
      OBVIOUS
    <3>3. \E k \in 1 .. Len(files) : content = host.files[files[k]]
      <4> HIDE DEF files
      <4> QED BY <3>1, <3>2, FirstOfSome
    <3>4. content \in {host.files["grub"], host.files["grub2"]}
      BY <3>2, <3>3
    <3>5. Lacks(host, "grub", "password") \/ Lacks(host, "grub2", "password")
      BY <3>1, <3>4 DEF Lacks
    <3> QED BY <3>1, <3>5, <1>s, <1>t, HardeningNotes, NotedFits
  <2> QED BY <1>10, <2>1, ReportFits DEF CheckBootloader, ReadFor
<1>11. CASE CheckService
  <2>1. CASE ~(call.rc = 0 /\ call.out = {"active"})
    BY <1>11, <2>1 DEF CheckService, Nothing, NewFit
  <2>2. CASE call.rc = 0 /\ call.out = {"active"}
    <3> DEFINE s == ServiceOrder[i]
    <3>1. step = "services" /\ s \in Elements(ServiceOrder)
      BY <1>11 DEF CheckService, Decide, InList, Elements
    <3>2. PICK h \in seen : \E r \in RepliesOf(h, "services", i) :
              call.out = r[1] /\ call.rc = r[2]
      BY <1>11, <2>2, Heard DEF CheckService
    <3>3. RepliesOf(h, "services", i) = IsActive(h, s)
      BY HardeningSays
    <3>4. s \in h.units
      BY <2>2, <3>2, <3>3 DEF IsActive
    <3>5. ServiceSeverity(s) \in Severities
      BY DEF ServiceSeverity, Severities
    <3>6. Fit(Finding("service", s, ServiceSeverity(s)))
      BY <3>1, <3>4, <3>5, <1>t, HardeningTruths, TruthFits
    <3> QED BY <1>11, <2>2, <3>6 DEF CheckService, Report, NewFit
  <2> QED BY <2>1, <2>2
<1>u. ASSUME NEW h \in seen, Updates(h)
      PROVE  Fit(Updating)
  <2>1. Updating = Finding("autoUpdates", "updates", "INFO") /\ Noted(Updating, h)
    BY <1>u, HardeningNotes DEF Updating
  <2> QED BY <2>1, <1>s, <1>t, NotedFits
<1>12. CASE CheckApt
  <2>1. "enabled" \in host.files["20auto-upgrades"] => Fit(Updating)
    BY <1>u DEF Updates
  <2> QED BY <1>12, <2>1 DEF CheckApt, Report, Nothing, NewFit
<1>14. CASE CheckUpdater
  <2>1. ASSUME SaysActive
        PROVE  Fit(Updating)
    <3>1. call.rc = 0 /\ call.out # {}
      BY <2>1 DEF SaysActive
    <3>2. PICK h \in seen : \E r \in RepliesOf(h, "updates", i) :
              call.out = r[1] /\ call.rc = r[2]
      BY <1>14, <3>1, Heard DEF CheckUpdater
    <3>3. Updaters[i] \in h.units
      BY <3>1, <3>2, UnitReplies, ActiveUnit
    <3>4. Updaters[i] \in Elements(Updaters)
      BY <1>14 DEF CheckUpdater, Decide, InList, Elements
    <3>5. Updates(h)
      BY <3>3, <3>4 DEF Updates
    <3> QED BY <3>5, <1>u
  <2>2. Fit(Finding("noUpdates", "updates", "MEDIUM"))
    BY <1>s, Unclaimed, OtherFits
  <2> QED BY <1>14, <2>1, <2>2 DEF CheckUpdater, Report, Nothing, NewFit
<1> QED BY <1>1, <1>2, <1>3, <1>4, <1>5, <1>6, <1>7, <1>8, <1>9, <1>10, <1>11, <1>12,
           <1>13, <1>14 DEF HardeningRun

\* secaudit.  Of a directive given several times, the value taken is one of them.
LEMMA ActualIsGiven ==
    ASSUME NEW lines, Len(lines) \in Nat, NEW d, Given(lines, d) # {}
    PROVE  \E k \in Given(lines, d) : Actual(lines, d) = lines[k].value
<1>1. Given(lines, d) \subseteq 1 .. Len(lines)
  BY DEF Given
<1>2. \E k \in Given(lines, d) : \A m \in Given(lines, d) : m <= k
  BY <1>1, GreatestOf
<1> QED BY <1>2 DEF Actual

LEMMA SecTruths ==
    ASSUME NEW h, module = "secaudit"
    PROVE  /\ \A b \in h.setid : Binaries[b].gtfobin /\ Binaries[b].setuid =>
                  Finding("gtfobin", b, "HIGH") \in Truth(h)
           /\ \A d \in SecDangers \cap h.dangers : Finding("danger", d, "MEDIUM") \in Truth(h)
           /\ \A f \in Elements(SensitiveOrder) : h.owner[f] \notin {"absent", "root"} =>
                  Finding("wrongOwner", f, "HIGH") \in Truth(h)
           /\ \A b \in SshChecks :
                  \/ SshValues(h, b.directive) = {b.value}
                  \/ b.directive = "maxauthtries" /\ h.sshd # <<>> /\ SshValues(h, b.directive) = {}
                  => Finding("ssh", b.directive, b.sev) \in Truth(h)
<1>1. Truth(h) = SecTruth(h)
  BY DEF Truth
<1>2. SecTruth(h) = SshTruth(h)
          \cup {Finding("gtfobin", b, "HIGH") :
                  b \in {b \in h.setid : Binaries[b].gtfobin /\ Binaries[b].setuid}}
          \cup {Finding("danger", d, "MEDIUM") : d \in SecDangers \cap h.dangers}
          \cup {Finding("wrongOwner", f, "HIGH") :
                  f \in {f \in Elements(SensitiveOrder) : h.owner[f] \notin {"absent", "root"}}}
  BY DEF SecTruth
<1>3. \A b \in SshChecks :
          \/ SshValues(h, b.directive) = {b.value}
          \/ b.directive = "maxauthtries" /\ h.sshd # <<>> /\ SshValues(h, b.directive) = {}
          => Finding("ssh", b.directive, b.sev) \in SshTruth(h)
  BY DEF SshTruth
<1> QED BY <1>1, <1>2, <1>3

LEMMA SshFits ==
    ASSUME NEW h \in seen, module = "secaudit", Len(h.sshd) \in Nat, h.sshd # <<>>,
           NEW f \in SshFindings(h.sshd)
    PROVE  Fit(f)
<1> DEFINE lines == h.sshd
<1>1. PICK b \in SshChecks : /\ f = Finding("ssh", b.directive, b.sev)
                             /\ IF Given(lines, b.directive) = {} THEN b.directive = "maxauthtries"
                                ELSE Actual(lines, b.directive) = b.value
  BY DEF SshFindings
<1> DEFINE d == b.directive
<1>2. b.sev \in Severities
  BY DEF SshChecks, Bad, Severities
<1>3. "ssh" \in Titles /\ "ssh" # "kernel"
  BY ClaimTitles
<1>4. \A v : v \in SshValues(h, d) <=> \E k \in Given(lines, d) : v = lines[k].value
  BY DEF SshValues, Given, Elements
<1>5. CASE Given(lines, d) = {}
  <2>1. d = "maxauthtries" /\ SshValues(h, d) = {}
    BY <1>1, <1>4, <1>5
  <2>2. Finding("ssh", d, b.sev) \in Truth(h)
    BY <2>1, SecTruths
  <2> QED BY <1>1, <1>2, <1>3, <2>2, TruthFits
<1>6. CASE Given(lines, d) # {}
  <2>1. b.value \in SshValues(h, d)
    BY <1>1, <1>4, <1>6, ActualIsGiven
  <2>2. CASE SshValues(h, d) = {b.value}
    <3>1. Finding("ssh", d, b.sev) \in Truth(h)
      BY <2>2, SecTruths
    <3> QED BY <1>1, <1>2, <1>3, <3>1, TruthFits
  <2>3. CASE SshValues(h, d) # {b.value}
    <3>1. Contradicts(h, d)
      BY <2>1, <2>3 DEF Contradicts
    <3>2. Founded(Finding("ssh", d, b.sev))
      BY <3>1 DEF Founded, Mistaken, Finding
    <3> QED BY <1>1, <1>2, <1>3, <3>2, ClaimFits
  <2> QED BY <2>2, <2>3
<1> QED BY <1>5, <1>6

\* The dangers find prints.
LEMMA DangerFits ==
    ASSUME AnswerTrue, module = "secaudit", NEW q \in SecDangers, NEW next,
           Presence(q, Finding("danger", q, "MEDIUM"), next)
    PROVE  NewFit
<1>1. ASSUME call.out # {}
      PROVE  Fit(Finding("danger", q, "MEDIUM"))
  <2>1. PICK h \in seen : \E r \in RepliesOf(h, q, i) : call.out = r[1] /\ call.rc = r[2]
    BY <1>1, Heard DEF Presence
  <2>2. RepliesOf(h, q, i) = {<<{q} \cap h.dangers, 0>>, <<{q} \cap h.dangers, 1>>}
    BY SecSays DEF SecDangers
  <2>3. q \in h.dangers
    BY <1>1, <2>1, <2>2
  <2>4. Finding("danger", q, "MEDIUM") \in Truth(h)
    BY <2>3, SecTruths
  <2>5. "danger" \in Titles /\ "danger" # "kernel" /\ "MEDIUM" \in Severities
    BY ClaimTitles DEF Severities
  <2> QED BY <2>4, <2>5, TruthFits
<1> QED BY <1>1, PresenceFits

\* A rule of the sudoers file that is broken is one of those found in it.
LEMMA SudoRule ==
    ASSUME NEW r \in SudoRules
    PROVE  /\ r.bad = TRUE /\ r.sev \in Severities
           /\ r.title \in {"sudoNopasswdAll", "sudoNopasswd", "sudoShell"}
<1>1. r.bad = TRUE
  BY DEF SudoRules, Rule
<1>2. r.sev \in Severities /\ r.title \in {"sudoNopasswdAll", "sudoNopasswd", "sudoShell"}
  BY DEF SudoRules, Rule, Severities
<1> QED BY <1>1, <1>2

LEMMA SecNotes ==
    ASSUME NEW h
    PROVE  /\ \A r \in SudoRules : r.word \in h.files["sudoers"] =>
                  Noted(Finding(r.title, "sudo", r.sev), h)
           /\ \A file \in {"common-auth", "system-auth", "password-auth"} :
                  Lacks(h, file, "faillock") => Noted(Finding("noLockout", "pam", "MEDIUM"), h)
           /\ "maxDaysAbove90" \in h.files["login.defs"] =>
                  Noted(Finding("passwordExpiry", "login", "MEDIUM"), h)
           /\ "minLenBelow8" \in h.files["login.defs"] =>
                  Noted(Finding("passwordLength", "login", "MEDIUM"), h)
           /\ \A b \in DOMAIN Binaries : Binaries[b].cap =>
                  Noted(Finding("capability", b, "HIGH"), h)
<1>1. \A f : SecNoted(f, h) => Noted(f, h)
  BY DEF Noted
<1>2. \A r \in SudoRules : r.word \in h.files["sudoers"] =>
          SecNoted(Finding(r.title, "sudo", r.sev), h)
  BY PartsOf DEF SecNoted
<1>3. /\ \A file \in {"common-auth", "system-auth", "password-auth"} :
             Lacks(h, file, "faillock") => SecNoted(Finding("noLockout", "pam", "MEDIUM"), h)
      /\ "maxDaysAbove90" \in h.files["login.defs"] =>
             SecNoted(Finding("passwordExpiry", "login", "MEDIUM"), h)
      /\ "minLenBelow8" \in h.files["login.defs"] =>
             SecNoted(Finding("passwordLength", "login", "MEDIUM"), h)
      /\ \A b \in DOMAIN Binaries : Binaries[b].cap => SecNoted(Finding("capability", b, "HIGH"), h)
  BY PartsOf DEF SecNoted
<1> QED BY <1>1, <1>2, <1>3

LEMMA SecFits ==
    ASSUME AnswerTrue, InList, host \in seen, Machine(host), module = "secaudit", SecAuditRun
    PROVE  NewFit
<1>s. \A sev \in {"INFO", "LOW", "MEDIUM", "HIGH", "CRITICAL"} : sev \in Severities
  BY DEF Severities
<1>t. {"gtfobin", "danger", "sudoNopasswdAll", "sudoNopasswd", "sudoShell", "noLockout",
       "passwordExpiry", "passwordLength", "capability", "wrongOwner"} \subseteq Titles \ {"kernel"}
  BY ClaimTitles
<1>1. CASE CheckSuidSgid
  <2>1. CASE call.out = {}
    BY <1>1, <2>1 DEF CheckSuidSgid, Report, NewFit
  <2>2. CASE call.out # {}
    <3>1. PICK h \in seen : \E r \in RepliesOf(h, "suid", i) : call.out = r[1] /\ call.rc = r[2]
      BY <1>1, <2>2, Heard DEF CheckSuidSgid
    <3>2. call.out = h.setid
      <4>1. RepliesOf(h, "suid", i) = {<<h.setid, 0>>, <<h.setid, 1>>}
        BY SecSays
      <4> QED BY <3>1, <4>1
    <3>3. ASSUME NEW b \in Gtfobins(call.out)
          PROVE  Fit(Finding("gtfobin", b, "HIGH"))
      <4>1. CASE Binaries[b].setuid
        <5>1. Finding("gtfobin", b, "HIGH") \in Truth(h)
          BY <3>2, <4>1, SecTruths DEF Gtfobins
        <5> QED BY <5>1, <1>s, <1>t, TruthFits
      <4>2. CASE ~Binaries[b].setuid
        <5>1. b \in h.setid
          BY <3>2 DEF Gtfobins
        <5>2. Founded(Finding("gtfobin", b, "HIGH"))
          BY <4>2, <5>1 DEF Founded, Mistaken, Finding
        <5> QED BY <5>2, <1>s, <1>t, ClaimFits
      <4> QED BY <4>1, <4>2
    <3>4. /\ Fit(Finding("setidSummary", "suid", "INFO"))
          /\ Fit(Finding("setidSummary", "suid", "MEDIUM"))
      BY <1>s, Unclaimed, OtherFits
    <3> QED BY <1>1, <2>2, <3>3, <3>4 DEF CheckSuidSgid, Report, NewFit
  <2> QED BY <2>1, <2>2
<1>2. CASE CheckWorldWritable \/ CheckUnownedFiles
  BY <1>2, DangerFits DEF CheckWorldWritable, CheckUnownedFiles, SecDangers
<1>3. CASE CheckSshConfig
  <2>1. Len(host.sshd) \in Nat
    BY DEF Machine
  <2> QED BY <1>3, <2>1, SshFits DEF CheckSshConfig, Report, Nothing, NewFit
<1>4. CASE CheckSudo
  <2> DEFINE content == host.files["sudoers"]
  <2>1. ASSUME NEW r \in SudoRules, content # {}, (r.word \in content) = r.bad
        PROVE  Fit(Finding(r.title, "sudo", r.sev))
    <3>1. r.bad = TRUE /\ r.sev \in Severities /\ r.title \in Titles \ {"kernel"}
      BY SudoRule, <1>t
    <3>2. r.word \in content
      BY <2>1, <3>1, Zenon
    <3>3. Noted(Finding(r.title, "sudo", r.sev), host)
      BY <3>2, SecNotes
    <3> QED BY <3>1, <3>3, NotedFits
  <2>2. \A f \in Judged("sudo", SudoRules, content) : Fit(f)
    BY <2>1, RulesFit
  <2> QED BY <1>4, <2>2, ReportFits DEF CheckSudo
<1>5. CASE CheckPam
  <2> DEFINE rules   == {Rule("faillock", FALSE, "noLockout", "MEDIUM")}
             files   == <<"common-auth", "system-auth", "password-auth">>
             content == FirstOf(files)
  <2>1. ASSUME NEW f \in Judged("pam", rules, content)
        PROVE  Fit(f)
    <3>1. f = Finding("noLockout", "pam", "MEDIUM") /\ content # {} /\ "faillock" \notin content
      BY WordMissing
    <3>2. Len(files) = 3 /\ \A k \in 1 .. 3 : files[k] \in {"common-auth", "system-auth", "password-auth"}
      OBVIOUS
    <3>3. \E k \in 1 .. Len(files) : content = host.files[files[k]]
      <4> HIDE DEF files
      <4> QED BY <3>1, <3>2, FirstOfSome
    <3>4. PICK file \in {"common-auth", "system-auth", "password-auth"} : content = host.files[file]
      <4> HIDE DEF files, content
      <4> QED BY <3>2, <3>3
    <3>5. Lacks(host, file, "faillock")
      BY <3>1, <3>4 DEF Lacks
    <3> QED BY <3>1, <3>5, <1>s, <1>t, SecNotes, NotedFits
  <2> QED BY <1>5, <2>1, ReportFits DEF CheckPam, ReadFor
<1>6. CASE CheckPasswordPolicy
  <2> DEFINE days    == {Rule("maxDaysAbove90", TRUE, "passwordExpiry", "MEDIUM")}
             length  == {Rule("minLenBelow8", TRUE, "passwordLength", "MEDIUM")}
             rules   == {Rule("maxDaysAbove90", TRUE, "passwordExpiry", "MEDIUM"),
                         Rule("minLenBelow8", TRUE, "passwordLength", "MEDIUM")}
             content == FirstOf(<<"login.defs">>)
  <2>1. content = host.files["login.defs"]
    BY FirstOfOne
  <2>2. ASSUME NEW f \in Judged("login", days, content)
        PROVE  Fit(f)
    <3>1. f = Finding("passwordExpiry", "login", "MEDIUM") /\ "maxDaysAbove90" \in content
      BY WordBroken
    <3> QED BY <2>1, <3>1, <1>s, <1>t, SecNotes, NotedFits
  <2>3. ASSUME NEW f \in Judged("login", length, content)
        PROVE  Fit(f)
    <3>1. f = Finding("passwordLength", "login", "MEDIUM") /\ "minLenBelow8" \in content
      BY WordBroken
    <3> QED BY <2>1, <3>1, <1>s, <1>t, SecNotes, NotedFits
  <2>4. \A f \in Judged("login", rules, content) :
            f \in Judged("login", days, content) \/ f \in Judged("login", length, content)
    <3>1. \A r \in rules : r \in days \/ r \in length
      OBVIOUS
    <3> HIDE DEF rules, days, length, content
    <3> QED BY <3>1, Zenon DEF Judged, Broken
  <2>5. \A f \in Judged("login", rules, content) : Fit(f)
    BY <2>2, <2>3, <2>4
  <2>6. ReadFor("login", <<"login.defs">>, rules, "getcap")
    BY <1>6 DEF CheckPasswordPolicy
  <2> HIDE DEF rules
  <2> QED BY <2>5, <2>6, ReportFits DEF ReadFor
<1>7. CASE CheckCapabilities
  <2>1. ASSUME NEW b \in call.out
        PROVE  Fit(Finding("capability", b, "HIGH"))
    <3>1. PICK h \in seen : \E r \in RepliesOf(h, "getcap", i) : call.out = r[1] /\ call.rc = r[2]
      BY <1>7, <2>1, Heard DEF CheckCapabilities
    <3>2. RepliesOf(h, "getcap", i) = {<<{c \in DOMAIN Binaries : Binaries[c].cap}, 0>>}
      BY SecSays
    <3>3. b \in DOMAIN Binaries /\ Binaries[b].cap
      BY <3>1, <3>2
    <3> QED BY <3>3, <1>s, <1>t, SecNotes, NotedFits
  <2> QED BY <1>7, <2>1 DEF CheckCapabilities, Report, NewFit
<1>10. CASE CheckPermissions
  <2>1. Fit(Finding("permissive", File(i), "HIGH"))
    BY <1>s, Unclaimed, OtherFits
  <2> QED BY <1>10, <2>1 DEF CheckPermissions, Report, Nothing, NewFit
<1>8. CASE SensitiveExists
  BY <1>8 DEF SensitiveExists, Nothing, NewFit
<1>9. CASE CheckOwner
  <2>1. File(i) \in Elements(SensitiveOrder)
    BY <1>9 DEF CheckOwner, Look, InList, File, Elements
  <2>2. host.owner[File(i)] \notin {"absent", "root"} => Fit(Finding("wrongOwner", File(i), "HIGH"))
    BY <2>1, <1>s, <1>t, SecTruths, TruthFits
  <2> QED BY <1>9, <2>2 DEF CheckOwner, Report, Nothing, NewFit
<1> QED BY <1>1, <1>2, <1>3, <1>4, <1>5, <1>6, <1>7, <1>8, <1>9, <1>10 DEF SecAuditRun

\* loganalyzer.  What is read of a log is counted by a number.
LEMMA TotalNat ==
    ASSUME NEW lines \in Seq(STRING)
    PROVE  TotalFailed(lines) \in Nat
<1> DEFINE failed == {k \in 1 .. Len(lines) : lines[k] \in Attackers}
<1>1. IsFiniteSet(1 .. Len(lines)) /\ failed \subseteq 1 .. Len(lines)
  BY FS_Interval
<1>2. IsFiniteSet(failed)
  BY <1>1, FS_Subset
<1>3. Cardinality(failed) \in Nat
  BY <1>2, FS_CardinalityType
<1> QED BY <1>3 DEF TotalFailed

LEMMA LogLines ==
    ASSUME NEW h, Machine(h), NEW log \in LOG_FILES
    PROVE  /\ h.logs[log].lines \in Seq(STRING)
           /\ LinesRead(h, log) \in Seq(STRING)
<1>1. h.logs[log].lines \in Seq(STRING)
  BY DEF Machine, LogFile
<1>2. MAX_LOG_LINES \in Nat
  BY ThresholdAssumption
<1>3. ReadFileSafe(h.logs[log], MAX_LOG_LINES) \in Seq(STRING)
  BY <1>1, <1>2, ReadIsLines
<1> QED BY <1>1, <1>3 DEF LinesRead

LEMMA LogNotes ==
    ASSUME NEW h
    PROVE  /\ \A log \in Elements(AuthLogs) : TotalFailed(LinesRead(h, log)) >= 1 =>
                  Noted(Finding("failedLogins", "auth", "MEDIUM"), h)
           /\ \A log \in Elements(AuthLogs) : TotalFailed(LinesRead(h, log)) >= MANY_FAILURES =>
                  Noted(Finding("failedLogins", "auth", "HIGH"), h)
           /\ \A log \in Elements(AuthLogs) : \A e \in AuthEvents : Says(LinesRead(h, log), e[1]) =>
                  Noted(Finding(e[1], "log", e[2]), h)
           /\ \A log \in Elements(SystemLogs) : \A e \in SystemEvents : Says(LinesRead(h, log), e[1]) =>
                  Noted(Finding(e[1], "log", e[2]), h)
           /\ \A log : h.logs[log].there /\ h.logs[log].lines = <<>> =>
                  Noted(Finding("emptyLog", log, "HIGH"), h)
           /\ \A log : Len(h.logs[log].lines) \in 1 .. SHORT_LOG - 1 =>
                  Noted(Finding("shortLog", log, "MEDIUM"), h)
<1>1. \A f : LogNoted(f, h) => Noted(f, h)
  BY DEF Noted
<1>2. \A log \in Elements(AuthLogs) :
          /\ TotalFailed(LinesRead(h, log)) >= 1 => LogNoted(Finding("failedLogins", "auth", "MEDIUM"), h)
          /\ TotalFailed(LinesRead(h, log)) >= MANY_FAILURES =>
                 LogNoted(Finding("failedLogins", "auth", "HIGH"), h)
  BY PartsOf DEF LogNoted
<1>3. \A log \in Elements(AuthLogs) : \A e \in AuthEvents : Says(LinesRead(h, log), e[1]) =>
          LogNoted(Finding(e[1], "log", e[2]), h)
  BY PartsOf DEF LogNoted
<1>4. \A log \in Elements(SystemLogs) : \A e \in SystemEvents : Says(LinesRead(h, log), e[1]) =>
          LogNoted(Finding(e[1], "log", e[2]), h)
  BY PartsOf DEF LogNoted
<1>5. \A log : h.logs[log].there /\ h.logs[log].lines = <<>> =>
          LogNoted(Finding("emptyLog", log, "HIGH"), h)
  BY PartsOf DEF LogNoted
<1>6. \A log : Len(h.logs[log].lines) \in 1 .. SHORT_LOG - 1 =>
          LogNoted(Finding("shortLog", log, "MEDIUM"), h)
  BY PartsOf DEF LogNoted
<1> QED BY <1>1, <1>2, <1>3, <1>4, <1>5, <1>6

\* A log of fewer lines than are short is read as a whole.
LEMMA ShortIsShort ==
    ASSUME NEW file, file.lines \in Seq(STRING),
           Len(ReadFileSafe(file, 100)) \in 1 .. SHORT_LOG - 1
    PROVE  Len(file.lines) \in 1 .. SHORT_LOG - 1
<1>1. SHORT_LOG \in Nat /\ SHORT_LOG <= 100
  BY ThresholdAssumption
<1>2. CASE ~file.readable
  <2>1. Len(ReadFileSafe(file, 100)) = 0
    BY <1>2 DEF ReadFileSafe
  <2> QED BY <2>1
<1>3. CASE file.readable /\ Len(file.lines) <= 100
  <2>1. ReadFileSafe(file, 100) = file.lines
    BY <1>3 DEF ReadFileSafe
  <2> QED BY <2>1
<1>4. CASE file.readable /\ ~(Len(file.lines) <= 100)
  <2>1. ReadFileSafe(file, 100) = SubSeq(file.lines, 1, 100)
    BY <1>4 DEF ReadFileSafe
  <2>2. Len(SubSeq(file.lines, 1, 100)) = 100
    <3> DEFINE lines == file.lines
    <3>1. lines \in Seq(STRING) /\ 100 < Len(lines)
      BY <1>4
    <3> HIDE DEF lines
    <3>2. Len(SubSeq(lines, 1, 100)) = 100
      BY <3>1
    <3> QED BY <3>2 DEF lines
  <2>3. Len(ReadFileSafe(file, 100)) = 100
    BY <2>1, <2>2
  <2> DEFINE n == Len(ReadFileSafe(file, 100))
  <2>4. n = 100 /\ n \in 1 .. SHORT_LOG - 1
    BY <2>3
  <2> HIDE DEF n
  <2>5. FALSE
    BY <1>1, <2>4
  <2> QED BY <2>5
<1> QED BY <1>2, <1>3, <1>4

LEMMA LogFits ==
    ASSUME InList, Held, host \in seen, Machine(host), LogAnalyzerRun
    PROVE  NewFit
<1>s. \A sev \in {"INFO", "LOW", "MEDIUM", "HIGH", "CRITICAL"} : sev \in Severities
  BY DEF Severities
<1>t. {"failedLogins", "accepted", "sudo", "su", "oom", "panic", "segfault", "emptyLog", "shortLog"}
          \subseteq Titles \ {"kernel"}
  BY ClaimTitles
<1>l. Elements(AuthLogs) \cup Elements(SystemLogs) \subseteq LOG_FILES
  BY DEF Elements, AuthLogs, SystemLogs, LOG_FILES
<1>w. \A k \in 1 .. Len(Watched) : Watched[k] \in LOG_FILES
  BY DEF Watched, AuthLogs, SystemLogs, LOG_FILES
<1>1. CASE LogAvailable \/ FindSyslog \/ LogThere
  BY <1>1 DEF LogAvailable, FindSyslog, LogThere, Nothing, NewFit
<1>2. CASE FindAuthLog
  BY <1>2 DEF FindAuthLog, Report, Nothing, NewFit
<1>3. CASE CheckAuthLogs
  <2> DEFINE lines == LinesRead(host, held)
  <2>1. /\ held \in Elements(AuthLogs) /\ held \in LOG_FILES
        /\ Report(AuthFindings(lines), IF lines = <<>> THEN {"auth"} ELSE {})
    BY <1>3, <1>l DEF CheckAuthLogs, Look, Held, LinesRead, Contents
  <2>2. lines \in Seq(STRING)
    BY <2>1, LogLines
  <2>3. ASSUME NEW f \in EventFindings(lines, AuthEvents)
        PROVE  Fit(f)
    <3>1. PICK e \in AuthEvents : Says(lines, e[1]) /\ f = Finding(e[1], "log", e[2])
      BY DEF EventFindings
    <3>2. e[1] \in Titles \ {"kernel"} /\ e[2] \in Severities
      BY <1>s, <1>t DEF AuthEvents
    <3>3. Noted(Finding(e[1], "log", e[2]), host)
      BY <2>1, <3>1, LogNotes
    <3> QED BY <3>1, <3>2, <3>3, NotedFits
  <2>4. ASSUME NEW f \in BruteForceFindings(lines)
        PROVE  Fit(f)
    <3>1. \A x : Fit(Finding("bruteForce", x, "CRITICAL"))
      BY <1>s, Unclaimed, OtherFits
    <3> QED BY <3>1 DEF BruteForceFindings
  <2>5. ASSUME TotalFailed(lines) # 0
        PROVE  Fit(Finding("failedLogins", "auth",
                           IF TotalFailed(lines) < MANY_FAILURES THEN "MEDIUM" ELSE "HIGH"))
    <3> DEFINE n == TotalFailed(lines)
    <3>1. n \in Nat /\ MANY_FAILURES \in Nat
      BY <2>2, TotalNat, ThresholdAssumption
    <3>2. Fit(Finding("failedLogins", "auth", "MEDIUM"))
      <4>1. n >= 1
        BY <2>5, <3>1
      <4>2. Noted(Finding("failedLogins", "auth", "MEDIUM"), host)
        BY <2>1, <4>1, LogNotes
      <4> QED BY <4>2, <1>s, <1>t, NotedFits
    <3>3. ASSUME ~(n < MANY_FAILURES)
          PROVE  Fit(Finding("failedLogins", "auth", "HIGH"))
      <4>1. n >= MANY_FAILURES
        BY <3>1, <3>3
      <4>2. Noted(Finding("failedLogins", "auth", "HIGH"), host)
        BY <2>1, <4>1, LogNotes
      <4> QED BY <4>2, <1>s, <1>t, NotedFits
    <3> QED BY <3>2, <3>3
  <2> HIDE DEF lines
  <2>6. \A f \in AuthFindings(lines) : Fit(f)
    BY <2>3, <2>4, <2>5 DEF AuthFindings
  <2> QED BY <2>1, <2>6, ReportFits
<1>4. CASE CheckSystemLogs
  <2> DEFINE lines == LinesRead(host, held)
  <2>1. held \in Elements(SystemLogs) /\ Report(EventFindings(lines, SystemEvents), {})
    BY <1>4 DEF CheckSystemLogs, Look, Held, LinesRead, Contents
  <2>2. ASSUME NEW f \in EventFindings(lines, SystemEvents)
        PROVE  Fit(f)
    <3>1. PICK e \in SystemEvents : Says(lines, e[1]) /\ f = Finding(e[1], "log", e[2])
      BY DEF EventFindings
    <3>2. e[1] \in Titles \ {"kernel"} /\ e[2] \in Severities
      BY <1>s, <1>t DEF SystemEvents
    <3>3. Noted(Finding(e[1], "log", e[2]), host)
      BY <2>1, <3>1, LogNotes
    <3> QED BY <3>1, <3>2, <3>3, NotedFits
  <2> QED BY <2>1, <2>2, ReportFits
<1>5. CASE CheckLastLogins
  <2>1. Fit(Finding("lastLogins", "last", "INFO"))
    BY <1>s, Unclaimed, OtherFits
  <2> QED BY <1>5, <2>1, PresenceFits DEF CheckLastLogins, Nothing, NewFit
<1>6. CASE CheckEmpty
  <2>1. host.logs[Watched[i]].there /\ host.logs[Watched[i]].lines = <<>> =>
            Fit(Finding("emptyLog", Watched[i], "HIGH"))
    BY <1>s, <1>t, LogNotes, NotedFits
  <2> QED BY <1>6, <2>1 DEF CheckEmpty, Report, Nothing, NewFit
<1>7. CASE CheckShort
  <2> DEFINE file == host.logs[Watched[i]]
  <2>1. ASSUME Len(Contents(Watched[i], 100)) \in 1 .. SHORT_LOG - 1
        PROVE  Fit(Finding("shortLog", Watched[i], "MEDIUM"))
    <3>1. Watched[i] \in LOG_FILES
      BY <1>7, <1>w DEF CheckShort, Look, InList
    <3>2. file.lines \in Seq(STRING)
      BY <3>1, LogLines
    <3>3. Len(file.lines) \in 1 .. SHORT_LOG - 1
      BY <2>1, <3>2, ShortIsShort DEF Contents
    <3> QED BY <3>3, <1>s, <1>t, LogNotes, NotedFits
  <2> QED BY <1>7, <2>1 DEF CheckShort, Report, Nothing, NewFit
<1> QED BY <1>1, <1>2, <1>3, <1>4, <1>5, <1>6, <1>7 DEF LogAnalyzerRun

(***************************************************************************)
(* What a check has found out of some machine seen, for its next step.     *)
(***************************************************************************)
Learned ==
    /\ step \in {"uptime", "arch"} => held = "none" \/ \E h \in seen : held = h.kernel
    /\ step = "crontab" => \E h \in seen : held = h.cron
    /\ step = "dev" => \E h \in seen : h.marks \cap Indicators # {}
    /\ step \in {"sda", "pid1ns", "selfns"} => \E h \in seen : Contains(h)
    /\ step = "shadow" => \E h \in seen : DOMAIN h.accounts # {}

\* container.
LEMMA ContainerTruths ==
    ASSUME NEW h, module = "container"
    PROVE  /\ \A p \in DOMAIN h.sock : 1 \in h.sock[p] =>
                  Finding("worldSocket", p, "CRITICAL") \in Truth(h)
           /\ \A p \in DOMAIN h.sock : {1, 4} \cap h.sock[p] = {4} =>
                  Finding("groupSocket", p, "HIGH") \in Truth(h)
           /\ h.imds # "none" => Finding("imds", "imds", "MEDIUM") \in Truth(h)
           /\ \A p \in h.tcp : h.tool # "none" /\ p = "2375" =>
                  Finding("dockerTcp", p, "CRITICAL") \in Truth(h)
           /\ h.marks \cap Indicators # {} =>
                  Finding("insideContainer", "environment", "INFO") \in Truth(h)
           /\ \A f \in DOMAIN h.cloud : 2 \in h.cloud[f] =>
                  Finding("cloudFile", f, "HIGH") \in Truth(h)
<1>1. Truth(h) = ContainerTruth(h)
  BY DEF Truth
<1> QED BY <1>1 DEF ContainerTruth

LEMMA ContainerNotes ==
    ASSUME NEW h
    PROVE  /\ h.tool # "none" /\ "2376" \in h.tcp => Noted(Finding("dockerTcp", "2376", "MEDIUM"), h)
           /\ \A f \in DOMAIN h.cloud : 2 \notin h.cloud[f] => Noted(Finding("cloudFile", f, "LOW"), h)
<1>1. \A f : ContainerNoted(f, h) => Noted(f, h)
  BY DEF Noted
<1> QED BY <1>1, PartsOf DEF ContainerNoted

LEMMA ContainerFits ==
    ASSUME AnswerTrue, Learned, host \in seen, module = "container", ContainerRun
    PROVE  NewFit
<1>s. \A sev \in {"INFO", "LOW", "MEDIUM", "HIGH", "CRITICAL"} : sev \in Severities
  BY DEF Severities
<1>t. {"worldSocket", "groupSocket", "dockerTcp", "insideContainer", "privileged", "cloudFile",
       "imds"} \subseteq Titles \ {"kernel"}
  BY ClaimTitles
<1>1. CASE SocketThere \/ CloudThere
  BY <1>1 DEF SocketThere, CloudThere, Nothing, NewFit
<1>2. CASE CheckSocket
  <2> DEFINE p == SockPaths[i]
  <2>1. CASE p \notin DOMAIN host.sock
    BY <1>2, <2>1 DEF CheckSocket, Report, NewFit
  <2>2. CASE p \in DOMAIN host.sock
    <3>1. 1 \in host.sock[p] => Fit(Finding("worldSocket", p, "CRITICAL"))
      BY <2>2, <1>s, <1>t, ContainerTruths, TruthFits
    <3>2. ASSUME 1 \notin host.sock[p], 4 \in host.sock[p]
          PROVE  Fit(Finding("groupSocket", p, "HIGH"))
      <4>1. {1, 4} \cap host.sock[p] = {4}
        BY <3>2
      <4> QED BY <2>2, <4>1, <1>s, <1>t, ContainerTruths, TruthFits
    <3>3. \A f \in SocketFindings(p, host.sock[p]) : Fit(f)
      BY <3>1, <3>2 DEF SocketFindings
    <3> QED BY <1>2, <2>2, <3>3, ReportFits DEF CheckSocket
  <2> QED BY <2>1, <2>2
<1>3. CASE CheckDockerTcp
  <2>1. CASE call.out = {} \/ call.rc # 0
    BY <1>3, <2>1 DEF CheckDockerTcp, Nothing, NewFit
  <2>2. CASE ~(call.out = {} \/ call.rc # 0)
    <3>1. PICK h \in seen : \E r \in RepliesOf(h, "tcp", i) : call.out = r[1] /\ call.rc = r[2]
      BY <1>3, <2>2, Heard DEF CheckDockerTcp
    <3>2. h.tool # "none" /\ call.out = {"header"} \cup h.tcp
      BY <2>2, <3>1, ContainerSays
    <3>3. ASSUME NEW p \in call.out \cap {"2375", "2376"}
          PROVE  Fit(Finding("dockerTcp", p, IF p = "2375" THEN "CRITICAL" ELSE "MEDIUM"))
      <4>1. p \in h.tcp
        BY <3>2
      <4>2. CASE p = "2375"
        <5>1. Finding("dockerTcp", p, "CRITICAL") \in Truth(h)
          BY <3>2, <4>1, <4>2, ContainerTruths
        <5> QED BY <4>2, <5>1, <1>s, <1>t, TruthFits
      <4>3. CASE p = "2376"
        <5>1. Noted(Finding("dockerTcp", "2376", "MEDIUM"), h)
          BY <3>2, <4>1, <4>3, ContainerNotes
        <5> QED BY <4>3, <5>1, <1>s, <1>t, NotedFits
      <4> QED BY <4>2, <4>3
    <3> QED BY <1>3, <2>2, <3>3 DEF CheckDockerTcp, Report, NewFit
  <2> QED BY <2>1, <2>2
<1>4. CASE CheckEnvironment
  <2>1. ASSUME host.marks \cap Indicators # {}
        PROVE  Fit(Finding("insideContainer", "environment", "INFO"))
    <3>1. Finding("insideContainer", "environment", "INFO") \in Truth(host)
      BY <2>1, ContainerTruths
    <3> QED BY <3>1, <1>s, <1>t, TruthFits
  <2> QED BY <1>4, <2>1 DEF CheckEnvironment, Report, Nothing, NewFit
<1>5. CASE CheckPrivileged
  <2>1. ASSUME host.marks \cap {"kmsg", "mem"} # {}
        PROVE  Fit(Finding("privileged", "dev", "CRITICAL"))
    <3>1. \E h \in seen : h.marks \cap Indicators # {}
      BY <1>5 DEF CheckPrivileged, Look, Learned
    <3>2. Founded(Finding("privileged", "dev", "CRITICAL"))
      BY <2>1, <3>1 DEF Founded, Stitched, Finding
    <3> QED BY <3>2, <1>s, <1>t, ClaimFits
  <2> QED BY <1>5, <2>1 DEF CheckPrivileged, Report, Nothing, NewFit
<1>6. CASE CheckCloudFile
  <2> DEFINE f == CloudFiles[i]
  <2>1. ASSUME f \in DOMAIN host.cloud
        PROVE  Fit(CloudFinding(f, host.cloud[f]))
    <3>1. CASE 2 \in host.cloud[f]
      <4>1. Finding("cloudFile", f, "HIGH") \in Truth(host)
        BY <2>1, <3>1, ContainerTruths
      <4>2. Fit(Finding("cloudFile", f, "HIGH"))
        BY <4>1, <1>s, <1>t, TruthFits
      <4> QED BY <3>1, <4>2 DEF CloudFinding
    <3>2. CASE 2 \notin host.cloud[f]
      <4>1. Noted(Finding("cloudFile", f, "LOW"), host)
        BY <2>1, <3>2, ContainerNotes
      <4>2. Fit(Finding("cloudFile", f, "LOW"))
        BY <4>1, <1>s, <1>t, NotedFits
      <4> QED BY <3>2, <4>2 DEF CloudFinding
    <3> QED BY <3>1, <3>2
  <2> QED BY <1>6, <2>1 DEF CheckCloudFile, Report, NewFit
<1>7. CASE CheckImds
  <2>1. CASE ~(call.rc = 0 /\ call.out # {})
    BY <1>7, <2>1 DEF CheckImds, Nothing, NewFit
  <2>2. CASE call.rc = 0 /\ call.out # {}
    <3>1. PICK h \in seen : \E r \in RepliesOf(h, "imds", i) : call.out = r[1] /\ call.rc = r[2]
      BY <1>7, <2>2, Heard DEF CheckImds
    <3>2. h.imds # "none"
      BY <2>2, <3>1, ContainerSays
    <3>3. Finding("imds", "imds", "MEDIUM") \in Truth(h)
      BY <3>2, ContainerTruths
    <3>4. Fit(Finding("imds", "imds", "MEDIUM"))
      BY <3>3, <1>s, <1>t, TruthFits
    <3> QED BY <1>7, <2>2, <3>4 DEF CheckImds, Report, NewFit
  <2> QED BY <2>1, <2>2
<1> QED BY <1>1, <1>2, <1>3, <1>4, <1>5, <1>6, <1>7 DEF ContainerRun

\* redteam.
LEMMA RedTeamTruths ==
    ASSUME NEW h, module = "redteam"
    PROVE  /\ \A d : Mine(h, "PATH", d) => Finding("writablePath", "PATH", "HIGH") \in Truth(h)
           /\ \A e \in h.sudo : SudoEntries[e].allowed /\ SudoEntries[e].command \in PRIVESC_CMDS =>
                  Finding("sudoPrivesc", SudoEntries[e].command, "CRITICAL") \in Truth(h)
           /\ \A f \in Elements(CredentialOrder) \cap DOMAIN h.secrets :
                  /\ "pemKey" \in h.secrets[f] => Finding("privateKey", f, "CRITICAL") \in Truth(h)
                  /\ "password" \in h.secrets[f] => Finding("password", f, "HIGH") \in Truth(h)
           /\ \A u : Mine(h, "units", u) => Finding("writableUnit", u, "CRITICAL") \in Truth(h)
           /\ \A d : Mine(h, "ld.so.conf", d) => Finding("libraryPath", d, "HIGH") \in Truth(h)
           /\ \A d : Mine(h, "crontab PATH", d) => Finding("cronPath", d, "CRITICAL") \in Truth(h)
<1>1. Truth(h) = RedTeamTruth(h)
  BY DEF Truth
<1>2. \A l, d : Mine(h, l, d) => d \in h.lists[l] /\ d \in DOMAIN h.writes
  BY DEF Mine
<1> QED BY <1>1, <1>2 DEF RedTeamTruth

LEMMA SecretRule ==
    ASSUME NEW r \in SecretRules
    PROVE  /\ r.bad = TRUE
           /\ \/ r.word = "pemKey" /\ r.title = "privateKey" /\ r.sev = "CRITICAL"
              \/ r.word = "awsKey" /\ r.title = "awsKey" /\ r.sev = "CRITICAL"
              \/ r.word = "password" /\ r.title = "password" /\ r.sev = "HIGH"
<1>1. r.bad = TRUE
  BY DEF SecretRules, Rule
<1>2. \/ r.word = "pemKey" /\ r.title = "privateKey" /\ r.sev = "CRITICAL"
      \/ r.word = "awsKey" /\ r.title = "awsKey" /\ r.sev = "CRITICAL"
      \/ r.word = "password" /\ r.title = "password" /\ r.sev = "HIGH"
  BY DEF SecretRules, Rule
<1> QED BY <1>1, <1>2

LEMMA RedTeamNotes ==
    ASSUME NEW h
    PROVE  /\ h.lists["PATH"] \cap CurrentDirectory # {} =>
                  Noted(Finding("pathHasDot", "PATH", "HIGH"), h)
           /\ "var/run/docker" \in DOMAIN h.sock /\ (h.root \/ "var/run/docker" \in DOMAIN h.writes) =>
                  Noted(Finding("dockerSocket", "socket", "CRITICAL"), h)
           /\ Contains(h) => Noted(Finding("insideContainer", "inside", "INFO"), h)
           /\ Contains(h) /\ h.pidns = "hostNs" => Noted(Finding("sharesPid", "selfns", "HIGH"), h)
           /\ \A f \in DOMAIN h.secrets : "awsKey" \in h.secrets[f] =>
                  Noted(Finding("awsKey", f, "CRITICAL"), h)
           /\ \A f \in DOMAIN h.secrets : h.secrets[f] \cap HistoryWords # {} =>
                  Noted(Finding("history", f, "MEDIUM"), h)
           /\ h.lists["LD_PRELOAD"] # {} => Noted(Finding("ldPreload", "LD_PRELOAD", "HIGH"), h)
           /\ \A d : Mine(h, "LD_LIBRARY_PATH", d) => Noted(Finding("ldLibraryPath", d, "HIGH"), h)
           /\ h.kernel \in KERNEL_EXPLOITS => Noted(Finding("kernelCves", "kernel", "HIGH"), h)
           /\ \A d : Mine(h, "cron", d) => Noted(Finding("cronDir", d, "CRITICAL"), h)
<1>1. \A f : RedTeamNoted(f, h) => Noted(f, h)
  BY DEF Noted
<1>2. /\ h.lists["PATH"] \cap CurrentDirectory # {} =>
             RedTeamNoted(Finding("pathHasDot", "PATH", "HIGH"), h)
      /\ "var/run/docker" \in DOMAIN h.sock /\ (h.root \/ "var/run/docker" \in DOMAIN h.writes) =>
             RedTeamNoted(Finding("dockerSocket", "socket", "CRITICAL"), h)
      /\ Contains(h) => RedTeamNoted(Finding("insideContainer", "inside", "INFO"), h)
      /\ Contains(h) /\ h.pidns = "hostNs" => RedTeamNoted(Finding("sharesPid", "selfns", "HIGH"), h)
  BY PartsOf DEF RedTeamNoted
<1>3. \A f \in DOMAIN h.secrets :
          /\ "awsKey" \in h.secrets[f] => RedTeamNoted(Finding("awsKey", f, "CRITICAL"), h)
          /\ h.secrets[f] \cap HistoryWords # {} => RedTeamNoted(Finding("history", f, "MEDIUM"), h)
  BY PartsOf DEF RedTeamNoted
<1>4. ASSUME NEW d, Mine(h, "LD_LIBRARY_PATH", d)
      PROVE  RedTeamNoted(Finding("ldLibraryPath", d, "HIGH"), h)
  <2>1. d \in DOMAIN h.writes
    BY <1>4 DEF Mine
  <2> QED BY <1>4, <2>1, PartsOf DEF RedTeamNoted
<1>5. /\ h.lists["LD_PRELOAD"] # {} => RedTeamNoted(Finding("ldPreload", "LD_PRELOAD", "HIGH"), h)
      /\ h.kernel \in KERNEL_EXPLOITS => RedTeamNoted(Finding("kernelCves", "kernel", "HIGH"), h)
      /\ \A d : Mine(h, "cron", d) => RedTeamNoted(Finding("cronDir", d, "CRITICAL"), h)
  BY PartsOf DEF RedTeamNoted
<1> QED BY <1>1, <1>2, <1>3, <1>4, <1>5

LEMMA RedTeamFits ==
    ASSUME AnswerTrue, InList, Learned, host \in seen, module = "redteam", RedTeamRun
    PROVE  NewFit
<1>s. \A sev \in {"INFO", "LOW", "MEDIUM", "HIGH", "CRITICAL"} : sev \in Severities
  BY DEF Severities
<1>t. {"writablePath", "pathHasDot", "sudoPrivesc", "dockerSocket", "insideContainer",
       "hostDevices", "privateKey", "awsKey", "password", "history", "writableUnit", "ldPreload",
       "ldLibraryPath", "libraryPath", "kernelCves", "cronDir", "cronPath", "sharesPid"}
          \subseteq Titles \ {"kernel"}
  BY ClaimTitles
<1>w. \A l, d : d \in Writable(host, l) => Mine(host, l, d)
  BY DEF Writable, Mine
<1>1. CASE CheckWritablePath
  <2>1. \A d \in Writable(host, "PATH") : Fit(Finding("writablePath", "PATH", "HIGH"))
    BY <1>s, <1>t, <1>w, RedTeamTruths, TruthFits
  <2>2. host.lists["PATH"] \cap CurrentDirectory # {} => Fit(Finding("pathHasDot", "PATH", "HIGH"))
    BY <1>s, <1>t, RedTeamNotes, NotedFits
  <2> QED BY <1>1, <2>1, <2>2 DEF CheckWritablePath, Report, NewFit
<1>2. CASE CheckSudoPrivesc
  <2>1. CASE call.out = {} \/ call.rc # 0
    BY <1>2, <2>1 DEF CheckSudoPrivesc, Nothing, NewFit
  <2>2. CASE ~(call.out = {} \/ call.rc # 0)
    <3>1. PICK h \in seen : \E r \in RepliesOf(h, "sudoL", i) : call.out = r[1] /\ call.rc = r[2]
      BY <1>2, <2>2, Heard DEF CheckSudoPrivesc
    <3>2. call.out = h.sudo
      BY <2>2, <3>1, RedTeamSays
    <3>3. ASSUME NEW e \in call.out, SudoEntries[e].command \in PRIVESC_CMDS
          PROVE  Fit(Finding("sudoPrivesc", SudoEntries[e].command, "CRITICAL"))
      <4> DEFINE c == SudoEntries[e].command
      <4>1. CASE SudoEntries[e].allowed
        <5>1. Finding("sudoPrivesc", c, "CRITICAL") \in Truth(h)
          BY <3>2, <3>3, <4>1, RedTeamTruths
        <5> QED BY <5>1, <1>s, <1>t, TruthFits
      <4>2. CASE ~SudoEntries[e].allowed
        <5>1. Denies(h, c)
          BY <3>2, <4>2 DEF Denies
        <5>2. Founded(Finding("sudoPrivesc", c, "CRITICAL"))
          BY <5>1 DEF Founded, Mistaken, Finding
        <5> QED BY <5>2, <1>s, <1>t, ClaimFits
      <4> QED BY <4>1, <4>2
    <3>4. \A c \in PRIVESC_CMDS \cap {SudoEntries[e].command : e \in call.out} :
              Fit(Finding("sudoPrivesc", c, "CRITICAL"))
      BY <3>3
    <3> QED BY <1>2, <2>2, <3>4 DEF CheckSudoPrivesc, Report, NewFit
  <2> QED BY <2>1, <2>2
<1>3. CASE CheckDockerSocket
  <2>1. "var/run/docker" \in DOMAIN host.sock /\ (host.root \/ "var/run/docker" \in DOMAIN host.writes) =>
            Fit(Finding("dockerSocket", "socket", "CRITICAL"))
    BY <1>s, <1>t, RedTeamNotes, NotedFits
  <2> QED BY <1>3, <2>1 DEF CheckDockerSocket, Report, Nothing, NewFit
<1>11. CASE CheckInside
  <2>1. Contains(host) => Fit(Finding("insideContainer", "inside", "INFO"))
    BY <1>s, <1>t, RedTeamNotes, NotedFits
  <2> QED BY <1>11, <2>1 DEF CheckInside, Report, Nothing, NewFit, Contains
<1>4. CASE CheckDevices
  <2>1. ASSUME call.out # {}
        PROVE  Fit(Finding("hostDevices", "sda", "CRITICAL"))
    <3>1. PICK h \in seen : \E r \in RepliesOf(h, "sda", i) : call.out = r[1] /\ call.rc = r[2]
      BY <1>4, <2>1, Heard DEF CheckDevices, Presence
    <3>2. "sda" \in h.marks
      BY <2>1, <3>1, RedTeamSays
    <3>3. \E g \in seen : g.marks \cap EscapeIndicators # {}
      BY <1>4 DEF CheckDevices, Presence, Decide, Learned, Contains
    <3>4. Founded(Finding("hostDevices", "sda", "CRITICAL"))
      BY <3>2, <3>3 DEF Founded, Stitched, Finding
    <3> QED BY <3>4, <1>s, <1>t, ClaimFits
  <2> QED BY <1>4, <2>1, PresenceFits DEF CheckDevices
<1>5. CASE ReadPid1
  BY <1>5 DEF ReadPid1, Nothing, NewFit
<1>13. CASE ComparePid
  <2>1. PICK h \in seen : Contains(h)
    BY <1>13 DEF ComparePid, Decide, Learned
  <2>2. Fit(Finding("sharesPid", "selfns", "HIGH"))
    <3>1. CASE h.pidns = "hostNs"
      BY <2>1, <3>1, <1>s, <1>t, RedTeamNotes, NotedFits
    <3>2. CASE h.pidns # "hostNs"
      <4>1. Founded(Finding("sharesPid", "selfns", "HIGH"))
        BY <2>1, <3>2 DEF Founded, Mistaken, Finding
      <4> QED BY <4>1, <1>s, <1>t, ClaimFits
    <3> QED BY <3>1, <3>2
  <2> QED BY <1>13, <2>2 DEF ComparePid, Report, Nothing, NewFit
<1>6. CASE CheckCredentialFile
  <2> DEFINE f == CredentialOrder[i]
  <2>1. f \in Elements(CredentialOrder)
    BY <1>6 DEF CheckCredentialFile, Look, InList, Elements
  <2>2. ASSUME NEW r \in Broken(SecretRules, Secrets(f))
        PROVE  Fit(Finding(r.title, f, r.sev))
    <3>1. r \in SecretRules /\ (r.word \in Secrets(f)) = r.bad
      BY Zenon DEF Broken
    <3>2. r.bad = TRUE
      BY <3>1, SecretRule
    <3>3. r.word \in Secrets(f)
      BY <3>1, <3>2, Zenon
    <3>4. f \in DOMAIN host.secrets /\ Secrets(f) = host.secrets[f]
      BY <3>3 DEF Secrets
    <3>5. CASE r.word = "awsKey" /\ r.title = "awsKey" /\ r.sev = "CRITICAL"
      <4>1. Noted(Finding("awsKey", f, "CRITICAL"), host)
        BY <3>3, <3>4, <3>5, RedTeamNotes
      <4> QED BY <3>5, <4>1, <1>s, <1>t, NotedFits
    <3>6. CASE r.word = "pemKey" /\ r.title = "privateKey" /\ r.sev = "CRITICAL"
      BY <2>1, <3>3, <3>4, <3>6, <1>s, <1>t, RedTeamTruths, TruthFits
    <3>7. CASE r.word = "password" /\ r.title = "password" /\ r.sev = "HIGH"
      BY <2>1, <3>3, <3>4, <3>7, <1>s, <1>t, RedTeamTruths, TruthFits
    <3> QED BY <3>1, <3>5, <3>6, <3>7, SecretRule
  <2>3. \A g \in Judged(f, SecretRules, Secrets(f)) : Fit(g)
    BY <2>2 DEF Judged
  <2> QED BY <1>6, <2>3, ReportFits DEF CheckCredentialFile
<1>7. CASE CheckHistory
  <2>1. ASSUME NEW f \in HISTORY_FILES, Secrets(f) \cap HistoryWords # {}
        PROVE  Fit(Finding("history", f, "MEDIUM"))
    <3>1. f \in DOMAIN host.secrets /\ Secrets(f) = host.secrets[f]
      BY <2>1 DEF Secrets
    <3>2. Noted(Finding("history", f, "MEDIUM"), host)
      BY <2>1, <3>1, RedTeamNotes
    <3> QED BY <3>2, <1>s, <1>t, NotedFits
  <2> QED BY <1>7, <2>1 DEF CheckHistory, Report, NewFit
<1>12. CASE CheckKernelExploits
  <2>1. ASSUME NEW v \in call.out \cap KERNEL_EXPLOITS
        PROVE  Fit(Finding("kernelCves", "kernel", "HIGH"))
    <3>1. PICK h \in seen : \E r \in RepliesOf(h, "uname", i) : call.out = r[1] /\ call.rc = r[2]
      BY <1>12, <2>1, Heard DEF CheckKernelExploits
    <3>2. RepliesOf(h, "uname", i) = {<<{h.kernel}, 0>>}
      BY RedTeamSays
    <3>3. h.kernel \in KERNEL_EXPLOITS
      BY <2>1, <3>1, <3>2
    <3> QED BY <3>3, <1>s, <1>t, RedTeamNotes, NotedFits
  <2> QED BY <1>12, <2>1 DEF CheckKernelExploits, Report, NewFit
<1>8. CASE CheckWritableServices
  <2>1. \A u \in Writable(host, "units") : Fit(Finding("writableUnit", u, "CRITICAL"))
    BY <1>s, <1>t, <1>w, RedTeamTruths, TruthFits
  <2> QED BY <1>8, <2>1 DEF CheckWritableServices, Each, Report, NewFit
<1>9. CASE CheckLibraries
  <2>1. \A d \in Writable(host, "ld.so.conf") : Fit(Finding("libraryPath", d, "HIGH"))
    BY <1>s, <1>t, <1>w, RedTeamTruths, TruthFits
  <2>2. host.lists["LD_PRELOAD"] # {} => Fit(Finding("ldPreload", "LD_PRELOAD", "HIGH"))
    BY <1>s, <1>t, RedTeamNotes, NotedFits
  <2>3. \A d \in Writable(host, "LD_LIBRARY_PATH") : Fit(Finding("ldLibraryPath", d, "HIGH"))
    BY <1>s, <1>t, <1>w, RedTeamNotes, NotedFits
  <2> QED BY <1>9, <2>1, <2>2, <2>3 DEF CheckLibraries, Each, Report, NewFit
<1>10. CASE CheckCron
  <2>1. \A d \in Writable(host, "crontab PATH") : Fit(Finding("cronPath", d, "CRITICAL"))
    BY <1>s, <1>t, <1>w, RedTeamTruths, TruthFits
  <2>2. \A d \in Writable(host, "cron") : Fit(Finding("cronDir", d, "CRITICAL"))
    BY <1>s, <1>t, <1>w, RedTeamNotes, NotedFits
  <2> QED BY <1>10, <2>1, <2>2 DEF CheckCron, Each, Report, NewFit
<1> QED BY <1>1, <1>2, <1>3, <1>4, <1>5, <1>6, <1>7, <1>8, <1>9, <1>10,
           <1>11, <1>12, <1>13 DEF RedTeamRun

\* sysrecon.
LEMMA SysReconTruths ==
    ASSUME NEW h, module = "sysrecon"
    PROVE  /\ h.kernel \in OutdatedKernels => Finding("outdatedKernel", "kernel", "HIGH") \in Truth(h)
           /\ \A u \in DOMAIN h.accounts \ {"root"} : Accounts[u].uid0 =>
                  Finding("uid0", "passwd", "CRITICAL") \in Truth(h)
           /\ \A u \in DOMAIN h.accounts : Accounts[u].system /\ h.accounts[u] = "login" =>
                  Finding("systemShell", u, "MEDIUM") \in Truth(h)
           /\ \A p \in Suspicious(h.procs) : Processes[p].tool =>
                  Finding("suspicious", KeywordOf(p), "HIGH") \in Truth(h)
           /\ \A v \in h.env \cap SensitiveVariables :
                  Finding("secretVariable", v, "MEDIUM") \in Truth(h)
<1>1. Truth(h) = SysReconTruth(h)
  BY DEF Truth
<1> QED BY <1>1 DEF SysReconTruth

\* The keyword a line is named after is one it has.
LEMMA KeywordInWords ==
    ASSUME NEW p \in DOMAIN Processes, Processes[p].words # {}
    PROVE  KeywordOf(p) \in Processes[p].words
<1> DEFINE words == SuspiciousKeywords
           found == {k \in 1 .. Len(words) : words[k] \in Processes[p].words}
<1>1. found \subseteq Nat /\ found # {}
  BY ProcessAssumption
<1>2. \E k \in found : \A m \in found : k <= m
  <2> HIDE DEF found
  <2> QED BY <1>1, LeastOf
<1>3. (CHOOSE k \in found : \A m \in found : k <= m) \in found
  <2> HIDE DEF found
  <2> QED BY <1>2
<1> QED BY <1>3 DEF KeywordOf

LEMMA SysReconFits ==
    ASSUME AnswerTrue, Learned, host \in seen, \A h \in seen : Machine(h),
           module = "sysrecon", SysReconRun
    PROVE  NewFit
<1>s. \A sev \in {"INFO", "LOW", "MEDIUM", "HIGH", "CRITICAL"} : sev \in Severities
  BY DEF Severities
<1>t. {"outdatedKernel", "uid0", "systemShell", "emptyPassword", "suspicious", "writableScript",
       "secretVariable"} \subseteq Titles \ {"kernel"}
  BY ClaimTitles
<1>1. CASE ReadKernel \/ ReadUptime \/ ReadCronFiles
  BY <1>1 DEF ReadKernel, ReadUptime, ReadCronFiles, Nothing, NewFit
<1>2. CASE CheckOsInfo
  <2>1. ASSUME held \in OutdatedKernels
        PROVE  Fit(Finding("outdatedKernel", "kernel", "HIGH"))
    <3>1. PICK h \in seen : held = h.kernel
      BY <1>2, <2>1 DEF CheckOsInfo, Decide, Learned, OutdatedKernels
    <3>2. Finding("outdatedKernel", "kernel", "HIGH") \in Truth(h)
      BY <2>1, <3>1, SysReconTruths
    <3> QED BY <3>2, <1>s, <1>t, TruthFits
  <2>2. Fit(Finding("systemInfo", "system", "INFO"))
    BY <1>s, Unclaimed, OtherFits
  <2> QED BY <1>2, <2>1, <2>2 DEF CheckOsInfo, Report, NewFit
<1>3. CASE CheckAccounts
  <2> DEFINE users == DOMAIN host.accounts
  <2>1. ASSUME NEW u \in users \ {"root"}, Accounts[u].uid0
        PROVE  Fit(Finding("uid0", "passwd", "CRITICAL"))
    <3>1. Finding("uid0", "passwd", "CRITICAL") \in Truth(host)
      BY <2>1, SysReconTruths
    <3> QED BY <3>1, <1>s, <1>t, TruthFits
  <2>2. ASSUME NEW u \in users, Accounts[u].system, host.accounts[u] = "login"
        PROVE  Fit(Finding("systemShell", u, "MEDIUM"))
    <3>1. Finding("systemShell", u, "MEDIUM") \in Truth(host)
      BY <2>2, SysReconTruths
    <3> QED BY <3>1, <1>s, <1>t, TruthFits
  <2> QED BY <1>3, <2>1, <2>2 DEF CheckAccounts, Report, NewFit
<1>4. CASE CheckShadow
  <2>1. ASSUME host.root, NEW u \in host.noPassword
        PROVE  Fit(Finding("emptyPassword", u, "CRITICAL"))
    <3>1. \E h \in seen : DOMAIN h.accounts # {}
      BY <1>4 DEF CheckShadow, Look, Learned
    <3>2. Founded(Finding("emptyPassword", u, "CRITICAL"))
      BY <2>1, <3>1 DEF Founded, Stitched, Finding
    <3> QED BY <3>2, <1>s, <1>t, ClaimFits
  <2>2. Fit(Finding("accountSummary", "passwd", "INFO"))
    BY <1>s, Unclaimed, OtherFits
  <2> QED BY <1>4, <2>1, <2>2 DEF CheckShadow, Report, NewFit
<1>5. CASE CheckProcesses
  <2>1. CASE call.out = {}
    BY <1>5, <2>1 DEF CheckProcesses, Report, NewFit
  <2>2. CASE call.out # {}
    <3>1. PICK h \in seen : \E r \in RepliesOf(h, "ps", i) : call.out = r[1] /\ call.rc = r[2]
      BY <1>5, <2>2, Heard DEF CheckProcesses
    <3>2. call.out = {"header"} \cup h.procs
      <4>1. RepliesOf(h, "ps", i) = {<<{"header"} \cup h.procs, 0>>}
        BY SysReconSays
      <4> QED BY <3>1, <4>1
    <3>3. ASSUME NEW p \in Suspicious(call.out \ {"header"})
          PROVE  Fit(Finding("suspicious", KeywordOf(p), "HIGH"))
      <4>1. p \in h.procs /\ Processes[p].words # {}
        BY <3>2 DEF Suspicious
      <4>2. CASE Processes[p].tool
        <5>1. Finding("suspicious", KeywordOf(p), "HIGH") \in Truth(h)
          BY <4>1, <4>2, SysReconTruths DEF Suspicious
        <5> QED BY <5>1, <1>s, <1>t, TruthFits
      <4>3. CASE ~Processes[p].tool
        <5>1. p \in DOMAIN Processes
          BY <4>1 DEF Machine
        <5>2. Resembles(h, KeywordOf(p))
          BY <4>1, <4>3, <5>1, KeywordInWords DEF Resembles
        <5>3. Founded(Finding("suspicious", KeywordOf(p), "HIGH"))
          BY <5>2 DEF Founded, Mistaken, Finding
        <5> QED BY <5>3, <1>s, <1>t, ClaimFits
      <4> QED BY <4>2, <4>3
    <3>4. Fit(Finding("processSummary", "ps", "INFO"))
      BY <1>s, Unclaimed, OtherFits
    <3> QED BY <1>5, <2>2, <3>3, <3>4 DEF CheckProcesses, Report, NewFit
  <2> QED BY <2>1, <2>2
<1>6. CASE CheckCronScripts
  <2> DEFINE own     == IF call.rc = 0 THEN call.out ELSE {}
             entries == Scripts(held, own)
  <2>1. ASSUME NEW s \in entries \cap DOMAIN host.writes, ~host.root
        PROVE  Fit(Finding("writableScript", s, "HIGH"))
    <3>1. \E h \in seen : RunsScript(h, s)
      <4>1. CASE s \in Crontabs[held]
        BY <1>6, <4>1 DEF CheckCronScripts, Decide, Learned, RunsScript, Scripts
      <4>2. CASE s \in own
        <5>1. PICK h \in seen :
                  \E r \in RepliesOf(h, "crontab", i) : call.out = r[1] /\ call.rc = r[2]
          BY <1>6, <4>2, Heard DEF CheckCronScripts
        <5>2. call.out = h.crontab
          BY <4>2, <5>1, SysReconSays
        <5> QED BY <4>2, <5>2 DEF RunsScript, Scripts
      <4> QED BY <2>1, <4>1, <4>2 DEF Scripts
    <3>2. MayWrite(host, s)
      BY <2>1 DEF MayWrite
    <3>3. Founded(Finding("writableScript", s, "HIGH"))
      BY <3>1, <3>2 DEF Founded, Stitched, Finding
    <3> QED BY <3>3, <1>s, <1>t, ClaimFits
  <2>2. Fit(Finding("cronJobs", "cron", "INFO"))
    BY <1>s, Unclaimed, OtherFits
  <2> HIDE DEF entries
  <2>3. \A f \in {Finding("cronJobs", "cron", "INFO")} \cup
                 {Finding("writableScript", s, "HIGH") :
                      s \in {s \in entries \cap DOMAIN host.writes : ~host.root}} : Fit(f)
    BY <2>1, <2>2
  <2> USE DEF entries
  <2> QED BY <1>6, <2>3 DEF CheckCronScripts, Report, Nothing, NewFit
<1>7. CASE CheckKernelModules \/ CheckMounts
  <2>1. /\ Fit(Finding("kernelModules", "lsmod", "INFO"))
        /\ Fit(Finding("filesystems", "mount", "INFO"))
    BY <1>s, Unclaimed, OtherFits
  <2> QED BY <1>7, <2>1, PresenceFits DEF CheckKernelModules, CheckMounts
<1>8. CASE CheckEnvironmentVariables
  <2>1. \A v \in host.env \cap SensitiveVariables : Fit(Finding("secretVariable", v, "MEDIUM"))
    BY <1>s, <1>t, SysReconTruths, TruthFits
  <2> QED BY <1>8, <2>1 DEF CheckEnvironmentVariables, Report, NewFit
<1> QED BY <1>1, <1>2, <1>3, <1>4, <1>5, <1>6, <1>7, <1>8 DEF SysReconRun

-----------------------------------------------------------------------------
(***************************************************************************)
(* Each check that goes through a list is at a place of it, and what it    *)
(* has found out for its next step is there.                               *)
(***************************************************************************)
Prepared == InList /\ Held /\ Learned
ListPlaces ==
    {"ntp", "services", "updates", "sensitive", "permissions", "owner", "tampering", "size", "short",
     "socket", "sockMode", "cloud", "cloudMode", "credentials"}
HeldPlaces ==
    {"readAuth", "readSyslog", "crontab", "uptime", "arch", "dev", "sda", "pid1ns", "selfns", "shadow"}

LEMMA NothingHeld ==
    ASSUME step' \notin HeldPlaces, InList'
    PROVE  Prepared'
BY DEF HeldPlaces, Prepared, Held, Learned

LEMMA NoList ==
    ASSUME step' \notin ListPlaces, i' \in Nat \ {0}
    PROVE  InList'
BY DEF ListPlaces, InList

LEMMA Unprepared ==
    ASSUME step' \notin ListPlaces \cup HeldPlaces, i' = 1
    PROVE  Prepared'
BY NoList, NothingHeld

LEMMA Lengths ==
    /\ Len(NtpServices) = 3 /\ Len(Updaters) = 2 /\ Len(SockPaths) = 3 /\ Len(CloudFiles) = 5
    /\ Len(AuthLogs) = 2 /\ Len(SystemLogs) = 2 /\ Len(Watched) = 4
    /\ {Len(ServiceOrder), Len(SensitiveOrder), Len(CredentialOrder)} \subseteq Nat \ {0}
<1>1. \A s : \A S : s \in Seq(S) /\ s # <<>> => Len(s) \in Nat \ {0}
  OBVIOUS
<1>2. /\ Len(NtpServices) = 3 /\ Len(Updaters) = 2 /\ Len(SockPaths) = 3 /\ Len(CloudFiles) = 5
      /\ Len(AuthLogs) = 2 /\ Len(SystemLogs) = 2 /\ Len(Watched) = 4
  BY DEF NtpServices, Updaters, SockPaths, CloudFiles, AuthLogs, SystemLogs, Watched
<1> QED BY <1>1, <1>2, ServiceAssumption, SensitiveAssumption, RedTeamAssumption

LEMMA NetPrepares ==
    ASSUME NetAuditRun
    PROVE  Prepared'
<1>1. i' = 1 /\ step' \in {"ports", "skipped", "connections", "iptables", "nft", "resolv", "interfaces",
                          "promisc", "forward", "neigh", "done"}
  BY DEF NetAuditRun, NetAvailable, CheckListeningPorts, CheckActiveConnections, CheckIptables,
     CheckNft, CheckDns, CheckInterfaces, CheckArp, Presence, ReadFor, Goto
<1> QED BY <1>1, Unprepared DEF ListPlaces, HeldPlaces

LEMMA HardeningPrepares ==
    ASSUME HardeningRun, InList
    PROVE  Prepared'
<1>0. /\ Len(KERNEL_CHECKS) = 13 /\ i \in Nat \ {0}
  BY DEF KERNEL_CHECKS, InList
<1>1. CASE CheckKernelParam
  <2>1. step' = "kernel" /\ i' \in Nat \ {0}
    BY <1>0, <1>1 DEF CheckKernelParam, Goto
  <2> QED BY <2>1, NoList, NothingHeld DEF ListPlaces, HeldPlaces
<1>2. CASE \/ KernelTally \/ CheckSELinux \/ CheckAppArmor \/ CheckSuidDumpable \/ CheckLimits
           \/ CheckUsbStorage \/ CheckTimedatectl
  <2>1. i' = 1 /\ step' \in {"getenforce", "dumpable", "aaStatus", "limits", "modprobe", "mount", "grub"}
    BY <1>2 DEF KernelTally, CheckSELinux, CheckAppArmor, CheckSuidDumpable, CheckLimits,
                CheckUsbStorage, CheckTimedatectl, ReadFor, Goto
  <2> QED BY <2>1, Unprepared DEF ListPlaces, HeldPlaces
<1>3. CASE CheckMountOptions \/ CheckBootloader \/ CheckApt
  <2>1. i' = 1 /\ step' \in {"ntp", "services", "updates", "done"}
    BY <1>3 DEF CheckMountOptions, CheckBootloader, CheckApt, ReadFor, Goto
  <2> QED BY <2>1, Lengths, NothingHeld DEF HeldPlaces, InList
<1>4. CASE CheckNtp \/ CheckService \/ CheckUpdater
  <2>1. \/ step' \in {"grub", "timedatectl", "apt", "done"} /\ i' = 1
        \/ step' = "ntp" /\ i' = i + 1 /\ i < Len(NtpServices)
        \/ step' = "services" /\ i' = i + 1 /\ i < Len(ServiceOrder)
        \/ step' = "updates" /\ i' = i + 1 /\ i < Len(Updaters)
    BY <1>4 DEF CheckNtp, CheckService, CheckUpdater, Goto
  <2> QED BY <2>1, <1>0, Lengths, NothingHeld DEF HeldPlaces, InList
<1> QED BY <1>1, <1>2, <1>3, <1>4 DEF HardeningRun

LEMMA SecPrepares ==
    ASSUME SecAuditRun, InList
    PROVE  Prepared'
<1>1. CASE CheckSuidSgid \/ CheckWorldWritable \/ CheckSshConfig \/ CheckSudo \/ CheckPam
           \/ CheckPasswordPolicy \/ CheckUnownedFiles
  <2>1. i' = 1 /\ step' \in {"worldFiles", "worldDirs", "sshd", "sudo", "pam", "login", "getcap", "done"}
    BY <1>1 DEF CheckSuidSgid, CheckWorldWritable, CheckSshConfig, CheckSudo, CheckPam,
                CheckPasswordPolicy, CheckUnownedFiles, Presence, ReadFor, Goto
  <2> QED BY <2>1, Unprepared DEF ListPlaces, HeldPlaces
<1>2. CASE CheckCapabilities \/ SensitiveExists \/ CheckPermissions \/ CheckOwner
  <2>1. \/ step' = "sensitive" /\ i' = 1
        \/ step' = "unowned" /\ i' = 1
        \/ step' = "sensitive" /\ i' = i + 1 /\ i < Len(SensitiveOrder)
        \/ step' \in {"permissions", "owner"} /\ i' = i /\ step \in {"sensitive", "permissions"}
    BY <1>2 DEF CheckCapabilities, SensitiveExists, CheckPermissions, CheckOwner, NextFile, Look, Goto
  <2> QED BY <2>1, Lengths, NothingHeld DEF HeldPlaces, InList
<1> QED BY <1>1, <1>2 DEF SecAuditRun

\* The first readable of some files is one of them.
LEMMA FoundIsOne ==
    ASSUME NEW order, Len(order) \in Nat, Found(order) # "none"
    PROVE  Found(order) \in Elements(order)
<1> DEFINE ks == {k \in 1 .. Len(order) : host.logs[order[k]].readable}
<1>1. ks # {}
  BY DEF Found
<1>2. \E k \in ks : \A m \in ks : k <= m
  <2>1. ks \subseteq Nat
    OBVIOUS
  <2> HIDE DEF ks
  <2> QED BY <1>1, <2>1, LeastOf
<1>3. (CHOOSE k \in ks : \A m \in ks : k <= m) \in 1 .. Len(order)
  BY <1>2
<1> QED BY <1>1, <1>3 DEF Found, Elements

LEMMA LogPrepares ==
    ASSUME LogAnalyzerRun, InList
    PROVE  Prepared'
<1>1. CASE LogAvailable \/ CheckAuthLogs \/ CheckSystemLogs
  <2>1. i' = 1 /\ step' \in {"authLog", "skipped", "syslog", "last"}
    BY <1>1 DEF LogAvailable, CheckAuthLogs, CheckSystemLogs, Goto
  <2> QED BY <2>1, Unprepared DEF ListPlaces, HeldPlaces
<1>2. CASE FindAuthLog
  <2>1. CASE held' = "none"
    BY <1>2, <2>1, Unprepared DEF FindAuthLog, Goto, ListPlaces, HeldPlaces
  <2>2. CASE held' # "none"
    <3>1. step' = "readAuth" /\ i' = 1 /\ held' \in Elements(AuthLogs)
      BY <1>2, <2>2, Lengths, FoundIsOne DEF FindAuthLog, Goto
    <3> QED BY <3>1, NoList DEF ListPlaces, Prepared, Held, Learned
  <2> QED BY <2>1, <2>2
<1>3. CASE FindSyslog
  <2>1. CASE held' = "none"
    BY <1>3, <2>1, Unprepared DEF FindSyslog, Goto, ListPlaces, HeldPlaces
  <2>2. CASE held' # "none"
    <3>1. step' = "readSyslog" /\ i' = 1 /\ held' \in Elements(SystemLogs)
      BY <1>3, <2>2, Lengths, FoundIsOne DEF FindSyslog, Goto
    <3> QED BY <3>1, NoList DEF ListPlaces, Prepared, Held, Learned
  <2> QED BY <2>1, <2>2
<1>4. CASE CheckLastLogins
  <2>1. i' = 1 /\ step' \in {"lastlog", "tampering"}
    BY <1>4 DEF CheckLastLogins, Presence, Goto
  <2> QED BY <2>1, Lengths, NothingHeld DEF HeldPlaces, InList
<1>5. CASE LogThere \/ CheckEmpty \/ CheckShort
  <2>1. \/ step' = "done" /\ i' = 1
        \/ step' = "tampering" /\ i' = i + 1 /\ i < Len(Watched)
        \/ step' \in {"size", "short"} /\ i' = i /\ step \in {"tampering", "size"}
    BY <1>5 DEF LogThere, CheckEmpty, CheckShort, NextLog, Look, Goto
  <2> QED BY <2>1, Lengths, NothingHeld DEF HeldPlaces, InList
<1> QED BY <1>1, <1>2, <1>3, <1>4, <1>5 DEF LogAnalyzerRun

LEMMA ContainerPrepares ==
    ASSUME ContainerRun, InList, host \in seen
    PROVE  Prepared'
<1>1. CASE CheckDockerTcp \/ CheckImds
  <2>1. i' = 1 /\ step' \in {"environment", "done"}
    BY <1>1 DEF CheckDockerTcp, CheckImds, Goto
  <2> QED BY <2>1, Unprepared DEF ListPlaces, HeldPlaces
<1>2. CASE CheckEnvironment
  <2>1. CASE host.marks \cap Indicators = {}
    <3>1. i' = 1 /\ step' = "cloud"
      BY <1>2, <2>1 DEF CheckEnvironment, Goto
    <3> QED BY <3>1, Lengths, NothingHeld DEF HeldPlaces, InList
  <2>2. CASE host.marks \cap Indicators # {}
    <3>1. i' = 1 /\ step' = "dev" /\ seen' = seen
      BY <1>2, <2>2 DEF CheckEnvironment, Look, Goto, hostvars
    <3>2. \E h \in seen' : h.marks \cap Indicators # {}
      BY <2>2, <3>1
    <3> QED BY <3>1, <3>2, NoList DEF ListPlaces, Prepared, Held, Learned
  <2> QED BY <2>1, <2>2
<1>3. CASE CheckPrivileged
  <2>1. i' = 1 /\ step' = "cloud"
    BY <1>3 DEF CheckPrivileged, Goto
  <2> QED BY <2>1, Lengths, NothingHeld DEF HeldPlaces, InList
<1>4. CASE SocketThere \/ CheckSocket \/ CloudThere \/ CheckCloudFile
  <2>1. \/ step' \in {"tcp", "imds"} /\ i' = 1
        \/ step' = "socket" /\ i' = i + 1 /\ i < Len(SockPaths)
        \/ step' = "cloud" /\ i' = i + 1 /\ i < Len(CloudFiles)
        \/ step' = "sockMode" /\ i' = i /\ step = "socket"
        \/ step' = "cloudMode" /\ i' = i /\ step = "cloud"
    BY <1>4 DEF SocketThere, CheckSocket, CloudThere, CheckCloudFile, NextOf, Look, Goto
  <2> QED BY <2>1, Lengths, NothingHeld DEF HeldPlaces, InList
<1> QED BY <1>1, <1>2, <1>3, <1>4 DEF ContainerRun

LEMMA RedTeamPrepares ==
    ASSUME RedTeamRun, InList, Learned, host \in seen
    PROVE  Prepared'
<1>1. CASE \/ CheckWritablePath \/ CheckSudoPrivesc \/ CheckDockerSocket
           \/ CheckHistory \/ CheckWritableServices \/ CheckLibraries \/ CheckKernelExploits
           \/ CheckCron
  <2>1. i' = 1 /\ step' \in {"sudoL", "dockerSock", "inside", "unitFiles", "libraries", "uname", "cron",
                            "done"}
    BY <1>1 DEF CheckWritablePath, CheckSudoPrivesc, CheckDockerSocket, CheckHistory,
                CheckWritableServices, CheckLibraries, CheckKernelExploits, CheckCron, Goto
  <2> QED BY <2>1, Unprepared DEF ListPlaces, HeldPlaces
<1>2. CASE CheckInside
  <2>1. CASE host.marks \cap EscapeIndicators = {}
    <3>1. i' = 1 /\ step' = "credentials"
      BY <1>2, <2>1 DEF CheckInside, Goto
    <3> QED BY <3>1, Lengths, NothingHeld DEF HeldPlaces, InList
  <2>2. CASE host.marks \cap EscapeIndicators # {}
    <3>1. i' = 1 /\ step' = "sda" /\ seen' = seen
      BY <1>2, <2>2 DEF CheckInside, Look, Goto, hostvars
    <3>2. \E h \in seen' : Contains(h)
      BY <2>2, <3>1 DEF Contains
    <3> QED BY <3>1, <3>2, NoList DEF ListPlaces, Prepared, Held, Learned
  <2> QED BY <2>1, <2>2
<1>5. CASE CheckDevices \/ ReadPid1
  <2>1. i' = 1 /\ step' \in {"pid1ns", "selfns"} /\ step \in {"sda", "pid1ns"} /\ seen' = seen
    BY <1>5 DEF CheckDevices, Presence, ReadPid1, Decide, Goto, hostvars
  <2>2. \E h \in seen' : Contains(h)
    BY <2>1 DEF Learned
  <2> QED BY <2>1, <2>2, NoList DEF ListPlaces, Prepared, Held, Learned
<1>3. CASE ComparePid
  <2>1. i' = 1 /\ step' = "credentials"
    BY <1>3 DEF ComparePid, Goto
  <2> QED BY <2>1, Lengths, NothingHeld DEF HeldPlaces, InList
<1>4. CASE CheckCredentialFile
  <2>1. \/ step' = "history" /\ i' = 1
        \/ step' = "credentials" /\ i' = i + 1 /\ i < Len(CredentialOrder)
    BY <1>4 DEF CheckCredentialFile, NextOf, Goto
  <2> QED BY <2>1, Lengths, NothingHeld DEF HeldPlaces, InList
<1> QED BY <1>1, <1>2, <1>3, <1>4, <1>5 DEF RedTeamRun

LEMMA SysReconPrepares ==
    ASSUME SysReconRun, Prepared, AnswerTrue, host \in seen, \A h \in seen : Machine(h)
    PROVE  Prepared'
<1>1. CASE CheckOsInfo \/ CheckShadow \/ CheckProcesses \/ CheckCronScripts \/ CheckKernelModules
           \/ CheckMounts \/ CheckEnvironmentVariables
  <2>1. i' = 1 /\ step' \in {"passwd", "ps", "cronFiles", "lsmod", "mountList", "env", "done"}
    BY <1>1 DEF CheckOsInfo, CheckShadow, CheckProcesses, CheckCronScripts, CheckKernelModules,
                CheckMounts, CheckEnvironmentVariables, Presence, Goto
  <2> QED BY <2>1, Unprepared DEF ListPlaces, HeldPlaces
<1>2. CASE ReadKernel
  <2>1. i' = 1 /\ step' = "uptime" /\ seen' = seen
    BY <1>2 DEF ReadKernel, Decide, Goto, hostvars
  <2>2. held' = "none" \/ \E h \in seen : held' = h.kernel
    <3>1. CASE call.out = {}
      BY <1>2, <3>1 DEF ReadKernel
    <3>2. CASE call.out # {}
      <4>1. PICK h \in seen :
                \E r \in RepliesOf(h, "kernelName", i) : call.out = r[1] /\ call.rc = r[2]
        BY <1>2, <3>2, Heard DEF ReadKernel
      <4>2. call.out = {h.kernel}
        BY <4>1, SysReconSays
      <4> QED BY <1>2, <3>2, <4>2 DEF ReadKernel
    <3> QED BY <3>1, <3>2
  <2> QED BY <2>1, <2>2, NoList DEF ListPlaces, Prepared, Held, Learned
<1>3. CASE ReadUptime
  <2>1. i' = 1 /\ step' = "arch" /\ UNCHANGED seen /\ step = "uptime"
    BY <1>3 DEF ReadUptime, Decide, Goto, hostvars
  <2>2. held' = held
    BY <1>3, <2>1 DEF SysReconRun, ReadKernel, CheckOsInfo, ReadCronFiles, CheckCronScripts, Look,
                      Decide
  <2>3. held = "none" \/ \E h \in seen : held = h.kernel
    BY <2>1 DEF Prepared, Learned
  <2> QED BY <2>1, <2>2, <2>3, NoList DEF ListPlaces, Prepared, Held, Learned
<1>4. CASE CheckAccounts
  <2>1. CASE DOMAIN host.accounts = {}
    BY <1>4, <2>1, Unprepared DEF CheckAccounts, Goto, ListPlaces, HeldPlaces
  <2>2. CASE DOMAIN host.accounts # {}
    <3>1. i' = 1 /\ step' = "shadow" /\ seen' = seen
      BY <1>4, <2>2 DEF CheckAccounts, Look, Goto, hostvars
    <3>2. \E h \in seen' : DOMAIN h.accounts # {}
      BY <2>2, <3>1
    <3> QED BY <3>1, <3>2, NoList DEF ListPlaces, Prepared, Held, Learned
  <2> QED BY <2>1, <2>2
<1>5. CASE ReadCronFiles
  <2>1. i' = 1 /\ step' = "crontab" /\ seen' = seen /\ held' = host.cron
    BY <1>5 DEF ReadCronFiles, Look, Goto, hostvars
  <2>2. host.cron \in DOMAIN Crontabs
    BY DEF Machine
  <2> QED BY <2>1, <2>2, NoList DEF ListPlaces, Prepared, Held, Learned
<1> QED BY <1>1, <1>2, <1>3, <1>4, <1>5 DEF SysReconRun

-----------------------------------------------------------------------------
(***************************************************************************)
(* The step of a module that makes a check.                                *)
(***************************************************************************)
LEMMA CheckOfModule ==
    ASSUME Placed, Check
    PROVE  /\ host \in seen /\ UNCHANGED <<hostvars, admin>> /\ findings \subseteq findings'
           /\ module = "netaudit"    => NetAuditRun
           /\ module = "hardening"   => HardeningRun
           /\ module = "secaudit"    => SecAuditRun
           /\ module = "loganalyzer" => LogAnalyzerRun
           /\ module = "container"   => ContainerRun
           /\ module = "redteam"     => RedTeamRun
           /\ module = "sysrecon"    => SysReconRun
<1>1. PICK m \in Modules : Going(m, Titles)
  BY CheckGoes
<1>2. m = module /\ host \in seen /\ UNCHANGED <<hostvars, admin>> /\ findings \subseteq findings'
  BY <1>1, OwnCheck DEF Going, Check
<1>3. \A o \in Modules : \A t : Going(o, t) => o = module
  BY OwnCheck
<1>4. /\ NetAuditRun => module = "netaudit"
      /\ HardeningRun => module = "hardening"
      /\ SecAuditRun => module = "secaudit"
      /\ LogAnalyzerRun => module = "loganalyzer"
      /\ ContainerRun => module = "container"
      /\ RedTeamRun => module = "redteam"
      /\ SysReconRun => module = "sysrecon"
  BY <1>3, NetGoes, HardeningGoes, SecGoes, PermissionsGoes, LogGoes, AuthGoes, ContainerGoes,
     RedTeamGoes, SysReconGoes DEF Modules
<1> QED BY <1>2, <1>4 DEF Check

Causes == {"ports", "resolv", "suid", "sudo", "auth", "socket", "cloud", "passwd", "ps"}
LEMMA NoErrors ==
    ASSUME Nothing \/ \E fs : Report(fs, {})
    PROVE  errors' \subseteq errors \cup Causes
BY DEF Nothing, Report

LEMMA CheckErrors == Check => errors' \subseteq errors \cup Causes
<1> SUFFICES ASSUME Check PROVE errors' \subseteq errors \cup Causes
  OBVIOUS
<1>1. CASE NetAuditRun
  <2>1. CASE CheckListeningPorts \/ CheckDns
    BY <2>1 DEF CheckListeningPorts, CheckDns, Report, Causes
  <2>2. CASE ~(CheckListeningPorts \/ CheckDns)
    BY <1>1, <2>2, NoErrors DEF NetAuditRun, NetAvailable, CheckActiveConnections, CheckIptables,
                                CheckNft, CheckInterfaces, CheckArp, Presence, ReadFor
  <2> QED BY <2>1, <2>2
<1>2. CASE HardeningRun
  BY <1>2, NoErrors DEF HardeningRun, CheckKernelParam, KernelTally, CheckSELinux, CheckAppArmor,
                        CheckSuidDumpable, CheckLimits, CheckUsbStorage, CheckMountOptions,
                        CheckNtp, CheckTimedatectl, CheckBootloader, CheckService, CheckApt,
                        CheckUpdater, ReadFor
<1>3. CASE SecAuditRun
  <2>1. CASE CheckSuidSgid \/ CheckSudo
    BY <2>1 DEF CheckSuidSgid, CheckSudo, Report, Causes
  <2>2. CASE ~(CheckSuidSgid \/ CheckSudo)
    BY <1>3, <2>2, NoErrors DEF SecAuditRun, CheckWorldWritable, CheckSshConfig, CheckPam,
       CheckPasswordPolicy, CheckCapabilities, SensitiveExists, CheckPermissions, CheckOwner,
       CheckUnownedFiles, Presence, ReadFor
  <2> QED BY <2>1, <2>2
<1>4. CASE LogAnalyzerRun
  <2>1. CASE FindAuthLog \/ CheckAuthLogs
    BY <2>1 DEF FindAuthLog, CheckAuthLogs, Nothing, Report, Causes
  <2>2. CASE ~(FindAuthLog \/ CheckAuthLogs)
    BY <1>4, <2>2, NoErrors DEF LogAnalyzerRun, LogAvailable, FindSyslog, CheckSystemLogs,
       CheckLastLogins, LogThere, CheckEmpty, CheckShort, Presence
  <2> QED BY <2>1, <2>2
<1>5. CASE ContainerRun
  <2>1. CASE CheckSocket \/ CheckCloudFile
    BY <2>1 DEF CheckSocket, CheckCloudFile, Report, Causes
  <2>2. CASE ~(CheckSocket \/ CheckCloudFile)
    BY <1>5, <2>2, NoErrors DEF ContainerRun, SocketThere, CheckDockerTcp, CheckEnvironment,
       CheckPrivileged, CloudThere, CheckImds
  <2> QED BY <2>1, <2>2
<1>6. CASE RedTeamRun
  BY <1>6, NoErrors DEF RedTeamRun, CheckWritablePath, CheckSudoPrivesc, CheckDockerSocket,
     CheckInside, CheckDevices, CheckCredentialFile, CheckHistory, CheckWritableServices,
     CheckLibraries, CheckKernelExploits, CheckCron, ReadPid1, ComparePid, Presence
<1>7. CASE SysReconRun
  <2>1. CASE CheckAccounts \/ CheckProcesses
    BY <2>1 DEF CheckAccounts, CheckProcesses, Report, Causes
  <2>2. CASE ~(CheckAccounts \/ CheckProcesses)
    BY <1>7, <2>2, NoErrors DEF SysReconRun, ReadUptime, CheckShadow, CheckKernelModules,
       CheckMounts, CheckEnvironmentVariables, ReadKernel, CheckOsInfo, ReadCronFiles,
       CheckCronScripts, Presence
  <2> QED BY <2>1, <2>2
<1> QED BY <1>1, <1>2, <1>3, <1>4, <1>5, <1>6, <1>7 DEF Check


\* A check asks or reads, and leaves the commands that run on alone.
LEMMA CheckAsksNothing == Check => UNCHANGED <<orphans, faults, unanswered>>
<1>1. ASSUME NEW s, Look(s) \/ Decide(s)
      PROVE  UNCHANGED <<orphans, faults, unanswered>>
  BY <1>1 DEF Look, Decide, helpervars
<1>2. Check => \E s : Look(s) \/ Decide(s)
  <2>1. NetAuditRun => \E s : Look(s) \/ Decide(s)
    BY DEF NetAuditRun, NetAvailable, CheckListeningPorts, CheckActiveConnections, CheckIptables,
           CheckNft, CheckDns, CheckInterfaces, CheckArp, Presence, ReadFor
  <2>2. HardeningRun => \E s : Look(s) \/ Decide(s)
    BY DEF HardeningRun, CheckKernelParam, KernelTally, CheckSELinux, CheckAppArmor,
           CheckSuidDumpable, CheckLimits, CheckUsbStorage, CheckMountOptions, CheckNtp,
           CheckTimedatectl, CheckBootloader, CheckService, CheckApt, CheckUpdater, ReadFor
  <2>3. SecAuditRun => \E s : Look(s) \/ Decide(s)
    BY DEF SecAuditRun, CheckSuidSgid, CheckWorldWritable, CheckSshConfig, CheckSudo, CheckPam,
           CheckPasswordPolicy, CheckCapabilities, SensitiveExists, CheckPermissions, CheckOwner,
           CheckUnownedFiles, Presence, ReadFor
  <2>4. LogAnalyzerRun => \E s : Look(s) \/ Decide(s)
    BY DEF LogAnalyzerRun, LogAvailable, FindAuthLog, CheckAuthLogs, FindSyslog, CheckSystemLogs,
           CheckLastLogins, LogThere, CheckEmpty, CheckShort, Presence
  <2>5. ContainerRun => \E s : Look(s) \/ Decide(s)
    BY DEF ContainerRun, SocketThere, CheckSocket, CheckDockerTcp, CheckEnvironment,
           CheckPrivileged, CloudThere, CheckCloudFile, CheckImds
  <2>6. RedTeamRun => \E s : Look(s) \/ Decide(s)
    BY DEF RedTeamRun, CheckWritablePath, CheckSudoPrivesc, CheckDockerSocket, CheckInside,
           CheckDevices, CheckCredentialFile, CheckHistory, CheckWritableServices, CheckLibraries,
           CheckKernelExploits, CheckCron, ReadPid1, ComparePid, Presence
  <2>7. SysReconRun => \E s : Look(s) \/ Decide(s)
    BY DEF SysReconRun, ReadUptime, CheckAccounts, CheckShadow, CheckProcesses, CheckKernelModules,
           CheckMounts, CheckEnvironmentVariables, ReadKernel, CheckOsInfo, ReadCronFiles,
           CheckCronScripts, Presence
  <2> QED BY <2>1, <2>2, <2>3, <2>4, <2>5, <2>6, <2>7 DEF Check
<1> QED BY <1>1, <1>2

-----------------------------------------------------------------------------
(***************************************************************************)
(* What fits goes on to fit: a scan forgets nothing it has seen.           *)
(***************************************************************************)
LEMMA FitKept ==
    ASSUME NEW f, Fit(f), module' = module, seen \subseteq seen'
    PROVE  Fit(f)'
<1>1. \A h : Truth(h)' = Truth(h)
  BY DEF Truth
<1>2. Mistaken(f) => Mistaken(f)'
  BY DEF Mistaken
<1>3. Stitched(f) => Stitched(f)'
  BY DEF Stitched
<1>4. \A h : (f \in Truth(h) \/ Noted(f, h))' <=> (f \in Truth(h) \/ Noted(f, h))
  BY <1>1
<1>5. (\E h \in seen : f \in Truth(h) \/ Noted(f, h)) =>
          (\E h \in seen : f \in Truth(h) \/ Noted(f, h))'
  BY <1>4
<1> QED BY <1>2, <1>3, <1>5 DEF Fit, Founded

\* What the types say, without the places and the findings.
Typed ==
    /\ module \in DOMAIN Hosts /\ round \in {1, 2}
    /\ seen # {} /\ (\A h \in seen \cup {host} : Machine(h)) /\ changes \in 0 .. MaxChanges
    /\ call.at \in {"idle", "running", "hung", "killed", "returned"}
    /\ orphans \cup unanswered \subseteq Questions \X (Nat \ {0})
    /\ faults \in 0 .. MaxFaults
    /\ \A f \in remedied : IsFinding(f)
    /\ errors \subseteq Causes
FitInv == Placed /\ AnswerTrue /\ Prepared /\ FindingsFit /\ Typed

LEMMA FitInvInit == Init => FitInv
<1> SUFFICES ASSUME Init PROVE FitInv
  OBVIOUS
<1>1. Placed /\ AnswerTrue
  BY PlacedInit DEF Init, AnswerTrue, Idle
<1>2. Prepared
  <2>1. i = 1 /\ step \in {"which", "kernel", "suid", "readable", "socket", "envPath", "kernelName"}
    BY <1>1 DEF Init, FirstStep, Placed, Modules
  <2> QED BY <2>1, Lengths DEF Prepared, InList, Held, Learned
<1>3. FindingsFit
  BY DEF Init, FindingsFit
<1>4. Typed
  BY HostsAssumption, BoundsAssumption DEF Init, Typed, Idle
<1> QED BY <1>1, <1>2, <1>3, <1>4 DEF FitInv

LEMMA FindingsKept ==
    ASSUME FindingsFit, module' = module, seen \subseteq seen', findings' \subseteq findings
    PROVE  FindingsFit'
BY FitKept DEF FindingsFit

LEMMA PreparedKept ==
    ASSUME Prepared, UNCHANGED <<step, i, held>>, seen \subseteq seen'
    PROVE  Prepared'
BY DEF Prepared, InList, Held, Learned

\* The calls, the commands and the timer.
LEMMA WaitingFits ==
    ASSUME FitInv, Ask \/ Reap \/ World
    PROVE  Prepared' /\ FindingsFit' /\ Typed'
<1>1. Waiting
  BY CallsWait
<1>2. Prepared' /\ FindingsFit'
  BY <1>1, PreparedKept, FindingsKept DEF Waiting, FitInv, hostvars, admin
<1>3. /\ call'.at \in {"idle", "running", "hung", "killed", "returned"}
      /\ faults' \in 0 .. MaxFaults
      /\ orphans' \cup unanswered' \subseteq orphans \cup unanswered \cup {<<step, i>>}
      /\ call.at = "idle" => UNCHANGED unanswered /\ orphans' \subseteq orphans
  <2>1. CASE Ask
    BY <2>1 DEF Ask, RunCmd, Idle, FitInv, Typed
  <2>2. CASE Reap
    BY <2>2 DEF Reap, Reaped, NoAnswer, Returned, FitInv, Typed
  <2>3. CASE Refuse
    BY <2>3, BoundsAssumption DEF Refuse, Raises, NoAnswer, Returned, FitInv, Typed
  <2>4. CASE Reply
    BY <2>4 DEF Reply, Completes, Returned, FitInv, Typed
  <2>5. CASE Hang
    BY <2>5, BoundsAssumption DEF Hang, Hangs, FitInv, Typed, AnswerTrue
  <2>6. CASE Expire
    BY <2>6 DEF Expire, TimeoutExpired, FitInv, Typed, AnswerTrue
  <2>7. CASE Outlive
    BY <2>7 DEF Outlive, OrphanEnds, FitInv, Typed
  <2> QED BY <2>1, <2>2, <2>3, <2>4, <2>5, <2>6, <2>7 DEF World
<1>4. orphans' \cup unanswered' \subseteq Questions \X (Nat \ {0})
  <2>1. call.at # "idle" => <<step, i>> \in Questions \X (Nat \ {0})
    BY DEF FitInv, Placed, Prepared, InList
  <2>2. orphans \cup unanswered \subseteq Questions \X (Nat \ {0})
    BY DEF FitInv, Typed
  <2> QED BY <1>3, <2>1, <2>2
<1>5. Typed'
  BY <1>1, <1>3, <1>4 DEF Waiting, FitInv, Typed, hostvars, admin
<1> QED BY <1>2, <1>5

\* The checks.
LEMMA CheckFits ==
    ASSUME FitInv, Check
    PROVE  Prepared' /\ FindingsFit' /\ Typed'
<1>1. /\ host \in seen /\ UNCHANGED <<hostvars, admin>> /\ findings \subseteq findings'
      /\ module = "netaudit"    => NetAuditRun
      /\ module = "hardening"   => HardeningRun
      /\ module = "secaudit"    => SecAuditRun
      /\ module = "loganalyzer" => LogAnalyzerRun
      /\ module = "container"   => ContainerRun
      /\ module = "redteam"     => RedTeamRun
      /\ module = "sysrecon"    => SysReconRun
  BY CheckOfModule DEF FitInv
<1>2. /\ AnswerTrue /\ Prepared /\ InList /\ Learned /\ module \in Modules
      /\ \A h \in seen \cup {host} : Machine(h)
  BY DEF FitInv, Prepared, Placed, Typed
<1>3. Prepared' /\ NewFit
  <2>1. CASE module = "netaudit"
    BY <1>1, <1>2, <2>1, NetPrepares, NetFits
  <2>2. CASE module = "hardening"
    BY <1>1, <1>2, <2>2, HardeningPrepares, HardeningFits
  <2>3. CASE module = "secaudit"
    BY <1>1, <1>2, <2>3, SecPrepares, SecFits
  <2>4. CASE module = "loganalyzer"
    BY <1>1, <1>2, <2>4, LogPrepares, LogFits DEF Prepared
  <2>5. CASE module = "container"
    BY <1>1, <1>2, <2>5, ContainerPrepares, ContainerFits
  <2>6. CASE module = "redteam"
    BY <1>1, <1>2, <2>6, RedTeamPrepares, RedTeamFits
  <2>7. CASE module = "sysrecon"
    BY <1>1, <1>2, <2>7, SysReconPrepares, SysReconFits
  <2> QED BY <1>2, <2>1, <2>2, <2>3, <2>4, <2>5, <2>6, <2>7 DEF Modules
<1>4. FindingsFit'
  <2> SUFFICES ASSUME NEW f \in findings' PROVE Fit(f)'
    BY DEF FindingsFit
  <2>1. Fit(f)
    BY <1>3 DEF NewFit, FitInv, FindingsFit
  <2> QED BY <1>1, <2>1, FitKept DEF hostvars, admin
<1>5. Typed'
  <2>1. errors' \subseteq Causes
    BY CheckErrors DEF FitInv, Typed
  <2>2. UNCHANGED <<orphans, faults, unanswered>> /\ call'.at \in {"idle", call.at}
    <3>1. call' = Idle \/ UNCHANGED call
      BY CheckGoes DEF Going
    <3>2. UNCHANGED <<orphans, faults, unanswered>>
      BY CheckAsksNothing
    <3> QED BY <3>1, <3>2 DEF Idle
  <2> QED BY <1>1, <2>1, <2>2 DEF FitInv, Typed, hostvars, admin
<1> QED BY <1>3, <1>4, <1>5

\* The machine, and its administrator.
LEMMA MachineFits ==
    ASSUME FitInv, MachineChanges \/ Remedy \/ Rescan
    PROVE  Prepared' /\ FindingsFit' /\ Typed'
<1>1. CASE MachineChanges
  <2>1. /\ UNCHANGED <<step, i, held, module, round, findings, errors, call, orphans, faults, unanswered>>
        /\ seen' = seen \cup {host'} /\ host' \in UNION Hosts[module]
        /\ changes' = changes + 1 /\ changes < MaxChanges /\ remedied' \subseteq remedied
    BY <1>1 DEF MachineChanges, helpervars
  <2>2. Machine(host')
    BY <2>1, HostsAssumption DEF FitInv, Typed
  <2>3. Prepared' /\ FindingsFit'
    BY <2>1, PreparedKept, FindingsKept DEF FitInv
  <2>4. Typed'
    BY <2>1, <2>2, BoundsAssumption DEF FitInv, Typed
  <2> QED BY <2>3, <2>4
<1>2. CASE Remedy
  <2>1. /\ UNCHANGED <<step, i, held, module, round, findings, errors, call, orphans, faults, unanswered,
                       seen, changes>>
    BY <1>2 DEF Remedy, helpervars
  <2>2. PICK f \in findings : /\ f.title \in Fixes /\ host' = Fixed(f, host)
                             /\ remedied' = remedied \cup {f}
    BY <1>2 DEF Remedy
  <2>3. Fit(f) /\ Machine(host)
    BY DEF FitInv, FindingsFit, Typed
  <2>4. Machine(host') /\ IsFinding(f)
    BY <2>2, <2>3, FixedIsMachine DEF Fit
  <2>5. Prepared' /\ FindingsFit'
    BY <2>1, PreparedKept, FindingsKept DEF FitInv
  <2>6. Typed'
    BY <2>1, <2>2, <2>4 DEF FitInv, Typed
  <2> QED BY <2>5, <2>6
<1>3. CASE Rescan
  <2>1. /\ UNCHANGED <<host, changes, call, orphans, faults, held, module, remedied>>
        /\ round' = 2 /\ step' = FirstStep[module] /\ i' = 1
        /\ seen' = {host} /\ findings' = {} /\ errors' = {} /\ unanswered' = {}
    BY <1>3 DEF Rescan
  <2>2. step' \in {"which", "kernel", "suid", "readable", "socket", "envPath", "kernelName"}
    BY <2>1 DEF FitInv, FirstStep, Placed, Modules
  <2>3. Prepared'
    BY <2>1, <2>2, Lengths DEF Prepared, InList, Held, Learned
  <2>4. FindingsFit'
    BY <2>1 DEF FindingsFit
  <2>5. Typed'
    BY <2>1 DEF FitInv, Typed
  <2> QED BY <2>3, <2>4, <2>5
<1> QED BY <1>1, <1>2, <1>3

LEMMA FitInvNext == FitInv /\ [Next]_vars => FitInv'
<1> SUFFICES ASSUME FitInv, [Next]_vars PROVE FitInv'
  OBVIOUS
<1>1. Placed' /\ AnswerTrue'
  BY PlacedNext, AnswerTrueNext DEF FitInv
<1>2. CASE UNCHANGED vars
  <2>1. Prepared' /\ FindingsFit'
    BY <1>2, PreparedKept, FindingsKept DEF vars, FitInv, hostvars, admin
  <2>2. Typed'
    BY <1>2 DEF vars, FitInv, Typed, hostvars, helpervars, admin
  <2> QED BY <1>1, <2>1, <2>2 DEF FitInv
<1>3. CASE Ask \/ Reap \/ World
  BY <1>1, <1>3, WaitingFits DEF FitInv
<1>4. CASE Check
  BY <1>1, <1>4, CheckFits DEF FitInv
<1>5. CASE MachineChanges \/ Remedy \/ Rescan
  BY <1>1, <1>5, MachineFits DEF FitInv
<1> QED BY <1>2, <1>3, <1>4, <1>5 DEF Next, Thread, Stay

LEMMA FitInvAlways == Spec => []FitInv
BY FitInvInit, FitInvNext, PTL DEF Spec

(***************************************************************************)
(* Types: whatever the machine does, each check stands at a place of its   *)
(* module's, in its list, and with what it has found out; the machine      *)
(* stays one, also after a remediation; and every finding has a title of   *)
(* its module's and a severity (xping/modules/*.py, core/models.py:14-40). *)
(***************************************************************************)
THEOREM TypeCorrect == Spec => []TypeOK
<1>1. FitInv => TypeOK
  BY DEF FitInv, TypeOK, Placed, Prepared, FindingsFit, Fit, Typed, Causes
<1> QED BY <1>1, FitInvAlways, PTL

-----------------------------------------------------------------------------
(***************************************************************************)
(* What is missing.  As long as every command answers, each answer is one  *)
(* of a machine seen since the scan began.                                 *)
(***************************************************************************)
Answered ==
    call.at = "returned" /\ unanswered = {} =>
        \E h \in seen : \E r \in RepliesOf(h, step, i) : call.out = r[1] /\ call.rc = r[2]

LEMMA AnsweredNext == Placed /\ Answered /\ [Next]_vars => Answered'
<1> SUFFICES ASSUME Placed, Answered, [Next]_vars PROVE Answered'
  OBVIOUS
<1>1. CASE Ask
  BY <1>1 DEF Ask, RunCmd, Idle, Answered
<1>2. CASE Reap \/ Refuse
  <2>1. unanswered' # {}
    BY <1>2 DEF Reap, Refuse, Reaped, Raises
  <2> QED BY <2>1 DEF Answered
<1>3. CASE Reply
  <2>1. host \in seen
    BY <1>3, QuietPlaces DEF Reply, Placed, Ended
  <2>2. /\ UNCHANGED <<step, i, seen>>
        /\ \E r \in RepliesOf(host, step, i) : call' = Returned(r[1], r[2])
    BY <1>3 DEF Reply, Completes, InRun, hostvars
  <2> QED BY <2>1, <2>2 DEF Answered, Returned
<1>4. CASE Hang
  <2>1. call'.at # "returned"
    BY <1>4 DEF Hang, Hangs
  <2> QED BY <2>1 DEF Answered
<1>5. CASE Expire
  <2>1. call'.at # "returned"
    BY <1>5 DEF Expire, TimeoutExpired
  <2> QED BY <2>1 DEF Answered
<1>6. CASE Outlive
  BY <1>6 DEF Outlive, OrphanEnds, InRun, hostvars, Answered
<1>7. CASE Check
  <2>1. call' = Idle \/ (UNCHANGED call /\ step \notin Questions)
    BY <1>7, CheckGoes DEF Going
  <2> QED BY <2>1 DEF Idle, Placed, Answered
<1>8. CASE MachineChanges
  <2>1. UNCHANGED <<call, unanswered, step, i>> /\ seen \subseteq seen'
    BY <1>8 DEF MachineChanges, helpervars
  <2> QED BY <2>1 DEF Answered
<1>9. CASE Remedy \/ Rescan
  <2>1. call.at = "idle" /\ call' = call
    BY <1>9, QuietPlaces DEF Remedy, Rescan, Placed, helpervars
  <2> QED BY <2>1 DEF Answered
<1>10. CASE UNCHANGED vars
  BY <1>10 DEF vars, helpervars, hostvars, Answered
<1> QED BY <1>1, <1>2, <1>3, <1>4, <1>5, <1>6, <1>7, <1>8, <1>9, <1>10 DEF Next, Thread, World, Stay

(***************************************************************************)
(* Place by place, what has been missing from a machine seen.              *)
(***************************************************************************)
NoTables    == \E h \in seen : ~h.iptables
NoRules     == \E h \in seen : h.nft # "rules"
NoSELinux   == \E h \in seen : h.selinux = "absent"
NoProfiles  == \E h \in seen : h.apparmor # "loaded"
Lacked(u)   == \E h \in seen : u \notin h.units
NotEnabled  == \E h \in seen : "enabled" \notin h.files["20auto-upgrades"]

FilterGone ==
    /\ step = "nft" => NoTables
    /\ Told("noFirewall") => NoTables /\ NoRules
MacGone ==
    /\ step = "aaStatus" => NoSELinux
    /\ Told("noMac") => NoSELinux /\ NoProfiles
NtpGone ==
    /\ step = "ntp" => \A k \in 1 .. 3 : k < i => Lacked(NtpServices[k])
    /\ step = "timedatectl" => \A k \in 1 .. 3 : Lacked(NtpServices[k])
    /\ Told("noNtp") => \A u \in TimeKeepers : Lacked(u)
UpdatesGone ==
    /\ step = "updates" => NotEnabled /\ \A k \in 1 .. 2 : k < i => Lacked(Updaters[k])
    /\ Told("noUpdates") => NotEnabled /\ \A u \in Elements(Updaters) : Lacked(u)
Gone == FilterGone /\ MacGone /\ NtpGone /\ UpdatesGone
AllAnswered == unanswered = {} /\ \A h \in seen : h.root
GoneInv == AllAnswered => Gone

\* A report of other things than what is missing.
LEMMA NothingMore ==
    ASSUME NEW title, \A f \in findings' \ findings : f.title # title, Told(title)'
    PROVE  Told(title)
BY DEF Told

LEMMA RulesTell ==
    ASSUME NEW title, NEW s, NEW files, NEW rules, NEW next, ReadFor(s, files, rules, next),
           \A r \in rules : r.title # title
    PROVE  \A f \in findings' \ findings : f.title # title
<1>1. \A f \in Judged(s, rules, FirstOf(files)) : f.title # title
  BY DEF Judged, Broken, Finding
<1> QED BY <1>1 DEF ReadFor, Report

LEMMA AnswerOf ==
    ASSUME Answered, AllAnswered, NEW q, Decide(q)
    PROVE  /\ step = q
           /\ \E h \in seen : h.root /\ \E r \in RepliesOf(h, q, i) : call.out = r[1] /\ call.rc = r[2]
BY DEF Answered, AllAnswered, Decide

LEMMA FilterGoneKept ==
    ASSUME Answered, AllAnswered, FilterGone, NetAuditRun, seen' = seen
    PROVE  FilterGone'
<1>k. NoTables' = NoTables /\ NoRules' = NoRules
  BY DEF NoTables, NoRules
<1>1. CASE CheckIptables
  <2>1. \A f \in findings' \ findings : f.title # "noFirewall"
    BY <1>1 DEF CheckIptables, Report, Nothing, Finding
  <2>2. step' = "nft" => NoTables
    <3> SUFFICES ASSUME step' = "nft" PROVE NoTables
      OBVIOUS
    <3>1. call.rc # 0 \/ call.out = {}
      BY <1>1 DEF CheckIptables, Goto
    <3>2. PICK h \in seen : h.root /\ \E r \in RepliesOf(h, "iptables", i) :
              call.out = r[1] /\ call.rc = r[2]
      BY <1>1, AnswerOf DEF CheckIptables
    <3>3. RepliesOf(h, "iptables", i) = Tool(h.root /\ h.iptables, {"chains"} \cup h.accepting)
      BY FirewallReplies
    <3>4. ~h.iptables
      BY <3>1, <3>2, <3>3 DEF Tool
    <3> QED BY <3>4 DEF NoTables
  <2> QED BY <1>k, <2>1, <2>2, NothingMore DEF FilterGone
<1>2. CASE CheckNft
  <2>1. step = "nft" /\ step' = "resolv"
    BY <1>2 DEF CheckNft, Decide, Goto
  <2>2. PICK h \in seen : h.root /\ \E r \in RepliesOf(h, "nft", i) :
            call.out = r[1] /\ call.rc = r[2]
    BY <1>2, AnswerOf DEF CheckNft
  <2>3. CASE call.rc # 0 \/ call.out = {}
    <3>1. RepliesOf(h, "nft", i) = Tool(h.root /\ h.nft # "absent", {"rules"} \cap {h.nft})
      BY FirewallReplies
    <3>2. h.nft # "rules"
      <4> SUFFICES ASSUME h.nft = "rules" PROVE FALSE
        OBVIOUS
      <4>1. {"rules"} \cap {h.nft} = {"rules"} /\ h.root /\ h.nft # "absent"
        BY <2>2
      <4>2. RepliesOf(h, "nft", i) = {<<{"rules"}, 0>>}
        BY <3>1, <4>1 DEF Tool
      <4> QED BY <2>2, <2>3, <4>2
    <3>3. NoRules
      BY <3>2 DEF NoRules
    <3> QED BY <1>k, <2>1, <3>3 DEF FilterGone
  <2>4. CASE ~(call.rc # 0 \/ call.out = {})
    <3>1. \A f \in findings' \ findings : f.title # "noFirewall"
      BY <1>2, <2>4 DEF CheckNft, Report, Finding
    <3> QED BY <1>k, <2>1, <3>1, NothingMore DEF FilterGone
  <2> QED BY <2>3, <2>4
<1>3. CASE NetAvailable \/ CheckListeningPorts \/ CheckActiveConnections \/ CheckDns
           \/ CheckInterfaces \/ CheckArp
  <2>1. step' # "nft"
    BY <1>3 DEF NetAvailable, CheckListeningPorts, CheckActiveConnections, CheckDns,
                CheckInterfaces, CheckArp, Presence, ReadFor, Goto
  <2>2. \A f \in findings' \ findings : f.title # "noFirewall"
    <3>1. CASE NetAvailable \/ CheckListeningPorts \/ CheckActiveConnections \/ CheckDns \/ CheckArp
      BY <3>1 DEF NetAvailable, CheckListeningPorts, CheckActiveConnections, CheckDns, CheckArp,
                  DangerousPort, Report, Nothing, Finding
    <3>2. CASE CheckInterfaces
      <4> DEFINE files == <<"ip_forward">>
                 rules == {Rule("1", TRUE, "forwarding", "MEDIUM")}
      <4>1. \A r \in rules : r.title # "noFirewall"
        BY DEF Rule
      <4>2. CASE ReadFor("forward", files, rules, "neigh")
        <5> HIDE DEF files, rules
        <5> QED BY <4>1, <4>2, RulesTell
      <4>3. ASSUME NEW q, NEW f, NEW next, Presence(q, f, next), f.title # "noFirewall"
            PROVE  \A g \in findings' \ findings : g.title # "noFirewall"
        BY <4>3 DEF Presence, Report, Nothing
      <4>4. /\ Finding("interfaces", "interfaces", "INFO").title # "noFirewall"
            /\ Finding("promiscuous", "promisc", "HIGH").title # "noFirewall"
        BY DEF Finding
      <4>5. CASE Presence("interfaces", Finding("interfaces", "interfaces", "INFO"), "promisc")
        BY <4>3, <4>4, <4>5
      <4>6. CASE Presence("promisc", Finding("promiscuous", "promisc", "HIGH"), "forward")
        BY <4>3, <4>4, <4>6
      <4> QED BY <3>2, <4>2, <4>5, <4>6 DEF CheckInterfaces
    <3> QED BY <1>3, <3>1, <3>2
  <2> QED BY <1>k, <2>1, <2>2, NothingMore DEF FilterGone
<1> QED BY <1>1, <1>2, <1>3 DEF NetAuditRun

\* Without SELinux, getenforce is not found; with profiles loaded, root is shown them.
LEMMA MacAnswers ==
    ASSUME NEW h, NEW k, NEW r, h.root
    PROVE  /\ r \in RepliesOf(h, "getenforce", k) /\ ~(r[2] = 0 /\ r[1] # {}) => h.selinux = "absent"
           /\ r \in RepliesOf(h, "aaStatus", k) /\ (r[2] # 0 \/ r[1] = {}) => h.apparmor # "loaded"
<1>1. {"getenforce", "aaStatus"} \subseteq HardeningQuestions
  BY DEF HardeningQuestions
<1>2. h.apparmor = "loaded" => HardeningReplies(h, "aaStatus", k) = {<<{"loaded", "profiles"}, 0>>}
  BY DEF HardeningReplies
<1>3. RepliesOf(h, "aaStatus", k) = HardeningReplies(h, "aaStatus", k)
  BY <1>1, HardeningReply
<1>4. r \in RepliesOf(h, "getenforce", k) /\ ~(r[2] = 0 /\ r[1] # {}) => h.selinux = "absent"
  BY MacReplies
<1>5. r \in RepliesOf(h, "aaStatus", k) /\ (r[2] # 0 \/ r[1] = {}) => h.apparmor # "loaded"
  BY <1>2, <1>3
<1> QED BY <1>4, <1>5

\* What a check of the hardening module is not about, it tells nothing of.
LEMMA OthersTell ==
    ASSUME \/ CheckKernelParam \/ KernelTally \/ CheckSuidDumpable \/ CheckLimits \/ CheckUsbStorage
           \/ CheckMountOptions \/ CheckBootloader \/ CheckService
    PROVE  /\ step' \notin {"aaStatus", "timedatectl", "updates"}
           /\ step' = "ntp" => i' = 1
           /\ \A f \in findings' \ findings : f.title \notin {"noMac", "noNtp", "noUpdates"}
<1>1. CASE CheckKernelParam \/ KernelTally
  BY <1>1 DEF CheckKernelParam, KernelTally, Deviates, Goto, Report, Finding
<1>2. CASE CheckUsbStorage \/ CheckMountOptions \/ CheckService
  BY <1>2 DEF CheckUsbStorage, CheckMountOptions, CheckService, MountFindings, Goto, Report, Nothing,
              Finding
<1>3. CASE CheckSuidDumpable \/ CheckLimits \/ CheckBootloader
  <2>1. step' \in {"limits", "modprobe", "services"}
    BY <1>3 DEF CheckSuidDumpable, CheckLimits, CheckBootloader, ReadFor, Goto
  <2>2. CASE CheckSuidDumpable
    <3> DEFINE files == <<"suid_dumpable">>
               rules == {Rule("nonzero", TRUE, "suidDumpable", "MEDIUM")}
    <3>1. ReadFor("dumpable", files, rules, "limits")
      BY <2>2 DEF CheckSuidDumpable
    <3>2. \A r \in rules : r.title # "noMac" /\ r.title # "noNtp" /\ r.title # "noUpdates"
      BY DEF Rule
    <3> HIDE DEF files, rules
    <3>3. \A f \in findings' \ findings : f.title # "noMac"
      BY <3>1, <3>2, RulesTell
    <3>4. \A f \in findings' \ findings : f.title # "noNtp"
      BY <3>1, <3>2, RulesTell
    <3>5. \A f \in findings' \ findings : f.title # "noUpdates"
      BY <3>1, <3>2, RulesTell
    <3> QED BY <2>1, <3>3, <3>4, <3>5
  <2>3. CASE CheckLimits
    <3> DEFINE files == <<"limits.conf">>
               rules == {Rule("core", FALSE, "coreDumps", "LOW")}
    <3>1. ReadFor("limits", files, rules, "modprobe")
      BY <2>3 DEF CheckLimits
    <3>2. \A r \in rules : r.title # "noMac" /\ r.title # "noNtp" /\ r.title # "noUpdates"
      BY DEF Rule
    <3> HIDE DEF files, rules
    <3>3. \A f \in findings' \ findings : f.title # "noMac"
      BY <3>1, <3>2, RulesTell
    <3>4. \A f \in findings' \ findings : f.title # "noNtp"
      BY <3>1, <3>2, RulesTell
    <3>5. \A f \in findings' \ findings : f.title # "noUpdates"
      BY <3>1, <3>2, RulesTell
    <3> QED BY <2>1, <3>3, <3>4, <3>5
  <2>4. CASE CheckBootloader
    <3> DEFINE files == <<"grub", "grub2">>
               rules == {Rule("password", FALSE, "bootloader", "MEDIUM")}
    <3>1. ReadFor("grub", files, rules, "services")
      BY <2>4 DEF CheckBootloader
    <3>2. \A r \in rules : r.title # "noMac" /\ r.title # "noNtp" /\ r.title # "noUpdates"
      BY DEF Rule
    <3> HIDE DEF files, rules
    <3>3. \A f \in findings' \ findings : f.title # "noMac"
      BY <3>1, <3>2, RulesTell
    <3>4. \A f \in findings' \ findings : f.title # "noNtp"
      BY <3>1, <3>2, RulesTell
    <3>5. \A f \in findings' \ findings : f.title # "noUpdates"
      BY <3>1, <3>2, RulesTell
    <3> QED BY <2>1, <3>3, <3>4, <3>5
  <2> QED BY <1>3, <2>1, <2>2, <2>3, <2>4
<1> QED BY <1>1, <1>2, <1>3

LEMMA MacGoneKept ==
    ASSUME Answered, AllAnswered, MacGone, HardeningRun, seen' = seen
    PROVE  MacGone'
<1>k. NoSELinux' = NoSELinux /\ NoProfiles' = NoProfiles
  BY DEF NoSELinux, NoProfiles
<1>1. CASE CheckSELinux
  <2>1. \A f \in findings' \ findings : f.title # "noMac"
    <3>1. \A s : (CASE s = "enforcing"  -> Finding("selinuxEnforcing", "mac", "INFO")
                    [] s = "permissive" -> Finding("selinuxPermissive", "mac", "MEDIUM")
                    [] OTHER            -> Finding("selinuxDisabled", "mac", "HIGH")).title # "noMac"
      BY DEF Finding
    <3> QED BY <1>1, <3>1 DEF CheckSELinux, Report, Nothing
  <2>2. step' = "aaStatus" => NoSELinux
    <3> SUFFICES ASSUME step' = "aaStatus" PROVE NoSELinux
      OBVIOUS
    <3>1. ~(call.rc = 0 /\ call.out # {})
      BY <1>1 DEF CheckSELinux, Goto
    <3>2. PICK h \in seen : h.root /\ \E r \in RepliesOf(h, "getenforce", i) :
              call.out = r[1] /\ call.rc = r[2]
      BY <1>1, AnswerOf DEF CheckSELinux
    <3>3. h.selinux = "absent"
      BY <3>1, <3>2, MacAnswers
    <3> QED BY <3>3 DEF NoSELinux
  <2> QED BY <1>k, <2>1, <2>2, NothingMore DEF MacGone
<1>2. CASE CheckAppArmor
  <2>1. step = "aaStatus" /\ step' = "dumpable"
    BY <1>2 DEF CheckAppArmor, Decide, Goto
  <2>2. CASE call.rc # 0 \/ call.out = {}
    <3>1. PICK h \in seen : h.root /\ \E r \in RepliesOf(h, "aaStatus", i) :
              call.out = r[1] /\ call.rc = r[2]
      BY <1>2, AnswerOf DEF CheckAppArmor
    <3>2. h.apparmor # "loaded"
      BY <2>2, <3>1, MacAnswers
    <3>3. NoProfiles
      BY <3>2 DEF NoProfiles
    <3> QED BY <1>k, <2>1, <3>3 DEF MacGone
  <2>3. CASE ~(call.rc # 0 \/ call.out = {})
    <3>1. \A f \in findings' \ findings : f.title # "noMac"
      BY <1>2, <2>3 DEF CheckAppArmor, Report, Finding
    <3> QED BY <1>k, <2>1, <3>1, NothingMore DEF MacGone
  <2> QED BY <2>2, <2>3
<1>3. CASE CheckNtp \/ CheckTimedatectl \/ CheckApt \/ CheckUpdater
  <2>1. step' # "aaStatus" /\ \A f \in findings' \ findings : f.title # "noMac"
    BY <1>3 DEF CheckNtp, CheckTimedatectl, CheckApt, CheckUpdater, Updating, Goto, Report, Nothing,
                Finding
  <2> QED BY <1>k, <2>1, NothingMore DEF MacGone
<1>4. CASE ~CheckSELinux /\ ~CheckAppArmor /\ ~CheckNtp /\ ~CheckTimedatectl /\ ~CheckApt /\ ~CheckUpdater
  <2>1. step' # "aaStatus" /\ \A f \in findings' \ findings : f.title # "noMac"
    BY <1>4, OthersTell DEF HardeningRun
  <2> QED BY <1>k, <2>1, NothingMore DEF MacGone
<1> QED BY <1>1, <1>2, <1>3, <1>4

\* systemctl says of a unit that is active that it is.
LEMMA Inactive ==
    ASSUME NEW h, NEW unit, NEW r \in IsActive(h, unit), ~(r[2] = 0 /\ r[1] \cap {"active", "inactive"} # {})
    PROVE  unit \notin h.units
BY DEF IsActive

LEMMA NtpGoneKept ==
    ASSUME Answered, AllAnswered, NtpGone, HardeningRun, seen' = seen, i \in Nat \ {0}
    PROVE  NtpGone'
<1>k. \A u : Lacked(u)' = Lacked(u)
  BY DEF Lacked
<1>0. Len(NtpServices) = 3
  BY Lengths
<1>1. CASE CheckNtp
  <2>1. \A f \in findings' \ findings : f.title # "noNtp"
    BY <1>1 DEF CheckNtp, Report, Nothing, Finding
  <2>2. step = "ntp" /\ (step' \in {"ntp", "timedatectl"} => ~SaysActive)
    BY <1>1 DEF CheckNtp, Decide, Goto
  <2>3. ~SaysActive => Lacked(NtpServices[i])
    <3> SUFFICES ASSUME ~SaysActive PROVE Lacked(NtpServices[i])
      OBVIOUS
    <3>1. PICK h \in seen : h.root /\ \E r \in RepliesOf(h, "ntp", i) :
              call.out = r[1] /\ call.rc = r[2]
      BY <1>1, AnswerOf DEF CheckNtp
    <3>2. RepliesOf(h, "ntp", i) = IsActive(h, NtpServices[i])
      BY UnitReplies
    <3>3. NtpServices[i] \notin h.units
      BY <3>1, <3>2, Inactive DEF SaysActive
    <3> QED BY <3>3 DEF Lacked
  <2>4. step' = "ntp" => i' = i + 1 /\ \A k \in 1 .. 3 : k < i + 1 => Lacked(NtpServices[k])
    <3> SUFFICES ASSUME step' = "ntp"
                 PROVE  i' = i + 1 /\ \A k \in 1 .. 3 : k < i + 1 => Lacked(NtpServices[k])
      OBVIOUS
    <3>1. i' = i + 1
      BY <1>1 DEF CheckNtp, Goto
    <3>2. \A k \in 1 .. 3 : k < i + 1 => k < i \/ k = i
      OBVIOUS
    <3> QED BY <2>2, <2>3, <3>1, <3>2 DEF NtpGone
  <2>5. step' = "timedatectl" => \A k \in 1 .. 3 : Lacked(NtpServices[k])
    <3> SUFFICES ASSUME step' = "timedatectl" PROVE \A k \in 1 .. 3 : Lacked(NtpServices[k])
      OBVIOUS
    <3>1. ~(i < 3)
      BY <1>0, <1>1 DEF CheckNtp, Goto
    <3>2. \A k \in 1 .. 3 : k < i \/ k = i
      BY <3>1
    <3> QED BY <2>2, <2>3, <3>2 DEF NtpGone
  <2> QED BY <1>k, <2>1, <2>4, <2>5, NothingMore DEF NtpGone
<1>2. CASE CheckTimedatectl
  <2>1. step = "timedatectl" /\ step' = "grub"
    BY <1>2 DEF CheckTimedatectl, Decide, Goto
  <2>2. CASE "NTP=yes" \notin call.out
    <3>1. PICK h \in seen : h.root /\ \E r \in RepliesOf(h, "timedatectl", i) :
              call.out = r[1] /\ call.rc = r[2]
      BY <1>2, AnswerOf DEF CheckTimedatectl
    <3>2. RepliesOf(h, "timedatectl", i) = {<<{"NTP=yes"} \cap h.units, 0>>}
      BY UnitReplies
    <3>3. Lacked("NTP=yes")
      BY <2>2, <3>1, <3>2 DEF Lacked
    <3>4. \A u \in TimeKeepers : Lacked(u)
      BY <1>0, <2>1, <3>3 DEF NtpGone, TimeKeepers, Elements
    <3> QED BY <1>k, <2>1, <3>4 DEF NtpGone
  <2>3. CASE "NTP=yes" \in call.out
    <3>1. \A f \in findings' \ findings : f.title # "noNtp"
      BY <1>2, <2>3 DEF CheckTimedatectl, Nothing
    <3> QED BY <1>k, <2>1, <3>1, NothingMore DEF NtpGone
  <2> QED BY <2>2, <2>3
<1>3. CASE CheckSELinux \/ CheckAppArmor \/ CheckApt \/ CheckUpdater
  <2>1. step' \notin {"ntp", "timedatectl"} /\ \A f \in findings' \ findings : f.title # "noNtp"
    <3>1. CASE CheckSELinux
      <4>1. \A s : (CASE s = "enforcing"  -> Finding("selinuxEnforcing", "mac", "INFO")
                      [] s = "permissive" -> Finding("selinuxPermissive", "mac", "MEDIUM")
                      [] OTHER            -> Finding("selinuxDisabled", "mac", "HIGH")).title # "noNtp"
        BY DEF Finding
      <4> QED BY <3>1, <4>1 DEF CheckSELinux, Goto, Report, Nothing
    <3>2. CASE CheckAppArmor \/ CheckApt \/ CheckUpdater
      BY <3>2 DEF CheckAppArmor, CheckApt, CheckUpdater, Updating, Goto, Report, Nothing, Finding
    <3> QED BY <1>3, <3>1, <3>2
  <2> QED BY <1>k, <2>1, NothingMore DEF NtpGone
<1>4. CASE ~CheckSELinux /\ ~CheckAppArmor /\ ~CheckNtp /\ ~CheckTimedatectl /\ ~CheckApt /\ ~CheckUpdater
  <2>1. /\ step' # "timedatectl" /\ (step' = "ntp" => i' = 1)
        /\ \A f \in findings' \ findings : f.title # "noNtp"
    BY <1>4, OthersTell DEF HardeningRun
  <2> QED BY <1>k, <2>1, NothingMore DEF NtpGone
<1> QED BY <1>1, <1>2, <1>3, <1>4

LEMMA UpdatesGoneKept ==
    ASSUME Answered, AllAnswered, UpdatesGone, HardeningRun, seen' = seen, host \in seen,
           i \in Nat \ {0}
    PROVE  UpdatesGone'
<1>k. NotEnabled' = NotEnabled /\ \A u : Lacked(u)' = Lacked(u)
  BY DEF NotEnabled, Lacked
<1>0. Len(Updaters) = 2
  BY Lengths
<1>1. CASE CheckApt
  <2>1. step' = "updates" => NotEnabled /\ i' = 1
    BY <1>1 DEF CheckApt, Goto, NotEnabled
  <2>2. \A f \in findings' \ findings : f.title # "noUpdates"
    BY <1>1 DEF CheckApt, Updating, Report, Nothing, Finding
  <2> QED BY <1>k, <2>1, <2>2, NothingMore DEF UpdatesGone
<1>2. CASE CheckUpdater
  <2>1. step = "updates" /\ NotEnabled
    BY <1>2 DEF CheckUpdater, Decide, UpdatesGone
  <2>2. ~SaysActive => Lacked(Updaters[i])
    <3> SUFFICES ASSUME ~SaysActive PROVE Lacked(Updaters[i])
      OBVIOUS
    <3>1. PICK h \in seen : h.root /\ \E r \in RepliesOf(h, "updates", i) :
              call.out = r[1] /\ call.rc = r[2]
      BY <1>2, AnswerOf DEF CheckUpdater
    <3>2. RepliesOf(h, "updates", i) = IsActive(h, Updaters[i])
      BY UnitReplies
    <3>3. Updaters[i] \notin h.units
      BY <3>1, <3>2, Inactive DEF SaysActive
    <3> QED BY <3>3 DEF Lacked
  <2>3. CASE SaysActive
    <3>1. step' = "done" /\ \A f \in findings' \ findings : f.title # "noUpdates"
      BY <1>2, <2>3 DEF CheckUpdater, Updating, Goto, Report, Finding
    <3> QED BY <1>k, <3>1, NothingMore DEF UpdatesGone
  <2>4. CASE ~SaysActive /\ i < Len(Updaters)
    <3>1. step' = "updates" /\ i' = i + 1 /\ findings' = findings
      BY <1>2, <2>4 DEF CheckUpdater, Goto, Nothing
    <3>2. \A k \in 1 .. 2 : k < i + 1 => k < i \/ k = i
      OBVIOUS
    <3>3. \A k \in 1 .. 2 : k < i + 1 => Lacked(Updaters[k])
      BY <2>1, <2>2, <2>4, <3>2 DEF UpdatesGone
    <3>4. \A f \in findings' \ findings : f.title # "noUpdates"
      BY <3>1
    <3> QED BY <1>k, <2>1, <3>1, <3>3, <3>4, NothingMore DEF UpdatesGone
  <2>5. CASE ~SaysActive /\ ~(i < Len(Updaters))
    <3>1. step' = "done"
      BY <1>2, <2>5 DEF CheckUpdater, Goto
    <3>2. \A k \in 1 .. 2 : k < i \/ k = i
      BY <1>0, <2>5
    <3>3. \A k \in 1 .. 2 : Lacked(Updaters[k])
      BY <2>1, <2>2, <2>5, <3>2 DEF UpdatesGone
    <3>4. \A u \in Elements(Updaters) : Lacked(u)
      BY <1>0, <3>3 DEF Elements
    <3> QED BY <1>k, <2>1, <3>1, <3>4 DEF UpdatesGone
  <2> QED BY <2>3, <2>4, <2>5
<1>3. CASE CheckSELinux \/ CheckAppArmor \/ CheckNtp \/ CheckTimedatectl
  <2>1. step' # "updates" /\ \A f \in findings' \ findings : f.title # "noUpdates"
    <3>1. CASE CheckSELinux
      <4>1. \A s : (CASE s = "enforcing"  -> Finding("selinuxEnforcing", "mac", "INFO")
                      [] s = "permissive" -> Finding("selinuxPermissive", "mac", "MEDIUM")
                      [] OTHER            -> Finding("selinuxDisabled", "mac", "HIGH")).title # "noUpdates"
        BY DEF Finding
      <4> QED BY <3>1, <4>1 DEF CheckSELinux, Goto, Report, Nothing
    <3>2. CASE CheckAppArmor \/ CheckNtp \/ CheckTimedatectl
      BY <3>2 DEF CheckAppArmor, CheckNtp, CheckTimedatectl, Goto, Report, Nothing, Finding
    <3> QED BY <1>3, <3>1, <3>2
  <2> QED BY <1>k, <2>1, NothingMore DEF UpdatesGone
<1>4. CASE ~CheckSELinux /\ ~CheckAppArmor /\ ~CheckNtp /\ ~CheckTimedatectl /\ ~CheckApt /\ ~CheckUpdater
  <2>1. step' # "updates" /\ \A f \in findings' \ findings : f.title # "noUpdates"
    BY <1>4, OthersTell DEF HardeningRun
  <2> QED BY <1>k, <2>1, NothingMore DEF UpdatesGone
<1> QED BY <1>1, <1>2, <1>3, <1>4

\* Where the checks of no such protection are, nothing is said of one.
MissingPlaces == {"nft", "aaStatus", "ntp", "timedatectl", "updates"}
MissingTitles == {"noFirewall", "noMac", "noNtp", "noUpdates"}

LEMMA GoneElsewhere ==
    ASSUME Gone, seen \subseteq seen', step' \notin MissingPlaces,
           \A f \in findings' \ findings : f.title \notin MissingTitles
    PROVE  Gone'
<1>1. \A u : Lacked(u) => Lacked(u)'
  BY DEF Lacked
<1>2. \A title \in MissingTitles : Told(title)' => Told(title)
  BY DEF Told
<1>3. /\ NoTables => NoTables'
      /\ NoRules => NoRules'
      /\ NoSELinux => NoSELinux'
      /\ NoProfiles => NoProfiles'
      /\ NotEnabled => NotEnabled'
  BY DEF NoTables, NoRules, NoSELinux, NoProfiles, NotEnabled
<1>4. FilterGone' /\ MacGone'
  BY <1>2, <1>3 DEF Gone, FilterGone, MacGone, MissingPlaces, MissingTitles
<1>5. NtpGone'
  BY <1>1, <1>2 DEF Gone, NtpGone, MissingPlaces, MissingTitles
<1>6. UpdatesGone'
  BY <1>1, <1>2, <1>3 DEF Gone, UpdatesGone, MissingPlaces, MissingTitles
<1> QED BY <1>4, <1>5, <1>6 DEF Gone

LEMMA GoneStays ==
    ASSUME Gone, seen \subseteq seen', UNCHANGED <<step, i, findings>>
    PROVE  Gone'
<1>1. \A u : Lacked(u) => Lacked(u)'
  BY DEF Lacked
<1>2. \A title : Told(title)' = Told(title)
  BY DEF Told
<1>3. /\ NoTables => NoTables'
      /\ NoRules => NoRules'
      /\ NoSELinux => NoSELinux'
      /\ NoProfiles => NoProfiles'
      /\ NotEnabled => NotEnabled'
  BY DEF NoTables, NoRules, NoSELinux, NoProfiles, NotEnabled
<1>4. FilterGone' /\ MacGone'
  BY <1>2, <1>3 DEF Gone, FilterGone, MacGone
<1>5. NtpGone'
  BY <1>1, <1>2 DEF Gone, NtpGone
<1>6. UpdatesGone'
  BY <1>1, <1>2, <1>3 DEF Gone, UpdatesGone
<1> QED BY <1>4, <1>5, <1>6 DEF Gone

LEMMA CheckGone ==
    ASSUME Placed, Answered, Gone, AllAnswered, Check, i \in Nat \ {0}
    PROVE  Gone'
<1>1. /\ host \in seen /\ UNCHANGED <<hostvars, admin>> /\ findings \subseteq findings'
      /\ module = "netaudit"    => NetAuditRun
      /\ module = "hardening"   => HardeningRun
      /\ module = "secaudit"    => SecAuditRun
      /\ module = "loganalyzer" => LogAnalyzerRun
      /\ module = "container"   => ContainerRun
      /\ module = "redteam"     => RedTeamRun
      /\ module = "sysrecon"    => SysReconRun
  BY CheckOfModule
<1>2. seen' = seen /\ module \in Modules
  BY <1>1 DEF hostvars, Placed
<1>3. ASSUME NEW m, NEW titles, Going(m, titles), PlacesOf[m] \cap MissingPlaces = {},
             titles \cap MissingTitles = {}
      PROVE  Gone'
  BY <1>2, <1>3, GoneElsewhere DEF Going
<1>4. CASE module = "netaudit"
  <2>1. FilterGone'
    BY <1>1, <1>2, <1>4, FilterGoneKept DEF Gone
  <2>2. step' \notin MissingPlaces \ {"nft"}
    BY <1>1, <1>4, NetGoes DEF Going, PlacesOf, NetQuestions, MissingPlaces
  <2>3. \A f \in findings' \ findings : f.title \notin {"noMac", "noNtp", "noUpdates"}
    BY <1>1, <1>4, NetGoes DEF Going, NetTitles
  <2>4. MacGone' /\ NtpGone' /\ UpdatesGone'
    <3>1. /\ \A u : Lacked(u)' = Lacked(u)
          /\ NoSELinux' = NoSELinux /\ NoProfiles' = NoProfiles /\ NotEnabled' = NotEnabled
      BY <1>2 DEF Lacked, NoSELinux, NoProfiles, NotEnabled
    <3>2. \A title \in {"noMac", "noNtp", "noUpdates"} : Told(title)' => Told(title)
      BY <2>3 DEF Told
    <3> QED BY <2>2, <3>1, <3>2 DEF Gone, MacGone, NtpGone, UpdatesGone, MissingPlaces
  <2> QED BY <2>1, <2>4 DEF Gone
<1>5. CASE module = "hardening"
  <2>1. MacGone' /\ NtpGone' /\ UpdatesGone'
    BY <1>1, <1>2, <1>5, MacGoneKept, NtpGoneKept, UpdatesGoneKept DEF Gone
  <2>2. step' # "nft"
    BY <1>1, <1>5, HardeningGoes DEF Going, PlacesOf, HardeningQuestions
  <2>3. \A f \in findings' \ findings : f.title # "noFirewall"
    BY <1>1, <1>5, HardeningGoes DEF Going, HardeningTitles
  <2>4. FilterGone'
    <3>1. NoTables' = NoTables /\ NoRules' = NoRules
      BY <1>2 DEF NoTables, NoRules
    <3> QED BY <2>2, <2>3, <3>1, NothingMore DEF Gone, FilterGone
  <2> QED BY <2>1, <2>4 DEF Gone
<1>6. CASE module = "secaudit"
  <2>1. /\ PlacesOf["secaudit"] \cap MissingPlaces = {}
        /\ (SecTitles \cup {"permissive"}) \cap MissingTitles = {}
    BY DEF PlacesOf, SecQuestions, MissingPlaces, SecTitles, MissingTitles
  <2>2. Going("secaudit", SecTitles) \/ Going("secaudit", {"permissive"})
    BY <1>1, <1>6, SecGoes, PermissionsGoes
  <2> QED BY <1>3, <2>1, <2>2
<1>7. CASE module = "loganalyzer"
  <2>1. /\ PlacesOf["loganalyzer"] \cap MissingPlaces = {}
        /\ (LogTitles \cup AuthTitles) \cap MissingTitles = {}
    BY DEF PlacesOf, LogQuestions, MissingPlaces, LogTitles, AuthTitles, MissingTitles
  <2>2. Going("loganalyzer", LogTitles) \/ Going("loganalyzer", AuthTitles)
    BY <1>1, <1>7, LogGoes, AuthGoes
  <2> QED BY <1>3, <2>1, <2>2
<1>8. CASE module = "container"
  <2>1. PlacesOf["container"] \cap MissingPlaces = {} /\ ContainerTitles \cap MissingTitles = {}
    BY DEF PlacesOf, ContainerQuestions, MissingPlaces, ContainerTitles, MissingTitles
  <2> QED BY <1>1, <1>3, <1>8, <2>1, ContainerGoes
<1>9. CASE module = "redteam"
  <2>1. PlacesOf["redteam"] \cap MissingPlaces = {} /\ RedTeamTitles \cap MissingTitles = {}
    BY DEF PlacesOf, RedTeamQuestions, MissingPlaces, RedTeamTitles, MissingTitles
  <2> QED BY <1>1, <1>3, <1>9, <2>1, RedTeamGoes
<1>10. CASE module = "sysrecon"
  <2>1. PlacesOf["sysrecon"] \cap MissingPlaces = {} /\ SysReconTitles \cap MissingTitles = {}
    BY DEF PlacesOf, SysReconQuestions, MissingPlaces, SysReconTitles, MissingTitles
  <2> QED BY <1>1, <1>3, <1>10, <2>1, SysReconGoes
<1> QED BY <1>2, <1>4, <1>5, <1>6, <1>7, <1>8, <1>9, <1>10 DEF Modules

LEMMA GoneNext == FitInv /\ Answered /\ GoneInv /\ [Next]_vars => GoneInv'
<1> SUFFICES ASSUME FitInv, Answered, GoneInv, [Next]_vars, AllAnswered' PROVE Gone'
  BY DEF GoneInv
<1>0. Placed /\ i \in Nat \ {0}
  BY DEF FitInv, Prepared, InList
<1>1. CASE Ask \/ Reap \/ World
  <2>1. Waiting
    BY <1>1, CallsWait
  <2>2. unanswered \subseteq unanswered'
    BY <1>1 DEF Ask, Reap, World, Refuse, Reply, Hang, Expire, Outlive, RunCmd, Reaped, Raises, Hangs,
                Completes, TimeoutExpired, OrphanEnds
  <2>3. AllAnswered
    BY <2>1, <2>2 DEF Waiting, AllAnswered, hostvars
  <2> QED BY <2>1, <2>3, GoneStays DEF Waiting, hostvars, GoneInv
<1>2. CASE Check
  <2>1. UNCHANGED <<unanswered, seen>>
    BY <1>0, <1>2, CheckAsksNothing, CheckOfModule DEF hostvars
  <2>2. AllAnswered
    BY <2>1 DEF AllAnswered
  <2> QED BY <1>0, <1>2, <2>2, CheckGone DEF GoneInv
<1>3. CASE MachineChanges \/ Remedy \/ UNCHANGED vars
  <2>1. UNCHANGED <<step, i, findings, unanswered>> /\ seen \subseteq seen'
    BY <1>3 DEF MachineChanges, Remedy, vars, helpervars, hostvars
  <2>2. AllAnswered
    BY <2>1 DEF AllAnswered
  <2> QED BY <2>1, <2>2, GoneStays DEF GoneInv
<1>4. CASE Rescan
  <2>1. findings' = {} /\ step' = FirstStep[module]
    BY <1>4 DEF Rescan
  <2>2. step' \notin MissingPlaces
    BY <1>0, <2>1 DEF FirstStep, Placed, Modules, MissingPlaces
  <2> QED BY <2>1, <2>2 DEF Gone, FilterGone, MacGone, NtpGone, UpdatesGone, Told, MissingPlaces
<1> QED BY <1>1, <1>2, <1>3, <1>4 DEF Next, Thread, Stay

(***************************************************************************)
(* Nothing is invented: whatever a scan claims of the machine, that it is  *)
(* open, writable, misconfigured, or without a protection, was so of a     *)
(* machine the scan has seen, or is one of the mistakes and stitches named *)
(* at NothingInvented; also when commands hang, and the machine changes    *)
(* between the looks (xping/modules/*.py).                                 *)
(***************************************************************************)
THEOREM InventsNothing == Spec => []NothingInvented
<1>1. Init => Answered /\ GoneInv
  <2> SUFFICES ASSUME Init PROVE Answered /\ Gone
    BY DEF GoneInv
  <2>1. Answered /\ findings = {}
    BY DEF Init, Answered, Idle
  <2>2. step \notin MissingPlaces
    BY PlacedInit DEF Init, FirstStep, Placed, Modules, MissingPlaces
  <2> QED BY <2>1, <2>2 DEF Gone, FilterGone, MacGone, NtpGone, UpdatesGone, Told, MissingPlaces
<1>2. FitInv /\ Answered /\ GoneInv /\ [Next]_vars => (Answered /\ GoneInv)'
  BY AnsweredNext, GoneNext DEF FitInv
<1>3. FitInv => ClaimsAreTrue
  BY DEF FitInv, FindingsFit, Fit, ClaimsAreTrue
<1>4. GoneInv => AbsencesAreTrue
  <2> SUFFICES ASSUME Gone PROVE AbsencesAreTrue
    BY DEF GoneInv, AllAnswered, AbsencesAreTrue, Throughout
  <2> QED BY DEF Gone, FilterGone, MacGone, NtpGone, UpdatesGone, NoTables, NoRules, NoSELinux,
               NoProfiles, Lacked, NotEnabled, AbsencesAreTrue, Sometime
<1> QED BY <1>1, <1>2, <1>3, <1>4, FitInvAlways, PTL DEF Spec, NothingInvented
=============================================================================
