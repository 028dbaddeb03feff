------------------------------ MODULE NetAudit ------------------------------
(***************************************************************************)
(* NetAuditModule (xping/modules/netaudit.py): what run() makes of the     *)
(* listening sockets, the packet filter, the resolver, the interfaces and  *)
(* the neighbour table.                                                    *)
(***************************************************************************)
EXTENDS CheckRun

CONSTANTS
    Sockets,     \* listening sockets: name -> [port, addr]
    Connections, \* lines on established connections: name -> [columns, fifth]
    Neighbours   \* lines of ip neigh: name -> [mac, ip]

\* The line ss begins with: "Recv-Q Send-Q Local Address:Port Peer ...".
ASSUME ConnectionAssumption ==
    Connections["ssHeader"] = [columns |-> 7, fifth |-> "Peer"]
\* The fifth column of the first line, and of any line of netstat ("0.0.0.0:*"),
\* does not end in a number: these lines show no socket.
ASSUME SocketAssumption == {"header", "anyPeer"} \cap DOMAIN Sockets = {}

DANGEROUS_PORTS == {21, 23, 25, 69, 111, 135, 139, 445, 512, 513, 514, 1099,
    1433, 1521, 2049, 3306, 3389, 5432, 5900, 6379, 8080, 9200, 11211, 27017}

NetQuestions ==
    {"which", "ports", "connections", "iptables", "nft", "interfaces", "promisc", "neigh"}

(***************************************************************************)
(* What the commands answer on this machine, which has ss, or netstat, or  *)
(* none of them.  netstat's lines on sockets have the peer, "0.0.0.0:*",   *)
(* where ss has the local address.  Without root, iptables and nft write   *)
(* to the standard error output, which is thrown away.                     *)
(***************************************************************************)
Tool(yes, out) == IF yes THEN {<<out, 0>>} ELSE {<<{}, 1>>}
NetReplies(h, q) ==
    CASE q = "which"       -> Tool(h.tool # "none", {"path"})
      [] q = "ports"       -> Tool(h.tool # "none", {"header"} \cup
                                   IF h.tool = "ss" THEN h.listening ELSE {"anyPeer"})
      [] q = "connections" -> Tool(h.tool # "none", h.connected \cup
                                   IF h.tool = "ss" THEN {"ssHeader"} ELSE {})
      [] q = "iptables"    -> Tool(h.root /\ h.iptables, {"chains"} \cup h.accepting)
      [] q = "nft"         -> Tool(h.root /\ h.nft # "absent", {"rules"} \cap {h.nft})
      [] q = "interfaces"  -> {<<{"loopback"}, 0>>}
      [] q = "promisc"     -> Tool("promisc" \in h.dangers, {"promisc"})
      [] q = "neigh"       -> {<<h.neighbours, 0>>}

\* is_available.
NetAvailable ==
    /\ Decide("which") /\ Nothing
    /\ IF call.rc = 0 /\ call.out # {} THEN Goto("ports", 1) ELSE Goto("skipped", 1)

\* Which printed addresses contain "0.0.0.0", "::" or "*".
BindAll(addr) == addr \in {"0.0.0.0", "[::]", "*", "[::1]"}
DangerousPort(s, wide) ==
    Finding("dangerousPort", s, IF wide THEN "HIGH" ELSE "MEDIUM")
\* Of the lines whose fifth column ends in a number.
Dangerous(lines) == {s \in lines \cap DOMAIN Sockets : Sockets[s].port \in DANGEROUS_PORTS}

CheckListeningPorts ==
    /\ Decide("ports") /\ Goto("connections", 1)
    /\ IF call.out = {} THEN Report({}, {"ports"})
       ELSE Report({Finding("listeningServices", "ports", "INFO")} \cup
                   {DangerousPort(s, BindAll(Sockets[s].addr)) : s \in Dangerous(call.out)}, {})

\* The peer is taken from the fifth column, whatever stands there: ss, told
\* to show one state, has no column for it, and the peer in the fourth.
External(lines) ==
    {c \in lines : Connections[c].columns >= 5 /\ Connections[c].fifth # "private"}
CheckActiveConnections ==
    /\ Decide("connections") /\ Goto("iptables", 1)
    /\ IF External(call.out) # {}
       THEN Report({Finding("externalConnections", "connections", "MEDIUM")}, {})
       ELSE Nothing

\* _check_firewall: iptables, and nft when that has no rules to show.
CheckIptables ==
    /\ Decide("iptables")
    /\ IF call.rc # 0 \/ call.out = {} THEN Goto("nft", 1) /\ Nothing
       ELSE /\ Goto("resolv", 1)
            /\ Report({Finding("firewallRules", "iptables", "INFO")} \cup
                      {Finding("defaultAccept", c, "HIGH") : c \in call.out \cap {"INPUT", "FORWARD"}}, {})
CheckNft ==
    /\ Decide("nft") /\ Goto("resolv", 1)
    /\ IF call.rc # 0 \/ call.out = {}
       THEN Report({Finding("noFirewall", "firewall", "HIGH")}, {})
       ELSE Report({Finding("firewallRules", "nft", "INFO")}, {})

CheckDns ==
    /\ Look("resolv") /\ Goto("interfaces", 1)
    /\ LET found == host.files["resolv"]
       IN  Report({Finding("dns", "resolv", "INFO") : n \in found \cap {"public", "private"}} \cup
                  {Finding("publicDns", "resolv", "LOW") : n \in found \cap {"public"}},
                  IF found = {} THEN {"resolv"} ELSE {})

CheckInterfaces ==
    \/ Presence("interfaces", Finding("interfaces", "interfaces", "INFO"), "promisc")
    \/ Presence("promisc", Finding("promiscuous", "promisc", "HIGH"), "forward")
    \/ ReadFor("forward", <<"ip_forward">>, {Rule("1", TRUE, "forwarding", "MEDIUM")}, "neigh")

\* _check_arp: a hardware address that two lines of the table have.
Shared(lines) ==
    {Neighbours[n].mac : n \in {n \in lines : \E m \in lines \ {n} :
        Neighbours[m].mac = Neighbours[n].mac}}
CheckArp ==
    /\ Decide("neigh") /\ Goto("done", 1)
    /\ Report({Finding("arpSpoofing", m, "HIGH") : m \in Shared(call.out)}, {})

\* What the remediation of a finding f makes of the machine.
NetFixed(f, h) ==
    CASE f.title = "promiscuous" -> [h EXCEPT !.dangers = @ \ {"promisc"}]
      [] f.title = "forwarding"  -> [h EXCEPT !.files["ip_forward"] = {"0"}]

NetAuditRun ==
    \/ NetAvailable \/ CheckListeningPorts \/ CheckActiveConnections \/ CheckIptables
    \/ CheckNft \/ CheckDns \/ CheckInterfaces \/ CheckArp
=============================================================================
