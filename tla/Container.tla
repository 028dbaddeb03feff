------------------------------ MODULE Container ------------------------------
(***************************************************************************)
(* ContainerModule (xping/modules/container.py): the container runtime's   *)
(* sockets and ports, whether the scan runs in a container, and access to  *)
(* the cloud it may be in.                                                 *)
(***************************************************************************)
EXTENDS CheckRun

SockPaths  == <<"var/run/docker", "run/docker", "podman">>
CloudFiles == <<"aws/credentials", "aws/config", "azure", "gcp", "gcloud">>

ContainerQuestions == {"tcp", "imds"}

(***************************************************************************)
(* A service that answers at the metadata address may refuse: curl -s ends *)
(* without an error, and with the page that says so.                       *)
(***************************************************************************)
ContainerReplies(h, q) ==
    CASE q = "tcp"  -> IF h.tool = "none" THEN {<<{}, 127>>} ELSE {<<{"header"} \cup h.tcp, 0>>}
      [] q = "imds" -> IF h.imds = "none" THEN {<<{}, 7>>, <<{}, 28>>} ELSE {<<{h.imds}, 0>>}

-----------------------------------------------------------------------------
\* The bits of a mode as in SecAudit: 4 lets the group write, 2 and 1 let
\* everybody read and write.
SocketFindings(p, mode) ==
    {Finding("worldSocket", p, "CRITICAL") : b \in mode \cap {1}} \cup
    {Finding("groupSocket", p, "HIGH") : b \in IF 1 \in mode THEN {} ELSE mode \cap {4}}
CloudFinding(f, mode) == Finding("cloudFile", f, IF 2 \in mode THEN "HIGH" ELSE "LOW")

\* Is it there; and, where it is, what is its mode?  That it has gone
\* away in between is an error of the result.
SocketThere ==
    /\ Look("socket") /\ Nothing
    /\ IF SockPaths[i] \in DOMAIN host.sock THEN Goto("sockMode", i)
       ELSE NextOf(SockPaths, "socket", "tcp")
CheckSocket ==
    /\ Look("sockMode") /\ NextOf(SockPaths, "socket", "tcp")
    /\ LET p == SockPaths[i]
       IN  IF p \in DOMAIN host.sock THEN Report(SocketFindings(p, host.sock[p]), {})
           ELSE Report({}, {"socket"})

CheckDockerTcp ==
    /\ Decide("tcp") /\ Goto("environment", 1)
    /\ IF call.out = {} \/ call.rc # 0 THEN Nothing
       ELSE Report({Finding("dockerTcp", p, IF p = "2375" THEN "CRITICAL" ELSE "MEDIUM") :
                        p \in call.out \cap {"2375", "2376"}}, {})

\* What shows that the scan runs in a container; which kind is wording.
Indicators == {"dockerenv", "kubernetes.io", "cgroup:docker", "cgroup:kubepods"}
CheckEnvironment ==
    /\ Look("environment")
    /\ IF host.marks \cap Indicators = {} THEN Goto("cloud", 1) /\ Nothing
       ELSE Goto("dev", 1) /\ Report({Finding("insideContainer", "environment", "INFO")}, {})
CheckPrivileged ==
    /\ Look("dev") /\ Goto("cloud", 1)
    /\ IF host.marks \cap {"kmsg", "mem"} # {}
       THEN Report({Finding("privileged", "dev", "CRITICAL")}, {}) ELSE Nothing

CloudThere ==
    /\ Look("cloud") /\ Nothing
    /\ IF CloudFiles[i] \in DOMAIN host.cloud THEN Goto("cloudMode", i)
       ELSE NextOf(CloudFiles, "cloud", "imds")
CheckCloudFile ==
    /\ Look("cloudMode") /\ NextOf(CloudFiles, "cloud", "imds")
    /\ LET f == CloudFiles[i]
       IN  IF f \in DOMAIN host.cloud THEN Report({CloudFinding(f, host.cloud[f])}, {})
           ELSE Report({}, {"cloud"})

CheckImds ==
    /\ Decide("imds") /\ Goto("done", 1)
    /\ IF call.rc = 0 /\ call.out # {}
       THEN Report({Finding("imds", "imds", "MEDIUM")}, {}) ELSE Nothing

\* What the remediation of a finding f makes of the machine: chmod 660, chmod 600.
ContainerFixed(f, h) ==
    CASE f.title = "worldSocket" ->
             [h EXCEPT !.sock = [p \in DOMAIN @ |-> IF p = f.of THEN {8, 7, 5, 4} ELSE @[p]]]
      [] f.title = "cloudFile" ->
             [h EXCEPT !.cloud = [p \in DOMAIN @ |-> IF p = f.of THEN {8, 7} ELSE @[p]]]

ContainerRun ==
    \/ SocketThere \/ CheckSocket \/ CheckDockerTcp \/ CheckEnvironment \/ CheckPrivileged
    \/ CloudThere \/ CheckCloudFile \/ CheckImds
=============================================================================
