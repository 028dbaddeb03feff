----------------------------- MODULE MCXPingCli -----------------------------
(***************************************************************************)
(* Every kind of invocation of XPingCli.                                   *)
(***************************************************************************)
EXTENDS XPingCli

MCInvocations ==
    [command : {"scan"}, writes : SUBSET File]
        \cup [command : Command \ {"scan"}, writes : {{}}]
=============================================================================
