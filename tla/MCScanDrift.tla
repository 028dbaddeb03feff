----------------------------- MODULE MCScanDrift -----------------------------
(***************************************************************************)
(* Small instances of ScanDrift: two sudo rules that give findings with    *)
(* one key ("Sudo: NOPASSWD ALL Rule", whatever the rule), the same title  *)
(* in another module, and a finding below the higher threshold.            *)
(***************************************************************************)
EXTENDS ScanDrift

Issue(m, t, s, x) == [module |-> m, title |-> t, severity |-> s, subject |-> x]

MCModules == {"secaudit", "redteam"}
MCIssues  == {Issue("secaudit", "nopasswd", 4, "alice"),
              Issue("secaudit", "nopasswd", 4, "bob"),
              Issue("redteam", "nopasswd", 4, "alice"),
              Issue("redteam", "writable path", 1, "/tmp")}
=============================================================================
