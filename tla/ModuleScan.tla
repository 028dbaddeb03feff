----------------------------- MODULE ModuleScan -----------------------------
(***************************************************************************)
(* What run_scan promises its caller (the docstrings at engine.py:142-147  *)
(* and 209-215), without threads, queues or futures: a plan of modules is  *)
(* made, each module comes to exactly one verdict, and the report, if it   *)
(* is published at all, is published once, complete, and holds the entry   *)
(* of each module's verdict and nothing else.  A scan may instead fail; it *)
(* then publishes nothing, however far it had come.                        *)
(***************************************************************************)
CONSTANTS Verdict,  \* what the execution of a module may come to
          Entry(_), \* the entry of the report a verdict stands for
          Fatal(_)  \* whether a verdict stands for no entry

VARIABLES phase,    \* "planning", "running", "published" or "failed"
          plan,     \* the jobs of the scan: one for each module to execute
          verdict,  \* the verdicts reached, a function on the jobs settled
          report    \* the published entries

vars == <<phase, plan, verdict, report>>

Init == phase = "planning" /\ plan = {} /\ DOMAIN verdict = {} /\ report = {}

(***************************************************************************)
(* The plan only grows, and only before the scan starts.                   *)
(***************************************************************************)
Extend ==
    /\ phase = "planning" /\ plan \subseteq plan'
    /\ UNCHANGED <<phase, verdict, report>>

Start ==
    /\ phase = "planning" /\ plan # {}
    /\ phase' = "running"
    /\ UNCHANGED <<plan, verdict, report>>

(***************************************************************************)
(* A module comes to its verdict, once; also after the scan has failed,    *)
(* when nobody waits for it any more.                                      *)
(***************************************************************************)
Settle(j) ==
    /\ phase \in {"running", "failed"} /\ j \notin DOMAIN verdict
    /\ DOMAIN verdict' = DOMAIN verdict \cup {j}
    /\ verdict'[j] \in Verdict
    /\ \A k \in DOMAIN verdict : verdict'[k] = verdict[k]
    /\ UNCHANGED <<phase, plan, report>>

(***************************************************************************)
(* Every module has its verdict and none is fatal: the report comes out.   *)
(* A scan that planned nothing is published at once.                       *)
(***************************************************************************)
Publish ==
    /\ phase = "running" \/ (phase = "planning" /\ plan = {})
    /\ DOMAIN verdict = plan
    /\ \A j \in plan : ~Fatal(verdict[j])
    /\ phase' = "published"
    /\ report' = {Entry(verdict[j]) : j \in plan}
    /\ UNCHANGED <<plan, verdict>>

Fail ==
    /\ phase \in {"planning", "running"}
    /\ phase' = "failed"
    /\ UNCHANGED <<plan, verdict, report>>

Next == Extend \/ Start \/ (\E j \in plan : Settle(j)) \/ Publish \/ Fail

Spec == Init /\ [][Next]_vars
=============================================================================
