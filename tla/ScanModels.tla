----------------------------- MODULE ScanModels -----------------------------
(***************************************************************************)
(* The data model of a scan (xping/core/models.py): severities, findings,  *)
(* the result one module hands back and the figures computed from a list   *)
(* of results.  There is no state here; the other modules extend this one. *)
(*                                                                         *)
(* A finding is a record with at least a "severity"; whatever else it      *)
(* carries (title, evidence, remediation) only tells two findings apart,   *)
(* so a module's list of findings is a SET of such records.                *)
(***************************************************************************)
EXTENDS Integers, FiniteSets, Sequences

(***************************************************************************)
(* Severity is an IntEnum: its members compare as integers.                *)
(***************************************************************************)
INFO     == 0
LOW      == 1
MEDIUM   == 2
HIGH     == 3
CRITICAL == 4
Severity == INFO .. CRITICAL

(***************************************************************************)
(* Python does not enforce the annotation "severity: Severity": a plugin   *)
(* may store a value that cannot be compared with a Severity, a string or  *)
(* None say.  One integer outside Severity stands for all of them.         *)
(***************************************************************************)
Unordered == -1

(***************************************************************************)
(* The severity filter of the engine, and the condition under which        *)
(* evaluating it raises TypeError.  At the default threshold the filter is *)
(* not evaluated at all.                                                   *)
(***************************************************************************)
FilterApplies(threshold) == threshold > INFO

FilterRaises(findings, threshold) ==
    FilterApplies(threshold) /\ \E f \in findings : f.severity = Unordered

\* Faulty variant: a finding exactly at the threshold is dropped.
Filtered_Strictly(findings, threshold) ==
    IF FilterApplies(threshold)
    THEN {f \in findings : f.severity > threshold}
    ELSE findings

Filtered(findings, threshold) ==
    IF FilterApplies(threshold)
    THEN {f \in findings : f.severity >= threshold}
    ELSE findings

(***************************************************************************)
(* ScanResult: figures over the list of module results.  A finding is      *)
(* counted once for every result that holds it.                            *)
(***************************************************************************)
FindingsAt(results, s) ==
    UNION {{i} \X {f \in results[i].findings : f.severity = s} : i \in DOMAIN results}

Count(results, s) == Cardinality(FindingsAt(results, s))

\* Faulty variant: a single critical finding is not enough.
OverallRisk_OffByOne(results) ==
    IF Count(results, CRITICAL) > 1 THEN "CRITICAL" ELSE "LOW"

OverallRisk(results) ==
    IF Count(results, CRITICAL) > 0 THEN "CRITICAL"
    ELSE IF Count(results, HIGH) >= 3 THEN "HIGH"
    ELSE IF Count(results, HIGH) > 0 THEN "MEDIUM"
    ELSE "LOW"

=============================================================================
