------------------------------ MODULE ScanDrift ------------------------------
(***************************************************************************)
(* Security drift: scans write their JSON reports to two paths, and xping  *)
(* diff compares what it finds there (Reporter.write_json, write_sarif and *)
(* compare_scans of core/reporter.py, cmd_diff of cli.py).  Nothing keeps  *)
(* a scan from writing a path while the diff reads it.                     *)
(*                                                                         *)
(* An issue is something that is wrong on the host, about a subject (a     *)
(* file, a rule, a user).  A scan reports it as a finding if its module    *)
(* ran and the severity threshold lets it pass; the finding's module,      *)
(* title and severity, all that compare_scans looks at, need not tell its  *)
(* subject.  Issues change between scans in any way.                       *)
(***************************************************************************)
EXTENDS Integers, FiniteSets

CONSTANTS
    Modules,     \* the modules a scan may run
    Issues,      \* what may be wrong on the host
    Thresholds,  \* the severity_thresholds of the scans considered
    MaxWrites    \* bound: how often a scan writes a report

ASSUME IssueAssumption ==
    \A i \in Issues : i.module \in Modules /\ i.severity \in Int
ASSUME ThresholdAssumption == Thresholds \subseteq Int
ASSUME BoundAssumption == MaxWrites \in Nat

Path == {"baseline", "current"}

(***************************************************************************)
(* What a path may hold: nothing; a file json.load or compare_scans raises *)
(* on (torn, or no JSON object); a JSON object without "modules", such as  *)
(* a SARIF report; or a scan report, with, as history, the issues the host *)
(* had.  "ran" are the modules that were selected, available and did not   *)
(* crash: of the others the report has no findings.                        *)
(***************************************************************************)
Holding(kind) == [kind |-> kind, issues |-> {}, ran |-> {}, threshold |-> 0]

Report == [kind : {"report"}, issues : SUBSET Issues, ran : SUBSET Modules,
           threshold : Thresholds]

Content == Report \cup {Holding(k) : k \in {"absent", "torn", "foreign"}}

Reported(c) == {i \in c.issues : i.module \in c.ran /\ i.severity >= c.threshold}

-----------------------------------------------------------------------------
(***************************************************************************)
(* compare_scans.  Each list of findings becomes a dict from keys to the   *)
(* last finding listed under the key (which one that is, is left open),    *)
(* and the dicts' keys are compared.                                       *)
(***************************************************************************)
\* Faulty variant: the module is not part of the key.
FindingKey_NoModule(f) == <<f.title, f.severity>>

FindingKey(f) == <<f.module, f.title, f.severity>>

Keys(findings) == {FindingKey(f) : f \in findings}

Tables(findings) ==
    {t \in [Keys(findings) -> findings] : \A k \in DOMAIN t : FindingKey(t[k]) = k}

\* Faulty variant: the arguments are swapped.
CompareScans_Swapped(base, curr) ==
    [added      |-> {base[k] : k \in DOMAIN base \ DOMAIN curr},
     resolved   |-> {curr[k] : k \in DOMAIN curr \ DOMAIN base},
     persistent |-> {curr[k] : k \in DOMAIN curr \cap DOMAIN base}]

CompareScans(base, curr) ==
    [added      |-> {curr[k] : k \in DOMAIN curr \ DOMAIN base},
     resolved   |-> {base[k] : k \in DOMAIN base \ DOMAIN curr},
     persistent |-> {curr[k] : k \in DOMAIN curr \cap DOMAIN base}]

NoDrift == [added |-> {}, resolved |-> {}, persistent |-> {}]

-----------------------------------------------------------------------------
VARIABLES
    file,     \* what is at each path
    writing,  \* what a scan is writing there, or Holding("absent")
    writes,   \* number of reports begun
    pc,       \* where cmd_diff is
    loaded,   \* what cmd_diff has loaded from each path
    drift,    \* the result of compare_scans
    exit      \* cmd_diff's return value, -1 while there is none

vars == <<file, writing, writes, pc, loaded, drift, exit>>

Init ==
    /\ file = [p \in Path |-> Holding("absent")]
    /\ writing = [p \in Path |-> Holding("absent")]
    /\ writes = 0
    /\ pc = "args" /\ drift = NoDrift /\ exit = -1
    /\ loaded = [p \in Path |-> Holding("absent")]

(***************************************************************************)
(* A scan writes its report in place: open(path, "w") truncates what was   *)
(* there.  Until the writer is done the file is torn, and stays so if it   *)
(* fails or is killed.                                                     *)
(***************************************************************************)
BeginWrite(p) ==
    /\ writing[p].kind = "absent" /\ writes < MaxWrites
    /\ writes' = writes + 1
    /\ \E c \in Report \cup {Holding("foreign")} : writing' = [writing EXCEPT ![p] = c]
    /\ file' = [file EXCEPT ![p] = Holding("torn")]
    /\ UNCHANGED <<pc, loaded, drift, exit>>

EndWrite(p) ==
    /\ writing[p].kind # "absent"
    /\ file' = [file EXCEPT ![p] = writing[p]]
    /\ writing' = [writing EXCEPT ![p] = Holding("absent")]
    /\ UNCHANGED <<writes, pc, loaded, drift, exit>>

AbandonWrite(p) ==
    /\ writing[p].kind # "absent"
    /\ writing' = [writing EXCEPT ![p] = Holding("absent")]
    /\ UNCHANGED <<file, writes, pc, loaded, drift, exit>>

\* The file is unlinked; a scan still writing it writes into nowhere.
Remove(p) ==
    /\ file[p].kind # "absent"
    /\ file' = [file EXCEPT ![p] = Holding("absent")]
    /\ writing' = [writing EXCEPT ![p] = Holding("absent")]
    /\ UNCHANGED <<writes, pc, loaded, drift, exit>>

-----------------------------------------------------------------------------
(***************************************************************************)
(* cmd_diff.                                                               *)
(***************************************************************************)
Return(c) == pc' = "done" /\ exit' = c

TooFewFiles ==
    /\ pc = "args" /\ Return(1)
    /\ UNCHANGED <<file, writing, writes, loaded, drift>>

CheckPaths ==
    /\ pc = "args"
    /\ IF \E p \in Path : file[p].kind = "absent"
       THEN Return(1)
       ELSE pc' = "baseline" /\ UNCHANGED exit
    /\ UNCHANGED <<file, writing, writes, loaded, drift>>

\* Faulty variant: what cannot be read counts as an empty scan.
Load_Lenient(p) ==
    /\ pc = p
    /\ loaded' = [loaded EXCEPT ![p] = file[p]]
    /\ pc' = IF p = "baseline" THEN "current" ELSE "compare"
    /\ UNCHANGED <<file, writing, writes, drift, exit>>

Load(p) ==
    /\ pc = p
    /\ IF file[p].kind \in {"absent", "torn"}
       THEN Return(1) /\ UNCHANGED loaded
       ELSE /\ loaded' = [loaded EXCEPT ![p] = file[p]]
            /\ pc' = IF p = "baseline" THEN "current" ELSE "compare"
            /\ UNCHANGED exit
    /\ UNCHANGED <<file, writing, writes, drift>>

\* The whole drift is printed before the return; a closed output raises.
Compare ==
    /\ pc = "compare"
    /\ \E b \in Tables(Reported(loaded["baseline"])),
          c \in Tables(Reported(loaded["current"])) :
              drift' = CompareScans(b, c)
    /\ Return(1) \/ Return(IF drift'.added = {} THEN 0 ELSE 2)
    /\ UNCHANGED <<file, writing, writes, loaded>>

-----------------------------------------------------------------------------
Diff == TooFewFiles \/ CheckPaths \/ (\E p \in Path : Load(p)) \/ Compare

Scans == \E p \in Path : BeginWrite(p) \/ EndWrite(p) \/ AbandonWrite(p) \/ Remove(p)

Done == pc = "done" /\ UNCHANGED vars

Next == Diff \/ (pc # "done" /\ Scans) \/ Done

Spec == Init /\ [][Next]_vars

-----------------------------------------------------------------------------
(***************************************************************************)
(* The type invariant of the two reports and of cmd_diff.                  *)
(***************************************************************************)
TypeOK ==
    /\ file \in [Path -> Content]
    /\ writing \in [Path -> Content]
    /\ writes \in 0 .. MaxWrites
    /\ pc \in Path \cup {"args", "compare", "done"}
    /\ loaded \in [Path -> Content]
    /\ drift \in [added : SUBSET Issues, resolved : SUBSET Issues,
                  persistent : SUBSET Issues]
    /\ exit \in {-1, 0, 1, 2}

Judged == pc = "done" /\ exit \in {0, 2}

(***************************************************************************)
(* The gate of the drift analysis: it passes only two whole files, and     *)
(* only if everything the current one reports was already reported in the  *)
(* baseline under the same module, title and severity; otherwise it fails  *)
(* for something it was not (cli.py:735-772, reporter.py:579-615).         *)
(***************************************************************************)
PassMeansNothingNew ==
    Judged =>
        LET b == loaded["baseline"]
            c == loaded["current"]
        IN  /\ {b.kind, c.kind} \subseteq {"report", "foreign"}
            /\ exit = 0 <=>
                  \A i \in Reported(c) : \E k \in Reported(b) :
                      i.module = k.module /\ i.title = k.title /\ i.severity = k.severity

(***************************************************************************)
(* Nothing is called resolved without a reason: if the issue is still      *)
(* there, the current scan did not run its module to the end, or filtered  *)
(* it out, or is no scan report (reporter.py:603).                         *)
(***************************************************************************)
ResolvedIsExplained ==
    Judged =>
        \A f \in drift.resolved :
            LET c == loaded["current"]
            IN  /\ f \in loaded["baseline"].issues
                /\ \/ f \notin c.issues
                   \/ f.module \notin c.ran
                   \/ f.severity < c.threshold

(***************************************************************************)
(* Of two reports made alike (the same modules, all of which ran to the    *)
(* end, the same threshold) and of issues that the key tells apart, the    *)
(* drift is the truth: added is what came, resolved is what went, and      *)
(* persistent is what stayed.                                              *)
(***************************************************************************)
HonestWhenComparable ==
    LET b == loaded["baseline"]
        c == loaded["current"]
        Seen(S) == {i \in S : i.module \in b.ran /\ i.severity >= b.threshold}
    IN  /\ Judged
        /\ b.kind = "report" /\ c.kind = "report"
        /\ b.ran = c.ran /\ b.threshold = c.threshold
        /\ \A i, k \in b.issues \cup c.issues :
              i.module = k.module /\ i.title = k.title /\ i.severity = k.severity => i = k
        => drift = [added      |-> Seen(c.issues \ b.issues),
                    resolved   |-> Seen(b.issues \ c.issues),
                    persistent |-> Seen(b.issues \cap c.issues)]

(***************************************************************************)
(* The inductive invariant behind the theorems of ScanDrift_proofs: what   *)
(* cmd_diff goes on with was whole when it was loaded, and a verdict is    *)
(* that of compare_scans on the two reports loaded.                        *)
(***************************************************************************)
Whole(p) == loaded[p].kind \in {"report", "foreign"}

DriftInv ==
    /\ pc = "current" => Whole("baseline")
    /\ pc = "compare" \/ Judged => Whole("baseline") /\ Whole("current")
    /\ Judged =>
          /\ exit = 0 <=> drift.added = {}
          /\ \E b \in Tables(Reported(loaded["baseline"])),
                c \in Tables(Reported(loaded["current"])) : drift = CompareScans(b, c)

(***************************************************************************)
(* reporter.py:586: resolved_findings are "Findings in baseline but fixed  *)
(* in current".                                                            *)
(***************************************************************************)
ResolvedMeansFixed ==
    Judged /\ loaded["current"].kind = "report" =>
        drift.resolved \cap loaded["current"].issues = {}

(***************************************************************************)
(* reporter.py:585: added_findings are "Findings in current but not in     *)
(* baseline".                                                              *)
(***************************************************************************)
NewFindingIsAdded ==
    Judged => \A i \in Reported(loaded["current"]) \ Reported(loaded["baseline"]) :
                  \E f \in drift.added : FindingKey(f) = FindingKey(i)
=============================================================================
