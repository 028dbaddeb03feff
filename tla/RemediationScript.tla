------------------------- MODULE RemediationScript -------------------------
(***************************************************************************)
(* The remediation script: generate_remediation_script of core/reporter.py *)
(* turns the findings of a report into a bash script, which an operator    *)
(* runs as root later.  The generator is in src/; the shell that runs its  *)
(* output is modelled from the options the script sets for it              *)
(* ("set -euo pipefail", the check for root, the closing message).         *)
(*                                                                         *)
(* A remediation text is a sequence of lines.  A line is told apart by the *)
(* form the generator looks for and by the command a shell would make of   *)
(* it: "bare" starts with chmod, chown or sysctl, "sudo" with sudo, and    *)
(* "other" is anything else, mostly prose, which as a command fails or has *)
(* some effect of its own.  Of a title only the number of its lines        *)
(* matters: titles name files and variables of the host (redteam.py:298),  *)
(* whose names may hold a newline.  The head of the script also quotes the *)
(* scan's identifier, host name and time, which are taken for one line     *)
(* each, as is the name of a module.                                       *)
(***************************************************************************)
EXTENDS ScanModels

CONSTANTS Remediations, \* the remediation texts a finding may carry
          Titles,       \* the numbers of lines a title may have
          MaxFindings   \* bound: findings in a report

Form == {"bare", "sudo", "other"}

ASSUME RemediationAssumption ==
    /\ Remediations \subseteq Seq([form : Form])
    /\ Titles \subseteq Nat \ {0}
    /\ MaxFindings \in Nat

VARIABLES
    findings,  \* the report's findings, in the order of its modules
    pc,        \* "generate", "bash" or "exited"
    next,      \* the next finding to write, then the next line to run
    script,    \* the script's lines below its head
    written,   \* how many of them have reached the file
    whole,     \* whether the file is the whole script
    ran,       \* history: the lines that took effect, in order
    announced, \* whether the script said it was complete
    exit       \* its exit status, -1 while there is none, 1 for any failure

vars == <<findings, pc, next, script, written, whole, ran, announced, exit>>

Finding == [severity : Severity \cup {Unordered}, title : Titles,
            remediation : Remediations]

\* Faulty variant: the severity of a finding is not looked at.
Serious_Always(f) == f.remediation # <<>>

Serious(f) == f.remediation # <<>> /\ f.severity \in {MEDIUM, HIGH, CRITICAL}

Recognised(line) == line.form \in {"bare", "sudo"}

(***************************************************************************)
(* What the script holds for finding i: its title, then its remediation,   *)
(* each put behind a comment sign as one string, so that only its first    *)
(* line is a comment (the others spill); then the lines of the remediation *)
(* recognised as commands, without their "sudo".  A line that is not       *)
(* recognised leaves nothing.                                              *)
(***************************************************************************)
Item(kind, i, k) == [kind |-> kind, finding |-> i, line |-> k]

Title(i) ==
    [k \in 1 .. findings[i].title |->
        Item(IF k = 1 THEN "title" ELSE "overflow", i, k)]

\* Faulty variant: the comment sign is missing.
Note_Uncommented(i) ==
    [k \in DOMAIN findings[i].remediation |-> Item("spill", i, k)]

Note(i) ==
    [k \in DOMAIN findings[i].remediation |->
        Item(IF k = 1 THEN "comment" ELSE "spill", i, k)]

Commands(i) ==
    [k \in DOMAIN findings[i].remediation |->
        Item(IF Recognised(findings[i].remediation[k]) THEN "command" ELSE "nothing",
             i, k)]

Section(i) == Title(i) \o Note(i) \o Commands(i)

Init ==
    /\ findings \in UNION {[1 .. n -> Finding] : n \in 0 .. MaxFindings}
    /\ pc = "generate" /\ next = 1 /\ script = <<>>
    /\ written = 0 /\ whole = FALSE
    /\ ran = <<>> /\ announced = FALSE /\ exit = -1

-----------------------------------------------------------------------------
(***************************************************************************)
(* The generator.                                                          *)
(***************************************************************************)
AddFinding ==
    /\ pc = "generate" /\ next \in DOMAIN findings
    /\ script' = IF Serious(findings[next])
                 THEN script \o Section(next) ELSE script
    /\ next' = next + 1
    /\ UNCHANGED <<findings, pc, written, whole, ran, announced, exit>>

(***************************************************************************)
(* The file is written in place; where that fails, or the process is       *)
(* interrupted, some of the lines are there and the last may be cut        *)
(* (NoTornFilePasses of XPingCli: the exit code says so).  The operator    *)
(* then runs it; unless that is root, it stops.                            *)
(***************************************************************************)
WriteAndRun ==
    /\ pc = "generate" /\ next \notin DOMAIN findings
    /\ written' \in 0 .. Len(script)
    /\ whole' \in BOOLEAN /\ (whole' => written' = Len(script))
    /\ \/ pc' = "bash" /\ UNCHANGED exit
       \/ pc' = "exited" /\ exit' = 1
    /\ next' = 1
    /\ UNCHANGED <<findings, script, ran, announced>>

-----------------------------------------------------------------------------
(***************************************************************************)
(* The shell: comments pass, every other line takes effect or, under       *)
(* set -e, ends the script.                                                *)
(***************************************************************************)
Pass(item) == item.kind \in {"title", "comment", "nothing"}

\* Faulty variant: without set -e.
RunLine_Regardless ==
    /\ pc = "bash" /\ next <= written
    /\ \/ ran' = IF Pass(script[next]) THEN ran ELSE Append(ran, script[next])
       \/ UNCHANGED ran
    /\ next' = next + 1
    /\ UNCHANGED <<findings, pc, script, written, whole, announced, exit>>

RunLine ==
    /\ pc = "bash" /\ next <= written
    /\ \/ Pass(script[next]) /\ UNCHANGED ran
       \/ ~Pass(script[next]) /\ ran' = Append(ran, script[next])
       \/ ~whole /\ next = written /\ UNCHANGED ran    \* a line that was cut
    /\ next' = next + 1
    /\ UNCHANGED <<findings, pc, script, written, whole, announced, exit>>

LineFails ==
    /\ pc = "bash" /\ next <= written /\ ~Pass(script[next])
    /\ pc' = "exited" /\ exit' = 1
    /\ UNCHANGED <<findings, next, script, written, whole, ran, announced>>

\* A torn script ends without its closing message; it may end well or not.
EndOfScript ==
    /\ pc = "bash" /\ next > written
    /\ pc' = "exited" /\ exit' \in IF whole THEN {0} ELSE {0, 1}
    /\ announced' = whole
    /\ UNCHANGED <<findings, next, script, written, whole, ran>>

Done == pc = "exited" /\ UNCHANGED vars

Next == AddFinding \/ WriteAndRun \/ RunLine \/ LineFails \/ EndOfScript \/ Done

Spec == Init /\ [][Next]_vars

-----------------------------------------------------------------------------
(***************************************************************************)
(* The type invariant of the generator and of the shell.                   *)
(***************************************************************************)
Kinds == {"title", "overflow", "comment", "spill", "command", "nothing"}

Items == [kind : Kinds, finding : Nat, line : Nat]

OfTitle(item) == item.kind \in {"title", "overflow"}

\* The lines of the text an item was taken from.
Text(item) ==
    LET f == findings[item.finding]
    IN  IF OfTitle(item) THEN 1 .. f.title ELSE DOMAIN f.remediation

TypeOK ==
    /\ findings \in Seq(Finding)
    /\ pc \in {"generate", "bash", "exited"}
    /\ next \in Nat \ {0}
    /\ script \in Seq(Items)
    /\ written \in 0 .. Len(script)
    /\ whole \in BOOLEAN /\ announced \in BOOLEAN
    /\ ran \in Seq(Items)
    /\ exit \in {-1, 0, 1}

(***************************************************************************)
(* "Remediation script execution complete" is true: when the script says   *)
(* so, every command of every serious finding took effect.  A script that  *)
(* was torn, or met a failing line, never says it (reporter.py:537, 568).  *)
(***************************************************************************)
AnnouncedMeansApplied ==
    announced =>
        \A i \in DOMAIN findings :
            findings[i].severity >= MEDIUM =>
                \A k \in DOMAIN findings[i].remediation :
                    Recognised(findings[i].remediation[k]) =>
                        \E n \in DOMAIN ran : ran[n] = Item("command", i, k)

(***************************************************************************)
(* What takes effect is a line of a serious finding's title or             *)
(* remediation, in the order of the report and, within a finding, of its   *)
(* commands, and none twice as a command (reporter.py:549-562).            *)
(***************************************************************************)
AppliedInReportOrder ==
    /\ \A n \in DOMAIN ran :
          LET i == ran[n].finding
          IN  i \in DOMAIN findings /\ findings[i].severity >= MEDIUM
              /\ ran[n].line \in Text(ran[n])
    /\ \A m, n \in DOMAIN ran : m < n =>
          /\ ran[m].finding <= ran[n].finding
          /\ ran[m].finding = ran[n].finding /\ ran[m].kind = ran[n].kind =>
                 ran[m].line < ran[n].line

(***************************************************************************)
(* A finding whose title and remediation are one line each gives the shell *)
(* nothing but the command the generator recognised in it, whatever the    *)
(* other findings of the report spill into the script                      *)
(* (reporter.py:553-562).                                                  *)
(***************************************************************************)
OneLineIsSafe ==
    \A n \in DOMAIN ran :
        LET f == findings[ran[n].finding]
        IN  f.title = 1 /\ Len(f.remediation) <= 1 =>
                ran[n].kind = "command" /\ Recognised(f.remediation[ran[n].line])

(***************************************************************************)
(* The inductive invariant behind the theorems of                          *)
(* RemediationScript_proofs: every line of the script is that of a serious *)
(* finding written so far and of its kind (LayoutInv), in order (OrderInv) *)
(* and none is missing (CoverInv); the shell has run what is before the    *)
(* next line, and nothing else (RanInv).                                   *)
(***************************************************************************)
WellMade(item) ==
    LET i == item.finding
    IN  /\ i \in DOMAIN findings /\ Serious(findings[i])
        /\ item.line \in Text(item)
        /\ item.kind \in {"spill", "overflow"} => item.line > 1
        /\ item.kind = "command" <=>
              /\ item.kind \in {"command", "nothing"}
              /\ Recognised(findings[i].remediation[item.line])

LayoutInv ==
    \A n \in DOMAIN script :
        /\ WellMade(script[n])
        /\ pc = "generate" => script[n].finding < next

Before(a, b) ==
    /\ a.finding <= b.finding
    /\ a.finding = b.finding /\ a.kind = b.kind => a.line < b.line

OrderInv == \A m, n \in DOMAIN script : m < n => Before(script[m], script[n])

CoverInv ==
    \A i \in DOMAIN findings :
        Serious(findings[i]) /\ (pc = "generate" => i < next) =>
            \A k \in DOMAIN findings[i].remediation :
                Recognised(findings[i].remediation[k]) =>
                    \E n \in DOMAIN script : script[n] = Item("command", i, k)

RanInv ==
    /\ pc = "generate" => ran = <<>> /\ ~whole /\ ~announced
    /\ \A n \in DOMAIN ran :
          /\ ~Pass(ran[n])
          /\ \E p \in DOMAIN script : p < next /\ ran[n] = script[p]
    /\ \A m, n \in DOMAIN ran : m < n => Before(ran[m], ran[n])
    /\ whole => written = Len(script)
    /\ pc # "generate" /\ whole =>
          \A p \in DOMAIN script :
              p < next /\ ~Pass(script[p]) => \E n \in DOMAIN ran : ran[n] = script[p]
    /\ announced => pc = "exited" /\ whole /\ next > written

ScriptInv == LayoutInv /\ OrderInv /\ CoverInv /\ RanInv

(***************************************************************************)
(* reporter.py:556: "Extract shell command lines if remediation specifies  *)
(* commands", everything else being the "Remediation note" of a comment:   *)
(* the shell is never given any other line of a remediation.               *)
(***************************************************************************)
OnlyCommandsRun ==
    pc = "bash" /\ next \in 1 .. written => script[next].kind # "spill"
=============================================================================
