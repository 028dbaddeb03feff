------------------------------ MODULE CheckRun ------------------------------
(***************************************************************************)
(* What the checks of the scan modules share (xping/utils/helpers.py and   *)
(* xping/modules/base.py): a module's run() makes its checks one after the *)
(* other, each of which reads files or asks the machine a question through *)
(* run_cmd, and adds to the lists of findings and errors of the result.    *)
(* Meanwhile the machine goes on: commands hang, files change.             *)
(*                                                                         *)
(* What a command or a file says is the set of the facts in it a rule      *)
(* tells apart.  No caller modelled here tells None from "": both are {}.  *)
(***************************************************************************)
EXTENDS Integers, Sequences, FiniteSets

CONSTANTS
    MaxChanges,  \* bound: how often the machine changes during a scan
    MaxFaults    \* bound: how many commands hang or cannot be started

ASSUME BoundsAssumption == MaxChanges \in Nat /\ MaxFaults \in Nat

VARIABLES
    host,       \* the machine, as far as the checks can see it
    seen,       \* history: what the machine has been since run() began
    changes,    \* number of changes of the machine so far
    step,       \* the check run() is in, or the question it asks there
    i,          \* the place in the check's list, 1 when it has none
    held,       \* what a check has found out, and uses in its next step
    call,       \* the call of run_cmd in progress
    findings,   \* the result's findings
    errors,     \* the checks that have added to the result's errors
    orphans,    \* the questions whose processes have outlived their call
    faults,     \* number of commands that have hung or not started
    unanswered  \* history: the questions of this run() without an answer

helpervars == <<call, orphans, faults, unanswered>>
hostvars   == <<host, seen, changes>>

\* One element of ModuleResult.findings.
Finding(title, of, sev) == [title |-> title, of |-> of, sev |-> sev]

(***************************************************************************)
(* run_cmd: the thread is idle; or the command runs, and ends by itself;   *)
(* or it hangs; or its shell is killed and waited for; or the triple has   *)
(* been returned.                                                          *)
(***************************************************************************)
Idle == [at |-> "idle", out |-> {}, rc |-> 0]
Returned(out, rc) == [at |-> "returned", out |-> out, rc |-> rc]

\* What run_cmd returns for every exception: (None, text, -1).
NoAnswer == Returned({}, -1)

RunCmd == call.at = "idle" /\ call' = [Idle EXCEPT !.at = "running"]
          /\ UNCHANGED <<orphans, faults, unanswered>>

\* The command ends by itself, with one of these pairs of output and code.
Completes(replies) ==
    /\ call.at = "running"
    /\ \E r \in replies : call' = Returned(r[1], r[2])
    /\ UNCHANGED <<orphans, faults, unanswered>>

\* It could not be started, or its output not be decoded.
Raises ==
    /\ call.at = "running" /\ faults < MaxFaults
    /\ call' = NoAnswer /\ faults' = faults + 1
    /\ unanswered' = unanswered \cup {<<step, i>>}
    /\ UNCHANGED orphans

\* It does not end for as long as the thread is ready to wait.
Hangs ==
    /\ call.at = "running" /\ faults < MaxFaults
    /\ call' = [call EXCEPT !.at = "hung"] /\ faults' = faults + 1
    /\ UNCHANGED <<orphans, unanswered>>

(***************************************************************************)
(* TimeoutExpired: subprocess.run kills the shell, waits for it alone, and *)
(* raises.  What the shell had started may run on.                         *)
(***************************************************************************)
TimeoutExpired ==
    /\ call.at = "hung"
    /\ call' = [call EXCEPT !.at = "killed"]
    /\ orphans' \in {orphans, orphans \cup {<<step, i>>}}
    /\ UNCHANGED <<faults, unanswered>>

\* Faulty variant: until nobody has the pipe open, as communicate() would wait.
Reaped_Communicates ==
    /\ call.at = "killed" /\ <<step, i>> \notin orphans
    /\ call' = NoAnswer
    /\ unanswered' = unanswered \cup {<<step, i>>}
    /\ UNCHANGED <<orphans, faults>>
Reaped ==
    /\ call.at = "killed"
    /\ call' = NoAnswer
    /\ unanswered' = unanswered \cup {<<step, i>>}
    /\ UNCHANGED <<orphans, faults>>

OrphanEnds ==
    /\ \E q \in orphans : orphans' = orphans \ {q}
    /\ UNCHANGED <<call, faults, unanswered>>

(***************************************************************************)
(* read_file_safe: the first max lines of a file, all of them if max is 0; *)
(* nothing of a file that is missing, unreadable or fails while being read.*)
(***************************************************************************)
ReadFileSafe(file, max) ==
    IF ~file.readable THEN <<>>
    ELSE IF max = 0 \/ Len(file.lines) <= max THEN file.lines
    ELSE SubSeq(file.lines, 1, max)

\* The first of some files that yields content, as several checks take it.
FirstOf(files) ==
    LET yield == {k \in 1 .. Len(files) : host.files[files[k]] # {}}
    IN  IF yield = {} THEN {}
        ELSE host.files[files[CHOOSE k \in yield : \A m \in yield : k <= m]]

-----------------------------------------------------------------------------
Goto(s, k) == step' = s /\ i' = k
Report(fs, es) == findings' = findings \cup fs /\ errors' = errors \cup es
\* The next one of a list, or what comes after the list.
NextOf(order, s, next) == IF i < Len(order) THEN Goto(s, i + 1) ELSE Goto(next, 1)
Nothing == UNCHANGED <<findings, errors>>

\* A function but for one argument, as when a file is removed from a directory.
Without(fn, x) == [y \in DOMAIN fn \ {x} |-> fn[y]]

\* Faulty variant: the answer is still there for the next check.
Decide_Stale(q) ==
    /\ step = q /\ call.at = "returned"
    /\ UNCHANGED <<call, hostvars, orphans, faults, unanswered>>
\* The answer to question q is there, and the check goes on with it.
Decide(q) ==
    /\ step = q /\ call.at = "returned"
    /\ call' = Idle
    /\ UNCHANGED <<hostvars, orphans, faults, unanswered>>

\* A check that asks nothing, but reads.
Look(s) == step = s /\ UNCHANGED <<hostvars, helpervars>>

(***************************************************************************)
(* Checks of one form.  A question whose output is itself the danger, and  *)
(* a file read for words that should or should not be in it.               *)
(***************************************************************************)
Presence(q, finding, next) ==
    /\ Decide(q) /\ Goto(next, 1)
    /\ IF call.out # {} THEN Report({finding}, {}) ELSE Nothing

Rule(word, bad, title, sev) ==
    [word |-> word, bad |-> bad, title |-> title, sev |-> sev]
Broken(rules, content) ==
    {r \in rules : content # {} /\ (r.word \in content) = r.bad}
Judged(s, rules, content) ==
    {Finding(r.title, s, r.sev) : r \in Broken(rules, content)}

ReadFor(s, files, rules, next) ==
    /\ Look(s) /\ Goto(next, 1)
    /\ Report(Judged(s, rules, FirstOf(files)), {})
=============================================================================
