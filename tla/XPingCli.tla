------------------------------ MODULE XPingCli ------------------------------
(***************************************************************************)
(* One run of the xping command (xping/cli.py): main() dispatches to the   *)
(* interactive menu, list, diff or scan; the run_scan of cli.py starts the *)
(* spinner thread, runs the engine, stops the spinner, prints the terminal *)
(* report, writes the report and the remediation script (core/reporter.py) *)
(* and turns the overall risk into an exit code.                           *)
(*                                                                         *)
(* The main thread and the spinner thread share the terminal and the flag  *)
(* _running.  Ctrl+C raises KeyboardInterrupt wherever the main thread is. *)
(* The engine appears as its outcome, the one ScanEngine derives: a        *)
(* result, an Exception, or an exception that is no Exception.  The        *)
(* terminal has colours (without them the cursor is never touched), and    *)
(* the report and the script have different paths.                         *)
(***************************************************************************)
EXTENDS Integers

CONSTANTS
    Invocations,   \* what parse_args may have returned
    Risks,         \* the overall risks a scan may have
    QuitCodes,     \* the codes a plugin may give to sys.exit()
    MaxInterrupts  \* bound: how often Ctrl+C is pressed

Command == {"usage", "info", "menu", "list", "diff", "scan"}
File    == {"report", "fix"}

(***************************************************************************)
(* "usage" stands for what parse_args or main reject, "info" for --version *)
(* and --help.  "writes" is the set of files asked for: the report if the  *)
(* format is json, html or sarif, and the script of --generate-fix.        *)
(***************************************************************************)
ASSUME InvocationAssumption ==
    Invocations \subseteq [command : Command, writes : SUBSET File]
ASSUME OutcomeAssumption ==
    Risks \subseteq {"CRITICAL", "HIGH", "MEDIUM", "LOW"} /\ QuitCodes \subseteq Nat
ASSUME InterruptAssumption == MaxInterrupts \in Nat

VARIABLES
    invocation, \* the parsed arguments
    handler,    \* the try statement of main around the call, or "none"
    pc,         \* where the main thread is
    writes,     \* the files the scan under way has to write
    scan,       \* the engine's result, or NoScan
    files,      \* what is at each file's path
    exc,        \* the exception in flight, "quit" being SystemExit
    exit,       \* the exit code, -1 while there is none
    spinner,    \* how run_scan's use of the spinner stands
    running,    \* ScanProgress._running
    anim,       \* where the spinner thread is
    cursor,     \* the terminal's cursor
    line,       \* what the terminal's current line shows
    interrupts  \* number of Ctrl+C so far

control  == <<handler, pc, exc, exit, interrupts>>
data     == <<writes, scan, files>>
thread   == <<spinner, running, anim>>
terminal == <<cursor, line>>
vars     == <<invocation, control, data, thread, terminal>>

(***************************************************************************)
(* A result, as far as the report and the exit code tell two apart: its    *)
(* overall risk, and whether some finding's severity is no Severity.       *)
(***************************************************************************)
Scan   == [risk : Risks, malformed : BOOLEAN]
NoScan == [risk |-> "none", malformed |-> FALSE]

Init ==
    /\ invocation \in Invocations
    /\ handler = "none" /\ pc = "main" /\ exc = "none" /\ exit = -1
    /\ writes = {} /\ scan = NoScan /\ files \in [File -> {"absent", "old"}]
    /\ spinner = "off" /\ running = FALSE /\ anim = "none"
    /\ cursor = "shown" /\ line = "clean"
    /\ interrupts = 0

Goto(p)  == pc' = p /\ UNCHANGED <<exc, exit>>
Leave(c) == pc' = "leaving" /\ exit' = c /\ UNCHANGED exc
Raise(e) == pc' = "unwind" /\ exc' = e /\ UNCHANGED exit

-----------------------------------------------------------------------------
(***************************************************************************)
(* Main thread, up to run_scan.                                            *)
(***************************************************************************)
Dispatch ==
    /\ pc = "main"
    /\ \/ /\ invocation.command = "usage" /\ Leave(1)
          /\ UNCHANGED <<handler, writes>>
       \/ /\ invocation.command = "info" /\ Leave(0)
          /\ UNCHANGED <<handler, writes>>
       \/ /\ invocation.command = "menu" /\ Goto("prompt")
          /\ handler' = "menu" /\ UNCHANGED writes
       \/ /\ invocation.command \in {"list", "diff"} /\ Goto(invocation.command)
          /\ handler' = "command" /\ UNCHANGED writes
       \/ /\ invocation.command = "scan" /\ Goto("start")
          /\ handler' = "command" /\ writes' = invocation.writes
    /\ UNCHANGED <<invocation, interrupts, scan, files, thread, terminal>>

(***************************************************************************)
(* The menu.  Exit, help and the end of the input leave with 0, an unknown *)
(* option with 1; options 5, 6, 8 and 9 ask for one path, 7 for two.       *)
(***************************************************************************)
Prompt ==
    /\ pc = "prompt"
    /\ \/ (\E c \in {0, 1} : Leave(c)) /\ UNCHANGED writes
       \/ (\E p \in {"list", "pick", "start", "diff_path"} : Goto(p)) /\ UNCHANGED writes
       \/ Goto("path") /\ \E f \in File : writes' = {f}
    /\ UNCHANGED <<invocation, handler, interrupts, scan, files, thread, terminal>>

Pick ==
    /\ pc = "pick"
    /\ (\E c \in {0, 1} : Leave(c)) \/ Goto("start")
    /\ UNCHANGED <<invocation, handler, interrupts, data, thread, terminal>>

Path ==
    /\ pc \in {"path", "diff_path"}
    /\ Goto(IF pc = "path" THEN "start" ELSE "diff")
    /\ UNCHANGED <<invocation, handler, interrupts, data, thread, terminal>>

ListModules ==
    /\ pc = "list" /\ Leave(0)
    /\ UNCHANGED <<invocation, handler, interrupts, data, thread, terminal>>

\* What cmd_diff returns is the subject of ScanDrift.
Diff ==
    /\ pc = "diff" /\ \E c \in {0, 1, 2} : Leave(c)
    /\ UNCHANGED <<invocation, handler, interrupts, data, thread, terminal>>

-----------------------------------------------------------------------------
(***************************************************************************)
(* Main thread, run_scan.  progress.start() comes before the try statement *)
(* whose finally clause stops the spinner; the engine is inside.           *)
(***************************************************************************)
StartSpinner ==
    /\ pc = "start" /\ Goto("started")
    /\ spinner' = "on" /\ running' = TRUE /\ anim' = "hide"
    /\ UNCHANGED <<invocation, handler, interrupts, data, terminal>>

EnterTry ==
    /\ pc = "started" /\ Goto("engine")
    /\ UNCHANGED <<invocation, handler, interrupts, data, thread, terminal>>

EngineReturns ==
    /\ pc = "engine" /\ Goto("stop")
    /\ scan' \in Scan
    /\ UNCHANGED <<invocation, handler, interrupts, writes, files, thread, terminal>>

\* Faulty variant: no finally clause.
EngineRaises_Unguarded ==
    /\ pc = "engine" /\ pc' = "unwind"
    /\ \/ exc' = "error" /\ UNCHANGED exit
       \/ exc' = "quit" /\ exit' \in QuitCodes
    /\ UNCHANGED <<invocation, handler, interrupts, data, thread, terminal>>

EngineRaises ==
    /\ pc = "engine" /\ pc' = "stop"
    /\ \/ exc' = "error" /\ UNCHANGED exit
       \/ exc' = "quit" /\ exit' \in QuitCodes
    /\ UNCHANGED <<invocation, handler, interrupts, data, thread, terminal>>

(***************************************************************************)
(* stop(): clear the flag, wait for the thread up to a second, clear the   *)
(* line and show the cursor.                                               *)
(***************************************************************************)
ClearFlag ==
    /\ pc = "stop" /\ Goto("join")
    /\ running' = FALSE
    /\ UNCHANGED <<invocation, handler, interrupts, data, spinner, anim, terminal>>

\* Faulty variant: the join has no timeout.
Joined_Unbounded ==
    /\ pc = "join" /\ anim = "done"
    /\ spinner' = "stopped"
    /\ line' = "clean" /\ cursor' = "shown"
    /\ Goto(IF exc = "none" THEN "print" ELSE "unwind")
    /\ UNCHANGED <<invocation, handler, interrupts, data, running, anim>>

\* Faulty variant: stop() does not join at all.
Joined_AtOnce ==
    /\ pc = "join"
    /\ spinner' = "stopped"
    /\ line' = "clean" /\ cursor' = "shown"
    /\ Goto(IF exc = "none" THEN "print" ELSE "unwind")
    /\ UNCHANGED <<invocation, handler, interrupts, data, running, anim>>

Joined ==
    /\ pc = "join"
    /\ spinner' = IF anim = "done" THEN "stopped" ELSE "late"
    /\ line' = "clean" /\ cursor' = "shown"
    /\ Goto(IF exc = "none" THEN "print" ELSE "unwind")
    /\ UNCHANGED <<invocation, handler, interrupts, data, running, anim>>

(***************************************************************************)
(* print_terminal raises on a severity without a name.                     *)
(***************************************************************************)
PrintTerminal ==
    /\ pc = "print"
    /\ IF scan.malformed THEN Raise("error") ELSE Goto("save")
    /\ UNCHANGED <<invocation, handler, interrupts, data, thread, terminal>>

(***************************************************************************)
(* The report is written first, then the script, each in place: opening a  *)
(* file truncates it.                                                      *)
(***************************************************************************)
Pending == {f \in writes : files[f] # "complete"}
\* Faulty variant: the script first.
Current_Swapped == IF "fix" \in Pending THEN "fix" ELSE "report"

Current == IF "report" \in Pending THEN "report" ELSE "fix"

OpenFile ==
    /\ pc = "save" /\ Pending # {} /\ Goto("write")
    /\ files' = [files EXCEPT ![Current] = "partial"]
    /\ UNCHANGED <<invocation, handler, interrupts, writes, scan, thread, terminal>>

WriteFile ==
    /\ pc = "write" /\ Goto("save")
    /\ files' = [files EXCEPT ![Current] = "complete"]
    /\ UNCHANGED <<invocation, handler, interrupts, writes, scan, thread, terminal>>

\* Faulty variant: the exit code is decided before the script is written.
Decide_Early ==
    /\ pc = "save" /\ Leave(IF scan.risk = "CRITICAL" THEN 2 ELSE 0)
    /\ UNCHANGED <<invocation, handler, interrupts, data, thread, terminal>>

Decide ==
    /\ pc = "save" /\ Pending = {}
    /\ Leave(IF scan.risk = "CRITICAL" THEN 2 ELSE 0)
    /\ UNCHANGED <<invocation, handler, interrupts, data, thread, terminal>>

-----------------------------------------------------------------------------
(***************************************************************************)
(* Failures.  Reading the input (it may have ended or be undecodable),     *)
(* writing to a closed standard output, creating a directory and writing a *)
(* file may all raise an Exception; in stop(), in place of the one in      *)
(* flight.                                                                 *)
(***************************************************************************)
IOFails ==
    /\ pc \in {"main", "prompt", "pick", "path", "diff_path", "list", "start",
               "join", "print", "save", "write"}
    /\ Raise("error")
    /\ spinner' = IF pc = "join" THEN "abandoned" ELSE spinner
    /\ UNCHANGED <<invocation, handler, interrupts, data, running, anim, terminal>>

(***************************************************************************)
(* Ctrl+C.  Two prompts catch it and leave with 0, though not what comes   *)
(* before they read.  In the engine it runs the finally clause; between    *)
(* start() and the try statement, and inside stop() itself, the spinner is *)
(* abandoned.  Inside main's own handlers nothing catches it: the          *)
(* interpreter ends the process, with 130 too.                             *)
(***************************************************************************)
Interrupt ==
    /\ pc \notin {"leaving", "exited"} /\ interrupts < MaxInterrupts
    /\ interrupts' = interrupts + 1
    /\ CASE pc \in {"prompt", "pick"} -> Leave(0) \/ Raise("interrupt")
         [] pc = "engine" -> pc' = "stop" /\ exc' = "interrupt" /\ UNCHANGED exit
         [] pc = "unwind" -> Leave(130)
         [] OTHER -> Raise("interrupt")
    /\ spinner' = IF pc \in {"started", "stop", "join"} THEN "abandoned" ELSE spinner
    /\ UNCHANGED <<invocation, handler, data, running, anim, terminal>>

(***************************************************************************)
(* An exception leaves the call.  The command handlers of main show the    *)
(* cursor; the menu's handler, which knows Ctrl+C only, and the            *)
(* interpreter do not.  No handler catches SystemExit.  (What a handler    *)
(* prints is taken to reach the terminal.)                                 *)
(***************************************************************************)
\* Faulty variant: the code subprocess would report for the signal.
Handle_AsSignal ==
    /\ pc = "unwind"
    /\ \/ exc = "interrupt" /\ Leave(-2)
       \/ exc = "error" /\ Leave(1)
       \/ exc = "quit" /\ Leave(exit)
    /\ cursor' = IF handler = "command" /\ exc # "quit" THEN "shown" ELSE cursor
    /\ UNCHANGED <<invocation, handler, interrupts, data, thread, line>>

Handle ==
    /\ pc = "unwind"
    /\ \/ exc = "interrupt" /\ Leave(130)
       \/ exc = "error" /\ Leave(1)
       \/ exc = "quit" /\ Leave(exit)
    /\ cursor' = IF handler = "command" /\ exc # "quit" THEN "shown" ELSE cursor
    /\ UNCHANGED <<invocation, handler, interrupts, data, thread, line>>

\* The process ends, and with it the spinner thread, a daemon.
ProcessExits ==
    /\ pc = "leaving" /\ Goto("exited")
    /\ UNCHANGED <<invocation, handler, interrupts, data, thread, terminal>>

-----------------------------------------------------------------------------
(***************************************************************************)
(* The spinner thread, _animate.                                           *)
(***************************************************************************)
Alive == pc # "exited"

HideCursor ==
    /\ Alive /\ anim = "hide"
    /\ cursor' = "hidden" /\ anim' = "loop"
    /\ UNCHANGED <<invocation, control, data, spinner, running, line>>

CheckFlag ==
    /\ Alive /\ anim = "loop"
    /\ anim' = IF running THEN "frame" ELSE "show"
    /\ UNCHANGED <<invocation, control, data, spinner, running, terminal>>

DrawFrame ==
    /\ Alive /\ anim = "frame"
    /\ line' = "frame" /\ anim' = "loop"
    /\ UNCHANGED <<invocation, control, data, spinner, running, cursor>>

ShowCursor ==
    /\ Alive /\ anim = "show"
    /\ cursor' = "shown" /\ anim' = "done"
    /\ UNCHANGED <<invocation, control, data, spinner, running, line>>

-----------------------------------------------------------------------------
MainStep ==
    \/ Dispatch \/ Prompt \/ Pick \/ Path \/ ListModules \/ Diff
    \/ StartSpinner \/ EnterTry \/ EngineReturns \/ EngineRaises
    \/ ClearFlag \/ Joined \/ PrintTerminal \/ OpenFile \/ WriteFile \/ Decide
    \/ Handle \/ ProcessExits

Animate == HideCursor \/ CheckFlag \/ DrawFrame \/ ShowCursor

Exited == pc = "exited" /\ UNCHANGED vars

Next == MainStep \/ IOFails \/ Interrupt \/ Animate \/ Exited

Spec == Init /\ [][Next]_vars

(***************************************************************************)
(* The main thread is scheduled, the user answers the prompts and the      *)
(* engine comes back (ScanEnds of ScanEngine).  Nothing need fail for the  *)
(* command to end, and nothing is assumed of the spinner thread: stop()    *)
(* waits for it no longer than a second.                                   *)
(***************************************************************************)
FairSpec == Spec /\ WF_vars(MainStep)

-----------------------------------------------------------------------------
(***************************************************************************)
(* The type invariant of one run of the command.                           *)
(***************************************************************************)
TypeOK ==
    /\ invocation \in Invocations
    /\ handler \in {"none", "menu", "command"}
    /\ pc \in {"main", "prompt", "pick", "path", "diff_path", "list", "diff", "start",
               "started", "engine", "stop", "join", "print", "save", "write", "unwind",
               "leaving", "exited"}
    /\ writes \subseteq File
    /\ scan \in Scan \cup {NoScan}
    /\ files \in [File -> {"absent", "old", "partial", "complete"}]
    /\ exc \in {"none", "error", "interrupt", "quit"}
    /\ exit \in {-1, 0, 1, 2, 130} \cup QuitCodes
    /\ spinner \in {"off", "on", "stopped", "late", "abandoned"}
    /\ running \in BOOLEAN
    /\ anim \in {"none", "hide", "loop", "frame", "show", "done"}
    /\ cursor \in {"shown", "hidden"} /\ line \in {"clean", "frame"}
    /\ interrupts \in 0 .. MaxInterrupts

(***************************************************************************)
(* The gate of a CI pipeline: once a scan was started and no plugin called *)
(* sys.exit(), 0 means that a scan came back, was not CRITICAL, and that   *)
(* every file asked for is complete; 2 the same of a CRITICAL one; and the *)
(* code is one of the four documented (cli.py:673-676, README.md:151-156). *)
(***************************************************************************)
ExitCodeFaithful ==
    pc = "exited" /\ spinner # "off" /\ exc # "quit" =>
        /\ exit \in {0, 1, 2, 130}
        /\ exit = 0 => scan.risk \in Risks \ {"CRITICAL"}
        /\ exit = 2 => scan.risk = "CRITICAL"
        /\ exit \in {0, 2} => \A f \in writes : files[f] = "complete"

(***************************************************************************)
(* A report torn by a failure or by Ctrl+C is never left behind unnoticed: *)
(* the exit code says so, and the script, written after the report, exists *)
(* only beside a complete one (reporter.py:140-149, cli.py:660-671).       *)
(***************************************************************************)
NoTornFilePasses ==
    /\ pc = "exited" /\ (\E f \in File : files[f] = "partial") => exit \in {1, 130}
    /\ files["fix"] \in {"partial", "complete"} /\ "report" \in writes =>
           files["report"] = "complete"

(***************************************************************************)
(* Once stop() has seen the spinner thread end, the report is printed on a *)
(* clean line, under a visible cursor, and no frame is drawn into it any   *)
(* more (cli.py:406-411 against 416-430).                                  *)
(***************************************************************************)
QuietReport ==
    pc \in {"print", "save", "write"} =>
        /\ spinner \in {"stopped", "late"}
        /\ spinner = "stopped" => anim = "done" /\ line = "clean" /\ cursor = "shown"

(***************************************************************************)
(* The command gives the cursor back, failed or interrupted or not, except *)
(* where stop() itself is cut short, where Ctrl+C falls just before the    *)
(* try statement, or where the spinner thread outlives the join            *)
(* (cli.py:629-644, 889-897).                                              *)
(***************************************************************************)
CursorRestored ==
    pc = "exited" /\ cursor = "hidden" => spinner \in {"late", "abandoned"}

(***************************************************************************)
(* The inductive invariant behind the theorems of XPingCli_proofs: where   *)
(* the main thread is says how its use of the spinner stands and what that *)
(* leaves of the terminal (SpinnerInv), which exception is in flight, and  *)
(* what an exit code rests on (OutcomeInv); files are written only after a *)
(* scan that came back, in order, and at most one of them is torn          *)
(* (FilesInv).                                                             *)
(***************************************************************************)
BeforeScan == {"main", "prompt", "pick", "path", "diff_path", "list", "diff", "start"}

SpinnerInv ==
    /\ pc \in BeforeScan => spinner = "off"
    /\ pc \in {"started", "engine", "stop", "join"} => spinner = "on"
    /\ pc \in {"print", "save", "write"} => spinner \in {"stopped", "late"}
    /\ pc \in {"unwind", "leaving", "exited"} => spinner # "on"
    /\ spinner = "off" => anim = "none" /\ cursor = "shown"
    /\ spinner = "stopped" => anim = "done" /\ line = "clean" /\ cursor = "shown"

OutcomeInv ==
    /\ pc \notin {"stop", "join", "unwind", "leaving", "exited"} => exc = "none"
    /\ pc = "unwind" => exc # "none"
    /\ pc \in {"stop", "join", "print", "save", "write"} /\ exc = "none" => scan \in Scan
    /\ pc \in {"leaving", "exited"} =>
          /\ exc \in {"error", "interrupt"} => exit \in {1, 130}
          /\ exc = "none" /\ spinner # "off" =>
                 /\ scan \in Scan /\ Pending = {}
                 /\ exit = IF scan.risk = "CRITICAL" THEN 2 ELSE 0

FilesInv ==
    /\ pc = "write" => Pending # {}
    /\ \A f \in File :
          /\ files[f] \in {"partial", "complete"} =>
                 /\ pc \in {"save", "write", "unwind", "leaving", "exited"}
                 /\ spinner # "off" /\ exc # "quit"
          /\ files[f] = "partial" =>
                 /\ pc = "write" \/ exc \in {"error", "interrupt"}
                 /\ f = Current
    /\ files["fix"] \in {"partial", "complete"} /\ "report" \in writes =>
           files["report"] = "complete"

CliInv == SpinnerInv /\ OutcomeInv /\ FilesInv

(***************************************************************************)
(* The command ends whatever the spinner thread does (cli.py:409).         *)
(***************************************************************************)
CommandEnds == <>(pc = "exited")
=============================================================================
