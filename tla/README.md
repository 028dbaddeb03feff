# A verification development for X-Ping

X-Ping (`src/xping`) is a command-line security auditor. It loads scan modules,
runs them on a thread pool, prints and writes a report, and compares the reports
of two scans. This directory models that program in TLA+, model-checks the models
with TLC on small instances, and proves the most important properties with TLAPS
for every value of the constants.

Line references are to the repository's files; `engine.py`, `reporter.py` and
`models.py` are those of `xping/core`.

## 1. Inventory

| Component | State | Operations | Talks to |
|---|---|---|---|
| Module discovery, `engine.py` | registry; `sys.path` and `sys.modules` of the process | `_discover_modules`, `list_modules` | the files of `xping/modules` and of a plugin directory |
| Argument parser, `cli.py` | index, `ParsedArgs`, files of the drift comparison | `parse_args` | the command line |
| Scan engine, `engine.py` | requested names, `max_workers`, threshold; in `run_scan`: selected modules, futures, results | `_get_modules_to_run`, `run_scan`, `_run_single_module` | pool (submit, futures), modules (`is_available`, `run`) |
| Thread pool (`concurrent.futures`, external) | work queue, threads, futures | `submit`, `as_completed`, `shutdown(wait=True)` | the engine's main thread and its own threads |
| Data models, `models.py` | none (records) | severity order, counts, `overall_risk`, `to_dict` | everything |
| Command line, `cli.py` | the parsed arguments; exit code | `main`, `interactive_mode`, `interactive_module_select`, `run_scan`, `cmd_list` | engine, spinner, reporter, user |
| Progress spinner, `cli.py` | `_running`, a daemon thread; the terminal | `start`, `stop`, `_animate` | the terminal the report is printed on |
| Report writers, `reporter.py` | the files they write in place | `print_terminal`, `generate`, `write_json`, `write_html`, `write_sarif` | file system |
| Remediation script, `reporter.py` | the script | `generate_remediation_script` | file system; later bash |
| Drift comparison, `reporter.py`, `cli.py` | two report files | `compare_scans`, `cmd_diff` | reports other processes may be writing |
| Helpers, `utils/helpers.py` | none; processes that outlive their call | `run_cmd`, `read_file_safe`, `file_permissions_octal`, parsers | subprocesses, files |
| `netaudit` | one result | listening ports, connections, packet filter, DNS, interfaces, ARP | `ss`/`netstat`, `iptables`, `nft`, `ip`, files of `/proc` |
| `hardening` | one result | kernel parameters, SELinux and AppArmor, core dumps, USB, mounts, time, boot loader, services, updates | `systemctl` and others, `/proc/sys`, `/etc` |
| `secaudit` | one result | SUID and capabilities, world-writable files, `sshd_config`, sudo, PAM, passwords, sensitive files | `find`, `getcap`, files and their modes |
| `loganalyzer` | one result | authentication and system logs, last logins, tampering | files that `logrotate` renames meanwhile |
| `container` | one result | sockets and ports of the runtime, the container itself, cloud credentials and metadata | `ss`, `curl`, files and their modes |
| `redteam` | one result | what the user may write and run, container escape, readable credentials, kernel version | `sudo`, `readlink`, `uname`, files and their rights |
| `sysrecon` | one result | accounts, processes, cron jobs, environment, inventory | `ps`, `crontab`, `lsmod`, `mount`, files |
| Logger, entry points, packaging | logging configuration | | |

What is hard, and what correctness means for each:

* **Engine and pool.** Jobs move between a submitting thread, a queue and several
  workers; modules fail in five different ways; Ctrl+C hits the main thread
  anywhere, also inside the waiting shutdown. Correct: one result for every
  request, every submitted job carried out, no finding lost in silence, a published order
  that does not depend on timing, failure only for a cause, and no partial report.
* **Command line and spinner.** Two threads share the terminal and a flag; the join
  has a timeout; Ctrl+C is handled in five places with different codes. Correct:
  the exit code, which a CI pipeline gates on, means what `README.md:149-158` says;
  files are whole or the code says so; the terminal is given back.
* **Start.** One hand-written loop, with a second one inside, reads the command line;
  modules come from files that may fail half way, replace each other, or leave with
  `sys.exit()`. Correct: every token is used once and as documented, what the user asked
  for is what runs, a broken file costs its own modules only, and the process's
  `sys.path` is given back.
* **Drift.** Reports are written in place, beside a reader. Findings are compared by a
  key that need not identify them, and a report says less than what the host has.
  Correct: the gate fails exactly for new findings, and nothing is called resolved
  without a reason.
* **Modules and helpers.** A dozen checks ask one question after the other of a machine
  that changes; commands hang, their timer kills a shell and not what the shell started,
  and a timeout looks like an empty answer; remediation and check are written apart.
  Correct: the run ends; what was true of the machine throughout is reported, and what
  is reported was true at some time; the absence of a protection is reported whatever
  fails; a remedied finding does not come back; a rule decides what its comment says.

`PROJECT.json` lists every component with its status and every hazard with the line
where it bites and the properties aimed at it.

## 2. Modules

### ScanModels: `models.py`
Stateless: the severity scale, the threshold filter of `engine.py:168-172` with the
condition under which it raises, the counts and `OverallRisk`. A finding is a record
in a set (title, evidence and remediation only tell two findings apart). One integer
outside the scale, `Unordered`, stands for any value a plugin may store that cannot
be compared with a `Severity`.

### ModuleScan: the promise of `run_scan`
The abstract specification: a plan is made, each planned module comes to exactly one
verdict, the report is published at most once, complete, and holds each verdict's
entry and nothing else; or the scan fails and publishes nothing. No threads, queue or
futures.

### ScanEngine: `run_scan`, `_get_modules_to_run`, `_run_single_module`, and the pool

| Action | Code |
|---|---|
| `SelectModule`, `ConstructorRaises` | `_get_modules_to_run`, one requested name a step |
| `NothingToRun`, `OpenPool` | the early return and the pool's constructor, which refuses `max_workers <= 0` |
| `Submit`, `Spawn`, `Register` | the dictionary comprehension of `pool.submit` calls (`engine.py:242-245`): the job is queued, a thread started, the thread noted to be joined |
| `Collect`, `AllCollected` | the `as_completed` loop with its `except Exception` |
| `PoolJoined` | leaving the `with` block: `shutdown(wait=True)` |
| `SortResults`, `SortRaises` | the sort by module name and the return, or its `TypeError` |
| `Interrupt` | Ctrl+C in the main thread |
| `TakeJob`, `RunModule`, `ThreadExits` | one thread of the pool; what a job leaves in its future is `RunSingleModule` |

Job *j* is the *j*-th selected instance: two requests of one name are two jobs. Names
are numbers, their place in Python's string order; `Nameless` stands for a `module_name`
that is no string. A module may be unavailable, return findings, raise an `Exception`,
raise one whose text cannot be rendered, so that the handler of `_run_single_module`
raises in turn, do the same so that the handler in `run_scan` (`engine.py:252`) raises
too ("unspeakable"), or raise something that is no `Exception`. A result carries its
module's own name, or a label of the module's choice: another module's name, or one the
sort cannot compare. The history variable `behaved` remembers all this, so that
properties can relate the report to what really happened. The pool is modelled from how
`run_scan` uses it, and no property is about the pool itself; whether `submit` starts a
thread depends on an idle semaphore that may lag, so both are allowed whenever a thread
exists. Ctrl+C may fall inside `pool.submit`. `cut` remembers what that leaves behind:
the first job queued in a pool without a thread (`unserved`), or a thread at work that
the exit of the `with` block does not join (`unjoined`). The code can prevent neither;
`SubmittedIsCarriedOut` and `DrainedBeforeLeaving` name them as their exceptions.

### ParseArgs, ModuleDiscovery, Startup: from the command line to the modules of a scan
`ParseArgs` is the token loop of `parse_args`, one token a step:

| Action | Code |
|---|---|
| `TakeSwitch`, `TakeValue` | a known flag, without and with a value (`cli.py:231-247`) |
| `TakeCommand`, `TakeFile`, `EndOfFiles` | a command; the inner loop over the files of `diff` |
| `RefuseToken`, `Validate` | the `sys.exit(1)` calls; the checks of format and severity |

A token is a record of what it is (flag, command, other text, other text with a dash) and
its text; a flag's text is the attribute it sets, so that its spellings are one token.
Beside the loop stands the *grammar*: a reading gives each token a role by the role of
the token before it (`FitsAt`), and `Gives`, `Names` and `Collects` say what a read line
means, without a loop. `ReadByGrammar` relates the two.

`ModuleDiscovery` is `_discover_modules`: the files in order (`ImportFile`), the classes
of each (`RegisterClass`, `FileDone`), then, with a plugin directory, its listing and
its files (`ListPlugins`, `RestorePath`). Any import, class or listing may fail;
`sys.exit()` goes past the handlers to the `finally` clause. `Registered` is the
assignment to the dictionary, which keeps an old key's place. Which classes a file has,
and which plugins are shadowed by modules Python has imported, are constants.

`Startup` composes the two: `main` dispatches (`Answer`, `OpenMenu`, `List`, `Diff`,
`Scan`, `ScanOfNothing`), the menu and its selection prompt (`MenuMakesEngine`,
`ShowSelection`, `Pick`) make one engine after the other, each of which discovers anew
(`MakeEngine`, `Import`); `LookUp` looks the requested names up one by one, and `SelectModules`
returns what was found. It ends where the
others start: at the scan of ScanEngine, at the comparison of ScanDrift, or with an exit
code. Ctrl+C and a closed terminal are left to XPingCli.

### XPingCli: one run of the command
Both threads of the process: `main`, the menu, `run_scan` of `cli.py` and the two
writers in the main thread, `_animate` in the spinner thread; Ctrl+C and I/O failures
wherever the code can meet them. `spinner` is a history variable: whether the spinner
was never started, runs, was joined (`stopped`), outlived the join's one second
(`late`), or was abandoned because Ctrl+C or a closed output cut `stop()` short. The
engine appears as its outcome, the one ScanEngine derives; `cmd_diff` as its three exit
codes. Assumed: the terminal has colours (otherwise the cursor is never touched), the
report and the script have different paths, and what main's handlers print reaches the
terminal.

### ScanDrift: `compare_scans` and `cmd_diff` beside writers
Any number of scans write the two paths in place (open truncates, so the file is torn
until the writer is done, for good if it fails) or someone removes them, between any
two steps of `cmd_diff`. A report carries, as history, the issues its host had, the
modules that ran to their end and the threshold; the findings in it follow from those.
Which of several findings under one key the dictionary keeps is left open.

### RemediationScript: `generate_remediation_script` and the shell that runs its output
A remediation text is a sequence of lines, each told apart by the form the generator
looks for (`chmod`, `chown` or `sysctl`; `sudo`; anything else). The generator adds one
finding a step: its title and its note, of each of which only the first line is behind a
comment sign (`reporter.py:553-554`), then its recognised lines. Of a title only the number
of its lines matters: titles name files and variables of the host, whose names may hold a
newline. The head of the script quotes host name and time, taken for one line each. The file may be torn, where XPingCli says so. The shell, external,
follows the script's own options: it starts only as root, any line may fail, and
`set -e` makes a failing line the last. `ran` is the history of lines that took effect.

### CheckRun, the seven scan modules, and HostScan: a module at work on a machine
`CheckRun` is what the modules' `run()` share: `run_cmd`, `read_file_safe`, and the form of
a check. The machine is a record, `host`, of what the checks can see of it; an answer is
the set of the facts a rule tells apart, so that `None` and `""` are both `{}`, as they
are to every caller. `run_cmd` is five actions:

| Action | Code |
|---|---|
| `RunCmd` | `subprocess.run` is called (`helpers.py:109`) |
| `Completes`, `Raises` | the command ends by itself; it could not be started or decoded |
| `Hangs`, `TimeoutExpired`, `Reaped` | it does not end; the timer goes off, `run` kills the shell and waits for it alone; `(None, text, -1)` is returned |
| `OrphanEnds` | what the shell had started, and the kill did not reach, ends |

`step` is the place in `run()` and `i` the place in the list a loop goes through there;
`held` is what a check keeps in a local variable across a command. A place whose name is
in `Questions` is a call of `run_cmd`: `Decide(q)` takes the answer and goes on. `Look(s)` is
a check, or the part of one, that only reads. One file system access is one step where
the code tests for a file and then opens or `stat`s it, so that the file may go in between.

| Module | Actions, in the order of `run()` |
|---|---|
| `NetAudit` | `NetAvailable`, `CheckListeningPorts`, `CheckActiveConnections`, `CheckIptables`, `CheckNft`, `CheckDns`, `CheckInterfaces`, `CheckArp` |
| `Hardening` | `CheckKernelParam` and `KernelTally`, `CheckSELinux`, `CheckAppArmor`, `CheckSuidDumpable`, `CheckLimits`, `CheckUsbStorage`, `CheckMountOptions`, `CheckNtp` and `CheckTimedatectl`, `CheckBootloader`, `CheckService`, `CheckApt` and `CheckUpdater` |
| `SecAudit` | `CheckSuidSgid`, `CheckWorldWritable`, `CheckSshConfig`, `CheckSudo`, `CheckPam`, `CheckPasswordPolicy`, `CheckCapabilities`, `SensitiveExists`, `CheckPermissions` and `CheckOwner`, `CheckUnownedFiles` |
| `LogAnalyzer` | `LogAvailable`, `FindAuthLog` and `CheckAuthLogs`, `FindSyslog` and `CheckSystemLogs`, `CheckLastLogins`, `LogThere`, `CheckEmpty` and `CheckShort` |
| `Container` | `SocketThere` and `CheckSocket`, `CheckDockerTcp`, `CheckEnvironment` and `CheckPrivileged`, `CloudThere` and `CheckCloudFile`, `CheckImds` |
| `RedTeam` | `CheckWritablePath`, `CheckSudoPrivesc`, `CheckDockerSocket`, `CheckInside`, `CheckDevices`, `ReadPid1` and `ComparePid`, `CheckCredentialFile`, `CheckHistory`, `CheckWritableServices`, `CheckLibraries`, `CheckKernelExploits`, `CheckCron` |
| `SysRecon` | `ReadKernel`, `ReadUptime` and `CheckOsInfo`, `CheckAccounts` and `CheckShadow`, `CheckProcesses`, `ReadCronFiles` and `CheckCronScripts`, `CheckKernelModules`, `CheckMounts`, `CheckEnvironmentVariables` |

`HostScan` puts one of the seven on a machine that changes (`MachineChanges`, within a
family of machines), with commands that hang, and lets the administrator carry out
remediations and scan again (`Remedy`, `Rescan`): `Fixed(f, h)` is what the remediation of
finding `f` makes of machine `h`. `seen` is the history of what the machine has been since
the scan began, `unanswered` that of the questions without an answer. `Truth(h)` says,
without any check, what is the matter with a machine, and `NothingMissed` says that it is
found; the comment above `Truth` lists what it leaves out. What was true all along may be
missed in one case only: a script that has `Moved` between the user's crontab and the cron
files is, each time one of them is read, in the other.

`NothingInvented` goes the other way and has two parts. `ClaimsAreTrue` is about every
title but those of `Inventories`, which count or list what is there, of `Absences`, which
`AbsencesAreTrue` is about (where every command answers and root scans), and the two with
properties of their own (`permissive`, `bruteForce`). Such a finding is in the `Truth` of a machine the scan has seen,
or `Noted` of one (what the checks report beyond `Truth`), or it is `Mistaken` or `Stitched`.
`Mistaken` are nine things the checks take for something else: `[::1]` for all addresses,
one neighbour on two interfaces for two, the process in the fifth column of `ss` for a
peer, a machine without SELinux for one without AppArmor, a set-group-id binary for a
set-user-id one (`secaudit.py:109-129`), the last of several directives for sshd's first,
a command sudo denies for one it allows, `rsync` for `nc`, and a container with a PID name
space of its own for one that shares the host's. `Stitched` are four findings two
looks put together on a machine that changes between them.

`Machine(h)` is the type of
what the checks of all modules can see of a machine.

A finding is its kind, what it is of and its severity; title, evidence and remediation
text are wording. A mode is the set of its nine bits, and `Octal` the number the code
compares. A log is a sequence of classified lines. The one finding on brute force is of two
sets of addresses: those its evidence names, the worst of them up to `EVIDENCE_LIMIT`, those
with equal failures in the order of their first; and those its remediation tells to block,
the first `BLOCK_LIMIT` to fail.

### MC modules
`MCScanEngine`, `MCStartup`, `MCXPingCli`, `MCScanDrift`, `MCRemediationScript` and `MCHostScan` extend the specifications with the values
the `.cfg` files substitute for the constants. No definition is replaced.

## 3. Runs

| Run | Configuration | Expected | What it shows | Checks |
|---|---|---|---|---|
| engine | `ScanEngine.cfg` on `MCScanEngine` | pass | Three jobs on pools of 0 to 3 threads, any interleaving, up to two Ctrl+C, also inside pool.submit, and modules whose results have any name: no result is lost, doubled or misplaced, failures have a cause, the pool is left drained, every behaviour is one of ModuleScan, and under fair scheduling the scan, its threads and every submitted job come to their end. | `TypeOK`, `OneResultPerModule`, `EveryRequestAnswered`, `OrderIndependentOfCompletion`, `FailureHasCause`, `DrainedBeforeLeaving`, `KeepsPromise`, `ScanEnds`, `SubmittedIsCarriedOut` |
| engine_filter | `ScanEngineFilter.cfg` on `MCScanEngine` | pass | Two modules that report any set of findings, one of them malformed, at four thresholds: nothing at or above the threshold vanishes silently and the threshold cannot move the CRITICAL gate. | `NoSilentLoss`, `ThresholdKeepsTheGate` |
| engine_quit | `ScanEngineQuit.cfg` on `MCScanEngine` | violation | A module that calls sys.exit() ends the whole scan, although the engine's documentation says that no module can. | `ModuleNeverFailsTheScan` |
| cli | `XPingCli.cfg` on `MCXPingCli` | pass | Every invocation and menu path, both threads, I/O failures and up to two Ctrl+C anywhere: exit codes are faithful, no torn file passes, the report is printed on a quiet terminal, the cursor comes back and the command ends. | `TypeOK`, `ExitCodeFaithful`, `NoTornFilePasses`, `QuietReport`, `CursorRestored`, `CommandEnds` |
| drift | `ScanDrift.cfg` on `MCScanDrift` | pass | Two reports of any two hosts, scans and outcomes, written or removed while xping diff runs: the gate is sound and complete key for key, nothing is resolved without a reason, and between comparable reports the drift is the truth. | `PassMeansNothingNew`, `ResolvedIsExplained`, `HonestWhenComparable` |
| drift_resolved | `ScanDriftResolved.cfg` on `MCScanDrift` | violation | A finding whose module crashed, was deselected or was filtered in the current scan is listed as resolved although it is still there. | `ResolvedMeansFixed` |
| drift_added | `ScanDriftAdded.cfg` on `MCScanDrift` | violation | A new finding that shares module, title and severity with an old one is not added, and the gate passes. | `NewFindingIsAdded` |
| remediation | `RemediationScript.cfg` on `MCRemediationScript` | pass | Up to two findings of any severity with titles and texts of up to two lines of any form, a script written whole or torn, and a shell in which any line may fail: the closing message is true, lines take effect in the report's order, and a finding of one-line texts gives the shell nothing but its command, whatever another one spills. | `AnnouncedMeansApplied`, `AppliedInReportOrder`, `OneLineIsSafe` |
| remediation_lines | `RemediationScriptLines.cfg` on `MCRemediationScript` | violation | A remediation text of two lines, as two built-in modules give it, puts its second line into the script as a command. | `OnlyCommandsRun` |
| startup | `Startup.cfg` on `MCStartup` | pass | Every short command line, every order and failure of the files imported, and the menu, down to the modules a scan starts with: the line is read by its grammar, the registry holds each name with the class loaded last, a failing file takes no other with it, sys.path is restored, a scan runs what it was asked for, and all this ends. | `TypeOK`, `ReadByGrammar`, `RegistryIsLastLoaded`, `FailureContained`, `PathRestored`, `RunsWhatWasAsked`, `StartupEnds` |
| host | `HostScan.cfg` on `MCHostScan` | pass | The seven modules, each at work on machines that change once while a command hangs or fails, and again after a remediation: a protection that is missing is always reported, a scan whose commands answer misses nothing, what is claimed was true but for the mistakes named, a remedied finding does not return, the brute force finding names whom it should, and the run ends although nothing says that a command does. | `TypeOK`, `AbsenceIsReported`, `NothingMissed`, `NothingInvented`, `RemediationHolds`, `FlaggedIsMorePermissive`, `BruteForceExact`, `HostScanEnds` |
| host_permissions | `HostScanPermissions.cfg` on `MCHostScan` | violation | A sensitive file that everybody may read is not called overly permissive as long as its mode is the smaller number. | `MorePermissiveIsFlagged` |

Bounds and why they are enough:

* **Engine.** Three jobs on pools of 0 to 3 threads: fewer, as many and as many threads
  as jobs, plus the refused size. Three jobs are the least at which a job can wait in
  the queue while two others run and finish in either order. `MaxInterrupts = 2`:
  the second Ctrl+C is the one that can cut the waiting shutdown short; a third finds
  the main thread already gone. The labels are another module's name and `Nameless`. Requests cover the default, unknown names only, a
  name under two spellings, and known and unknown mixed.
* **Filter.** Two modules report any subset of a CRITICAL, a LOW and a malformed finding
  at thresholds 0, 1, 3 and 4: below, at and above each, and with the filter off.
* **Start.** Every line of up to four of six tokens and up to three of eleven: four are
  the least for a flag, its value, a flag that ends the files of `diff` and one more
  token; longer lines add plugins and repeated flags. Two built-in files, one with two
  modules, and two plugins in either order, of which one replaces a built-in module and
  one is shadowed. Any of them may fail anywhere. At most `MaxPicks = 2` modules are
  picked in the menu: the least that can repeat or reorder names.
* **Command line.** Every command and menu path, every set of requested files, both
  classes of risk (CRITICAL or not), plugins' exit codes 0 and 3, two Ctrl+C. A third
  Ctrl+C meets only states in which the second left the process.
* **Drift.** Four issues, two of which share a key and one of which shares a title
  across modules, two modules, two thresholds and two writes. Two writes are what two
  reports need; both may still be under way, torn or removed while the diff reads.
  That a third scan overwrites a report already read is left to the proof, which has
  no bound.

* **Remediation.** Two findings of any severity (also a malformed one) with texts of no,
  one and two lines of each form, and titles of one and two lines: the least at which a line can spill, a failing line can
  hide a later finding, and order can go wrong.

* **Machines.** Per module a few families of machines, each of which differs from a machine
  with next to nothing to report in one respect, or in the few that a check looks at
  together: both packet filters, both means of access control, every order of two
  `sshd_config` lines, every mode on both sides of the numeric comparison, both logs in
  each length up to one more than is read. `MaxChanges = 1`: the least at which two reads
  of one check can disagree. `MaxFaults = 1`: one command hangs or fails; two silences
  differ from one in nothing the checks keep, but for the absence of protections, which
  the proof covers for any number. `MaxRemedies = 1`: remediations touch disjoint parts
  of the machine. `BRUTE_FORCE_THRESHOLD = 2`, `MAX_LOG_LINES = 4`, `EVIDENCE_LIMIT = BLOCK_LIMIT = 1`: all
  four are crossed, the second by a log that shows an address only in a line that is not read.

Deadlock is checked in every run: a finished scan, command or diff has an explicit
stuttering step, so a deadlock would be a real one.

### Fairness
* `ScanEngine!FairSpec`: the operating system schedules the main thread and the pool's
  threads, the queue wakes a waiting thread, and a module that was started comes back.
  The last is justified for the built-in modules, which are finite loops over commands
  that run with a timeout. Nothing in the code bounds a plugin, so `ScanEnds` says
  nothing about one that hangs.
* `Startup!FairSpec`: the main thread runs and the user answers the menu. Every loop is
  over a list that does not grow; a file that hangs while it is imported is excluded.
* `XPingCli!FairSpec`: the main thread alone. The user answers prompts and the engine
  comes back (`ScanEnds`). Nothing is assumed of the spinner thread: the command has
  to end without it, and does because the join has a timeout.

* `HostScan!FairSpec`: the module's thread runs, the timer of `subprocess.run` goes off, and
  a command that does not hang ends. Nothing is assumed of what a killed shell leaves
  behind, of the administrator or of the machine. `HostScanEnds` follows because the code
  waits for the shell alone: in the mutant, in which it waits until nobody has the pipe
  open, it fails.

### Disagreements between code and documentation
The runs with expectation *violation* show each of these; `PROJECT.json` quotes both
sides.

* **ModuleNeverFailsTheScan** (run `engine_quit`, core/engine.py:183): engine.py:12 says "Each module runs in isolation; a crash in one module never kills others" and engine.py:145-146 that a crash "never propagates exceptions to the engine". _run_single_module catches Exception only (line 183): a SystemExit raised in run() is kept by the future, re-raised by future.result() (line 249), missed by the handler at line 251, and ends run_scan without any report; the results of all other modules are lost.
* **ResolvedMeansFixed** (run `drift_resolved`, core/reporter.py:603): reporter.py:586 says "resolved_findings:    Findings in baseline but fixed in current". compare_scans takes every baseline key that is missing from the current report (line 603) and never looks at the report's "errors", "skipped" or list of modules: a finding whose module crashed, was skipped or was not selected in the current scan, or that a higher --severity filtered out, is listed as resolved and cmd_diff exits with 0.
* **NewFindingIsAdded** (run `drift_added`, core/reporter.py:590): reporter.py:585 says "added_findings:       Findings in current but not in baseline". The key is (module, title, severity) (line 590), and titles need not name what the finding is about: secaudit gives every sudo rule of its kind the title "Sudo: NOPASSWD ALL Rule" (secaudit.py:302), CRITICAL. A second such rule, for another user, is not added, and cmd_diff exits with 0.
* **OnlyCommandsRun** (run `remediation_lines`, core/reporter.py:554): reporter.py:556 says "Extract shell command lines if remediation specifies commands", and line 554 means the whole text to be a comment ("# Remediation note: {f.remediation}"). The text is put behind one comment sign as it is: from its second line on it is no comment. loganalyzer.py:170-174 (CRITICAL, "1. Install and configure fail2ban\n2. Block these IPs: ...") and redteam.py:222-225 ("Remove current user from docker group.\nUse rootless Docker ...") give such texts: the shell is handed "2. Block these IPs" as a command, fails, and set -e leaves out every remediation that follows.
* **MorePermissiveIsFlagged** (run `host_permissions`, modules/secaudit.py:443): secaudit.py:439 says "Check if permissions are MORE permissive than expected". The octal modes are compared as numbers (line 443), which compares their highest differing digit only: /etc/shadow with mode 0604, or 0606, is readable by everybody, but 0604 < 0640, and no finding is made of it.

Noticed while modelling, and stated by no property, because what was meant is a question to
the authors or a matter of the machine outside:

* `README.md:154` lists missing modules under exit code 1, and `:156` Ctrl+C under 130: a scan
  of unknown names only exits with 0, and so does Ctrl+C at either prompt of the menu
  (`cli.py:473`, `:547`).
* parser: the docstring of `parse_args` (`cli.py:197`) says that it handles "key=value style",
  but a token is never split at an equals sign: `--format=json` is an unknown flag and ends
  the program with 1. `README.md:132` calls `--output` "required for json/html/sarif", but
  such a line is accepted without it (272-282) and `generate` makes up a name in the working
  directory (`reporter.py:441-447`). `ReadByGrammar` is about the grammar of the code and
  holds of both lines, which are among those of the run.
* netaudit: told to show one state, `ss` prints no column for it, so that the fifth column
  is the process, and the heading counts as an external connection (line 173; an exception
  of `NothingInvented`); of netstat's listening sockets it is the peer (117).
* hardening: SELinux that is disabled ends the check without a look at AppArmor (216);
  kernel values stricter than the expected ones are reported, and loosened by the
  remediation.
* secaudit: of several `sshd_config` lines sshd takes the first, the check the last; the
  search for SUID files finds SGID ones, which `chmod u-s` leaves as they are; the title of
  the finding on capabilities follows the order of a set (410-414) and others carry
  counts, so that `compare_scans` takes an old finding for a new one.
* loganalyzer: of a log longer than 50,000 lines the first are read, which are the oldest
  (`helpers.py:158`); `BruteForceExact` is about the lines read.
* redteam: "Container shares the host PID namespace" (265) is said of every container: the
  name space of process 1 is compared with that of the scan (259-262), and they are the
  same also in a container that has its own (an exception of `NothingInvented`); `psql -U` and the wildcards in
  the list of history words cannot be found in lower-case lines (347); the pattern for
  private keys has no OpenSSH one (57).
* container: `/var/run` is a link to `/run`, so that the Docker socket is reported twice
  (52); `chmod 660` on a world-writable socket leaves it group-writable, which is the next
  finding; which marks show a container differs from redteam's.
* sysrecon: the module's description names hidden processes (line 10), for which there is
  no check.
* A plugin's result may carry any `module_name`: another module's, under which its findings
  are then reported, or none, which lets the sort fail and with it the scan of all
  (`engine.py:259`); an exception without a text may do the same (252). `FailureHasCause`
  lists both as causes.
* A plugin named like a module Python has imported (`json.py`) is answered from
  `sys.modules` (`engine.py:111`); names typed in the menu are not made lower-case for
  the first test (`cli.py:571`); `README.md:318` and `:320` promise that timeouts are logged
  and 30 seconds strict, while some commands have 60.

## 4. Proofs

Each specification has its theorems in a module `*_proofs`. They hold for all values of
the constants that satisfy the named assumptions of the specification.

**ScanEngine_proofs.** The properties of the returned report are not inductive: they
speak of the last state, and nothing in that state says how the results came there.
`EngineInv` adds what does. `JobInOnePlace` says where each job is; `OutcomeInv` that each
settled future holds what `_run_single_module` makes of its module's behaviour;
`ReportInv` that `results` are the entries of the futures yielded so far, each once; and
`PhaseInv` that how far the main thread has come determines which futures those are and
why an exception is in flight. From it follow `ReturnsComplete`, `FailsForACause`,
`LosesNothingSilently` and `ImplementsModuleScan`; with `PoolInv` (threads end only after the
pool was shut and drained, and what Ctrl+C inside `submit` may leave behind) also
`LeavesPoolDrained`. Both are lemmas about the pool and no results of their own. Three
properties count or compare whole sequences. `SelectInv` says that the jobs made so far and
the names still asked for are together the names wanted, name by name, of which
`EveryRequestAnswered` is the end; `SortedInv` that the results handed over are sorted; and
`ThresholdKeepsTheGate` rests on `RiskIsCritical`, that a risk is critical if and only if
some finding is, which a filter up to CRITICAL cannot change. The
assumptions are those named in `ScanEngine.tla`: the registry has no name twice, sizes
are integers, thresholds severities, every finding's severity a severity or `Unordered`.

**XPingCli_proofs.** `CliInv` is inductive together with `TypeOK`. Its three parts tie
spinner, exception and exit code, and files to the main thread's place. `SpinnerInv` is
what makes `QuietReport` and `CursorRestored` provable: *stopped* has to imply that the
spinner thread is done, whatever it did in between. `FilesInv` says which file can be
torn, from which `NoTornFilePasses` follows at every exit.

**ScanDrift_proofs.** `DriftInv` says that what `cmd_diff` goes on with was whole when it
was loaded, whatever happened to the file since, and that a verdict is that of
`compare_scans` on the two reports loaded. The rest are facts about `CompareScans`:
`DriftPartitions`, and that the choice of the duplicate does not change which keys are
added. `HonestWhenComparable` needs, besides, that the key tells the issues apart.

**RemediationScript_proofs.** `ScriptInv` describes the script as data: each line's
finding, kind and place (`LayoutInv`), their order (`OrderInv`), that no recognised line of
a serious finding is missing (`CoverInv`), and which lines the shell has run (`RanInv`).
Without `CoverInv` the closing message says nothing about the report. The lemma
`AddedItems` states what one finding adds.

**Startup_proofs.** `StartupInv` has a part for each module. `ParseInv` compares what was
read so far with *every* reading of the whole line: the tokens before the current one have
the roles any reading gives them (`RolesForced`), and attributes, command and files are
what these tokens give (`ReadSoFar`). This is what makes a refusal provable: a token that
fits no reading, after a prefix on which all readings agree, leaves none. `PathInv` says
where the plugin directory is on `sys.path`; `ImportInv` which files' classes have to be
loaded by now. `RegistryIsLastLoaded` is inductive by itself, given the types.
`RegistryFaithful` is the assumption `RegistryAssumption` of ScanEngine, obtained from
the code that builds the registry. Assumed: that numerals are words with a number, that
listings list plugins, and that names are among the texts a user can type.
*RunsTheRequest* adds what `main` hands on: `AskedInv`, that a scan of the command line was made
with `Requested` from an accepted line, and `FoundInv`, that the modules found so far are the
known ones among the first `looked` names, counted by `FoundUpTo`; together with the grammar
this leads from the tokens to the modules.

**HostScan_proofs.** `Placed` says where a run is: at a place of its own module, with a call
in progress only where a question is asked, and on a machine that is in `seen`. One lemma
for each module (`NetGoes` to `SysReconGoes`) says what its checks can do at most, and with
`PlacesApart` and `OwnCheck` every other proof is rid of the modules it is not about.
*FlaggedMeansMore* then rests on `GreaterHasMore`: a mode that is the greater number has a
bit the other lacks; the converse is the finding above. *BruteForceIsExact* carries
`LogInv`: all whom the finding names were shown by one log that was there (`Proven`), and once
the first log shows an address throughout, it was the one found and read, and the finding
made of it names the address or as many no better ones as the limit allows (`Caught`). *AbsenceReported*
carries `AnswerTrue`, that an answer under way is what some machine in `seen` says or the
triple for no answer, and `AbsenceInv`, which says for each of the four protections that
past its check the finding is there, unless one of the machines seen had the protection;
the order of the checks (`FirewallJudged`, `MacJudged`, `NtpJudged`, `UpdatesJudged`) is what
it needs. Assumed: that the machines are machines, field by field (`Machine`), and for these
modules (`HostsAssumption`), and that thresholds and limits are positive
(`ThresholdAssumption`).

**HostScanClaims_proofs.** `FitInv` carries both theorems. `Prepared` says that a check is
inside the list it goes through, and that what an earlier step found out for it (`held`, or
that it got here at all) was so of a machine seen: the user who is asked of the shadow file
had an `/etc/passwd`, a look for `/dev/sda` an indicator of a container. `FindingsFit` says of
each finding that it is well typed, that the parameter it wants set exists, and that it is
`Founded` if it claims something; it is monotone in `seen` (`FitKept`), so that only what a
check adds is to be looked at, module by module (`NetFits` to `SysReconFits`) and question
by question (`NetSays` to `SysReconSays`). That the kernel parameter exists is what makes
*TypeCorrect* inductive: a remediation looks its value up. *InventsNothing* needs two things
more. `Answered`: while no question of this run went without an answer, each answer is what
a machine seen says, never the triple for no answer. And `Gone`, which says at each place
what must have been missing for the run to get there: nothing asks `nft` unless some
machine had no `iptables`. To find out that the claims hold took naming what the checks
take for something else (`Mistaken`) and what two looks put together (`Stitched`); TLC finds
each exception when it is left out. What is only `Noted` has a lemma for each module
(`NetNotes` to `RedTeamNotes`). Assumed besides: that the header of `ss` is no socket
(`SocketAssumption`) and that the suspicious words of a process are of the list
(`ProcessAssumption`).

**HostScanTruths_proofs.** *MissesNothing* carries, for each module, what has been kept so far
(`NetKept` to `SysReconKept`): past the check of a title, every finding of that title which
`Lasts`, that is true of every machine seen until now, is among the findings; and inside a
list, every one about a thing before place `i`. What lasts until the end has lasted before
(`LastedBefore`), so that a machine that changes can only take findings off that list. The
lemmas `NetTold` to `SysReconTold` say what each finding of `Truth` is about, and `NetKeeps` to
`SysReconKeeps` go through the checks. The attempt showed that the property was too strong
as first stated: a script that a user moves from his crontab to a cron file between the two
looks is in neither (`Moved`).
*RemediesHold* is about machines only. `Needed` says of a finding that some machine seen calls
for its remedy, `Holds` what the machine is like once it has it. The lemmas `FixedHolds` and
`HoldsOn` show that each remediation makes its own `Holds` true and otherwise only eases the
machine (`Eased`), so that none undoes another; `RemedyInv` keeps this through a sequence of
them, and `ShownInv` that what the second scan finds is needed on the machine as it now is.
Findings that are only `Noted` and yet have a remediation (`OtherFixes`; `NotedOther`) are
gone through check by check (`NewShown`), the others follow from their being `Founded`.

### Only model-checked
* Liveness (`ScanEnds`, `SubmittedIsCarriedOut`, `CommandEnds`, `StartupEnds`,
  `HostScanEnds`): out of the prover's reach.
* The properties of the violation runs, which do not hold.



## 5. Not modelled
`PROJECT.json` gives the reason for each component. In short: the loggers, colours,
layout of the reports, the parsers of system files and the entry points have no state
a property could be about. Evidence texts are left out of the scan modules, and regular
expressions appear as the kinds of lines they tell apart. In ScanEngine a module is one
that may do anything, a plugin included; HostScan is what the built-in ones do.

## 6. Plan

Done, in order of importance: the scan engine with its promise; the command line with
its spinner; the drift comparison; the remediation script; argument parser, module
discovery and what leads from one to the other; the helpers and all seven scan modules on
machines that change; each with its theorems. Next:

1. SARIF rule identifiers and `compare_scans` of their reports.
