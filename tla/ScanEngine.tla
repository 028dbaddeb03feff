----------------------------- MODULE ScanEngine -----------------------------
(***************************************************************************)
(* ScanEngine.run_scan (xping/core/engine.py): the main thread selects the *)
(* modules, submits one job per module to a ThreadPoolExecutor, collects   *)
(* the futures in completion order, waits for the pool to shut down, sorts *)
(* the results by module name and returns them.  The pool's threads run    *)
(* _run_single_module, which turns whatever a module does into a           *)
(* ModuleResult.  Ctrl+C interrupts the main thread, and only that one.    *)
(*                                                                         *)
(* Job j is the j-th selected module instance: two requests for the same   *)
(* name are two jobs.  A name is a number, its place in Python's string    *)
(* order, or Nameless: a plugin's name need not be a string.  The pool is  *)
(* the standard library's, modelled from how run_scan uses it: a FIFO work *)
(* queue, threads started on demand up to max_workers, each of which takes *)
(* work until the queue is empty and the pool shut, and a shutdown that    *)
(* waits for all the threads the pool knows of.                            *)
(***************************************************************************)
EXTENDS ScanModels

CONSTANTS
    Registry,       \* _registry: the discovered names, in registration order
    Spellings,      \* what a user may type for a module
    Normal,         \* spelling -> the name name.strip().lower() yields
    RequestChoices, \* the requested_modules considered, <<>> for None or []
    PoolSizes,      \* the max_workers considered
    Thresholds,     \* the severity_thresholds considered
    Findings,       \* the findings a module may report
    Deeds,          \* the ways a module may behave, see Behaviour
    Labels,         \* the names a module may put into its result for its own
    MaxInterrupts   \* bound: how often Ctrl+C is pressed

(***************************************************************************)
(* What module_name may hold: a name, or a value Python cannot order with  *)
(* others, None say, for which one integer stands.                         *)
(***************************************************************************)
Nameless == -1
Label    == Nat \cup {Nameless}
Own      == -2      \* a module's result carries the module's own name

ASSUME RegistryAssumption ==
    /\ Registry \in Seq(Label)
    /\ \A i, k \in 1 .. Len(Registry) : Registry[i] = Registry[k] => i = k
ASSUME RequestAssumption ==
    /\ Normal \in [Spellings -> Nat]
    /\ RequestChoices \subseteq Seq(Spellings)
ASSUME ConfigAssumption ==
    /\ PoolSizes \subseteq Int
    /\ Thresholds \subseteq Severity
    /\ MaxInterrupts \in Nat
ASSUME FindingAssumption ==
    \A f \in Findings : f.severity \in Severity \cup {Unordered}
ASSUME DeedAssumption ==
    Deeds \subseteq {"unavailable", "run", "crash", "unprintable", "unspeakable", "quit"}
ASSUME LabelAssumption == Labels \subseteq Label

VARIABLES
    requested, max_workers, severity_threshold,  \* the engine's fields
    pc,         \* where the main thread is in run_scan
    asked,      \* names _get_modules_to_run has still to look up
    modules,    \* the selected modules' names; its domain is the set of jobs
    queue,      \* the pool's work queue
    threads,    \* number of pool threads started
    exited,     \* number of pool threads that have ended
    running,    \* the jobs being executed
    cut,        \* what a Ctrl+C inside pool.submit left behind, see Interrupt
    future,     \* the submitted jobs' futures
    yielded,    \* the jobs as_completed has yielded
    results,    \* run_scan's results list
    exc,        \* the exception in flight in, or raised by, run_scan
    interrupts, \* number of Ctrl+C so far
    behaved     \* history: what each settled job's module did

fields   == <<requested, max_workers, severity_threshold>>
pool     == <<queue, threads, exited, running, cut>>
mainvars == <<pc, asked, modules, yielded, results, exc, interrupts>>
vars     == <<fields, pool, mainvars, future, behaved>>

Jobs    == 1 .. Len(future)             \* the jobs submitted so far
Names   == {Registry[i] : i \in 1 .. Len(Registry)}
Idle    == threads - exited - Cardinality(running)
Settled == {j \in Jobs : future[j].state # "pending"}

(***************************************************************************)
(* What a module may do when the engine calls is_available() and run():    *)
(*   "unavailable"  is_available() is false;                               *)
(*   "run"          run() returns with some findings, in a result under    *)
(*                  its own name or under another label;                   *)
(*   "crash"        an Exception, is_available()'s or run()'s;             *)
(*   "unprintable"  an Exception whose text cannot be rendered, so the     *)
(*                  handler that records the crash raises in turn;         *)
(*   "unspeakable"  the same, and what the handler raises has no text      *)
(*                  either, or the module's name raises (engine.py:148);   *)
(*   "quit"         an exception that is no Exception, such as SystemExit. *)
(***************************************************************************)
Behaviour ==
    {b \in [does : Deeds, findings : SUBSET Findings, label : Labels \cup {Own}] :
        /\ IsFiniteSet(b.findings)      \* findings are a list
        /\ b.does # "run" => b.findings = {} /\ b.label = Own}

Unknown == [does |-> "nothing yet", findings |-> {}, label |-> Own]

(***************************************************************************)
(* A ModuleResult, with the job that produced it (the object's identity).  *)
(* "error" tells which of the engine's own handlers recorded one.          *)
(***************************************************************************)
ModuleResult ==
    [job : Nat, module_name : Label, findings : SUBSET Findings,
     skipped : BOOLEAN, error : {"none", "crashed", "collection"}]

Blank(j) == [job |-> j, module_name |-> modules[j], findings |-> {},
             skipped |-> FALSE, error |-> "none"]

(***************************************************************************)
(* A future is pending, or holds a result, an Exception, one that cannot   *)
(* be formatted, or an exception that is no Exception.                     *)
(***************************************************************************)
Future ==
    [state : {"pending", "result", "exception", "unspeakable", "quit"},
     result : ModuleResult]

(***************************************************************************)
(* _run_single_module: what the future of job j holds once its module has  *)
(* behaved as b.  Its only handler is "except Exception".                  *)
(***************************************************************************)
RunSingleModule(j, b) ==
    LET Return(r) == [state |-> "result", result |-> r]
        Raise(kind) == [state |-> kind, result |-> Blank(j)]
    IN  CASE b.does = "unavailable" ->
                 Return([Blank(j) EXCEPT !.skipped = TRUE])
          [] b.does = "run" /\ ~FilterRaises(b.findings, severity_threshold) ->
                 Return([Blank(j) EXCEPT
                            !.findings = Filtered(b.findings, severity_threshold),
                            !.module_name = IF b.label = Own THEN @ ELSE b.label])
          [] b.does = "run" /\ FilterRaises(b.findings, severity_threshold) ->
                 Return([Blank(j) EXCEPT !.error = "crashed"])
          [] b.does = "crash" -> Return([Blank(j) EXCEPT !.error = "crashed"])
          [] b.does = "unprintable" -> Raise("exception")
          [] b.does \in {"unspeakable", "quit"} -> Raise(b.does)

(***************************************************************************)
(* The names _get_modules_to_run looks up: those requested, normalised, or *)
(* every registered one.                                                   *)
(***************************************************************************)
Wanted ==
    IF requested = <<>> THEN Registry
    ELSE [i \in 1 .. Len(requested) |-> Normal[requested[i]]]

(***************************************************************************)
(* The engine is constructed: its fields are the caller's choices.         *)
(***************************************************************************)
Init ==
    /\ requested \in RequestChoices
    /\ max_workers \in PoolSizes
    /\ severity_threshold \in Thresholds
    /\ pc = "select"
    /\ asked = Wanted
    /\ modules = <<>> /\ future = <<>> /\ results = <<>> /\ behaved = <<>>
    /\ queue = <<>> /\ threads = 0 /\ exited = 0 /\ running = {}
    /\ cut = "none" /\ yielded = {} /\ exc = "none" /\ interrupts = 0

-----------------------------------------------------------------------------
(***************************************************************************)
(* Faulty variants.  None is part of the specification: each makes a       *)
(* mistake the code could plausibly make, and a property below must fail   *)
(* when it replaces the definition it is named after.                      *)
(***************************************************************************)

\* A repeated request is taken for one.
SelectModule_Once ==
    /\ pc = "select" /\ asked # <<>>
    /\ modules' = IF Head(asked) \in Names \ {modules[i] : i \in DOMAIN modules}
                  THEN Append(modules, Head(asked)) ELSE modules
    /\ asked' = Tail(asked)
    /\ UNCHANGED <<fields, pool, pc, yielded, results, exc, interrupts, future, behaved>>

\* max_workers is not looked at.
OpenPool_Unchecked ==
    /\ pc = "select" /\ asked = <<>> /\ modules # <<>>
    /\ pc' = "submit"
    /\ UNCHANGED <<fields, pool, asked, modules, yielded, results, exc, interrupts,
                   future, behaved>>

\* The future is recorded instead of its result.
Collect_Future(j) ==
    /\ pc = "collect" /\ j \in Settled \ yielded
    /\ yielded' = yielded \cup {j}
    /\ results' = Append(results, future[j])
    /\ UNCHANGED <<fields, pool, pc, exc, asked, modules, interrupts, future, behaved>>

\* There is no handler around future.result().
Collect_Unguarded(j) ==
    /\ pc = "collect" /\ j \in Settled \ yielded
    /\ yielded' = yielded \cup {j}
    /\ IF future[j].state = "result"
       THEN results' = Append(results, future[j].result) /\ UNCHANGED <<pc, exc>>
       ELSE pc' = "shutdown" /\ exc' = "error" /\ UNCHANGED results
    /\ UNCHANGED <<fields, pool, asked, modules, interrupts, future, behaved>>

\* The loop is left at the first completed future.
AllCollected_Early ==
    /\ pc = "collect" /\ yielded # {}
    /\ pc' = "shutdown"
    /\ UNCHANGED <<fields, pool, asked, modules, yielded, results, exc, interrupts,
                   future, behaved>>

\* shutdown(wait=False).
PoolJoined_AtOnce ==
    /\ pc = "shutdown"
    /\ pc' = IF exc = "none" THEN "sort" ELSE "raised"
    /\ UNCHANGED <<fields, pool, asked, modules, yielded, results, exc, interrupts,
                   future, behaved>>

\* The results stay in completion order.
Stably_NotAtAll(s) == {[i \in 1 .. Len(s) |-> i]}

\* Ctrl+C is caught in run_scan, which returns what it has.
Interrupt_Caught ==
    /\ pc \in {"submit", "collect"} /\ interrupts < MaxInterrupts
    /\ interrupts' = interrupts + 1
    /\ pc' = "shutdown"
    /\ UNCHANGED <<fields, pool, asked, modules, yielded, results, exc, future, behaved>>

\* Ctrl+C cancels what is queued: shutdown(cancel_futures=True).
Interrupt_Cancelling ==
    /\ pc \in {"submit", "collect"} /\ interrupts < MaxInterrupts
    /\ interrupts' = interrupts + 1
    /\ pc' = "shutdown" /\ exc' = "interrupt" /\ queue' = <<>>
    /\ UNCHANGED <<fields, threads, exited, running, cut, asked, modules, yielded, results,
                   future, behaved>>

-----------------------------------------------------------------------------
(***************************************************************************)
(* Main thread: _get_modules_to_run.  An unknown name is logged and left   *)
(* out.  Constructing a module is not guarded: what it raises leaves       *)
(* run_scan.                                                               *)
(***************************************************************************)
SelectModule ==
    /\ pc = "select" /\ asked # <<>>
    /\ modules' = IF Head(asked) \in Names THEN Append(modules, Head(asked))
                                           ELSE modules
    /\ asked' = Tail(asked)
    /\ UNCHANGED <<fields, pool, pc, yielded, results, exc, interrupts, future, behaved>>

ConstructorRaises ==
    /\ pc = "select" /\ asked # <<>> /\ Head(asked) \in Names
    /\ pc' = "raised" /\ exc' = "error"
    /\ UNCHANGED <<fields, pool, asked, modules, yielded, results, interrupts,
                   future, behaved>>

(***************************************************************************)
(* No module left to run: run_scan returns a ScanResult without results.   *)
(***************************************************************************)
NothingToRun ==
    /\ pc = "select" /\ asked = <<>> /\ modules = <<>>
    /\ pc' = "returned"
    /\ UNCHANGED <<fields, pool, asked, modules, yielded, results, exc, interrupts,
                   future, behaved>>

(***************************************************************************)
(* ThreadPoolExecutor(max_workers) raises ValueError unless positive.      *)
(***************************************************************************)
OpenPool ==
    /\ pc = "select" /\ asked = <<>> /\ modules # <<>>
    /\ IF max_workers > 0
       THEN pc' = "submit" /\ UNCHANGED exc
       ELSE pc' = "raised" /\ exc' = "error"
    /\ UNCHANGED <<fields, pool, asked, modules, yielded, results, interrupts,
                   future, behaved>>

(***************************************************************************)
(* pool.submit for the next module puts the job into the queue; then, if   *)
(* it neither believes a thread to be idle nor has max_workers of them,    *)
(* starts one; and then takes the new thread into the set it joins at its  *)
(* end.  Ctrl+C may fall between these steps.  The first submit always     *)
(* starts a thread.                                                        *)
(***************************************************************************)
Submit ==
    LET j == Len(future) + 1 IN
    /\ pc = "submit" /\ j <= Len(modules)
    /\ future' = Append(future, [state |-> "pending", result |-> Blank(j)])
    /\ behaved' = Append(behaved, Unknown)
    /\ queue' = Append(queue, j)
    /\ pc' = "spawn"
    /\ UNCHANGED <<fields, threads, exited, running, cut, asked, modules, yielded, results,
                   exc, interrupts>>

AfterSubmit == IF Len(future) = Len(modules) THEN "collect" ELSE "submit"

Spawn ==
    /\ pc = "spawn"
    /\ \/ threads < max_workers /\ threads' = threads + 1 /\ pc' = "register"
       \/ threads > 0 /\ pc' = AfterSubmit /\ UNCHANGED threads
    /\ UNCHANGED <<fields, queue, exited, running, cut, asked, modules, yielded, results,
                   exc, interrupts, future, behaved>>

Register ==
    /\ pc = "register" /\ pc' = AfterSubmit
    /\ UNCHANGED <<fields, pool, asked, modules, yielded, results, exc, interrupts,
                   future, behaved>>

(***************************************************************************)
(* One round of "for future in as_completed(...)": a completed future not  *)
(* yielded before.  future.result() returns the result, or re-raises; an   *)
(* Exception becomes a result of its own, unless the handler cannot format *)
(* it (line 252) and raises; that and any other exception leaves the loop  *)
(* and the "with" block, whose exit shuts the pool down.                   *)
(***************************************************************************)
Collect(j) ==
    /\ pc = "collect" /\ j \in Settled \ yielded
    /\ yielded' = yielded \cup {j}
    /\ \/ /\ future[j].state = "result"
          /\ results' = Append(results, future[j].result)
          /\ UNCHANGED <<pc, exc>>
       \/ /\ future[j].state = "exception"
          /\ results' = Append(results, [Blank(j) EXCEPT !.error = "collection"])
          /\ UNCHANGED <<pc, exc>>
       \/ /\ future[j].state \in {"unspeakable", "quit"}
          /\ pc' = "shutdown"
          /\ exc' = IF future[j].state = "quit" THEN "quit" ELSE "error"
          /\ UNCHANGED results
    /\ UNCHANGED <<fields, pool, asked, modules, interrupts, future, behaved>>

AllCollected ==
    /\ pc = "collect" /\ yielded = Jobs
    /\ pc' = "shutdown"
    /\ UNCHANGED <<fields, pool, asked, modules, yielded, results, exc, interrupts,
                   future, behaved>>

(***************************************************************************)
(* pool.__exit__: shutdown(wait=True) joins every thread the pool knows    *)
(* of; then the exception in flight, if any, continues.  Of the threads    *)
(* the model has their numbers only: with one left out, it may be the last *)
(* of the others that is not waited for.                                   *)
(***************************************************************************)
Joined == IF cut = "unjoined" THEN exited >= threads - 1 ELSE exited = threads

PoolJoined ==
    /\ pc = "shutdown" /\ Joined
    /\ pc' = IF exc = "none" THEN "sort" ELSE "raised"
    /\ UNCHANGED <<fields, pool, asked, modules, yielded, results, exc, interrupts,
                   future, behaved>>

(***************************************************************************)
(* results.sort(key=module_name), which is stable, and the return.  Every  *)
(* name is compared with some other, if there is one: a name that is no    *)
(* string makes the sort raise TypeError after all modules have run.       *)
(***************************************************************************)
Sortable(s) == Len(s) < 2 \/ \A i \in 1 .. Len(s) : s[i].module_name # Nameless

Stably(s) ==     \* the one rearrangement of s a stable sort by name makes
    {p \in [1 .. Len(s) -> 1 .. Len(s)] :
        \A i, k \in 1 .. Len(s) : i < k =>
            \/ s[p[i]].module_name < s[p[k]].module_name
            \/ s[p[i]].module_name = s[p[k]].module_name /\ p[i] < p[k]}

SortResults ==
    /\ pc = "sort" /\ Sortable(results)
    /\ \E p \in Stably(results) : results' = [i \in 1 .. Len(results) |-> results[p[i]]]
    /\ pc' = "returned"
    /\ UNCHANGED <<fields, pool, asked, modules, yielded, exc, interrupts, future,
                   behaved>>

SortRaises ==
    /\ pc = "sort" /\ ~Sortable(results)
    /\ pc' = "raised" /\ exc' = "error"
    /\ UNCHANGED <<fields, pool, asked, modules, yielded, results, interrupts, future,
                   behaved>>

(***************************************************************************)
(* Ctrl+C raises KeyboardInterrupt in the main thread, wherever it is.     *)
(* Inside the "with" block it first goes through the pool's exit, which    *)
(* cancels nothing; a second one interrupts that exit and leaves run_scan  *)
(* while the pool's threads work on.  Inside pool.submit it may leave the  *)
(* first job queued in a pool without a thread ("unserved"), or a thread   *)
(* at work that the pool's exit does not wait for ("unjoined").            *)
(***************************************************************************)
WithPool == {"submit", "spawn", "register", "collect"}

Interrupt ==
    /\ pc \notin {"returned", "raised"} /\ interrupts < MaxInterrupts
    /\ interrupts' = interrupts + 1
    /\ exc' = "interrupt"
    /\ pc' = IF pc \in WithPool THEN "shutdown" ELSE "raised"
    /\ cut' = IF pc = "spawn" /\ threads = 0 THEN "unserved"
              ELSE IF pc = "register" THEN "unjoined" ELSE cut
    /\ UNCHANGED <<fields, queue, threads, exited, running, asked, modules, yielded, results,
                   future, behaved>>

-----------------------------------------------------------------------------
(***************************************************************************)
(* The pool's threads.                                                     *)
(***************************************************************************)
TakeJob ==
    /\ queue # <<>> /\ Idle > 0
    /\ running' = running \cup {Head(queue)}
    /\ queue' = Tail(queue)
    /\ UNCHANGED <<fields, threads, exited, cut, mainvars, future, behaved>>

FinishJob(j) ==
    /\ j \in running
    /\ \E b \in Behaviour :
          /\ future' = [future EXCEPT ![j] = RunSingleModule(j, b)]
          /\ behaved' = [behaved EXCEPT ![j] = b]
    /\ running' = running \ {j}
    /\ UNCHANGED <<fields, queue, threads, exited, cut, mainvars>>

PoolShut == pc \in {"shutdown", "sort", "returned", "raised"}

ExitThread ==
    /\ PoolShut /\ queue = <<>> /\ Idle > 0
    /\ exited' = exited + 1
    /\ UNCHANGED <<fields, queue, threads, running, cut, mainvars, future, behaved>>

-----------------------------------------------------------------------------
MainStep ==
    \/ SelectModule \/ ConstructorRaises \/ NothingToRun \/ OpenPool
    \/ Submit \/ Spawn \/ Register
    \/ \E j \in Jobs : Collect(j)
    \/ AllCollected \/ PoolJoined \/ SortResults \/ SortRaises

ThreadStep == TakeJob \/ ExitThread \/ \E j \in Jobs : FinishJob(j)

(***************************************************************************)
(* run_scan has ended and so have the pool's threads.                      *)
(***************************************************************************)
Finished == pc \in {"returned", "raised"} /\ exited = threads /\ UNCHANGED vars

Next == MainStep \/ Interrupt \/ ThreadStep \/ Finished

Spec == Init /\ [][Next]_vars

(***************************************************************************)
(* The operating system schedules every thread, the pool's queue wakes its *)
(* threads, and a module that was started comes back.  Nobody has to press *)
(* Ctrl+C.                                                                 *)
(***************************************************************************)
FairSpec ==
    /\ Spec
    /\ WF_vars(MainStep) /\ WF_vars(TakeJob) /\ WF_vars(ExitThread)
    /\ WF_vars(\E j \in Jobs : FinishJob(j))

-----------------------------------------------------------------------------
(***************************************************************************)
(* The type invariant of run_scan's state.                                 *)
(***************************************************************************)
TypeOK ==
    /\ requested \in RequestChoices
    /\ max_workers \in PoolSizes
    /\ severity_threshold \in Thresholds
    /\ pc \in WithPool \cup {"select", "shutdown", "sort", "returned", "raised"}
    /\ asked \in Seq(Label)
    /\ modules \in Seq(Label)
    /\ future \in Seq(Future) /\ Len(future) <= Len(modules)
    /\ behaved \in Seq(Behaviour \cup {Unknown}) /\ Len(behaved) = Len(future)
    /\ queue \in Seq(Jobs)
    /\ threads \in Nat /\ exited \in Nat
    /\ running \subseteq Jobs
    /\ cut \in {"none", "unserved", "unjoined"}
    /\ yielded \subseteq Jobs
    /\ results \in Seq(ModuleResult)
    /\ exc \in {"none", "error", "quit", "interrupt"}
    /\ interrupts \in 0 .. MaxInterrupts

(***************************************************************************)
(* A scan that returns has exactly one result for every selected module:   *)
(* whatever the order of completion, none is lost (engine.py:246-250) and  *)
(* none is recorded twice.                                                 *)
(***************************************************************************)
OneResultPerModule ==
    pc = "returned" =>
        /\ \A i \in 1 .. Len(results) : results[i].job \in 1 .. Len(modules)
        /\ \A j \in 1 .. Len(modules) :
              \E i \in 1 .. Len(results) :
                  \A k \in 1 .. Len(results) : results[k].job = j <=> k = i

(***************************************************************************)
(* The report answers what was asked: a known name appears as often as it  *)
(* was requested under any spelling, an unknown one not at all, and with   *)
(* no request every registered module appears once (engine.py:128-140).    *)
(* It appears under its own name, but for a module whose own result, come  *)
(* through the filter, carries another (engine.py:164-181).                *)
(***************************************************************************)
Relabelled(b) ==
    b.does = "run" /\ b.label # Own /\ ~FilterRaises(b.findings, severity_threshold)

NameOf(j) == IF Relabelled(behaved[j]) THEN behaved[j].label ELSE modules[j]

EveryRequestAnswered ==
    pc = "returned" =>
        /\ \A n \in {Normal[s] : s \in Spellings} \cup Names :
              Cardinality({i \in DOMAIN results : modules[results[i].job] = n}) =
                  IF n \notin Names THEN 0
                  ELSE IF requested = <<>> THEN 1
                  ELSE Cardinality({i \in DOMAIN requested : Normal[requested[i]] = n})
        /\ \A i \in DOMAIN results : results[i].module_name = NameOf(results[i].job)

(***************************************************************************)
(* No finding at or above the threshold disappears silently: it is in its  *)
(* module's result, or that result shows an error.  And a result that      *)
(* shows neither an error nor a skip is that of a module that really ran.  *)
(***************************************************************************)
NoSilentLoss ==
    pc = "returned" =>
        \A i \in DOMAIN results :
            LET r == results[i]
                b == behaved[r.job]
            IN  /\ r.error = "none" =>
                      {f \in b.findings : f.severity >= severity_threshold} \subseteq r.findings
                /\ r.error = "none" /\ ~r.skipped => b.does = "run"

(***************************************************************************)
(* The severity threshold cannot move the CI gate: the overall risk of the *)
(* returned scan is CRITICAL exactly when some module that came back with  *)
(* a well-formed list found a CRITICAL, at every threshold                 *)
(* (engine.py:168-172 against models.py:164-176).                          *)
(***************************************************************************)
ThresholdKeepsTheGate ==
    pc = "returned" =>
        (OverallRisk(results) = "CRITICAL" <=>
            \E i \in DOMAIN results :
                /\ results[i].error = "none"
                /\ \E f \in behaved[results[i].job].findings : f.severity = CRITICAL)

(***************************************************************************)
(* The published order does not depend on which thread finished first: it  *)
(* is that of the names the modules go by, and among results of one name   *)
(* (the same module requested twice) the only freedom left                 *)
(* (engine.py:258-259).                                                    *)
(***************************************************************************)
OrderIndependentOfCompletion ==
    pc = "returned" =>
        \A i \in DOMAIN results :
            Cardinality({j \in DOMAIN modules : NameOf(j) < results[i].module_name}) < i
            /\ i <= Cardinality({j \in DOMAIN modules : NameOf(j) <= results[i].module_name})

(***************************************************************************)
(* run_scan fails for a cause and for no other: Ctrl+C, a module that quit *)
(* the interpreter, a configuration refused before any job started, an     *)
(* exception that the collecting handler cannot format either              *)
(* (engine.py:252), or a result to be sorted whose name is no string       *)
(* (engine.py:259).  No other Exception in a module is one                 *)
(* (engine.py:183-191, 251-256), nor is a malformed finding.               *)
(***************************************************************************)
FailureHasCause ==
    pc = "raised" =>
        CASE exc = "interrupt" -> interrupts > 0
          [] exc = "quit" -> \E j \in Settled : behaved[j].does = "quit"
          [] exc = "error" ->
                 \/ future = <<>>
                 \/ \E j \in Settled : behaved[j].does = "unspeakable"
                 \/ /\ Settled = DOMAIN modules /\ Len(modules) > 1
                    /\ \E j \in Settled : NameOf(j) = Nameless
          [] OTHER -> FALSE

(***************************************************************************)
(* Leaving the pool without a second Ctrl+C means that no submitted module *)
(* is queued or running any more: what follows, the report or the error    *)
(* message, races with no module (engine.py:241).  Except when Ctrl+C fell *)
(* between the steps of pool.submit and left a thread unjoined, or the     *)
(* first job without a thread.                                             *)
(***************************************************************************)
DrainedBeforeLeaving ==
    [][pc = "shutdown" /\ pc' # "shutdown" /\ interrupts' = interrupts /\ cut = "none" =>
           Settled = Jobs /\ running = {} /\ queue = <<>>]_vars

-----------------------------------------------------------------------------
(***************************************************************************)
(* The inductive invariant behind the theorems of ScanEngine_proofs: a     *)
(* submitted job is queued once, or running, or settled (JobInOnePlace);   *)
(* each settled future holds what _run_single_module makes of its module's      *)
(* behaviour (OutcomeInv); the results are the entries of the futures      *)
(* yielded so far, each once (ReportInv); and how far the main thread has  *)
(* come says which futures those are and why an exception is in flight     *)
(* (PhaseInv).                                                             *)
(***************************************************************************)
JobInOnePlace ==
    /\ \A i, k \in 1 .. Len(queue) : queue[i] = queue[k] => i = k
    /\ \A i \in 1 .. Len(queue) : queue[i] \notin running \cup Settled
    /\ running \cap Settled = {}
    /\ \A j \in Jobs \ (running \cup Settled) : \E i \in 1 .. Len(queue) : queue[i] = j

OutcomeInv ==
    \A j \in Settled :
        behaved[j] \in Behaviour /\ future[j] = RunSingleModule(j, behaved[j])

EntryOf(v) == IF v.state = "exception" THEN [v.result EXCEPT !.error = "collection"]
                                       ELSE v.result
IsFatal(v) == v.state \in {"unspeakable", "quit"}

ReportInv ==
    /\ yielded \subseteq Settled
    /\ \A i \in 1 .. Len(results) :
          LET j == results[i].job
          IN  j \in yielded /\ ~IsFatal(future[j]) /\ results[i] = EntryOf(future[j])
    /\ \A i, k \in 1 .. Len(results) : results[i].job = results[k].job => i = k
    /\ \A j \in yielded :
          IsFatal(future[j]) \/ \E i \in 1 .. Len(results) : results[i].job = j

PhaseInv ==
    /\ pc = "select" => future = <<>>
    /\ pc = "collect" => Len(future) = Len(modules)
    /\ pc \in WithPool \cup {"select", "sort", "returned"} => exc = "none"
    /\ pc = "raised" => exc # "none"
    /\ exc = "none" => \A j \in yielded : ~IsFatal(future[j])
    /\ exc = "none" /\ pc \in {"shutdown", "sort", "returned"} =>
          Len(future) = Len(modules) /\ yielded = Jobs
    /\ exc = "error" =>
          \/ pc = "raised" /\ future = <<>>
          \/ \E j \in yielded : future[j].state = "unspeakable"
          \/ /\ pc = "raised" /\ ~Sortable(results)
             /\ Len(future) = Len(modules) /\ yielded = Jobs
             /\ \A j \in yielded : ~IsFatal(future[j])
    /\ exc = "quit" => \E j \in yielded : future[j].state = "quit"
    /\ exc = "interrupt" => interrupts > 0

EngineInv == JobInOnePlace /\ OutcomeInv /\ ReportInv /\ PhaseInv

(***************************************************************************)
(* The invariant behind EveryRequestAnswered: what was looked up and what  *)
(* is still to be looked up are together what was asked for, as often, and *)
(* nothing is selected that is not registered.                             *)
(***************************************************************************)
Places(s, n) == {i \in DOMAIN s : s[i] = n}

SelectInv ==
    /\ \A i \in DOMAIN modules : modules[i] \in Names
    /\ \A n \in Names :
          Cardinality(Places(modules, n)) + Cardinality(Places(asked, n)) =
              Cardinality(Places(Wanted, n))
    /\ pc \notin {"select", "raised"} => asked = <<>>

(***************************************************************************)
(* The invariant behind OrderIndependentOfCompletion.                      *)
(***************************************************************************)
SortedInv ==
    pc = "returned" =>
        \A i, k \in DOMAIN results :
            i < k => results[i].module_name <= results[k].module_name

(***************************************************************************)
(* The invariant behind DrainedBeforeLeaving: what is queued has a thread  *)
(* to take it, unless pool.submit is about to look for one or was broken   *)
(* off; threads end only after the pool was shut and drained.              *)
(***************************************************************************)
PoolInv ==
    /\ Cardinality(running) <= threads - exited
    /\ queue # <<>> => threads > exited \/ pc = "spawn" \/ cut = "unserved"
    /\ exited > 0 => PoolShut /\ queue = <<>>
    /\ cut # "none" => PoolShut

(***************************************************************************)
(* The scan ends: run_scan returns or raises, even when Ctrl+C falls into  *)
(* the pool's shutdown, and so do all the threads it started.              *)
(***************************************************************************)
ScanEnds == <>[](pc \in {"returned", "raised"} /\ exited = threads)

(***************************************************************************)
(* Every submitted job is carried out, interrupted or not: nothing cancels *)
(* the queue, so one Ctrl+C waits for all of it.  The one exception is a   *)
(* Ctrl+C inside the first pool.submit, before the pool has any thread.    *)
(* (Stated for as many jobs as there are registered modules.)              *)
(***************************************************************************)
SubmittedIsCarriedOut ==
    \A j \in 1 .. Len(Registry) : (j \in Jobs) ~> (j \in Settled \/ cut = "unserved")

(***************************************************************************)
(* The engine keeps the promise of ModuleScan.  The plan is the list of    *)
(* selected modules, a verdict is a settled future, and the report exists  *)
(* once run_scan has returned.                                             *)
(***************************************************************************)
PromisePhase ==
    CASE pc = "select" -> "planning"
      [] pc \in WithPool \cup {"shutdown", "sort"} -> "running"
      [] pc = "returned" -> "published"
      [] pc = "raised" -> "failed"

Promise == INSTANCE ModuleScan WITH
    Verdict <- Future, Entry <- EntryOf, Fatal <- IsFatal,
    phase   <- PromisePhase,
    plan    <- DOMAIN modules,
    verdict <- [j \in Settled |-> future[j]],
    report  <- IF pc = "returned" THEN {results[i] : i \in DOMAIN results} ELSE {}

(***************************************************************************)
(* Every behaviour of the engine is one of ModuleScan: threads, queue and  *)
(* interrupts never publish a partial report or one of another scan state. *)
(***************************************************************************)
KeepsPromise == Promise!Spec

(***************************************************************************)
(* engine.py:12: "a crash in one module never kills others" and            *)
(* engine.py:145-146: a crash "never propagates exceptions to the engine". *)
(***************************************************************************)
ModuleNeverFailsTheScan == pc = "raised" => interrupts > 0 \/ future = <<>>
=============================================================================
