-------------------------- MODULE ScanEngine_proofs -------------------------
(***************************************************************************)
(* Proofs about ScanEngine: type correctness first; then, from an          *)
(* inductive invariant that ties every recorded result to the future it    *)
(* was collected from, that a returned scan is complete and that a failed  *)
(* one has a cause; then that the engine implements ModuleScan.            *)
(***************************************************************************)
EXTENDS ScanEngine, SequenceTheorems, FiniteSetTheorems, TLAPS

(***************************************************************************)
(* _run_single_module hands the future a well-formed value, whatever the   *)
(* module does.                                                            *)
(***************************************************************************)
LEMMA BlankType ==
    ASSUME modules \in Seq(Label), NEW j \in 1 .. Len(modules)
    PROVE  /\ Blank(j) \in ModuleResult
           /\ Blank(j).job = j /\ Blank(j).error = "none" /\ ~Blank(j).skipped
    <1>1. modules[j] \in Label
      BY ElementOfSeq
    <1> QED
      BY <1>1 DEF Blank, ModuleResult

(***************************************************************************)
(* The name a module's own result goes by.                                 *)
(***************************************************************************)
GivenName(j, b) == IF b.label = Own THEN modules[j] ELSE b.label

LEMMA GivenNameType ==
    ASSUME modules \in Seq(Label), NEW j \in 1 .. Len(modules), NEW b \in Behaviour
    PROVE  GivenName(j, b) \in Label
    <1>1. modules[j] \in Label
      BY ElementOfSeq
    <1>2. b.label \in Label \/ b.label = Own
      BY LabelAssumption DEF Behaviour
    <1> QED
      BY <1>1, <1>2 DEF GivenName

Ran(j, b) ==
    [Blank(j) EXCEPT !.findings = Filtered(b.findings, severity_threshold),
                     !.module_name = GivenName(j, b)]

LEMMA RunReturns ==
    ASSUME NEW j, NEW b,
           b.does = "run" /\ ~FilterRaises(b.findings, severity_threshold)
    PROVE  RunSingleModule(j, b) = [state |-> "result", result |-> Ran(j, b)]
    <1>1. Blank(j).module_name = modules[j]
      BY DEF Blank
    <1> QED
      BY <1>1 DEF RunSingleModule, GivenName, Ran

LEMMA RunSingleModuleType ==
    ASSUME modules \in Seq(Label), NEW j \in 1 .. Len(modules), NEW b \in Behaviour
    PROVE  /\ RunSingleModule(j, b) \in Future
           /\ RunSingleModule(j, b).state # "pending"
           /\ RunSingleModule(j, b).result.job = j
    <1>1. Blank(j) \in ModuleResult /\ Blank(j).job = j
      BY BlankType
    <1>2. b.findings \in SUBSET Findings /\ b.does \in Deeds
      BY DEF Behaviour
    <1>3. Filtered(b.findings, severity_threshold) \in SUBSET Findings
      BY <1>2 DEF Filtered
    <1>4. \A r \in ModuleResult :
             /\ [r EXCEPT !.skipped = TRUE] \in ModuleResult
             /\ [r EXCEPT !.error = "crashed"] \in ModuleResult
             /\ \A S \in SUBSET Findings, n \in Label :
                   [r EXCEPT !.findings = S, !.module_name = n] \in ModuleResult
      BY DEF ModuleResult
    <1>5. \A r \in ModuleResult :
             /\ [r EXCEPT !.skipped = TRUE].job = r.job
             /\ [r EXCEPT !.error = "crashed"].job = r.job
             /\ \A S \in SUBSET Findings, n \in Label :
                   [r EXCEPT !.findings = S, !.module_name = n].job = r.job
      BY DEF ModuleResult
    <1>6. CASE b.does = "unavailable"
      BY <1>1, <1>4, <1>5, <1>6 DEF RunSingleModule, Future
    <1>7. CASE b.does = "run" /\ ~FilterRaises(b.findings, severity_threshold)
      <2>1. RunSingleModule(j, b) = [state |-> "result", result |-> Ran(j, b)]
        BY <1>7, RunReturns
      <2>2. GivenName(j, b) \in Label
        BY GivenNameType
      <2>3. Ran(j, b) \in ModuleResult /\ Ran(j, b).job = j
        BY <1>1, <1>3, <1>4, <1>5, <2>2 DEF Ran
      <2> QED
        BY <2>1, <2>3 DEF Future
    <1>8. CASE b.does = "run" /\ FilterRaises(b.findings, severity_threshold)
      BY <1>1, <1>4, <1>5, <1>8 DEF RunSingleModule, Future
    <1>9. CASE b.does = "crash"
      BY <1>1, <1>4, <1>5, <1>9 DEF RunSingleModule, Future
    <1>10. CASE b.does \in {"unprintable", "unspeakable", "quit"}
      BY <1>1, <1>10 DEF RunSingleModule, Future
    <1> QED
      BY <1>2, <1>6, <1>7, <1>8, <1>9, <1>10, DeedAssumption

-----------------------------------------------------------------------------
(***************************************************************************)
(* Type correctness.                                                       *)
(***************************************************************************)
LEMMA NamesOfRegistry == Names \subseteq Label
    BY RegistryAssumption, ElementOfSeq DEF Names

LEMMA InitTypeOK == Init => TypeOK
    <1> SUFFICES ASSUME Init PROVE TypeOK
      OBVIOUS
    <1>1. asked \in Seq(Label)
      <2>1. CASE requested = <<>>
        BY <2>1, RegistryAssumption DEF Init, Wanted
      <2>2. CASE requested # <<>>
        <3>1. requested \in Seq(Spellings)
          BY RequestAssumption DEF Init
        <3>2. \A i \in 1 .. Len(requested) : Normal[requested[i]] \in Nat
          BY <3>1, RequestAssumption, ElementOfSeq
        <3>3. Len(requested) \in Nat
          BY <3>1, LenProperties
        <3>4. [i \in 1 .. Len(requested) |-> Normal[requested[i]]] \in Seq(Label)
          BY <3>2, <3>3, IsASeq DEF Label
        <3> QED
          BY <2>2, <3>4 DEF Init, Wanted
      <2> QED
        BY <2>1, <2>2
    <1>2. modules \in Seq(Label) /\ future \in Seq(Future) /\ results \in Seq(ModuleResult)
      BY EmptySeq DEF Init
    <1>3. behaved \in Seq(Behaviour \cup {Unknown}) /\ queue \in Seq(Jobs)
      BY EmptySeq DEF Init
    <1>4. Len(future) <= Len(modules) /\ Len(behaved) = Len(future)
      BY EmptySeq DEF Init
    <1> QED
      BY <1>1, <1>2, <1>3, <1>4, ConfigAssumption DEF Init, TypeOK, WithPool

LEMMA NextTypeOK == TypeOK /\ [Next]_vars => TypeOK'
    <1> SUFFICES ASSUME TypeOK, [Next]_vars PROVE TypeOK'
      OBVIOUS
    <1> USE DEF TypeOK, WithPool, fields, pool, mainvars
    <1>a. Len(future) \in Nat /\ Len(modules) \in Nat
      BY LenProperties
    <1>b. Jobs \subseteq Nat /\ Jobs \subseteq 1 .. Len(modules)
      BY <1>a DEF Jobs
    <1>1. CASE SelectModule
      <2>1. Head(asked) \in Label /\ Tail(asked) \in Seq(Label)
        BY <1>1, HeadTailProperties DEF SelectModule
      <2>2. /\ Append(modules, Head(asked)) \in Seq(Label)
            /\ Len(Append(modules, Head(asked))) = Len(modules) + 1
        BY <2>1, AppendProperties
      <2> QED
        BY <1>1, <1>a, <2>1, <2>2 DEF SelectModule, Jobs
    <1>2. CASE ConstructorRaises
      BY <1>2 DEF ConstructorRaises, Jobs
    <1>3. CASE NothingToRun
      BY <1>3 DEF NothingToRun, Jobs
    <1>4. CASE OpenPool
      BY <1>4 DEF OpenPool, Jobs
    <1>5. CASE Submit
      <2> DEFINE j == Len(future) + 1
      <2> HIDE DEF j
      <2>1. j \in 1 .. Len(modules)
        BY <1>5, <1>a DEF Submit, j
      <2>2. [state |-> "pending", result |-> Blank(j)] \in Future
        BY <2>1, BlankType DEF Future
      <2>3. /\ Append(future, [state |-> "pending", result |-> Blank(j)]) \in Seq(Future)
            /\ Len(Append(future, [state |-> "pending", result |-> Blank(j)])) = j
        BY <2>2, AppendProperties DEF j
      <2>4. /\ Append(behaved, Unknown) \in Seq(Behaviour \cup {Unknown})
            /\ Len(Append(behaved, Unknown)) = j
        BY AppendProperties DEF j
      <2>5. Jobs' = 1 .. j /\ Jobs \subseteq Jobs'
        BY <1>5, <2>3, <1>a DEF Jobs, Submit, j
      <2>6. queue \in Seq(1 .. j)
        BY <2>5, SeqMonotonic, <1>5 DEF Submit
      <2>7. queue' \in Seq(Jobs')
        BY <2>1, <2>5, <2>6, AppendProperties, <1>5 DEF Submit, j
      <2>9. future' \in Seq(Future) /\ Len(future') = j
        BY <1>5, <2>3 DEF Submit, j
      <2>10. behaved' \in Seq(Behaviour \cup {Unknown}) /\ Len(behaved') = j
        BY <1>5, <2>4 DEF Submit
      <2> QED
        BY <1>5, <2>1, <2>5, <2>7, <2>9, <2>10 DEF Submit, Behaviour, Future
    <1>6. ASSUME NEW j \in Jobs, Collect(j) PROVE TypeOK'
      <2>1. j \in 1 .. Len(modules) /\ future[j] \in Future
        BY <1>b, ElementOfSeq DEF Jobs
      <2>2. Blank(j) \in ModuleResult
        BY <2>1, BlankType
      <2>3. [Blank(j) EXCEPT !.error = "collection"] \in ModuleResult
        BY <2>2 DEF ModuleResult
      <2>4. future[j].result \in ModuleResult
        BY <2>1 DEF Future
      <2>5. \A r \in ModuleResult : Append(results, r) \in Seq(ModuleResult)
        BY AppendProperties
      <2>6. \/ results' = results
            \/ results' = Append(results, future[j].result)
            \/ results' = Append(results, [Blank(j) EXCEPT !.error = "collection"])
        BY <1>6 DEF Collect
      <2>7. results' \in Seq(ModuleResult)
        BY <2>3, <2>4, <2>5, <2>6
      <2> QED
        BY <1>6, <2>7 DEF Collect, Jobs
    <1>7. CASE AllCollected
      BY <1>7 DEF AllCollected, Jobs
    <1>8. CASE PoolJoined
      BY <1>8 DEF PoolJoined, Jobs
    <1>9. CASE SortResults
      <2>1. PICK p \in Stably(results) :
                results' = [i \in 1 .. Len(results) |-> results[p[i]]]
        BY <1>9 DEF SortResults
      <2>2. p \in [1 .. Len(results) -> 1 .. Len(results)] /\ Len(results) \in Nat
        BY <2>1, LenProperties DEF Stably
      <2>3. \A i \in 1 .. Len(results) : results[p[i]] \in ModuleResult
        BY <2>2, ElementOfSeq
      <2>4. results' \in Seq(ModuleResult)
        BY <2>1, <2>2, <2>3, IsASeq
      <2> QED
        BY <1>9, <2>4 DEF SortResults, Jobs
    <1>10. CASE Interrupt
      BY <1>10, ConfigAssumption DEF Interrupt, Jobs
    <1>11. CASE TakeJob
      <2>1. Head(queue) \in Jobs /\ Tail(queue) \in Seq(Jobs)
        BY <1>11, HeadTailProperties DEF TakeJob
      <2> QED
        BY <1>11, <2>1 DEF TakeJob, Jobs
    <1>12. ASSUME NEW j \in Jobs, FinishJob(j) PROVE TypeOK'
      <2>1. PICK b \in Behaviour : /\ future' = [future EXCEPT ![j] = RunSingleModule(j, b)]
                                   /\ behaved' = [behaved EXCEPT ![j] = b]
        BY <1>12 DEF FinishJob
      <2>2. j \in 1 .. Len(future) /\ j \in 1 .. Len(behaved) /\ j \in 1 .. Len(modules)
        BY <1>b DEF Jobs
      <2>3. RunSingleModule(j, b) \in Future
        BY <2>2, RunSingleModuleType
      <2>4. future' \in Seq(Future) /\ Len(future') = Len(future)
        BY <2>1, <2>2, <2>3, ExceptSeq
      <2>5. behaved' \in Seq(Behaviour \cup {Unknown}) /\ Len(behaved') = Len(behaved)
        BY <2>1, <2>2, ExceptSeq
      <2> QED
        BY <1>12, <2>4, <2>5 DEF FinishJob, Jobs
    <1>13. CASE ExitThread
      BY <1>13 DEF ExitThread, Jobs
    <1>14. CASE UNCHANGED vars
      BY <1>14 DEF vars, Jobs
    <1>15. CASE Spawn
      BY <1>15 DEF Spawn, AfterSubmit, Jobs
    <1>16. CASE Register
      BY <1>16 DEF Register, AfterSubmit, Jobs
    <1>17. CASE SortRaises
      BY <1>17 DEF SortRaises, Jobs
    <1> QED
      BY <1>1, <1>2, <1>3, <1>4, <1>5, <1>6, <1>7, <1>8, <1>9, <1>10, <1>11, <1>12,
         <1>13, <1>14, <1>15, <1>16, <1>17 DEF Next, MainStep, ThreadStep, Finished

(***************************************************************************)
(* In every instance of the engine the state of run_scan is well typed.    *)
(***************************************************************************)
THEOREM TypeCorrect == Spec => []TypeOK
    BY InitTypeOK, NextTypeOK, PTL DEF Spec

-----------------------------------------------------------------------------
(***************************************************************************)
(* The inductive invariant.                                                *)
(***************************************************************************)
LEMMA InitEngineInv == Init => EngineInv
    BY EmptySeq DEF Init, EngineInv, JobInOnePlace, OutcomeInv, ReportInv, PhaseInv,
                    Settled, Jobs

(***************************************************************************)
(* What a step that touches neither futures nor modules leaves alone.      *)
(***************************************************************************)
LEMMA FramedFutures ==
    ASSUME UNCHANGED <<future, behaved, modules, severity_threshold>>
    PROVE  /\ Jobs' = Jobs /\ Settled' = Settled
           /\ OutcomeInv => OutcomeInv'
    <1>1. Jobs' = Jobs /\ Settled' = Settled
      BY DEF Jobs, Settled
    <1>2. \A j, b : RunSingleModule(j, b)' = RunSingleModule(j, b)
      BY DEF RunSingleModule, Blank
    <1> QED
      BY <1>1, <1>2 DEF OutcomeInv

(***************************************************************************)
(* The same for the pool: a job's place depends on queue and running only. *)
(***************************************************************************)
LEMMA FramedPlaces ==
    ASSUME UNCHANGED <<future, queue, running>>, JobInOnePlace
    PROVE  JobInOnePlace'
    BY DEF JobInOnePlace, Jobs, Settled

(***************************************************************************)
(* The collected results stay right as long as settled futures keep their  *)
(* value.                                                                  *)
(***************************************************************************)
LEMMA FramedReport ==
    ASSUME ReportInv, UNCHANGED <<yielded, results>>, Settled \subseteq Settled',
           \A j \in Settled : future'[j] = future[j]
    PROVE  ReportInv'
    <1>1. \A j \in Settled : /\ IsFatal(future'[j]) = IsFatal(future[j])
                             /\ EntryOf(future'[j]) = EntryOf(future[j])
      OBVIOUS
    <1>2. \A i \in 1 .. Len(results) : results[i].job \in Settled
      BY DEF ReportInv
    <1>3. \A i \in 1 .. Len(results) :
             /\ results[i].job \in yielded /\ ~IsFatal(future'[results[i].job])
             /\ results[i] = EntryOf(future'[results[i].job])
      BY <1>1, <1>2 DEF ReportInv
    <1>4. \A j \in yielded :
             IsFatal(future'[j]) \/ \E i \in 1 .. Len(results) : results[i].job = j
      BY <1>1 DEF ReportInv
    <1>5. yielded \subseteq Settled'
      BY DEF ReportInv
    <1>6. \A i, k \in 1 .. Len(results) : results[i].job = results[k].job => i = k
      BY DEF ReportInv
    <1> QED
      BY <1>3, <1>4, <1>5, <1>6 DEF ReportInv

LEMMA NextEngineInv == TypeOK /\ EngineInv /\ [Next]_vars => EngineInv'
    <1> SUFFICES ASSUME TypeOK, EngineInv, [Next]_vars PROVE EngineInv'
      OBVIOUS
    <1> USE DEF fields, pool, mainvars, WithPool
    <1>a. Len(future) \in Nat /\ Len(modules) \in Nat /\ Len(results) \in Nat
            /\ Len(behaved) = Len(future)
      BY LenProperties DEF TypeOK
    <1>b. Jobs \subseteq 1 .. Len(modules) /\ Settled \subseteq Jobs /\ Jobs = 1 .. Len(future)
      BY <1>a DEF Jobs, Settled, TypeOK
    <1>c. JobInOnePlace /\ OutcomeInv /\ ReportInv /\ PhaseInv
      BY DEF EngineInv
    <1>1. CASE SelectModule
      <2>1. future = <<>>
        BY <1>1, <1>c DEF SelectModule, PhaseInv
      <2>2. Jobs = {} /\ Settled = {} /\ Jobs' = {} /\ Settled' = {}
        BY <1>1, <2>1 DEF SelectModule, Jobs, Settled
      <2>3. JobInOnePlace'
        BY <1>1, <1>c, FramedPlaces DEF SelectModule
      <2>4. ReportInv'
        BY <1>1, <1>c, <2>2 DEF SelectModule, ReportInv
      <2>5. PhaseInv'
        BY <1>1, <1>c, <2>1, <2>2 DEF SelectModule, PhaseInv, ReportInv
      <2> QED
        BY <2>2, <2>3, <2>4, <2>5 DEF EngineInv, OutcomeInv
    <1>2. CASE ConstructorRaises \/ NothingToRun \/ OpenPool \/ AllCollected \/ PoolJoined
                  \/ Interrupt \/ ExitThread \/ Spawn \/ Register \/ SortRaises
                  \/ UNCHANGED vars
      <2>1. UNCHANGED <<future, behaved, modules, severity_threshold, queue, running,
                        yielded, results>>
        BY <1>2 DEF ConstructorRaises, NothingToRun, OpenPool, AllCollected, PoolJoined,
                    Interrupt, ExitThread, Spawn, Register, SortRaises, vars
      <2>2. JobInOnePlace' /\ OutcomeInv'
        BY <1>c, <2>1, FramedFutures, FramedPlaces
      <2>3. ReportInv'
        BY <1>c, <2>1, FramedFutures DEF ReportInv, IsFatal, EntryOf
      <2>4. PhaseInv'
        <3>1. Jobs' = Jobs
          BY <2>1, FramedFutures
        <3>2. \A j : IsFatal(future[j])' <=> IsFatal(future[j])
          BY <2>1 DEF IsFatal
        <3>3. CASE ConstructorRaises
          BY <3>3, <3>1, <3>2, <2>1, <1>c DEF ConstructorRaises, PhaseInv
        <3>4. CASE NothingToRun
          <4>1. future = <<>> /\ modules = <<>> /\ Jobs = {} /\ yielded = {}
            BY <3>4, <1>b, <1>c DEF NothingToRun, PhaseInv, ReportInv, Jobs
          <4> QED
            BY <3>4, <3>1, <3>2, <4>1, <2>1, <1>c DEF NothingToRun, PhaseInv
        <3>5. CASE OpenPool
          BY <3>5, <3>1, <3>2, <2>1, <1>c DEF OpenPool, PhaseInv
        <3>6. CASE AllCollected
          BY <3>6, <3>1, <3>2, <2>1, <1>c DEF AllCollected, PhaseInv
        <3>7. CASE PoolJoined
          BY <3>7, <3>1, <3>2, <2>1, <1>c DEF PoolJoined, PhaseInv
        <3>8. CASE Interrupt
          BY <3>8, <3>1, <3>2, <2>1, <1>c, ConfigAssumption DEF Interrupt, PhaseInv, TypeOK
        <3>9. CASE ExitThread
          BY <3>9, <3>1, <3>2, <2>1, <1>c DEF ExitThread, PhaseInv
        <3>10. CASE UNCHANGED vars
          BY <3>10, <3>1, <3>2, <2>1, <1>c DEF vars, PhaseInv
        <3>11. CASE Spawn
          BY <3>11, <3>1, <3>2, <2>1, <1>c DEF Spawn, AfterSubmit, PhaseInv
        <3>12. CASE Register
          BY <3>12, <3>1, <3>2, <2>1, <1>c DEF Register, AfterSubmit, PhaseInv
        <3>13. CASE SortRaises
          BY <3>13, <3>1, <3>2, <2>1, <1>c DEF SortRaises, PhaseInv
        <3> QED
          BY <1>2, <3>3, <3>4, <3>5, <3>6, <3>7, <3>8, <3>9, <3>10, <3>11, <3>12, <3>13
      <2> QED
        BY <2>2, <2>3, <2>4 DEF EngineInv
    <1>3. CASE Submit
      <2> DEFINE j == Len(future) + 1
                 f == [state |-> "pending", result |-> Blank(j)]
      <2>1. j \in Nat /\ j \in 1 .. Len(modules) /\ j \notin Jobs
        BY <1>3, <1>a, <1>b DEF Submit
      <2>2. f \in Future
        BY <2>1, BlankType DEF Future, TypeOK
      <2> HIDE DEF j
      <2>3. /\ future' = Append(future, f) /\ Len(future') = j /\ future'[j] = f
            /\ \A k \in Jobs : future'[k] = future[k]
            /\ future \in Seq(Future)
        BY <1>3, <2>2, <1>b, AppendProperties DEF Submit, TypeOK, j
      <2>4. /\ \A k \in Jobs : behaved'[k] = behaved[k]
        BY <1>3, <1>a, <1>b, AppendProperties DEF Submit, TypeOK
      <2>5. Jobs' = Jobs \cup {j}
        BY <2>1, <2>3, <1>a, <1>b DEF Jobs, j
      <2>6. Settled' = Settled
        BY <2>1, <2>3, <2>5, <1>b DEF Settled
      <2>7. UNCHANGED <<modules, severity_threshold, running, yielded, results, exc,
                        interrupts>>
        BY <1>3 DEF Submit
      <2>8. JobInOnePlace'
        <3>1. /\ queue \in Seq(Nat) /\ queue' = Append(queue, j)
              /\ \A i \in 1 .. Len(queue) : queue[i] \in Jobs
          <4>1. queue \in Seq(Jobs) /\ Jobs \subseteq Nat
            BY <1>a, <1>b DEF TypeOK
          <4>2. queue \in Seq(Nat)
            BY <4>1, SeqMonotonic
          <4>3. queue' = Append(queue, j)
            BY <1>3 DEF Submit, j
          <4> QED
            BY <4>1, <4>2, <4>3, ElementOfSeq
        <3>2. /\ Len(queue) \in Nat /\ Len(queue') = Len(queue) + 1
              /\ \A i \in 1 .. Len(queue) : queue'[i] = queue[i]
              /\ queue'[Len(queue) + 1] = j
          BY <3>1, <2>1, AppendProperties, LenProperties
        <3>3. \A i \in 1 .. Len(queue') : i \in 1 .. Len(queue) \/ i = Len(queue) + 1
          BY <3>2
        <3>4. j \notin running /\ j \notin Settled
          BY <2>1, <1>b DEF TypeOK
        <3>5. \A i, k \in 1 .. Len(queue') : queue'[i] = queue'[k] => i = k
          BY <3>1, <3>2, <3>3, <2>1, <1>c DEF JobInOnePlace
        <3>6. \A i \in 1 .. Len(queue') : queue'[i] \notin running \cup Settled
          BY <3>2, <3>3, <3>4, <1>c DEF JobInOnePlace
        <3>7. \A k \in Jobs' \ (running \cup Settled) :
                  \E i \in 1 .. Len(queue') : queue'[i] = k
          BY <3>2, <2>5, <1>c DEF JobInOnePlace
        <3> QED
          BY <3>5, <3>6, <3>7, <2>6, <2>7, <1>c DEF JobInOnePlace
      <2>9. OutcomeInv'
        <3>1. \A k, b : RunSingleModule(k, b)' = RunSingleModule(k, b)
          BY <2>7 DEF RunSingleModule, Blank
        <3> QED
          BY <3>1, <2>3, <2>4, <2>6, <1>b, <1>c DEF OutcomeInv
      <2>10. ReportInv'
        BY <2>3, <2>6, <2>7, <1>b, <1>c, FramedReport
      <2>11. PhaseInv'
        <3>1. pc = "submit" /\ exc = "none"
          BY <1>3, <1>c DEF Submit, PhaseInv
        <3>2. pc' = "spawn"
          BY <1>3 DEF Submit
        <3>3. \A k \in yielded : ~IsFatal(future'[k])
          BY <3>1, <2>3, <1>b, <1>c DEF PhaseInv, IsFatal, ReportInv
        <3> QED
          BY <3>1, <3>2, <3>3, <2>3, <2>7 DEF PhaseInv, IsFatal
      <2> QED
        BY <2>8, <2>9, <2>10, <2>11 DEF EngineInv
    <1>4. ASSUME NEW j \in Jobs, Collect(j) PROVE EngineInv'
      <2>1. /\ j \in Settled \ yielded /\ yielded' = yielded \cup {j}
            /\ UNCHANGED <<future, behaved, modules, severity_threshold, queue, running,
                           interrupts>>
        BY <1>4 DEF Collect
      <2>2. JobInOnePlace' /\ OutcomeInv' /\ Jobs' = Jobs /\ Settled' = Settled
        BY <1>c, <2>1, FramedFutures, FramedPlaces
      <2>3. j \in 1 .. Len(modules) /\ behaved[j] \in Behaviour
                /\ future[j] = RunSingleModule(j, behaved[j])
        BY <2>1, <1>b, <1>c DEF OutcomeInv
      <2>4. future[j] \in Future /\ future[j].result.job = j
        BY <2>3, RunSingleModuleType DEF TypeOK
      <2>5. CASE IsFatal(future[j])
        <3>1. /\ pc' = "shutdown" /\ results' = results
              /\ \/ exc' = "quit" /\ future[j].state = "quit"
                 \/ exc' = "error" /\ future[j].state = "unspeakable"
          BY <1>4, <2>5 DEF Collect, IsFatal
        <3>2. ReportInv'
          BY <2>1, <2>2, <2>5, <3>1, <1>c DEF ReportInv, IsFatal, EntryOf
        <3>3. PhaseInv'
          BY <2>1, <2>5, <3>1 DEF PhaseInv, IsFatal
        <3> QED
          BY <2>2, <3>2, <3>3 DEF EngineInv
      <2>6. CASE ~IsFatal(future[j])
        <3> DEFINE e == EntryOf(future[j])
        <3>1. e \in ModuleResult /\ e.job = j
          BY <2>4 DEF EntryOf, Future, ModuleResult
        <3>2. future[j].state = "result" => e = future[j].result
          BY DEF EntryOf
        <3>a. future[j].state \in {"result", "exception"}
          BY <2>1, <2>4, <2>6 DEF IsFatal, Future, Settled
        <3>3. future[j].state = "exception" => e = [Blank(j) EXCEPT !.error = "collection"]
          BY <2>3, DeedAssumption DEF EntryOf, RunSingleModule, Behaviour
        <3> HIDE DEF e
        <3>4. results' = Append(results, e) /\ UNCHANGED <<pc, exc>>
          BY <1>4, <3>a, <3>2, <3>3 DEF Collect
        <3>5. results \in Seq(ModuleResult)
          BY DEF TypeOK
        <3>6. /\ Len(results') = Len(results) + 1 /\ results'[Len(results) + 1] = e
              /\ \A i \in 1 .. Len(results) : results'[i] = results[i]
          BY <3>1, <3>4, <3>5, AppendProperties
        <3>7. \A i \in 1 .. Len(results') : i \in 1 .. Len(results) \/ i = Len(results) + 1
          BY <3>6, <1>a
        <3>8. \A i \in 1 .. Len(results) : results[i].job \in yielded /\ results[i].job # j
          BY <2>1, <1>c DEF ReportInv
        <3>9. \A i \in 1 .. Len(results') :
                 /\ results'[i].job \in yielded' /\ ~IsFatal(future[results'[i].job])
                 /\ results'[i] = EntryOf(future[results'[i].job])
          <4>1. \A i \in 1 .. Len(results) :
                 /\ ~IsFatal(future[results[i].job])
                 /\ results[i] = EntryOf(future[results[i].job])
            BY <1>c DEF ReportInv
          <4> QED
            BY <4>1, <2>1, <2>6, <3>1, <3>6, <3>7, <3>8 DEF IsFatal, e
        <3>10. \A i, k \in 1 .. Len(results') :
                  results'[i].job = results'[k].job => i = k
          BY <3>1, <3>6, <3>7, <3>8, <1>c DEF ReportInv
        <3>11. \A k \in yielded' :
                  IsFatal(future[k]) \/ \E i \in 1 .. Len(results') : results'[i].job = k
          <4>1. Len(results) + 1 \in 1 .. Len(results')
            BY <3>6, <1>a
          <4>2. 1 .. Len(results) \subseteq 1 .. Len(results')
            BY <3>6, <1>a
          <4>3. \A k \in yielded :
                  IsFatal(future[k]) \/ \E i \in 1 .. Len(results) : results[i].job = k
            BY <1>c DEF ReportInv
          <4> QED
            BY <4>1, <4>2, <4>3, <2>1, <3>1, <3>6
        <3>12. ReportInv'
          <4>1. \A k : IsFatal(future[k])' = IsFatal(future[k])
                   /\ EntryOf(future[k])' = EntryOf(future[k])
            BY <2>1 DEF IsFatal, EntryOf
          <4>2. yielded' \subseteq Settled'
            BY <2>1, <2>2, <1>c DEF ReportInv
          <4> QED
            BY <4>1, <4>2, <2>1, <3>9, <3>10, <3>11 DEF ReportInv, IsFatal, EntryOf
        <3>13. PhaseInv'
          <4>1. pc = "collect" /\ exc = "none"
            BY <1>4, <1>c DEF Collect, PhaseInv
          <4> QED
            BY <4>1, <2>1, <2>6, <3>4, <1>c DEF PhaseInv, IsFatal
        <3> QED
          BY <2>2, <3>12, <3>13 DEF EngineInv
      <2> QED
        BY <2>5, <2>6
    <1>5. CASE SortResults
      <2> DEFINE n == Len(results)
      <2>1. PICK p \in Stably(results) : results' = [i \in 1 .. n |-> results[p[i]]]
        BY <1>5 DEF SortResults
      <2>2. /\ UNCHANGED <<future, behaved, modules, severity_threshold, queue, running,
                           yielded, exc, interrupts>>
            /\ pc = "sort" /\ pc' = "returned"
        BY <1>5 DEF SortResults
      <2>3. JobInOnePlace' /\ OutcomeInv' /\ Jobs' = Jobs /\ Settled' = Settled
        BY <1>c, <2>2, FramedFutures, FramedPlaces
      <2>4. PhaseInv'
        BY <2>2, <2>3, <1>c DEF PhaseInv, IsFatal
      <2>5. p \in [1 .. n -> 1 .. n] /\ \A i \in 1 .. n : results[p[i]] \in ModuleResult
        BY <2>1, ElementOfSeq DEF Stably, TypeOK
      <2>6. /\ Len(results') = n
            /\ \A i \in 1 .. n : results'[i] = results[p[i]] /\ p[i] \in 1 .. n
        BY <2>1, <2>5, <1>a
      <2>7. \A i, k \in 1 .. n : p[i] = p[k] => i = k
        <3>1. \A r \in ModuleResult : r.module_name \in Int
          BY DEF ModuleResult, Label, Nameless
        <3>2. \A i, k \in 1 .. n : i < k =>
                 \/ results[p[i]].module_name < results[p[k]].module_name
                 \/ p[i] < p[k]
          BY <2>1 DEF Stably
        <3>3. \A i \in 1 .. n : results[p[i]].module_name \in Int /\ p[i] \in Int
          BY <2>5, <2>6, <3>1
        <3>4. \A i, k \in 1 .. n : i < k => p[i] # p[k]
          BY <3>2, <3>3
        <3> QED
          BY <3>4, <1>a
      <2>8. \A m \in 1 .. n : \E i \in 1 .. n : p[i] = m
        <3>1. p \in Injection(1 .. n, 1 .. n)
          BY <2>5, <2>7 DEF Injection, IsInjective
        <3>2. IsFiniteSet(1 .. n)
          BY <1>a, FS_Interval
        <3>3. p \in Surjection(1 .. n, 1 .. n)
          BY <3>1, <3>2, FS_Injection
        <3> QED
          BY <3>3 DEF Surjection
      <2>9. ReportInv'
        <3>1. \A i \in 1 .. n :
                 /\ results[i].job \in yielded /\ ~IsFatal(future[results[i].job])
                 /\ results[i] = EntryOf(future[results[i].job])
          BY <1>c DEF ReportInv
        <3>2. \A i \in 1 .. n :
                 /\ results'[i].job \in yielded /\ ~IsFatal(future[results'[i].job])
                 /\ results'[i] = EntryOf(future[results'[i].job])
          BY <3>1, <2>6
        <3>3. \A i, k \in 1 .. n : results'[i].job = results'[k].job => i = k
          BY <2>6, <2>7, <1>c DEF ReportInv
        <3>4. \A j \in yielded :
                 IsFatal(future[j]) \/ \E i \in 1 .. n : results'[i].job = j
          BY <2>6, <2>8, <1>c DEF ReportInv
        <3>5. yielded \subseteq Settled
          BY <1>c DEF ReportInv
        <3> QED
          BY <3>2, <3>3, <3>4, <3>5, <2>2, <2>3, <2>6 DEF ReportInv, IsFatal, EntryOf
      <2> QED
        BY <2>3, <2>4, <2>9 DEF EngineInv
    <1>6. CASE TakeJob
      <2>1. /\ queue # <<>> /\ queue' = Tail(queue) /\ running' = running \cup {Head(queue)}
            /\ UNCHANGED <<future, behaved, modules, severity_threshold, yielded, results,
                           pc, exc, interrupts>>
        BY <1>6 DEF TakeJob
      <2>2. OutcomeInv' /\ Jobs' = Jobs /\ Settled' = Settled
        BY <1>c, <2>1, FramedFutures
      <2>3. ReportInv' /\ PhaseInv'
        BY <1>c, <2>1, <2>2, FramedReport DEF PhaseInv, IsFatal
      <2>4. /\ Len(queue) \in Nat \ {0} /\ Len(queue') = Len(queue) - 1
            /\ \A i \in 1 .. Len(queue') : queue'[i] = queue[i + 1]
            /\ Head(queue) = queue[1]
        BY <2>1, HeadTailProperties, EmptySeq DEF TypeOK
      <2>5. \A i \in 1 .. Len(queue') : i + 1 \in 1 .. Len(queue) /\ i + 1 # 1
        BY <2>4
      <2>6. \A i, k \in 1 .. Len(queue') : queue'[i] = queue'[k] => i = k
        BY <2>4, <2>5, <1>c DEF JobInOnePlace
      <2>7. \A i \in 1 .. Len(queue') : queue'[i] \notin running' \cup Settled
        BY <2>1, <2>4, <2>5, <1>c DEF JobInOnePlace
      <2>8. running' \cap Settled = {}
        BY <2>1, <2>4, <1>c DEF JobInOnePlace
      <2>9. \A j \in Jobs \ (running' \cup Settled) :
                \E i \in 1 .. Len(queue') : queue'[i] = j
        <3> SUFFICES ASSUME NEW j \in Jobs \ (running' \cup Settled)
                     PROVE  \E i \in 1 .. Len(queue') : queue'[i] = j
          OBVIOUS
        <3>1. PICK m \in 1 .. Len(queue) : queue[m] = j
          BY <2>1, <1>c DEF JobInOnePlace
        <3>2. m # 1
          BY <3>1, <2>1, <2>4
        <3>3. m - 1 \in 1 .. Len(queue') /\ queue'[m - 1] = queue[m]
          BY <3>2, <2>4
        <3> QED
          BY <3>1, <3>3
      <2> QED
        BY <2>2, <2>3, <2>6, <2>7, <2>8, <2>9 DEF EngineInv, JobInOnePlace
    <1>7. ASSUME NEW j \in Jobs, FinishJob(j) PROVE EngineInv'
      <2>1. PICK b \in Behaviour : /\ future' = [future EXCEPT ![j] = RunSingleModule(j, b)]
                                   /\ behaved' = [behaved EXCEPT ![j] = b]
        BY <1>7 DEF FinishJob
      <2>2. /\ j \in running /\ running' = running \ {j}
            /\ UNCHANGED <<queue, modules, severity_threshold, yielded, results, pc, exc,
                           interrupts>>
        BY <1>7 DEF FinishJob
      <2>3. j \in 1 .. Len(modules) /\ j \notin Settled /\ j \in Jobs
        BY <1>b, <1>c, <2>2 DEF JobInOnePlace
      <2>4. RunSingleModule(j, b) \in Future /\ RunSingleModule(j, b).state # "pending"
        BY <2>3, RunSingleModuleType DEF TypeOK
      <2>5. /\ Len(future') = Len(future) /\ future'[j] = RunSingleModule(j, b)
            /\ \A k \in Jobs : k # j => future'[k] = future[k]
            /\ behaved'[j] = b
            /\ \A k \in Jobs : k # j => behaved'[k] = behaved[k]
        BY <2>1, <2>3, <2>4, <1>a, <1>b, ExceptSeq DEF TypeOK
      <2>6. Jobs' = Jobs /\ Settled' = Settled \cup {j}
        <3>1. Jobs' = Jobs
          BY <2>5 DEF Jobs
        <3> QED
          BY <3>1, <2>3, <2>4, <2>5 DEF Settled
      <2>7. JobInOnePlace'
        BY <2>2, <2>6, <1>c DEF JobInOnePlace
      <2>8. OutcomeInv'
        <3>1. \A k, c : RunSingleModule(k, c)' = RunSingleModule(k, c)
          BY <2>2 DEF RunSingleModule, Blank
        <3> QED
          BY <3>1, <2>3, <2>5, <2>6, <1>b, <1>c DEF OutcomeInv
      <2>9. ReportInv'
        BY <2>2, <2>3, <2>5, <2>6, <1>b, <1>c, FramedReport
      <2>10. PhaseInv'
        <3>1. \A k \in yielded : IsFatal(future'[k]) = IsFatal(future[k])
          BY <2>3, <2>5, <1>b, <1>c DEF ReportInv, IsFatal
        <3>2. pc # "select" /\ future # <<>> /\ yielded # Jobs
          BY <2>3, <1>b, <1>c DEF PhaseInv, ReportInv, Jobs
        <3>3. \A k \in yielded : future'[k] = future[k]
          BY <2>3, <2>5, <1>b, <1>c DEF ReportInv
        <3>4. exc' = "error" => \E k \in yielded' : future'[k].state = "unspeakable"
          BY <3>2, <3>3, <2>2, <1>c DEF PhaseInv
        <3>5. exc' = "quit" => \E k \in yielded' : future'[k].state = "quit"
          BY <3>3, <2>2, <1>c DEF PhaseInv
        <3> QED
          BY <3>1, <3>2, <3>4, <3>5, <2>2, <2>5, <2>6, <1>c DEF PhaseInv
      <2> QED
        BY <2>7, <2>8, <2>9, <2>10 DEF EngineInv
    <1> QED
      BY <1>1, <1>2, <1>3, <1>4, <1>5, <1>6, <1>7 DEF Next, MainStep, ThreadStep, Finished

THEOREM EngineInvariant == Spec => []EngineInv
    BY TypeCorrect, InitEngineInv, NextEngineInv, PTL DEF Spec

-----------------------------------------------------------------------------
(***************************************************************************)
(* What follows from the inductive invariant.                              *)
(***************************************************************************)

(***************************************************************************)
(* A scan that returns has one result for every selected module, for any   *)
(* number of modules, threads and interrupts.                              *)
(***************************************************************************)
THEOREM ReturnsComplete == Spec => []OneResultPerModule
    <1>1. TypeOK /\ EngineInv => OneResultPerModule
      <2> SUFFICES ASSUME TypeOK, EngineInv, pc = "returned" PROVE OneResultPerModule
        BY DEF OneResultPerModule
      <2>1. exc = "none" /\ yielded = Jobs /\ Len(future) = Len(modules)
              /\ \A j \in yielded : ~IsFatal(future[j])
        BY DEF EngineInv, PhaseInv
      <2>2. yielded = 1 .. Len(modules)
        BY <2>1 DEF Jobs
      <2>3. \A i \in 1 .. Len(results) : results[i].job \in yielded
        BY DEF EngineInv, ReportInv
      <2>4. \A i, k \in 1 .. Len(results) : results[i].job = results[k].job => i = k
        BY DEF EngineInv, ReportInv
      <2>5. \A j \in yielded : \E i \in 1 .. Len(results) : results[i].job = j
        BY <2>1 DEF EngineInv, ReportInv
      <2> QED
        BY <2>2, <2>3, <2>4, <2>5 DEF OneResultPerModule
    <1> QED
      BY <1>1, TypeCorrect, EngineInvariant, PTL

(***************************************************************************)
(* No finding at or above the threshold disappears from a returned scan    *)
(* without an error in its module's result, and a result without error or  *)
(* skip is that of a module that ran.                                      *)
(***************************************************************************)
THEOREM LosesNothingSilently == Spec => []NoSilentLoss
    <1>1. TypeOK /\ EngineInv => NoSilentLoss
      <2> SUFFICES ASSUME TypeOK, EngineInv, pc = "returned", NEW i \in DOMAIN results,
                          results[i].error = "none"
                   PROVE  LET r == results[i]
                              b == behaved[r.job]
                          IN  /\ {f \in b.findings : f.severity >= severity_threshold}
                                     \subseteq r.findings
                              /\ ~r.skipped => b.does = "run"
        BY DEF NoSilentLoss
      <2> DEFINE j == results[i].job
                 b == behaved[j]
      <2>1. i \in 1 .. Len(results)
        BY LenProperties DEF TypeOK
      <2>2. j \in Settled /\ results[i] = EntryOf(future[j]) /\ ~IsFatal(future[j])
        BY <2>1 DEF EngineInv, ReportInv
      <2>3. b \in Behaviour /\ future[j] = RunSingleModule(j, b)
        BY <2>2 DEF EngineInv, OutcomeInv
      <2>4. j \in 1 .. Len(modules) /\ modules \in Seq(Label)
        BY <2>2, LenProperties DEF Settled, Jobs, TypeOK
      <2>5. Blank(j) \in ModuleResult /\ Blank(j).error = "none" /\ ~Blank(j).skipped
        BY <2>4, BlankType
      <2>6. b.does \in {"unavailable", "run", "crash", "unprintable", "unspeakable", "quit"}
              /\ (b.does # "run" => b.findings = {})
        BY <2>3, DeedAssumption DEF Behaviour
      <2> HIDE DEF j, b
      <2>7. results[i] = EntryOf(RunSingleModule(j, b)) /\ results[i].error = "none"
        BY <2>2, <2>3
      <2>8. b.does = "unavailable" \/ (b.does = "run" /\ ~FilterRaises(b.findings, severity_threshold))
        <3>1. \A r \in ModuleResult : /\ [r EXCEPT !.error = "crashed"].error = "crashed"
                                      /\ [r EXCEPT !.error = "collection"].error = "collection"
          BY DEF ModuleResult
        <3>2. CASE b.does = "run" /\ FilterRaises(b.findings, severity_threshold)
          BY <2>5, <2>7, <3>1, <3>2 DEF RunSingleModule, EntryOf
        <3>3. CASE b.does = "crash"
          BY <2>5, <2>7, <3>1, <3>3 DEF RunSingleModule, EntryOf
        <3>4. CASE b.does = "unprintable"
          BY <2>5, <2>7, <3>1, <3>4 DEF RunSingleModule, EntryOf
        <3>5. b.does \notin {"unspeakable", "quit"}
          BY <2>2, <2>3, DeedAssumption DEF RunSingleModule, IsFatal
        <3> QED
          BY <2>6, <3>2, <3>3, <3>4, <3>5
      <2>9. CASE b.does = "unavailable"
        <3>1. \A r \in ModuleResult : [r EXCEPT !.skipped = TRUE].skipped = TRUE
          BY DEF ModuleResult
        <3>2. results[i].skipped
          BY <2>5, <2>7, <2>9, <3>1 DEF RunSingleModule, EntryOf
        <3> QED
          BY <2>6, <2>9, <3>2 DEF j, b
      <2>10. CASE b.does = "run" /\ ~FilterRaises(b.findings, severity_threshold)
        <3>1. \A r \in ModuleResult, S \in SUBSET Findings, n \in Label :
                 [r EXCEPT !.findings = S, !.module_name = n].findings = S
          BY DEF ModuleResult
        <3>2. Filtered(b.findings, severity_threshold) \in SUBSET Findings
          BY <2>3 DEF Filtered, Behaviour
        <3>3. GivenName(j, b) \in Label
          BY <2>3, <2>4, GivenNameType
        <3>4. RunSingleModule(j, b) = [state |-> "result", result |-> Ran(j, b)]
          BY <2>10, RunReturns
        <3>5. Ran(j, b).findings = Filtered(b.findings, severity_threshold)
          BY <2>5, <3>1, <3>2, <3>3 DEF Ran
        <3>6. results[i].findings = Filtered(b.findings, severity_threshold)
          BY <2>7, <3>4, <3>5 DEF EntryOf
        <3> QED
          BY <2>10, <3>6 DEF j, b, Filtered
      <2> QED
        BY <2>8, <2>9, <2>10
    <1> QED
      BY <1>1, TypeCorrect, EngineInvariant, PTL

-----------------------------------------------------------------------------
(***************************************************************************)
(* The CI gate.                                                            *)
(***************************************************************************)

(***************************************************************************)
(* What the engine records for a module that did not quit: under the       *)
(* module's name, its findings through the filter or, with an error, none. *)
(***************************************************************************)
LEMMA EntryRecords ==
    ASSUME modules \in Seq(Label), NEW j \in 1 .. Len(modules), NEW b \in Behaviour,
           b.does \notin {"unspeakable", "quit"}
    PROVE  LET r == EntryOf(RunSingleModule(j, b))
           IN  /\ r.module_name = IF Relabelled(b) THEN b.label ELSE modules[j]
               /\ r.error = "none" => r.findings = Filtered(b.findings, severity_threshold)
               /\ r.error # "none" => r.findings = {}
    <1>1. /\ Blank(j) \in ModuleResult /\ Blank(j).error = "none" /\ Blank(j).findings = {}
          /\ Blank(j).module_name = modules[j]
      BY BlankType DEF Blank
    <1>2. b.does \in {"unavailable", "run", "crash", "unprintable"}
            /\ (b.does # "run" => b.findings = {}) /\ b.findings \in SUBSET Findings
      BY DeedAssumption DEF Behaviour
    <1>3. Filtered(b.findings, severity_threshold) \in SUBSET Findings
            /\ Filtered({}, severity_threshold) = {}
      BY <1>2 DEF Filtered
    <1>4. \A r \in ModuleResult :
             /\ LET q == [r EXCEPT !.skipped = TRUE]
                IN  q.error = r.error /\ q.findings = r.findings
                      /\ q.module_name = r.module_name
             /\ \A e \in {"crashed", "collection"} :
                   LET q == [r EXCEPT !.error = e]
                   IN  q.error = e /\ q.findings = r.findings
                         /\ q.module_name = r.module_name
             /\ \A S \in SUBSET Findings, n \in Label :
                   LET q == [r EXCEPT !.findings = S, !.module_name = n]
                   IN  q.error = r.error /\ q.findings = S /\ q.module_name = n
      BY DEF ModuleResult
    <1>5. CASE b.does = "unavailable"
      <2>1. EntryOf(RunSingleModule(j, b)) = [Blank(j) EXCEPT !.skipped = TRUE]
        BY <1>5 DEF RunSingleModule, EntryOf
      <2>2. Filtered(b.findings, severity_threshold) = {}
        BY <1>2, <1>3, <1>5
      <2> QED
        BY <1>1, <1>4, <1>5, <2>1, <2>2 DEF Relabelled
    <1>6. CASE b.does = "run" /\ ~FilterRaises(b.findings, severity_threshold)
      <2>1. EntryOf(RunSingleModule(j, b)) = Ran(j, b)
        BY <1>6, RunReturns DEF EntryOf
      <2>2. GivenName(j, b) \in Label
        BY GivenNameType
      <2>3. /\ Ran(j, b).error = "none" /\ Ran(j, b).module_name = GivenName(j, b)
            /\ Ran(j, b).findings = Filtered(b.findings, severity_threshold)
        BY <1>1, <1>3, <1>4, <2>2 DEF Ran
      <2> QED
        BY <1>6, <2>1, <2>3 DEF Relabelled, GivenName
    <1>7. CASE b.does = "run" /\ FilterRaises(b.findings, severity_threshold)
      BY <1>1, <1>4, <1>7 DEF RunSingleModule, EntryOf, Relabelled
    <1>8. CASE b.does = "crash"
      BY <1>1, <1>4, <1>8 DEF RunSingleModule, EntryOf, Relabelled
    <1>9. CASE b.does = "unprintable"
      BY <1>1, <1>4, <1>9 DEF RunSingleModule, EntryOf, Relabelled
    <1> QED
      BY <1>2, <1>5, <1>6, <1>7, <1>8, <1>9

LEMMA ResultRecords ==
    ASSUME TypeOK, EngineInv, NEW i \in 1 .. Len(results)
    PROVE  LET r == results[i]
               b == behaved[r.job]
           IN  /\ r.job \in 1 .. Len(modules) /\ r.module_name = NameOf(r.job)
               /\ b \in Behaviour
               /\ r.error = "none" => r.findings = Filtered(b.findings, severity_threshold)
               /\ r.error # "none" => r.findings = {}
    <1> DEFINE j == results[i].job
               b == behaved[j]
    <1>1. j \in Settled /\ results[i] = EntryOf(future[j]) /\ ~IsFatal(future[j])
      BY DEF EngineInv, ReportInv
    <1>2. b \in Behaviour /\ future[j] = RunSingleModule(j, b)
      BY <1>1 DEF EngineInv, OutcomeInv
    <1>3. j \in 1 .. Len(modules) /\ modules \in Seq(Label)
      BY <1>1, LenProperties DEF Settled, Jobs, TypeOK
    <1> HIDE DEF j, b
    <1>4. b.does \notin {"unspeakable", "quit"}
      BY <1>1, <1>2 DEF RunSingleModule, IsFatal
    <1>5. LET r == EntryOf(RunSingleModule(j, b))
          IN  /\ r.module_name = IF Relabelled(b) THEN b.label ELSE modules[j]
              /\ r.error = "none" => r.findings = Filtered(b.findings, severity_threshold)
              /\ r.error # "none" => r.findings = {}
      BY <1>2, <1>3, <1>4, EntryRecords
    <1>6. results[i] = EntryOf(RunSingleModule(j, b))
      BY <1>1, <1>2
    <1> QED
      BY <1>2, <1>3, <1>5, <1>6 DEF j, b, NameOf

(***************************************************************************)
(* run_scan raises only for an interrupt, a module that quit the           *)
(* interpreter, a configuration refused before any job, an exception the   *)
(* collecting handler cannot format either, or a name that is no string    *)
(* among several to be sorted: no other Exception of a module, and no      *)
(* malformed finding, is ever a cause.                                     *)
(***************************************************************************)
THEOREM FailsForACause == Spec => []FailureHasCause
    <1>1. TypeOK /\ EngineInv => FailureHasCause
      <2> SUFFICES ASSUME TypeOK, EngineInv, pc = "raised" PROVE FailureHasCause
        BY DEF FailureHasCause
      <2>1. exc \in {"error", "quit", "interrupt"}
        BY DEF TypeOK, EngineInv, PhaseInv
      <2>a. Len(modules) \in Nat /\ DOMAIN modules = 1 .. Len(modules)
            /\ Len(results) \in Nat /\ DOMAIN results = 1 .. Len(results)
        BY LenProperties DEF TypeOK
      <2>b. yielded \subseteq Settled
        BY DEF EngineInv, ReportInv
      <2>2. CASE exc = "error"
        <3>1. \/ future = <<>>
              \/ \E j \in yielded : future[j].state = "unspeakable"
              \/ /\ ~Sortable(results) /\ Len(future) = Len(modules) /\ yielded = Jobs
                 /\ \A j \in yielded : ~IsFatal(future[j])
          BY <2>2 DEF EngineInv, PhaseInv
        <3>2. CASE future = <<>>
          BY <2>2, <3>2 DEF FailureHasCause
        <3>3. ASSUME NEW j \in yielded, future[j].state = "unspeakable"
              PROVE  FailureHasCause
          <4>1. j \in Settled
            BY <2>b
          <4>2. behaved[j] \in Behaviour
                  /\ RunSingleModule(j, behaved[j]).state = "unspeakable"
            BY <3>3, <4>1 DEF EngineInv, OutcomeInv
          <4>3. behaved[j].does = "unspeakable"
            BY <4>2, DeedAssumption DEF Behaviour, RunSingleModule
          <4> QED
            BY <2>2, <4>1, <4>3 DEF FailureHasCause
        <3>4. CASE /\ ~Sortable(results) /\ Len(future) = Len(modules) /\ yielded = Jobs
                   /\ \A j \in yielded : ~IsFatal(future[j])
          <4>1. PICK i \in 1 .. Len(results) : results[i].module_name = Nameless
            BY <3>4 DEF Sortable
          <4>2. Len(results) > 1
            BY <3>4, <2>a DEF Sortable
          <4>3. yielded = 1 .. Len(modules) /\ Settled = DOMAIN modules
            BY <3>4, <2>a, <2>b DEF Jobs, Settled
          <4>4. /\ results[1].job \in yielded /\ results[2].job \in yielded
                /\ results[1].job # results[2].job /\ results[i].job \in yielded
            BY <4>2, <2>a DEF EngineInv, ReportInv
          <4>5. Len(modules) > 1
            BY <4>3, <4>4, <2>a
          <4>6. NameOf(results[i].job) = Nameless
            BY <4>1, ResultRecords
          <4> QED
            BY <2>2, <4>3, <4>4, <4>5, <4>6 DEF FailureHasCause
        <3> QED
          BY <3>1, <3>2, <3>3, <3>4
      <2>3. CASE exc = "interrupt"
        BY <2>3 DEF EngineInv, PhaseInv, FailureHasCause
      <2>4. CASE exc = "quit"
        <3>1. PICK j \in Settled : future[j].state = "quit"
          BY <2>4, <2>b DEF EngineInv, PhaseInv
        <3>2. behaved[j] \in Behaviour /\ RunSingleModule(j, behaved[j]).state = "quit"
          BY <3>1 DEF EngineInv, OutcomeInv
        <3>3. behaved[j].does = "quit"
          BY <3>2, DeedAssumption DEF Behaviour, RunSingleModule
        <3> QED
          BY <2>4, <3>3 DEF FailureHasCause
      <2> QED
        BY <2>1, <2>2, <2>3, <2>4
    <1> QED
      BY <1>1, TypeCorrect, EngineInvariant, PTL

(***************************************************************************)
(* Finitely many results with a finite list each: the overall risk is      *)
(* CRITICAL exactly when one of them holds a CRITICAL finding.             *)
(***************************************************************************)
LEMMA RiskIsCritical ==
    ASSUME NEW S, NEW res \in Seq(S),
           \A i \in DOMAIN res : IsFiniteSet(res[i].findings)
    PROVE  OverallRisk(res) = "CRITICAL" <=>
               \E i \in DOMAIN res : \E f \in res[i].findings : f.severity = CRITICAL
    <1> DEFINE At(i) == {i} \X {f \in res[i].findings : f.severity = CRITICAL}
               g == [i \in DOMAIN res |-> At(i)]
               All == {At(i) : i \in DOMAIN res}
    <1>1. IsFiniteSet(DOMAIN res)
      BY LenProperties, FS_Interval
    <1>2. \A T \in All : IsFiniteSet(T)
      <2> SUFFICES ASSUME NEW i \in DOMAIN res PROVE IsFiniteSet(At(i))
        OBVIOUS
      <2>1. IsFiniteSet({f \in res[i].findings : f.severity = CRITICAL})
        BY FS_Subset
      <2> QED
        BY <2>1, FS_Singleton, FS_Product
    <1>3. IsFiniteSet(All)
      <2>1. g \in Surjection(DOMAIN res, All)
        BY DEF Surjection
      <2> QED
        BY <2>1, <1>1, FS_Surjection
    <1>4. FindingsAt(res, CRITICAL) = UNION All
      BY DEF FindingsAt
    <1>5. IsFiniteSet(FindingsAt(res, CRITICAL))
      BY <1>2, <1>3, <1>4, FS_UNION
    <1>6. Count(res, CRITICAL) \in Nat
            /\ (Count(res, CRITICAL) = 0 <=> FindingsAt(res, CRITICAL) = {})
      BY <1>5, FS_CardinalityType, FS_EmptySet DEF Count
    <1>7. FindingsAt(res, CRITICAL) # {} <=>
             \E i \in DOMAIN res : \E f \in res[i].findings : f.severity = CRITICAL
      <2>1. ASSUME NEW i \in DOMAIN res, NEW f \in res[i].findings, f.severity = CRITICAL
            PROVE  FindingsAt(res, CRITICAL) # {}
        <3>1. <<i, f>> \in At(i)
          BY <2>1
        <3> QED
          BY <3>1, <1>4
      <2>2. ASSUME NEW q \in FindingsAt(res, CRITICAL)
            PROVE  \E i \in DOMAIN res : \E f \in res[i].findings : f.severity = CRITICAL
        <3>1. PICK i \in DOMAIN res : q \in At(i)
          BY <2>2, <1>4
        <3> QED
          BY <3>1
      <2> QED
        BY <2>1, <2>2
    <1>8. OverallRisk(res) = "CRITICAL" <=> Count(res, CRITICAL) > 0
      BY DEF OverallRisk
    <1> QED
      BY <1>6, <1>7, <1>8

(***************************************************************************)
(* Whatever the threshold, the gate is CRITICAL exactly when a module that *)
(* came back found a CRITICAL: the filter never takes one away.            *)
(***************************************************************************)
THEOREM GateIgnoresThreshold == Spec => []ThresholdKeepsTheGate
    <1>1. TypeOK /\ EngineInv => ThresholdKeepsTheGate
      <2> SUFFICES ASSUME TypeOK, EngineInv, pc = "returned" PROVE ThresholdKeepsTheGate
        BY DEF ThresholdKeepsTheGate
      <2>1. results \in Seq(ModuleResult) /\ DOMAIN results = 1 .. Len(results)
        BY LenProperties DEF TypeOK
      <2>2. severity_threshold \in Severity
        BY ConfigAssumption DEF TypeOK
      <2>3. ASSUME NEW i \in DOMAIN results
            PROVE  /\ IsFiniteSet(results[i].findings)
                   /\ (\E f \in results[i].findings : f.severity = CRITICAL) <=>
                         /\ results[i].error = "none"
                         /\ \E f \in behaved[results[i].job].findings : f.severity = CRITICAL
        <3> DEFINE b == behaved[results[i].job]
        <3>1. /\ b \in Behaviour
              /\ results[i].error = "none" =>
                    results[i].findings = Filtered(b.findings, severity_threshold)
              /\ results[i].error # "none" => results[i].findings = {}
          BY <2>1, <2>3, ResultRecords
        <3> HIDE DEF b
        <3>2. IsFiniteSet(b.findings)
          BY <3>1 DEF Behaviour
        <3>3. Filtered(b.findings, severity_threshold) \in SUBSET b.findings
          BY DEF Filtered
        <3>4. IsFiniteSet(results[i].findings)
          BY <3>1, <3>2, <3>3, FS_Subset, FS_EmptySet
        <3>5. \A f : f \in Filtered(b.findings, severity_threshold) /\ f.severity = CRITICAL
                        <=> f \in b.findings /\ f.severity = CRITICAL
          BY <2>2 DEF Filtered, FilterApplies, Severity, CRITICAL, INFO
        <3> QED
          BY <3>1, <3>4, <3>5 DEF b
      <2>4. OverallRisk(results) = "CRITICAL" <=>
               \E i \in DOMAIN results : \E f \in results[i].findings : f.severity = CRITICAL
        BY <2>1, <2>3, RiskIsCritical
      <2> QED
        BY <2>3, <2>4 DEF ThresholdKeepsTheGate
    <1> QED
      BY <1>1, TypeCorrect, EngineInvariant, PTL

-----------------------------------------------------------------------------
(***************************************************************************)
(* The order of the results.                                               *)
(***************************************************************************)

LEMMA NamesAreNumbers ==
    ASSUME TypeOK
    PROVE  /\ Len(results) \in Nat /\ DOMAIN results = 1 .. Len(results)
           /\ \A i \in 1 .. Len(results) : results[i].module_name \in Int
    <1>1. results \in Seq(ModuleResult)
      BY DEF TypeOK
    <1>2. \A i \in 1 .. Len(results) : results[i] \in ModuleResult
      BY <1>1, ElementOfSeq
    <1>3. \A r \in ModuleResult : r.module_name \in Int
      BY DEF ModuleResult, Label, Nameless
    <1> QED
      BY <1>1, <1>2, <1>3, LenProperties

(***************************************************************************)
(* A returned scan's results and the selected modules correspond one to    *)
(* one, so that what is true of them may be counted in either list.        *)
(***************************************************************************)
LEMMA SameCounts ==
    ASSUME TypeOK, EngineInv, pc = "returned", NEW M, M \subseteq DOMAIN modules
    PROVE  LET R == {i \in DOMAIN results : results[i].job \in M}
           IN  /\ IsFiniteSet(R) /\ IsFiniteSet(M)
               /\ Cardinality(R) = Cardinality(M)
    <1> DEFINE R == {i \in DOMAIN results : results[i].job \in M}
               h == [i \in R |-> results[i].job]
    <1>1. /\ Len(results) \in Nat /\ DOMAIN results = 1 .. Len(results)
          /\ Len(modules) \in Nat /\ DOMAIN modules = 1 .. Len(modules)
      BY LenProperties DEF TypeOK
    <1>2. IsFiniteSet(R)
      <2>1. IsFiniteSet(1 .. Len(results))
        BY <1>1, FS_Interval
      <2>2. R \in SUBSET (1 .. Len(results))
        BY <1>1
      <2> HIDE DEF R
      <2> QED
        BY <2>1, <2>2, FS_Subset
    <1>4. h \in [R -> M]
      OBVIOUS
    <1>5. \A i, k \in DOMAIN results : results[i].job = results[k].job => i = k
      BY <1>1 DEF EngineInv, ReportInv
    <1>6. \A j \in DOMAIN modules : \E i \in DOMAIN results : results[i].job = j
      <2>1. yielded = DOMAIN modules /\ \A j \in yielded : ~IsFatal(future[j])
        BY <1>1 DEF EngineInv, PhaseInv, Jobs
      <2> QED
        BY <1>1, <2>1 DEF EngineInv, ReportInv
    <1>7. h \in Injection(R, M)
      BY <1>4, <1>5 DEF Injection, IsInjective
    <1>8. h \in Surjection(R, M)
      <2> SUFFICES ASSUME NEW j \in M PROVE \E i \in R : h[i] = j
        BY <1>4 DEF Surjection
      <2>1. PICK i \in DOMAIN results : results[i].job = j
        BY <1>6
      <2>2. i \in R
        BY <2>1
      <2> QED
        BY <2>1, <2>2
    <1>9. ExistsBijection(R, M)
      BY <1>7, <1>8 DEF ExistsBijection, Bijection
    <1> QED
      BY <1>2, <1>9, FS_Bijection

LEMMA SizeOfPrefix ==
    \A m \in Nat : IsFiniteSet(1 .. m) /\ Cardinality(1 .. m) = m
    BY FS_Interval

LEMMA SortedInvariant == Spec => []SortedInv
    <1>1. Init => SortedInv
      BY DEF Init, SortedInv
    <1>2. TypeOK /\ TypeOK' /\ EngineInv /\ SortedInv /\ [Next]_vars => SortedInv'
      <2> SUFFICES ASSUME TypeOK, TypeOK', EngineInv, SortedInv, [Next]_vars,
                          pc' = "returned"
                   PROVE  SortedInv'
        BY DEF SortedInv
      <2> USE DEF fields, pool, mainvars
      <2>1. CASE SortResults
        <3>1. PICK p \in Stably(results) :
                  results' = [i \in 1 .. Len(results) |-> results[p[i]]]
          BY <2>1 DEF SortResults
        <3>2. Len(results) \in Nat /\ p \in [1 .. Len(results) -> 1 .. Len(results)]
          BY <3>1, LenProperties DEF Stably, TypeOK
        <3>3. \A i \in 1 .. Len(results) : results[i].module_name \in Int
          BY NamesAreNumbers
        <3>4. \A i, k \in 1 .. Len(results) :
                 i < k => results[p[i]].module_name <= results[p[k]].module_name
          BY <3>1, <3>2, <3>3 DEF Stably
        <3> QED
          BY <3>1, <3>4 DEF SortedInv
      <2>2. CASE NothingToRun
        <3>1. results = <<>>
          <4>1. Jobs = {} /\ results' = results /\ Len(results) \in Nat
            BY <2>2, LenProperties DEF NothingToRun, EngineInv, PhaseInv, Jobs, TypeOK
          <4>2. \A i \in 1 .. Len(results) : results[i].job \in {}
            BY <4>1 DEF EngineInv, ReportInv, Settled
          <4>3. Len(results) = 0
            BY <4>1, <4>2
          <4> QED
            BY <4>3, EmptySeq DEF TypeOK
        <3>2. DOMAIN results' = {}
          BY <2>2, <3>1 DEF NothingToRun
        <3> QED
          BY <3>2 DEF SortedInv
      <2>3. CASE UNCHANGED <<pc, results>>
        BY <2>3 DEF SortedInv
      <2>4. SortResults \/ NothingToRun \/ UNCHANGED <<pc, results>>
        <3>1. CASE SelectModule \/ TakeJob \/ ExitThread \/ Finished \/ UNCHANGED vars
          BY <3>1 DEF SelectModule, TakeJob, ExitThread, Finished, vars
        <3>a. ~Spawn /\ ~Register /\ ~SortRaises
          BY DEF Spawn, Register, SortRaises, AfterSubmit
        <3>2. CASE \E j \in Jobs : FinishJob(j)
          BY <3>2 DEF FinishJob
        <3>3. ~ConstructorRaises /\ ~OpenPool /\ ~Submit /\ ~AllCollected /\ ~PoolJoined
          BY DEF ConstructorRaises, OpenPool, Submit, AllCollected, PoolJoined
        <3>4. ~Interrupt /\ ~\E j \in Jobs : Collect(j)
          BY DEF Interrupt, Collect
        <3> QED
          BY <3>1, <3>a, <3>2, <3>3, <3>4 DEF Next, MainStep, ThreadStep
      <2> QED
        BY <2>1, <2>2, <2>3, <2>4
    <1> QED
      BY <1>1, <1>2, TypeCorrect, EngineInvariant, PTL DEF Spec

(***************************************************************************)
(* The i-th result published has the name that is i-th among the selected  *)
(* modules' names, whichever threads finished first.                       *)
(***************************************************************************)
THEOREM OrderIsOfNames == Spec => []OrderIndependentOfCompletion
    <1>1. TypeOK /\ EngineInv /\ SortedInv => OrderIndependentOfCompletion
      <2> SUFFICES ASSUME TypeOK, EngineInv, SortedInv, pc = "returned",
                          NEW i \in DOMAIN results
                   PROVE  LET n == results[i].module_name
                          IN  /\ Cardinality({j \in DOMAIN modules : NameOf(j) < n}) < i
                              /\ i <= Cardinality({j \in DOMAIN modules : NameOf(j) <= n})
        BY DEF OrderIndependentOfCompletion
      <2> DEFINE n == results[i].module_name
                 Below == {j \in DOMAIN modules : NameOf(j) < n}
                 UpTo == {j \in DOMAIN modules : NameOf(j) <= n}
                 RB == {k \in DOMAIN results : results[k].job \in Below}
                 RU == {k \in DOMAIN results : results[k].job \in UpTo}
      <2>1. /\ Len(results) \in Nat /\ DOMAIN results = 1 .. Len(results)
            /\ \A k \in DOMAIN results : results[k].module_name \in Int
            /\ i \in Nat \ {0}
        BY NamesAreNumbers
      <2>2. \A k \in DOMAIN results : /\ results[k].job \in DOMAIN modules
                                      /\ results[k].module_name = NameOf(results[k].job)
        <3>1. DOMAIN modules = 1 .. Len(modules)
          BY LenProperties DEF TypeOK
        <3> QED
          BY <2>1, <3>1, ResultRecords
      <2>3. \A k, l \in DOMAIN results :
               k < l => results[k].module_name <= results[l].module_name
        BY DEF SortedInv
      <2>4. RB \in SUBSET (1 .. (i - 1))
        <3> SUFFICES ASSUME NEW k \in RB PROVE k < i
          BY <2>1
        <3>1. results[k].module_name < n /\ k \in DOMAIN results
          BY <2>2
        <3>2. i < k => n <= results[k].module_name
          BY <2>3, <3>1
        <3> QED
          BY <2>1, <3>1, <3>2
      <2>5. 1 .. i \in SUBSET RU
        <3> SUFFICES ASSUME NEW k \in 1 .. i PROVE k \in RU
          OBVIOUS
        <3>1. k \in DOMAIN results
          BY <2>1
        <3>2. k < i => results[k].module_name <= n
          BY <2>3, <3>1
        <3>3. k = i => results[k].module_name <= n
          BY <2>1
        <3>4. results[k].module_name <= n
          BY <2>1, <3>2, <3>3
        <3> QED
          BY <2>2, <3>1, <3>4
      <2>6. IsFiniteSet(RB) /\ IsFiniteSet(RU)
              /\ Cardinality(RB) = Cardinality(Below) /\ Cardinality(RU) = Cardinality(UpTo)
        <3>1. Below \subseteq DOMAIN modules /\ UpTo \subseteq DOMAIN modules
          OBVIOUS
        <3> HIDE DEF Below, UpTo
        <3> QED
          BY <3>1, SameCounts
      <2>7. Cardinality(RB) \in Nat /\ Cardinality(RU) \in Nat
        BY <2>6, FS_CardinalityType
      <2> HIDE DEF RB, RU, Below, UpTo, n
      <2>8. Cardinality(RB) <= i - 1
        <3>1. i - 1 \in Nat
          BY <2>1
        <3>2. IsFiniteSet(1 .. (i - 1)) /\ Cardinality(1 .. (i - 1)) = i - 1
          BY <3>1, SizeOfPrefix
        <3> QED
          BY <2>4, <3>2, FS_Subset
      <2>9. i <= Cardinality(RU)
        <3>1. IsFiniteSet(1 .. i) /\ Cardinality(1 .. i) = i
          BY <2>1, SizeOfPrefix
        <3>2. Cardinality(1 .. i) <= Cardinality(RU)
          BY <2>5, <2>6, FS_Subset
        <3> QED
          BY <3>1, <3>2
      <2>10. Cardinality(Below) < i
        BY <2>1, <2>6, <2>7, <2>8
      <2>11. i <= Cardinality(UpTo)
        BY <2>6, <2>9
      <2> QED
        BY <2>10, <2>11 DEF n, Below, UpTo
    <1> QED
      BY <1>1, TypeCorrect, EngineInvariant, SortedInvariant, PTL

-----------------------------------------------------------------------------
(***************************************************************************)
(* What was asked for is what is answered.                                 *)
(***************************************************************************)

(***************************************************************************)
(* Counting the places of a value in a list that grows at its end or loses *)
(* its head.                                                               *)
(***************************************************************************)
LEMMA PlacesFinite ==
    ASSUME NEW S, NEW s \in Seq(S), NEW n
    PROVE  IsFiniteSet(Places(s, n)) /\ Cardinality(Places(s, n)) \in Nat
    <1>1. IsFiniteSet(1 .. Len(s)) /\ DOMAIN s = 1 .. Len(s)
      BY LenProperties, SizeOfPrefix
    <1>2. Places(s, n) \in SUBSET (1 .. Len(s))
      BY <1>1 DEF Places
    <1> QED
      BY <1>1, <1>2, FS_Subset, FS_CardinalityType

LEMMA PlacesAppend ==
    ASSUME NEW S, NEW s \in Seq(S), NEW e \in S, NEW n
    PROVE  Cardinality(Places(Append(s, e), n)) =
               Cardinality(Places(s, n)) + (IF e = n THEN 1 ELSE 0)
    <1> DEFINE m == Len(s) + 1
    <1>1. /\ Len(s) \in Nat /\ DOMAIN s = 1 .. Len(s)
          /\ DOMAIN Append(s, e) = 1 .. m /\ Append(s, e)[m] = e
          /\ \A i \in 1 .. Len(s) : Append(s, e)[i] = s[i]
      BY AppendProperties, LenProperties
    <1>2. m \notin Places(s, n) /\ 1 .. m = (1 .. Len(s)) \cup {m}
      BY <1>1 DEF Places
    <1>3. Places(Append(s, e), n) = IF e = n THEN Places(s, n) \cup {m} ELSE Places(s, n)
      BY <1>1, <1>2 DEF Places
    <1>4. IsFiniteSet(Places(s, n)) /\ Cardinality(Places(s, n)) \in Nat
      BY PlacesFinite
    <1> HIDE DEF m
    <1>5. CASE e = n
      BY <1>2, <1>3, <1>4, <1>5, FS_AddElement
    <1>6. CASE e # n
      BY <1>3, <1>4, <1>6
    <1> QED
      BY <1>5, <1>6

LEMMA PlacesTail ==
    ASSUME NEW S, NEW s \in Seq(S), s # <<>>, NEW n
    PROVE  Cardinality(Places(s, n)) =
               Cardinality(Places(Tail(s), n)) + (IF Head(s) = n THEN 1 ELSE 0)
    <1> DEFINE T == Places(Tail(s), n)
               R == Places(s, n) \ {1}
               h == [i \in T |-> i + 1]
    <1>1. /\ Len(s) \in Nat \ {0} /\ DOMAIN s = 1 .. Len(s) /\ Tail(s) \in Seq(S)
          /\ DOMAIN Tail(s) = 1 .. (Len(s) - 1)
          /\ \A i \in 1 .. (Len(s) - 1) : Tail(s)[i] = s[i + 1]
          /\ Head(s) = s[1]
      BY HeadTailProperties, LenProperties, EmptySeq
    <1>2. IsFiniteSet(T) /\ Cardinality(T) \in Nat /\ IsFiniteSet(Places(s, n))
            /\ Cardinality(Places(s, n)) \in Nat
      BY <1>1, PlacesFinite
    <1>3. T \in SUBSET Nat /\ \A i \in T : i + 1 \in R
      BY <1>1 DEF Places
    <1>4. h \in Injection(T, R)
      BY <1>3 DEF Injection, IsInjective
    <1>5. h \in Surjection(T, R)
      <2> SUFFICES ASSUME NEW k \in R PROVE \E i \in T : h[i] = k
        BY <1>3 DEF Surjection
      <2>1. k \in Nat /\ k - 1 \in 1 .. (Len(s) - 1) /\ s[k] = n /\ (k - 1) + 1 = k
        BY <1>1 DEF Places
      <2>2. Tail(s)[k - 1] = n
        BY <1>1, <2>1
      <2>3. k - 1 \in T
        BY <1>1, <2>1, <2>2 DEF Places
      <2> QED
        BY <2>1, <2>3
    <1>6. Cardinality(R) = Cardinality(T)
      BY <1>2, <1>4, <1>5, FS_Bijection DEF ExistsBijection, Bijection
    <1>7. 1 \in Places(s, n) <=> Head(s) = n
      BY <1>1 DEF Places
    <1>8. Cardinality(R) = IF 1 \in Places(s, n) THEN Cardinality(Places(s, n)) - 1
                                                 ELSE Cardinality(Places(s, n))
      BY <1>2, FS_RemoveElement
    <1> HIDE DEF T, R, h
    <1>9. Cardinality(Places(s, n)) = Cardinality(T) + (IF Head(s) = n THEN 1 ELSE 0)
      BY <1>2, <1>6, <1>7, <1>8
    <1> QED
      BY <1>9 DEF T

LEMMA SelectInvariant == Spec => []SelectInv
    <1>1. Init => SelectInv
      <2> SUFFICES ASSUME Init PROVE SelectInv
        OBVIOUS
      <2>1. TypeOK /\ asked = Wanted /\ modules = <<>> /\ pc = "select"
        BY InitTypeOK DEF Init
      <2>2. \A n : Places(modules, n) = {}
        BY <2>1 DEF Places
      <2>3. \A n : Cardinality(Places(asked, n)) \in Nat
        BY <2>1, PlacesFinite DEF TypeOK
      <2>4. \A n : Cardinality(Places(modules, n)) = 0
        BY <2>2, FS_EmptySet
      <2>5. \A n : Cardinality(Places(modules, n)) + Cardinality(Places(asked, n)) =
                      Cardinality(Places(Wanted, n))
        BY <2>1, <2>3, <2>4
      <2> QED
        BY <2>1, <2>5 DEF SelectInv
    <1>2. TypeOK /\ SelectInv /\ [Next]_vars => SelectInv'
      <2> SUFFICES ASSUME TypeOK, SelectInv, [Next]_vars PROVE SelectInv'
        OBVIOUS
      <2> USE DEF fields, pool, mainvars
      <2>1. Wanted' = Wanted /\ Names' = Names
        <3>1. UNCHANGED requested
          BY DEF Next, MainStep, ThreadStep, Finished, SelectModule, ConstructorRaises,
                 NothingToRun, OpenPool, Submit, Spawn, Register, AfterSubmit, Collect,
                 AllCollected, PoolJoined, SortResults,
                 SortRaises, Interrupt, TakeJob, FinishJob, ExitThread, vars
        <3> QED
          BY <3>1 DEF Wanted, Names
      <2>2. CASE SelectModule
        <3> DEFINE e == Head(asked)
        <3>1. /\ pc = "select" /\ pc' = "select" /\ asked # <<>> /\ asked' = Tail(asked)
              /\ modules' = IF e \in Names THEN Append(modules, e) ELSE modules
          BY <2>2 DEF SelectModule
        <3>2. asked \in Seq(Label) /\ modules \in Seq(Label) /\ e \in Label
                /\ Tail(asked) \in Seq(Label)
          BY <3>1, HeadTailProperties DEF TypeOK
        <3>3. \A i \in DOMAIN modules' : modules'[i] \in Names
          <4>1. CASE e \in Names
            <5>1. /\ Len(modules) \in Nat /\ DOMAIN modules = 1 .. Len(modules)
                  /\ DOMAIN Append(modules, e) = 1 .. (Len(modules) + 1)
                  /\ \A i \in 1 .. Len(modules) : Append(modules, e)[i] = modules[i]
                  /\ Append(modules, e)[Len(modules) + 1] = e
              BY <3>2, AppendProperties, LenProperties
            <5> HIDE DEF e
            <5> QED
              BY <3>1, <4>1, <5>1 DEF SelectInv
          <4>2. CASE e \notin Names
            BY <3>1, <4>2 DEF SelectInv
          <4> QED
            BY <4>1, <4>2
        <3>4. ASSUME NEW n \in Names
              PROVE  Cardinality(Places(modules', n)) + Cardinality(Places(asked', n)) =
                         Cardinality(Places(Wanted, n))
          <4>1. /\ Cardinality(Places(modules, n)) \in Nat
                /\ Cardinality(Places(Tail(asked), n)) \in Nat
            BY <3>2, PlacesFinite
          <4>2. Cardinality(Places(asked, n)) =
                   Cardinality(Places(Tail(asked), n)) + (IF e = n THEN 1 ELSE 0)
            BY <3>1, <3>2, PlacesTail
          <4>3. Cardinality(Places(modules', n)) =
                   Cardinality(Places(modules, n)) + (IF e = n THEN 1 ELSE 0)
            <5>1. CASE e \in Names
              BY <3>1, <3>2, <5>1, PlacesAppend
            <5>2. CASE e \notin Names
              BY <3>1, <4>1, <5>2
            <5> QED
              BY <5>1, <5>2
          <4>4. Cardinality(Places(modules, n)) + Cardinality(Places(asked, n)) =
                   Cardinality(Places(Wanted, n))
            BY DEF SelectInv
          <4> HIDE DEF e
          <4> QED
            BY <3>1, <4>1, <4>2, <4>3, <4>4
        <3> QED
          BY <2>1, <3>1, <3>3, <3>4 DEF SelectInv, Places
      <2>3. CASE ~SelectModule
        <3>1. UNCHANGED <<modules, asked>>
          BY <2>3 DEF Next, MainStep, ThreadStep, Finished, ConstructorRaises,
                 NothingToRun, OpenPool, Submit, Spawn, Register, Collect, AllCollected,
                 PoolJoined, SortResults, SortRaises, Interrupt, TakeJob, FinishJob,
                 ExitThread, vars
        <3>2. pc' \in {"select", "raised"} \/ asked = <<>>
          <4>1. pc \in {"select", "raised"} \/ asked = <<>>
            BY DEF SelectInv
          <4>2. CASE ConstructorRaises \/ NothingToRun \/ OpenPool
            BY <4>2 DEF ConstructorRaises, NothingToRun, OpenPool
          <4>3. CASE Submit \/ Spawn \/ Register \/ AllCollected \/ \E j \in Jobs : Collect(j)
            BY <4>1, <4>3 DEF Submit, Spawn, Register, AllCollected, Collect
          <4>4. CASE PoolJoined \/ SortResults \/ SortRaises
            BY <4>1, <4>4 DEF PoolJoined, SortResults, SortRaises
          <4>5. CASE Interrupt
            BY <4>1, <4>5 DEF Interrupt, WithPool
          <4>6. CASE TakeJob \/ ExitThread \/ (\E j \in Jobs : FinishJob(j)) \/ UNCHANGED vars
            BY <4>1, <4>6 DEF TakeJob, ExitThread, FinishJob, vars
          <4> QED
            BY <2>3, <4>2, <4>3, <4>4, <4>5, <4>6 DEF Next, MainStep, ThreadStep, Finished
        <3> QED
          BY <2>1, <3>1, <3>2 DEF SelectInv, Places
      <2> QED
        BY <2>2, <2>3
    <1> QED
      BY <1>1, <1>2, TypeCorrect, PTL DEF Spec

(***************************************************************************)
(* A returned scan answers each known name as often as it was asked for,   *)
(* by default once, and an unknown name never.                             *)
(***************************************************************************)
THEOREM AnswersEveryRequest == Spec => []EveryRequestAnswered
    <1>1. TypeOK /\ EngineInv /\ SelectInv => EveryRequestAnswered
      <2>a. ASSUME TypeOK, EngineInv, pc = "returned", NEW i \in DOMAIN results
            PROVE  /\ results[i].job \in DOMAIN modules
                   /\ results[i].module_name = NameOf(results[i].job)
        <3>1. DOMAIN modules = 1 .. Len(modules) /\ DOMAIN results = 1 .. Len(results)
          BY <2>a, LenProperties DEF TypeOK
        <3> QED
          BY <2>a, <3>1, ResultRecords
      <2> SUFFICES ASSUME TypeOK, EngineInv, SelectInv, pc = "returned", NEW n
                   PROVE  Cardinality({i \in DOMAIN results : modules[results[i].job] = n}) =
                            IF n \notin Names THEN 0
                            ELSE IF requested = <<>> THEN 1
                            ELSE Cardinality({i \in DOMAIN requested :
                                                 Normal[requested[i]] = n})
        BY <2>a DEF EveryRequestAnswered
      <2>1. Cardinality({i \in DOMAIN results : modules[results[i].job] = n}) =
                Cardinality(Places(modules, n))
        <3>1. {i \in DOMAIN results : results[i].job \in Places(modules, n)} =
                    {i \in DOMAIN results : modules[results[i].job] = n}
          BY <2>a DEF Places
        <3>2. Places(modules, n) \subseteq DOMAIN modules
          BY DEF Places
        <3>3. Cardinality({i \in DOMAIN results : results[i].job \in Places(modules, n)}) =
                Cardinality(Places(modules, n))
          BY <3>2, SameCounts
        <3> QED
          BY <3>1, <3>3
      <2>2. CASE n \notin Names
        <3>1. Places(modules, n) = {}
          BY <2>2 DEF SelectInv, Places
        <3> QED
          BY <2>1, <2>2, <3>1, FS_EmptySet
      <2>3. CASE n \in Names
        <3>1. Cardinality(Places(modules, n)) = Cardinality(Places(Wanted, n))
          <4>1. Places(asked, n) = {}
            BY DEF SelectInv, Places
          <4>2. Cardinality(Places(asked, n)) = 0 /\ Cardinality(Places(modules, n)) \in Nat
            BY <4>1, FS_EmptySet, PlacesFinite DEF TypeOK
          <4>3. Cardinality(Places(modules, n)) + Cardinality(Places(asked, n)) =
                   Cardinality(Places(Wanted, n))
            BY <2>3 DEF SelectInv
          <4> QED
            BY <4>2, <4>3
        <3>2. CASE requested = <<>>
          <4>1. PICK i \in 1 .. Len(Registry) : Registry[i] = n
            BY <2>3 DEF Names
          <4>2. DOMAIN Registry = 1 .. Len(Registry)
            BY RegistryAssumption, LenProperties
          <4>3. Places(Wanted, n) = {i}
            BY <3>2, <4>1, <4>2, RegistryAssumption DEF Wanted, Places
          <4>4. Cardinality(Places(Wanted, n)) = 1
            BY <4>3, FS_Singleton
          <4> QED
            BY <2>1, <2>3, <3>1, <3>2, <4>4
        <3>3. CASE requested # <<>>
          <4>1. DOMAIN requested = 1 .. Len(requested)
            BY RequestAssumption, LenProperties DEF TypeOK
          <4>2. Places(Wanted, n) = {i \in DOMAIN requested : Normal[requested[i]] = n}
            BY <3>3, <4>1 DEF Wanted, Places
          <4> QED
            BY <2>1, <2>3, <3>1, <3>3, <4>2
        <3> QED
          BY <3>2, <3>3
      <2> QED
        BY <2>2, <2>3
    <1> QED
      BY <1>1, TypeCorrect, EngineInvariant, SelectInvariant, PTL

-----------------------------------------------------------------------------
(***************************************************************************)
(* The pool.                                                               *)
(***************************************************************************)
LEMMA RunningIsFinite ==
    ASSUME TypeOK
    PROVE  IsFiniteSet(running) /\ Cardinality(running) \in Nat
    <1>1. Len(future) \in Nat
      BY LenProperties DEF TypeOK
    <1>2. IsFiniteSet(Jobs)
      BY <1>1, FS_Interval DEF Jobs
    <1> QED
      BY <1>2, FS_Subset, FS_CardinalityType DEF TypeOK

LEMMA PoolInvariant == Spec => []PoolInv
    <1>1. Init => PoolInv
      BY FS_EmptySet DEF Init, PoolInv, PoolShut
    <1>2. TypeOK /\ EngineInv /\ PoolInv /\ [Next]_vars => PoolInv'
      <2> SUFFICES ASSUME TypeOK, EngineInv, PoolInv, [Next]_vars PROVE PoolInv'
        OBVIOUS
      <2> USE DEF fields, pool, mainvars
      <2>a. /\ IsFiniteSet(running) /\ Cardinality(running) \in Nat
            /\ threads \in Nat /\ exited \in Nat
        BY RunningIsFinite DEF TypeOK
      <2>1. CASE SelectModule \/ ConstructorRaises \/ NothingToRun \/ OpenPool \/ AllCollected
                    \/ PoolJoined \/ SortResults \/ SortRaises \/ Register
                    \/ \E j \in Jobs : Collect(j)
        <3>1. UNCHANGED <<queue, threads, exited, running, cut>> /\ pc # "spawn"
          BY <2>1 DEF SelectModule, ConstructorRaises, NothingToRun, OpenPool, AllCollected,
                      PoolJoined, SortResults, SortRaises, Register, Collect
        <3>2. PoolShut => PoolShut'
          BY <2>1 DEF SelectModule, ConstructorRaises, NothingToRun, OpenPool, AllCollected,
                      PoolJoined, SortResults, SortRaises, Register, Collect, PoolShut
        <3> QED
          BY <3>1, <3>2 DEF PoolInv
      <2>d. CASE UNCHANGED vars
        BY <2>d DEF vars, PoolInv, PoolShut
      <2>2. CASE Submit
        <3>1. /\ pc = "submit" /\ exited = 0 /\ cut = "none" /\ pc' = "spawn"
              /\ UNCHANGED <<threads, exited, running, cut>>
          BY <2>2, <2>a DEF Submit, PoolInv, PoolShut
        <3> QED
          BY <3>1, <2>a DEF PoolInv
      <2>b. CASE Spawn
        <3>1. /\ exited = 0 /\ cut = "none" /\ UNCHANGED <<queue, exited, running, cut>>
              /\ threads' > 0 /\ threads' \in Nat /\ threads' >= threads
          BY <2>b, <2>a DEF Spawn, PoolInv, PoolShut
        <3> QED
          BY <3>1, <2>a DEF PoolInv
      <2>c. CASE Interrupt
        <3>1. /\ UNCHANGED <<queue, threads, exited, running>> /\ PoolShut'
              /\ pc = "spawn" /\ threads = 0 => cut' = "unserved"
              /\ pc = "spawn" => exited = 0 /\ cut = "none"
              /\ cut = "unserved" => cut' = "unserved"
          BY <2>a, <2>c DEF Interrupt, PoolShut, PoolInv, WithPool
        <3> QED
          BY <3>1, <2>a DEF PoolInv
      <2>3. CASE TakeJob
        <3>1. /\ queue # <<>> /\ Idle > 0 /\ running' = running \cup {Head(queue)}
              /\ UNCHANGED <<threads, exited, cut, pc>>
          BY <2>3 DEF TakeJob
        <3>2. Cardinality(running') <= Cardinality(running) + 1 /\ Cardinality(running') \in Nat
          <4>1. Cardinality(running \cup {Head(queue)}) =
                   IF Head(queue) \in running THEN Cardinality(running)
                                              ELSE Cardinality(running) + 1
            BY <2>a, FS_AddElement
          <4> QED
            BY <4>1, <3>1, <2>a
        <3>3. exited = 0 /\ threads > 0
          BY <3>1, <2>a DEF PoolInv, Idle
        <3> QED
          BY <3>1, <3>2, <3>3, <2>a DEF PoolInv, PoolShut, Idle
      <2>4. ASSUME NEW j \in Jobs, FinishJob(j) PROVE PoolInv'
        <3>1. /\ j \in running /\ running' = running \ {j}
              /\ UNCHANGED <<threads, exited, cut, pc, queue>>
          BY <2>4 DEF FinishJob
        <3>2. Cardinality(running') <= Cardinality(running) /\ Cardinality(running') \in Nat
          <4>1. Cardinality(running \ {j}) = Cardinality(running) - 1
                  /\ IsFiniteSet(running \ {j})
            BY <3>1, <2>a, FS_RemoveElement
          <4>2. Cardinality(running \ {j}) \in Nat
            BY <4>1, FS_CardinalityType
          <4> QED
            BY <4>1, <4>2, <3>1, <2>a
        <3> QED
          BY <3>1, <3>2, <2>a DEF PoolInv, PoolShut
      <2>5. CASE ExitThread
        <3>1. /\ PoolShut /\ queue = <<>> /\ Idle > 0 /\ exited' = exited + 1
              /\ UNCHANGED <<queue, threads, running, cut, pc>>
          BY <2>5 DEF ExitThread
        <3> QED
          BY <3>1, <2>a DEF PoolInv, PoolShut, Idle
      <2> QED
        BY <2>1, <2>d, <2>2, <2>b, <2>c, <2>3, <2>4, <2>5
           DEF Next, MainStep, ThreadStep, Finished
    <1> QED
      BY <1>1, <1>2, TypeCorrect, EngineInvariant, PTL DEF Spec

(***************************************************************************)
(* The pool is left drained unless Ctrl+C falls into its shutdown: every   *)
(* submitted module has come to its end before anything is reported.       *)
(***************************************************************************)
THEOREM LeavesPoolDrained == Spec => DrainedBeforeLeaving
    <1> DEFINE Left == /\ pc = "shutdown" /\ pc' # "shutdown"
                       /\ interrupts' = interrupts /\ cut = "none"
    <1>1. TypeOK /\ EngineInv /\ PoolInv /\ [Next]_vars =>
              (Left => Settled = Jobs /\ running = {} /\ queue = <<>>)
      <2> SUFFICES ASSUME TypeOK, EngineInv, PoolInv, [Next]_vars, Left
                   PROVE  Settled = Jobs /\ running = {} /\ queue = <<>>
        OBVIOUS
      <2> USE DEF fields, pool, mainvars
      <2>1. exited = threads
        <3>1. PoolJoined \/ Interrupt
          BY DEF Next, MainStep, ThreadStep, Finished, SelectModule, ConstructorRaises,
                 NothingToRun, OpenPool, Submit, Spawn, Register, Collect, AllCollected,
                 SortResults, SortRaises, TakeJob, FinishJob, ExitThread, vars
        <3>2. ~Interrupt
          BY ConfigAssumption DEF Interrupt, TypeOK
        <3> QED
          BY <3>1, <3>2 DEF PoolJoined, Joined
      <2>2. queue = <<>>
        BY <2>1 DEF PoolInv, TypeOK
      <2>3. running = {}
        <3>1. Cardinality(running) = 0
          BY <2>1, RunningIsFinite DEF PoolInv, TypeOK
        <3> QED
          BY <3>1, RunningIsFinite, FS_EmptySet
      <2>4. Settled = Jobs
        <3>1. Len(queue) = 0
          BY <2>2
        <3>2. Jobs \ (running \cup Settled) = {}
          BY <3>1 DEF EngineInv, JobInOnePlace
        <3> QED
          BY <2>3, <3>2 DEF Settled
      <2> QED
        BY <2>2, <2>3, <2>4
    <1> QED
      BY <1>1, TypeCorrect, EngineInvariant, PoolInvariant, PTL DEF Spec, DrainedBeforeLeaving

-----------------------------------------------------------------------------
(***************************************************************************)
(* The engine implements ModuleScan.                                       *)
(***************************************************************************)
Verdicts == [j \in Settled |-> future[j]]
Published == IF pc = "returned" THEN {results[i] : i \in DOMAIN results} ELSE {}

LEMMA RefinesInit == Init => Promise!Init
    <1> SUFFICES ASSUME Init PROVE Promise!Init
      OBVIOUS
    <1>1. pc = "select" /\ modules = <<>> /\ future = <<>>
      BY DEF Init
    <1>2. DOMAIN modules = {} /\ Settled = {}
      BY <1>1 DEF Settled, Jobs
    <1> QED
      BY <1>1, <1>2 DEF Promise!Init, PromisePhase, WithPool

LEMMA RefinesNext ==
    TypeOK /\ EngineInv /\ EngineInv' /\ [Next]_vars => [Promise!Next]_(Promise!vars)
    <1> SUFFICES ASSUME TypeOK, EngineInv, EngineInv', [Next]_vars
                 PROVE  Promise!Next \/ UNCHANGED Promise!vars
      OBVIOUS
    <1> USE DEF fields, pool, mainvars
    <1>a. Len(modules) \in Nat /\ DOMAIN modules = 1 .. Len(modules) /\ Len(future) \in Nat
            /\ DOMAIN results = 1 .. Len(results) /\ Len(results) \in Nat
            /\ (modules = <<>> <=> Len(modules) = 0)
      BY LenProperties, EmptySeq DEF TypeOK
    <1>b. pc = "select" => Settled = {} /\ Jobs = {}
      BY DEF EngineInv, PhaseInv, Jobs, Settled
    <1>1. CASE SelectModule
      <2>1. pc = "select" /\ pc' = "select" /\ Settled = {} /\ Settled' = {}
        BY <1>1, <1>b DEF SelectModule, Settled, Jobs
      <2>2. DOMAIN modules \subseteq DOMAIN modules'
        <3>1. Head(asked) \in Label
          BY <1>1, HeadTailProperties DEF SelectModule, TypeOK
        <3>2. modules' = modules \/ modules' = Append(modules, Head(asked))
          BY <1>1 DEF SelectModule
        <3>3. CASE modules' = Append(modules, Head(asked))
          <4>1. Append(modules, Head(asked)) \in Seq(Label)
                  /\ Len(Append(modules, Head(asked))) = Len(modules) + 1
            BY <3>1, AppendProperties DEF TypeOK
          <4>2. DOMAIN modules' = 1 .. (Len(modules) + 1)
            BY <4>1, <3>3, LenProperties
          <4> QED
            BY <4>2, <1>a
        <3> QED
          BY <3>2, <3>3
      <2>3. Promise!Extend
        BY <2>1, <2>2 DEF Promise!Extend, PromisePhase, WithPool
      <2> QED
        BY <2>3 DEF Promise!Next
    <1>2. CASE ConstructorRaises
      <2>1. pc = "select" /\ pc' = "raised" /\ UNCHANGED <<modules, future>>
        BY <1>2 DEF ConstructorRaises
      <2>2. Promise!Fail
        BY <2>1 DEF Promise!Fail, PromisePhase, WithPool, Settled, Jobs
      <2> QED
        BY <2>2 DEF Promise!Next
    <1>3. CASE NothingToRun
      <2>1. pc = "select" /\ pc' = "returned" /\ UNCHANGED <<modules, future, results>>
              /\ modules = <<>>
        BY <1>3 DEF NothingToRun
      <2>2. DOMAIN modules = {} /\ Settled = {} /\ Settled' = Settled
        BY <2>1, <1>a, <1>b DEF Settled, Jobs
      <2>3. DOMAIN results = {}
        BY <2>2, <1>a DEF EngineInv, ReportInv
      <2>4. Promise!Publish
        BY <2>1, <2>2, <2>3 DEF Promise!Publish, PromisePhase, WithPool
      <2> QED
        BY <2>4 DEF Promise!Next
    <1>4. CASE OpenPool
      <2>1. /\ pc = "select" /\ pc' \in {"submit", "raised"} /\ UNCHANGED <<modules, future>>
            /\ modules # <<>>
        BY <1>4 DEF OpenPool
      <2>2. DOMAIN modules # {}
        BY <2>1, <1>a
      <2>3. Promise!Start \/ Promise!Fail
        BY <2>1, <2>2 DEF Promise!Start, Promise!Fail, PromisePhase, WithPool, Settled, Jobs
      <2> QED
        BY <2>3 DEF Promise!Next
    <1>5. CASE Submit
      <2>1. Len(future) + 1 \in 1 .. Len(modules)
        <3>1. Len(future) + 1 <= Len(modules)
          BY <1>5 DEF Submit
        <3> QED
          BY <3>1, <1>a
      <2>a. /\ pc = "submit" /\ pc' = "spawn" /\ UNCHANGED modules
            /\ future' = Append(future, [state |-> "pending",
                                         result |-> Blank(Len(future) + 1)])
        BY <1>5 DEF Submit, Blank
      <2>2. [state |-> "pending", result |-> Blank(Len(future) + 1)] \in Future
        BY <2>1, BlankType DEF Future, TypeOK
      <2>3. /\ Len(future') = Len(future) + 1
            /\ future'[Len(future) + 1].state = "pending"
            /\ \A k \in Jobs : future'[k] = future[k]
        BY <2>a, <2>2, AppendProperties DEF TypeOK, Jobs
      <2>4. Settled' = Settled
        BY <2>3, <1>a DEF Settled, Jobs
      <2>5. Verdicts' = Verdicts
        BY <2>3, <2>4 DEF Verdicts, Settled
      <2> QED
        BY <2>a, <2>5 DEF Promise!vars, PromisePhase, WithPool, Verdicts
    <1>6. CASE (\E j \in Jobs : Collect(j)) \/ AllCollected \/ TakeJob \/ ExitThread
                  \/ Spawn \/ Register \/ UNCHANGED vars
      <2>1. /\ UNCHANGED <<modules, future>>
            /\ \/ pc \in WithPool /\ pc' \in WithPool \cup {"shutdown"}
               \/ UNCHANGED <<pc, results>>
        BY <1>6 DEF Collect, AllCollected, TakeJob, ExitThread, Spawn, Register, AfterSubmit,
                    WithPool, vars
      <2> QED
        BY <2>1 DEF Promise!vars, PromisePhase, WithPool, Settled, Jobs
    <1>7. CASE PoolJoined \/ Interrupt \/ SortRaises
      <2>1. /\ UNCHANGED <<modules, future>>
            /\ \/ pc \in WithPool \cup {"shutdown"} /\ pc' \in {"shutdown", "sort"}
               \/ pc \notin {"returned", "raised"} /\ pc' = "raised"
        BY <1>7 DEF PoolJoined, Interrupt, SortRaises, WithPool
      <2>2. CASE pc \in WithPool \cup {"shutdown"} /\ pc' \in {"shutdown", "sort"}
        BY <2>1, <2>2 DEF Promise!vars, PromisePhase, WithPool, Settled, Jobs
      <2>3. CASE pc \notin {"returned", "raised"} /\ pc' = "raised"
        <3>1. PromisePhase \in {"planning", "running"} /\ PromisePhase' = "failed"
          BY <2>3 DEF PromisePhase, WithPool, TypeOK
        <3>2. Promise!Fail
          BY <2>1, <2>3, <3>1 DEF Promise!Fail, Settled, Jobs
        <3> QED
          BY <3>2 DEF Promise!Next
      <2> QED
        BY <2>1, <2>2, <2>3
    <1>8. CASE SortResults
      <2>1. pc = "sort" /\ pc' = "returned" /\ UNCHANGED <<modules, future, yielded>>
        BY <1>8 DEF SortResults
      <2>2. /\ yielded = Jobs /\ Len(future) = Len(modules)
            /\ \A j \in yielded : ~IsFatal(future[j])
        BY <2>1 DEF EngineInv, PhaseInv
      <2>3. Settled = DOMAIN modules /\ Settled' = Settled /\ yielded = Settled
        BY <2>1, <2>2, <1>a DEF EngineInv, ReportInv, Settled, Jobs
      <2>4. \A i \in 1 .. Len(results') :
               results'[i].job \in Settled /\ results'[i] = EntryOf(future[results'[i].job])
        BY <2>1, <2>3 DEF EngineInv, ReportInv, EntryOf
      <2>5. \A j \in Settled : \E i \in 1 .. Len(results') : results'[i].job = j
        BY <2>1, <2>2, <2>3 DEF EngineInv, ReportInv, IsFatal
      <2>6. DOMAIN results' = 1 .. Len(results')
        BY <1>8, <1>a DEF SortResults
      <2>7. {results'[i] : i \in DOMAIN results'} = {EntryOf(future[j]) : j \in Settled}
        BY <2>4, <2>5, <2>6
      <2>8. Promise!Publish
        BY <2>1, <2>2, <2>3, <2>7 DEF Promise!Publish, PromisePhase, WithPool
      <2> QED
        BY <2>8 DEF Promise!Next
    <1>9. ASSUME NEW j \in Jobs, FinishJob(j) PROVE Promise!Next
      <2>1. PICK b \in Behaviour : future' = [future EXCEPT ![j] = RunSingleModule(j, b)]
        BY <1>9 DEF FinishJob
      <2>2. j \in running /\ UNCHANGED <<pc, modules, results>>
        BY <1>9 DEF FinishJob
      <2>3. j \in 1 .. Len(future) /\ j \in 1 .. Len(modules) /\ j \notin Settled
        BY <2>2, <1>a DEF EngineInv, JobInOnePlace, Jobs, TypeOK
      <2>4. RunSingleModule(j, b) \in Future /\ RunSingleModule(j, b).state # "pending"
        BY <2>3, RunSingleModuleType DEF TypeOK
      <2>5. /\ Len(future') = Len(future) /\ future'[j] = RunSingleModule(j, b)
            /\ \A k \in Jobs : k # j => future'[k] = future[k]
        BY <2>1, <2>3, <2>4, ExceptSeq DEF TypeOK, Jobs
      <2>6. Settled' = Settled \cup {j}
        BY <2>3, <2>4, <2>5 DEF Settled, Jobs
      <2>7. pc \notin {"select", "returned"}
        <3>1. j \in Jobs
          BY <1>9
        <3>2. pc # "select"
          BY <3>1, <1>b
        <3>3. pc # "returned"
          BY <3>1, <2>3 DEF EngineInv, PhaseInv, ReportInv
        <3> QED
          BY <3>2, <3>3
      <2>8. PromisePhase \in {"running", "failed"} /\ PromisePhase' = PromisePhase
        BY <2>2, <2>7 DEF PromisePhase, WithPool, TypeOK
      <2>9. Promise!Settle(j)
        BY <2>2, <2>3, <2>4, <2>5, <2>6, <2>7, <2>8 DEF Promise!Settle, Settled
      <2>10. j \in DOMAIN modules
        BY <2>3, <1>a
      <2> QED
        BY <2>9, <2>10 DEF Promise!Next
    <1> QED
      BY <1>1, <1>2, <1>3, <1>4, <1>5, <1>6, <1>7, <1>8, <1>9
         DEF Next, MainStep, ThreadStep, Finished

(***************************************************************************)
(* Every behaviour of the engine is a behaviour of ModuleScan, for any     *)
(* modules, threads and interrupts: a report is published once, complete,  *)
(* with the entry of each module's verdict, or not at all.                 *)
(***************************************************************************)
THEOREM ImplementsModuleScan == Spec => KeepsPromise
    BY RefinesInit, RefinesNext, TypeCorrect, EngineInvariant, PTL
       DEF Spec, KeepsPromise, Promise!Spec

=============================================================================
