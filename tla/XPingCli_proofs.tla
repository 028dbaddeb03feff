---------------------------- MODULE XPingCli_proofs ----------------------------
(***************************************************************************)
(* Proofs about XPingCli, for any set of invocations, risks and sys.exit() *)
(* codes and any number of Ctrl+C.                                         *)
(***************************************************************************)
EXTENDS XPingCli, TLAPS

(***************************************************************************)
(* The state is well typed.                                                *)
(***************************************************************************)
LEMMA InitTypeOK == Init => TypeOK
  <1> SUFFICES ASSUME Init
               PROVE  TypeOK
    OBVIOUS
  <1>1. files \in [File -> {"absent", "old", "partial", "complete"}]
    BY DEF Init
  <1>2. interrupts \in 0 .. MaxInterrupts
    BY InterruptAssumption DEF Init
  <1>3. running \in BOOLEAN
    BY DEF Init
  <1> QED
    BY <1>1, <1>2, <1>3 DEF Init, TypeOK

LEMMA NextTypeOK == TypeOK /\ [Next]_vars => TypeOK'
  <1> SUFFICES ASSUME TypeOK, [Next]_vars
               PROVE  TypeOK'
    OBVIOUS
  <1> USE DEF TypeOK, Goto, Leave, Raise, control, data, thread, terminal
  <1>1. CASE Dispatch
    BY <1>1, InvocationAssumption DEF Dispatch, Command
  <1>2. CASE Prompt
    BY <1>2 DEF Prompt
  <1>3. CASE Pick
    BY <1>3 DEF Pick
  <1>4. CASE Path
    BY <1>4 DEF Path
  <1>5. CASE ListModules
    BY <1>5 DEF ListModules
  <1>6. CASE Diff
    BY <1>6 DEF Diff
  <1>7. CASE StartSpinner
    BY <1>7 DEF StartSpinner
  <1>8. CASE EnterTry
    BY <1>8 DEF EnterTry
  <1>9. CASE EngineReturns
    BY <1>9 DEF EngineReturns
  <1>10. CASE EngineRaises
    BY <1>10 DEF EngineRaises
  <1>11. CASE ClearFlag
    <2>1. running' \in BOOLEAN
      BY <1>11 DEF ClearFlag
    <2>2. pc' = "join" /\ exc' = exc /\ exit' = exit
      BY <1>11 DEF ClearFlag
    <2> QED
      BY <1>11, <2>1, <2>2 DEF ClearFlag
  <1>12. CASE Joined
    BY <1>12 DEF Joined
  <1>13. CASE PrintTerminal
    BY <1>13 DEF PrintTerminal
  <1>14. CASE OpenFile
    BY <1>14 DEF OpenFile, Current, File
  <1>15. CASE WriteFile
    BY <1>15 DEF WriteFile, Current, File
  <1>16. CASE Decide
    BY <1>16 DEF Decide
  <1>17. CASE IOFails
    BY <1>17 DEF IOFails
  <1>18. CASE Interrupt
    BY <1>18, InterruptAssumption DEF Interrupt
  <1>19. CASE Handle
    BY <1>19 DEF Handle
  <1>20. CASE ProcessExits
    BY <1>20 DEF ProcessExits
  <1>21. CASE HideCursor
    BY <1>21 DEF HideCursor
  <1>22. CASE CheckFlag
    BY <1>22 DEF CheckFlag
  <1>23. CASE DrawFrame
    BY <1>23 DEF DrawFrame
  <1>24. CASE ShowCursor
    BY <1>24 DEF ShowCursor
  <1>25. CASE UNCHANGED vars
    BY <1>25 DEF vars
  <1> QED
    BY <1>1, <1>2, <1>3, <1>4, <1>5, <1>6, <1>7, <1>8, <1>9, <1>10, <1>11, <1>12, <1>13, <1>14,
       <1>15, <1>16, <1>17, <1>18, <1>19, <1>20, <1>21, <1>22, <1>23, <1>24, <1>25
    DEF Next, MainStep, Animate, Exited

(***************************************************************************)
(* The state of a run of the command is well typed, whatever it was asked. *)
(***************************************************************************)
THEOREM TypeCorrect == Spec => []TypeOK
  BY InitTypeOK, NextTypeOK, PTL DEF Spec

-----------------------------------------------------------------------------
(***************************************************************************)
(* The inductive invariant.                                                *)
(***************************************************************************)
LEMMA InitCliInv == Init => CliInv
  BY DEF Init, CliInv, SpinnerInv, OutcomeInv, FilesInv, BeforeScan

LEMMA NextSpinnerInv == TypeOK /\ CliInv /\ [Next]_vars => SpinnerInv'
  <1> SUFFICES ASSUME TypeOK, CliInv, [Next]_vars
               PROVE  SpinnerInv'
    OBVIOUS
  <1> USE DEF CliInv, SpinnerInv, BeforeScan, Goto, Leave, Raise, control, data, thread, terminal
  <1>1. CASE Dispatch
    BY <1>1 DEF Dispatch
  <1>2. CASE Prompt
    BY <1>2 DEF Prompt
  <1>3. CASE Pick
    BY <1>3 DEF Pick
  <1>4. CASE Path
    BY <1>4 DEF Path
  <1>5. CASE ListModules
    BY <1>5 DEF ListModules
  <1>6. CASE Diff
    BY <1>6 DEF Diff
  <1>7. CASE StartSpinner
    BY <1>7 DEF StartSpinner
  <1>8. CASE EnterTry
    BY <1>8 DEF EnterTry
  <1>9. CASE EngineReturns
    BY <1>9 DEF EngineReturns
  <1>10. CASE EngineRaises
    BY <1>10 DEF EngineRaises
  <1>11. CASE ClearFlag
    BY <1>11 DEF ClearFlag
  <1>12. CASE Joined
    BY <1>12 DEF Joined
  <1>13. CASE PrintTerminal
    BY <1>13 DEF PrintTerminal
  <1>14. CASE OpenFile
    BY <1>14 DEF OpenFile
  <1>15. CASE WriteFile
    BY <1>15 DEF WriteFile
  <1>16. CASE Decide
    BY <1>16 DEF Decide
  <1>17. CASE IOFails
    BY <1>17 DEF IOFails
  <1>18. CASE Interrupt
    <2>1. pc' \in {"stop", "unwind", "leaving"}
      BY <1>18 DEF Interrupt
    <2>2. pc' = "stop" <=> pc = "engine"
      BY <1>18 DEF Interrupt
    <2>3. UNCHANGED <<anim, cursor, line>>
      BY <1>18 DEF Interrupt
    <2>4. CASE pc \in {"started", "stop", "join"}
      BY <1>18, <2>1, <2>2, <2>3, <2>4 DEF Interrupt
    <2>5. CASE pc \notin {"started", "stop", "join"}
      <3>1. spinner' = spinner
        BY <1>18, <2>5 DEF Interrupt
      <3>2. pc # "engine" => spinner # "on"
        BY <1>18, <2>5 DEF Interrupt, TypeOK
      <3> QED
        BY <2>1, <2>2, <2>3, <3>1, <3>2
    <2> QED
      BY <2>4, <2>5
  <1>19. CASE Handle
    BY <1>19 DEF Handle
  <1>20. CASE ProcessExits
    BY <1>20 DEF ProcessExits
  <1>21. CASE HideCursor
    BY <1>21 DEF HideCursor
  <1>22. CASE CheckFlag
    BY <1>22 DEF CheckFlag
  <1>23. CASE DrawFrame
    BY <1>23 DEF DrawFrame
  <1>24. CASE ShowCursor
    BY <1>24 DEF ShowCursor
  <1>25. CASE UNCHANGED vars
    BY <1>25 DEF vars
  <1> QED
    BY <1>1, <1>2, <1>3, <1>4, <1>5, <1>6, <1>7, <1>8, <1>9, <1>10, <1>11, <1>12, <1>13, <1>14,
       <1>15, <1>16, <1>17, <1>18, <1>19, <1>20, <1>21, <1>22, <1>23, <1>24, <1>25
    DEF Next, MainStep, Animate, Exited

LEMMA NextOutcomeInv == TypeOK /\ CliInv /\ [Next]_vars => OutcomeInv'
  <1> SUFFICES ASSUME TypeOK, CliInv, [Next]_vars
               PROVE  OutcomeInv'
    OBVIOUS
  <1> USE DEF TypeOK, CliInv, SpinnerInv, OutcomeInv, BeforeScan, Pending, Goto, Leave, Raise,
              control, data, thread, terminal
  <1>1. CASE Dispatch
    BY <1>1 DEF Dispatch
  <1>2. CASE Prompt
    BY <1>2 DEF Prompt
  <1>3. CASE Pick
    BY <1>3 DEF Pick
  <1>4. CASE Path
    BY <1>4 DEF Path
  <1>5. CASE ListModules
    BY <1>5 DEF ListModules
  <1>6. CASE Diff
    BY <1>6 DEF Diff
  <1>7. CASE StartSpinner
    BY <1>7 DEF StartSpinner
  <1>8. CASE EnterTry
    BY <1>8 DEF EnterTry
  <1>9. CASE EngineReturns
    BY <1>9 DEF EngineReturns
  <1>10. CASE EngineRaises
    BY <1>10 DEF EngineRaises
  <1>11. CASE ClearFlag
    BY <1>11 DEF ClearFlag
  <1>12. CASE Joined
    BY <1>12 DEF Joined
  <1>13. CASE PrintTerminal
    BY <1>13 DEF PrintTerminal
  <1>14. CASE OpenFile
    BY <1>14 DEF OpenFile
  <1>15. CASE WriteFile
    BY <1>15 DEF WriteFile
  <1>16. CASE Decide
    BY <1>16 DEF Decide
  <1>17. CASE IOFails
    BY <1>17 DEF IOFails
  <1>18. CASE Interrupt
    BY <1>18 DEF Interrupt
  <1>19. CASE Handle
    BY <1>19 DEF Handle
  <1>20. CASE ProcessExits
    BY <1>20 DEF ProcessExits
  <1>21. CASE HideCursor
    BY <1>21 DEF HideCursor
  <1>22. CASE CheckFlag
    BY <1>22 DEF CheckFlag
  <1>23. CASE DrawFrame
    BY <1>23 DEF DrawFrame
  <1>24. CASE ShowCursor
    BY <1>24 DEF ShowCursor
  <1>25. CASE UNCHANGED vars
    BY <1>25 DEF vars
  <1> QED
    BY <1>1, <1>2, <1>3, <1>4, <1>5, <1>6, <1>7, <1>8, <1>9, <1>10, <1>11, <1>12, <1>13, <1>14,
       <1>15, <1>16, <1>17, <1>18, <1>19, <1>20, <1>21, <1>22, <1>23, <1>24, <1>25
    DEF Next, MainStep, Animate, Exited

LEMMA NextFilesInv == TypeOK /\ CliInv /\ [Next]_vars => FilesInv'
  <1> SUFFICES ASSUME TypeOK, CliInv, [Next]_vars
               PROVE  FilesInv'
    OBVIOUS
  <1> USE DEF TypeOK, CliInv, SpinnerInv, OutcomeInv, FilesInv, BeforeScan, Pending, Current, File,
              Goto, Leave, Raise, control, data, thread, terminal
  <1>1. CASE Dispatch
    BY <1>1 DEF Dispatch
  <1>2. CASE Prompt
    BY <1>2 DEF Prompt
  <1>3. CASE Pick
    BY <1>3 DEF Pick
  <1>4. CASE Path
    BY <1>4 DEF Path
  <1>5. CASE ListModules
    BY <1>5 DEF ListModules
  <1>6. CASE Diff
    BY <1>6 DEF Diff
  <1>7. CASE StartSpinner
    BY <1>7 DEF StartSpinner
  <1>8. CASE EnterTry
    BY <1>8 DEF EnterTry
  <1>9. CASE EngineReturns
    BY <1>9 DEF EngineReturns
  <1>10. CASE EngineRaises
    BY <1>10 DEF EngineRaises
  <1>11. CASE ClearFlag
    BY <1>11 DEF ClearFlag
  <1>12. CASE Joined
    BY <1>12 DEF Joined
  <1>13. CASE PrintTerminal
    BY <1>13 DEF PrintTerminal
  <1>14. CASE OpenFile
    BY <1>14 DEF OpenFile
  <1>15. CASE WriteFile
    BY <1>15 DEF WriteFile
  <1>16. CASE Decide
    BY <1>16 DEF Decide
  <1>17. CASE IOFails
    BY <1>17 DEF IOFails
  <1>18. CASE Interrupt
    BY <1>18 DEF Interrupt
  <1>19. CASE Handle
    BY <1>19 DEF Handle
  <1>20. CASE ProcessExits
    BY <1>20 DEF ProcessExits
  <1>21. CASE HideCursor
    BY <1>21 DEF HideCursor
  <1>22. CASE CheckFlag
    BY <1>22 DEF CheckFlag
  <1>23. CASE DrawFrame
    BY <1>23 DEF DrawFrame
  <1>24. CASE ShowCursor
    BY <1>24 DEF ShowCursor
  <1>25. CASE UNCHANGED vars
    BY <1>25 DEF vars
  <1> QED
    BY <1>1, <1>2, <1>3, <1>4, <1>5, <1>6, <1>7, <1>8, <1>9, <1>10, <1>11, <1>12, <1>13, <1>14,
       <1>15, <1>16, <1>17, <1>18, <1>19, <1>20, <1>21, <1>22, <1>23, <1>24, <1>25
    DEF Next, MainStep, Animate, Exited

(***************************************************************************)
(* The inductive invariant holds, however often Ctrl+C is pressed.         *)
(***************************************************************************)
THEOREM CliInvariant == Spec => [](TypeOK /\ CliInv)
  <1>1. TypeOK /\ CliInv /\ [Next]_vars => CliInv'
    BY NextSpinnerInv, NextOutcomeInv, NextFilesInv DEF CliInv
  <1> QED
    BY <1>1, InitTypeOK, NextTypeOK, InitCliInv, PTL DEF Spec

-----------------------------------------------------------------------------
(***************************************************************************)
(* The exit code of a scan says what happened, and a torn file never       *)
(* passes.                                                                 *)
(***************************************************************************)
THEOREM ExitCodeIsFaithful == Spec => []ExitCodeFaithful
  <1>1. TypeOK /\ CliInv => ExitCodeFaithful
    <2> SUFFICES ASSUME TypeOK, CliInv, pc = "exited", spinner # "off", exc # "quit"
                 PROVE  /\ exit \in {0, 1, 2, 130}
                        /\ exit = 0 => scan.risk \in Risks \ {"CRITICAL"}
                        /\ exit = 2 => scan.risk = "CRITICAL"
                        /\ exit \in {0, 2} => \A f \in writes : files[f] = "complete"
      BY DEF ExitCodeFaithful
    <2>1. CASE exc \in {"error", "interrupt"}
      BY <2>1 DEF CliInv, OutcomeInv
    <2>2. CASE exc = "none"
      BY <2>2 DEF CliInv, OutcomeInv, Scan, Pending
    <2> QED
      BY <2>1, <2>2 DEF TypeOK
  <1> QED
    BY <1>1, CliInvariant, PTL

THEOREM TornFilesNeverPass == Spec => []NoTornFilePasses
  <1>1. CliInv => NoTornFilePasses
    BY DEF CliInv, OutcomeInv, FilesInv, NoTornFilePasses
  <1> QED
    BY <1>1, CliInvariant, PTL

(***************************************************************************)
(* The report is printed on a terminal the spinner thread has left, and    *)
(* the cursor comes back.                                                  *)
(***************************************************************************)
THEOREM ReportIsQuiet == Spec => []QuietReport
  <1>1. CliInv => QuietReport
    BY DEF CliInv, SpinnerInv, QuietReport
  <1> QED
    BY <1>1, CliInvariant, PTL

THEOREM CursorComesBack == Spec => []CursorRestored
  <1>1. TypeOK /\ CliInv => CursorRestored
    BY DEF TypeOK, CliInv, SpinnerInv, CursorRestored
  <1> QED
    BY <1>1, CliInvariant, PTL
=============================================================================
