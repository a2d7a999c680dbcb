----------------------- MODULE CampaignWindow_proofs -----------------------
(***************************************************************************)
(* Proofs about CampaignWindow for every set of profiles, every set of     *)
(* fault scenarios and every number of attempts.                           *)
(***************************************************************************)
EXTENDS CampaignWindow, TLAPS

\* Parts of exit() that run between closed and the verdict.
ExitTail == {"undo", "start", "wait", "disarm", "write"}

\* What each step of the runner knows of the Window object.
Control ==
  /\ pc = "preflight" => window = "none" /\ inTry
  /\ pc \in {"preflight"} \cup (EnterSteps \ {"restore_only"}) => ~prodDown
  /\ pc \in EnterSteps => window = "entering" /\ inTry
  /\ pc \in CellSteps => window = "entered"
  /\ pc \in EnterSteps \cup CellSteps \cup {"preflight"} => ~closed
  /\ pc \in {"permanent_steps", "ping", "rearm"} => profile.restart
  /\ pc = "temp_changes" => profile.temp
  /\ pc \in ExitSteps => window # "none"
  /\ inTry /\ pc \in ExitSteps \cup {"finish"} => window # "entering"
  /\ pc \in ExitTail => closed /\ result = "none"
  /\ pc \in {"start", "wait"} => prodDown
  /\ pc \in {"report", "ended"} => window = "none" \/ result # "none"
  /\ result # "none" => closed
  /\ closed => window # "none"
  /\ window = "entered" => prodDown

\* What the recorded verdicts say of production.
Verdicts ==
  /\ window = "none" => prod = "up"
  /\ verified => closed /\ prod = "up"
  /\ result = "RESTORED" => prod = "up"
  /\ result = "N/A" => ~prodDown

\* The runner only leaves its path when it is killed.
Killed ==
  /\ pc = "dead" => "crash" \in hit
  /\ pc = "raised" => RunnerKilled
  /\ closed /\ result = "none" /\ pc \notin ExitTail => RunnerKilled

\* Production that enter() has not stopped is up, but for the moments of a
\* restarting target.
Unstopped ==
  Survivable /\ ~RunnerKilled /\ ~prodDown /\ prod # "up"
    => pc \in {"ping", "rearm", "stop"}

\* When a restore does not fail and the target is not restarted, the watchdog
\* is armed whenever production is down.
Held ==
  ~RestoreFailed /\ ~profile.restart /\ "stopsignal" \notin hit /\ "slow" \notin hit =>
    /\ prod # "sick"
    /\ prod = "down" => wd = "armed"
    /\ pc \in {"live_check", "temp_changes", "stop"} => wd = "armed"
    /\ pc \notin Gone /\ ~prodDown => prod = "up"
    /\ pc = "except" /\ window = "entering" => prod = "up"
    /\ pc \in {"wait", "disarm", "write"} => prod = "up"
    /\ pc \notin Gone /\ window # "entered" => ~expired /\ ~stale /\ wd # "firing"

\* Production that the runner does not take for stopped is up, unless the
\* runner died in the middle of stopping it.
Untouched ==
  ~profile.restart /\ "stopsignal" \notin hit /\ ~prodDown
    => prod = "up" \/ (pc = "dead" /\ ~closed)

\* No command fails and the watchdog does not step in while the runner runs.
Undisturbed == hit \cap {"command", "signal", "slow", "late"} = {}

\* Where in the runner's path the campaign's processes live.
Placed ==
  Undisturbed =>
    /\ pc \notin Gone => ~expired /\ ~stale /\ wd # "firing"
    /\ server /\ pc # "dead" => pc \in {"wait_ready", "client", "kill"}
    /\ pc \in CellSteps => prod = "down"
    /\ sidecar /\ pc # "dead" => handle
    /\ handle => pc \notin EnterSteps \cup {"preflight", "report", "ended"}
    /\ handle /\ pc \in ExitSteps => ret = "finish"

\* What exit() has achieved once it is past a step.
Undone ==
  Undisturbed /\ hit \cap {"undo", "disarm"} = {} =>
    /\ temp => profile.temp
    /\ pc \in {"start", "wait", "disarm", "write"} => ~temp
    /\ pc = "write" => wd = "off" /\ ~lease
    /\ result # "none" => ~temp /\ wd = "off" /\ ~lease

IInv ==
  /\ TypeOK /\ Control /\ Verdicts /\ Killed /\ Unstopped /\ Held
  /\ Untouched /\ Placed /\ Undone
-----------------------------------------------------------------------------
\* Every step of the system keeps the types.  The steps that write FALSE to a
\* flag, or write one in only some of their outcomes, prove the flag first.
LEMMA TypeStep ==
  ASSUME TypeOK, [Next]_vars
  PROVE  TypeOK'
<1> USE MaxAttemptsAssumption
    DEF TypeOK, vars, faultVars, targetVars, watchdogVars, windowVars,
        runnerVars, NoFault, Fault, Steps, EnterSteps, CellSteps, ExitSteps,
        Gone, Finals, Levels
<1>1. CASE Preflight
  BY <1>1 DEF Preflight
<1>2. CASE ArmWatchdog
  <2>1. lease' \in BOOLEAN
    BY <1>2, Zenon DEF ArmWatchdog, AfterArm, AfterLiveCheck, AfterTempChanges, Goto
  <2>2. QED
    BY <1>2, <2>1 DEF ArmWatchdog, AfterArm, AfterLiveCheck, AfterTempChanges, Goto
<1>3. CASE LiveCheck
  BY <1>3 DEF LiveCheck, AfterLiveCheck, AfterTempChanges, Goto
<1>4. CASE RefuseWindow
  <2>1. lease' \in BOOLEAN
    BY <1>4, Zenon DEF RefuseWindow, DisarmWatchdog, Goto
  <2>2. QED
    BY <1>4, <2>1 DEF RefuseWindow, DisarmWatchdog, Goto
<1>5. CASE ApplyTempChanges
  <2>1. temp' \in BOOLEAN
    BY <1>5, Zenon DEF ApplyTempChanges, AfterTempChanges, Goto
  <2>2. QED
    BY <1>5, <2>1 DEF ApplyTempChanges, AfterTempChanges, Goto
<1>6. CASE RestartTarget
  BY <1>6 DEF RestartTarget, Goto
<1>7. CASE AwaitTarget
  BY <1>7 DEF AwaitTarget, Goto
<1>8. CASE RearmWatchdog
  <2>1. lease' \in BOOLEAN /\ stale' \in BOOLEAN
    BY <1>8, Zenon DEF RearmWatchdog, Goto
  <2>2. QED
    BY <1>8, <2>1 DEF RearmWatchdog, Goto
<1>9. CASE StopProd
  BY <1>9 DEF StopProd, AfterEnter, Goto
<1>10. CASE RestoreOnly
  BY <1>10 DEF RestoreOnly, StartProd, StartProdRaises, Goto
<1>11. CASE StartSidecar
  <2>1. sidecar' \in BOOLEAN /\ handle' \in BOOLEAN
    BY <1>11, Zenon DEF StartSidecar
  <2>2. QED
    BY <1>11, <2>1 DEF StartSidecar
<1>12. CASE StartHeartbeat
  BY <1>12 DEF StartHeartbeat
<1>13. CASE LaunchServer
  <2>1. server' \in BOOLEAN
    BY <1>13, Zenon DEF LaunchServer
  <2>2. attempts' \in 0..MaxAttempts
    BY <1>13 DEF LaunchServer
  <2>3. hit' \in Scenarios /\ pc' \in Steps
    BY <1>13 DEF LaunchServer
  <2>4. UNCHANGED <<profile, prod, temp, sidecar, watchdogVars, windowVars, ret,
                    inTry, final, hb, handle, paged>>
    BY <1>13 DEF LaunchServer
  <2>5. QED
    BY <2>1, <2>2, <2>3, <2>4
<1>14. CASE CellsRaise
  BY <1>14 DEF CellsRaise, Goto
<1>15. CASE StopCampaign
  BY <1>15 DEF StopCampaign
<1>16. CASE CellsDone
  <2>1. inTry' \in BOOLEAN
    BY <1>16, Zenon DEF CellsDone
  <2>2. QED
    BY <1>16, <2>1 DEF CellsDone
<1>17. CASE WaitReady
  BY <1>17 DEF WaitReady, Goto
<1>18. CASE RunClient
  BY <1>18 DEF RunClient, Goto
<1>19. CASE KillServer
  <2>1. server' \in BOOLEAN
    BY <1>19, Zenon DEF KillServer, Goto
  <2>2. QED
    BY <1>19, <2>1 DEF KillServer, Goto
<1>20. CASE HandleException
  <2>1. inTry' \in BOOLEAN /\ lease' \in BOOLEAN
    BY <1>20, Zenon DEF HandleException, DisarmWatchdog
  <2>2. QED
    BY <1>20, <2>1 DEF HandleException, DisarmWatchdog
<1>21. CASE Finish
  <2>1. hb' \in BOOLEAN /\ handle' \in BOOLEAN /\ sidecar' \in BOOLEAN
    BY <1>21, Zenon DEF Finish
  <2>2. QED
    BY <1>21, <2>1 DEF Finish
<1>22. CASE Report
  BY <1>22 DEF Report, NotifyLevel
<1>23. CASE BeginExit
  BY <1>23 DEF BeginExit, AfterUndo, Goto
<1>24. CASE ExitAgain
  BY <1>24 DEF ExitAgain, Goto
<1>25. CASE UndoTempChanges
  <2>1. temp' \in BOOLEAN
    BY <1>25, Zenon DEF UndoTempChanges, AfterUndo, Goto
  <2>2. QED
    BY <1>25, <2>1 DEF UndoTempChanges, AfterUndo, Goto
<1>26. CASE RestoreProd
  BY <1>26 DEF RestoreProd, StartProd, StartProdRaises, Goto
<1>27. CASE AwaitHealth
  <2>1. verified' \in BOOLEAN
    BY <1>27, Zenon DEF AwaitHealth, Goto
  <2>2. QED
    BY <1>27, <2>1 DEF AwaitHealth, Goto
<1>28. CASE ExitDisarm
  <2>1. lease' \in BOOLEAN
    BY <1>28, Zenon DEF ExitDisarm, DisarmWatchdog, Goto
  <2>2. QED
    BY <1>28, <2>1 DEF ExitDisarm, DisarmWatchdog, Goto
<1>29. CASE WriteResult
  BY <1>29 DEF WriteResult, Goto
<1>30. CASE Interrupt
  <2>1. server' \in BOOLEAN /\ sidecar' \in BOOLEAN /\ hb' \in BOOLEAN /\ inTry' \in BOOLEAN
    BY <1>30, Zenon DEF Interrupt, InFlight
  <2>2. prod' \in {"up", "down", "sick"} /\ UNCHANGED temp
    BY <1>30 DEF Interrupt, InFlight
  <2>3. pc' \in Steps /\ final' \in Finals
    BY <1>30 DEF Interrupt
  <2>4. QED
    BY <1>30, <2>1, <2>2, <2>3 DEF Interrupt
<1>31. CASE Crash
  <2>1. server' \in BOOLEAN /\ sidecar' \in BOOLEAN /\ hb' \in BOOLEAN
    BY <1>31, Zenon DEF Crash, InFlight
  <2>2. prod' \in {"up", "down", "sick"} /\ UNCHANGED temp
    BY <1>31 DEF Crash, InFlight
  <2>3. pc' \in Steps
    BY <1>31 DEF Crash
  <2>4. QED
    BY <1>31, <2>1, <2>2, <2>3 DEF Crash
<1>32. CASE HeartbeatTick
  <2>1. stale' \in BOOLEAN
    BY <1>32, Zenon DEF HeartbeatTick, Beating
  <2>2. QED
    BY <1>32, <2>1 DEF HeartbeatTick, Beating
<1>33. CASE Overdue
  <2>1. expired' \in BOOLEAN /\ stale' \in BOOLEAN
    BY <1>33, Zenon DEF Overdue
  <2>2. QED
    BY <1>33, <2>1 DEF Overdue
<1>34. CASE Fire
  <2>1. server' \in BOOLEAN /\ sidecar' \in BOOLEAN /\ temp' \in BOOLEAN
    BY <1>34, Zenon DEF Fire, StartProd, StartProdRaises
  <2>2. QED
    BY <1>34, <2>1 DEF Fire, StartProd, StartProdRaises
<1>35. CASE FireDone
  BY <1>35 DEF FireDone
<1>36. CASE UNCHANGED vars
  BY <1>36
<1>37. QED
  BY <1>1, <1>2, <1>3, <1>4, <1>5, <1>6, <1>7, <1>8, <1>9, <1>10, <1>11,
     <1>12, <1>13, <1>14, <1>15, <1>16, <1>17, <1>18, <1>19, <1>20, <1>21,
     <1>22, <1>23, <1>24, <1>25, <1>26, <1>27, <1>28, <1>29, <1>30, <1>31,
     <1>32, <1>33, <1>34, <1>35, <1>36 DEF Next, RunnerStep, WatchdogStep

\* The program counter and the Window object stay in step.
LEMMA ControlStep ==
  ASSUME TypeOK, Control, [Next]_vars
  PROVE  Control'
<1> USE DEF vars, faultVars, targetVars, watchdogVars, windowVars,
        runnerVars, NoFault, Fault, TypeOK, Control, ExitTail,
        EnterSteps, CellSteps, ExitSteps, Gone
<1>1. CASE Preflight
  BY <1>1 DEF Preflight
<1>2. CASE ArmWatchdog
  BY <1>2 DEF ArmWatchdog, AfterArm, AfterLiveCheck, AfterTempChanges, Goto
<1>3. CASE LiveCheck
  BY <1>3 DEF LiveCheck, AfterLiveCheck, AfterTempChanges, Goto
<1>4. CASE RefuseWindow
  BY <1>4 DEF RefuseWindow, DisarmWatchdog, Goto
<1>5. CASE ApplyTempChanges
  BY <1>5 DEF ApplyTempChanges, AfterTempChanges, Goto
<1>6. CASE RestartTarget
  BY <1>6 DEF RestartTarget, Goto
<1>7. CASE AwaitTarget
  BY <1>7 DEF AwaitTarget, Goto
<1>8. CASE RearmWatchdog
  BY <1>8 DEF RearmWatchdog, Goto
<1>9. CASE StopProd
  BY <1>9 DEF StopProd, AfterEnter, Goto
<1>10. CASE RestoreOnly
  BY <1>10 DEF RestoreOnly, StartProd, StartProdRaises, Goto
<1>11. CASE StartSidecar
  BY <1>11 DEF StartSidecar
<1>12. CASE StartHeartbeat
  BY <1>12 DEF StartHeartbeat
<1>13. CASE LaunchServer
  BY <1>13 DEF LaunchServer
<1>14. CASE CellsRaise
  BY <1>14 DEF CellsRaise, Goto
<1>15. CASE StopCampaign
  BY <1>15 DEF StopCampaign
<1>16. CASE CellsDone
  BY <1>16 DEF CellsDone
<1>17. CASE WaitReady
  BY <1>17 DEF WaitReady, Goto
<1>18. CASE RunClient
  BY <1>18 DEF RunClient, Goto
<1>19. CASE KillServer
  BY <1>19 DEF KillServer, Goto
<1>20. CASE HandleException
  BY <1>20 DEF HandleException, DisarmWatchdog
<1>21. CASE Finish
  BY <1>21 DEF Finish
<1>22. CASE Report
  BY <1>22 DEF Report
<1>23. CASE BeginExit
  BY <1>23 DEF BeginExit, AfterUndo, Goto
<1>24. CASE ExitAgain
  BY <1>24 DEF ExitAgain, Goto
<1>25. CASE UndoTempChanges
  BY <1>25 DEF UndoTempChanges, AfterUndo, Goto
<1>26. CASE RestoreProd
  BY <1>26 DEF RestoreProd, StartProd, StartProdRaises, Goto
<1>27. CASE AwaitHealth
  BY <1>27 DEF AwaitHealth, Goto
<1>28. CASE ExitDisarm
  BY <1>28 DEF ExitDisarm, DisarmWatchdog, Goto
<1>29. CASE WriteResult
  BY <1>29 DEF WriteResult, Goto
<1>30. CASE Interrupt
  BY <1>30 DEF Interrupt, InFlight
<1>31. CASE Crash
  BY <1>31 DEF Crash, InFlight
<1>32. CASE HeartbeatTick
  BY <1>32 DEF HeartbeatTick, Beating
<1>33. CASE Overdue
  BY <1>33 DEF Overdue
<1>34. CASE Fire
  BY <1>34 DEF Fire, StartProd, StartProdRaises
<1>35. CASE FireDone
  BY <1>35 DEF FireDone
<1>36. CASE UNCHANGED vars
  BY <1>36
<1>37. QED
  BY <1>1, <1>2, <1>3, <1>4, <1>5, <1>6, <1>7, <1>8, <1>9, <1>10, <1>11,
     <1>12, <1>13, <1>14, <1>15, <1>16, <1>17, <1>18, <1>19, <1>20, <1>21,
     <1>22, <1>23, <1>24, <1>25, <1>26, <1>27, <1>28, <1>29, <1>30, <1>31,
     <1>32, <1>33, <1>34, <1>35, <1>36 DEF Next, RunnerStep, WatchdogStep

\* A verdict, once written, stays true: nobody stops production after exit()
\* has begun.
LEMMA VerdictsStep ==
  ASSUME TypeOK, Control, Verdicts, [Next]_vars
  PROVE  Verdicts'
<1> USE DEF vars, faultVars, targetVars, watchdogVars, windowVars,
        runnerVars, NoFault, Fault, TypeOK, Control, Verdicts, ExitTail,
        EnterSteps, CellSteps, ExitSteps, Gone
<1>1. CASE Preflight
  BY <1>1 DEF Preflight
<1>2. CASE ArmWatchdog
  BY <1>2 DEF ArmWatchdog, AfterArm, AfterLiveCheck, AfterTempChanges, Goto
<1>3. CASE LiveCheck
  BY <1>3 DEF LiveCheck, AfterLiveCheck, AfterTempChanges, Goto
<1>4. CASE RefuseWindow
  BY <1>4 DEF RefuseWindow, DisarmWatchdog, Goto
<1>5. CASE ApplyTempChanges
  BY <1>5 DEF ApplyTempChanges, AfterTempChanges, Goto
<1>6. CASE RestartTarget
  BY <1>6 DEF RestartTarget, Goto
<1>7. CASE AwaitTarget
  BY <1>7 DEF AwaitTarget, Goto
<1>8. CASE RearmWatchdog
  BY <1>8 DEF RearmWatchdog, Goto
<1>9. CASE StopProd
  BY <1>9 DEF StopProd, AfterEnter, Goto
<1>10. CASE RestoreOnly
  BY <1>10 DEF RestoreOnly, StartProd, StartProdRaises, Goto
<1>11. CASE StartSidecar
  BY <1>11 DEF StartSidecar
<1>12. CASE StartHeartbeat
  BY <1>12 DEF StartHeartbeat
<1>13. CASE LaunchServer
  BY <1>13 DEF LaunchServer
<1>14. CASE CellsRaise
  BY <1>14 DEF CellsRaise, Goto
<1>15. CASE StopCampaign
  BY <1>15 DEF StopCampaign
<1>16. CASE CellsDone
  BY <1>16 DEF CellsDone
<1>17. CASE WaitReady
  BY <1>17 DEF WaitReady, Goto
<1>18. CASE RunClient
  BY <1>18 DEF RunClient, Goto
<1>19. CASE KillServer
  BY <1>19 DEF KillServer, Goto
<1>20. CASE HandleException
  BY <1>20 DEF HandleException, DisarmWatchdog
<1>21. CASE Finish
  BY <1>21 DEF Finish
<1>22. CASE Report
  BY <1>22 DEF Report
<1>23. CASE BeginExit
  BY <1>23 DEF BeginExit, AfterUndo, Goto
<1>24. CASE ExitAgain
  BY <1>24 DEF ExitAgain, Goto
<1>25. CASE UndoTempChanges
  BY <1>25 DEF UndoTempChanges, AfterUndo, Goto
<1>26. CASE RestoreProd
  BY <1>26 DEF RestoreProd, StartProd, StartProdRaises, Goto
<1>27. CASE AwaitHealth
  BY <1>27 DEF AwaitHealth, Goto
<1>28. CASE ExitDisarm
  BY <1>28 DEF ExitDisarm, DisarmWatchdog, Goto
<1>29. CASE WriteResult
  BY <1>29 DEF WriteResult, Goto
<1>30. CASE Interrupt
  BY <1>30 DEF Interrupt, InFlight
<1>31. CASE Crash
  BY <1>31 DEF Crash, InFlight
<1>32. CASE HeartbeatTick
  BY <1>32 DEF HeartbeatTick, Beating
<1>33. CASE Overdue
  BY <1>33 DEF Overdue
<1>34. CASE Fire
  BY <1>34 DEF Fire, StartProd, StartProdRaises
<1>35. CASE FireDone
  BY <1>35 DEF FireDone
<1>36. CASE UNCHANGED vars
  BY <1>36
<1>37. QED
  BY <1>1, <1>2, <1>3, <1>4, <1>5, <1>6, <1>7, <1>8, <1>9, <1>10, <1>11,
     <1>12, <1>13, <1>14, <1>15, <1>16, <1>17, <1>18, <1>19, <1>20, <1>21,
     <1>22, <1>23, <1>24, <1>25, <1>26, <1>27, <1>28, <1>29, <1>30, <1>31,
     <1>32, <1>33, <1>34, <1>35, <1>36 DEF Next, RunnerStep, WatchdogStep

\* A runner that is gone without a result was killed.
LEMMA KilledStep ==
  ASSUME TypeOK, Control, Killed, [Next]_vars
  PROVE  Killed'
<1> USE DEF vars, faultVars, targetVars, watchdogVars, windowVars,
        runnerVars, NoFault, Fault, TypeOK, Control, Killed,
        RunnerKilled, ExitTail, EnterSteps, CellSteps, ExitSteps, Gone
<1>1. CASE Preflight
  BY <1>1 DEF Preflight
<1>2. CASE ArmWatchdog
  BY <1>2 DEF ArmWatchdog, AfterArm, AfterLiveCheck, AfterTempChanges, Goto
<1>3. CASE LiveCheck
  BY <1>3 DEF LiveCheck, AfterLiveCheck, AfterTempChanges, Goto
<1>4. CASE RefuseWindow
  BY <1>4 DEF RefuseWindow, DisarmWatchdog, Goto
<1>5. CASE ApplyTempChanges
  BY <1>5 DEF ApplyTempChanges, AfterTempChanges, Goto
<1>6. CASE RestartTarget
  BY <1>6 DEF RestartTarget, Goto
<1>7. CASE AwaitTarget
  BY <1>7 DEF AwaitTarget, Goto
<1>8. CASE RearmWatchdog
  BY <1>8 DEF RearmWatchdog, Goto
<1>9. CASE StopProd
  BY <1>9 DEF StopProd, AfterEnter, Goto
<1>10. CASE RestoreOnly
  BY <1>10 DEF RestoreOnly, StartProd, StartProdRaises, Goto
<1>11. CASE StartSidecar
  BY <1>11 DEF StartSidecar
<1>12. CASE StartHeartbeat
  BY <1>12 DEF StartHeartbeat
<1>13. CASE LaunchServer
  BY <1>13 DEF LaunchServer
<1>14. CASE CellsRaise
  BY <1>14 DEF CellsRaise, Goto
<1>15. CASE StopCampaign
  BY <1>15 DEF StopCampaign
<1>16. CASE CellsDone
  BY <1>16 DEF CellsDone
<1>17. CASE WaitReady
  BY <1>17 DEF WaitReady, Goto
<1>18. CASE RunClient
  BY <1>18 DEF RunClient, Goto
<1>19. CASE KillServer
  BY <1>19 DEF KillServer, Goto
<1>20. CASE HandleException
  BY <1>20 DEF HandleException, DisarmWatchdog
<1>21. CASE Finish
  BY <1>21 DEF Finish
<1>22. CASE Report
  BY <1>22 DEF Report
<1>23. CASE BeginExit
  BY <1>23 DEF BeginExit, AfterUndo, Goto
<1>24. CASE ExitAgain
  BY <1>24 DEF ExitAgain, Goto
<1>25. CASE UndoTempChanges
  BY <1>25 DEF UndoTempChanges, AfterUndo, Goto
<1>26. CASE RestoreProd
  BY <1>26 DEF RestoreProd, StartProd, StartProdRaises, Goto
<1>27. CASE AwaitHealth
  BY <1>27 DEF AwaitHealth, Goto
<1>28. CASE ExitDisarm
  BY <1>28 DEF ExitDisarm, DisarmWatchdog, Goto
<1>29. CASE WriteResult
  BY <1>29 DEF WriteResult, Goto
<1>30. CASE Interrupt
  BY <1>30 DEF Interrupt, InFlight
<1>31. CASE Crash
  BY <1>31 DEF Crash, InFlight
<1>32. CASE HeartbeatTick
  BY <1>32 DEF HeartbeatTick, Beating
<1>33. CASE Overdue
  BY <1>33 DEF Overdue
<1>34. CASE Fire
  BY <1>34 DEF Fire, StartProd, StartProdRaises
<1>35. CASE FireDone
  BY <1>35 DEF FireDone
<1>36. CASE UNCHANGED vars
  BY <1>36
<1>37. QED
  BY <1>1, <1>2, <1>3, <1>4, <1>5, <1>6, <1>7, <1>8, <1>9, <1>10, <1>11,
     <1>12, <1>13, <1>14, <1>15, <1>16, <1>17, <1>18, <1>19, <1>20, <1>21,
     <1>22, <1>23, <1>24, <1>25, <1>26, <1>27, <1>28, <1>29, <1>30, <1>31,
     <1>32, <1>33, <1>34, <1>35, <1>36 DEF Next, RunnerStep, WatchdogStep

\* As long as nothing but survivable faults strike, only a restart of the
\* target takes production down behind the runner's back.
LEMMA UnstoppedStep ==
  ASSUME TypeOK, Control, Unstopped, [Next]_vars
  PROVE  Unstopped'
<1> USE DEF vars, faultVars, targetVars, watchdogVars, windowVars,
        runnerVars, NoFault, Fault, TypeOK, Control, Unstopped,
        Survivable, RunnerKilled, RestoreFailed, ExitTail, EnterSteps,
        CellSteps, ExitSteps, Gone
<1>1. CASE Preflight
  BY <1>1 DEF Preflight
<1>2. CASE ArmWatchdog
  BY <1>2 DEF ArmWatchdog, AfterArm, AfterLiveCheck, AfterTempChanges, Goto
<1>3. CASE LiveCheck
  BY <1>3 DEF LiveCheck, AfterLiveCheck, AfterTempChanges, Goto
<1>4. CASE RefuseWindow
  BY <1>4 DEF RefuseWindow, DisarmWatchdog, Goto
<1>5. CASE ApplyTempChanges
  BY <1>5 DEF ApplyTempChanges, AfterTempChanges, Goto
<1>6. CASE RestartTarget
  BY <1>6 DEF RestartTarget, Goto
<1>7. CASE AwaitTarget
  BY <1>7 DEF AwaitTarget, Goto
<1>8. CASE RearmWatchdog
  BY <1>8 DEF RearmWatchdog, Goto
<1>9. CASE StopProd
  BY <1>9 DEF StopProd, AfterEnter, Goto
<1>10. CASE RestoreOnly
  BY <1>10 DEF RestoreOnly, StartProd, StartProdRaises, Goto
<1>11. CASE StartSidecar
  BY <1>11 DEF StartSidecar
<1>12. CASE StartHeartbeat
  BY <1>12 DEF StartHeartbeat
<1>13. CASE LaunchServer
  BY <1>13 DEF LaunchServer
<1>14. CASE CellsRaise
  BY <1>14 DEF CellsRaise, Goto
<1>15. CASE StopCampaign
  BY <1>15 DEF StopCampaign
<1>16. CASE CellsDone
  BY <1>16 DEF CellsDone
<1>17. CASE WaitReady
  BY <1>17 DEF WaitReady, Goto
<1>18. CASE RunClient
  BY <1>18 DEF RunClient, Goto
<1>19. CASE KillServer
  BY <1>19 DEF KillServer, Goto
<1>20. CASE HandleException
  BY <1>20 DEF HandleException, DisarmWatchdog
<1>21. CASE Finish
  BY <1>21 DEF Finish
<1>22. CASE Report
  BY <1>22 DEF Report
<1>23. CASE BeginExit
  BY <1>23 DEF BeginExit, AfterUndo, Goto
<1>24. CASE ExitAgain
  BY <1>24 DEF ExitAgain, Goto
<1>25. CASE UndoTempChanges
  BY <1>25 DEF UndoTempChanges, AfterUndo, Goto
<1>26. CASE RestoreProd
  BY <1>26 DEF RestoreProd, StartProd, StartProdRaises, Goto
<1>27. CASE AwaitHealth
  BY <1>27 DEF AwaitHealth, Goto
<1>28. CASE ExitDisarm
  BY <1>28 DEF ExitDisarm, DisarmWatchdog, Goto
<1>29. CASE WriteResult
  BY <1>29 DEF WriteResult, Goto
<1>30. CASE Interrupt
  BY <1>30 DEF Interrupt, InFlight
<1>31. CASE Crash
  BY <1>31 DEF Crash, InFlight
<1>32. CASE HeartbeatTick
  BY <1>32 DEF HeartbeatTick, Beating
<1>33. CASE Overdue
  BY <1>33 DEF Overdue
<1>34. CASE Fire
  BY <1>34 DEF Fire, StartProd, StartProdRaises
<1>35. CASE FireDone
  BY <1>35 DEF FireDone
<1>36. CASE UNCHANGED vars
  BY <1>36
<1>37. QED
  BY <1>1, <1>2, <1>3, <1>4, <1>5, <1>6, <1>7, <1>8, <1>9, <1>10, <1>11,
     <1>12, <1>13, <1>14, <1>15, <1>16, <1>17, <1>18, <1>19, <1>20, <1>21,
     <1>22, <1>23, <1>24, <1>25, <1>26, <1>27, <1>28, <1>29, <1>30, <1>31,
     <1>32, <1>33, <1>34, <1>35, <1>36 DEF Next, RunnerStep, WatchdogStep

\* The watchdog stays armed over every outage of production.
LEMMA HeldStep ==
  ASSUME TypeOK, Control, Held, [Next]_vars
  PROVE  Held'
<1> USE DEF vars, faultVars, targetVars, watchdogVars, windowVars,
        runnerVars, NoFault, Fault, TypeOK, Control, Held,
        RestoreFailed, ExitTail, EnterSteps, CellSteps, ExitSteps, Gone
<1>1. CASE Preflight
  BY <1>1 DEF Preflight
<1>2. CASE ArmWatchdog
  BY <1>2 DEF ArmWatchdog, AfterArm, AfterLiveCheck, AfterTempChanges, Goto
<1>3. CASE LiveCheck
  BY <1>3 DEF LiveCheck, AfterLiveCheck, AfterTempChanges, Goto
<1>4. CASE RefuseWindow
  BY <1>4 DEF RefuseWindow, DisarmWatchdog, Goto
<1>5. CASE ApplyTempChanges
  BY <1>5 DEF ApplyTempChanges, AfterTempChanges, Goto
<1>6. CASE RestartTarget
  BY <1>6 DEF RestartTarget, Goto
<1>7. CASE AwaitTarget
  BY <1>7 DEF AwaitTarget, Goto
<1>8. CASE RearmWatchdog
  BY <1>8 DEF RearmWatchdog, Goto
<1>9. CASE StopProd
  BY <1>9 DEF StopProd, AfterEnter, Goto
<1>10. CASE RestoreOnly
  BY <1>10 DEF RestoreOnly, StartProd, StartProdRaises, Goto
<1>11. CASE StartSidecar
  BY <1>11 DEF StartSidecar
<1>12. CASE StartHeartbeat
  BY <1>12 DEF StartHeartbeat
<1>13. CASE LaunchServer
  BY <1>13 DEF LaunchServer
<1>14. CASE CellsRaise
  BY <1>14 DEF CellsRaise, Goto
<1>15. CASE StopCampaign
  BY <1>15 DEF StopCampaign
<1>16. CASE CellsDone
  BY <1>16 DEF CellsDone
<1>17. CASE WaitReady
  BY <1>17 DEF WaitReady, Goto
<1>18. CASE RunClient
  BY <1>18 DEF RunClient, Goto
<1>19. CASE KillServer
  BY <1>19 DEF KillServer, Goto
<1>20. CASE HandleException
  BY <1>20 DEF HandleException, DisarmWatchdog
<1>21. CASE Finish
  BY <1>21 DEF Finish
<1>22. CASE Report
  BY <1>22 DEF Report
<1>23. CASE BeginExit
  BY <1>23 DEF BeginExit, AfterUndo, Goto
<1>24. CASE ExitAgain
  BY <1>24 DEF ExitAgain, Goto
<1>25. CASE UndoTempChanges
  BY <1>25 DEF UndoTempChanges, AfterUndo, Goto
<1>26. CASE RestoreProd
  BY <1>26 DEF RestoreProd, StartProd, StartProdRaises, Goto
<1>27. CASE AwaitHealth
  BY <1>27 DEF AwaitHealth, Goto
<1>28. CASE ExitDisarm
  BY <1>28 DEF ExitDisarm, DisarmWatchdog, Goto
<1>29. CASE WriteResult
  BY <1>29 DEF WriteResult, Goto
<1>30. CASE Interrupt
  BY <1>30 DEF Interrupt, InFlight
<1>31. CASE Crash
  BY <1>31 DEF Crash, InFlight
<1>32. CASE HeartbeatTick
  BY <1>32 DEF HeartbeatTick, Beating
<1>33. CASE Overdue
  BY <1>33 DEF Overdue
<1>34. CASE Fire
  BY <1>34 DEF Fire, StartProd, StartProdRaises
<1>35. CASE FireDone
  BY <1>35 DEF FireDone
<1>36. CASE UNCHANGED vars
  BY <1>36
<1>37. QED
  BY <1>1, <1>2, <1>3, <1>4, <1>5, <1>6, <1>7, <1>8, <1>9, <1>10, <1>11,
     <1>12, <1>13, <1>14, <1>15, <1>16, <1>17, <1>18, <1>19, <1>20, <1>21,
     <1>22, <1>23, <1>24, <1>25, <1>26, <1>27, <1>28, <1>29, <1>30, <1>31,
     <1>32, <1>33, <1>34, <1>35, <1>36 DEF Next, RunnerStep, WatchdogStep

\* Production goes down under prod_down, or in the hands of a dying runner.
LEMMA UntouchedStep ==
  ASSUME TypeOK, Control, Untouched, [Next]_vars
  PROVE  Untouched'
<1> USE DEF vars, faultVars, targetVars, watchdogVars, windowVars,
        runnerVars, NoFault, Fault, TypeOK, Control, Untouched,
        ExitTail, EnterSteps, CellSteps, ExitSteps, Gone
<1>1. CASE Preflight
  BY <1>1 DEF Preflight
<1>2. CASE ArmWatchdog
  BY <1>2 DEF ArmWatchdog, AfterArm, AfterLiveCheck, AfterTempChanges, Goto
<1>3. CASE LiveCheck
  BY <1>3 DEF LiveCheck, AfterLiveCheck, AfterTempChanges, Goto
<1>4. CASE RefuseWindow
  BY <1>4 DEF RefuseWindow, DisarmWatchdog, Goto
<1>5. CASE ApplyTempChanges
  BY <1>5 DEF ApplyTempChanges, AfterTempChanges, Goto
<1>6. CASE RestartTarget
  BY <1>6 DEF RestartTarget, Goto
<1>7. CASE AwaitTarget
  BY <1>7 DEF AwaitTarget, Goto
<1>8. CASE RearmWatchdog
  BY <1>8 DEF RearmWatchdog, Goto
<1>9. CASE StopProd
  BY <1>9 DEF StopProd, AfterEnter, Goto
<1>10. CASE RestoreOnly
  BY <1>10 DEF RestoreOnly, StartProd, StartProdRaises, Goto
<1>11. CASE StartSidecar
  BY <1>11 DEF StartSidecar
<1>12. CASE StartHeartbeat
  BY <1>12 DEF StartHeartbeat
<1>13. CASE LaunchServer
  BY <1>13 DEF LaunchServer
<1>14. CASE CellsRaise
  BY <1>14 DEF CellsRaise, Goto
<1>15. CASE StopCampaign
  BY <1>15 DEF StopCampaign
<1>16. CASE CellsDone
  BY <1>16 DEF CellsDone
<1>17. CASE WaitReady
  BY <1>17 DEF WaitReady, Goto
<1>18. CASE RunClient
  BY <1>18 DEF RunClient, Goto
<1>19. CASE KillServer
  BY <1>19 DEF KillServer, Goto
<1>20. CASE HandleException
  BY <1>20 DEF HandleException, DisarmWatchdog
<1>21. CASE Finish
  BY <1>21 DEF Finish
<1>22. CASE Report
  BY <1>22 DEF Report
<1>23. CASE BeginExit
  BY <1>23 DEF BeginExit, AfterUndo, Goto
<1>24. CASE ExitAgain
  BY <1>24 DEF ExitAgain, Goto
<1>25. CASE UndoTempChanges
  BY <1>25 DEF UndoTempChanges, AfterUndo, Goto
<1>26. CASE RestoreProd
  BY <1>26 DEF RestoreProd, StartProd, StartProdRaises, Goto
<1>27. CASE AwaitHealth
  BY <1>27 DEF AwaitHealth, Goto
<1>28. CASE ExitDisarm
  BY <1>28 DEF ExitDisarm, DisarmWatchdog, Goto
<1>29. CASE WriteResult
  BY <1>29 DEF WriteResult, Goto
<1>30. CASE Interrupt
  BY <1>30 DEF Interrupt, InFlight
<1>31. CASE Crash
  BY <1>31 DEF Crash, InFlight
<1>32. CASE HeartbeatTick
  BY <1>32 DEF HeartbeatTick, Beating
<1>33. CASE Overdue
  BY <1>33 DEF Overdue
<1>34. CASE Fire
  BY <1>34 DEF Fire, StartProd, StartProdRaises
<1>35. CASE FireDone
  BY <1>35 DEF FireDone
<1>36. CASE UNCHANGED vars
  BY <1>36
<1>37. QED
  BY <1>1, <1>2, <1>3, <1>4, <1>5, <1>6, <1>7, <1>8, <1>9, <1>10, <1>11,
     <1>12, <1>13, <1>14, <1>15, <1>16, <1>17, <1>18, <1>19, <1>20, <1>21,
     <1>22, <1>23, <1>24, <1>25, <1>26, <1>27, <1>28, <1>29, <1>30, <1>31,
     <1>32, <1>33, <1>34, <1>35, <1>36 DEF Next, RunnerStep, WatchdogStep

\* Server and sidecar stay where the runner keeps track of them.
LEMMA PlacedStep ==
  ASSUME TypeOK, Control, Killed, Placed, [Next]_vars
  PROVE  Placed'
<1> USE DEF vars, faultVars, targetVars, watchdogVars, windowVars,
        runnerVars, NoFault, Fault, TypeOK, Control, Killed,
        RunnerKilled, Placed, Undisturbed, ExitTail, EnterSteps,
        CellSteps, ExitSteps, Gone
<1>1. CASE Preflight
  BY <1>1 DEF Preflight
<1>2. CASE ArmWatchdog
  BY <1>2 DEF ArmWatchdog, AfterArm, AfterLiveCheck, AfterTempChanges, Goto
<1>3. CASE LiveCheck
  BY <1>3 DEF LiveCheck, AfterLiveCheck, AfterTempChanges, Goto
<1>4. CASE RefuseWindow
  BY <1>4 DEF RefuseWindow, DisarmWatchdog, Goto
<1>5. CASE ApplyTempChanges
  BY <1>5 DEF ApplyTempChanges, AfterTempChanges, Goto
<1>6. CASE RestartTarget
  BY <1>6 DEF RestartTarget, Goto
<1>7. CASE AwaitTarget
  BY <1>7 DEF AwaitTarget, Goto
<1>8. CASE RearmWatchdog
  BY <1>8 DEF RearmWatchdog, Goto
<1>9. CASE StopProd
  BY <1>9 DEF StopProd, AfterEnter, Goto
<1>10. CASE RestoreOnly
  BY <1>10 DEF RestoreOnly, StartProd, StartProdRaises, Goto
<1>11. CASE StartSidecar
  BY <1>11 DEF StartSidecar
<1>12. CASE StartHeartbeat
  BY <1>12 DEF StartHeartbeat
<1>13. CASE LaunchServer
  BY <1>13 DEF LaunchServer
<1>14. CASE CellsRaise
  BY <1>14 DEF CellsRaise, Goto
<1>15. CASE StopCampaign
  BY <1>15 DEF StopCampaign
<1>16. CASE CellsDone
  BY <1>16 DEF CellsDone
<1>17. CASE WaitReady
  BY <1>17 DEF WaitReady, Goto
<1>18. CASE RunClient
  BY <1>18 DEF RunClient, Goto
<1>19. CASE KillServer
  BY <1>19 DEF KillServer, Goto
<1>20. CASE HandleException
  BY <1>20 DEF HandleException, DisarmWatchdog
<1>21. CASE Finish
  BY <1>21 DEF Finish
<1>22. CASE Report
  BY <1>22 DEF Report
<1>23. CASE BeginExit
  BY <1>23 DEF BeginExit, AfterUndo, Goto
<1>24. CASE ExitAgain
  BY <1>24 DEF ExitAgain, Goto
<1>25. CASE UndoTempChanges
  BY <1>25 DEF UndoTempChanges, AfterUndo, Goto
<1>26. CASE RestoreProd
  BY <1>26 DEF RestoreProd, StartProd, StartProdRaises, Goto
<1>27. CASE AwaitHealth
  BY <1>27 DEF AwaitHealth, Goto
<1>28. CASE ExitDisarm
  BY <1>28 DEF ExitDisarm, DisarmWatchdog, Goto
<1>29. CASE WriteResult
  BY <1>29 DEF WriteResult, Goto
<1>30. CASE Interrupt
  BY <1>30 DEF Interrupt, InFlight
<1>31. CASE Crash
  BY <1>31 DEF Crash, InFlight
<1>32. CASE HeartbeatTick
  BY <1>32 DEF HeartbeatTick, Beating
<1>33. CASE Overdue
  BY <1>33 DEF Overdue
<1>34. CASE Fire
  BY <1>34 DEF Fire, StartProd, StartProdRaises
<1>35. CASE FireDone
  BY <1>35 DEF FireDone
<1>36. CASE UNCHANGED vars
  BY <1>36
<1>37. QED
  BY <1>1, <1>2, <1>3, <1>4, <1>5, <1>6, <1>7, <1>8, <1>9, <1>10, <1>11,
     <1>12, <1>13, <1>14, <1>15, <1>16, <1>17, <1>18, <1>19, <1>20, <1>21,
     <1>22, <1>23, <1>24, <1>25, <1>26, <1>27, <1>28, <1>29, <1>30, <1>31,
     <1>32, <1>33, <1>34, <1>35, <1>36 DEF Next, RunnerStep, WatchdogStep

\* What exit() has undone stays undone.
LEMMA UndoneStep ==
  ASSUME TypeOK, Control, Killed, Placed, Undone, [Next]_vars
  PROVE  Undone'
<1> USE DEF vars, faultVars, targetVars, watchdogVars, windowVars,
        runnerVars, NoFault, Fault, TypeOK, Control, Killed,
        RunnerKilled, Placed, Undone, Undisturbed, ExitTail, EnterSteps,
        CellSteps, ExitSteps, Gone
<1>1. CASE Preflight
  BY <1>1 DEF Preflight
<1>2. CASE ArmWatchdog
  BY <1>2 DEF ArmWatchdog, AfterArm, AfterLiveCheck, AfterTempChanges, Goto
<1>3. CASE LiveCheck
  BY <1>3 DEF LiveCheck, AfterLiveCheck, AfterTempChanges, Goto
<1>4. CASE RefuseWindow
  BY <1>4 DEF RefuseWindow, DisarmWatchdog, Goto
<1>5. CASE ApplyTempChanges
  BY <1>5 DEF ApplyTempChanges, AfterTempChanges, Goto
<1>6. CASE RestartTarget
  BY <1>6 DEF RestartTarget, Goto
<1>7. CASE AwaitTarget
  BY <1>7 DEF AwaitTarget, Goto
<1>8. CASE RearmWatchdog
  BY <1>8 DEF RearmWatchdog, Goto
<1>9. CASE StopProd
  BY <1>9 DEF StopProd, AfterEnter, Goto
<1>10. CASE RestoreOnly
  BY <1>10 DEF RestoreOnly, StartProd, StartProdRaises, Goto
<1>11. CASE StartSidecar
  BY <1>11 DEF StartSidecar
<1>12. CASE StartHeartbeat
  BY <1>12 DEF StartHeartbeat
<1>13. CASE LaunchServer
  BY <1>13 DEF LaunchServer
<1>14. CASE CellsRaise
  BY <1>14 DEF CellsRaise, Goto
<1>15. CASE StopCampaign
  BY <1>15 DEF StopCampaign
<1>16. CASE CellsDone
  BY <1>16 DEF CellsDone
<1>17. CASE WaitReady
  BY <1>17 DEF WaitReady, Goto
<1>18. CASE RunClient
  BY <1>18 DEF RunClient, Goto
<1>19. CASE KillServer
  BY <1>19 DEF KillServer, Goto
<1>20. CASE HandleException
  BY <1>20 DEF HandleException, DisarmWatchdog
<1>21. CASE Finish
  BY <1>21 DEF Finish
<1>22. CASE Report
  BY <1>22 DEF Report
<1>23. CASE BeginExit
  BY <1>23 DEF BeginExit, AfterUndo, Goto
<1>24. CASE ExitAgain
  BY <1>24 DEF ExitAgain, Goto
<1>25. CASE UndoTempChanges
  BY <1>25 DEF UndoTempChanges, AfterUndo, Goto
<1>26. CASE RestoreProd
  BY <1>26 DEF RestoreProd, StartProd, StartProdRaises, Goto
<1>27. CASE AwaitHealth
  BY <1>27 DEF AwaitHealth, Goto
<1>28. CASE ExitDisarm
  BY <1>28 DEF ExitDisarm, DisarmWatchdog, Goto
<1>29. CASE WriteResult
  BY <1>29 DEF WriteResult, Goto
<1>30. CASE Interrupt
  BY <1>30 DEF Interrupt, InFlight
<1>31. CASE Crash
  BY <1>31 DEF Crash, InFlight
<1>32. CASE HeartbeatTick
  BY <1>32 DEF HeartbeatTick, Beating
<1>33. CASE Overdue
  BY <1>33 DEF Overdue
<1>34. CASE Fire
  BY <1>34 DEF Fire, StartProd, StartProdRaises
<1>35. CASE FireDone
  BY <1>35 DEF FireDone
<1>36. CASE UNCHANGED vars
  BY <1>36
<1>37. QED
  BY <1>1, <1>2, <1>3, <1>4, <1>5, <1>6, <1>7, <1>8, <1>9, <1>10, <1>11,
     <1>12, <1>13, <1>14, <1>15, <1>16, <1>17, <1>18, <1>19, <1>20, <1>21,
     <1>22, <1>23, <1>24, <1>25, <1>26, <1>27, <1>28, <1>29, <1>30, <1>31,
     <1>32, <1>33, <1>34, <1>35, <1>36 DEF Next, RunnerStep, WatchdogStep

\* The inductive invariant holds initially and is preserved by every step.
LEMMA InvariantInit == Init => IInv
<1> SUFFICES ASSUME Init PROVE IInv
  OBVIOUS
<1> USE DEF Init
<1>1. TypeOK
  <2>1. /\ temp \in BOOLEAN /\ server \in BOOLEAN /\ sidecar \in BOOLEAN
        /\ lease \in BOOLEAN /\ expired \in BOOLEAN /\ stale \in BOOLEAN
        /\ closed \in BOOLEAN /\ prodDown \in BOOLEAN /\ verified \in BOOLEAN
        /\ inTry \in BOOLEAN /\ hb \in BOOLEAN /\ handle \in BOOLEAN
    BY Zenon
  <2>2. hit \in Scenarios /\ attempts \in 0..MaxAttempts
    BY ScenariosAssumption, MaxAttemptsAssumption
  <2>3. QED
    BY <2>1, <2>2 DEF TypeOK, Steps, Gone, Finals, Levels
<1>2. Control /\ Verdicts /\ Killed /\ Unstopped /\ Held
  BY DEF Control, Verdicts, Killed, Unstopped, Held, ExitTail, EnterSteps,
         CellSteps, ExitSteps, Gone
<1>3. Untouched /\ Placed /\ Undone
  BY DEF Untouched, Placed, Undone, EnterSteps, CellSteps, ExitSteps, Gone
<1>4. QED
  BY <1>1, <1>2, <1>3 DEF IInv

\* The parts of the inductive invariant are preserved together.
LEMMA InvariantStep ==
  ASSUME IInv, [Next]_vars
  PROVE  IInv'
<1> USE DEF IInv
<1>1. TypeOK'
  BY TypeStep
<1>2. Control'
  BY ControlStep
<1>3. Verdicts'
  BY VerdictsStep
<1>4. Killed'
  BY KilledStep
<1>5. Unstopped'
  BY UnstoppedStep
<1>6. Held'
  BY HeldStep
<1>7. Untouched'
  BY UntouchedStep
<1>8. Placed'
  BY PlacedStep
<1>9. Undone'
  BY UndoneStep
<1>10. QED
  BY <1>1, <1>2, <1>3, <1>4, <1>5, <1>6, <1>7, <1>8, <1>9

\* The inductive invariant holds in every state of every behaviour of the
\* window, whatever faults the scenarios allow.
THEOREM Invariant == Spec => []IInv
  BY InvariantInit, InvariantStep, PTL DEF Spec

\* Type correctness: the variables of window, runner, watchdog and target keep
\* their types.
THEOREM TypeCorrect == Spec => []TypeOK
<1>1. IInv => TypeOK
  BY DEF IInv
<1>2. QED
  BY <1>1, Invariant, PTL

\* Production is never abandoned: once the runner's process is gone and
\* production does not serve, a live watchdog or a verdict that asks for a human
\* remains, for every survivable mix of faults.
THEOREM NoAbandonment == Spec => []NeverAbandoned
<1>1. ASSUME IInv PROVE NeverAbandoned
  <2> SUFFICES ASSUME Survivable, pc \in Gone, prod # "up"
               PROVE  Backstop \/ OwnerTold
    BY DEF NeverAbandoned
  <2> USE <1>1 DEF IInv
  <2>1. CASE RunnerKilled
    \* The runner was killed, so no restore failed: the watchdog is armed.
    <3>1. ~RestoreFailed /\ ~profile.restart /\ "stopsignal" \notin hit
            /\ "slow" \notin hit
      BY <2>1 DEF Survivable
    <3>2. prod = "down" /\ wd = "armed"
      BY <3>1 DEF Held, TypeOK
    <3>3. QED
      BY <3>2 DEF Backstop
  <2>2. CASE ~RunnerKilled
    \* The runner ended with a result, which is neither RESTORED nor N/A.
    <3>1. pc = "ended"
      BY <2>2 DEF Killed, RunnerKilled, Gone
    <3>2. prodDown
      BY <2>2, <3>1 DEF Unstopped
    <3>3. result # "none"
      BY <3>1 DEF Control, Verdicts
    <3>4. result = "ATTENTION"
      BY <3>2, <3>3 DEF Verdicts, TypeOK
    <3>5. QED
      BY <3>4 DEF OwnerTold
  <2>3. QED
    BY <2>1, <2>2
<1>2. QED
  BY <1>1, Invariant, PTL

\* RESTORE-RESULT tells the truth: RESTORED only when production serves again,
\* N/A only when it was never taken down.
THEOREM VerdictsAreTrue == Spec => []TruthfulVerdict
<1>1. IInv => TruthfulVerdict
  BY DEF IInv, TruthfulVerdict, Verdicts, Untouched, Control
<1>2. QED
  BY <1>1, Invariant, PTL

\* A campaign that ends RESTORED with every command obeyed leaves no server, no
\* sidecar, no temporary change, no watchdog and no lease on the target.
THEOREM CleanExit == Spec => []NothingLeftBehind
<1>1. ASSUME IInv PROVE NothingLeftBehind
  <2> SUFFICES ASSUME pc = "ended", result = "RESTORED",
                      Undisturbed, hit \cap {"undo", "disarm"} = {}
               PROVE  ~server /\ ~sidecar /\ ~temp /\ wd = "off" /\ ~lease
    BY DEF NothingLeftBehind, Undisturbed
  <2>1. ~server /\ ~sidecar
    BY <1>1 DEF IInv, Placed
  <2>2. ~temp /\ wd = "off" /\ ~lease
    BY <1>1 DEF IInv, Undone
  <2>3. QED
    BY <2>1, <2>2
<1>2. QED
  BY <1>1, Invariant, PTL

\* The campaign's server never shares the machine with production while every
\* command is obeyed and the watchdog keeps still.
THEOREM MeasuresAlone == Spec => []MeasuredAlone
<1>1. ASSUME IInv PROVE MeasuredAlone
  <2> SUFFICES ASSUME server, Undisturbed, "crash" \notin hit
               PROVE  prod = "down"
    BY DEF MeasuredAlone, Undisturbed
  <2>1. pc # "dead"
    BY <1>1 DEF IInv, Killed
  <2>2. QED
    BY <1>1, <2>1 DEF IInv, Placed, CellSteps
<1>2. QED
  BY <1>1, Invariant, PTL
-----------------------------------------------------------------------------
(* The window implements ProductionGuard, but for its liveness: on targets *)
(* that are not restarted and under the faults that Guardable admits, each *)
(* step is one that the promise to the owner allows, or leaves it alone.   *)

\* The target is not restarted by a permanent step.
Steady == \A p \in Profiles : ~p.restart

\* A behaviour combines faults under which the guard holds.
Mild == \A S \in Scenarios : Guardable(S)

\* A restore fails only after enter() is through without a stop that raised; the
\* watchdog is armed once, and speaks last.
Warded ==
  /\ pc \notin Gone /\ window # "entered" => ~RestoreFailed
  /\ pc = "restore_only" => wd = "armed" /\ "stop" \in hit
  /\ window = "entering" /\ prodDown => "stop" \in hit
  /\ pc \in {"preflight", "arm"} => wd = "off"
  /\ wd # "off" \/ pc \in {"preflight", "arm"} => wdResult = "none"

\* Under the faults that Guardable admits a behaviour keeps to what they exclude.
LEMMA MildFaults ==
  ASSUME Mild, TypeOK
  PROVE  /\ "stopsignal" \notin hit /\ "slow" \notin hit
         /\ RestoreFailed => ~RunnerKilled /\ "stop" \notin hit
  BY DEF Mild, Guardable, TypeOK, RestoreFailed, RunnerKilled

\* The watchdog stays where enter() armed it.
LEMMA WardedStep ==
  ASSUME Steady, Mild, IInv, Warded, [Next]_vars
  PROVE  Warded'
<1>1. TypeOK /\ Control /\ Held /\ ~profile.restart
  BY DEF IInv, Steady, TypeOK
<1>2. TypeOK'
  BY TypeStep DEF IInv
<1>3. /\ "stopsignal" \notin hit /\ "slow" \notin hit
      /\ RestoreFailed => ~RunnerKilled /\ "stop" \notin hit
  BY <1>1, MildFaults
<1>4. /\ "stopsignal" \notin hit' /\ "slow" \notin hit'
      /\ RestoreFailed' => ~RunnerKilled' /\ "stop" \notin hit'
  BY <1>2 DEF Mild, Guardable, TypeOK, RestoreFailed, RunnerKilled
<1> USE <1>1, <1>3, <1>4 DEF vars, faultVars, targetVars, watchdogVars, windowVars,
        runnerVars, NoFault, Fault, TypeOK, Control, Held, RestoreFailed,
        RunnerKilled, Warded, ExitTail, EnterSteps, CellSteps, ExitSteps, Gone
<1>5. CASE Preflight
  BY <1>5 DEF Preflight
<1>6. CASE ArmWatchdog
  BY <1>6 DEF ArmWatchdog, AfterArm, AfterLiveCheck, AfterTempChanges, Goto
<1>7. CASE LiveCheck
  BY <1>7 DEF LiveCheck, AfterLiveCheck, AfterTempChanges, Goto
<1>8. CASE RefuseWindow
  BY <1>8 DEF RefuseWindow, DisarmWatchdog, Goto
<1>9. CASE ApplyTempChanges
  BY <1>9 DEF ApplyTempChanges, AfterTempChanges, Goto
<1>10. CASE RestartTarget
  BY <1>10 DEF RestartTarget, Goto
<1>11. CASE AwaitTarget
  BY <1>11 DEF AwaitTarget, Goto
<1>12. CASE RearmWatchdog
  BY <1>12 DEF RearmWatchdog, Goto
<1>13. CASE StopProd
  BY <1>13 DEF StopProd, AfterEnter, Goto
<1>14. CASE RestoreOnly
  BY <1>14 DEF RestoreOnly, StartProd, StartProdRaises, Goto
<1>15. CASE StartSidecar
  BY <1>15 DEF StartSidecar
<1>16. CASE StartHeartbeat
  BY <1>16 DEF StartHeartbeat
<1>17. CASE LaunchServer
  BY <1>17 DEF LaunchServer
<1>18. CASE CellsRaise
  BY <1>18 DEF CellsRaise, Goto
<1>19. CASE StopCampaign
  BY <1>19 DEF StopCampaign
<1>20. CASE CellsDone
  BY <1>20 DEF CellsDone
<1>21. CASE WaitReady
  BY <1>21 DEF WaitReady, Goto
<1>22. CASE RunClient
  BY <1>22 DEF RunClient, Goto
<1>23. CASE KillServer
  BY <1>23 DEF KillServer, Goto
<1>24. CASE HandleException
  BY <1>24 DEF HandleException, DisarmWatchdog
<1>25. CASE Finish
  BY <1>25 DEF Finish
<1>26. CASE Report
  BY <1>26 DEF Report
<1>27. CASE BeginExit
  BY <1>27 DEF BeginExit, AfterUndo, Goto
<1>28. CASE ExitAgain
  BY <1>28 DEF ExitAgain, Goto
<1>29. CASE UndoTempChanges
  BY <1>29 DEF UndoTempChanges, AfterUndo, Goto
<1>30. CASE RestoreProd
  BY <1>30 DEF RestoreProd, StartProd, StartProdRaises, Goto
<1>31. CASE AwaitHealth
  BY <1>31 DEF AwaitHealth, Goto
<1>32. CASE ExitDisarm
  BY <1>32 DEF ExitDisarm, DisarmWatchdog, Goto
<1>33. CASE WriteResult
  BY <1>33 DEF WriteResult, Goto
<1>34. CASE Interrupt
  BY <1>34 DEF Interrupt, InFlight
<1>35. CASE Crash
  BY <1>35 DEF Crash, InFlight
<1>36. CASE HeartbeatTick
  BY <1>36 DEF HeartbeatTick, Beating
<1>37. CASE Overdue
  BY <1>37 DEF Overdue
<1>38. CASE Fire
  BY <1>38 DEF Fire, StartProd, StartProdRaises
<1>39. CASE FireDone
  BY <1>39 DEF FireDone
<1>40. CASE UNCHANGED vars
  BY <1>40
<1>41. QED
  BY <1>5, <1>6, <1>7, <1>8, <1>9, <1>10, <1>11, <1>12, <1>13, <1>14, <1>15,
     <1>16, <1>17, <1>18, <1>19, <1>20, <1>21, <1>22, <1>23, <1>24, <1>25,
     <1>26, <1>27, <1>28, <1>29, <1>30, <1>31, <1>32, <1>33, <1>34, <1>35,
     <1>36, <1>37, <1>38, <1>39, <1>40 DEF Next, RunnerStep, WatchdogStep

\* The window keeps its promise to the owner, step by step: production goes down
\* only under a guard, and the guard is given up only when production serves or
\* the owner has been told.  (window.py: enter, exit; the watchdog on the target.)
LEMMA GuardStep ==
  ASSUME Steady, Mild, IInv, Warded, IInv', Warded', [Next]_vars
  PROVE  [Guard!Next]_(Guard!vars)
<1>1. TypeOK /\ Control /\ Verdicts /\ Killed /\ Held /\ Untouched /\ ~profile.restart
  BY DEF IInv, Steady, TypeOK
<1>2. TypeOK' /\ Control' /\ Held' /\ Killed'
  BY DEF IInv
<1>3. /\ "stopsignal" \notin hit /\ "slow" \notin hit
      /\ RestoreFailed => ~RunnerKilled /\ "stop" \notin hit
  BY <1>1, MildFaults
<1>4. /\ "stopsignal" \notin hit' /\ "slow" \notin hit'
      /\ RestoreFailed' => ~RunnerKilled' /\ "stop" \notin hit'
  BY <1>2 DEF Mild, Guardable, TypeOK, RestoreFailed, RunnerKilled
<1> USE <1>1, <1>3, <1>4 DEF vars, faultVars, targetVars, watchdogVars, windowVars,
        runnerVars, NoFault, Fault, TypeOK, Control, Verdicts, Killed, Held, Untouched,
        RestoreFailed, RunnerKilled, Warded, ExitTail, EnterSteps, CellSteps, ExitSteps, Gone,
        Guard!Next, Guard!vars, Guard!TakeGuard, Guard!Outage, Guard!Recover, Guard!Release,
        Guard!Tell, Backstop, OwnerTold
<1>5. CASE Preflight
  BY <1>5 DEF Preflight
<1>6. CASE ArmWatchdog
  BY <1>6 DEF ArmWatchdog, AfterArm, AfterLiveCheck, AfterTempChanges, Goto
<1>7. CASE LiveCheck
  BY <1>7 DEF LiveCheck, AfterLiveCheck, AfterTempChanges, Goto
<1>8. CASE RefuseWindow
  BY <1>8 DEF RefuseWindow, DisarmWatchdog, Goto
<1>9. CASE ApplyTempChanges
  BY <1>9 DEF ApplyTempChanges, AfterTempChanges, Goto
<1>10. CASE RestartTarget
  BY <1>10 DEF RestartTarget, Goto
<1>11. CASE AwaitTarget
  BY <1>11 DEF AwaitTarget, Goto
<1>12. CASE RearmWatchdog
  BY <1>12 DEF RearmWatchdog, Goto
<1>13. CASE StopProd
  BY <1>13 DEF StopProd, AfterEnter, Goto
<1>14. CASE RestoreOnly
  BY <1>14 DEF RestoreOnly, StartProd, StartProdRaises, Goto
<1>15. CASE StartSidecar
  BY <1>15 DEF StartSidecar
<1>16. CASE StartHeartbeat
  BY <1>16 DEF StartHeartbeat
<1>17. CASE LaunchServer
  BY <1>17 DEF LaunchServer
<1>18. CASE CellsRaise
  BY <1>18 DEF CellsRaise, Goto
<1>19. CASE StopCampaign
  BY <1>19 DEF StopCampaign
<1>20. CASE CellsDone
  BY <1>20 DEF CellsDone
<1>21. CASE WaitReady
  BY <1>21 DEF WaitReady, Goto
<1>22. CASE RunClient
  BY <1>22 DEF RunClient, Goto
<1>23. CASE KillServer
  BY <1>23 DEF KillServer, Goto
<1>24. CASE HandleException
  BY <1>24 DEF HandleException, DisarmWatchdog
<1>25. CASE Finish
  BY <1>25 DEF Finish
<1>26. CASE Report
  BY <1>26 DEF Report
<1>27. CASE BeginExit
  BY <1>27 DEF BeginExit, AfterUndo, Goto
<1>28. CASE ExitAgain
  BY <1>28 DEF ExitAgain, Goto
<1>29. CASE UndoTempChanges
  BY <1>29 DEF UndoTempChanges, AfterUndo, Goto
<1>30. CASE RestoreProd
  BY <1>30 DEF RestoreProd, StartProd, StartProdRaises, Goto
<1>31. CASE AwaitHealth
  BY <1>31 DEF AwaitHealth, Goto
<1>32. CASE ExitDisarm
  BY <1>32 DEF ExitDisarm, DisarmWatchdog, Goto
<1>33. CASE WriteResult
  BY <1>33 DEF WriteResult, Goto
<1>34. CASE Interrupt
  \* A signal outside prod_stop leaves production and the watchdog alone; and no
  \* restore has failed, so that production serves or the watchdog is armed.
  <2>1. pc # "stop" /\ "signal" \in hit'
    BY <1>34 DEF Interrupt
  <2>2. UNCHANGED <<prod, wd, wdResult, window, closed, result>>
    BY <1>34, <2>1 DEF Interrupt, InFlight
  <2>3. ~RestoreFailed'
    BY <2>1
  <2>4. prod' # "sick" /\ (prod' = "down" => wd' = "armed") /\ profile' = profile
    BY <1>2, <1>34, <2>3 DEF Interrupt
  <2>5. QED
    BY <2>2, <2>4
<1>35. CASE Crash
  BY <1>35 DEF Crash, InFlight
<1>36. CASE HeartbeatTick
  BY <1>36 DEF HeartbeatTick, Beating
<1>37. CASE Overdue
  BY <1>37 DEF Overdue
<1>38. CASE Fire
  BY <1>38 DEF Fire, StartProd, StartProdRaises
<1>39. CASE FireDone
  BY <1>39 DEF FireDone
<1>40. CASE UNCHANGED vars
  BY <1>40
<1>41. QED
  BY <1>5, <1>6, <1>7, <1>8, <1>9, <1>10, <1>11, <1>12, <1>13, <1>14, <1>15,
     <1>16, <1>17, <1>18, <1>19, <1>20, <1>21, <1>22, <1>23, <1>24, <1>25,
     <1>26, <1>27, <1>28, <1>29, <1>30, <1>31, <1>32, <1>33, <1>34, <1>35,
     <1>36, <1>37, <1>38, <1>39, <1>40 DEF Next, RunnerStep, WatchdogStep

\* The safety part of the promise to the owner, for every set of profiles that do
\* not restart the target, every mild set of scenarios and any number of attempts.
THEOREM GuardIsKept ==
  ASSUME Steady, Mild
  PROVE  Spec => Guard!Safe
<1>1. Init => Guard!Init /\ Warded
  BY DEF Init, Guard!Init, Backstop, OwnerTold, Warded, RestoreFailed, Gone
<1>2. IInv /\ Warded /\ [Next]_vars => Warded' /\ IInv'
  BY WardedStep, InvariantStep
<1>3. IInv /\ Warded /\ IInv' /\ Warded' /\ [Next]_vars => [Guard!Next]_(Guard!vars)
  BY GuardStep
<1>4. QED
  BY <1>1, <1>2, <1>3, InvariantInit, PTL DEF Spec, Guard!Safe
=============================================================================
