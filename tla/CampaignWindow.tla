--------------------------- MODULE CampaignWindow ---------------------------
(***************************************************************************)
(* The maintenance window of the campaign platform (src/benchmarks): the   *)
(* runner process that takes production down, runs measurements on its     *)
(* machine and restores it, the watchdog armed on the target as the        *)
(* backstop, and the target itself.                                        *)
(*                                                                         *)
(* Control follows window.py (enter, exit, heartbeat_tick, _restore_only), *)
(* the try statement of runner.py (run, _finish) and the segment loop of   *)
(* _run_attempt; the effect of a command on the target follows             *)
(* backends/real.py.  The watchdog script is not in the repository: its    *)
(* steps are those of fixture.simulate_watchdog_fire, with the parameters  *)
(* real.arm_watchdog hands it.                                             *)
(*                                                                         *)
(* A fault is one of FaultKinds; `hit' remembers the kinds that occurred   *)
(* and Scenarios names the combinations a behaviour may contain.  A kind   *)
(* that is allowed may strike any number of times.                         *)
(***************************************************************************)
EXTENDS Naturals, FiniteSets

CONSTANTS Profiles,     \* the deployment profiles considered
          Scenarios,    \* the sets of fault kinds a behaviour may combine
          MaxAttempts   \* how many launches the campaign's matrix can lead to

VARIABLES profile,      \* the profile of this campaign, fixed
          hit,          \* the kinds of fault met so far
          \* the target machine
          prod, temp, server, sidecar,
          \* the watchdog process on the target and the files it shares
          wd, lease, expired, stale, wdResult,
          \* the Window object and the RESTORE-RESULT.md it writes
          window, closed, prodDown, verified, result,
          \* the runner process
          pc, ret, inTry, final, hb, handle, paged, attempts

faultVars    == <<profile, hit>>
targetVars   == <<prod, temp, server, sidecar>>
watchdogVars == <<wd, lease, expired, stale, wdResult>>
windowVars   == <<window, closed, prodDown, verified, result>>
runnerVars   == <<pc, ret, inTry, final, hb, handle, paged, attempts>>
vars == <<faultVars, targetVars, watchdogVars, windowVars, runnerVars>>

(***************************************************************************)
(* "command"    a command of the backend raises (ssh timeout, rc), whether *)
(*              or not it took effect on the target                        *)
(* "sensor"     the live check fails although production serves            *)
(* "stop"       prod_stop raises, whether or not production stopped        *)
(* "start"      prod_start raises, whether or not production started       *)
(* "sick"       production is started and never becomes healthy            *)
(* "disarm"     a disarm never reaches the target                          *)
(* "undo"       the undo of the temporary changes fails                    *)
(* "boot"       the target does not answer after a permanent step          *)
(* "signal"     SIGINT (KeyboardInterrupt) outside prod_stop               *)
(* "stopsignal" SIGINT while prod_stop is running                          *)
(* "crash"      the runner process dies                                    *)
(* "slow"       the watchdog runs out of patience while enter() runs       *)
(* "late"       the watchdog runs out of patience with the runner alive    *)
(***************************************************************************)
FaultKinds == {"command", "sensor", "stop", "start", "sick", "disarm", "undo",
               "boot", "signal", "stopsignal", "crash", "slow", "late"}

\* What a deployment profile may declare of the window.
ProfileType == [liveCheck : BOOLEAN,   \* prod.live_check_cmd
                temp      : BOOLEAN,   \* temp_changes
                restart   : BOOLEAN,   \* a permanent step that restarts the
                                       \* target, with rearm_watchdog
                sidecar   : BOOLEAN]   \* the campaign has a sidecar

ASSUME ProfilesAssumption == Profiles \subseteq ProfileType
ASSUME ScenariosAssumption ==
  Scenarios \subseteq SUBSET FaultKinds /\ {} \in Scenarios
ASSUME MaxAttemptsAssumption == MaxAttempts \in Nat

\* Where the runner's process is.
EnterSteps == {"arm", "live_check", "refuse", "temp_changes", "permanent_steps",
               "ping", "rearm", "stop", "restore_only"}
CellSteps  == {"start_sidecar", "start_heartbeat", "cells", "wait_ready",
               "client", "kill"}
ExitSteps  == {"exit", "undo", "start", "wait", "disarm", "write"}
Gone       == {"ended", "dead", "raised"}
Steps == EnterSteps \cup CellSteps \cup ExitSteps \cup Gone
           \cup {"preflight", "except", "finish", "report"}

Finals == {"none", "aborted-preflight", "stopped-host-failure", "safety-abort",
           "expected-negative", "review-required", "completed",
           "aborted-signal", "aborted-failure"}
Levels == {"none", "INFO", "ATTENTION", "URGENT"}

TypeOK ==
  /\ profile \in Profiles
  /\ hit \in Scenarios
  /\ prod \in {"up", "down", "sick"}
  /\ temp \in BOOLEAN /\ server \in BOOLEAN /\ sidecar \in BOOLEAN
  /\ wd \in {"off", "armed", "firing"}
  /\ lease \in BOOLEAN /\ expired \in BOOLEAN /\ stale \in BOOLEAN
  /\ wdResult \in {"none", "RESTORED", "ATTENTION"}
  /\ window \in {"none", "entering", "entered"}
  /\ closed \in BOOLEAN /\ prodDown \in BOOLEAN /\ verified \in BOOLEAN
  /\ result \in {"none", "N/A", "RESTORED", "ATTENTION"}
  /\ pc \in Steps
  /\ ret \in {"finish", "report"}
  /\ inTry \in BOOLEAN /\ hb \in BOOLEAN /\ handle \in BOOLEAN
  /\ final \in Finals
  /\ paged \in Levels
  /\ attempts \in 0..MaxAttempts

Init ==
  /\ profile \in Profiles
  /\ hit = {}
  /\ prod = "up" /\ temp = FALSE /\ server = FALSE /\ sidecar = FALSE
  /\ wd = "off" /\ lease = FALSE /\ expired = FALSE /\ stale = FALSE
  /\ wdResult = "none"
  /\ window = "none" /\ closed = FALSE /\ prodDown = FALSE
  /\ verified = FALSE /\ result = "none"
  /\ pc = "preflight" /\ ret = "report" /\ inTry = TRUE /\ final = "none"
  /\ hb = FALSE /\ handle = FALSE /\ paged = "none" /\ attempts = 0
-----------------------------------------------------------------------------
(* Faults and the effect of commands.                                      *)

NoFault == UNCHANGED faultVars

Fault(k) ==
  /\ hit \cup {k} \in Scenarios
  /\ hit' = hit \cup {k}
  /\ UNCHANGED profile

Goto(p) == pc' = p /\ UNCHANGED <<ret, inTry, final, hb, handle, paged, attempts>>

\* disarm_watchdog: .disarmed, pkill, rm lease, over an ssh whose exit code
\* nobody reads.
DisarmWatchdog ==
  /\ \/ NoFault /\ wd' = "off" /\ lease' = FALSE
     \/ Fault("disarm") /\ UNCHANGED <<wd, lease>>
  /\ UNCHANGED <<expired, stale, wdResult>>

\* prod_start as the target sees it: starting a running unit changes nothing.
StartProd ==
  \/ NoFault /\ prod' = IF prod = "down" THEN "up" ELSE prod
  \/ prod = "down" /\ Fault("sick") /\ prod' = "sick"

StartProdRaises == Fault("start") /\ prod' \in {prod, IF prod = "down" THEN "up" ELSE prod}

\* The next step of enter() after each optional one.
AfterTempChanges == IF profile.restart THEN "permanent_steps" ELSE "stop"
AfterLiveCheck   == IF profile.temp THEN "temp_changes" ELSE AfterTempChanges
AfterArm         == IF profile.liveCheck THEN "live_check" ELSE AfterLiveCheck
AfterEnter       == IF profile.sidecar THEN "start_sidecar" ELSE "start_heartbeat"

\* The next step of exit() after the undo.
AfterUndo == IF prodDown THEN "start" ELSE "disarm"
-----------------------------------------------------------------------------
(* run(): preflight, and Window.enter.                                     *)

\* Blocking drift ends the campaign before there is a window.
Preflight ==
  /\ pc = "preflight"
  /\ \/ /\ NoFault /\ pc' = "arm" /\ window' = "entering"
        /\ UNCHANGED final
     \/ /\ NoFault /\ pc' = "finish" /\ final' = "aborted-preflight"
        /\ UNCHANGED window
     \/ /\ Fault("command") /\ pc' = "except"
        /\ UNCHANGED <<window, final>>
  /\ UNCHANGED <<targetVars, watchdogVars, closed, prodDown, verified, result,
                 ret, inTry, hb, handle, paged, attempts>>

\* Mutant of ArmWatchdog: the arm that never created the lease.
ArmWithoutLease ==
  /\ pc = "arm"
  /\ NoFault /\ wd' = "armed" /\ UNCHANGED lease
  /\ Goto(AfterArm)
  /\ UNCHANGED <<targetVars, expired, stale, wdResult, windowVars>>

\* The lease is touched before the spawn, so an arm that raises may leave the
\* lease alone, or a live watchdog whose pid was never read back.
ArmWatchdog ==
  /\ pc = "arm"
  /\ \/ /\ NoFault /\ wd' = "armed" /\ lease' = TRUE
        /\ Goto(AfterArm)
     \/ /\ Fault("command")
        /\ \/ UNCHANGED <<wd, lease>>
           \/ wd' \in {"off", "armed"} /\ lease' = TRUE
        /\ Goto("except")
  /\ UNCHANGED <<targetVars, expired, stale, wdResult, windowVars>>

LiveCheck ==
  /\ pc = "live_check"
  /\ \/ NoFault /\ prod = "up" /\ Goto(AfterLiveCheck)
     \/ Fault("sensor") /\ Goto("refuse")
  /\ UNCHANGED <<targetVars, watchdogVars, windowVars>>

RefuseWindow ==
  /\ pc = "refuse"
  /\ DisarmWatchdog
  /\ Goto("except")
  /\ UNCHANGED <<targetVars, windowVars>>

\* A change that fails on the target is logged, one that times out raises.
ApplyTempChanges ==
  /\ pc = "temp_changes"
  /\ \/ NoFault /\ temp' = TRUE /\ Goto(AfterTempChanges)
     \/ Fault("command") /\ temp' \in BOOLEAN /\ \E p \in {AfterTempChanges, "except"} : Goto(p)
  /\ UNCHANGED <<prod, server, sidecar, watchdogVars, windowVars>>

\* A restart of the target kills the watchdog process and production; the
\* unit may or may not come back with the boot.  The lease file survives.
RestartTarget ==
  /\ pc = "permanent_steps"
  /\ \/ /\ NoFault
        /\ wd' = "off" /\ prod' \in {"up", "down"}
        /\ Goto("ping")
     \/ /\ Fault("command")
        /\ \/ wd' = "off" /\ prod' \in {"up", "down"}
           \/ UNCHANGED <<wd, prod>>
        /\ Goto("except")
  /\ UNCHANGED <<temp, server, sidecar, lease, expired, stale, wdResult, windowVars>>

AwaitTarget ==
  /\ pc = "ping"
  /\ \/ NoFault /\ Goto("rearm")
     \/ Fault("boot") /\ Goto("except")
  /\ UNCHANGED <<targetVars, watchdogVars, windowVars>>

\* The deadline stays what it was; only the heartbeat is fresh again.
RearmWatchdog ==
  /\ pc = "rearm"
  /\ \/ /\ NoFault /\ wd' = "armed" /\ lease' = TRUE /\ stale' = FALSE
        /\ Goto("stop")
     \/ /\ Fault("command")
        /\ wd' \in {wd, "off", "armed"}
        /\ UNCHANGED <<lease, stale>>
        /\ Goto("except")
  /\ UNCHANGED <<targetVars, expired, wdResult, windowVars>>

\* Mutant of StopProd: prod_down is only set when the stop returned.
StopProdForgets ==
  /\ pc = "stop"
  /\ \/ /\ NoFault /\ prod' = "down" /\ window' = "entered" /\ prodDown' = TRUE
        /\ Goto(AfterEnter)
     \/ /\ Fault("stop") /\ prod' \in {prod, "down"}
        /\ UNCHANGED <<window, prodDown>>
        /\ Goto("restore_only")
  /\ UNCHANGED <<temp, server, sidecar, watchdogVars, closed, verified, result>>

StopProd ==
  /\ pc = "stop"
  /\ prodDown' = TRUE
  /\ \/ /\ NoFault /\ prod' = "down" /\ window' = "entered"
        /\ Goto(AfterEnter)
     \/ /\ Fault("stop") /\ prod' \in {prod, "down"}
        /\ UNCHANGED window
        /\ Goto("restore_only")
  /\ UNCHANGED <<temp, server, sidecar, watchdogVars, closed, verified, result>>

RestoreOnly ==
  /\ pc = "restore_only"
  /\ StartProd \/ StartProdRaises
  /\ Goto("except")
  /\ UNCHANGED <<temp, server, sidecar, watchdogVars, windowVars>>
-----------------------------------------------------------------------------
(* run(): the sidecar, the heartbeat thread and the cells.                 *)

\* The handle is assigned only when start_sidecar returns.
StartSidecar ==
  /\ pc = "start_sidecar"
  /\ \/ /\ NoFault /\ sidecar' = TRUE
        /\ pc' = "start_heartbeat" /\ handle' = TRUE
     \/ /\ Fault("command") /\ sidecar' \in BOOLEAN
        /\ pc' = "except" /\ UNCHANGED handle
  /\ UNCHANGED <<prod, temp, server, watchdogVars, windowVars,
                 ret, inTry, final, hb, paged, attempts>>

StartHeartbeat ==
  /\ pc = "start_heartbeat"
  /\ NoFault
  /\ pc' = "cells" /\ hb' = TRUE
  /\ UNCHANGED <<targetVars, watchdogVars, windowVars,
                 ret, inTry, final, handle, paged, attempts>>

\* One launch of a cell's server.  An exception of launch() is caught and the
\* attempt goes on without a handle: the process it may have left is nobody's.
LaunchServer ==
  /\ pc = "cells"
  /\ attempts < MaxAttempts
  /\ attempts' = attempts + 1
  /\ \/ NoFault /\ server' = TRUE /\ pc' = "wait_ready"
     \/ Fault("command") /\ server' \in {server, TRUE} /\ pc' = "cells"
  /\ UNCHANGED <<prod, temp, sidecar, watchdogVars, windowVars,
                 ret, inTry, final, hb, handle, paged>>

\* Any other exception of the loop: isolation reset, put_file, forensics.
CellsRaise ==
  /\ pc = "cells"
  /\ Fault("command")
  /\ Goto("except")
  /\ UNCHANGED <<targetVars, watchdogVars, windowVars>>

\* A stop gate before a cell, or a documented negative after one: _finish runs
\* inside the try statement.
StopCampaign ==
  /\ pc = "cells"
  /\ NoFault
  /\ pc' = "finish"
  /\ final' \in {"stopped-host-failure", "safety-abort", "expected-negative",
                 "review-required"}
  /\ UNCHANGED <<targetVars, watchdogVars, windowVars,
                 ret, inTry, hb, handle, paged, attempts>>

\* All cells done: campaign_final and _finish run after the try statement.
CellsDone ==
  /\ pc = "cells"
  /\ NoFault
  /\ pc' = "finish" /\ inTry' = FALSE
  /\ final' \in {"completed", "expected-negative", "review-required",
                 "safety-abort"}
  /\ UNCHANGED <<targetVars, watchdogVars, windowVars,
                 ret, hb, handle, paged, attempts>>

\* Readiness and telemetry run before the inner try: an exception there does
\* not reach backend.kill.
WaitReady ==
  /\ pc = "wait_ready"
  /\ \/ NoFault /\ \E p \in {"client", "kill"} : Goto(p)
     \/ Fault("command") /\ Goto("except")
  /\ UNCHANGED <<targetVars, watchdogVars, windowVars>>

\* Mutant of RunClient: the server is not killed after the client.
RunClientNoKill ==
  /\ pc = "client"
  /\ NoFault
  /\ Goto("cells")
  /\ UNCHANGED <<targetVars, watchdogVars, windowVars>>

\* The client's exceptions are caught; the finally clause kills the server.
RunClient ==
  /\ pc = "client"
  /\ NoFault
  /\ Goto("kill")
  /\ UNCHANGED <<targetVars, watchdogVars, windowVars>>

\* An ssh that fails is taken for a process that is dead, one that times out raises.
KillServer ==
  /\ pc = "kill"
  /\ \/ NoFault /\ server' = FALSE /\ Goto("cells")
     \/ Fault("command") /\ UNCHANGED server /\ \E p \in {"cells", "except"} : Goto(p)
  /\ UNCHANGED <<prod, temp, sidecar, watchdogVars, windowVars>>
-----------------------------------------------------------------------------
(* run(): the except clauses and _finish.                                  *)

\* Mutant of HandleException: every window has its watchdog disarmed first.
HandleDisarmsAlways ==
  /\ pc = "except"
  /\ inTry' = FALSE /\ final' = "aborted-failure"
  /\ DisarmWatchdog
  /\ \/ window # "entered" /\ pc' = "finish" /\ UNCHANGED ret
     \/ window = "entered" /\ pc' = "exit" /\ ret' = "finish"
  /\ UNCHANGED <<targetVars, windowVars, hb, handle, paged, attempts>>

\* except Exception: a window that was not entered has its watchdog disarmed,
\* an entered one is closed; what either raises is swallowed.
HandleException ==
  /\ pc = "except"
  /\ inTry' = FALSE /\ final' = "aborted-failure"
  /\ \/ window = "none" /\ pc' = "finish"
        /\ NoFault /\ UNCHANGED <<watchdogVars, ret>>
     \/ window = "entering" /\ pc' = "finish"
        /\ DisarmWatchdog /\ UNCHANGED ret
     \/ window = "entered" /\ pc' = "exit" /\ ret' = "finish"
        /\ NoFault /\ UNCHANGED watchdogVars
  /\ UNCHANGED <<targetVars, windowVars, hb, handle, paged, attempts>>

\* Mutant of Finish: the sidecar outlives the campaign.
FinishKeepsSidecar ==
  /\ pc = "finish"
  /\ NoFault
  /\ hb' = FALSE /\ handle' = FALSE
  /\ pc' = IF window = "none" THEN "report" ELSE "exit"
  /\ ret' = "report"
  /\ UNCHANGED <<targetVars, watchdogVars, windowVars, inTry, final, paged, attempts>>

\* _finish: heartbeat off, sidecar stopped (a failure is only logged), window
\* closed.
Finish ==
  /\ pc = "finish"
  /\ hb' = FALSE /\ handle' = FALSE
  /\ \/ NoFault /\ sidecar' = (sidecar /\ ~handle)
     \/ handle /\ Fault("command") /\ UNCHANGED sidecar
  /\ pc' = IF window = "none" THEN "report" ELSE "exit"
  /\ ret' = "report"
  /\ UNCHANGED <<prod, temp, server, watchdogVars, windowVars,
                 inTry, final, paged, attempts>>

\* Mutant of NotifyLevel: the final itself is sent as the level.
NotifyLevelIsFinal(f) == f

\* _final_json, RUN_ENDED and the owner's page; the level depends on the final
\* alone.
NotifyLevel(f) ==
  CASE f \in {"completed", "expected-negative"} -> "INFO"
    [] f \in {"safety-abort", "stopped-host-failure", "aborted-failure"} -> "URGENT"
    [] OTHER -> "ATTENTION"

Report ==
  /\ pc = "report"
  /\ NoFault
  /\ pc' = "ended" /\ paged' = NotifyLevel(final)
  /\ UNCHANGED <<targetVars, watchdogVars, windowVars,
                 ret, inTry, final, hb, handle, attempts>>
-----------------------------------------------------------------------------
(* Window.exit.                                                            *)

BeginExit ==
  /\ pc = "exit" /\ ~closed
  /\ NoFault
  /\ closed' = TRUE
  /\ Goto(IF profile.temp THEN "undo" ELSE AfterUndo)
  /\ UNCHANGED <<targetVars, watchdogVars, window, prodDown, verified, result>>

\* A second call returns the first one's result.  When the first call was cut
\* short there is none: the AttributeError is swallowed in the except clause,
\* caught when _finish runs in the try statement, and ends the process else.
ExitAgain ==
  /\ pc = "exit" /\ closed
  /\ NoFault
  /\ Goto(IF result # "none" THEN ret
          ELSE IF ret = "finish" THEN "finish"
          ELSE IF inTry THEN "except" ELSE "raised")
  /\ UNCHANGED <<targetVars, watchdogVars, windowVars>>

UndoTempChanges ==
  /\ pc = "undo"
  /\ \/ NoFault /\ temp' = FALSE
     \/ Fault("undo") /\ UNCHANGED temp
  /\ Goto(AfterUndo)
  /\ UNCHANGED <<prod, server, sidecar, watchdogVars, windowVars>>

RestoreProd ==
  /\ pc = "start"
  /\ \/ StartProd /\ Goto("wait")
     \/ StartProdRaises /\ Goto("disarm")
  /\ UNCHANGED <<temp, server, sidecar, watchdogVars, windowVars>>

\* Mutant of AwaitHealth: a started unit is taken for a serving one.
AwaitProcess ==
  /\ pc = "wait"
  /\ NoFault /\ verified' = (prod # "down")
  /\ Goto("disarm")
  /\ UNCHANGED <<targetVars, watchdogVars, window, closed, prodDown, result>>

\* Health 200 and a live completion within restore_wait_s, or not.
AwaitHealth ==
  /\ pc = "wait"
  /\ \/ NoFault /\ verified' = (prod = "up")
     \/ Fault("sensor") /\ UNCHANGED verified
  /\ Goto("disarm")
  /\ UNCHANGED <<targetVars, watchdogVars, window, closed, prodDown, result>>

ExitDisarm ==
  /\ pc = "disarm"
  /\ DisarmWatchdog
  /\ Goto("write")
  /\ UNCHANGED <<targetVars, windowVars>>

WriteResult ==
  /\ pc = "write"
  /\ NoFault
  /\ result' = IF ~prodDown THEN "N/A"
               ELSE IF verified THEN "RESTORED" ELSE "ATTENTION"
  /\ Goto(ret)
  /\ UNCHANGED <<targetVars, watchdogVars, window, closed, prodDown, verified>>
-----------------------------------------------------------------------------
(* Interrupts and death of the runner.                                     *)

\* The command in flight may or may not have reached the target; what the
\* runner would have recorded of it is lost.  A command of which it records
\* nothing needs no case here: had it landed, the same interrupt right after it.
InFlight ==
  /\ prod' \in IF pc = "stop" THEN {prod, "down"} ELSE {prod}
  /\ server' \in IF pc = "cells" /\ attempts < MaxAttempts THEN {server, TRUE}
                 ELSE {server}
  /\ sidecar' \in IF pc = "start_sidecar" THEN {sidecar, TRUE} ELSE {sidecar}
  /\ UNCHANGED temp

\* KeyboardInterrupt.  Inside the try statement it leads to _finish (through
\* the finally clause when the client runs); elsewhere it ends the process.
Interrupt ==
  /\ pc \notin Gone
  /\ Fault(IF pc = "stop" THEN "stopsignal" ELSE "signal")
  /\ IF pc = "client"
     THEN server' = FALSE /\ UNCHANGED <<prod, temp, sidecar>>
     ELSE InFlight
  /\ IF inTry
     THEN pc' = "finish" /\ final' = "aborted-signal" /\ inTry' = FALSE
          /\ UNCHANGED hb
     ELSE pc' = "raised" /\ hb' = FALSE /\ UNCHANGED <<final, inTry>>
  /\ UNCHANGED <<watchdogVars, windowVars, ret, handle, paged, attempts>>

Crash ==
  /\ pc \notin Gone
  /\ Fault("crash")
  /\ InFlight
  /\ pc' = "dead" /\ hb' = FALSE
  /\ UNCHANGED <<watchdogVars, windowVars, ret, inTry, final, handle, paged,
                 attempts>>
-----------------------------------------------------------------------------
(* The watchdog.                                                           *)

\* The heartbeat thread runs and heartbeat_tick passes its guard.
Beating == hb /\ window = "entered" /\ ~closed

HeartbeatTick ==
  /\ Beating /\ stale
  /\ NoFault
  /\ stale' = FALSE
  /\ UNCHANGED <<targetVars, wd, lease, expired, wdResult, windowVars, runnerVars>>

\* The deadline passes or the heartbeat goes stale: in the nature of things
\* once the runner is gone, a fault of timing while it runs.
Overdue ==
  /\ wd = "armed"
  /\ \/ ~expired /\ expired' = TRUE /\ UNCHANGED stale
     \/ ~stale /\ stale' = TRUE /\ UNCHANGED expired
  /\ IF pc \in Gone THEN NoFault
     ELSE Fault(IF window = "entered" THEN "late" ELSE "slow")
  /\ UNCHANGED <<targetVars, wd, lease, wdResult, windowVars, runnerVars>>

\* The watchdog acts on its lease: it may kill what the campaign left (the
\* parameters carry no pid), runs undo.sh and starts production.  undo.sh holds
\* the "cmd" of each temporary change, not its "undo".
Fire ==
  /\ wd = "armed" /\ lease /\ (expired \/ stale)
  /\ wd' = "firing"
  /\ server' \in {server, FALSE} /\ sidecar' \in {sidecar, FALSE}
  /\ temp' \in {temp, temp \/ profile.temp}
  /\ StartProd \/ StartProdRaises
  /\ UNCHANGED <<lease, expired, stale, wdResult, windowVars, runnerVars>>

FireDone ==
  /\ wd = "firing"
  /\ wd' = "off"
  /\ \/ NoFault /\ wdResult' = IF prod = "up" THEN "RESTORED" ELSE "ATTENTION"
     \/ Fault("sensor") /\ wdResult' = "ATTENTION"
  /\ UNCHANGED <<targetVars, lease, expired, stale, windowVars, runnerVars>>
-----------------------------------------------------------------------------
RunnerStep ==
  \/ Preflight \/ ArmWatchdog \/ LiveCheck \/ RefuseWindow \/ ApplyTempChanges
  \/ RestartTarget \/ AwaitTarget \/ RearmWatchdog \/ StopProd \/ RestoreOnly
  \/ StartSidecar \/ StartHeartbeat \/ LaunchServer \/ CellsRaise
  \/ StopCampaign \/ CellsDone \/ WaitReady \/ RunClient \/ KillServer
  \/ HandleException \/ Finish \/ Report
  \/ BeginExit \/ ExitAgain \/ UndoTempChanges \/ RestoreProd \/ AwaitHealth
  \/ ExitDisarm \/ WriteResult

WatchdogStep == HeartbeatTick \/ Overdue \/ Fire \/ FireDone

Next == RunnerStep \/ Interrupt \/ Crash \/ WatchdogStep

\* The runner's process keeps running until it ends or dies; once it is gone
\* time passes and the watchdog process is scheduled.
Fairness ==
  /\ WF_vars(RunnerStep)
  /\ WF_vars(pc \in Gone /\ Overdue)
  /\ WF_vars(Fire \/ FireDone)

Spec == Init /\ [][Next]_vars
FairSpec == Spec /\ Fairness
-----------------------------------------------------------------------------
(* Properties.                                                             *)

\* Some verdict on disk tells the owner that production needs a human.
OwnerTold == "ATTENTION" \in {result, wdResult}

Backstop == wd \in {"armed", "firing"}

\* A window is survivable unless one of these combinations of faults met.
RunnerKilled  == "crash" \in hit \/ "signal" \in hit
RestoreFailed == "start" \in hit \/ "sick" \in hit
Survivable ==
  /\ "stopsignal" \notin hit
  /\ RunnerKilled => ~RestoreFailed /\ "slow" \notin hit
  /\ profile.restart => ~RunnerKilled /\ "command" \notin hit /\ "boot" \notin hit

\* When the runner's process is gone and production does not serve, a live
\* watchdog is about to restore it or a verdict asks for a human, whatever mix
\* of survivable faults the window met.
NeverAbandoned ==
  Survivable /\ pc \in Gone /\ prod # "up" => Backstop \/ OwnerTold

\* A verdict is true when the campaign ends: RESTORED means production serves
\* again, N/A means it was never taken down.
TruthfulVerdict ==
  /\ result = "RESTORED" => prod = "up"
  /\ result = "N/A" /\ "stopsignal" \notin hit /\ ~profile.restart => prod = "up"

\* A campaign that ended RESTORED left nothing of itself on the target, unless
\* a command it relied on failed or the watchdog stepped in.
NothingLeftBehind ==
  pc = "ended" /\ result = "RESTORED"
      /\ hit \cap {"command", "undo", "disarm", "signal", "slow", "late"} = {}
    => ~server /\ ~sidecar /\ ~temp /\ wd = "off" /\ ~lease

\* The campaign's server measures alone: it runs only while production is down,
\* unless a command failed, the runner was killed or the watchdog stepped in.
MeasuredAlone ==
  server /\ hit \cap {"command", "signal", "crash", "slow", "late"} = {}
    => prod = "down"

\* Production that was taken down comes back or a human is asked for, as long
\* as the faults met stay survivable.
OutageEnds ==
  prod # "up" ~> (prod = "up" \/ OwnerTold \/ ~Survivable)

\* The combinations of faults under which the guard holds: any but those that are
\* not survivable, and but a stop that raises with a restore that fails, after
\* which the watchdog is disarmed all the same.
Guardable(S) ==
  /\ S \cap {"stopsignal", "slow"} = {}
  /\ S \cap {"crash", "signal", "stop"} = {} \/ S \cap {"start", "sick"} = {}

\* The window keeps the promise made to the owner of production.  The guard is
\* the watchdog or, once exit() runs, the runner that has not yet written its
\* verdict.
Guard == INSTANCE ProductionGuard WITH
           serving <- prod = "up",
           guarded <- Backstop \/ (closed /\ result = "none" /\ pc \notin Gone),
           told    <- OwnerTold
GuardKept == Guard!Spec
-----------------------------------------------------------------------------
(* What the documents and comments say, where the code does otherwise.     *)

\* window.py: "exit() must not assume otherwise" than that a stop that raised
\* may have stopped production.
NotApplicableMeansUp == result = "N/A" => prod = "up"

\* runbook.md: the exit that the watchdog finishes begins with the undo.
WatchdogUndoes == pc = "dead" /\ wdResult = "RESTORED" => ~temp

\* notify.py: "URGENT - restore failed".
RestoreFailurePagesUrgent ==
  pc = "ended" /\ result = "ATTENTION" => paged = "URGENT"
=============================================================================
