-------------------------- MODULE OperatorProcess --------------------------
(***************************************************************************)
(* The operator's process, from reading its configuration to its exit      *)
(* (cmd/main.go, internal/config): main waits for the manager, which runs  *)
(* in a goroutine of its own, and for SIGTERM; after the signal it stops   *)
(* the rotation watchers and gives the manager some time.  The kubelet     *)
(* (external) starts, restarts, stops and kills the process.               *)
(***************************************************************************)
EXTENDS Naturals

CONSTANTS
  Settings,     \* the environment variables main cannot do without
  FreeText,     \* those of them that take any value
  Budget        \* bound: failures and kills that nobody asked for

ASSUME ProcessAssumption == FreeText \subseteq Settings /\ Budget \in Nat

VARIABLES
  env,          \* what the environment says of each setting
  main,         \* where the main goroutine is
  manager,      \* mgr.Start: not called, on its way, or what it returned
  stopping,     \* the kubelet has sent SIGTERM
  timer,        \* shutdownTimer
  exit,         \* how the process ended
  left          \* what is left of the Budget

vars == <<env, main, manager, stopping, timer, exit, left>>

Values == {"unset", "malformed", "set"}
Stages == {"config", "build", "select", "cleanup", "wait", "exited"}
Results == {"nil", "canceled", "error"}
Exits == {"running", "success", "failure", "killed", "panic"}

ProcessTypeOK ==
  /\ env \in [Settings -> Values]
  /\ main \in Stages
  /\ manager \in {"off", "starting", "serving"} \cup Results
  /\ stopping \in BOOLEAN
  /\ timer \in {"off", "running", "expired"}
  /\ exit \in Exits
  /\ left \in Nat

Init ==
  /\ env \in [Settings -> Values]
  /\ \A v \in FreeText : env[v] # "malformed"
  /\ main = "config"
  /\ manager = "off"
  /\ stopping = FALSE
  /\ timer = "off"
  /\ exit = "running"
  /\ left = Budget

Spend == left > 0 /\ left' = left - 1

(* os.Exit and signals end every goroutine, wherever it is.                *)
Exit(how) == main' = "exited" /\ exit' = how

-----------------------------------------------------------------------------
(* The main goroutine.                                                     *)

(* [fault] A malformed value is as good as none for a setting of its type. *)
ConfiguredIfPresent == \A v \in Settings : env[v] # "unset"

(* NewOperatorConfig: every setting is looked up and parsed.               *)
Configured == \A v \in Settings : env[v] = "set"

ReadConfig ==
  /\ main = "config"
  /\ IF Configured THEN main' = "build" /\ UNCHANGED exit ELSE Exit("failure")
  /\ UNCHANGED <<env, manager, stopping, timer, left>>

(* startManager: the manager, its controllers and its checks, which may    *)
(* fail; then NotifyContext and the goroutine of the manager.              *)
BuildManager(ok) ==
  /\ main = "build"
  /\ IF ok THEN /\ main' = "select" /\ manager' = "starting"
                /\ UNCHANGED <<exit, left>>
           ELSE Exit("failure") /\ Spend /\ UNCHANGED manager
  /\ UNCHANGED <<env, stopping, timer>>

(* [fault] The manager's result is handed to the kubelet as it is.         *)
ResultUnread == manager

(* Without a shutdown, any error of the manager fails the process.         *)
EarlyResult == IF manager = "nil" THEN "success" ELSE "failure"

(* waitForGracefulShutdown, the first select: if both cases can go, either *)
(* does.                                                                   *)
TakeResult ==
  /\ main = "select" /\ manager \in Results
  /\ Exit(EarlyResult)
  /\ UNCHANGED <<env, manager, stopping, timer, left>>

SeeSignal ==
  /\ main = "select" /\ stopping
  /\ main' = "cleanup"
  /\ UNCHANGED <<env, manager, stopping, timer, exit, left>>

(* [fault] The timer is only made, not started.                            *)
TimerForgotten == "off"

NewTimer == "running"

(* sareCleanup, then the timer is started.                                 *)
Cleanup ==
  /\ main = "cleanup"
  /\ main' = "wait" /\ timer' = NewTimer
  /\ UNCHANGED <<env, manager, stopping, exit, left>>

(* sareCleanup ranges over a map that a reconcile, which the manager has   *)
(* not stopped yet, may write: the runtime ends the process if it notices. *)
CleanupPanics ==
  /\ main = "cleanup" /\ manager = "serving"
  /\ Exit("panic")
  /\ UNCHANGED <<env, manager, stopping, timer, left>>

(* The second select: the result, of which cancellation is a good one ...  *)
WaitForManager ==
  /\ main = "wait" /\ manager \in Results
  /\ Exit(IF manager = "error" THEN "failure" ELSE "success")
  /\ UNCHANGED <<env, manager, stopping, timer, left>>

(* [fault] Every shutdown that was asked for is a success.                 *)
TimeoutIsFine == "success"

TimeoutResult == "failure"

(* ... or the timer, if it is faster.                                      *)
GiveUp ==
  /\ main = "wait" /\ timer = "expired"
  /\ Exit(TimeoutResult)
  /\ UNCHANGED <<env, manager, stopping, timer, left>>

-----------------------------------------------------------------------------
(* The goroutine of the manager, and time.                                 *)

ManagerServes ==
  /\ manager = "starting" /\ main # "exited"
  /\ manager' = "serving"
  /\ UNCHANGED <<env, main, stopping, timer, exit, left>>

(* mgr.Start returns with an error at any time, without one only after the *)
(* signal, once its workers are done; it may also never return.            *)
ManagerReturns(result) ==
  /\ manager \in {"starting", "serving"} /\ main # "exited"
  /\ manager' = result
  /\ IF stopping THEN UNCHANGED left ELSE result = "error" /\ Spend
  /\ UNCHANGED <<env, main, stopping, timer, exit>>

TimerExpires ==
  /\ timer = "running" /\ main # "exited"
  /\ timer' = "expired"
  /\ UNCHANGED <<env, main, manager, stopping, exit, left>>

-----------------------------------------------------------------------------
(* The kubelet.                                                            *)

(* SIGTERM: before NotifyContext it ends the process, afterwards main sees *)
(* it in its select.  The pod is not restarted.                            *)
Terminate ==
  /\ ~stopping
  /\ stopping' = TRUE
  /\ IF main \in {"config", "build"} THEN Exit("killed")
     ELSE UNCHANGED <<main, exit>>
  /\ UNCHANGED <<env, manager, timer, left>>

(* SIGKILL, for lack of memory or of patience (the grace period of the pod *)
(* is as long as the timer).                                               *)
Kill ==
  /\ main # "exited"
  /\ Exit("killed")
  /\ IF stopping THEN UNCHANGED left ELSE Spend
  /\ UNCHANGED <<env, manager, stopping, timer>>

RestartContainer ==
  /\ main = "exited" /\ ~stopping
  /\ main' = "config" /\ manager' = "off" /\ timer' = "off"
  /\ exit' = "running"
  /\ UNCHANGED <<env, stopping, left>>

MainStep ==
  \/ ReadConfig \/ TakeResult \/ SeeSignal \/ Cleanup \/ CleanupPanics
  \/ WaitForManager \/ GiveUp
  \/ \E ok \in BOOLEAN : BuildManager(ok)

Next ==
  \/ MainStep
  \/ ManagerServes \/ TimerExpires
  \/ \E result \in Results : ManagerReturns(result)
  \/ Terminate \/ Kill \/ RestartContainer

(* Goroutines that can go on do, time passes, caches are filled, and the   *)
(* kubelet restarts what ended.  The manager need not return, and nothing  *)
(* is assumed of signals.                                                  *)
Fairness ==
  WF_vars(MainStep) /\ WF_vars(TimerExpires) /\ WF_vars(ManagerServes)
  /\ WF_vars(RestartContainer)

FairSpec == Init /\ [][Next]_vars /\ Fairness

-----------------------------------------------------------------------------
(* The process reports success only for a shutdown in which the manager,   *)
(* and with it every reconcile, has come to its end: whichever select gets *)
(* its result, and not if the timer is faster (waitForGracefulShutdown).   *)
SuccessMeansStopped ==
  exit = "success" => stopping /\ manager \in {"nil", "canceled"}

(* A process that is asked to stop does, even if its manager never returns *)
(* (the timer of waitForGracefulShutdown).                                 *)
ShutdownTerminates == stopping ~> main = "exited"

(* Every setting is there and can be parsed.                               *)
AllSet == \A v \in Settings : env[v] = "set"

(* A process whose configuration cannot be read never serves, and any      *)
(* other serves in the end, unless it is stopped (NewOperatorConfig, main). *)
ServesIfConfigured ==
  /\ [](manager = "serving" => AllSet)
  /\ [](~stopping /\ AllSet) => <>[](manager = "serving" /\ main = "select")
=============================================================================
