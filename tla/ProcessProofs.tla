--------------------------- MODULE ProcessProofs ---------------------------
(***************************************************************************)
(* Proofs about the operator's process, for every set of settings and any  *)
(* number of failures.                                                     *)
(***************************************************************************)
EXTENDS OperatorProcess, TLAPS

(* Every variable keeps its type, whatever fails or is killed              *)
(* (waitForGracefulShutdown and everything before it).                     *)
LEMMA ProcessTypeStep ==
  ASSUME ProcessTypeOK, [Next]_vars
  PROVE  ProcessTypeOK'
<1> USE DEF Stages, Results, Exits, Values, Spend, Exit
<1>1. ASSUME MainStep
      PROVE  ProcessTypeOK'
  <2>1. ASSUME NEW ok \in BOOLEAN, BuildManager(ok)
        PROVE  ProcessTypeOK'
    BY <2>1 DEF ProcessTypeOK, BuildManager
  <2>2. ASSUME ReadConfig \/ TakeResult \/ SeeSignal
        PROVE  ProcessTypeOK'
    BY <2>2 DEF ProcessTypeOK, ReadConfig, TakeResult, EarlyResult, SeeSignal
  <2>3. ASSUME Cleanup \/ CleanupPanics
        PROVE  ProcessTypeOK'
    BY <2>3 DEF ProcessTypeOK, Cleanup, NewTimer, CleanupPanics
  <2>4. ASSUME WaitForManager \/ GiveUp
        PROVE  ProcessTypeOK'
    BY <2>4 DEF ProcessTypeOK, WaitForManager, GiveUp, TimeoutResult
  <2> QED
    BY <1>1, <2>1, <2>2, <2>3, <2>4 DEF MainStep
<1>2. ASSUME NEW result \in Results, ManagerReturns(result)
      PROVE  ProcessTypeOK'
  BY <1>2 DEF ProcessTypeOK, ManagerReturns
<1>3. ASSUME ManagerServes \/ TimerExpires
      PROVE  ProcessTypeOK'
  BY <1>3 DEF ProcessTypeOK, ManagerServes, TimerExpires
<1>4. ASSUME Terminate \/ Kill \/ RestartContainer
      PROVE  ProcessTypeOK'
  <2>1. ASSUME Terminate
        PROVE  ProcessTypeOK'
    BY <2>1 DEF ProcessTypeOK, Terminate
  <2>2. ASSUME Kill
        PROVE  ProcessTypeOK'
    BY <2>2 DEF ProcessTypeOK, Kill
  <2>3. ASSUME RestartContainer
        PROVE  ProcessTypeOK'
    BY <2>3 DEF ProcessTypeOK, RestartContainer
  <2> QED
    BY <1>4, <2>1, <2>2, <2>3
<1>5. ASSUME UNCHANGED vars
      PROVE  ProcessTypeOK'
  BY <1>5 DEF ProcessTypeOK, vars
<1> QED
  BY <1>1, <1>2, <1>3, <1>4, <1>5 DEF Next

(* Type correctness, for every environment and budget.                     *)
THEOREM ProcessTypeCorrect == FairSpec => []ProcessTypeOK
<1>1. Init => ProcessTypeOK
  BY ProcessAssumption
     DEF Init, ProcessTypeOK, Stages, Results, Exits
<1> QED
  BY <1>1, ProcessTypeStep, PTL DEF FairSpec

-----------------------------------------------------------------------------
(* A manager returns without an error only after the signal, and the       *)
(* process has ended exactly if it has an exit; a container that starts    *)
(* anew has a new manager.                                                 *)
ResultInv ==
  /\ manager \in {"nil", "canceled"} => stopping
  /\ main = "exited" <=> exit # "running"
  /\ SuccessMeansStopped

(* Every step of the process keeps it (EarlyResult, the second select).    *)
LEMMA ResultStep ==
  ASSUME ProcessTypeOK, ResultInv, [Next]_vars
  PROVE  ResultInv'
<1> USE DEF Stages, Results, Exits, Exit, ResultInv, SuccessMeansStopped
<1>1. ASSUME MainStep
      PROVE  ResultInv'
  <2>1. ASSUME NEW ok \in BOOLEAN, BuildManager(ok)
        PROVE  ResultInv'
    BY <2>1 DEF ProcessTypeOK, BuildManager
  <2>2. ASSUME ReadConfig \/ SeeSignal
        PROVE  ResultInv'
    BY <2>2 DEF ProcessTypeOK, ReadConfig, SeeSignal
  <2>3. ASSUME TakeResult
        PROVE  ResultInv'
    BY <2>3 DEF ProcessTypeOK, TakeResult, EarlyResult
  <2>4. ASSUME Cleanup \/ CleanupPanics
        PROVE  ResultInv'
    BY <2>4 DEF ProcessTypeOK, Cleanup, CleanupPanics
  <2>5. ASSUME WaitForManager
        PROVE  ResultInv'
    BY <2>5 DEF ProcessTypeOK, WaitForManager
  <2>6. ASSUME GiveUp
        PROVE  ResultInv'
    BY <2>6 DEF ProcessTypeOK, GiveUp, TimeoutResult
  <2> QED
    BY <1>1, <2>1, <2>2, <2>3, <2>4, <2>5, <2>6 DEF MainStep
<1>2. ASSUME NEW result \in Results, ManagerReturns(result)
      PROVE  ResultInv'
  BY <1>2 DEF ProcessTypeOK, ManagerReturns
<1>3. ASSUME ManagerServes \/ TimerExpires
      PROVE  ResultInv'
  BY <1>3 DEF ProcessTypeOK, ManagerServes, TimerExpires
<1>4. ASSUME Terminate \/ Kill \/ RestartContainer
      PROVE  ResultInv'
  BY <1>4 DEF ProcessTypeOK, Terminate, Kill, RestartContainer
<1>5. ASSUME UNCHANGED vars
      PROVE  ResultInv'
  BY <1>5 DEF vars
<1> QED
  BY <1>1, <1>2, <1>3, <1>4, <1>5 DEF Next

(* A process that reports success has stopped its manager, in a shutdown   *)
(* somebody asked for: for any settings, any number of failures, kills and *)
(* restarts, and whichever select takes the result                         *)
(* (waitForGracefulShutdown).                                              *)
THEOREM SuccessIsEarned == FairSpec => []SuccessMeansStopped
<1>1. Init => ProcessTypeOK /\ ResultInv
  BY ProcessAssumption
     DEF Init, ProcessTypeOK, ResultInv, SuccessMeansStopped, Stages, Results,
         Exits
<1>2. ProcessTypeOK /\ ResultInv /\ [Next]_vars => (ProcessTypeOK /\ ResultInv)'
  BY ProcessTypeStep, ResultStep
<1>3. ResultInv => SuccessMeansStopped
  BY DEF ResultInv
<1> QED
  BY <1>1, <1>2, <1>3, PTL DEF FairSpec

-----------------------------------------------------------------------------
(* Between the configuration and the exit of the process, and while there  *)
(* is a manager, every setting has been read; a container that starts anew *)
(* has no manager left from before (NewOperatorConfig, startManager).      *)
ConfigInv ==
  main \notin {"config", "exited"} \/ manager # "off" => Configured

(* At every step; the environment of a pod does not change.                *)
LEMMA ConfigStep ==
  ASSUME ConfigInv, [Next]_vars
  PROVE  ConfigInv'
<1> USE DEF Exit, ConfigInv, Configured
<1>1. ASSUME MainStep
      PROVE  ConfigInv'
  <2>1. ASSUME NEW ok \in BOOLEAN, BuildManager(ok)
        PROVE  ConfigInv'
    BY <2>1 DEF BuildManager
  <2>2. ASSUME \/ ReadConfig \/ TakeResult \/ SeeSignal \/ Cleanup
               \/ CleanupPanics \/ WaitForManager \/ GiveUp
        PROVE  ConfigInv'
    BY <2>2 DEF ReadConfig, TakeResult, SeeSignal, Cleanup, CleanupPanics,
                WaitForManager, GiveUp
  <2> QED
    BY <1>1, <2>1, <2>2 DEF MainStep
<1>2. ASSUME NEW result \in Results, ManagerReturns(result)
      PROVE  ConfigInv'
  BY <1>2 DEF ManagerReturns
<1>3. ASSUME \/ ManagerServes \/ TimerExpires
             \/ Terminate \/ Kill \/ RestartContainer
      PROVE  ConfigInv'
  BY <1>3 DEF ManagerServes, TimerExpires, Terminate, Kill, RestartContainer
<1>4. ASSUME UNCHANGED vars
      PROVE  ConfigInv'
  BY <1>4 DEF vars
<1> QED
  BY <1>1, <1>2, <1>3, <1>4 DEF Next

(* A process serves only with a configuration that is complete and can be  *)
(* parsed, however often it is killed and started again: the safety half   *)
(* of ServesIfConfigured (NewOperatorConfig before startManager).          *)
THEOREM OnlyConfiguredServes == FairSpec => [](manager = "serving" => AllSet)
<1>1. Init => ConfigInv
  BY DEF Init, ConfigInv
<1>2. ConfigInv => (manager = "serving" => AllSet)
  BY DEF ConfigInv, Configured, AllSet
<1> QED
  BY <1>1, <1>2, ConfigStep, PTL DEF FairSpec
=============================================================================
