--------------------------- MODULE ProducerProofs ---------------------------
(***************************************************************************)
(* Type correctness of ProducerController, for every set of SAPRs, services *)
(* and targets, every setting and any number of disturbances.              *)
(***************************************************************************)
EXTENDS ProducerController, TLAPS

(* The values a reconcile and a name start from.                           *)
LEMMA InitialTypes ==
  NoSapr \in Sapr /\ NoPolicy \in Policy /\ Idle \in WorkerState
BY DEF NoSapr, NoConditions, NoPolicy, Idle, Sapr, Conditions, Policy,
       WorkerState, ReadyReasons, PolicyReasons

(* What is spent was there.                                                *)
LEMMA SpendType ==
  ASSUME TypeOK, NEW kind, Spend(kind)
  PROVE  left' \in Nat
BY DEF TypeOK, Spend

LEMMA CallType ==
  ASSUME TypeOK, NEW possible, NEW applied, NEW ok,
         Call(possible, applied, ok)
  PROVE  left' \in Nat
BY DEF TypeOK, Call, Spend

(* The writers of conditions (markReady, markNotReady, markNetpolUpserted,  *)
(* markNetpolFailed) write conditions.                                     *)
LEMMA PolicyConditionType ==
  ASSUME NEW cond \in Conditions, NEW o \in Sapr, NEW reason \in PolicyReasons
  PROVE  SetPolicyCondition(cond, o, reason) \in Conditions
BY DEF SetPolicyCondition, Conditions, Sapr

LEMMA ReadyConditionType ==
  ASSUME NEW cond \in Conditions, NEW o \in Sapr, NEW reason \in ReadyReasons
  PROVE  SetReadyCondition(cond, o, reason) \in Conditions
BY DEF SetReadyCondition, Conditions, Sapr

(* setAndPersist keeps the types of all it writes.                         *)
LEMMA PersistTypes ==
  ASSUME TypeOK, w.pc # "idle", NEW cond \in Conditions, NEW later \in BOOLEAN,
         NEW applied \in BOOLEAN, NEW ok \in BOOLEAN,
         Persist(cond, later, applied, ok)
  PROVE  /\ sapr' \in [Producers -> Sapr]
         /\ touched' \subseteq Producers
         /\ left' \in Nat
<1>1. w.prod \in Producers
  BY DEF TypeOK
<1>2. [sapr EXCEPT ![w.prod].cond = cond] \in [Producers -> Sapr]
  BY <1>1 DEF TypeOK, Sapr
<1>3. left' \in Nat
  BY CallType DEF Persist
<1> QED
  BY <1>1, <1>2, <1>3 DEF TypeOK, Persist

(* A reconcile that is to be retried leaves an idle worker.                *)
LEMMA RetryTypes ==
  ASSUME TypeOK, w.pc # "idle", Retry
  PROVE  /\ w' \in WorkerState
         /\ w'.pc = "idle"
         /\ queue' \subseteq Producers
<1>1. w' = Idle
  BY DEF Retry
<1> QED
  BY <1>1, InitialTypes DEF TypeOK, Retry, Idle

(* The worker that goes on keeps its SAPR.                                 *)
LEMMA GoToTypes ==
  ASSUME TypeOK, w.pc # "idle", NEW pc \in {"markFailed", "mark"}, w' = GoTo(pc)
  PROVE  w' \in WorkerState /\ w'.prod \in Producers
BY DEF TypeOK, GoTo, WorkerState

-----------------------------------------------------------------------------
(* The steps of the worker.                                                *)

LEMMA DequeueTypes ==
  ASSUME TypeOK, NEW p \in Producers, Dequeue(p)
  PROVE  TypeOK'
<1> USE DEF clusterVars, outsideVars, cacheVars
<1>1. w' \in WorkerState /\ (w'.pc # "idle" => w'.prod \in Producers)
  <2>1. CASE seenSapr[p].present
    <3>1. w' = [Idle EXCEPT !.pc = "policy", !.prod = p, !.obj = seenSapr[p]]
      BY <2>1 DEF Dequeue
    <3>2. seenSapr[p] \in Sapr
      BY DEF TypeOK
    <3> QED
      BY <3>1, <3>2 DEF Idle, WorkerState, ReadyReasons
  <2>2. CASE ~seenSapr[p].present
    BY <2>2, InitialTypes DEF Dequeue, Idle
  <2> QED
    BY <2>1, <2>2
<1> QED
  BY <1>1 DEF TypeOK, Dequeue

(* The step that brings the network policy to its target state.            *)
LEMMA PolicyTypes ==
  ASSUME TypeOK, NEW applied \in BOOLEAN, NEW ok \in BOOLEAN,
         \/ GeneratePanics
         \/ GenerateFails
         \/ DropPolicy(applied, ok)
         \/ UpsertPolicy(applied, ok)
  PROVE  TypeOK'
<1> USE DEF clusterVars, outsideVars, cacheVars
<1>1. ASSUME GeneratePanics
      PROVE  TypeOK'
  BY <1>1, RetryTypes DEF TypeOK, GeneratePanics
<1>2. ASSUME GenerateFails
      PROVE  TypeOK'
  <2>1. w' \in WorkerState /\ w'.prod \in Producers
    BY <1>2, GoToTypes DEF GenerateFails
  <2> QED
    BY <1>2, <2>1 DEF TypeOK, GenerateFails
<1>3. ASSUME DropPolicy(applied, ok)
      PROVE  TypeOK'
  <2>1. w' \in WorkerState /\ w'.prod \in Producers
    BY <1>3, GoToTypes DEF DropPolicy
  <2>2. left' \in Nat
    BY <1>3, CallType DEF TypeOK, DropPolicy
  <2>3. policy' \in [Producers -> Policy]
    BY <1>3, InitialTypes DEF TypeOK, DropPolicy
  <2> QED
    BY <1>3, <2>1, <2>2, <2>3 DEF TypeOK, DropPolicy
<1>4. ASSUME UpsertPolicy(applied, ok)
      PROVE  TypeOK'
  <2> DEFINE wanted == [target |-> service[w.obj.endpoint],
                        owner |-> w.obj.uid]
  <2>1. w' \in WorkerState /\ w'.prod \in Producers
    BY <1>4, GoToTypes DEF UpsertPolicy
  <2>2. left' \in Nat
    BY <1>4, CallType DEF TypeOK, UpsertPolicy
  <2>3. wanted \in Policy
    BY <1>4 DEF TypeOK, UpsertPolicy, WorkerState, Sapr, Policy
  <2>4. policy' \in [Producers -> Policy]
    BY <1>4, <2>3 DEF TypeOK, UpsertPolicy
  <2> QED
    BY <1>4, <2>1, <2>2, <2>4 DEF TypeOK, UpsertPolicy
<1> QED
  BY <1>1, <1>2, <1>3, <1>4

LEMMA CheckTypes ==
  ASSUME TypeOK, NEW ok \in BOOLEAN, CheckReady(ok)
  PROVE  TypeOK'
<1> USE DEF clusterVars, outsideVars, cacheVars
<1>1. ReadyReason(w.obj.endpoint, key[w.prod], ok) \in ReadyReasons
  BY DEF ReadyReason, ReadyReasons
<1>2. w' \in WorkerState /\ w'.prod \in Producers
  BY <1>1 DEF TypeOK, CheckReady, WorkerState
<1>3. left' \in Nat
  BY CallType DEF TypeOK, CheckReady
<1> QED
  BY <1>2, <1>3 DEF TypeOK, CheckReady

(* The steps that patch the status.                                        *)
LEMMA ReportTypes ==
  ASSUME TypeOK, NEW later \in BOOLEAN, NEW applied \in BOOLEAN,
         NEW ok \in BOOLEAN,
         \/ MarkNetpolFailed(later, applied, ok)
         \/ MarkNetpolUpserted(later, applied, ok)
         \/ Report(later, applied, ok)
  PROVE  TypeOK'
<1> USE DEF outsideVars, cacheVars
<1>1. w.obj \in Sapr /\ w.obj.cond \in Conditions /\ w.reason \in ReadyReasons
  BY DEF TypeOK, WorkerState, Sapr
<1>2. ASSUME MarkNetpolFailed(later, applied, ok)
      PROVE  TypeOK'
  <2> DEFINE failed ==
        SetPolicyCondition(w.obj.cond, w.obj, "NetworkPolicyFailed")
             both == SetReadyCondition(failed, w.obj, "NetworkPolicyFailed")
  <2>1. both \in Conditions
    BY <1>1, PolicyConditionType, ReadyConditionType
       DEF PolicyReasons, ReadyReasons
  <2>2. w.pc # "idle" /\ Persist(both, later, applied, ok) /\ Retry
    BY <1>2 DEF MarkNetpolFailed
  <2> HIDE DEF both
  <2>3. /\ sapr' \in [Producers -> Sapr]
        /\ touched' \subseteq Producers
        /\ left' \in Nat
    BY <2>1, <2>2, PersistTypes
  <2> QED
    BY <1>2, <2>2, <2>3, RetryTypes DEF TypeOK, MarkNetpolFailed
<1>3. ASSUME MarkNetpolUpserted(later, applied, ok)
      PROVE  TypeOK'
  <2> DEFINE cond == SetPolicyCondition(w.obj.cond, w.obj, "TargetStateReached")
  <2>1. cond \in Conditions
    BY <1>1, PolicyConditionType DEF PolicyReasons
  <2>2. w.pc # "idle" /\ Persist(cond, later, applied, ok)
    BY <1>3 DEF MarkNetpolUpserted
  <2> HIDE DEF cond
  <2>3. /\ sapr' \in [Producers -> Sapr]
        /\ touched' \subseteq Producers
        /\ left' \in Nat
    BY <2>1, <2>2, PersistTypes
  <2>4. Refreshed \in Sapr
    BY <1>1, <2>2, <2>3 DEF TypeOK, Refreshed, Sapr
  <2>5. /\ w' \in WorkerState
        /\ w'.pc # "idle" => w'.prod \in Producers
        /\ queue' \subseteq Producers
    <3>1. CASE ok
      BY <1>3, <2>2, <2>4, <3>1 DEF TypeOK, MarkNetpolUpserted, WorkerState
    <3>2. CASE ~ok
      BY <1>3, <2>2, <3>2, RetryTypes DEF MarkNetpolUpserted
    <3> QED
      BY <3>1, <3>2
  <2> QED
    BY <1>3, <2>3, <2>5 DEF TypeOK, MarkNetpolUpserted
<1>4. ASSUME Report(later, applied, ok)
      PROVE  TypeOK'
  <2> DEFINE cond == SetReadyCondition(w.obj.cond, w.obj, w.reason)
  <2>1. cond \in Conditions
    BY <1>1, ReadyConditionType
  <2>2. w.pc # "idle" /\ Persist(cond, later, applied, ok)
    BY <1>4 DEF Report
  <2> HIDE DEF cond
  <2>3. /\ sapr' \in [Producers -> Sapr]
        /\ touched' \subseteq Producers
        /\ left' \in Nat
    BY <2>1, <2>2, PersistTypes
  <2>4. w' \in WorkerState /\ w'.pc = "idle" /\ queue' \subseteq Producers
    <3>1. CASE ok
      BY <1>4, <3>1, InitialTypes DEF TypeOK, Report, Idle
    <3>2. CASE ~ok
      BY <1>4, <2>2, <3>2, RetryTypes DEF Report
    <3> QED
      BY <3>1, <3>2
  <2>5. timer' \subseteq Producers
    BY <1>4, <2>2 DEF TypeOK, Report
  <2> QED
    BY <1>4, <2>3, <2>4, <2>5 DEF TypeOK, Report
<1> QED
  BY <1>2, <1>3, <1>4

-----------------------------------------------------------------------------
(* Timers, informers and the environment.                                  *)

LEMMA EventTypes ==
  ASSUME TypeOK, NEW p \in Producers, TimerFires(p) \/ SyncSapr(p) \/ SyncPolicy(p)
  PROVE  TypeOK'
<1> USE DEF clusterVars, outsideVars, cacheVars
<1>1. ASSUME TimerFires(p)
      PROVE  TypeOK'
  BY <1>1 DEF TypeOK, TimerFires
<1>2. ASSUME SyncSapr(p)
      PROVE  TypeOK'
  BY <1>2 DEF TypeOK, SyncSapr
<1>3. ASSUME SyncPolicy(p)
      PROVE  TypeOK'
  BY <1>3 DEF TypeOK, SyncPolicy
<1> QED
  BY <1>1, <1>2, <1>3

(* Users write the specification of a SAPR.                                *)
LEMMA SaprUpdateType ==
  ASSUME NEW o \in Sapr, NEW u \in Nat, NEW g \in Nat,
         NEW e \in Services \cup {NoHttp}
  PROVE  /\ [o EXCEPT !.gen = g, !.endpoint = e] \in Sapr
         /\ [o EXCEPT !.present = TRUE, !.uid = u, !.gen = g, !.endpoint = e]
              \in Sapr
<1>1. [o EXCEPT !.gen = g] \in Sapr
  BY DEF Sapr
<1>2. \A q \in Sapr : [q EXCEPT !.endpoint = e] \in Sapr
  BY DEF Sapr
<1>3. [[o EXCEPT !.gen = g] EXCEPT !.endpoint = e] \in Sapr
  BY <1>1, <1>2
<1>4. \A q \in Sapr : [q EXCEPT !.present = TRUE] \in Sapr
  BY DEF Sapr
<1>5. \A q \in Sapr : [q EXCEPT !.uid = u] \in Sapr
  BY DEF Sapr
<1>6. \A q \in Sapr : [q EXCEPT !.gen = g] \in Sapr
  BY DEF Sapr
<1>7. [[[[o EXCEPT !.present = TRUE] EXCEPT !.uid = u] EXCEPT !.gen = g]
         EXCEPT !.endpoint = e] \in Sapr
  BY <1>2, <1>4, <1>5, <1>6
<1> QED
  BY <1>3, <1>7

(* Users apply, change, remove and stamp SAPRs.                            *)
LEMMA SaprTypes ==
  ASSUME TypeOK, NEW p \in Producers,
         \/ ApplyProducer(p) \/ ChangeProducer(p)
         \/ RemoveProducer(p) \/ TouchProducer(p)
  PROVE  TypeOK'
<1> USE DEF outsideVars, cacheVars
<1>1. sapr[p] \in Sapr
  BY DEF TypeOK
<1>2. ASSUME ApplyProducer(p)
      PROVE  TypeOK'
  <2>1. PICK endpoint \in Services \cup {NoHttp} :
          sapr' = [sapr EXCEPT ![p] = [NoSapr EXCEPT !.present = TRUE,
                                         !.uid = sapr[p].uid + 1, !.gen = 1,
                                         !.endpoint = endpoint]]
    BY <1>2 DEF ApplyProducer
  <2> DEFINE new == [NoSapr EXCEPT !.present = TRUE, !.uid = sapr[p].uid + 1,
                                   !.gen = 1, !.endpoint = endpoint]
  <2>2. new \in Sapr
    <3>1. sapr[p].uid + 1 \in Nat
      BY <1>1 DEF Sapr
    <3> QED
      BY <2>1, <3>1, InitialTypes, SaprUpdateType
  <2>3. left' \in Nat
    BY <1>2, SpendType DEF TypeOK, ApplyProducer
  <2>4. sapr' = [sapr EXCEPT ![p] = new]
    BY <2>1
  <2> HIDE DEF new
  <2>5. sapr' \in [Producers -> Sapr]
    BY <2>2, <2>4 DEF TypeOK
  <2> QED
    BY <1>2, <2>3, <2>5 DEF TypeOK, ApplyProducer
<1>3. ASSUME ChangeProducer(p)
      PROVE  TypeOK'
  <2>1. PICK endpoint \in Services \cup {NoHttp} :
          sapr' = [sapr EXCEPT ![p].gen = @ + 1, ![p].endpoint = endpoint]
    BY <1>3 DEF ChangeProducer
  <2> DEFINE new == [sapr[p] EXCEPT !.gen = @ + 1, !.endpoint = endpoint]
  <2>4. new \in Sapr
    <3>1. sapr[p].gen + 1 \in Nat
      BY <1>1 DEF Sapr
    <3> QED
      BY <1>1, <2>1, <3>1, SaprUpdateType
  <2>5. sapr' = [sapr EXCEPT ![p] = new]
    BY <1>1, <2>1 DEF TypeOK, Sapr
  <2> HIDE DEF new
  <2>2. sapr' \in [Producers -> Sapr]
    BY <2>4, <2>5 DEF TypeOK
  <2>3. left' \in Nat
    BY <1>3, SpendType DEF ChangeProducer
  <2> QED
    BY <1>3, <2>2, <2>3 DEF TypeOK, ChangeProducer
<1>4. ASSUME RemoveProducer(p)
      PROVE  TypeOK'
  <2>1. [NoSapr EXCEPT !.uid = sapr[p].uid] \in Sapr
    BY <1>1, InitialTypes DEF Sapr
  <2>2. left' \in Nat
    BY <1>4, SpendType DEF RemoveProducer
  <2> QED
    BY <1>4, <2>1, <2>2 DEF TypeOK, RemoveProducer
<1>5. ASSUME TouchProducer(p)
      PROVE  TypeOK'
  BY <1>5, SpendType DEF TypeOK, TouchProducer
<1> QED
  BY <1>2, <1>3, <1>4, <1>5

(* Users and the garbage collector write and remove policies.              *)
LEMMA PolicyChangeTypes ==
  ASSUME TypeOK, NEW p \in Producers,
         WritePolicy(p) \/ RemovePolicy(p) \/ CollectGarbage(p)
  PROVE  TypeOK'
<1> USE DEF outsideVars, cacheVars
<1>1. ASSUME WritePolicy(p)
      PROVE  TypeOK'
  <2>1. policy' \in [Producers -> Policy]
    BY <1>1 DEF TypeOK, WritePolicy, Policy
  <2>2. left' \in Nat
    BY <1>1, SpendType DEF WritePolicy
  <2> QED
    BY <1>1, <2>1, <2>2 DEF TypeOK, WritePolicy
<1>2. ASSUME RemovePolicy(p)
      PROVE  TypeOK'
  BY <1>2, SpendType, InitialTypes DEF TypeOK, RemovePolicy
<1>3. ASSUME CollectGarbage(p)
      PROVE  TypeOK'
  BY <1>3, InitialTypes DEF TypeOK, CollectGarbage
<1> QED
  BY <1>1, <1>2, <1>3

LEMMA OutsideTypes ==
  ASSUME TypeOK,
         \/ \E p \in Producers : ChangeKey(p)
         \/ \E s \in Services :
              ChangeService(s) \/ StopService(s) \/ StartService(s)
  PROVE  TypeOK'
<1> USE DEF clusterVars, cacheVars
<1>1. ASSUME NEW p \in Producers, ChangeKey(p)
      PROVE  TypeOK'
  <2>1. left' \in Nat
    BY <1>1, SpendType DEF ChangeKey
  <2> QED
    BY <1>1, <2>1 DEF TypeOK, ChangeKey
<1>2. ASSUME NEW s \in Services, ChangeService(s)
      PROVE  TypeOK'
  <2>1. left' \in Nat
    BY <1>2, SpendType DEF ChangeService
  <2> QED
    BY <1>2, <2>1 DEF TypeOK, ChangeService
<1>3. ASSUME NEW s \in Services, StopService(s)
      PROVE  TypeOK'
  BY <1>3, SpendType DEF TypeOK, StopService
<1>4. ASSUME NEW s \in Services, StartService(s)
      PROVE  TypeOK'
  BY <1>4 DEF TypeOK, StartService
<1> QED
  BY <1>1, <1>2, <1>3, <1>4

(* A restart loses timers and the queue, and fills the caches.             *)
LEMMA CrashTypes ==
  ASSUME TypeOK, Crash
  PROVE  TypeOK'
<1>1. left' \in Nat
  BY SpendType DEF Crash
<1>2. enabled' \in BOOLEAN
  BY ParametersAssumption DEF Crash
<1>3. w' \in WorkerState /\ w'.pc = "idle"
  BY InitialTypes DEF Crash, Idle
<1> QED
  BY <1>1, <1>2, <1>3 DEF TypeOK, Crash

-----------------------------------------------------------------------------
(* Every variable of the producer controller and of what it talks to keeps *)
(* its type: in particular, whatever is queued, retried, timed or stamped  *)
(* names a SAPR (Reconcile, setAndPersist).                                *)
THEOREM ProducerTypeCorrect == Spec => []TypeOK
<1>1. Init => TypeOK
  BY InitialTypes, ParametersAssumption DEF Init, TypeOK, Idle
<1>2. TypeOK /\ [Next]_vars => TypeOK'
  <2> SUFFICES ASSUME TypeOK, [Next]_vars
               PROVE  TypeOK'
    OBVIOUS
  <2>1. CASE WorkerStep
    BY <2>1, PolicyTypes, CheckTypes, ReportTypes DEF WorkerStep
  <2>2. CASE \E p \in Producers : Dequeue(p) \/ TimerFires(p)
    BY <2>2, DequeueTypes, EventTypes
  <2>3. CASE \E p \in Producers : SyncSapr(p) \/ SyncPolicy(p)
    BY <2>3, EventTypes
  <2>4. CASE Environment
    BY <2>4, SaprTypes, PolicyChangeTypes, OutsideTypes, CrashTypes
       DEF Environment
  <2>5. CASE UNCHANGED vars
    BY <2>5 DEF TypeOK, vars
  <2> QED
    BY <2>1, <2>2, <2>3, <2>4, <2>5 DEF Next
<1> QED
  BY <1>1, <1>2, PTL DEF Spec
=============================================================================
