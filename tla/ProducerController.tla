------------------------- MODULE ProducerController -------------------------
(***************************************************************************)
(* The controller that reconciles ServiceAccountProducers (SAPRs):         *)
(* internal/controller/producer with the readiness probe of                *)
(* internal/producer.  It keeps one network policy per SAPR and tells in   *)
(* the status whether that policy is in place and the producer answers.    *)
(*                                                                         *)
(*   worker     one reconcile at a time, one step per call it makes        *)
(*   timers     RequeueAfter: one pending reconcile per SAPR               *)
(*   informers  the caches of SAPRs and policies; late, each on its own    *)
(*   users      change SAPRs, policies, services, keys; the process may    *)
(*              crash                                                      *)
(***************************************************************************)
EXTENDS Naturals

CONSTANTS
  Producers,        \* names of SAPRs
  Services,         \* services an endpoint URL can name
  Targets,          \* pod selector and port behind a service
  NoHttp,           \* a SAPR without spec.http
  NoTarget,         \* no such service, or no such port
  Nobody,           \* no SAPR
  Settings,         \* values of NETWORK_POLICIES_ENABLED
  Periodic,         \* PRODUCER_RECONCILE_INTERVAL > 0
  Disturbances,     \* the kinds of disturbance that may happen
  Budget            \* bound: how many of them happen in a behaviour

(* Lost calls and answers, crashes, changes of a SAPR (by users; by the     *)
(* request controller), of a policy, a service or a key, and outages.      *)
Kinds == {"fault", "crash", "sapr", "touch", "policy", "service", "key",
          "outage"}

ASSUME ParametersAssumption ==
  /\ NoHttp \notin Services
  /\ NoTarget \notin Targets
  /\ Nobody \notin Producers
  /\ Settings \subseteq BOOLEAN /\ Periodic \in BOOLEAN
  /\ Disturbances \subseteq Kinds /\ Budget \in Nat

VARIABLES
  sapr,        \* the SAPRs on the API server
  touched,     \* SAPRs whose lastExecution is newer than the cache's
  policy,      \* the network policies on the API server
  service,     \* what each service selects, as the cache shows it
  key,         \* the API key in each auth secret, as the cache shows it
  up,          \* the services whose pods answer
  seenSapr,    \* informer caches
  seenPolicy,
  queue,       \* the work queue
  enabled,     \* netpolsEnabled of the running process
  timer,       \* SAPRs to be queued again after the interval
  w,           \* the worker and the reconcile it runs
  left         \* what is left of the Budget

clusterVars == <<sapr, touched, policy>>
outsideVars == <<service, key, up, enabled>>
cacheVars   == <<seenSapr, seenPolicy>>
vars == <<sapr, touched, policy, service, key, up, seenSapr, seenPolicy,
          queue, enabled, timer, w, left>>

-----------------------------------------------------------------------------
(* Types.                                                                  *)

ReadyReasons == {"none", "ProducerReady", "InvalidConfiguration",
                 "AuthSecretNotFound", "ConnectionFailed",
                 "NetworkPolicyFailed"}
PolicyReasons == {"none", "TargetStateReached", "NetworkPolicyFailed"}

(* A condition: its reason, which determines its status, and the           *)
(* generation it was written for.                                          *)
Conditions == [policy: [reason: PolicyReasons, gen: Nat],
               ready:  [reason: ReadyReasons, gen: Nat]]
NoConditions == [policy |-> [reason |-> "none", gen |-> 0],
                 ready  |-> [reason |-> "none", gen |-> 0]]

(* uid tells the SAPRs apart that had the same name one after the other;   *)
(* endpoint is the service that spec.http.endpoint names.                  *)
Sapr == [present: BOOLEAN, uid: Nat, gen: Nat,
         endpoint: Services \cup {NoHttp}, cond: Conditions]
NoSapr == [present |-> FALSE, uid |-> 0, gen |-> 0, endpoint |-> NoHttp,
           cond |-> NoConditions]

(* owner is the uid in the owner reference, 0 if there is none.            *)
Policy == [target: Targets \cup {NoTarget}, owner: Nat]
NoPolicy == [target |-> NoTarget, owner |-> 0]

Keys == {"valid", "wrong", "missing"}

(* The worker waits before the call its pc names.                          *)
WorkerState == [pc: {"idle", "policy", "markFailed", "mark", "check",
                     "report"},
                prod: Producers \cup {Nobody}, obj: Sapr, reason: ReadyReasons]
Idle == [pc |-> "idle", prod |-> Nobody, obj |-> NoSapr, reason |-> "none"]

TypeOK ==
  /\ sapr \in [Producers -> Sapr]
  /\ touched \subseteq Producers
  /\ policy \in [Producers -> Policy]
  /\ service \in [Services -> Targets \cup {NoTarget}]
  /\ key \in [Producers -> Keys]
  /\ up \subseteq Services
  /\ seenSapr \in [Producers -> Sapr]
  /\ seenPolicy \in [Producers -> Policy]
  /\ queue \subseteq Producers
  /\ enabled \in BOOLEAN
  /\ timer \subseteq Producers
  /\ w \in WorkerState
  /\ w.pc # "idle" => w.prod \in Producers
  /\ left \in Nat

-----------------------------------------------------------------------------
Init ==
  /\ sapr = [p \in Producers |-> NoSapr]
  /\ touched = {}
  /\ policy = [p \in Producers |-> NoPolicy]
  /\ service \in [Services -> Targets \cup {NoTarget}]
  /\ key \in [Producers -> Keys]
  /\ up = Services
  /\ seenSapr = sapr
  /\ seenPolicy = policy
  /\ queue = {}
  /\ enabled \in Settings
  /\ timer = {}
  /\ w = Idle
  /\ left = Budget

Spend(kind) ==
  /\ kind \in Disturbances
  /\ left > 0
  /\ left' = left - 1

(* A call may take effect (applied) only if it is possible; it may fail    *)
(* without effect, or after it (the answer is lost).                       *)
Call(possible, applied, ok) ==
  /\ applied => possible
  /\ ok => applied
  /\ IF possible /\ ~ok THEN Spend("fault") ELSE UNCHANGED left

-----------------------------------------------------------------------------
(* Parts of the actions.                                                   *)

GoTo(pc) == [w EXCEPT !.pc = pc]

(* [fault] The worker forgets the SAPR before it is queued again.          *)
RetryForgotten ==
  /\ w' = Idle
  /\ queue' = queue \cup {w'.prod}

(* The end of a reconcile by an error or a recovered panic: it is retried. *)
Retry ==
  /\ w' = Idle
  /\ queue' = queue \cup {w.prod}

(* What the probe meets: the endpoint's pods answer, let the API key pass, *)
(* and their ingress is open to the operator.  Clusters that enable        *)
(* policies deny what no policy allows (external).                         *)
Reachable(p, endpoint) ==
  /\ endpoint \in up
  /\ service[endpoint] # NoTarget
  /\ key[p] = "valid"
  /\ enabled => policy[p].target = service[endpoint]

SetPolicyCondition(cond, o, reason) ==
  [cond EXCEPT !.policy = [reason |-> reason, gen |-> o.gen]]
SetReadyCondition(cond, o, reason) ==
  [cond EXCEPT !.ready = [reason |-> reason, gen |-> o.gen]]

(* setAndPersist, from the object of the reconcile to the conditions cond.  *)
(* The conditions are one field of the patch, left out if they equal those *)
(* of the object; lastExecution is another, with a resolution of seconds:  *)
(* it changes if the clock is later than in the object.                    *)
Persist(cond, later, applied, ok) ==
  /\ Call(sapr[w.prod].present, applied, ok)
  /\ sapr' = IF applied /\ cond # w.obj.cond
             THEN [sapr EXCEPT ![w.prod].cond = cond] ELSE sapr
  /\ touched' = IF applied /\ later THEN touched \cup {w.prod} ELSE touched

(* The answer to a patch is decoded into the object: it is current again,  *)
(* but for a spec.http that is gone, which decoding does not clear.        *)
Refreshed ==
  [sapr'[w.prod] EXCEPT !.endpoint = IF @ = NoHttp THEN w.obj.endpoint ELSE @]

-----------------------------------------------------------------------------
(* Reconcile, one action per call.                                         *)

Dequeue(p) ==
  /\ w.pc = "idle"
  /\ p \in queue
  /\ queue' = queue \ {p}
  /\ w' = IF seenSapr[p].present
          THEN [Idle EXCEPT !.pc = "policy", !.prod = p, !.obj = seenSapr[p]]
          ELSE Idle
  /\ UNCHANGED <<clusterVars, outsideVars, cacheVars, timer, left>>

(* UpsertNetworkPolicy with policies disabled: a delete by name.           *)
DropPolicy(applied, ok) ==
  LET p == w.prod
  IN /\ w.pc = "policy"
     /\ ~enabled
     /\ IF policy[p] = NoPolicy THEN ~applied /\ ok /\ UNCHANGED left
                               ELSE Call(TRUE, applied, ok)
     /\ policy' = IF applied THEN [policy EXCEPT ![p] = NoPolicy] ELSE policy
     /\ w' = GoTo(IF ok THEN "mark" ELSE "markFailed")
     /\ UNCHANGED <<sapr, touched, outsideVars, cacheVars, queue, timer>>

(* generate dereferences a missing spec.http: the reconcile panics.        *)
GeneratePanics ==
  /\ w.pc = "policy"
  /\ enabled /\ w.obj.endpoint = NoHttp
  /\ Retry
  /\ UNCHANGED <<clusterVars, outsideVars, cacheVars, timer, left>>

(* generate finds no such service, or no such port.                        *)
GenerateFails ==
  /\ w.pc = "policy"
  /\ enabled /\ w.obj.endpoint # NoHttp
  /\ service[w.obj.endpoint] = NoTarget
  /\ w' = GoTo("markFailed")
  /\ UNCHANGED <<clusterVars, outsideVars, cacheVars, queue, timer, left>>

(* controllerutil.CreateOrUpdate, which takes the policy of that name over *)
(* whoever made it: nothing to write, or a write that conflicts unless the *)
(* cache is current.                                                       *)
UpsertPolicy(applied, ok) ==
  LET p == w.prod
      e == w.obj.endpoint
      wanted == [target |-> service[e], owner |-> w.obj.uid]
  IN /\ w.pc = "policy"
     /\ enabled /\ e # NoHttp
     /\ service[e] # NoTarget
     /\ IF seenPolicy[p] = wanted THEN ~applied /\ ok /\ UNCHANGED left
        ELSE Call(seenPolicy[p] = policy[p], applied, ok)
     /\ policy' = IF applied THEN [policy EXCEPT ![p] = wanted] ELSE policy
     /\ w' = GoTo(IF ok THEN "mark" ELSE "markFailed")
     /\ UNCHANGED <<sapr, touched, outsideVars, cacheVars, queue, timer>>

(* markNetpolFailed: both conditions, and an error in any case.            *)
MarkNetpolFailed(later, applied, ok) ==
  /\ w.pc = "markFailed"
  /\ LET failed == SetPolicyCondition(w.obj.cond, w.obj, "NetworkPolicyFailed")
     IN Persist(SetReadyCondition(failed, w.obj, "NetworkPolicyFailed"), later,
                applied, ok)
  /\ Retry
  /\ UNCHANGED <<policy, outsideVars, cacheVars, timer>>

MarkNetpolUpserted(later, applied, ok) ==
  /\ w.pc = "mark"
  /\ Persist(SetPolicyCondition(w.obj.cond, w.obj, "TargetStateReached"), later,
             applied, ok)
  /\ IF ok THEN w' = [w EXCEPT !.pc = "check", !.obj = Refreshed]
               /\ UNCHANGED queue
           ELSE Retry
  /\ UNCHANGED <<policy, outsideVars, cacheVars, timer>>

(* [fault] The key is resolved before the spec is checked.                 *)
ReadyReasonKeyFirst(endpoint, k, ok) ==
  CASE k = "missing" -> "AuthSecretNotFound"
    [] k # "missing" /\ endpoint = NoHttp -> "InvalidConfiguration"
    [] OTHER -> IF ok THEN "ProducerReady" ELSE "ConnectionFailed"

(* checkReady: the spec, then the key, then the answer of the endpoint.    *)
ReadyReason(endpoint, k, ok) ==
  CASE endpoint = NoHttp -> "InvalidConfiguration"
    [] endpoint # NoHttp /\ k = "missing" -> "AuthSecretNotFound"
    [] OTHER -> IF ok THEN "ProducerReady" ELSE "ConnectionFailed"

(* One HEAD request to the endpoint, unless the spec or the key is missing. *)
CheckReady(ok) ==
  LET p == w.prod
      e == w.obj.endpoint
  IN /\ w.pc = "check"
     /\ IF e = NoHttp \/ key[p] = "missing"
        THEN ~ok /\ UNCHANGED left
        ELSE Call(Reachable(p, e), ok, ok)
     /\ w' = [w EXCEPT !.pc = "report", !.reason = ReadyReason(e, key[p], ok)]
     /\ UNCHANGED <<clusterVars, outsideVars, cacheVars, queue, timer>>

(* [fault] The result of a reconcile asks for no other.                    *)
RequeueNever == FALSE

(* RequeueAfter: an interval of zero asks for nothing.                     *)
RequeueAfter == Periodic

(* markReady, markNotReady, and the result of the reconcile.               *)
Report(later, applied, ok) ==
  /\ w.pc = "report"
  /\ Persist(SetReadyCondition(w.obj.cond, w.obj, w.reason), later, applied, ok)
  /\ IF ok THEN w' = Idle /\ UNCHANGED queue ELSE Retry
  /\ timer' = IF ok /\ RequeueAfter THEN timer \cup {w.prod} ELSE timer
  /\ UNCHANGED <<policy, outsideVars, cacheVars>>

TimerFires(p) ==
  /\ p \in timer
  /\ timer' = timer \ {p}
  /\ queue' = queue \cup {p}
  /\ UNCHANGED <<clusterVars, outsideVars, cacheVars, w, left>>

-----------------------------------------------------------------------------
(* The informers.                                                          *)

(* [fault] GenerationChangedPredicate on the SAPRs: own patches are no      *)
(* events.                                                                 *)
NotifiesOfSpec(old, new) ==
  \/ old.present # new.present
  \/ old.uid # new.uid
  \/ old.gen # new.gen

(* For(SAPR) has no predicate: every update is an event, the controller's  *)
(* own patches included.                                                   *)
Notifies(old, new) == TRUE

SyncSapr(p) ==
  /\ seenSapr[p] # sapr[p] \/ p \in touched
  /\ seenSapr' = [seenSapr EXCEPT ![p] = sapr[p]]
  /\ touched' = touched \ {p}
  /\ queue' = IF Notifies(seenSapr[p], sapr[p]) THEN queue \cup {p} ELSE queue
  /\ UNCHANGED <<sapr, policy, outsideVars, seenPolicy, timer, w, left>>

(* Owns(NetworkPolicy) looks for a controller reference, SetOwnerReference *)
(* writes a plain one: changes of a policy reach nobody.                   *)
SyncPolicy(p) ==
  /\ seenPolicy[p] # policy[p]
  /\ seenPolicy' = [seenPolicy EXCEPT ![p] = policy[p]]
  /\ UNCHANGED <<clusterVars, outsideVars, seenSapr, queue, timer, w, left>>

-----------------------------------------------------------------------------
(* The environment.                                                        *)

(* The first SAPR of a name is free, applying it again is a disturbance.   *)
ApplyProducer(p) ==
  /\ ~sapr[p].present
  /\ IF sapr[p].uid = 0 THEN UNCHANGED left ELSE Spend("sapr")
  /\ \E endpoint \in Services \cup {NoHttp} :
       sapr' = [sapr EXCEPT ![p] = [NoSapr EXCEPT !.present = TRUE,
                                      !.uid = sapr[p].uid + 1, !.gen = 1,
                                      !.endpoint = endpoint]]
  /\ UNCHANGED <<touched, policy, outsideVars, cacheVars, queue, timer, w>>

ChangeProducer(p) ==
  /\ sapr[p].present
  /\ Spend("sapr")
  /\ \E endpoint \in Services \cup {NoHttp} :
       sapr' = [sapr EXCEPT ![p].gen = @ + 1, ![p].endpoint = endpoint]
  /\ UNCHANGED <<touched, policy, outsideVars, cacheVars, queue, timer, w>>

RemoveProducer(p) ==
  /\ sapr[p].present
  /\ Spend("sapr")
  /\ sapr' = [sapr EXCEPT ![p] = [NoSapr EXCEPT !.uid = sapr[p].uid]]
  /\ UNCHANGED <<touched, policy, outsideVars, cacheVars, queue, timer, w>>

(* The request controller stamps lastExecution when it deleted an account. *)
TouchProducer(p) ==
  /\ sapr[p].present
  /\ Spend("touch")
  /\ touched' = touched \cup {p}
  /\ UNCHANGED <<sapr, policy, outsideVars, cacheVars, queue, timer, w>>

(* A user writes or removes the policy.                                    *)
WritePolicy(p) ==
  /\ Spend("policy")
  /\ \E t \in Targets :
       policy' = [policy EXCEPT ![p].target = t]
  /\ UNCHANGED <<sapr, touched, outsideVars, cacheVars, queue, timer, w>>

RemovePolicy(p) ==
  /\ policy[p] # NoPolicy
  /\ Spend("policy")
  /\ policy' = [policy EXCEPT ![p] = NoPolicy]
  /\ UNCHANGED <<sapr, touched, outsideVars, cacheVars, queue, timer, w>>

(* The garbage collector removes what belongs to a SAPR that is gone.      *)
CollectGarbage(p) ==
  /\ policy[p].owner # 0
  /\ ~(sapr[p].present /\ sapr[p].uid = policy[p].owner)
  /\ policy' = [policy EXCEPT ![p] = NoPolicy]
  /\ UNCHANGED <<sapr, touched, outsideVars, cacheVars, queue, timer, w, left>>

(* Services and keys are read, not watched: their changes are no events.   *)
ChangeService(s) ==
  /\ Spend("service")
  /\ \E t \in Targets \cup {NoTarget} : service' = [service EXCEPT ![s] = t]
  /\ UNCHANGED <<clusterVars, key, up, enabled, cacheVars, queue, timer, w>>

ChangeKey(p) ==
  /\ Spend("key")
  /\ \E k \in Keys : key' = [key EXCEPT ![p] = k]
  /\ UNCHANGED <<clusterVars, service, up, enabled, cacheVars, queue, timer, w>>

StopService(s) ==
  /\ s \in up
  /\ Spend("outage")
  /\ up' = up \ {s}
  /\ UNCHANGED <<clusterVars, service, key, enabled, cacheVars, queue, timer,
                 w>>

StartService(s) ==
  /\ s \notin up
  /\ up' = up \cup {s}
  /\ UNCHANGED <<clusterVars, service, key, enabled, cacheVars, queue, timer, w,
                 left>>

(* The process ends at any step and starts anew, perhaps with another      *)
(* setting: timers and the queue are lost, the caches are filled and every *)
(* SAPR is an event.                                                       *)
Crash ==
  /\ Spend("crash")
  /\ w' = Idle
  /\ timer' = {}
  /\ touched' = {}
  /\ seenSapr' = sapr
  /\ seenPolicy' = policy
  /\ queue' = {p \in Producers : sapr[p].present}
  /\ enabled' \in Settings
  /\ UNCHANGED <<sapr, policy, service, key, up>>

-----------------------------------------------------------------------------
WorkerStep ==
  \/ GeneratePanics \/ GenerateFails
  \/ \E ok \in BOOLEAN : CheckReady(ok)
  \/ \E applied, ok \in BOOLEAN :
       DropPolicy(applied, ok) \/ UpsertPolicy(applied, ok)
  \/ \E later, applied, ok \in BOOLEAN :
       \/ MarkNetpolFailed(later, applied, ok)
       \/ MarkNetpolUpserted(later, applied, ok)
       \/ Report(later, applied, ok)

Environment ==
  \/ \E p \in Producers : \/ ApplyProducer(p) \/ ChangeProducer(p)
                          \/ RemoveProducer(p) \/ TouchProducer(p)
                          \/ WritePolicy(p) \/ RemovePolicy(p)
                          \/ CollectGarbage(p) \/ ChangeKey(p)
  \/ \E s \in Services : ChangeService(s) \/ StopService(s) \/ StartService(s)
  \/ Crash

Next ==
  \/ WorkerStep
  \/ \E p \in Producers : Dequeue(p) \/ TimerFires(p)
  \/ \E p \in Producers : SyncSapr(p) \/ SyncPolicy(p)
  \/ Environment

Spec == Init /\ [][Next]_vars

(* Fairness: a reconcile goes on, the queue hands out every SAPR it holds, *)
(* watches deliver, the interval passes and the garbage collector works.   *)
(* Nothing is assumed of users, of outages or of crashes.                  *)
Fairness ==
  /\ WF_vars(WorkerStep)
  /\ \A p \in Producers : /\ SF_vars(Dequeue(p)) /\ WF_vars(TimerFires(p))
                          /\ WF_vars(SyncSapr(p)) /\ WF_vars(SyncPolicy(p))
                          /\ WF_vars(CollectGarbage(p))

FairSpec == Spec /\ Fairness
=============================================================================
