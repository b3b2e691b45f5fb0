------------------------- MODULE ProducerProperties -------------------------
(***************************************************************************)
(* What the reconciliation of ServiceAccountProducers promises.            *)
(***************************************************************************)
EXTENDS ProducerController

(* Nothing is left to do but to wait for a timer.                          *)
Quiet ==
  /\ queue = {} /\ w.pc = "idle"
  /\ seenSapr = sapr /\ seenPolicy = policy /\ touched = {}

(* Once settled, both conditions were written for the current generation,  *)
(* and the one about the policy says that it was reached: a failure is     *)
(* retried.  It takes the events of the controller's own patches, because  *)
(* a patch relative to a late copy may be empty (setAndPersist).           *)
SettledStatus ==
  Quiet => \A p \in Producers :
             sapr[p].present =>
               /\ sapr[p].cond.ready.gen = sapr[p].gen
               /\ sapr[p].cond.policy = [reason |-> "TargetStateReached",
                                         gen |-> sapr[p].gen]

Reported(p, reason) ==
  sapr[p].present /\ sapr[p].cond.ready = [reason |-> reason, gen |-> sapr[p].gen]

(* A producer that stays reachable but for its policy is ready in the end, *)
(* and its policy is right, whoever changed the policy, the service or the *)
(* key without an event (UpsertNetworkPolicy, RequeueAfter).               *)
Servable(p) ==
  /\ sapr[p].present
  /\ sapr[p].endpoint # NoHttp /\ sapr[p].endpoint \in up
  /\ service[sapr[p].endpoint] # NoTarget
  /\ key[p] = "valid"

PolicyInPlace(p) ==
  IF enabled
  THEN /\ sapr[p].endpoint # NoHttp
       /\ policy[p] = [target |-> service[sapr[p].endpoint],
                       owner |-> sapr[p].uid]
  ELSE policy[p] = NoPolicy

EventuallyReady ==
  \A p \in Producers :
    <>[]Servable(p) => <>[](Reported(p, "ProducerReady") /\ PolicyInPlace(p))

(* A producer that stays out of reach stops being ready (checkReady,       *)
(* markNotReady, markNetpolFailed).                                        *)
OutageIsNoticed ==
  \A p \in Producers :
    <>[](sapr[p].present /\ sapr[p].endpoint # NoHttp /\ ~Servable(p))
      => <>[](sapr[p].cond.ready.reason # "ProducerReady")

(* A producer without spec.http is reported, whatever its key, as long as  *)
(* network policies are disabled (checkReady).                             *)
InvalidSpec(p) == sapr[p].present /\ sapr[p].endpoint = NoHttp

InvalidSpecIsReportedWithoutPolicies ==
  \A p \in Producers :
    <>[](InvalidSpec(p) /\ ~enabled) => <>[]Reported(p, "InvalidConfiguration")

-----------------------------------------------------------------------------
(* Why the status settles: an inductive invariant.  A reconcile decides on *)
(* a copy of the SAPR that may be late, and its patches are relative to    *)
(* that copy; when it is over, either the copy was current, or the cache   *)
(* still differs from the server and another event is on its way.          *)

StatusIsSettled(s) ==
  /\ s.cond.ready.gen = s.gen
  /\ s.cond.policy = [reason |-> "TargetStateReached", gen |-> s.gen]

(* Each SAPR of a name has a higher uid than the one before, each spec of  *)
(* a SAPR a higher generation.                                             *)
NotLaterThan(old, new) ==
  /\ old.uid <= new.uid
  /\ old.present /\ new.present /\ old.uid = new.uid => old.gen <= new.gen

(* Up to its first patch a reconcile works with what the cache shows, or   *)
(* the SAPR is queued again.                                               *)
ReconcilesCache ==
  w.pc \in {"policy", "markFailed", "mark"} =>
    w.prod \in queue \/ w.obj = seenSapr[w.prod]

(* After it the object has the conditions on the server, as nobody else    *)
(* writes them: they are what the cache shows and were right, or they are  *)
(* not what the cache shows.                                               *)
ReconcilesServer ==
  w.pc \in {"check", "report"} =>
    LET s == sapr[w.prod]
        seen == seenSapr[w.prod]
    IN /\ s.present /\ s.uid = w.obj.uid => s.cond = w.obj.cond
       /\ \/ w.prod \in queue
          \/ /\ NotLaterThan(seen, w.obj)
             /\ \/ seen.cond.policy.reason = "TargetStateReached"
                   /\ seen.cond.policy.gen = seen.gen
                \/ seen.cond.policy # w.obj.cond.policy

StatusDecided(p) ==
  \/ p \in queue
  \/ w.pc # "idle" /\ w.prod = p
  \/ seenSapr[p] # sapr[p]
  \/ sapr[p].present => StatusIsSettled(sapr[p])

StatusInv ==
  /\ w.pc # "idle" => w.obj.present /\ NotLaterThan(w.obj, sapr[w.prod])
  /\ ReconcilesCache /\ ReconcilesServer
  /\ \A p \in Producers :
       NotLaterThan(seenSapr[p], sapr[p]) /\ StatusDecided(p)

-----------------------------------------------------------------------------
(* What the documentation and tests say and the code does not keep.        *)

(* controller_test.go:185: a producer without spec.http is reported.  With *)
(* network policies enabled the upserter panics before that                *)
(* (parseServiceNameAndPortFromEndpointUrl).                               *)
InvalidSpecIsReported ==
  \A p \in Producers :
    <>[]InvalidSpec(p) => <>[]Reported(p, "InvalidConfiguration")

(* config.go:47: an interval of 0 disables periodic reconciliation.  Every *)
(* reconcile stamps lastExecution, which is an event for the next one      *)
(* whenever the clock has reached the next second (SetupWithManager).  Only *)
(* of producers that can be served, as others are retried by design.       *)
ComesToRest ==
  (\A p \in Producers : <>[]Servable(p)) => <>[](w.pc = "idle" /\ queue = {})
=============================================================================
