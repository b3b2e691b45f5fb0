------------------------ MODULE ProducerStatusProofs ------------------------
(***************************************************************************)
(* The status of a SAPR settles: StatusInv is an inductive invariant of    *)
(* ProducerController and implies SettledStatus.                           *)
(***************************************************************************)
EXTENDS ProducerProperties, ProducerProofs

(* The fields of the SAPRs the invariant compares.                         *)
LEMMA SaprFields ==
  ASSUME TypeOK
  PROVE  /\ \A p \in Producers :
              /\ sapr[p].uid \in Nat /\ sapr[p].gen \in Nat
              /\ sapr[p].present \in BOOLEAN
              /\ seenSapr[p].uid \in Nat /\ seenSapr[p].gen \in Nat
              /\ seenSapr[p].present \in BOOLEAN
         /\ w.obj.uid \in Nat /\ w.obj.gen \in Nat /\ w.obj.present \in BOOLEAN
BY DEF TypeOK, Sapr, WorkerState

-----------------------------------------------------------------------------
(* Steps that change neither a SAPR nor what the cache shows of it.        *)

(* The worker rests: timers, policies, services and keys.                  *)
LEMMA ElsewhereFrame ==
  ASSUME StatusInv, UNCHANGED <<sapr, seenSapr, w>>, queue \subseteq queue'
  PROVE  StatusInv'
BY DEF StatusInv, ReconcilesCache, ReconcilesServer, StatusDecided,
       StatusIsSettled, NotLaterThan

(* The worker goes on with the object it has: the policy is upserted or    *)
(* dropped, the endpoint is probed.                                        *)
LEMMA WorkerFrame ==
  ASSUME StatusInv, UNCHANGED <<sapr, seenSapr, queue>>,
         w'.prod = w.prod, w'.obj = w.obj,
         \/ w.pc = "policy" /\ w'.pc \in {"markFailed", "mark"}
         \/ w.pc = "check" /\ w'.pc = "report"
  PROVE  StatusInv'
<1>1. /\ w.pc # "idle" /\ w'.pc # "idle"
      /\ w'.pc \in {"policy", "markFailed", "mark"}
           => w.pc \in {"policy", "markFailed", "mark"}
      /\ w'.pc \in {"check", "report"} => w.pc \in {"check", "report"}
  OBVIOUS
<1>2. ReconcilesCache'
  BY <1>1 DEF StatusInv, ReconcilesCache
<1>3. ReconcilesServer'
  BY <1>1 DEF StatusInv, ReconcilesServer, NotLaterThan
<1>4. \A p \in Producers : StatusDecided(p)'
  BY <1>1 DEF StatusInv, StatusDecided, StatusIsSettled
<1>5. \A p \in Producers : NotLaterThan(seenSapr[p], sapr[p])'
  BY DEF StatusInv, NotLaterThan
<1>6. w'.obj.present /\ NotLaterThan(w.obj, sapr[w.prod])'
  BY <1>1 DEF StatusInv, NotLaterThan
<1> QED
  BY <1>2, <1>3, <1>4, <1>5, <1>6 DEF StatusInv

-----------------------------------------------------------------------------
(* Steps that end a reconcile or patch the status.                         *)

(* setAndPersist changes nothing but the conditions of its SAPR.           *)
LEMMA PersistFrame ==
  ASSUME TypeOK, w.pc # "idle", NEW cond, NEW later, NEW applied, NEW ok,
         Persist(cond, later, applied, ok)
  PROVE  /\ \A p \in Producers :
              /\ sapr'[p].uid = sapr[p].uid /\ sapr'[p].gen = sapr[p].gen
              /\ sapr'[p].present = sapr[p].present
              /\ p # w.prod => sapr'[p] = sapr[p]
         /\ ok => /\ sapr[w.prod].present
                  /\ IF cond # w.obj.cond THEN sapr'[w.prod].cond = cond
                     ELSE sapr' = sapr
<1>1. w.prod \in Producers
  BY DEF TypeOK
<1>2. sapr' = sapr \/ sapr' = [sapr EXCEPT ![w.prod].cond = cond]
  BY DEF Persist
<1>3. /\ \A p \in Producers :
              /\ sapr'[p].uid = sapr[p].uid /\ sapr'[p].gen = sapr[p].gen
              /\ sapr'[p].present = sapr[p].present
              /\ p # w.prod => sapr'[p] = sapr[p]
  BY <1>1, <1>2 DEF TypeOK, Sapr
<1>4. ok => sapr[w.prod].present
  BY DEF Persist, Call
<1>5. ok => IF cond # w.obj.cond THEN sapr'[w.prod].cond = cond
            ELSE sapr' = sapr
  BY <1>1 DEF Persist, Call, TypeOK, Sapr
<1> QED
  BY <1>3, <1>4, <1>5

(* A reconcile that ends in an error or a panic is queued again, whatever  *)
(* became of its patch.                                                    *)
LEMMA RetryFrame ==
  ASSUME TypeOK, StatusInv, w.pc # "idle", UNCHANGED seenSapr, Retry,
         \A p \in Producers :
              /\ sapr'[p].uid = sapr[p].uid /\ sapr'[p].gen = sapr[p].gen
              /\ sapr'[p].present = sapr[p].present
              /\ p # w.prod => sapr'[p] = sapr[p]
  PROVE  StatusInv'
<1>1. w'.pc = "idle" /\ w.prod \in queue' /\ queue \subseteq queue'
  BY DEF Retry, Idle
<1>2. \A p \in Producers : NotLaterThan(seenSapr[p], sapr[p])'
  BY DEF StatusInv, NotLaterThan
<1>3. \A p \in Producers : StatusDecided(p)'
  BY <1>1 DEF StatusInv, StatusDecided, StatusIsSettled
<1> QED
  BY <1>1, <1>2, <1>3 DEF StatusInv, ReconcilesCache, ReconcilesServer

(* MarkNetpolUpserted succeeds: the object becomes the one on the server.  *)
LEMMA MarkKeepsStatusInv ==
  ASSUME TypeOK, StatusInv, NEW later \in BOOLEAN, NEW applied \in BOOLEAN,
         MarkNetpolUpserted(later, applied, TRUE)
  PROVE  StatusInv'
<1> DEFINE p == w.prod
           cond == SetPolicyCondition(w.obj.cond, w.obj, "TargetStateReached")
<1>1. /\ w.pc = "mark" /\ p \in Producers /\ p' = p
      /\ w' = [w EXCEPT !.pc = "check", !.obj = Refreshed]
      /\ UNCHANGED <<seenSapr, queue>>
      /\ Persist(cond, later, applied, TRUE)
  BY DEF MarkNetpolUpserted, TypeOK, cacheVars, WorkerState
<1>2. /\ cond.policy = [reason |-> "TargetStateReached", gen |-> w.obj.gen]
      /\ cond.policy = w.obj.cond.policy => cond = w.obj.cond
  BY DEF TypeOK, WorkerState, Sapr, Conditions, SetPolicyCondition
<1> HIDE DEF cond
<1>3. /\ \A q \in Producers :
              /\ sapr'[q].uid = sapr[q].uid /\ sapr'[q].gen = sapr[q].gen
              /\ sapr'[q].present = sapr[q].present
              /\ q # p => sapr'[q] = sapr[q]
      /\ sapr[p].present
      /\ IF cond # w.obj.cond THEN sapr'[p].cond = cond ELSE sapr' = sapr
  BY <1>1, PersistFrame
<1>4. sapr' \in [Producers -> Sapr]
  BY ReportTypes DEF TypeOK
<1>5. /\ w'.pc = "check" /\ w'.prod = p
      /\ w'.obj.uid = sapr'[p].uid /\ w'.obj.gen = sapr'[p].gen
      /\ w'.obj.present = sapr'[p].present /\ w'.obj.cond = sapr'[p].cond
  BY <1>1, <1>4 DEF TypeOK, WorkerState, Refreshed, Sapr
<1>6. w'.obj.present /\ NotLaterThan(w.obj, sapr[p])'
  BY <1>1, <1>3, <1>4, <1>5 DEF NotLaterThan, Sapr
<1>7. ReconcilesServer'
  <2>1. p \in queue' \/ w.obj = seenSapr[p]
    BY <1>1 DEF StatusInv, ReconcilesCache
  <2>2. NotLaterThan(seenSapr[p], w.obj)'
    BY <1>1, <1>3, <1>5 DEF StatusInv, NotLaterThan
  <2>3. p \in queue' \/ seenSapr'[p].cond.policy # w'.obj.cond.policy
          \/ seenSapr'[p].cond.policy
               = [reason |-> "TargetStateReached", gen |-> seenSapr'[p].gen]
    BY <1>1, <1>2, <1>3, <1>5, <2>1
  <2>4. (sapr[p].present /\ sapr[p].uid = w.obj.uid
           => sapr[p].cond = w.obj.cond)'
    BY <1>1, <1>5
  <2> QED
    BY <1>1, <1>5, <2>2, <2>3, <2>4 DEF ReconcilesServer
<1>8. \A q \in Producers : (NotLaterThan(seenSapr[q], sapr[q])
                            /\ StatusDecided(q))'
  BY <1>1, <1>3, <1>5 DEF StatusInv, NotLaterThan, StatusDecided,
                          StatusIsSettled
<1> QED
  BY <1>1, <1>5, <1>6, <1>7, <1>8 DEF StatusInv, ReconcilesCache

(* The report succeeds: if nothing else is on its way, the cache showed    *)
(* what is on the server all the time, and both conditions are right.      *)
LEMMA ReportKeepsStatusInv ==
  ASSUME TypeOK, StatusInv, NEW later \in BOOLEAN, NEW applied \in BOOLEAN,
         Report(later, applied, TRUE)
  PROVE  StatusInv'
<1> DEFINE p == w.prod
           cond == SetReadyCondition(w.obj.cond, w.obj, w.reason)
<1>1. /\ w.pc = "report" /\ p \in Producers /\ w'.pc = "idle"
      /\ UNCHANGED <<seenSapr, queue>>
      /\ Persist(cond, later, applied, TRUE)
  <2>1. w.pc = "report" /\ Persist(cond, later, applied, TRUE)
    BY DEF Report
  <2>2. w' = Idle /\ UNCHANGED <<seenSapr, queue>>
    BY DEF Report, cacheVars
  <2> QED
    BY <2>1, <2>2 DEF TypeOK, Idle
<1>2. cond.policy = w.obj.cond.policy /\ cond.ready.gen = w.obj.gen
  BY DEF TypeOK, WorkerState, Sapr, Conditions, SetReadyCondition
<1> HIDE DEF cond
<1>3. /\ \A q \in Producers :
              /\ sapr'[q].uid = sapr[q].uid /\ sapr'[q].gen = sapr[q].gen
              /\ sapr'[q].present = sapr[q].present
              /\ q # p => sapr'[q] = sapr[q]
      /\ sapr[p].present
      /\ IF cond # w.obj.cond THEN sapr'[p].cond = cond ELSE sapr' = sapr
  BY <1>1, PersistFrame
<1>4. \A q \in Producers : NotLaterThan(seenSapr[q], sapr[q])'
  BY <1>1, <1>3 DEF StatusInv, NotLaterThan
<1>5. ASSUME p \notin queue', seenSapr'[p] = sapr'[p], sapr'[p].present
      PROVE  StatusIsSettled(sapr'[p])
  <2>1. /\ NotLaterThan(seenSapr[p], w.obj)
        /\ NotLaterThan(w.obj, sapr[p])
        /\ w.obj.present
        /\ sapr[p].present /\ sapr[p].uid = w.obj.uid
             => sapr[p].cond = w.obj.cond
        /\ \/ seenSapr[p].cond.policy.reason = "TargetStateReached"
              /\ seenSapr[p].cond.policy.gen = seenSapr[p].gen
           \/ seenSapr[p].cond.policy # w.obj.cond.policy
    BY <1>1, <1>5 DEF StatusInv, ReconcilesServer
  <2>2. /\ seenSapr[p].present /\ sapr[p].present
        /\ seenSapr[p].uid = sapr[p].uid /\ seenSapr[p].gen = sapr[p].gen
    BY <1>1, <1>3, <1>5
  <2>3. w.obj.uid = sapr[p].uid /\ w.obj.gen = sapr[p].gen
    BY <1>1, <2>1, <2>2, SaprFields DEF NotLaterThan
  <2>4. sapr'[p].cond = cond
    BY <1>1, <1>3, <2>1, <2>2, <2>3
  <2>5. /\ sapr'[p].cond.ready.gen = sapr'[p].gen
        /\ sapr'[p].cond.policy.reason = "TargetStateReached"
        /\ sapr'[p].cond.policy.gen = sapr'[p].gen
    BY <1>1, <1>2, <1>3, <1>5, <2>1, <2>3, <2>4
  <2>6. sapr'[p].cond.policy \in [reason: PolicyReasons, gen: Nat]
    BY <1>1, ReportTypes DEF TypeOK, Sapr, Conditions
  <2>7. sapr'[p].cond.policy
          = [reason |-> "TargetStateReached", gen |-> sapr'[p].gen]
    BY <2>5, <2>6
  <2> QED
    BY <2>5, <2>7 DEF StatusIsSettled
<1>6. ASSUME NEW q \in Producers
      PROVE  StatusDecided(q)'
  <2>1. CASE q = p
    BY <1>5, <2>1 DEF StatusDecided, StatusIsSettled
  <2>2. CASE q # p
    <3>1. sapr'[q] = sapr[q] /\ StatusDecided(q)
      BY <1>3, <2>2 DEF StatusInv
    <3> QED
      BY <1>1, <2>2, <3>1 DEF StatusDecided, StatusIsSettled
  <2> QED
    BY <2>1, <2>2
<1> QED
  BY <1>1, <1>4, <1>6 DEF StatusInv, ReconcilesCache, ReconcilesServer

-----------------------------------------------------------------------------
(* Informers, users and restarts.                                          *)

(* Every update of a SAPR is an event (SetupWithManager: no predicate).    *)
LEMMA SyncKeepsStatusInv ==
  ASSUME TypeOK, StatusInv, NEW p \in Producers, SyncSapr(p)
  PROVE  StatusInv'
<1>1. /\ UNCHANGED <<sapr, w>>
      /\ seenSapr' = [seenSapr EXCEPT ![p] = sapr[p]]
      /\ queue' = queue \cup {p}
  BY DEF SyncSapr, Notifies
<1>2. \A q \in Producers : q # p => seenSapr'[q] = seenSapr[q]
  BY <1>1 DEF TypeOK
<1>3. seenSapr'[p] = sapr'[p]
  BY <1>1 DEF TypeOK
<1>4. \A q \in Producers : NotLaterThan(seenSapr[q], sapr[q])'
  BY <1>1, <1>2, <1>3, SaprFields DEF StatusInv, NotLaterThan
<1>5. \A q \in Producers : StatusDecided(q)'
  BY <1>1, <1>2 DEF StatusInv, StatusDecided, StatusIsSettled
<1>6. w.pc # "idle" => w.prod \in Producers
  BY DEF TypeOK
<1>7. ReconcilesCache'
  BY <1>1, <1>2, <1>6 DEF StatusInv, ReconcilesCache
<1>8. ReconcilesServer'
  BY <1>1, <1>2, <1>6 DEF StatusInv, ReconcilesServer, NotLaterThan
<1>9. w'.pc # "idle" => w'.obj.present /\ NotLaterThan(w.obj, sapr[w.prod])'
  BY <1>1 DEF StatusInv, NotLaterThan
<1> QED
  BY <1>4, <1>5, <1>7, <1>8, <1>9 DEF StatusInv

(* A SAPR that is taken up is reconciled as the cache shows it.            *)
LEMMA DequeueKeepsStatusInv ==
  ASSUME TypeOK, StatusInv, NEW p \in Producers, Dequeue(p)
  PROVE  StatusInv'
<1>1. /\ w.pc = "idle" /\ queue' = queue \ {p}
      /\ UNCHANGED <<sapr, seenSapr>>
  BY DEF Dequeue, clusterVars, cacheVars
<1>2. \A q \in Producers : NotLaterThan(seenSapr[q], sapr[q])'
  BY <1>1 DEF StatusInv, NotLaterThan
<1>3. \A q \in Producers : q # p => StatusDecided(q)'
  BY <1>1 DEF StatusInv, StatusDecided, StatusIsSettled
<1>4. CASE seenSapr[p].present
  <2>1. w'.pc = "policy" /\ w'.prod = p /\ w'.obj = seenSapr[p]
    BY <1>4 DEF Dequeue, Idle
  <2>2. StatusDecided(p)'
    BY <2>1 DEF StatusDecided
  <2>3. w'.obj.present /\ NotLaterThan(w.obj, sapr[w.prod])'
    BY <1>1, <1>2, <1>4, <2>1 DEF NotLaterThan
  <2> QED
    BY <1>1, <1>2, <1>3, <2>1, <2>2, <2>3
       DEF StatusInv, ReconcilesCache, ReconcilesServer
<1>5. CASE ~seenSapr[p].present
  <2>1. w'.pc = "idle"
    BY <1>5 DEF Dequeue, Idle
  <2>2. StatusDecided(p)'
    BY <1>1, <1>5 DEF StatusDecided
  <2> QED
    BY <1>2, <1>3, <2>1, <2>2 DEF StatusInv, ReconcilesCache, ReconcilesServer
<1> QED
  BY <1>4, <1>5

(* What users do to a SAPR makes it differ from all that was seen of it.   *)
Changed(old, new) ==
  /\ new.uid >= old.uid
  /\ \/ ~new.present
     \/ new.uid > old.uid
     \/ old.present /\ new.gen > old.gen /\ new.cond = old.cond

(* Such a change keeps StatusInv: nothing is settled until it is seen.     *)
LEMMA ChangeFrame ==
  ASSUME TypeOK, StatusInv, sapr' \in [Producers -> Sapr],
         UNCHANGED <<seenSapr, queue, w>>, NEW p \in Producers,
         Changed(sapr[p], sapr'[p]),
         \A q \in Producers \ {p} : sapr'[q] = sapr[q]
  PROVE  StatusInv'
<1>1. sapr'[p].uid \in Nat /\ sapr'[p].gen \in Nat /\ sapr'[p].present \in BOOLEAN
  BY DEF Sapr
<1>2. \A old : old.uid \in Nat /\ old.gen \in Nat /\ NotLaterThan(old, sapr[p])
                /\ old.present \in BOOLEAN
        => /\ NotLaterThan(old, sapr'[p])
           /\ sapr'[p].present /\ old.present /\ sapr'[p].uid = old.uid
                => sapr'[p].gen > old.gen /\ sapr[p].present
                   /\ sapr[p].uid = old.uid /\ sapr'[p].cond = sapr[p].cond
  BY <1>1, SaprFields DEF NotLaterThan, Changed
<1>3. \A q \in Producers : NotLaterThan(seenSapr[q], sapr[q])'
  <2>1. NotLaterThan(seenSapr[p], sapr'[p])
    BY <1>2, SaprFields DEF StatusInv
  <2>2. \A q \in Producers : NotLaterThan(seenSapr[q], sapr'[q])
    BY <2>1 DEF StatusInv
  <2> QED
    BY <2>2 DEF NotLaterThan
<1>4. StatusDecided(p)'
  <2>1. sapr'[p].present => sapr'[p] # seenSapr[p]
    BY <1>1, <1>2, SaprFields DEF StatusInv
  <2> QED
    BY <2>1 DEF StatusDecided
<1>5. \A q \in Producers : StatusDecided(q)'
  BY <1>4 DEF StatusInv, StatusDecided, StatusIsSettled
<1>6. w.pc # "idle" => w.prod \in Producers
  BY DEF TypeOK
<1>7. w.pc # "idle" => /\ w.obj.present /\ NotLaterThan(w.obj, sapr'[w.prod])
                       /\ sapr'[w.prod].present /\ sapr'[w.prod].uid = w.obj.uid
                            => /\ sapr[w.prod].present
                               /\ sapr[w.prod].uid = w.obj.uid
                               /\ sapr'[w.prod].cond = sapr[w.prod].cond
  <2>1. CASE w.prod = p
    BY <1>2, <2>1, SaprFields DEF StatusInv
  <2>2. CASE w.prod # p
    BY <1>6, <2>2 DEF StatusInv
  <2> QED
    BY <2>1, <2>2
<1>8. ReconcilesServer'
  BY <1>7 DEF StatusInv, ReconcilesServer, NotLaterThan
<1>9. ReconcilesCache'
  BY DEF StatusInv, ReconcilesCache
<1>10. w'.pc # "idle" => w'.obj.present /\ NotLaterThan(w.obj, sapr[w.prod])'
  BY <1>7 DEF NotLaterThan
<1> QED
  BY <1>3, <1>5, <1>8, <1>9, <1>10 DEF StatusInv

(* Users apply, change and delete SAPRs.                                   *)
LEMMA UsersKeepStatusInv ==
  ASSUME TypeOK, StatusInv, NEW p \in Producers,
         ApplyProducer(p) \/ ChangeProducer(p) \/ RemoveProducer(p)
  PROVE  StatusInv'
<1>1. sapr' \in [Producers -> Sapr]
  BY SaprTypes DEF TypeOK
<1>2. UNCHANGED <<seenSapr, queue, w>>
  BY DEF ApplyProducer, ChangeProducer, RemoveProducer, cacheVars
<1>3. /\ Changed(sapr[p], sapr'[p])
      /\ \A q \in Producers \ {p} : sapr'[q] = sapr[q]
  <2>1. CASE ApplyProducer(p)
    <3>1. PICK endpoint \in Services \cup {NoHttp} :
            sapr' = [sapr EXCEPT ![p] = [NoSapr EXCEPT !.present = TRUE,
                                           !.uid = sapr[p].uid + 1, !.gen = 1,
                                           !.endpoint = endpoint]]
      BY <2>1 DEF ApplyProducer
    <3>2. sapr'[p].uid = sapr[p].uid + 1
      BY <3>1 DEF TypeOK, NoSapr
    <3> QED
      BY <3>1, <3>2, SaprFields DEF TypeOK, Changed
  <2>2. CASE ChangeProducer(p)
    <3>1. PICK endpoint \in Services \cup {NoHttp} :
            sapr' = [sapr EXCEPT ![p].gen = @ + 1, ![p].endpoint = endpoint]
      BY <2>2 DEF ChangeProducer
    <3>2. /\ sapr'[p].gen = sapr[p].gen + 1 /\ sapr'[p].uid = sapr[p].uid
          /\ sapr'[p].cond = sapr[p].cond
          /\ \A q \in Producers \ {p} : sapr'[q] = sapr[q]
      BY <3>1 DEF TypeOK, Sapr
    <3>3. sapr[p].present
      BY <2>2 DEF ChangeProducer
    <3> QED
      BY <3>2, <3>3, SaprFields DEF Changed
  <2>3. CASE RemoveProducer(p)
    <3>1. sapr' = [sapr EXCEPT ![p] = [NoSapr EXCEPT !.uid = sapr[p].uid]]
      BY <2>3 DEF RemoveProducer
    <3>2. sapr'[p].uid = sapr[p].uid /\ ~sapr'[p].present
      BY <3>1 DEF TypeOK, NoSapr
    <3> QED
      BY <3>1, <3>2, SaprFields DEF TypeOK, Changed
  <2> QED
    BY <2>1, <2>2, <2>3
<1> QED
  BY <1>1, <1>2, <1>3, ChangeFrame

(* A restart queues every SAPR there is.                                   *)
LEMMA CrashKeepsStatusInv ==
  ASSUME TypeOK, Crash
  PROVE  StatusInv'
<1>1. /\ w'.pc = "idle" /\ sapr' = sapr /\ seenSapr' = sapr
      /\ queue' = {p \in Producers : sapr[p].present}
  BY DEF Crash, Idle
<1>2. \A p \in Producers : StatusDecided(p)'
  BY <1>1 DEF StatusDecided
<1>3. \A p \in Producers : NotLaterThan(seenSapr[p], sapr[p])'
  BY <1>1, SaprFields DEF NotLaterThan
<1> QED
  BY <1>1, <1>2, <1>3 DEF StatusInv, ReconcilesCache, ReconcilesServer

(* The steps of a reconcile, one by one.                                   *)
LEMMA WorkerKeepsStatusInv ==
  ASSUME TypeOK, StatusInv, WorkerStep
  PROVE  StatusInv'
<1> USE DEF clusterVars, outsideVars, cacheVars
<1>1. CASE GeneratePanics
  BY <1>1, RetryFrame DEF GeneratePanics
<1>2. CASE GenerateFails
  <2>1. w.pc = "policy" /\ w' = GoTo("markFailed")
        /\ UNCHANGED <<sapr, seenSapr, queue>>
    BY <1>2 DEF GenerateFails
  <2> QED
    BY <2>1, WorkerFrame DEF TypeOK, WorkerState, GoTo
<1>3. ASSUME NEW ok \in BOOLEAN, CheckReady(ok)
      PROVE  StatusInv'
  <2>1. /\ w.pc = "check" /\ w'.pc = "report"
        /\ w'.prod = w.prod /\ w'.obj = w.obj
        /\ UNCHANGED <<sapr, seenSapr, queue>>
    BY <1>3 DEF CheckReady, TypeOK, WorkerState
  <2> QED
    BY <2>1, WorkerFrame
<1>4. ASSUME NEW applied \in BOOLEAN, NEW ok \in BOOLEAN,
             DropPolicy(applied, ok) \/ UpsertPolicy(applied, ok)
      PROVE  StatusInv'
  <2>1. /\ w.pc = "policy"
        /\ w' = GoTo("mark") \/ w' = GoTo("markFailed")
        /\ UNCHANGED <<sapr, seenSapr, queue>>
    BY <1>4 DEF DropPolicy, UpsertPolicy
  <2>2. /\ w'.pc \in {"markFailed", "mark"}
        /\ w'.prod = w.prod /\ w'.obj = w.obj
    BY <2>1 DEF TypeOK, WorkerState, GoTo
  <2> QED
    BY <2>1, <2>2, WorkerFrame
<1>5. ASSUME NEW later \in BOOLEAN, NEW applied \in BOOLEAN,
             NEW ok \in BOOLEAN, MarkNetpolFailed(later, applied, ok)
      PROVE  StatusInv'
  <2>1. PICK cond : Persist(cond, later, applied, ok)
    BY <1>5 DEF MarkNetpolFailed
  <2>2. w.pc # "idle" /\ Retry /\ UNCHANGED seenSapr
    BY <1>5 DEF MarkNetpolFailed
  <2> QED
    BY <2>1, <2>2, PersistFrame, RetryFrame
<1>6. ASSUME NEW later \in BOOLEAN, NEW applied \in BOOLEAN,
             NEW ok \in BOOLEAN, MarkNetpolUpserted(later, applied, ok)
      PROVE  StatusInv'
  <2>1. CASE ok
    BY <1>6, <2>1, MarkKeepsStatusInv
  <2>2. CASE ~ok
    <3>1. PICK cond : Persist(cond, later, applied, ok)
      BY <1>6 DEF MarkNetpolUpserted
    <3>2. w.pc # "idle" /\ Retry /\ UNCHANGED seenSapr
      BY <1>6, <2>2 DEF MarkNetpolUpserted
    <3> QED
      BY <3>1, <3>2, PersistFrame, RetryFrame
  <2> QED
    BY <2>1, <2>2
<1>7. ASSUME NEW later \in BOOLEAN, NEW applied \in BOOLEAN,
             NEW ok \in BOOLEAN, Report(later, applied, ok)
      PROVE  StatusInv'
  <2>1. CASE ok
    BY <1>7, <2>1, ReportKeepsStatusInv
  <2>2. CASE ~ok
    <3>1. PICK cond : Persist(cond, later, applied, ok)
      BY <1>7 DEF Report
    <3>2. w.pc # "idle" /\ Retry /\ UNCHANGED seenSapr
      BY <1>7, <2>2 DEF Report
    <3> QED
      BY <3>1, <3>2, PersistFrame, RetryFrame
  <2> QED
    BY <2>1, <2>2
<1> QED
  BY <1>1, <1>2, <1>3, <1>4, <1>5, <1>6, <1>7 DEF WorkerStep

-----------------------------------------------------------------------------
(* At every step: what a reconcile decided on a late copy is decided       *)
(* again, or the copy was current (Reconcile, setAndPersist).              *)
THEOREM StatusInvHolds == Spec => []StatusInv
<1>1. Init => StatusInv
  <2> SUFFICES ASSUME Init
               PROVE  StatusInv
    OBVIOUS
  <2>1. w.pc = "idle" /\ seenSapr = sapr
        /\ \A p \in Producers : ~sapr[p].present /\ sapr[p].uid = 0
    BY DEF Init, Idle, NoSapr
  <2> QED
    BY <2>1 DEF StatusInv, ReconcilesCache, ReconcilesServer, NotLaterThan,
                StatusDecided
<1>2. TypeOK /\ StatusInv /\ [Next]_vars => StatusInv'
  <2> SUFFICES ASSUME TypeOK, StatusInv, [Next]_vars
               PROVE  StatusInv'
    OBVIOUS
  <2> USE DEF clusterVars, outsideVars, cacheVars
  <2>1. CASE WorkerStep
    BY <2>1, WorkerKeepsStatusInv
  <2>2. ASSUME NEW p \in Producers,
               \/ TimerFires(p) \/ SyncPolicy(p) \/ TouchProducer(p)
               \/ WritePolicy(p) \/ RemovePolicy(p) \/ CollectGarbage(p)
               \/ ChangeKey(p)
        PROVE  StatusInv'
    <3>1. UNCHANGED <<sapr, seenSapr, w>> /\ queue \subseteq queue'
      BY <2>2 DEF TimerFires, SyncPolicy, TouchProducer, WritePolicy,
                  RemovePolicy, CollectGarbage, ChangeKey
    <3> QED
      BY <3>1, ElsewhereFrame
  <2>3. ASSUME NEW s \in Services,
               ChangeService(s) \/ StopService(s) \/ StartService(s)
        PROVE  StatusInv'
    <3>1. UNCHANGED <<sapr, seenSapr, w, queue>>
      BY <2>3 DEF ChangeService, StopService, StartService
    <3> QED
      BY <3>1, ElsewhereFrame
  <2>4. CASE UNCHANGED vars
    BY <2>4, ElsewhereFrame DEF vars
  <2> QED
    BY <2>1, <2>2, <2>3, <2>4, DequeueKeepsStatusInv, SyncKeepsStatusInv,
       UsersKeepStatusInv, CrashKeepsStatusInv DEF Next, Environment
<1> QED
  BY <1>1, <1>2, ProducerTypeCorrect, PTL DEF Spec

(* Once settled, both conditions tell of the current generation and the    *)
(* policy of a present SAPR was brought to its target: patches relative to *)
(* a late copy and lost answers are made up for by the events of the       *)
(* controller's own patches (markReady, markNotReady, setAndPersist).      *)
THEOREM StatusSettles == Spec => []SettledStatus
<1>1. StatusInv => SettledStatus
  BY DEF StatusInv, StatusDecided, StatusIsSettled, SettledStatus, Quiet
<1> QED
  BY <1>1, StatusInvHolds, PTL
=============================================================================
