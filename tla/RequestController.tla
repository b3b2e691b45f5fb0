------------------------- MODULE RequestController -------------------------
(***************************************************************************)
(* The controller that reconciles ServiceAccountRequests (SAREs):          *)
(* internal/controller/request, internal/serviceaccount and the producer   *)
(* client of internal/producer, together with what they talk to.           *)
(*                                                                         *)
(*   worker     one reconcile at a time, one step per call it makes        *)
(*   rotation   a cron watcher per SARE whose job deletes the secret       *)
(*   informers  the caches the controller READS; they lag behind the API   *)
(*              server it WRITES to, each object on its own                *)
(*   producers  the HTTP services that own the accounts (external)         *)
(*   users      apply, change and delete resources; the process may crash  *)
(***************************************************************************)
EXTENDS Naturals, FiniteSets, SareStatus

CONSTANTS
  Requests,      \* names of ServiceAccountRequests
  Producers,     \* names of ServiceAccountProducers (SAPRs)
  SecretNames,   \* names of credential secrets
  ProducerOf,    \* spec.producer of a SARE
  SecretNameOf,  \* resolveSecretName of a SARE
  Legacy,        \* the SAREs of dogus (labelled with the dogu's name)
  Attributes,    \* names of the values a credential consists of
  Returned,      \* the attributes a SAPR declares in spec.http.return
  Rotations,     \* values of spec.rotation: "off", "on", "invalid"
  Optionals,     \* values of spec.optional
  Creds,         \* values of credentials
  V2Cred,        \* the credential a legacy account starts with
  NoCred,        \* no account, no credential
  Foreign,       \* owner of secrets nobody here created
  Nobody,        \* no owner, no request
  Disturbances,  \* the kinds of disturbance that may happen
  Budget         \* bound: how many of them happen in a behaviour

(* Lost calls and answers, crashes, due cron expressions, changes of specs, *)
(* of secrets, of SAPRs and of migration secrets, outages of a producer.   *)
Kinds == {"fault", "crash", "tick", "spec", "secret", "sapr", "migration",
          "outage"}

ASSUME NamesAssumption ==
  /\ ProducerOf \in [Requests -> Producers]
  /\ SecretNameOf \in [Requests -> SecretNames]
  /\ Legacy \subseteq Requests
  /\ Returned \in [Producers -> SUBSET Attributes]
  /\ Rotations \subseteq {"off", "on", "invalid"}
  /\ Optionals \subseteq BOOLEAN
  /\ Foreign \notin Requests
  /\ Nobody \notin Requests
  /\ Foreign # Nobody

ASSUME CredsAssumption ==
  /\ Creds \subseteq Nat
  /\ V2Cred \in Creds
  /\ NoCred \notin Creds

ASSUME BudgetAssumption == Disturbances \subseteq Kinds /\ Budget \in Nat

VARIABLES
  sare,        \* the SAREs on the API server
  secret,      \* the credential secrets on the API server
  sapr,        \* the SAPRs on the API server; ver counts their events
  migration,   \* the keys in the migration secret of each SARE's dogu
  account,     \* the credential each producer currently accepts
  params,      \* the generation of the spec it was last asked with
  up,          \* the producers whose service answers
  seenSare,    \* informer caches of the above ...
  seenSecret,
  seenSapr,
  tombs,       \* ... and the owners of secret deletions not yet observed
  queue,       \* the work queue
  w,           \* the worker and the reconcile it runs
  watch,       \* rotateCronWatcher
  job,         \* rotation jobs in flight
  expired,     \* deletions older than the deletion timeout
  abandoned,   \* observer: finalizers dropped without asking the producer
  left         \* what is left of the Budget

clusterVars  == <<sare, secret, sapr, migration>>
producerVars == <<account, params, up>>
cacheVars    == <<seenSare, seenSecret, seenSapr, tombs>>
rotationVars == <<watch, job>>
vars == <<sare, secret, sapr, migration, account, params, up, seenSare,
          seenSecret, seenSapr, tombs, queue, w, watch, job, expired,
          abandoned, left>>

-----------------------------------------------------------------------------
(* Types.                                                                  *)

(* A SARE is not created yet, live, marked for deletion, or gone.          *)
Phases == {"new", "live", "deleting", "gone"}
Sare == [phase: Phases, gen: Nat, rotation: {"off", "on", "invalid"},
         optional: BOOLEAN, finalizer: BOOLEAN, status: Status]
NewSare == [phase |-> "new", gen |-> 0, rotation |-> "off",
            optional |-> FALSE, finalizer |-> FALSE, status |-> NoStatus]
Present(s) == s.phase \in {"live", "deleting"}

Owners == Requests \cup {Foreign, Nobody}
Secret == [owner: Owners, cred: Creds \cup {NoCred}]
NoSecret == [owner |-> Nobody, cred |-> NoCred]

Sapr == [present: BOOLEAN, ver: Nat]

(* A migration secret holds <producer>_<attribute> keys, of any producer;  *)
(* one without keys is as good as none.                                    *)
MigrationKeys == Producers \X Attributes

(* The worker waits before the call its pc names.                          *)
UpdatePcs == {"finalizer", "exists", "watch", "sapr", "dropSecret",
              "markMissing", "migrate", "put", "store", "ready"}
DeletePcs == {"dGet", "dHead", "dDelete", "release"}
Outcomes == {"none", "rotated", "unchanged", "migrated", "deleted",
             "abandoned"}

(* bound: the object is also the one the SARE's watcher captured.          *)
(* seen: the secret existed when the reconcile looked.                     *)
WorkerState == [pc: {"idle", "fail"} \cup UpdatePcs \cup DeletePcs,
           req: Requests \cup {Nobody}, obj: Sare, bound: BOOLEAN,
           seen: BOOLEAN, cred: Creds \cup {NoCred}, outcome: Outcomes,
           error: Errors \cup {""}]
Idle == [pc |-> "idle", req |-> Nobody, obj |-> NewSare, bound |-> FALSE,
         seen |-> FALSE, cred |-> NoCred, outcome |-> "none", error |-> ""]

Watch == [armed: BOOLEAN, obj: Sare]
NoWatch == [armed |-> FALSE, obj |-> NewSare]

(* A job uses its watcher's object, or its own once the watcher is gone.   *)
Job == [pc: {"none", "check", "patch", "delete"}, cancelled: BOOLEAN,
        obj: Sare]
NoJob == [pc |-> "none", cancelled |-> FALSE, obj |-> NewSare]

TypeOK ==
  /\ sare \in [Requests -> Sare]
  /\ secret \in [SecretNames -> Secret]
  /\ sapr \in [Producers -> Sapr]
  /\ migration \in [Requests -> SUBSET MigrationKeys]
  /\ account \in [Requests -> Creds \cup {NoCred}]
  /\ params \in [Requests -> Nat]
  /\ up \subseteq Producers
  /\ seenSare \in [Requests -> Sare]
  /\ seenSecret \in [SecretNames -> Secret]
  /\ seenSapr \in [Producers -> Sapr]
  /\ tombs \in [SecretNames -> SUBSET Requests]
  /\ queue \subseteq Requests
  /\ w \in WorkerState
  /\ w.pc # "idle" => w.req \in Requests
  /\ watch \in [Requests -> Watch]
  /\ job \in [Requests -> Job]
  /\ expired \subseteq Requests
  /\ abandoned \subseteq Requests
  /\ left \in Nat

-----------------------------------------------------------------------------
Init ==
  /\ sare = [r \in Requests |-> NewSare]
  /\ secret = [n \in SecretNames |-> NoSecret]
  /\ sapr \in [Producers -> [present: BOOLEAN, ver: {0}]]
  /\ migration \in [Requests -> SUBSET MigrationKeys]
  /\ \A r \in Requests \ Legacy : migration[r] = {}
  /\ up = Producers
  /\ account = [r \in Requests |-> IF r \in Legacy THEN V2Cred ELSE NoCred]
  /\ params = [r \in Requests |-> 0]
  /\ seenSare = sare
  /\ seenSecret = secret
  /\ seenSapr = sapr
  /\ tombs = [n \in SecretNames |-> {}]
  /\ queue = {}
  /\ w = Idle
  /\ watch = [r \in Requests |-> NoWatch]
  /\ job = [r \in Requests |-> NoJob]
  /\ expired = {}
  /\ abandoned = {}
  /\ left = Budget

Spend(kind) ==
  /\ kind \in Disturbances
  /\ left > 0
  /\ left' = left - 1

(* A call to a remote party.  It may take effect (applied) only if it is    *)
(* possible; it may fail without effect, or after it (the answer is lost).  *)
(* Failing is a fault unless it is free: the caller was cancelled or the    *)
(* callee is known to be away.                                              *)
Call(possible, free, applied, ok) ==
  /\ applied => possible
  /\ ok => applied
  /\ IF possible /\ ~ok /\ ~free THEN Spend("fault") ELSE UNCHANGED left

-----------------------------------------------------------------------------
(* Parts of the actions.                                                   *)

MySecret(r) == SecretNameOf[r]
Answers(r) == ProducerOf[r] \in up

(* The object of the reconcile: shared with the watcher that captured it.  *)
WObj == IF w.bound THEN watch[w.req].obj ELSE w.obj

(* The object of a rotation job: the one its watcher captured.             *)
JObj(r) == IF job[r].cancelled THEN job[r].obj ELSE watch[r].obj

GoTo(pc) == [w EXCEPT !.pc = pc]
FailWith(error) == [w EXCEPT !.pc = "fail", !.error = error]

(* The end of a reconcile: an error (or a recovered panic) is retried.     *)
Finish(retry) ==
  /\ w' = Idle
  /\ queue' = IF retry THEN queue \cup {w.req} ELSE queue

(* metav1.IsControlledBy *)
IsControlledBy(s, r) == s.owner = r

(* Faults to seed: variants of the definition that follows them, each with *)
(* a bug a change of the code could introduce, are marked [fault].         *)

(* [fault] The deletion is reported to an owner of any kind.               *)
RemoveSecretForAnyOwner(n) ==
  /\ secret' = [secret EXCEPT ![n] = NoSecret]
  /\ tombs' = [tombs EXCEPT ![n] = @ \cup {secret[n].owner}]

(* A deletion of a secret, which its controller owner will be told of.     *)
RemoveSecret(n) ==
  /\ secret' = [secret EXCEPT ![n] = NoSecret]
  /\ tombs' = [tombs EXCEPT ![n] = @ \cup ({secret[n].owner} \cap Requests)]

(* Stopping a watcher cancels a job in flight, but does not take back the  *)
(* object the job works on.                                                *)
DetachJob(r) ==
  job' = IF job[r].pc # "none" /\ ~job[r].cancelled
         THEN [job EXCEPT ![r].cancelled = TRUE, ![r].obj = watch[r].obj]
         ELSE job

(* What a status patch from the object o to the status new makes of the    *)
(* SARE on the server.                                                     *)
Patched(r, o, new) ==
  [sare[r] EXCEPT !.status = MergePatch(o.status, new, sare[r].status)]

(* A successful patch refreshes the object from the server's answer, a     *)
(* failed one leaves the mutated status in it.                             *)
AfterPatch(r, o, new, ok) ==
  IF ok THEN [Patched(r, o, new) EXCEPT !.status = Decoded(new, @)]
  ELSE [o EXCEPT !.status = new]

(* setAndPersist: the reconcile patches the status and goes on as next.    *)
PatchStatus(new, applied, ok, next) ==
  LET r == w.req
      o == WObj
      refreshed == AfterPatch(r, o, new, ok)
  IN /\ Call(Present(sare[r]), FALSE, applied, ok)
     /\ sare' = IF applied THEN [sare EXCEPT ![r] = Patched(r, o, new)]
                ELSE sare
     /\ watch' = IF w.bound THEN [watch EXCEPT ![r].obj = refreshed] ELSE watch
     /\ w' = IF next.pc = "idle" \/ w.bound THEN next
             ELSE [next EXCEPT !.obj = refreshed]

(* A credential in nobody's hands; producers never issue one twice.        *)
InUse == {V2Cred, w.cred} \cup {account[r] : r \in Requests}
         \cup {secret[n].cred : n \in SecretNames}
         \cup {seenSecret[n].cred : n \in SecretNames}
NewCredential(c) ==
  /\ c \in Creds \ InUse
  /\ \A d \in Creds \ InUse : c <= d

-----------------------------------------------------------------------------
(* Reconcile: a SARE that is gone, live or marked for deletion.            *)

(* [fault] Reconciling goes on without the finalizer.                      *)
FirstStepWithoutFinalizer(o) == "exists"

(* AddFinalizer changes the object only if it has no finalizer yet.        *)
FirstStep(o) == IF o.finalizer THEN "exists" ELSE "finalizer"

(* [fault] No deletion timeout.                                            *)
FirstDeleteStepWithoutTimeout(r, o) == IF o.finalizer THEN "dGet" ELSE "idle"

(* A deletion of a SARE without the finalizer has nothing to do; after the *)
(* deletion timeout the finalizer is dropped without asking the producer.  *)
FirstDeleteStep(r, o) ==
  CASE ~o.finalizer -> "idle"
    [] o.finalizer /\ r \in expired -> "release"
    [] OTHER -> "dGet"

Dequeue(r) ==
  /\ w.pc = "idle"
  /\ r \in queue
  /\ queue' = queue \ {r}

ReconcileSkip(r) ==
  /\ Dequeue(r)
  /\ ~Present(seenSare[r])
  /\ UNCHANGED <<clusterVars, cacheVars, rotationVars, producerVars, w,
                 expired, abandoned, left>>

ReconcileLive(r) ==
  /\ Dequeue(r)
  /\ seenSare[r].phase = "live"
  /\ w' = [Idle EXCEPT !.pc = FirstStep(seenSare[r]), !.req = r,
                       !.obj = seenSare[r]]
  /\ UNCHANGED <<clusterVars, cacheVars, rotationVars, producerVars, expired,
                 abandoned, left>>

ReconcileDeleting(r) ==
  /\ Dequeue(r)
  /\ seenSare[r].phase = "deleting"
  /\ DetachJob(r)
  /\ watch' = [watch EXCEPT ![r] = NoWatch]
  /\ LET pc == FirstDeleteStep(r, seenSare[r])
     IN w' = IF pc = "idle" THEN Idle
             ELSE [Idle EXCEPT !.pc = pc, !.req = r, !.obj = seenSare[r],
                     !.outcome = IF pc = "release" THEN "abandoned" ELSE "none"]
  /\ UNCHANGED <<clusterVars, cacheVars, producerVars, expired, abandoned,
                 left>>

-----------------------------------------------------------------------------
(* createOrUpdate, one action per call.                                    *)

(* Update with the resourceVersion of the cached object: a conflict unless *)
(* the cache is current.                                                   *)
AddFinalizer(applied, ok) ==
  LET r == w.req
      o == [w.obj EXCEPT !.finalizer = TRUE]
  IN /\ w.pc = "finalizer"
     /\ Call(sare[r] = w.obj, FALSE, applied, ok)
     /\ sare' = IF applied THEN [sare EXCEPT ![r] = o] ELSE sare
     /\ IF ok THEN w' = [w EXCEPT !.pc = "exists", !.obj = o] /\ UNCHANGED queue
              ELSE Finish(TRUE)
     /\ UNCHANGED <<secret, sapr, migration, producerVars, cacheVars,
                    rotationVars, expired, abandoned>>

(* checkSecretExists: a secret of another owner is an error.               *)
CheckSecretExists ==
  LET s == seenSecret[MySecret(w.req)]
  IN /\ w.pc = "exists"
     /\ w' = IF s = NoSecret \/ IsControlledBy(s, w.req)
             THEN [w EXCEPT !.pc = "watch", !.seen = (s # NoSecret)]
             ELSE FailWith("secret")
     /\ UNCHANGED <<clusterVars, cacheVars, rotationVars, producerVars, queue,
                    expired, abandoned, left>>

(* handleSaRotationWatcher: the watcher is replaced in every reconcile, by *)
(* one that captures the object of this reconcile; an invalid expression   *)
(* stops the old one and fails.                                            *)
SetRotation ==
  LET r == w.req
      rotation == w.obj.rotation
  IN /\ w.pc = "watch"
     /\ DetachJob(r)
     /\ watch' = [watch EXCEPT ![r] =
          IF rotation = "on" THEN [armed |-> TRUE, obj |-> w.obj] ELSE NoWatch]
     /\ w' = CASE rotation = "on" -> [w EXCEPT !.pc = "sapr", !.bound = TRUE,
                                               !.obj = NewSare]
               [] rotation = "off" -> GoTo("sapr")
               [] rotation = "invalid" -> FailWith("rotation")
     /\ UNCHANGED <<clusterVars, cacheVars, producerVars, queue, expired,
                    abandoned, left>>

(* [fault] The error for a required request comes before the deletion.     *)
RequiredMissingFirst ==
  IF WObj.optional THEN GoTo("dropSecret") ELSE FailWith("producer")

(* A missing producer: first of all the secret goes.                       *)
ProducerMissing == GoTo("dropSecret")

(* getProducerForCreateOrUpdate, the lookup.                               *)
GetProducer ==
  /\ w.pc = "sapr"
  /\ w' = IF ~seenSapr[ProducerOf[w.req]].present THEN ProducerMissing
          ELSE GoTo(IF w.seen THEN "put" ELSE "migrate")
  /\ UNCHANGED <<clusterVars, cacheVars, rotationVars, producerVars, queue,
                 expired, abandoned, left>>

(* ... and its answer to a missing producer: the secret is deleted by name, *)
(* whoever owns it by now.  If that fails the error path dereferences the  *)
(* producer that was not found: the panic ends the reconcile and no        *)
(* condition is written.                                                   *)
DropSecret(applied, ok) ==
  LET n == MySecret(w.req)
  IN /\ w.pc = "dropSecret"
     /\ Call(TRUE, FALSE, applied, ok)
     /\ IF applied THEN RemoveSecret(n) ELSE UNCHANGED <<secret, tombs>>
     /\ IF ok THEN /\ w' = IF WObj.optional THEN GoTo("markMissing")
                           ELSE FailWith("producer")
                   /\ UNCHANGED queue
              ELSE Finish(TRUE)
     /\ UNCHANGED <<sare, sapr, migration, producerVars, seenSare, seenSecret,
                    seenSapr, rotationVars, expired, abandoned>>

(* producerNotFound for an optional request: not an error.                 *)
MarkMissing(applied, ok) ==
  /\ w.pc = "markMissing"
  /\ PatchStatus(producerNotFound(WObj), applied, ok,
                 IF ok THEN Idle ELSE FailWith("status"))
  /\ UNCHANGED <<secret, sapr, migration, producerVars, cacheVars, queue, job,
                 expired, abandoned>>

(* What the migration secret holds for this producer, if anything, and     *)
(* what it lacks.                                                          *)
MigratedAttributes(r) ==
  {a \in Attributes : <<ProducerOf[r], a>> \in migration[r]}
MissingKeys(r) == Returned[ProducerOf[r]] \ MigratedAttributes(r)

(* migrateCredentials, up to the store: nothing to migrate, too little, or *)
(* the V2 credential.                                                      *)
Migrate ==
  LET r == w.req
  IN /\ w.pc = "migrate"
     /\ w' = IF MigratedAttributes(r) = {} THEN GoTo("put")
             ELSE IF MissingKeys(r) # {} THEN FailWith("incomplete")
             ELSE [w EXCEPT !.pc = "store", !.cred = V2Cred,
                            !.outcome = "migrated"]
     /\ UNCHANGED <<clusterVars, cacheVars, rotationVars, producerVars, queue,
                    expired, abandoned, left>>

(* requestCredentials asks for a rotation if there was no secret.          *)
RotateNow == ~w.seen

(* What a producer may answer to PUT: a new credential, which replaces the *)
(* old one; without a rotation also the current one, or that nothing       *)
(* changed, which comes without a credential.                              *)
Answer(r, rotate, c) ==
  \/ NewCredential(c)
  \/ ~rotate /\ account[r] # NoCred /\ c \in {account[r], NoCred}

(* [fault] A request that has its secret keeps the parameters it had.      *)
SentParamsOnCreationOnly == IF w.seen THEN params[w.req] ELSE WObj.gen

(* requestCredentials sends the parameters of the SARE it reconciles.      *)
SentParams == WObj.gen

(* PUT to the producer.  Building the client (the auth secret) is part of  *)
(* the call: it fails like one that never arrived.                         *)
Put(c, applied, ok) ==
  LET r == w.req
  IN /\ w.pc = "put"
     /\ Answer(r, RotateNow, c)
     /\ Call(Answers(r), FALSE, applied, ok)
     /\ account' = IF applied /\ c # NoCred THEN [account EXCEPT ![r] = c]
                   ELSE account
     /\ params' = IF applied THEN [params EXCEPT ![r] = SentParams] ELSE params
     /\ w' = IF ~ok THEN FailWith("request")
             ELSE IF c = NoCred THEN [w EXCEPT !.pc = "ready",
                                               !.outcome = "unchanged"]
             ELSE [w EXCEPT !.pc = "store", !.cred = c, !.outcome = "rotated"]
     /\ UNCHANGED <<clusterVars, up, cacheVars, rotationVars, queue, expired,
                    abandoned>>

(* [fault] No ownership check before the update.                           *)
StorePossibleForAnyOwner(s, r) == TRUE

(* controllerutil.CreateOrUpdate reads the cache again: it creates a       *)
(* secret it does not see, and updates one it sees, owns and knows the     *)
(* current version of.                                                     *)
StorePossible(s, r) ==
  \/ s = NoSecret
  \/ IsControlledBy(s, r)

StoreError == IF w.outcome = "migrated" THEN "migration" ELSE "store"

Store(applied, ok) ==
  LET r == w.req
      n == MySecret(r)
  IN /\ w.pc = "store"
     /\ Call(seenSecret[n] = secret[n] /\ StorePossible(seenSecret[n], r),
             FALSE, applied, ok)
     /\ secret' = IF applied
                  THEN [secret EXCEPT ![n] = [owner |-> r, cred |-> w.cred]]
                  ELSE secret
     /\ w' = IF ok THEN [w EXCEPT !.pc = "ready", !.cred = NoCred]
             ELSE [FailWith(StoreError) EXCEPT !.cred = NoCred]
     /\ UNCHANGED <<sare, sapr, migration, producerVars, cacheVars,
                    rotationVars, queue, expired, abandoned>>

(* The status after a success.                                             *)
ReadyStatus ==
  IF w.outcome = "migrated" THEN serviceAccountMigrated(WObj)
  ELSE serviceAccountReady(WObj, w.outcome = "rotated")

SetReady(applied, ok) ==
  /\ w.pc = "ready"
  /\ PatchStatus(ReadyStatus, applied, ok, Idle)
  /\ queue' = IF ok THEN queue ELSE queue \cup {w.req}
  /\ UNCHANGED <<secret, sapr, migration, producerVars, cacheVars, job,
                 expired, abandoned>>

(* failWithReason: an error of the patch is only logged.                   *)
ReasonFor(error) ==
  IF error = "incomplete" THEN "MigrationFailed" ELSE "ServiceAccountFailed"

RecordFailure(applied, ok) ==
  /\ w.pc = "fail"
  /\ PatchStatus(serviceAccountFailed(WObj, ReasonFor(w.error), w.error),
                 applied, ok, Idle)
  /\ queue' = queue \cup {w.req}
  /\ UNCHANGED <<secret, sapr, migration, producerVars, cacheVars, job,
                 expired, abandoned>>

-----------------------------------------------------------------------------
(* reconcileDelete and deleteServiceAccount, one action per call.          *)

(* A producer that is gone takes its accounts with it.                     *)
FindProducer ==
  /\ w.pc = "dGet"
  /\ w' = IF seenSapr[ProducerOf[w.req]].present THEN GoTo("dHead")
          ELSE [w EXCEPT !.pc = "release", !.outcome = "abandoned"]
  /\ UNCHANGED <<clusterVars, cacheVars, rotationVars, producerVars, queue,
                 expired, abandoned, left>>

(* HEAD changes nothing, so a lost answer is as good as a lost question.   *)
AskForAccount(ok) ==
  /\ w.pc = "dHead"
  /\ Call(Answers(w.req), FALSE, ok, ok)
  /\ w' = IF ~ok THEN FailWith("delete")
          ELSE IF account[w.req] # NoCred THEN GoTo("dDelete")
          ELSE [w EXCEPT !.pc = "release", !.outcome = "deleted"]
  /\ UNCHANGED <<clusterVars, cacheVars, rotationVars, producerVars, queue,
                 expired, abandoned>>

(* [fault] The answer to the DELETE is not looked at.                      *)
AfterAnyDelete(ok) == [w EXCEPT !.pc = "release", !.outcome = "deleted"]

AfterDelete(ok) ==
  IF ok THEN [w EXCEPT !.pc = "release", !.outcome = "deleted"]
  ELSE FailWith("delete")

(* DELETE; the lastExecution patch that follows it is best effort and       *)
(* belongs to the producer's status.                                       *)
DeleteAccount(applied, ok) ==
  /\ w.pc = "dDelete"
  /\ Call(Answers(w.req), FALSE, applied, ok)
  /\ account' = IF applied THEN [account EXCEPT ![w.req] = NoCred] ELSE account
  /\ w' = AfterDelete(ok)
  /\ UNCHANGED <<clusterVars, params, up, cacheVars, rotationVars, queue,
                 expired, abandoned>>

(* removeFinalizer: the Update that lets the API server remove the SARE.   *)
(* NotFound is a success.                                                  *)
Release(applied, ok) ==
  LET r == w.req
  IN /\ w.pc = "release"
     /\ IF sare[r].phase = "gone"
        THEN ~applied /\ ok /\ UNCHANGED left
        ELSE Call(sare[r] = w.obj, FALSE, applied, ok)
     /\ sare' = IF applied
                THEN [sare EXCEPT ![r] = [@ EXCEPT !.phase = "gone",
                                                   !.finalizer = FALSE]]
                ELSE sare
     /\ abandoned' = IF applied /\ w.outcome = "abandoned"
                     THEN abandoned \cup {r} ELSE abandoned
     /\ Finish(~ok)
     /\ UNCHANGED <<secret, sapr, migration, producerVars, cacheVars,
                    rotationVars, expired>>

-----------------------------------------------------------------------------
(* rotateSaSecretFunc.  A watcher starts a job when its cron expression is *)
(* due; one job per SARE at a time is a bound of this model.               *)

CronFires(r) ==
  /\ watch[r].armed
  /\ job[r].pc = "none"
  /\ Spend("tick")
  /\ job' = [job EXCEPT ![r] = [NoJob EXCEPT !.pc = "check"]]
  /\ UNCHANGED <<clusterVars, cacheVars, producerVars, queue, w, watch,
                 expired, abandoned>>

(* No secret, or another owner's: nothing is rotated.                      *)
JobCheck(r) ==
  /\ job[r].pc = "check"
  /\ job' = IF IsControlledBy(seenSecret[MySecret(r)], r)
            THEN [job EXCEPT ![r].pc = "patch"]
            ELSE [job EXCEPT ![r] = NoJob]
  /\ UNCHANGED <<clusterVars, cacheVars, producerVars, queue, w, watch,
                 expired, abandoned, left>>

(* serviceAccountNotReadyForRotation: an error is only logged.             *)
JobPatch(r, applied, ok) ==
  LET o == JObj(r)
      new == serviceAccountNotReadyForRotation(o)
      refreshed == AfterPatch(r, o, new, ok)
  IN /\ job[r].pc = "patch"
     /\ Call(Present(sare[r]), job[r].cancelled, applied, ok)
     /\ sare' = IF applied THEN [sare EXCEPT ![r] = Patched(r, o, new)]
                ELSE sare
     /\ IF job[r].cancelled
        THEN /\ job' = [job EXCEPT ![r].pc = "delete", ![r].obj = refreshed]
             /\ UNCHANGED watch
        ELSE /\ job' = [job EXCEPT ![r].pc = "delete"]
             /\ watch' = [watch EXCEPT ![r].obj = refreshed]
     /\ UNCHANGED <<secret, sapr, migration, producerVars, cacheVars, queue, w,
                    expired, abandoned>>

(* secretManager.Delete: by name, whoever owns the secret by now.          *)
JobDelete(r, applied) ==
  /\ job[r].pc = "delete"
  /\ Call(TRUE, job[r].cancelled, applied, applied)
  /\ IF applied THEN RemoveSecret(MySecret(r)) ELSE UNCHANGED <<secret, tombs>>
  /\ job' = [job EXCEPT ![r] = NoJob]
  /\ UNCHANGED <<sare, sapr, migration, producerVars, seenSare, seenSecret,
                 seenSapr, queue, w, watch, expired, abandoned>>

-----------------------------------------------------------------------------
(* The informers.  A cache jumps to the current object: the updates it     *)
(* skips over are an abstraction, the deletions it must report are kept.   *)

(* [fault] Changes of the spec are filtered out.                           *)
NotifiesPresenceOnly(old, new) == Present(old) # Present(new)

(* GenerationChangedPredicate lets creations, deletions and changes of the *)
(* spec (marking for deletion is one) through, not changes of the status.  *)
Notifies(old, new) == Present(old) # Present(new) \/ old.gen # new.gen

SyncSare(r) ==
  /\ seenSare[r] # sare[r]
  /\ seenSare' = [seenSare EXCEPT ![r] = sare[r]]
  /\ queue' = IF Notifies(seenSare[r], sare[r]) THEN queue \cup {r} ELSE queue
  /\ UNCHANGED <<clusterVars, seenSecret, seenSapr, tombs, rotationVars,
                 producerVars, w, expired, abandoned, left>>

(* [fault] Deletions are filtered out.                                     *)
SecretNotifiesNobody(n) == {}

(* wasDeletedPredicate: only deletions reach the owner.                    *)
SecretNotifies(n) == tombs[n]

SyncSecret(n) ==
  /\ seenSecret[n] # secret[n] \/ tombs[n] # {}
  /\ seenSecret' = [seenSecret EXCEPT ![n] = secret[n]]
  /\ tombs' = [tombs EXCEPT ![n] = {}]
  /\ queue' = queue \cup SecretNotifies(n)
  /\ UNCHANGED <<clusterVars, seenSare, seenSapr, rotationVars, producerVars,
                 w, expired, abandoned, left>>

(* [fault] Nobody is told of a change of a SAPR.                           *)
RequestsOfNone(p) == {}

(* enqueueRequestsForProducer lists the requests in the cache.             *)
RequestsOf(p) == {r \in Requests : ProducerOf[r] = p /\ Present(seenSare[r])}

SyncSapr(p) ==
  /\ seenSapr[p] # sapr[p]
  /\ seenSapr' = [seenSapr EXCEPT ![p] = sapr[p]]
  /\ queue' = queue \cup RequestsOf(p)
  /\ UNCHANGED <<clusterVars, seenSare, seenSecret, tombs, rotationVars,
                 producerVars, w, expired, abandoned, left>>

-----------------------------------------------------------------------------
(* The environment of the operator.                                        *)

ApplyRequest(r) ==
  /\ sare[r].phase = "new"
  /\ \E rotation \in Rotations, optional \in Optionals :
       sare' = [sare EXCEPT ![r] = [NewSare EXCEPT !.phase = "live", !.gen = 1,
                                                   !.rotation = rotation,
                                                   !.optional = optional]]
  /\ UNCHANGED <<secret, sapr, migration, producerVars, cacheVars, queue, w,
                 rotationVars, expired, abandoned, left>>

ChangeRequest(r) ==
  /\ sare[r].phase = "live"
  /\ Spend("spec")
  /\ \E rotation \in Rotations, optional \in Optionals :
       sare' = [sare EXCEPT ![r].gen = @ + 1, ![r].rotation = rotation,
                            ![r].optional = optional]
  /\ UNCHANGED <<secret, sapr, migration, producerVars, cacheVars, queue, w,
                 rotationVars, expired, abandoned>>

DeleteRequest(r) ==
  /\ sare[r].phase = "live"
  /\ sare' = IF sare[r].finalizer
             THEN [sare EXCEPT ![r].phase = "deleting", ![r].gen = @ + 1]
             ELSE [sare EXCEPT ![r].phase = "gone"]
  /\ UNCHANGED <<secret, sapr, migration, producerVars, cacheVars, queue, w,
                 rotationVars, expired, abandoned, left>>

(* time.Since(deletionTimestamp) > DeletionTimeout                         *)
DeletionTimeout(r) ==
  /\ sare[r].phase = "deleting"
  /\ r \notin expired
  /\ expired' = expired \cup {r}
  /\ UNCHANGED <<clusterVars, cacheVars, rotationVars, producerVars, queue, w,
                 abandoned, left>>

(* The garbage collector removes the secrets of owners that are gone.      *)
CollectGarbage(n) ==
  /\ secret[n].owner \in Requests
  /\ sare[secret[n].owner].phase = "gone"
  /\ RemoveSecret(n)
  /\ UNCHANGED <<sare, sapr, migration, producerVars, seenSare, seenSecret,
                 seenSapr, queue, w, rotationVars, expired, abandoned, left>>

DeleteSecret(n) ==
  /\ secret[n] # NoSecret
  /\ Spend("secret")
  /\ RemoveSecret(n)
  /\ UNCHANGED <<sare, sapr, migration, producerVars, seenSare, seenSecret,
                 seenSapr, queue, w, rotationVars, expired, abandoned>>

CreateForeignSecret(n) ==
  /\ secret[n] = NoSecret
  /\ Spend("secret")
  /\ secret' = [secret EXCEPT ![n].owner = Foreign]
  /\ UNCHANGED <<sare, sapr, migration, producerVars, cacheVars, queue, w,
                 rotationVars, expired, abandoned>>

(* A SAPR is applied or removed, or (same presence) its spec changes or it *)
(* gets ready again: all of these are events for its requests.             *)
ChangeProducer(p) ==
  /\ Spend("sapr")
  /\ \E present \in BOOLEAN :
       /\ present \/ sapr[p].present
       /\ sapr' = [sapr EXCEPT ![p] = [present |-> present, ver |-> @.ver + 1]]
  /\ UNCHANGED <<sare, secret, migration, producerVars, cacheVars, queue, w,
                 rotationVars, expired, abandoned>>

(* The service behind a SAPR stops answering, or comes back.               *)
StopService(p) ==
  /\ p \in up
  /\ Spend("outage")
  /\ up' = up \ {p}
  /\ UNCHANGED <<clusterVars, account, params, cacheVars, queue, w,
                 rotationVars, expired, abandoned>>

StartService(p) ==
  /\ p \notin up
  /\ up' = up \cup {p}
  /\ UNCHANGED <<clusterVars, account, params, cacheVars, queue, w,
                 rotationVars, expired, abandoned, left>>

(* The migration secret as the operator's cache sees it.                   *)
WriteMigrationSecret(r) ==
  /\ r \in Legacy
  /\ Spend("migration")
  /\ \E m \in (SUBSET MigrationKeys) \ {migration[r]} :
       migration' = [migration EXCEPT ![r] = m]
  /\ UNCHANGED <<sare, secret, sapr, producerVars, cacheVars, queue, w,
                 rotationVars, expired, abandoned>>

(* The process starts anew: watchers, jobs and the queue are lost, the     *)
(* caches are filled and every object is an event.                         *)
Restart ==
  /\ w' = Idle
  /\ watch' = [r \in Requests |-> NoWatch]
  /\ job' = [r \in Requests |-> NoJob]
  /\ seenSare' = sare
  /\ seenSecret' = secret
  /\ seenSapr' = sapr
  /\ tombs' = [n \in SecretNames |-> {}]
  /\ queue' = {r \in Requests : Present(sare[r])}
  /\ UNCHANGED <<clusterVars, producerVars, expired, abandoned>>

(* The process may end at any step.                                        *)
Crash == Spend("crash") /\ Restart

-----------------------------------------------------------------------------
WorkerStep ==
  \/ \E r \in Requests : ReconcileSkip(r) \/ ReconcileLive(r)
                         \/ ReconcileDeleting(r)
  \/ CheckSecretExists \/ SetRotation \/ GetProducer \/ Migrate \/ FindProducer
  \/ \E ok \in BOOLEAN : AskForAccount(ok)
  \/ \E applied, ok \in BOOLEAN :
       \/ AddFinalizer(applied, ok) \/ DropSecret(applied, ok)
       \/ MarkMissing(applied, ok) \/ Store(applied, ok)
       \/ SetReady(applied, ok) \/ RecordFailure(applied, ok)
       \/ DeleteAccount(applied, ok) \/ Release(applied, ok)
       \/ \E c \in Creds \cup {NoCred} : Put(c, applied, ok)

RotationJob(r) ==
  \/ JobCheck(r)
  \/ \E applied, ok \in BOOLEAN : JobPatch(r, applied, ok)
  \/ \E applied \in BOOLEAN : JobDelete(r, applied)

Informers ==
  \/ \E r \in Requests : SyncSare(r)
  \/ \E n \in SecretNames : SyncSecret(n)
  \/ \E p \in Producers : SyncSapr(p)

(* Everything that happens inside the operator's process.                  *)
Operator ==
  \/ WorkerStep
  \/ \E r \in Requests : CronFires(r) \/ RotationJob(r)
  \/ Informers

Environment ==
  \/ \E r \in Requests : \/ ApplyRequest(r) \/ ChangeRequest(r)
                         \/ DeleteRequest(r) \/ DeletionTimeout(r)
                         \/ WriteMigrationSecret(r)
  \/ \E n \in SecretNames : \/ CollectGarbage(n) \/ DeleteSecret(n)
                            \/ CreateForeignSecret(n)
  \/ \E p \in Producers : ChangeProducer(p) \/ StopService(p) \/ StartService(p)

Next == Operator \/ Environment \/ Crash

Spec == Init /\ [][Next]_vars

-----------------------------------------------------------------------------
(* Fairness: the worker goes on with the reconcile it runs, the queue hands *)
(* out every request it holds (retries come back after a backoff), watches *)
(* deliver, started jobs run, time passes and the garbage collector works. *)
(* Nothing is assumed of users, of the cron clock or of crashes.           *)
Reconcile(r) == ReconcileSkip(r) \/ ReconcileLive(r) \/ ReconcileDeleting(r)

Fairness ==
  /\ WF_vars(WorkerStep)
  /\ \A r \in Requests : /\ SF_vars(Reconcile(r)) /\ WF_vars(SyncSare(r))
                         /\ WF_vars(RotationJob(r))
                         /\ WF_vars(DeletionTimeout(r))
  /\ \A n \in SecretNames : WF_vars(SyncSecret(n)) /\ WF_vars(CollectGarbage(n))
  /\ \A p \in Producers : WF_vars(SyncSapr(p))

FairSpec == Spec /\ Fairness
=============================================================================
