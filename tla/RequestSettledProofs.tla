------------------------ MODULE RequestSettledProofs ------------------------
(***************************************************************************)
(* When all is quiet, a rotation watcher runs exactly if the spec asks for *)
(* one.  First what each step does to the things the invariants of         *)
(* RequestProperties speak of, for this proof and RequestDeliveryProofs:   *)
(* the worker, the specs, the watchers, the caches and the secrets.  Then  *)
(* RotationInv and what it implies.                                        *)
(***************************************************************************)
EXTENDS RequestSafetyProofs

-----------------------------------------------------------------------------
(* What steps do to the worker.                                            *)

(* The reconcile ends and its request is queued again.                     *)
Retried == w'.pc = "idle" /\ queue' = queue \cup {w.req}

(* The reconcile has met an error, which is still to be recorded.          *)
Failed == w'.pc = "fail" /\ w'.req = w.req /\ queue' = queue

(* The reconcile ends well.                                                *)
Over(pcs) == w.pc \in pcs /\ w'.pc = "idle" /\ queue' = queue

(* The reconcile goes on with the object it has, from the call it waited   *)
(* for to the next one: createOrUpdate after the watcher is set, and       *)
(* reconcileDelete.                                                        *)
GoesOn(from, to) == w.pc = from /\ w'.pc \in to
Proceeds ==
  /\ queue' = queue /\ w'.req = w.req /\ w'.obj = w.obj
  /\ w'.bound = w.bound /\ w'.seen = w.seen
  /\ \/ GoesOn("sapr", {"dropSecret"}) /\ ~seenSapr[ProducerOf[w.req]].present
     \/ GoesOn("sapr", {"put", "migrate"}) /\ seenSapr[ProducerOf[w.req]].present
     \/ GoesOn("dropSecret", {"markMissing"}) /\ ~Owned(w.req)'
     \/ GoesOn("migrate", {"put"})
     \/ GoesOn("migrate", {"store"}) /\ w'.cred = V2Cred
     \/ GoesOn("put", {"ready"}) /\ w.seen /\ params'[w.req] = WObj.gen
     \/ GoesOn("put", {"store"}) /\ params'[w.req] = WObj.gen
     \/ GoesOn("store", {"ready"}) /\ Owned(w.req)'
          /\ secret'[MySecret(w.req)].cred = w.cred
     \/ w.pc \in DeletePcs /\ w'.pc \in DeletePcs

(* After the watcher a reconcile fails, is retried, is over or proceeds.   *)
LateMove == Failed \/ Retried \/ Over({"markMissing", "ready"}) \/ Proceeds

(* A step of others.                                                       *)
Rests == w' = w /\ queue' = queue

(* What steps leave of the spec of the SAREs, of the watchers and of the   *)
(* caches: a watcher's object may be refreshed by a status patch.          *)
SpecsKept ==
  \A r \in Requests :
    /\ sare'[r].phase = sare[r].phase /\ sare'[r].gen = sare[r].gen
    /\ sare'[r].rotation = sare[r].rotation
    /\ sare'[r].finalizer = sare[r].finalizer
WatchersKept ==
  \A r \in Requests :
    /\ watch'[r].armed = watch[r].armed
    /\ watch'[r].obj.gen \in {watch[r].obj.gen, sare[r].gen}
CachesKept == UNCHANGED <<seenSare, seenSecret, seenSapr>>

(* A secret stays, is removed and its owner will be told, is stored by the *)
(* worker, or is created by a user.                                        *)
SecretMoves(n) ==
  /\ tombs[n] \subseteq tombs'[n]
  /\ \/ secret'[n] = secret[n]
     \/ /\ secret'[n].owner = Nobody
        /\ secret[n].owner \in Requests => secret[n].owner \in tombs'[n]
     \/ /\ w.pc = "store" /\ n = MySecret(w.req)
        /\ secret[n].owner \in {w.req, Nobody}
        /\ secret'[n] = [owner |-> w.req, cred |-> w.cred]
     \/ secret[n].owner = Nobody /\ secret'[n].owner = Foreign
SecretsMove == \A n \in SecretNames : SecretMoves(n)

(* The account of a request is asked for by its reconcile only.            *)
ParamsMove ==
  \A r \in Requests :
    \/ params'[r] = params[r]
    \/ w.pc = "put" /\ w.req = r /\ params'[r] = WObj.gen

(* What a request's deletion leaves of a secret (secretManager.Delete, the *)
(* garbage collector, users).                                              *)
LEMMA RemovalMoves ==
  ASSUME TypeOK, NEW m \in SecretNames, RemoveSecret(m)
  PROVE  SecretsMove /\ secret'[m].owner = Nobody
BY DEF TypeOK, RemoveSecret, NoSecret, SecretsMove, SecretMoves

(* A step that leaves the secrets alone.                                   *)
LEMMA SecretsStay ==
  ASSUME UNCHANGED <<secret, tombs>>
  PROVE  SecretsMove
BY DEF SecretsMove, SecretMoves

(* A status patch changes no spec and stops no watcher (setAndPersist).    *)
LEMMA PatchMoves ==
  ASSUME TypeOK, w.pc # "idle",
         NEW new \in Status, NEW applied \in BOOLEAN, NEW ok \in BOOLEAN,
         NEW next \in WorkerState,
         PatchStatus(new, applied, ok, next)
  PROVE  SpecsKept /\ WatchersKept /\ w'.pc = next.pc /\ w'.req = next.req
<1> DEFINE o == WObj
           r == w.req
           patched == Patched(r, o, new)
           refreshed == AfterPatch(r, o, new, ok)
<1>1. o \in Sare /\ r \in Requests /\ sare[r] \in Sare
  BY WObjType DEF TypeOK
<1>2. /\ patched.phase = sare[r].phase /\ patched.gen = sare[r].gen
      /\ patched.rotation = sare[r].rotation
      /\ patched.finalizer = sare[r].finalizer
  BY <1>1 DEF Patched, Sare
<1>3. refreshed.gen \in {o.gen, sare[r].gen}
  BY <1>1, <1>2 DEF AfterPatch, Patched, Sare
<1>4. /\ sare' = IF applied THEN [sare EXCEPT ![r] = patched] ELSE sare
      /\ watch' = IF w.bound THEN [watch EXCEPT ![r].obj = refreshed] ELSE watch
  BY DEF PatchStatus
<1>5. w.bound => o = watch[r].obj
  BY DEF WObj
<1> HIDE DEF o, patched, refreshed
<1>6. SpecsKept
  BY <1>1, <1>2, <1>4 DEF TypeOK, SpecsKept
<1>7. WatchersKept
  BY <1>1, <1>3, <1>4, <1>5 DEF TypeOK, Watch, WatchersKept
<1> QED
  BY <1>6, <1>7, PatchStatusType

(* The steps of a reconcile after its watcher is set or stopped.           *)
LateStep ==
  \/ GetProducer \/ Migrate \/ FindProducer
  \/ \E ok \in BOOLEAN : AskForAccount(ok)
  \/ \E applied, ok \in BOOLEAN :
       \/ DropSecret(applied, ok) \/ MarkMissing(applied, ok)
       \/ Store(applied, ok) \/ SetReady(applied, ok)
       \/ RecordFailure(applied, ok) \/ DeleteAccount(applied, ok)
       \/ \E c \in Creds \cup {NoCred} : Put(c, applied, ok)

(* What every step does that neither takes a request up, sets a watcher,   *)
(* ends a SARE, changes a spec, updates a cache nor ends the process.      *)
Moves ==
  /\ LateMove \/ Rests
  /\ SpecsKept /\ WatchersKept /\ CachesKept /\ SecretsMove /\ ParamsMove

(* A step that leaves cluster, parameters, caches and watchers alone.      *)
LEMMA NothingMoves ==
  ASSUME UNCHANGED <<clusterVars, params, cacheVars, watch>>
  PROVE  SpecsKept /\ WatchersKept /\ CachesKept /\ SecretsMove /\ ParamsMove
BY SecretsStay DEF clusterVars, cacheVars, SpecsKept, WatchersKept, CachesKept,
                   ParamsMove

(* The lookups: nothing but the worker moves.                              *)
LEMMA LookupMoves ==
  ASSUME TypeOK,
         \/ GetProducer \/ Migrate \/ FindProducer
         \/ \E ok \in BOOLEAN : AskForAccount(ok)
  PROVE  Moves
<1> USE DEF rotationVars, producerVars
<1>1. CASE GetProducer
  <2>1. LateMove
    BY <1>1 DEF GetProducer, ProducerMissing, GoTo, TypeOK, WorkerState,
                LateMove, Proceeds, GoesOn
  <2> QED
    BY <1>1, <2>1, NothingMoves DEF GetProducer, Moves
<1>2. CASE Migrate
  <2>1. w.pc = "migrate" /\ queue' = queue
        /\ \/ w' = GoTo("put") \/ w' = FailWith("incomplete")
           \/ w' = [w EXCEPT !.pc = "store", !.cred = V2Cred,
                             !.outcome = "migrated"]
    BY <1>2 DEF Migrate
  <2>2. LateMove
    BY <2>1 DEF GoTo, FailWith, TypeOK, WorkerState, LateMove, Failed, Proceeds,
                GoesOn
  <2> QED
    BY <1>2, <2>2, NothingMoves DEF Migrate, Moves
<1>3. CASE FindProducer
  <2>1. LateMove
    BY <1>3 DEF FindProducer, GoTo, TypeOK, WorkerState, LateMove, Proceeds,
                DeletePcs
  <2> QED
    BY <1>3, <2>1, NothingMoves DEF FindProducer, Moves
<1>4. ASSUME NEW ok \in BOOLEAN, AskForAccount(ok)
      PROVE  Moves
  <2>1. LateMove
    BY <1>4 DEF AskForAccount, GoTo, FailWith, TypeOK, WorkerState, LateMove,
                Failed, Proceeds, DeletePcs
  <2> QED
    BY <1>4, <2>1, NothingMoves DEF AskForAccount, Moves
<1> QED
  BY <1>1, <1>2, <1>3, <1>4

(* The calls to the producer.                                              *)
LEMMA ProducerMoves ==
  ASSUME TypeOK, NEW applied \in BOOLEAN, NEW ok \in BOOLEAN,
         \/ DeleteAccount(applied, ok)
         \/ \E c \in Creds \cup {NoCred} : Put(c, applied, ok)
  PROVE  Moves
<1> USE DEF rotationVars
<1>1. CASE DeleteAccount(applied, ok)
  <2>1. LateMove
    BY <1>1 DEF DeleteAccount, AfterDelete, FailWith, TypeOK, WorkerState,
                LateMove, Failed, Proceeds, DeletePcs
  <2> QED
    BY <1>1, <2>1, NothingMoves DEF DeleteAccount, Moves
<1>2. ASSUME NEW c \in Creds \cup {NoCred}, Put(c, applied, ok)
      PROVE  Moves
  <2>1. /\ w.pc = "put" /\ queue' = queue /\ w.req \in Requests
        /\ ok => applied
        /\ params' = IF applied THEN [params EXCEPT ![w.req] = WObj.gen]
                     ELSE params
        /\ UNCHANGED <<clusterVars, cacheVars, watch>>
    BY <1>2 DEF Put, Call, SentParams, TypeOK
  <2>2. /\ applied => params'[w.req] = WObj.gen
        /\ ParamsMove
    BY <2>1 DEF TypeOK, ParamsMove
  <2>3. c = NoCred => w.seen
    BY <1>2, CredsAssumption DEF Put, Answer, RotateNow, NewCredential
  <2>4. CASE ~ok
    <3>1. w' = FailWith("request")
      BY <1>2, <2>4 DEF Put
    <3>2. LateMove
      BY <2>1, <3>1 DEF FailWith, TypeOK, WorkerState, LateMove, Failed
    <3> QED
      BY <2>1, <2>2, <3>2, SecretsStay
         DEF clusterVars, cacheVars, SpecsKept, WatchersKept, CachesKept, Moves
  <2>5. CASE ok
    <3>1. \/ c = NoCred /\ w' = [w EXCEPT !.pc = "ready", !.outcome = "unchanged"]
          \/ w' = [w EXCEPT !.pc = "store", !.cred = c, !.outcome = "rotated"]
      BY <1>2, <2>5 DEF Put
    <3>2. LateMove
      BY <2>1, <2>2, <2>3, <2>5, <3>1
         DEF TypeOK, WorkerState, LateMove, Proceeds, GoesOn
    <3> QED
      BY <2>1, <2>2, <3>2, SecretsStay
         DEF clusterVars, cacheVars, SpecsKept, WatchersKept, CachesKept, Moves
  <2> QED
    BY <2>4, <2>5
<1> QED
  BY <1>1, <1>2

(* The calls that remove and store the secret.                             *)
LEMMA SecretCallMoves ==
  ASSUME TypeOK, NEW applied \in BOOLEAN, NEW ok \in BOOLEAN,
         DropSecret(applied, ok) \/ Store(applied, ok)
  PROVE  Moves
<1> USE DEF rotationVars, producerVars
<1> DEFINE r == w.req
           n == MySecret(w.req)
<1>0. r \in Requests /\ n \in SecretNames
  BY NamesAssumption DEF TypeOK, MySecret, DropSecret, Store
<1>1. /\ UNCHANGED <<sare, watch, params>>
      /\ CachesKept
      /\ ok => applied
  BY DEF DropSecret, Store, Call, CachesKept, cacheVars
<1>2. SpecsKept /\ WatchersKept /\ ParamsMove
  BY <1>1 DEF SpecsKept, WatchersKept, ParamsMove
<1>3. CASE DropSecret(applied, ok)
  <2>1. /\ w.pc = "dropSecret"
        /\ IF applied THEN RemoveSecret(n) ELSE UNCHANGED <<secret, tombs>>
    BY <1>3 DEF DropSecret
  <2>2. SecretsMove /\ (applied => secret'[n].owner = Nobody)
    BY <1>0, <2>1, RemovalMoves, SecretsStay
  <2>3. CASE ok
    <3>1. /\ queue' = queue
          /\ w' = GoTo("markMissing") \/ w' = FailWith("producer")
      BY <1>3, <2>3 DEF DropSecret
    <3>2. secret'[n].owner # r
      BY <1>0, <1>1, <2>2, <2>3, NamesAssumption
    <3>3. LateMove
      BY <2>1, <3>1, <3>2 DEF GoTo, FailWith, TypeOK, WorkerState, LateMove,
                              Failed, Proceeds, GoesOn, Owned, MySecret
    <3> QED
      BY <1>1, <1>2, <2>2, <3>3 DEF Moves
  <2>4. CASE ~ok
    <3>1. w' = Idle /\ queue' = queue \cup {w.req}
      BY <1>3, <2>4 DEF DropSecret, Finish
    <3>2. Retried
      BY <3>1 DEF Retried, Idle
    <3> QED
      BY <1>1, <1>2, <2>2, <3>2 DEF Moves, LateMove
  <2> QED
    BY <2>3, <2>4
<1>4. CASE Store(applied, ok)
  <2>1. /\ w.pc = "store" /\ queue' = queue /\ UNCHANGED tombs
        /\ applied => seenSecret[n] = secret[n]
        /\ applied => StorePossible(seenSecret[n], r)
        /\ secret' = IF applied
                     THEN [secret EXCEPT ![n] = [owner |-> r, cred |-> w.cred]]
                     ELSE secret
        /\ w' = IF ok THEN [w EXCEPT !.pc = "ready", !.cred = NoCred]
                ELSE [FailWith(StoreError) EXCEPT !.cred = NoCred]
    BY <1>4 DEF Store, Call, cacheVars
  <2>2. applied => /\ secret[n].owner \in {r, Nobody}
                   /\ secret'[n] = [owner |-> r, cred |-> w.cred]
    BY <1>0, <2>1 DEF TypeOK, StorePossible, IsControlledBy, NoSecret
  <2>3. SecretsMove
    BY <1>0, <2>1, <2>2 DEF TypeOK, SecretsMove, SecretMoves
  <2>4. CASE ok
    <3>1. /\ w'.pc = "ready" /\ w'.req = w.req /\ w'.obj = w.obj
          /\ w'.bound = w.bound /\ w'.seen = w.seen
      BY <2>1, <2>4 DEF TypeOK, WorkerState
    <3>2. Owned(w.req)' /\ secret'[MySecret(w.req)].cred = w.cred
      BY <1>1, <2>2, <2>4, <3>1 DEF Owned, MySecret
    <3>3. LateMove
      BY <2>1, <3>1, <3>2 DEF LateMove, Proceeds, GoesOn
    <3> QED
      BY <1>1, <1>2, <2>3, <3>3 DEF Moves
  <2>5. CASE ~ok
    <3>1. w'.pc = "fail" /\ w'.req = w.req
      BY <2>1, <2>5 DEF TypeOK, WorkerState, FailWith
    <3> QED
      BY <1>1, <1>2, <2>1, <2>3, <3>1 DEF Moves, LateMove, Failed
  <2> QED
    BY <2>4, <2>5
<1> QED
  BY <1>3, <1>4

(* The calls that patch the status.                                        *)
LEMMA StatusMoves ==
  ASSUME TypeOK, NEW applied \in BOOLEAN, NEW ok \in BOOLEAN,
         \/ MarkMissing(applied, ok) \/ SetReady(applied, ok)
         \/ RecordFailure(applied, ok)
  PROVE  Moves
<1>0. w.pc # "idle" /\ w.req \in Requests
  BY DEF TypeOK, MarkMissing, SetReady, RecordFailure
<1>1. CachesKept /\ SecretsMove /\ ParamsMove
  BY SecretsStay DEF MarkMissing, SetReady, RecordFailure, cacheVars,
                     producerVars, CachesKept, ParamsMove
<1>2. CASE MarkMissing(applied, ok)
  <2> DEFINE next == IF ok THEN Idle ELSE FailWith("status")
  <2>1. producerNotFound(WObj) \in Status
    BY <1>0, WObjType, StatusWriters
  <2>2. /\ next \in WorkerState
        /\ next.pc = "idle" \/ (next.pc = "fail" /\ next.req = w.req)
    BY <1>0, IdleTypes DEF TypeOK, FailWith, WorkerState, Errors, Idle
  <2>3. /\ w.pc = "markMissing" /\ queue' = queue
        /\ PatchStatus(producerNotFound(WObj), applied, ok, next)
    BY <1>2 DEF MarkMissing
  <2> HIDE DEF next
  <2>4. SpecsKept /\ WatchersKept /\ w'.pc = next.pc /\ w'.req = next.req
    BY <1>0, <2>1, <2>2, <2>3, PatchMoves
  <2> QED
    BY <1>1, <2>2, <2>3, <2>4 DEF Moves, LateMove, Failed, Over
<1>3. CASE SetReady(applied, ok)
  <2>1. ReadyStatus \in Status
    BY <1>0, WObjType, StatusWriters DEF ReadyStatus
  <2>2. /\ w.pc = "ready" /\ queue' = IF ok THEN queue ELSE queue \cup {w.req}
        /\ PatchStatus(ReadyStatus, applied, ok, Idle)
    BY <1>3 DEF SetReady
  <2>3. SpecsKept /\ WatchersKept /\ w'.pc = "idle"
    BY <1>0, <2>1, <2>2, PatchMoves, IdleTypes DEF Idle
  <2> QED
    BY <1>1, <2>2, <2>3 DEF Moves, LateMove, Retried, Over
<1>4. CASE RecordFailure(applied, ok)
  <2> DEFINE status == serviceAccountFailed(WObj, ReasonFor(w.error), w.error)
  <2>1. w.error \in Messages /\ ReasonFor(w.error) \in Reasons
    BY DEF TypeOK, WorkerState, Messages, ReasonFor, Reasons
  <2>2. status \in Status
    BY <1>0, <2>1, WObjType, StatusWriters
  <2>3. /\ queue' = queue \cup {w.req}
        /\ PatchStatus(status, applied, ok, Idle)
    BY <1>4 DEF RecordFailure
  <2> HIDE DEF status
  <2>4. SpecsKept /\ WatchersKept /\ w'.pc = "idle"
    BY <1>0, <2>2, <2>3, PatchMoves, IdleTypes DEF Idle
  <2> QED
    BY <1>1, <2>3, <2>4 DEF Moves, LateMove, Retried
<1> QED
  BY <1>2, <1>3, <1>4

(* Every step of a reconcile after its watcher is set.                     *)
LEMMA LateMoves ==
  ASSUME TypeOK, LateStep
  PROVE  Moves
BY LookupMoves, ProducerMoves, SecretCallMoves, StatusMoves DEF LateStep

(* The steps of rotation jobs, users, the garbage collector and services   *)
(* that leave the worker, the caches and the specs alone.                  *)
OtherStep ==
  \/ \E r \in Requests : \/ CronFires(r) \/ RotationJob(r)
                         \/ DeletionTimeout(r) \/ WriteMigrationSecret(r)
  \/ \E n \in SecretNames : \/ CollectGarbage(n) \/ DeleteSecret(n)
                            \/ CreateForeignSecret(n)
  \/ \E p \in Producers : ChangeProducer(p) \/ StopService(p) \/ StartService(p)
  \/ UNCHANGED vars

(* The steps of a rotation job: its patch changes no spec, its deletion    *)
(* leaves a tomb (rotateSaSecretFunc).                                     *)
LEMMA JobMoves ==
  ASSUME TypeOK, NEW r \in Requests, CronFires(r) \/ RotationJob(r)
  PROVE  Moves
<1> USE DEF producerVars
<1>0. MySecret(r) \in SecretNames
  BY NamesAssumption DEF MySecret
<1>1. CASE CronFires(r) \/ JobCheck(r)
  <2>1. Rests /\ UNCHANGED <<clusterVars, params, cacheVars, watch>>
    BY <1>1 DEF CronFires, JobCheck, Rests
  <2> QED
    BY <2>1, NothingMoves DEF Moves
<1>2. ASSUME NEW applied \in BOOLEAN, NEW ok \in BOOLEAN,
             JobPatch(r, applied, ok)
      PROVE  Moves
  <2> DEFINE o == JObj(r)
             new == serviceAccountNotReadyForRotation(o)
             patched == Patched(r, o, new)
             refreshed == AfterPatch(r, o, new, ok)
  <2>1. o \in Sare /\ sare[r] \in Sare /\ (~job[r].cancelled => o = watch[r].obj)
    BY DEF JObj, TypeOK, Job, Watch
  <2>2. /\ patched.phase = sare[r].phase /\ patched.gen = sare[r].gen
        /\ patched.rotation = sare[r].rotation
        /\ patched.finalizer = sare[r].finalizer
    BY <2>1 DEF Patched, Sare
  <2>3. refreshed.gen \in {o.gen, sare[r].gen}
    BY <2>1, <2>2 DEF AfterPatch, Patched, Sare
  <2>4. /\ sare' = IF applied THEN [sare EXCEPT ![r] = patched] ELSE sare
        /\ watch' = IF job[r].cancelled THEN watch
                    ELSE [watch EXCEPT ![r].obj = refreshed]
        /\ UNCHANGED <<secret, tombs, params>> /\ CachesKept /\ Rests
    BY <1>2 DEF JobPatch, CachesKept, cacheVars, Rests
  <2> HIDE DEF o, patched, refreshed
  <2>5. SpecsKept
    BY <2>2, <2>4 DEF TypeOK, SpecsKept
  <2>6. WatchersKept
    BY <2>1, <2>3, <2>4 DEF TypeOK, Watch, WatchersKept
  <2> QED
    BY <2>4, <2>5, <2>6, SecretsStay DEF Moves, ParamsMove
<1>3. ASSUME NEW applied \in BOOLEAN, JobDelete(r, applied)
      PROVE  Moves
  <2>1. /\ UNCHANGED <<sare, watch, params>> /\ CachesKept /\ Rests
        /\ RemoveSecret(MySecret(r)) \/ UNCHANGED <<secret, tombs>>
    BY <1>3 DEF JobDelete, CachesKept, Rests
  <2> QED
    BY <1>0, <2>1, RemovalMoves, SecretsStay
       DEF Moves, SpecsKept, WatchersKept, ParamsMove
<1> QED
  BY <1>1, <1>2, <1>3 DEF RotationJob

(* Every step of the jobs, users and services is a move of its kind.       *)
LEMMA OtherMoves ==
  ASSUME TypeOK, OtherStep
  PROVE  Moves
<1> USE DEF producerVars, rotationVars
<1>1. ASSUME NEW r \in Requests,
             DeletionTimeout(r) \/ WriteMigrationSecret(r)
      PROVE  Moves
  <2>1. UNCHANGED <<sare, secret, tombs, params, watch>> /\ CachesKept /\ Rests
    BY <1>1 DEF DeletionTimeout, WriteMigrationSecret, CachesKept, Rests,
                clusterVars, cacheVars
  <2> QED
    BY <2>1, SecretsStay DEF Moves, SpecsKept, WatchersKept, ParamsMove
<1>2. ASSUME NEW n \in SecretNames, CollectGarbage(n) \/ DeleteSecret(n)
      PROVE  Moves
  <2>1. /\ UNCHANGED <<sare, watch, params>> /\ CachesKept /\ Rests
        /\ RemoveSecret(n)
    BY <1>2 DEF CollectGarbage, DeleteSecret, CachesKept, Rests
  <2> QED
    BY <2>1, RemovalMoves DEF Moves, SpecsKept, WatchersKept, ParamsMove
<1>3. ASSUME NEW n \in SecretNames, CreateForeignSecret(n)
      PROVE  Moves
  <2>1. /\ UNCHANGED <<sare, watch, params, tombs>> /\ CachesKept /\ Rests
        /\ secret[n] = NoSecret
        /\ secret' = [secret EXCEPT ![n].owner = Foreign]
    BY <1>3 DEF CreateForeignSecret, CachesKept, cacheVars, Rests
  <2>2. SecretsMove
    BY <2>1 DEF TypeOK, Secret, NoSecret, SecretsMove, SecretMoves
  <2> QED
    BY <2>1, <2>2 DEF Moves, SpecsKept, WatchersKept, ParamsMove
<1>4. ASSUME NEW p \in Producers,
             ChangeProducer(p) \/ StopService(p) \/ StartService(p)
      PROVE  Moves
  <2>1. UNCHANGED <<sare, secret, tombs, params, watch>> /\ CachesKept /\ Rests
    BY <1>4 DEF ChangeProducer, StopService, StartService, CachesKept, Rests,
                clusterVars, cacheVars
  <2> QED
    BY <2>1, SecretsStay DEF Moves, SpecsKept, WatchersKept, ParamsMove
<1>5. CASE UNCHANGED vars
  <2>1. UNCHANGED <<clusterVars, params, cacheVars, watch>> /\ Rests
    BY <1>5 DEF vars, clusterVars, cacheVars, Rests
  <2> QED
    BY <2>1, NothingMoves DEF Moves
<1> QED
  BY <1>1, <1>2, <1>3, <1>4, <1>5, JobMoves DEF OtherStep

-----------------------------------------------------------------------------
(* What the other steps do, in the same terms.                             *)

(* The steps up to the watcher.                                            *)
LEMMA EarlyMoves ==
  ASSUME TypeOK,
         \/ CheckSecretExists
         \/ \E applied, ok \in BOOLEAN : AddFinalizer(applied, ok)
  PROVE  /\ Failed \/ Retried
            \/ /\ w.pc \in {"finalizer", "exists"}
               /\ w'.pc \in {"exists", "watch"} /\ queue' = queue
               /\ w'.req = w.req /\ w'.bound = w.bound
               /\ w'.obj.phase = w.obj.phase /\ w'.obj.gen = w.obj.gen
               /\ w'.obj.rotation = w.obj.rotation
               /\ w'.seen => w.seen \/ seenSecret[MySecret(w.req)].owner = w.req
         /\ \A r \in Requests :
              /\ sare'[r].phase = sare[r].phase /\ sare'[r].gen = sare[r].gen
              /\ sare'[r].rotation = sare[r].rotation
              /\ sare[r].finalizer => sare'[r].finalizer
         /\ UNCHANGED <<secret, tombs, params, watch>> /\ CachesKept
<1> USE DEF clusterVars, cacheVars, rotationVars, producerVars, CachesKept
<1>1. CASE CheckSecretExists
  <2>1. /\ w.pc = "exists" /\ queue' = queue
        /\ \/ w' = FailWith("secret")
           \/ /\ \/ seenSecret[MySecret(w.req)] = NoSecret
                 \/ seenSecret[MySecret(w.req)].owner = w.req
              /\ w' = [w EXCEPT !.pc = "watch",
                          !.seen = (seenSecret[MySecret(w.req)] # NoSecret)]
    BY <1>1 DEF CheckSecretExists, IsControlledBy
  <2>2. UNCHANGED <<sare, secret, tombs, params, watch>> /\ CachesKept
    BY <1>1 DEF CheckSecretExists
  <2> QED
    BY <2>1, <2>2 DEF TypeOK, WorkerState, FailWith, Failed
<1>2. ASSUME NEW applied \in BOOLEAN, NEW ok \in BOOLEAN,
             AddFinalizer(applied, ok)
      PROVE  /\ \/ Retried
                \/ /\ w.pc = "finalizer"
                   /\ w'.pc = "exists" /\ queue' = queue
                   /\ w'.req = w.req /\ w'.bound = w.bound
                   /\ w'.obj.phase = w.obj.phase /\ w'.obj.gen = w.obj.gen
                   /\ w'.obj.rotation = w.obj.rotation
                   /\ w'.seen = w.seen
             /\ \A r \in Requests :
                  /\ sare'[r].phase = sare[r].phase /\ sare'[r].gen = sare[r].gen
                  /\ sare'[r].rotation = sare[r].rotation
                  /\ sare[r].finalizer => sare'[r].finalizer
             /\ UNCHANGED <<secret, tombs, params, watch>> /\ CachesKept
  <2> DEFINE o == [w.obj EXCEPT !.finalizer = TRUE]
  <2>1. /\ w.pc = "finalizer" /\ w.req \in Requests
        /\ applied => sare[w.req] = w.obj
        /\ sare' = IF applied THEN [sare EXCEPT ![w.req] = o] ELSE sare
        /\ UNCHANGED <<secret, tombs, params, watch>> /\ CachesKept
    BY <1>2 DEF AddFinalizer, Call, TypeOK
  <2>2. /\ o.phase = w.obj.phase /\ o.gen = w.obj.gen
        /\ o.rotation = w.obj.rotation /\ o.finalizer
    BY DEF TypeOK, WorkerState, Sare
  <2>3. CASE ok
    <3>1. queue' = queue /\ w' = [w EXCEPT !.pc = "exists", !.obj = o]
      BY <1>2, <2>3 DEF AddFinalizer
    <3> HIDE DEF o
    <3> QED
      BY <2>1, <2>2, <3>1 DEF TypeOK, WorkerState
  <2>4. CASE ~ok
    <3>1. w' = Idle /\ queue' = queue \cup {w.req}
      BY <1>2, <2>4 DEF AddFinalizer, Finish
    <3>2. Retried
      BY <3>1 DEF Retried, Idle
    <3> HIDE DEF o
    <3> QED
      BY <2>1, <2>2, <3>2 DEF TypeOK
  <2> QED
    BY <2>3, <2>4
<1> QED
  BY <1>1, <1>2

(* Taking a request up, and the watcher that goes with it.                 *)
DequeueOf(r) == w.pc = "idle" /\ r \in queue /\ queue' = queue \ {r}
RestKept ==
  UNCHANGED <<sare, secret, tombs, params>> /\ CachesKept

LEMMA DequeueMoves ==
  ASSUME TypeOK, NEW r \in Requests,
         ReconcileSkip(r) \/ ReconcileLive(r) \/ ReconcileDeleting(r)
  PROVE  /\ DequeueOf(r) /\ RestKept
         /\ \/ /\ ~Present(seenSare[r]) /\ w' = w /\ watch' = watch
            \/ /\ seenSare[r].phase = "live" /\ watch' = watch
               /\ w'.pc \in {"finalizer", "exists"} /\ w'.req = r
               /\ w'.obj = seenSare[r] /\ ~w'.bound /\ ~w'.seen
            \/ /\ seenSare[r].phase = "deleting"
               /\ watch' = [watch EXCEPT ![r] = NoWatch]
               /\ \/ w'.pc = "idle"
                  \/ w'.pc \in DeletePcs /\ w'.req = r
<1> USE DEF clusterVars, cacheVars, rotationVars, producerVars, CachesKept
<1>1. DequeueOf(r) /\ RestKept
  BY DEF ReconcileSkip, ReconcileLive, ReconcileDeleting, Dequeue, DequeueOf,
         RestKept
<1>2. CASE ReconcileSkip(r)
  BY <1>1, <1>2 DEF ReconcileSkip
<1>3. CASE ReconcileLive(r)
  <2>1. /\ seenSare[r].phase = "live" /\ watch' = watch
        /\ w'.pc \in {"finalizer", "exists"} /\ w'.req = r
        /\ w'.obj = seenSare[r] /\ ~w'.bound /\ ~w'.seen
    BY <1>3 DEF ReconcileLive, FirstStep, Idle
  <2> QED
    BY <1>1, <2>1
<1>4. CASE ReconcileDeleting(r)
  <2> DEFINE pc == FirstDeleteStep(r, seenSare[r])
  <2>1. pc \in {"idle", "release", "dGet"}
    BY DEF FirstDeleteStep
  <2>2. /\ seenSare[r].phase = "deleting"
        /\ watch' = [watch EXCEPT ![r] = NoWatch]
        /\ w' = IF pc = "idle" THEN Idle
                ELSE [Idle EXCEPT !.pc = pc, !.req = r, !.obj = seenSare[r],
                        !.outcome = IF pc = "release" THEN "abandoned" ELSE "none"]
    BY <1>4 DEF ReconcileDeleting
  <2> HIDE DEF pc
  <2>3. \/ w'.pc = "idle"
        \/ w'.pc \in DeletePcs /\ w'.req = r
    BY <2>1, <2>2 DEF Idle, DeletePcs
  <2> QED
    BY <1>1, <2>2, <2>3
<1> QED
  BY <1>2, <1>3, <1>4

(* handleSaRotationWatcher: the watcher is what the object asks for.       *)
LEMMA WatcherMoves ==
  ASSUME TypeOK, SetRotation
  PROVE  /\ w.pc = "watch" /\ RestKept /\ queue' = queue
         /\ \A q \in Requests \ {w.req} : watch'[q] = watch[q]
         /\ \/ /\ w.obj.rotation = "on"
               /\ watch'[w.req].armed /\ watch'[w.req].obj = w.obj
               /\ w'.pc = "sapr" /\ w'.req = w.req /\ w'.seen = w.seen
               /\ w'.bound
            \/ /\ w.obj.rotation = "off" /\ watch'[w.req] = NoWatch
               /\ w'.pc = "sapr" /\ w'.req = w.req /\ w'.seen = w.seen
               /\ w'.bound = w.bound /\ w'.obj = w.obj
            \/ watch'[w.req] = NoWatch /\ Failed
<1>1. w.req \in Requests /\ w.obj.rotation \in {"off", "on", "invalid"}
  BY DEF TypeOK, SetRotation, WorkerState, Sare
<1>2. w.pc = "watch" /\ RestKept /\ queue' = queue
  BY DEF SetRotation, RestKept, CachesKept, clusterVars, cacheVars, producerVars
<1>3. watch' = [watch EXCEPT ![w.req] =
        IF w.obj.rotation = "on" THEN [armed |-> TRUE, obj |-> w.obj]
        ELSE NoWatch]
  BY DEF SetRotation
<1>4. CASE w.obj.rotation = "on"
  <2>1. watch'[w.req].armed /\ watch'[w.req].obj = w.obj
    BY <1>1, <1>3, <1>4 DEF TypeOK
  <2>2. w' = [w EXCEPT !.pc = "sapr", !.bound = TRUE, !.obj = NewSare]
    BY <1>4 DEF SetRotation
  <2>3. /\ w'.pc = "sapr" /\ w'.req = w.req /\ w'.seen = w.seen
        /\ w'.bound
    BY <2>2 DEF TypeOK, WorkerState
  <2>4. \A q \in Requests \ {w.req} : watch'[q] = watch[q]
    BY <1>3 DEF TypeOK
  <2> QED
    BY <1>2, <1>4, <2>1, <2>3, <2>4
<1>5. CASE w.obj.rotation = "off"
  BY <1>1, <1>2, <1>3, <1>5 DEF TypeOK, WorkerState, SetRotation, GoTo
<1>6. CASE w.obj.rotation = "invalid"
  BY <1>1, <1>2, <1>3, <1>6 DEF TypeOK, WorkerState, SetRotation, FailWith, Failed
<1> QED
  BY <1>1, <1>4, <1>5, <1>6

(* removeFinalizer ends the reconcile and, at most, the SARE.              *)
LEMMA ReleaseMoves ==
  ASSUME TypeOK, NEW applied \in BOOLEAN, NEW ok \in BOOLEAN,
         Release(applied, ok)
  PROVE  /\ w.pc = "release" /\ w'.pc = "idle" /\ queue \subseteq queue'
         /\ UNCHANGED <<secret, tombs, params, watch>> /\ CachesKept
         /\ \A r \in Requests : sare'[r].gen = sare[r].gen
         /\ \A r \in Requests \ {w.req} : sare'[r] = sare[r]
         /\ sare'[w.req].phase \in {sare[w.req].phase, "gone"}
         /\ sare'[w.req].rotation = sare[w.req].rotation
<1>1. w' = Idle /\ queue' \in {queue, queue \cup {w.req}}
  BY DEF Release, Finish
<1>2. /\ w.pc = "release" /\ w.req \in Requests
      /\ UNCHANGED <<secret, tombs, params, watch>> /\ CachesKept
  BY DEF Release, TypeOK, CachesKept, cacheVars, producerVars, rotationVars
<1> DEFINE gone == [sare[w.req] EXCEPT !.phase = "gone", !.finalizer = FALSE]
<1>3. sare' = sare \/ sare' = [sare EXCEPT ![w.req] = gone]
  BY DEF Release
<1>4. /\ gone.phase = "gone" /\ gone.gen = sare[w.req].gen
      /\ gone.rotation = sare[w.req].rotation
  BY <1>2 DEF TypeOK, Sare
<1> HIDE DEF gone
<1>5. /\ \A r \in Requests : sare'[r].gen = sare[r].gen
      /\ \A r \in Requests \ {w.req} : sare'[r] = sare[r]
      /\ sare'[w.req].phase \in {sare[w.req].phase, "gone"}
      /\ sare'[w.req].rotation = sare[w.req].rotation
  BY <1>2, <1>3, <1>4 DEF TypeOK
<1> QED
  BY <1>1, <1>2, <1>5 DEF Idle

(* Users apply, change and delete SAREs.                                   *)
LEMMA SpecMoves ==
  ASSUME TypeOK, NEW r \in Requests,
         ApplyRequest(r) \/ ChangeRequest(r) \/ DeleteRequest(r)
  PROVE  /\ UNCHANGED <<secret, tombs, params, watch>> /\ CachesKept /\ Rests
         /\ \A q \in Requests \ {r} : sare'[q] = sare[q]
         /\ \/ /\ sare[r].phase = "new" /\ sare'[r].phase = "live"
               /\ sare'[r].gen = 1
            \/ /\ sare[r].phase = "live"
               /\ sare'[r].phase \in {"live", "deleting"}
               /\ sare'[r].gen = sare[r].gen + 1
               /\ sare'[r].finalizer = sare[r].finalizer
            \/ /\ sare[r].phase = "live" /\ ~sare[r].finalizer
               /\ sare'[r].phase = "gone" /\ sare'[r].gen = sare[r].gen
<1> USE DEF cacheVars, producerVars, rotationVars, Rests, CachesKept
<1>1. CASE ApplyRequest(r)
  <2>1. PICK rotation \in Rotations, optional \in Optionals :
          sare' = [sare EXCEPT ![r] = [NewSare EXCEPT !.phase = "live",
                                         !.gen = 1, !.rotation = rotation,
                                         !.optional = optional]]
    BY <1>1 DEF ApplyRequest
  <2>2. sare'[r].phase = "live" /\ sare'[r].gen = 1
    BY <2>1 DEF TypeOK, NewSare
  <2> QED
    BY <1>1, <2>1, <2>2 DEF ApplyRequest, TypeOK
<1>2. CASE ChangeRequest(r)
  <2>1. PICK rotation \in Rotations, optional \in Optionals :
          sare' = [sare EXCEPT ![r].gen = @ + 1, ![r].rotation = rotation,
                               ![r].optional = optional]
    BY <1>2 DEF ChangeRequest
  <2>2. /\ sare'[r].phase = sare[r].phase /\ sare'[r].gen = sare[r].gen + 1
        /\ sare'[r].finalizer = sare[r].finalizer
        /\ \A q \in Requests \ {r} : sare'[q] = sare[q]
    BY <2>1 DEF TypeOK, Sare
  <2> QED
    BY <1>2, <2>2 DEF ChangeRequest
<1>3. CASE DeleteRequest(r)
  <2>1. CASE sare[r].finalizer
    BY <1>3, <2>1 DEF DeleteRequest, TypeOK, Sare
  <2>2. CASE ~sare[r].finalizer
    BY <1>3, <2>2 DEF DeleteRequest, TypeOK, Sare
  <2> QED
    BY <2>1, <2>2
<1> QED
  BY <1>1, <1>2, <1>3

(* A restart: no worker, no watcher, current caches, and every SARE there  *)
(* is in the queue.                                                        *)
LEMMA RestartMoves ==
  ASSUME TypeOK, Crash
  PROVE  /\ w'.pc = "idle" /\ watch' = [r \in Requests |-> NoWatch]
         /\ UNCHANGED <<sare, secret, params>>
         /\ seenSare' = sare /\ seenSecret' = secret
         /\ queue' = {r \in Requests : Present(sare[r])}
<1>1. /\ w' = Idle /\ watch' = [r \in Requests |-> NoWatch]
      /\ UNCHANGED <<sare, secret, params>>
      /\ seenSare' = sare /\ seenSecret' = secret
      /\ queue' = {r \in Requests : Present(sare[r])}
  BY DEF Crash, Restart, clusterVars, producerVars
<1>2. w'.pc = "idle"
  BY <1>1 DEF Idle
<1> QED
  BY <1>1, <1>2

(* Every step is one of these.                                             *)
LEMMA Steps ==
  ASSUME [Next]_vars
  PROVE  \/ LateStep \/ OtherStep
         \/ CheckSecretExists \/ SetRotation
         \/ \E applied, ok \in BOOLEAN :
              AddFinalizer(applied, ok) \/ Release(applied, ok)
         \/ \E r \in Requests :
              \/ ReconcileSkip(r) \/ ReconcileLive(r) \/ ReconcileDeleting(r)
              \/ ApplyRequest(r) \/ ChangeRequest(r) \/ DeleteRequest(r)
              \/ SyncSare(r)
         \/ \E n \in SecretNames : SyncSecret(n)
         \/ \E p \in Producers : SyncSapr(p)
         \/ Crash
<1>1. CASE WorkerStep
  BY <1>1, Zenon DEF WorkerStep, LateStep
<1>2. CASE \E r \in Requests : CronFires(r) \/ RotationJob(r)
  BY <1>2 DEF OtherStep
<1>3. CASE Environment
  BY <1>3 DEF Environment, OtherStep
<1> QED
  BY <1>1, <1>2, <1>3 DEF Next, Operator, Informers, OtherStep

-----------------------------------------------------------------------------
(* Rotation watchers.                                                      *)

(* Moves keep RotationInv: it speaks of specs, watchers and the worker     *)
(* before the watcher, which they leave alone.                             *)
LEMMA RotationFrame ==
  ASSUME TypeOK, RotationInv, Moves
  PROVE  RotationInv'
<1> USE DEF EarlyPcs
<1>0. w.pc # "idle" => w.req \in Requests
  BY DEF TypeOK
<1>1. /\ \/ Failed \/ Retried \/ Over({"markMissing", "ready"})
         \/ Proceeds \/ Rests
      /\ SpecsKept /\ WatchersKept /\ UNCHANGED seenSare
  BY DEF Moves, LateMove, CachesKept
<1>2. /\ w'.pc \in EarlyPcs => Rests
      /\ w'.pc \in DeletePcs => w.pc \in DeletePcs /\ w'.req = w.req
      /\ queue \subseteq queue'
  BY <1>1 DEF Failed, Retried, Over, Proceeds, GoesOn, Rests, DeletePcs
<1>3. \A r \in Requests : CachedSpec(r)'
  BY <1>1 DEF RotationInv, CachedSpec, SpecsKept, Present
<1>4. CurrentSpec'
  BY <1>1, <1>2 DEF RotationInv, CurrentSpec, Rests
<1>5. WatcherStopsFirst'
  BY <1>0, <1>1, <1>2 DEF RotationInv, WatcherStopsFirst, WatchersKept, DeletePcs
<1>6. \A r \in Requests : WatcherHasRequest(r)'
  BY <1>1 DEF RotationInv, WatcherHasRequest, SpecsKept, WatchersKept, Present
<1>7. ASSUME NEW r \in Requests
      PROVE  WatcherDecided(r)'
  <2>1. LookedAtAgain(r, EarlyPcs) => LookedAtAgain(r, EarlyPcs)'
    BY <1>1, <1>2 DEF LookedAtAgain, InStep, Failed, Retried, Over, Proceeds,
                      GoesOn, Rests, DeletePcs
  <2> QED
    BY <1>1, <2>1 DEF RotationInv, WatcherDecided, WatchersKept
<1> QED
  BY <1>3, <1>4, <1>5, <1>6, <1>7 DEF RotationInv

(* A request is taken up: its watcher is decided in this reconcile, or was *)
(* just stopped, or there is none (a SARE that is gone has no watcher).    *)
LEMMA RotationDequeue ==
  ASSUME TypeOK, RotationInv, NEW r \in Requests,
         ReconcileSkip(r) \/ ReconcileLive(r) \/ ReconcileDeleting(r)
  PROVE  RotationInv'
<1> USE DEF EarlyPcs
<1>1. /\ w.pc = "idle" /\ queue' = queue \ {r}
      /\ UNCHANGED <<sare, seenSare>>
  BY DequeueMoves DEF DequeueOf, RestKept, CachesKept
<1>2. \A q \in Requests \ {r} :
        (watch[q].armed <=> seenSare[q].phase = "live"
                            /\ seenSare[q].rotation = "on") \/ q \in queue
  BY <1>1 DEF RotationInv, WatcherDecided, LookedAtAgain, InStep
<1>3. \A q \in Requests : CachedSpec(q)'
  BY <1>1 DEF RotationInv, CachedSpec, Present
<1>4. CASE ~Present(seenSare[r]) /\ w' = w /\ watch' = watch
  <2>1. ~watch[r].armed
    BY <1>4 DEF RotationInv, WatcherHasRequest, CachedSpec, Present, TypeOK,
                Sare, Phases
  <2>2. \A q \in Requests : WatcherDecided(q)'
    BY <1>1, <1>2, <1>4, <2>1 DEF WatcherDecided, LookedAtAgain, Present
  <2>3. \A q \in Requests : WatcherHasRequest(q)'
    BY <1>1, <1>4 DEF RotationInv, WatcherHasRequest, Present
  <2>4. CurrentSpec' /\ WatcherStopsFirst'
    BY <1>1, <1>4 DEF CurrentSpec, WatcherStopsFirst, DeletePcs
  <2> QED
    BY <1>3, <2>2, <2>3, <2>4 DEF RotationInv
<1>5. CASE /\ seenSare[r].phase = "live" /\ watch' = watch
           /\ w'.pc \in {"finalizer", "exists"} /\ w'.req = r
           /\ w'.obj = seenSare[r] /\ ~w'.bound
  <2>1. \A q \in Requests : WatcherDecided(q)'
    BY <1>1, <1>2, <1>5 DEF WatcherDecided, LookedAtAgain, InStep
  <2>2. \A q \in Requests : WatcherHasRequest(q)'
    BY <1>1, <1>5 DEF RotationInv, WatcherHasRequest, Present
  <2>3. CurrentSpec' /\ WatcherStopsFirst'
    BY <1>1, <1>5 DEF CurrentSpec, WatcherStopsFirst, DeletePcs
  <2> QED
    BY <1>3, <2>1, <2>2, <2>3 DEF RotationInv
<1>6. CASE /\ seenSare[r].phase = "deleting"
           /\ watch' = [watch EXCEPT ![r] = NoWatch]
           /\ \/ w'.pc = "idle"
              \/ w'.pc \in DeletePcs /\ w'.req = r
  <2>1. ~watch'[r].armed /\ \A q \in Requests \ {r} : watch'[q] = watch[q]
    BY <1>6 DEF TypeOK, NoWatch
  <2>2. \A q \in Requests : WatcherDecided(q)'
    BY <1>1, <1>2, <1>6, <2>1 DEF WatcherDecided, LookedAtAgain
  <2>3. \A q \in Requests : WatcherHasRequest(q)'
    BY <1>1, <2>1 DEF RotationInv, WatcherHasRequest, Present
  <2>4. CurrentSpec' /\ WatcherStopsFirst'
    BY <1>6, <2>1 DEF CurrentSpec, WatcherStopsFirst, DeletePcs
  <2> QED
    BY <1>3, <2>2, <2>3, <2>4 DEF RotationInv
<1> QED
  BY <1>4, <1>5, <1>6, DequeueMoves

(* The steps before the watcher keep the object of the reconcile.          *)
LEMMA RotationEarly ==
  ASSUME TypeOK, RotationInv,
         \/ CheckSecretExists
         \/ \E applied, ok \in BOOLEAN : AddFinalizer(applied, ok)
  PROVE  RotationInv'
<1> USE DEF EarlyPcs
<1>1. /\ \/ Failed \/ Retried
         \/ /\ w.pc \in {"finalizer", "exists"}
            /\ w'.pc \in {"exists", "watch"} /\ queue' = queue
            /\ w'.req = w.req /\ w'.bound = w.bound
            /\ w'.obj.phase = w.obj.phase /\ w'.obj.gen = w.obj.gen
            /\ w'.obj.rotation = w.obj.rotation
      /\ \A r \in Requests :
           /\ sare'[r].phase = sare[r].phase /\ sare'[r].gen = sare[r].gen
           /\ sare'[r].rotation = sare[r].rotation
           /\ sare[r].finalizer => sare'[r].finalizer
      /\ UNCHANGED <<seenSare, watch>>
  BY EarlyMoves DEF CachesKept
<1>2. \A r \in Requests : CachedSpec(r)'
  BY <1>1 DEF RotationInv, CachedSpec, Present
<1>3. CurrentSpec'
  BY <1>1 DEF RotationInv, CurrentSpec, Failed, Retried
<1>4. WatcherStopsFirst'
  BY <1>1 DEF WatcherStopsFirst, Failed, Retried, DeletePcs
<1>5. \A r \in Requests : WatcherHasRequest(r)'
  BY <1>1 DEF RotationInv, WatcherHasRequest, Present
<1>6. ASSUME NEW r \in Requests
      PROVE  WatcherDecided(r)'
  <2>1. LookedAtAgain(r, EarlyPcs) => LookedAtAgain(r, EarlyPcs)'
    BY <1>1 DEF LookedAtAgain, InStep, Failed, Retried
  <2> QED
    BY <1>1, <2>1 DEF RotationInv, WatcherDecided
<1> QED
  BY <1>2, <1>3, <1>4, <1>5, <1>6 DEF RotationInv

(* The watcher becomes what the spec in the cache asks for, or the request *)
(* is in the queue.                                                        *)
LEMMA RotationWatcher ==
  ASSUME TypeOK, AccountInv, RotationInv, SetRotation
  PROVE  RotationInv'
<1> USE DEF EarlyPcs
<1>1. /\ w.pc = "watch" /\ queue' = queue /\ UNCHANGED <<sare, seenSare>>
      /\ w.req \in Requests
      /\ \A q \in Requests \ {w.req} : watch'[q] = watch[q]
      /\ \/ /\ w.obj.rotation = "on" /\ watch'[w.req].armed
            /\ w'.pc = "sapr" /\ w'.req = w.req
         \/ /\ w.obj.rotation = "off" /\ ~watch'[w.req].armed
            /\ w'.pc = "sapr" /\ w'.req = w.req
         \/ ~watch'[w.req].armed /\ w'.pc = "fail" /\ w'.req = w.req
  BY WatcherMoves DEF RestKept, CachesKept, Failed, NoWatch, TypeOK
<1>2. /\ Present(sare[w.req]) /\ sare[w.req].finalizer
      /\ seenSare[w.req].phase # "new"
      /\ \/ w.req \in queue
         \/ /\ seenSare[w.req].phase = "live"
            /\ seenSare[w.req].rotation = w.obj.rotation
  BY <1>1 DEF AccountInv, WorkerInv, UpdatePcs, RotationInv, CurrentSpec
<1>3. \A r \in Requests : CachedSpec(r)'
  BY <1>1 DEF RotationInv, CachedSpec, Present
<1>4. CurrentSpec' /\ WatcherStopsFirst'
  BY <1>1 DEF CurrentSpec, WatcherStopsFirst, DeletePcs
<1>5. \A r \in Requests : WatcherHasRequest(r)'
  BY <1>1, <1>2 DEF RotationInv, WatcherHasRequest, Present
<1>6. ASSUME NEW r \in Requests
      PROVE  WatcherDecided(r)'
  <2>1. CASE r = w.req
    BY <1>1, <1>2, <2>1 DEF WatcherDecided, LookedAtAgain, InStep
  <2>2. CASE r # w.req
    BY <1>1, <2>2 DEF RotationInv, WatcherDecided, LookedAtAgain, InStep
  <2> QED
    BY <2>1, <2>2
<1> QED
  BY <1>3, <1>4, <1>5, <1>6 DEF RotationInv

(* The finalizer goes after the watcher.                                   *)
LEMMA RotationRelease ==
  ASSUME TypeOK, RotationInv, NEW applied \in BOOLEAN, NEW ok \in BOOLEAN,
         Release(applied, ok)
  PROVE  RotationInv'
<1> USE DEF EarlyPcs
<1>1. /\ w.pc = "release" /\ w'.pc = "idle" /\ queue \subseteq queue'
      /\ UNCHANGED <<seenSare, watch>>
      /\ \A r \in Requests : sare'[r].gen = sare[r].gen
      /\ \A r \in Requests \ {w.req} : sare'[r] = sare[r]
      /\ sare'[w.req].phase \in {sare[w.req].phase, "gone"}
      /\ sare'[w.req].rotation = sare[w.req].rotation
  BY ReleaseMoves DEF CachesKept
<1>2. ~watch[w.req].armed
  BY <1>1 DEF RotationInv, WatcherStopsFirst, DeletePcs
<1>3. \A r \in Requests : CachedSpec(r)'
  BY <1>1 DEF RotationInv, CachedSpec, Present
<1>4. CurrentSpec' /\ WatcherStopsFirst'
  BY <1>1 DEF CurrentSpec, WatcherStopsFirst, DeletePcs
<1>5. \A r \in Requests : WatcherHasRequest(r)'
  BY <1>1, <1>2 DEF RotationInv, WatcherHasRequest, Present
<1>6. \A r \in Requests : WatcherDecided(r)'
  BY <1>1 DEF RotationInv, WatcherDecided, LookedAtAgain, InStep
<1> QED
  BY <1>3, <1>4, <1>5, <1>6 DEF RotationInv

(* A change that the predicate lets through queues the request, one that   *)
(* it holds back shows nothing new.                                        *)
LEMMA QuietUpdates ==
  ASSUME TypeOK, NEW r \in Requests, CachedSpec(r),
         ~Notifies(seenSare[r], sare[r])
  PROVE  /\ seenSare[r].gen = sare[r].gen
         /\ Present(seenSare[r]) <=> Present(sare[r])
         /\ Present(sare[r]) => /\ seenSare[r].phase = sare[r].phase
                                /\ seenSare[r].rotation = sare[r].rotation
BY DEF CachedSpec, Notifies, Present

(* An informer moves nothing but its cache and the queue.                  *)
LEMMA SyncMoves ==
  ASSUME TypeOK, NEW r \in Requests, SyncSare(r)
  PROVE  /\ seenSare'[r] = sare[r]
         /\ \A q \in Requests \ {r} : seenSare'[q] = seenSare[q]
         /\ queue \subseteq queue'
         /\ Notifies(seenSare[r], sare[r]) => r \in queue'
         /\ UNCHANGED <<sare, secret, params, watch, w, seenSecret, seenSapr,
                        tombs>>
BY DEF SyncSare, TypeOK, clusterVars, producerVars, rotationVars

(* A changed spec in the cache queues its request                          *)
(* (GenerationChangedPredicate).                                           *)
LEMMA RotationSync ==
  ASSUME TypeOK, RotationInv, NEW r \in Requests, SyncSare(r)
  PROVE  RotationInv'
<1> USE DEF EarlyPcs
<1>0. /\ w.pc # "idle" => w.req \in Requests
      /\ sare[r].gen \in Nat
  BY DEF TypeOK, Sare
<1>1. /\ seenSare'[r] = sare[r]
      /\ \A q \in Requests \ {r} : seenSare'[q] = seenSare[q]
      /\ queue \subseteq queue' /\ UNCHANGED <<sare, watch, w>>
  BY SyncMoves
<1>2. \/ r \in queue'
      \/ /\ seenSare[r].gen = sare[r].gen
         /\ Present(seenSare[r]) <=> Present(sare[r])
         /\ Present(sare[r]) => /\ seenSare[r].phase = sare[r].phase
                                /\ seenSare[r].rotation = sare[r].rotation
  BY SyncMoves, QuietUpdates DEF RotationInv
<1>3. \A q \in Requests : CachedSpec(q)'
  BY <1>0, <1>1 DEF RotationInv, CachedSpec, Present
<1>4. CurrentSpec'
  BY <1>0, <1>1, <1>2 DEF RotationInv, CurrentSpec, CachedSpec, Present
<1>5. WatcherStopsFirst'
  BY <1>1 DEF RotationInv, WatcherStopsFirst
<1>6. \A q \in Requests : WatcherHasRequest(q)'
  BY <1>1 DEF RotationInv, WatcherHasRequest, Present
<1>7. ASSUME NEW q \in Requests
      PROVE  WatcherDecided(q)'
  <2>1. CASE q = r
    BY <1>1, <1>2, <2>1 DEF RotationInv, WatcherDecided, LookedAtAgain, InStep,
                            Present
  <2>2. CASE q # r
    BY <1>1, <2>2 DEF RotationInv, WatcherDecided, LookedAtAgain, InStep
  <2> QED
    BY <2>1, <2>2
<1> QED
  BY <1>3, <1>4, <1>5, <1>6, <1>7 DEF RotationInv

(* What users do to the specs is in no cache yet.                          *)
LEMMA RotationSpec ==
  ASSUME TypeOK, RotationInv, NEW r \in Requests,
         ApplyRequest(r) \/ ChangeRequest(r) \/ DeleteRequest(r)
  PROVE  RotationInv'
<1>0. sare[r].gen \in Nat /\ seenSare[r].gen \in Nat
  BY DEF TypeOK, Sare
<1>1. /\ UNCHANGED <<seenSare, watch, w, queue>>
      /\ \A q \in Requests \ {r} : sare'[q] = sare[q]
  BY SpecMoves DEF CachesKept, Rests
<1>2. \/ /\ sare[r].phase = "new" /\ sare'[r].phase = "live"
         /\ sare'[r].gen = 1
      \/ /\ sare[r].phase = "live"
         /\ sare'[r].phase \in {"live", "deleting"}
         /\ sare'[r].gen = sare[r].gen + 1
         /\ sare'[r].finalizer = sare[r].finalizer
      \/ /\ sare[r].phase = "live" /\ ~sare[r].finalizer
         /\ sare'[r].phase = "gone" /\ sare'[r].gen = sare[r].gen
  BY SpecMoves
<1>3. CachedSpec(r)'
  BY <1>0, <1>1, <1>2 DEF RotationInv, CachedSpec, Present
<1>4. \A q \in Requests : CachedSpec(q)'
  BY <1>1, <1>3 DEF RotationInv, CachedSpec, Present
<1>5. \A q \in Requests : WatcherHasRequest(q)'
  BY <1>1, <1>2 DEF RotationInv, WatcherHasRequest, Present
<1>6. \A q \in Requests : WatcherDecided(q)'
  BY <1>1 DEF RotationInv, WatcherDecided, LookedAtAgain, InStep
<1>7. CurrentSpec' /\ WatcherStopsFirst'
  BY <1>1 DEF RotationInv, CurrentSpec, WatcherStopsFirst
<1> QED
  BY <1>4, <1>5, <1>6, <1>7 DEF RotationInv

(* A restart has no watchers and queues every SARE there is.               *)
LEMMA RotationCrash ==
  ASSUME TypeOK, RotationInv, Crash
  PROVE  RotationInv'
<1>1. /\ w'.pc = "idle" /\ seenSare' = sare /\ sare' = sare
      /\ \A r \in Requests : ~watch'[r].armed
      /\ queue' = {r \in Requests : Present(sare[r])}
  BY RestartMoves DEF NoWatch
<1>2. \A r \in Requests : CachedSpec(r)'
  BY <1>1 DEF RotationInv, CachedSpec, Present, TypeOK, Sare
<1>3. \A r \in Requests : WatcherHasRequest(r)' /\ WatcherDecided(r)'
  BY <1>1 DEF WatcherHasRequest, WatcherDecided, LookedAtAgain, Present
<1>4. CurrentSpec' /\ WatcherStopsFirst'
  BY <1>1 DEF CurrentSpec, WatcherStopsFirst, EarlyPcs, DeletePcs
<1> QED
  BY <1>2, <1>3, <1>4 DEF RotationInv

(* Every step keeps RotationInv.                                           *)
LEMMA RotationStep ==
  ASSUME TypeOK, AccountInv, RotationInv, [Next]_vars
  PROVE  RotationInv'
<1>1. CASE LateStep \/ OtherStep
  BY <1>1, LateMoves, OtherMoves, RotationFrame
<1>2. ASSUME NEW n \in SecretNames, SyncSecret(n)
      PROVE  RotationInv'
  <2>1. UNCHANGED <<sare, seenSare, watch, w>> /\ queue \subseteq queue'
    BY <1>2 DEF SyncSecret, clusterVars, rotationVars
  <2> QED
    BY <2>1 DEF RotationInv, CurrentSpec, WatcherStopsFirst, CachedSpec,
                WatcherHasRequest, WatcherDecided, LookedAtAgain, InStep, Present
<1>3. ASSUME NEW p \in Producers, SyncSapr(p)
      PROVE  RotationInv'
  <2>1. UNCHANGED <<sare, seenSare, watch, w>> /\ queue \subseteq queue'
    BY <1>3 DEF SyncSapr, clusterVars, rotationVars
  <2> QED
    BY <2>1 DEF RotationInv, CurrentSpec, WatcherStopsFirst, CachedSpec,
                WatcherHasRequest, WatcherDecided, LookedAtAgain, InStep, Present
<1> QED
  BY <1>1, <1>2, <1>3, Steps, RotationDequeue, RotationEarly, RotationWatcher,
     RotationRelease, RotationSync, RotationSpec, RotationCrash

(* At every step: a watcher is what the spec in the cache asks for, or its *)
(* request is on its way to the step that decides it, and no watcher is    *)
(* left when the finalizer goes.                                           *)
THEOREM RotationInvHolds == Spec => []RotationInv
<1>1. ASSUME Init
      PROVE  RotationInv
  <2>1. w.pc = "idle"
    BY <1>1 DEF Init, Idle
  <2>2. ASSUME NEW r \in Requests
        PROVE  CachedSpec(r) /\ WatcherHasRequest(r) /\ WatcherDecided(r)
    <3>1. /\ sare[r] = NewSare /\ seenSare[r] = NewSare /\ watch[r] = NoWatch
      BY <1>1 DEF Init
    <3> QED
      BY <3>1 DEF NewSare, NoWatch, CachedSpec, WatcherHasRequest,
                  WatcherDecided, Present
  <2> QED
    BY <2>1, <2>2 DEF RotationInv, CurrentSpec, WatcherStopsFirst, EarlyPcs,
                      DeletePcs
<1>2. TypeOK /\ AccountInv /\ RotationInv /\ [Next]_vars => RotationInv'
  BY RotationStep
<1> QED
  BY <1>1, <1>2, TypeCorrect, AccountInvHolds, PTL DEF Spec

(* Once settled, exactly the live requests whose current spec asks for a   *)
(* rotation have a watcher, after any order of changes, deletions, errors  *)
(* and restarts (handleSaRotationWatcher, deleteSaRotationWatcher,         *)
(* GenerationChangedPredicate).                                            *)
THEOREM WatchersFollowSpecs == Spec => []RotationFollowsSpec
<1>1. RotationInv => RotationFollowsSpec
  BY DEF RotationInv, WatcherDecided, LookedAtAgain, InStep, EarlyPcs,
         RotationFollowsSpec, Quiet, Live
<1> QED
  BY <1>1, RotationInvHolds, PTL
=============================================================================
