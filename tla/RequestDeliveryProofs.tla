----------------------- MODULE RequestDeliveryProofs -----------------------
(***************************************************************************)
(* When all is quiet, every request has the secret it should have, made    *)
(* from its current spec: the invariants WithdrawalInv, ParamsInv and      *)
(* DeliveryInv of RequestProperties, and the properties they imply.  The   *)
(* steps are told apart as in RequestSettledProofs.                        *)
(***************************************************************************)
EXTENDS RequestSettledProofs

(* A request on its way to a decision stays on it, unless its reconcile    *)
(* ends well or goes on to the next call.                                  *)
LEMMA StaysOnItsWay ==
  ASSUME Moves, NEW r \in Requests, NEW pcs, LookedAtAgain(r, pcs)
  PROVE  \/ LookedAtAgain(r, pcs)'
         \/ /\ w.req = r /\ w.pc \in pcs
            /\ Over({"markMissing", "ready"}) \/ Proceeds
BY DEF Moves, LateMove, LookedAtAgain, InStep, Failed, Retried, Over, Proceeds,
       GoesOn, Rests, DeletePcs

(* A request gets a secret from its own reconcile only (secretManager).    *)
LEMMA OnlyStoreDelivers ==
  ASSUME TypeOK, SecretsMove, NEW r \in Requests, Owned(r)'
  PROVE  \/ Owned(r) /\ secret'[MySecret(r)] = secret[MySecret(r)]
         \/ w.pc = "store" /\ w.req = r
<1>1. MySecret(r) \in SecretNames
  BY NamesAssumption DEF MySecret
<1>2. SecretMoves(MySecret(r))
  BY <1>1 DEF SecretsMove
<1>3. secret'[MySecret(r)].owner = r /\ r # Nobody /\ r # Foreign
  BY NamesAssumption DEF Owned, MySecret
<1> QED
  BY <1>2, <1>3 DEF SecretMoves, Owned

(* A change of a SARE that reaches the cache queues the request or is one  *)
(* of its status alone (GenerationChangedPredicate).                       *)
LEMMA SpecsInCache ==
  ASSUME TypeOK, RotationInv, NEW r \in Requests, SyncSare(r)
  PROVE  /\ UNCHANGED <<sare, secret, params, watch, w, seenSecret, seenSapr,
                        tombs>>
         /\ queue \subseteq queue'
         /\ \A q \in Requests :
              \/ q \in queue'
              \/ /\ seenSare'[q].gen = seenSare[q].gen
                 /\ seenSare'[q].phase = "live" <=> seenSare[q].phase = "live"
<1>1. CachedSpec(r)
  BY DEF RotationInv
<1> QED
  BY <1>1, SyncMoves, QuietUpdates DEF Present

(* An event of a SAPR queues the requests that name it, as the cache shows *)
(* them (enqueueRequestsForProducer).                                      *)
LEMMA SaprMoves ==
  ASSUME TypeOK, NEW p \in Producers, SyncSapr(p)
  PROVE  /\ UNCHANGED <<sare, secret, params, watch, w, seenSare, seenSecret,
                        tombs>>
         /\ queue \subseteq queue'
         /\ \A r \in Requests :
              \/ r \in queue'
              \/ seenSare[r].phase # "live"
              \/ seenSapr'[ProducerOf[r]] = seenSapr[ProducerOf[r]]
BY NamesAssumption
   DEF SyncSapr, RequestsOf, Present, TypeOK, clusterVars, producerVars,
       rotationVars

(* The deletion of a secret queues the owners it was taken from            *)
(* (wasDeletedPredicate, Owns).                                            *)
LEMMA TombMoves ==
  ASSUME TypeOK, NEW n \in SecretNames, SyncSecret(n)
  PROVE  /\ UNCHANGED <<sare, secret, params, watch, w, seenSare, seenSapr>>
         /\ queue \subseteq queue' /\ tombs[n] \subseteq queue'
         /\ seenSecret'[n] = secret[n]
         /\ \A m \in SecretNames \ {n} : /\ seenSecret'[m] = seenSecret[m]
                                         /\ tombs'[m] = tombs[m]
BY DEF SyncSecret, SecretNotifies, TypeOK, clusterVars, producerVars,
       rotationVars

-----------------------------------------------------------------------------
(* Requests without a producer.                                            *)

(* The calls of a reconcile and the steps of others: the secret goes, or   *)
(* the reconcile has found a producer.                                     *)
LEMMA WithdrawalFrame ==
  ASSUME TypeOK, WithdrawalInv, Moves
  PROVE  WithdrawalInv'
<1> USE DEF EarlyPcs
<1>0. /\ LateMove \/ Rests
      /\ UNCHANGED <<seenSare, seenSapr>> /\ SecretsMove /\ queue \subseteq queue'
  BY DEF Moves, CachesKept, LateMove, Failed, Retried, Over, Proceeds, Rests
<1>1. WithdrawalWorker'
  BY <1>0 DEF WithdrawalInv, WithdrawalWorker, SeenDropped, LateMove, Failed,
              Retried, Over, Proceeds, GoesOn, Rests, DeletePcs
<1>2. ASSUME NEW r \in Requests
      PROVE  WithdrawalDecided(r)'
  <2> DEFINE pcs == EarlyPcs \cup {"sapr", "dropSecret"}
  <2>1. CASE LookedAtAgain(r, pcs)
    <3>1. CASE LookedAtAgain(r, pcs)'
      BY <3>1 DEF WithdrawalDecided
    <3>2. CASE /\ w.req = r /\ w.pc \in pcs
               /\ Over({"markMissing", "ready"}) \/ Proceeds
      BY <1>0, <3>2 DEF Over, Proceeds, GoesOn, WithdrawalDecided,
                        LookedAtAgain, InStep, SeenDropped, DeletePcs
    <3> HIDE DEF pcs
    <3> QED
      BY <2>1, <3>1, <3>2, StaysOnItsWay
  <2>2. CASE ~SeenDropped(r)
    BY <1>0, <2>2 DEF WithdrawalDecided, SeenDropped
  <2>3. CASE ~LookedAtAgain(r, pcs) /\ SeenDropped(r)
    <3>1. ~Owned(r)
      BY <2>3 DEF WithdrawalInv, WithdrawalDecided
    <3>2. CASE ~Owned(r)'
      BY <3>2 DEF WithdrawalDecided
    <3>3. CASE w.pc = "store" /\ w.req = r
      BY <1>0, <2>3, <3>3 DEF WithdrawalInv, WithdrawalWorker, WithdrawalDecided,
                              LookedAtAgain
    <3> QED
      BY <1>0, <3>1, <3>2, <3>3, OnlyStoreDelivers
  <2> QED
    BY <2>1, <2>2, <2>3
<1> QED
  BY <1>1, <1>2 DEF WithdrawalInv

(* A live request that is taken up comes to the lookup of its producer.    *)
LEMMA WithdrawalDequeue ==
  ASSUME TypeOK, WithdrawalInv, NEW r \in Requests,
         ReconcileSkip(r) \/ ReconcileLive(r) \/ ReconcileDeleting(r)
  PROVE  WithdrawalInv'
<1> USE DEF EarlyPcs
<1>1. /\ w.pc = "idle" /\ queue' = queue \ {r}
      /\ UNCHANGED <<secret, seenSare, seenSapr>>
      /\ \/ ~Present(seenSare[r]) /\ w' = w
         \/ /\ seenSare[r].phase = "live"
            /\ w'.pc \in {"finalizer", "exists"} /\ w'.req = r
         \/ /\ seenSare[r].phase = "deleting"
            /\ w'.pc \in {"idle"} \cup DeletePcs
  BY DequeueMoves DEF DequeueOf, RestKept, CachesKept
<1>2. WithdrawalWorker'
  BY <1>1 DEF WithdrawalWorker, DeletePcs
<1>3. WithdrawalDecided(r)'
  BY <1>1 DEF WithdrawalDecided, LookedAtAgain, InStep, SeenDropped, Present
<1>4. \A q \in Requests \ {r} : WithdrawalDecided(q)'
  BY <1>1 DEF WithdrawalInv, WithdrawalDecided, LookedAtAgain, InStep,
              SeenDropped, Owned
<1> QED
  BY <1>2, <1>3, <1>4 DEF WithdrawalInv

(* The calls up to the watcher come before the lookup of the producer.     *)
LEMMA WithdrawalEarly ==
  ASSUME TypeOK, WithdrawalInv,
         \/ CheckSecretExists \/ SetRotation
         \/ \E applied, ok \in BOOLEAN : AddFinalizer(applied, ok)
  PROVE  WithdrawalInv'
<1> USE DEF EarlyPcs
<1>1. /\ \/ Failed \/ Retried
         \/ /\ w.pc \in EarlyPcs /\ w'.req = w.req /\ queue' = queue
            /\ w'.pc \in {"exists", "watch", "sapr"}
      /\ UNCHANGED <<secret, seenSare, seenSapr>>
  BY EarlyMoves, WatcherMoves DEF RestKept, CachesKept
<1>2. WithdrawalWorker'
  BY <1>1 DEF WithdrawalWorker, Failed, Retried
<1>3. \A r \in Requests : WithdrawalDecided(r)'
  BY <1>1 DEF WithdrawalInv, WithdrawalDecided, LookedAtAgain, InStep,
              SeenDropped, Owned, Failed, Retried
<1> QED
  BY <1>2, <1>3 DEF WithdrawalInv

(* Every event that makes a request one without a producer queues it.      *)
LEMMA WithdrawalSync ==
  ASSUME TypeOK, RotationInv, WithdrawalInv, Informers
  PROVE  WithdrawalInv'
<1>1. /\ UNCHANGED <<secret, w>> /\ queue \subseteq queue'
      /\ \A r \in Requests : r \in queue' \/ (SeenDropped(r)' => SeenDropped(r))
  BY SpecsInCache, SaprMoves, TombMoves DEF Informers, SeenDropped
<1>2. w.pc # "idle" => w.req \in Requests
  BY DEF TypeOK
<1>3. WithdrawalWorker'
  BY <1>1, <1>2 DEF WithdrawalInv, WithdrawalWorker
<1>4. \A r \in Requests : WithdrawalDecided(r)'
  BY <1>1 DEF WithdrawalInv, WithdrawalDecided, LookedAtAgain, InStep, Owned
<1> QED
  BY <1>3, <1>4 DEF WithdrawalInv

(* Every step keeps WithdrawalInv.                                         *)
LEMMA WithdrawalStep ==
  ASSUME TypeOK, RotationInv, WithdrawalInv, [Next]_vars
  PROVE  WithdrawalInv'
<1>1. CASE LateStep \/ OtherStep
  BY <1>1, LateMoves, OtherMoves, WithdrawalFrame
<1>2. ASSUME NEW applied \in BOOLEAN, NEW ok \in BOOLEAN, Release(applied, ok)
      PROVE  WithdrawalInv'
  <2>1. /\ w.pc = "release" /\ w'.pc = "idle" /\ queue \subseteq queue'
        /\ UNCHANGED <<secret, seenSare, seenSapr>>
    BY <1>2, ReleaseMoves DEF CachesKept
  <2> QED
    BY <2>1 DEF WithdrawalInv, WithdrawalWorker, WithdrawalDecided,
                LookedAtAgain, InStep, SeenDropped, Owned, EarlyPcs
<1>3. ASSUME NEW r \in Requests,
             ApplyRequest(r) \/ ChangeRequest(r) \/ DeleteRequest(r)
      PROVE  WithdrawalInv'
  <2>1. UNCHANGED <<secret, seenSare, seenSapr, w, queue>>
    BY <1>3, SpecMoves DEF CachesKept, Rests
  <2> QED
    BY <2>1 DEF WithdrawalInv, WithdrawalWorker, WithdrawalDecided,
                LookedAtAgain, InStep, SeenDropped, Owned
<1>4. CASE Crash
  <2>1. /\ w'.pc = "idle" /\ seenSare' = sare
        /\ queue' = {r \in Requests : Present(sare[r])}
    BY <1>4, RestartMoves
  <2> QED
    BY <2>1 DEF WithdrawalInv, WithdrawalWorker, WithdrawalDecided,
                LookedAtAgain, SeenDropped, Present
<1> QED
  BY <1>1, <1>2, <1>3, <1>4, Steps, WithdrawalDequeue, WithdrawalEarly,
     WithdrawalSync DEF Informers

(* At every step: a request without a producer has no secret, or is on its *)
(* way to the call that deletes it (getProducerForCreateOrUpdate).         *)
THEOREM WithdrawalInvHolds == Spec => []WithdrawalInv
<1>1. ASSUME Init
      PROVE  WithdrawalInv
  <2>1. /\ w.pc = "idle"
        /\ \A r \in Requests : seenSare[r].phase = "new"
    BY <1>1 DEF Init, Idle, NewSare
  <2> QED
    BY <2>1 DEF WithdrawalInv, WithdrawalWorker, WithdrawalDecided, SeenDropped
<1>2. TypeOK /\ RotationInv /\ WithdrawalInv /\ [Next]_vars => WithdrawalInv'
  BY WithdrawalStep
<1> QED
  BY <1>1, <1>2, TypeCorrect, RotationInvHolds, PTL DEF Spec

(* Once settled, no live request without a producer has a secret, whatever *)
(* the order in which SAPRs, requests and secrets came and went            *)
(* (getProducerForCreateOrUpdate, enqueueRequestsForProducer).             *)
THEOREM CredentialsAreWithdrawn == Spec => []CredentialWithdrawn
<1>1. WithdrawalInv => CredentialWithdrawn
  BY DEF WithdrawalInv, WithdrawalDecided, LookedAtAgain, InStep, SeenDropped,
         EarlyPcs, CredentialWithdrawn, Quiet, Live, Offered
<1> QED
  BY <1>1, WithdrawalInvHolds, PTL

-----------------------------------------------------------------------------
(* The parameters of the account.                                          *)

(* The generation the object of the reconcile has after the step: a status *)
(* patch of the rotation job may have refreshed the object they share.     *)
LEMMA ObjectMoves ==
  ASSUME TypeOK, w.req \in Requests, WatchersKept,
         w'.req = w.req, w'.obj = w.obj, w'.bound = w.bound
  PROVE  WObj'.gen \in {WObj.gen, sare[w.req].gen}
BY DEF WObj, WatchersKept

(* The calls of a reconcile and the steps of others: the producer is asked *)
(* with the spec of the reconcile, and the secret is stored after that.    *)
LEMMA ParamsFrame ==
  ASSUME TypeOK, RotationInv, ParamsInv, Moves
  PROVE  ParamsInv'
<1> USE DEF EarlyPcs, BeforePut
<1>0. /\ LateMove \/ Rests
      /\ UNCHANGED seenSare /\ SecretsMove /\ queue \subseteq queue'
      /\ SpecsKept /\ WatchersKept /\ ParamsMove
  BY DEF Moves, CachesKept, LateMove, Failed, Retried, Over, Proceeds, Rests
<1>1. \A r \in Requests : /\ sare[r].gen \in Nat /\ sare'[r].gen = sare[r].gen
                          /\ seenSare[r].gen \in Nat
                          /\ seenSare[r].gen <= sare[r].gen
  BY <1>0 DEF SpecsKept, RotationInv, CachedSpec, TypeOK, Sare
<1>2. w.pc # "idle" => w.req \in Requests /\ WObj.gen \in Nat
  BY WObjType DEF TypeOK, Sare
<1>3. ASSUME w'.pc \in UpdatePcs
      PROVE  ParamsWorker'
  <2>1. /\ w.pc \in UpdatePcs /\ w.req \in Requests /\ w'.req = w.req
        /\ w'.obj = w.obj /\ w'.bound = w.bound
        /\ w'.pc \in BeforePut => w.pc \in BeforePut
    BY <1>0, <1>2, <1>3 DEF LateMove, Failed, Retried, Over, Proceeds, GoesOn,
                            Rests, UpdatePcs, DeletePcs
  <2>2. WObj'.gen \in {WObj.gen, sare[w.req].gen}
    BY <1>0, <2>1, ObjectMoves
  <2>3. WObj'.gen <= sare'[w'.req].gen
    BY <1>1, <2>1, <2>2 DEF ParamsInv, ParamsWorker
  <2>4. w'.pc \in BeforePut => w'.req \in queue' \/ WObj'.gen >= seenSare'[w'.req].gen
    BY <1>0, <1>1, <2>1, <2>2 DEF ParamsInv, ParamsWorker
  <2>5. ASSUME w'.pc = "store"
        PROVE  w'.cred = V2Cred \/ SentInTime(w.req)'
    <3>1. CASE Rests
      BY <1>0, <2>1, <2>5, <3>1 DEF Rests, ParamsMove, ParamsInv, ParamsWorker,
                                    SentInTime
    <3>2. CASE Proceeds
      <4>1. \/ w'.cred = V2Cred
            \/ w.pc = "put" /\ params'[w.req] = WObj.gen
        BY <2>1, <2>5, <3>2 DEF Proceeds, GoesOn, UpdatePcs, DeletePcs
      <4> QED
        BY <1>0, <2>1, <4>1 DEF ParamsInv, ParamsWorker, SentInTime
    <3> QED
      BY <1>0, <2>5, <3>1, <3>2 DEF LateMove, Failed, Retried, Over
  <2>6. ParamsWorker'
    BY <2>3, <2>4, <2>5 DEF ParamsWorker
  <2> QED
    BY <2>6
<1>4. ASSUME w'.pc \notin UpdatePcs
      PROVE  ParamsWorker'
  BY <1>4 DEF ParamsWorker, UpdatePcs
<1>5. ASSUME NEW r \in Requests
      PROVE  watch'[r].obj.gen <= sare'[r].gen /\ params'[r] <= sare'[r].gen
  <2>1. watch'[r].obj.gen <= sare'[r].gen
    BY <1>0, <1>1 DEF WatchersKept, ParamsInv
  <2>2. params'[r] <= sare'[r].gen
    BY <1>0, <1>1 DEF ParamsMove, ParamsInv, ParamsWorker, UpdatePcs
  <2> QED
    BY <2>1, <2>2
<1>6. ASSUME NEW r \in Requests
      PROVE  ParamsDecided(r)'
  <2> DEFINE pcs == BeforePut \cup {"store"}
             asked == w.req = r /\ w.pc \in pcs
  <2>1. CASE LookedAtAgain(r, pcs)'
    BY <2>1 DEF ParamsDecided
  <2>2. CASE asked /\ (Over({"markMissing", "ready"}) \/ Proceeds)
    <3>1. Proceeds
      BY <2>2 DEF Over
    <3>2. \/ w'.req = r /\ w'.pc \in pcs
          \/ ~Owned(r)'
          \/ w.pc = "put" /\ params'[r] = WObj.gen
          \/ w.pc = "store" /\ secret'[MySecret(r)].cred = w.cred
      BY <2>2, <3>1 DEF Proceeds, GoesOn, DeletePcs
    <3>3. CASE w'.req = r /\ w'.pc \in pcs
      BY <2>1, <3>3 DEF LookedAtAgain, InStep
    <3>4. CASE ~Owned(r)'
      BY <3>4 DEF ParamsDecided
    <3>5. CASE w.pc = "put" /\ params'[r] = WObj.gen
      BY <1>0, <2>2, <3>5 DEF ParamsInv, ParamsWorker, ParamsDecided,
                              LookedAtAgain
    <3>6. CASE w.pc = "store" /\ secret'[MySecret(r)].cred = w.cred
      <4>1. params'[r] = params[r]
        BY <1>0, <3>6 DEF ParamsMove
      <4> QED
        BY <1>0, <2>2, <3>6, <4>1 DEF ParamsInv, ParamsWorker, SentInTime,
             ParamsDecided, LookedAtAgain, MySecret
    <3> QED
      BY <3>2, <3>3, <3>4, <3>5, <3>6
  <2>3. CASE ~LookedAtAgain(r, pcs)
    <3>1. ~asked
      BY <2>3 DEF LookedAtAgain, InStep
    <3>2. params'[r] = params[r]
      BY <1>0, <3>1 DEF ParamsMove
    <3>3. CASE Owned(r)'
      <4>1. Owned(r) /\ secret'[MySecret(r)] = secret[MySecret(r)]
        BY <1>0, <3>1, <3>3, OnlyStoreDelivers
      <4> QED
        BY <1>0, <2>3, <3>2, <4>1 DEF ParamsInv, ParamsDecided, MySecret
    <3>4. CASE ~Owned(r)'
      BY <3>4 DEF ParamsDecided
    <3> QED
      BY <3>3, <3>4
  <2> HIDE DEF pcs
  <2> QED
    BY <2>1, <2>2, <2>3, StaysOnItsWay
<1> QED
  BY <1>3, <1>4, <1>5, <1>6 DEF ParamsInv

(* A live request is taken up with the spec the cache shows.               *)
LEMMA ParamsDequeue ==
  ASSUME TypeOK, RotationInv, ParamsInv, NEW r \in Requests,
         ReconcileSkip(r) \/ ReconcileLive(r) \/ ReconcileDeleting(r)
  PROVE  ParamsInv'
<1> USE DEF EarlyPcs, BeforePut
<1>1. /\ w.pc = "idle" /\ queue' = queue \ {r}
      /\ UNCHANGED <<sare, secret, seenSare, params>>
      /\ \/ ~Present(seenSare[r]) /\ w' = w /\ watch' = watch
         \/ /\ seenSare[r].phase = "live" /\ watch' = watch
            /\ w'.pc \in {"finalizer", "exists"} /\ w'.req = r
            /\ w'.obj = seenSare[r] /\ ~w'.bound
         \/ /\ seenSare[r].phase = "deleting"
            /\ watch' = [watch EXCEPT ![r] = NoWatch]
            /\ w'.pc \in {"idle"} \cup DeletePcs
  BY DequeueMoves DEF DequeueOf, RestKept, CachesKept
<1>2. seenSare[r].gen \in Nat /\ sare[r].gen \in Nat
      /\ seenSare[r].gen <= sare[r].gen
  BY DEF RotationInv, CachedSpec, TypeOK, Sare
<1>3. ParamsWorker'
  BY <1>1, <1>2 DEF ParamsWorker, WObj, UpdatePcs, DeletePcs
<1>4. \A q \in Requests : watch'[q].obj.gen <= sare'[q].gen
  BY <1>1, <1>2 DEF ParamsInv, TypeOK, NoWatch, NewSare
<1>5. ParamsDecided(r)'
  BY <1>1 DEF ParamsDecided, LookedAtAgain, InStep, Present
<1>6. \A q \in Requests \ {r} : ParamsDecided(q)'
  BY <1>1 DEF ParamsInv, ParamsDecided, LookedAtAgain, InStep, Owned, MySecret
<1> QED
  BY <1>1, <1>3, <1>4, <1>5, <1>6 DEF ParamsInv

(* Up to the watcher the object of the reconcile keeps its spec, and then  *)
(* it is the watcher's (addFinalizer, handleSaRotationWatcher).            *)
LEMMA ParamsEarly ==
  ASSUME TypeOK, RotationInv, ParamsInv,
         \/ CheckSecretExists \/ SetRotation
         \/ \E applied, ok \in BOOLEAN : AddFinalizer(applied, ok)
  PROVE  ParamsInv'
<1> USE DEF EarlyPcs, BeforePut
<1>1. /\ \A q \in Requests : sare'[q].gen = sare[q].gen
      /\ UNCHANGED <<secret, seenSare, params>>
      /\ \/ Failed \/ Retried
         \/ /\ w.pc \in EarlyPcs /\ w'.req = w.req /\ queue' = queue
            /\ w'.pc \in {"exists", "watch", "sapr"}
            /\ \/ w'.bound = w.bound /\ w'.obj.gen = w.obj.gen
               \/ w'.bound /\ watch'[w.req].obj = w.obj
      /\ \A q \in Requests :
           \/ watch'[q] = watch[q]
           \/ watch'[q] = NoWatch
           \/ q = w.req /\ watch'[q].obj = w.obj
  BY EarlyMoves, WatcherMoves DEF RestKept, CachesKept
<1>2. w.pc \in EarlyPcs
  BY DEF CheckSecretExists, SetRotation, AddFinalizer
<1>3. ~w.bound /\ w.req \in Requests
  BY <1>2 DEF RotationInv, CurrentSpec, TypeOK
<1>4. /\ w.obj.gen <= sare[w.req].gen
      /\ w.req \in queue \/ w.obj.gen >= seenSare[w.req].gen
  BY <1>2, <1>3 DEF ParamsInv, ParamsWorker, WObj, UpdatePcs
<1>5. ParamsWorker'
  <2>1. CASE w'.pc \in UpdatePcs
    <3>1. /\ w'.req = w.req /\ w'.pc # "store" /\ queue' = queue
          /\ WObj'.gen = w.obj.gen
      BY <1>1, <1>3, <2>1 DEF WObj, Failed, Retried, UpdatePcs
    <3> QED
      BY <1>1, <1>3, <1>4, <3>1 DEF ParamsWorker
  <2>2. CASE w'.pc \notin UpdatePcs
    BY <2>2 DEF ParamsWorker, UpdatePcs
  <2> QED
    BY <2>1, <2>2
<1>6. \A q \in Requests : watch'[q].obj.gen <= sare'[q].gen
  <2>1. NoWatch.obj.gen = 0 /\ \A q \in Requests : sare[q].gen \in Nat
    BY DEF NoWatch, NewSare, TypeOK, Sare
  <2> QED
    BY <1>1, <1>4, <2>1 DEF ParamsInv
<1>7. \A q \in Requests : ParamsDecided(q)'
  BY <1>1 DEF ParamsInv, ParamsDecided, LookedAtAgain, InStep, Owned, MySecret,
              Failed, Retried
<1> QED
  BY <1>1, <1>5, <1>6, <1>7 DEF ParamsInv

(* A later spec in the cache queues the request.                           *)
LEMMA ParamsSync ==
  ASSUME TypeOK, RotationInv, ParamsInv, Informers
  PROVE  ParamsInv'
<1>1. /\ UNCHANGED <<sare, secret, params, watch, w>> /\ queue \subseteq queue'
      /\ \A r \in Requests :
           \/ r \in queue'
           \/ /\ seenSare'[r].gen = seenSare[r].gen
              /\ seenSare'[r].phase = "live" <=> seenSare[r].phase = "live"
  BY SpecsInCache, SaprMoves, TombMoves DEF Informers
<1>2. w.pc # "idle" => w.req \in Requests
  BY DEF TypeOK
<1>3. ParamsWorker'
  BY <1>1, <1>2 DEF ParamsInv, ParamsWorker, SentInTime, WObj, UpdatePcs,
                    BeforePut, EarlyPcs
<1>4. \A r \in Requests : ParamsDecided(r)'
  BY <1>1 DEF ParamsInv, ParamsDecided, LookedAtAgain, InStep, Owned, MySecret
<1> QED
  BY <1>1, <1>3, <1>4 DEF ParamsInv

(* Users change specs on the server first; a restart forgets the worker    *)
(* and queues every request.                                               *)
LEMMA ParamsStep ==
  ASSUME TypeOK, RotationInv, ParamsInv, [Next]_vars
  PROVE  ParamsInv'
<1> USE DEF BeforePut, EarlyPcs
<1>0. \A r \in Requests : sare[r].gen \in Nat /\ params[r] \in Nat
  BY DEF TypeOK, Sare
<1>1. CASE LateStep \/ OtherStep
  BY <1>1, LateMoves, OtherMoves, ParamsFrame
<1>2. ASSUME NEW applied \in BOOLEAN, NEW ok \in BOOLEAN, Release(applied, ok)
      PROVE  ParamsInv'
  <2>1. /\ w.pc = "release" /\ w'.pc = "idle" /\ queue \subseteq queue'
        /\ \A r \in Requests : sare'[r].gen = sare[r].gen
        /\ UNCHANGED <<secret, seenSare, params, watch>>
    BY <1>2, ReleaseMoves DEF CachesKept
  <2>2. ParamsWorker'
    BY <2>1 DEF ParamsWorker, UpdatePcs
  <2>3. \A r \in Requests : ParamsDecided(r)'
    BY <2>1 DEF ParamsInv, ParamsDecided, LookedAtAgain, InStep, Owned, MySecret
  <2> QED
    BY <2>1, <2>2, <2>3 DEF ParamsInv
<1>3. ASSUME NEW r \in Requests,
             ApplyRequest(r) \/ ChangeRequest(r) \/ DeleteRequest(r)
      PROVE  ParamsInv'
  <2>1. /\ UNCHANGED <<secret, params, watch, seenSare, w, queue>>
        /\ \A q \in Requests \ {r} : sare'[q] = sare[q]
        /\ \/ sare[r].phase = "new" /\ sare'[r].gen = 1
           \/ sare'[r].gen \in {sare[r].gen, sare[r].gen + 1}
    BY <1>3, SpecMoves DEF CachesKept, Rests
  <2>2. \A q \in Requests : sare[q].gen <= sare'[q].gen /\ sare'[q].gen \in Nat
    BY <1>0, <2>1 DEF RotationInv, CachedSpec
  <2>3. \A q \in Requests : watch[q].obj.gen \in Nat
    BY DEF TypeOK, Watch, Sare
  <2>4. w.pc # "idle" => w.req \in Requests /\ WObj.gen \in Nat
    BY WObjType DEF TypeOK, Sare
  <2>5. ParamsWorker'
    <3>1. WObj' = WObj
      BY <2>1 DEF WObj
    <3> QED
      BY <1>0, <2>1, <2>2, <2>4, <3>1 DEF ParamsInv, ParamsWorker, SentInTime,
                                          UpdatePcs
  <2>6. \A q \in Requests : /\ watch'[q].obj.gen <= sare'[q].gen
                            /\ params'[q] <= sare'[q].gen
    BY <1>0, <2>1, <2>2, <2>3 DEF ParamsInv
  <2>7. \A q \in Requests : ParamsDecided(q)'
    BY <2>1 DEF ParamsInv, ParamsDecided, LookedAtAgain, InStep, Owned, MySecret
  <2> QED
    BY <2>5, <2>6, <2>7 DEF ParamsInv
<1>4. CASE Crash
  <2>1. /\ w'.pc = "idle" /\ watch' = [r \in Requests |-> NoWatch]
        /\ UNCHANGED <<sare, params>> /\ seenSare' = sare
        /\ queue' = {r \in Requests : Present(sare[r])}
    BY <1>4, RestartMoves
  <2>2. \A r \in Requests : watch'[r].obj.gen <= sare'[r].gen
    BY <1>0, <2>1 DEF NoWatch, NewSare
  <2>3. ParamsWorker' /\ \A r \in Requests : ParamsDecided(r)'
    BY <2>1 DEF ParamsWorker, UpdatePcs, ParamsDecided, LookedAtAgain, Present
  <2> QED
    BY <2>1, <2>2, <2>3 DEF ParamsInv
<1> QED
  BY <1>1, <1>2, <1>3, <1>4, Steps, ParamsDequeue, ParamsEarly, ParamsSync
     DEF Informers

(* At every step: the account of a request was asked for with the spec the *)
(* cache shows, or the request is on its way to asking (requestCredentials *)
(* after handleSaRotationWatcher), and never with a spec that is not yet   *)
(* on the server.                                                          *)
THEOREM ParamsInvHolds == Spec => []ParamsInv
<1>1. ASSUME Init
      PROVE  ParamsInv
  <2>1. w.pc = "idle"
    BY <1>1 DEF Init, Idle
  <2>2. \A r \in Requests : /\ sare[r].gen = 0 /\ params[r] = 0
                            /\ watch[r].obj.gen = 0 /\ seenSare[r].phase = "new"
    BY <1>1 DEF Init, NewSare, NoWatch
  <2> QED
    BY <2>1, <2>2 DEF ParamsInv, ParamsWorker, ParamsDecided, UpdatePcs,
                      BeforePut, EarlyPcs
<1>2. TypeOK /\ RotationInv /\ ParamsInv /\ [Next]_vars => ParamsInv'
  BY ParamsStep
<1> QED
  BY <1>1, <1>2, TypeCorrect, RotationInvHolds, PTL DEF Spec

(* Once settled, the account of a live request was made from its current   *)
(* spec, whatever changed while a reconcile ran with an older one, unless  *)
(* its credential is the migrated one (requestCredentials,                 *)
(* GenerationChangedPredicate).                                            *)
THEOREM ParametersArrive == Spec => []ParametersReachProducer
<1>1. TypeOK /\ ParamsInv => ParametersReachProducer
  <2> SUFFICES ASSUME TypeOK, ParamsInv, Quiet, NEW r \in Requests, Live(r),
                      Owned(r), secret[MySecret(r)].cred # V2Cred
               PROVE  params[r] = sare[r].gen
    BY DEF ParametersReachProducer
  <2>1. params[r] >= sare[r].gen
    BY DEF ParamsInv, ParamsDecided, LookedAtAgain, InStep, BeforePut, EarlyPcs,
           Quiet, Live
  <2>2. params[r] <= sare[r].gen /\ params[r] \in Nat /\ sare[r].gen \in Nat
    BY DEF ParamsInv, TypeOK, Sare
  <2> QED
    BY <2>1, <2>2
<1> QED
  BY <1>1, ParamsInvHolds, TypeCorrect, PTL

-----------------------------------------------------------------------------
(* Requests with a producer.                                               *)

(* A secret that goes is reported to its owner, as long as the cache shows *)
(* it (secretManager.Delete, the garbage collector, users, Owns).          *)
LEMMA SecretsAreWatched ==
  ASSUME TypeOK, DeliveryInv, SecretsMove, UNCHANGED seenSecret
  PROVE  /\ \A n \in SecretNames : CachedSecret(n)'
         /\ \A r \in Requests : Delivered(r) => Delivered(r)'
<1>1. ASSUME NEW n \in SecretNames, NEW r \in Requests,
             secret[n].owner = r \/ r \in tombs[n]
      PROVE  secret'[n].owner = r \/ r \in tombs'[n]
  <2>1. SecretMoves(n) /\ r # Nobody
    BY NamesAssumption DEF SecretsMove
  <2> QED
    BY <1>1, <2>1 DEF SecretMoves
<1>2. \A n \in SecretNames : CachedSecret(n)'
  BY <1>1 DEF DeliveryInv, CachedSecret
<1>3. \A r \in Requests : MySecret(r) \in SecretNames
  BY NamesAssumption DEF MySecret
<1>4. \A r \in Requests : Delivered(r) => Delivered(r)'
  BY <1>1, <1>3 DEF Delivered, Owned, MySecret
<1> QED
  BY <1>2, <1>4

(* The calls of a reconcile and the steps of others: a reconcile with a    *)
(* producer ends with the secret there, one that found none is right.      *)
LEMMA DeliveryFrame ==
  ASSUME TypeOK, DeliveryInv, Moves
  PROVE  DeliveryInv'
<1>0. /\ LateMove \/ Rests
      /\ UNCHANGED <<seenSare, seenSapr, seenSecret>>
      /\ SecretsMove /\ queue \subseteq queue'
      /\ \A r \in Requests : SeenOffered(r)' <=> SeenOffered(r)
  BY DEF Moves, CachesKept, LateMove, Failed, Retried, Over, Proceeds, Rests,
         SeenOffered
<1>1. /\ \A n \in SecretNames : CachedSecret(n)'
      /\ \A r \in Requests : Delivered(r) => Delivered(r)'
  BY <1>0, SecretsAreWatched
<1>2. w.pc # "idle" => w.req \in Requests
  BY DEF TypeOK
<1>3. ASSUME w'.pc \in UpdatePcs
      PROVE  DeliveryWorker'
  <2>1. /\ w.pc \in UpdatePcs /\ w.req \in Requests /\ w'.req = w.req
        /\ w'.seen = w.seen
    BY <1>0, <1>2, <1>3 DEF LateMove, Failed, Retried, Over, Proceeds, GoesOn,
                            Rests, UpdatePcs, DeletePcs
  <2>2. w'.pc = "ready" => w.pc = "ready" \/ w.seen \/ Owned(w.req)'
    BY <1>0, <2>1 DEF LateMove, Failed, Retried, Over, Proceeds, GoesOn, Rests,
                      DeletePcs
  <2>3. w'.pc \in {"dropSecret", "markMissing"}
          => \/ w.pc \in {"dropSecret", "markMissing"}
             \/ ~SeenOffered(w.req)
    BY <1>0, <2>1 DEF LateMove, Failed, Retried, Over, Proceeds, GoesOn, Rests,
                      DeletePcs, SeenOffered
  <2>4. w'.seen \/ w'.pc = "ready" => w.req \in queue' \/ Delivered(w.req)'
    <3>1. Owned(w.req)' => Delivered(w.req)'
      BY DEF Delivered
    <3> QED
      BY <1>0, <1>1, <2>1, <2>2, <3>1 DEF DeliveryInv, DeliveryWorker
  <2>5. w'.pc \in {"dropSecret", "markMissing"}
          => w.req \in queue' \/ ~SeenOffered(w.req)
    BY <1>0, <2>1, <2>3 DEF DeliveryInv, DeliveryWorker
  <2>6. SeenOffered(w.req) <=> SeenOffered(w.req)'
    BY <1>0, <2>1 DEF SeenOffered
  <2> QED
    BY <2>1, <2>4, <2>5, <2>6 DEF DeliveryWorker
<1>4. ASSUME w'.pc \notin UpdatePcs
      PROVE  DeliveryWorker'
  BY <1>4 DEF DeliveryWorker, UpdatePcs
<1>5. ASSUME NEW r \in Requests
      PROVE  DeliveryDecided(r)'
  <2>1. CASE LookedAtAgain(r, UpdatePcs)'
    BY <2>1 DEF DeliveryDecided
  <2>2. CASE w.req = r /\ w.pc \in UpdatePcs /\ Proceeds
    <3>1. w'.req = r /\ w'.pc \in UpdatePcs
      BY <2>2 DEF Proceeds, GoesOn, UpdatePcs, DeletePcs
    <3> QED
      BY <2>1, <3>1 DEF LookedAtAgain, InStep
  <2>3. CASE w.req = r /\ w.pc \in UpdatePcs /\ Over({"markMissing", "ready"})
    BY <1>0, <1>1, <2>3 DEF Over, DeliveryInv, DeliveryWorker, DeliveryDecided,
                            LookedAtAgain
  <2>4. CASE ~LookedAtAgain(r, UpdatePcs)
    BY <1>0, <1>1, <2>4 DEF DeliveryInv, DeliveryDecided
  <2> QED
    BY <2>1, <2>2, <2>3, <2>4, StaysOnItsWay
<1> QED
  BY <1>1, <1>3, <1>4, <1>5 DEF DeliveryInv

(* A live request that is taken up is decided in this reconcile.           *)
LEMMA DeliveryDequeue ==
  ASSUME TypeOK, DeliveryInv, NEW r \in Requests,
         ReconcileSkip(r) \/ ReconcileLive(r) \/ ReconcileDeleting(r)
  PROVE  DeliveryInv'
<1>1. /\ w.pc = "idle" /\ queue' = queue \ {r}
      /\ UNCHANGED <<secret, tombs, seenSare, seenSapr, seenSecret>>
      /\ \/ ~Present(seenSare[r]) /\ w' = w
         \/ /\ seenSare[r].phase = "live"
            /\ w'.pc \in {"finalizer", "exists"} /\ w'.req = r /\ ~w'.seen
         \/ /\ seenSare[r].phase = "deleting"
            /\ w'.pc \in {"idle"} \cup DeletePcs
  BY DequeueMoves DEF DequeueOf, RestKept, CachesKept
<1>2. DeliveryWorker'
  BY <1>1 DEF DeliveryWorker, UpdatePcs, DeletePcs
<1>3. \A n \in SecretNames : CachedSecret(n)'
  BY <1>1 DEF DeliveryInv, CachedSecret
<1>4. DeliveryDecided(r)'
  BY <1>1 DEF DeliveryDecided, LookedAtAgain, InStep, SeenOffered, Present,
              UpdatePcs
<1>5. \A q \in Requests \ {r} : DeliveryDecided(q)'
  BY <1>1 DEF DeliveryInv, DeliveryDecided, LookedAtAgain, InStep, SeenOffered,
              Delivered, Owned, UpdatePcs
<1> QED
  BY <1>2, <1>3, <1>4, <1>5 DEF DeliveryInv

(* A secret that checkSecretExists sees is there, or its owner will be     *)
(* told that it is not.                                                    *)
LEMMA DeliveryEarly ==
  ASSUME TypeOK, DeliveryInv,
         \/ CheckSecretExists \/ SetRotation
         \/ \E applied, ok \in BOOLEAN : AddFinalizer(applied, ok)
  PROVE  DeliveryInv'
<1>0. /\ w.pc \in {"finalizer", "exists", "watch"} /\ w.req \in Requests
      /\ MySecret(w.req) \in SecretNames
  BY NamesAssumption
     DEF CheckSecretExists, SetRotation, AddFinalizer, TypeOK, MySecret
<1>1. /\ \/ Failed \/ Retried
         \/ /\ w'.req = w.req /\ queue' = queue
            /\ w'.pc \in {"exists", "watch", "sapr"}
            /\ w'.seen => w.seen \/ seenSecret[MySecret(w.req)].owner = w.req
      /\ UNCHANGED <<secret, tombs, seenSare, seenSapr, seenSecret>>
  BY EarlyMoves, WatcherMoves DEF RestKept, CachesKept
<1>2. \A r \in Requests : /\ Delivered(r)' <=> Delivered(r)
                          /\ SeenOffered(r)' <=> SeenOffered(r)
  BY <1>1 DEF Delivered, Owned, SeenOffered
<1>3. seenSecret[MySecret(w.req)].owner = w.req => Delivered(w.req)
  BY <1>0 DEF DeliveryInv, CachedSecret, Delivered, Owned
<1>4. DeliveryWorker'
  <2>1. CASE w'.pc \in UpdatePcs
    <3>1. /\ w'.req = w.req /\ queue' = queue
          /\ w'.pc \notin {"ready", "dropSecret", "markMissing"}
          /\ w'.seen => w.seen \/ Delivered(w.req)
      BY <1>1, <1>3, <2>1 DEF Failed, Retried, UpdatePcs
    <3>2. w'.seen => w.req \in queue' \/ Delivered(w.req)
      BY <1>0, <3>1 DEF DeliveryInv, DeliveryWorker, UpdatePcs
    <3>3. Delivered(w.req) => Delivered(w.req)'
      BY <1>0, <1>2, <3>1
    <3> QED
      BY <3>1, <3>2, <3>3 DEF DeliveryWorker
  <2>2. CASE w'.pc \notin UpdatePcs
    BY <2>2 DEF DeliveryWorker, UpdatePcs
  <2> QED
    BY <2>1, <2>2
<1>5. \A n \in SecretNames : CachedSecret(n)'
  BY <1>1 DEF DeliveryInv, CachedSecret
<1>6. \A r \in Requests : DeliveryDecided(r)'
  BY <1>0, <1>1, <1>2 DEF DeliveryInv, DeliveryDecided, LookedAtAgain, InStep,
                          Failed, Retried, UpdatePcs
<1> QED
  BY <1>4, <1>5, <1>6 DEF DeliveryInv

(* Events of SAREs and SAPRs queue the requests that they give a producer, *)
(* those of secrets the ones that they tell of a deletion.                 *)
LEMMA DeliverySync ==
  ASSUME TypeOK, RotationInv, DeliveryInv, Informers
  PROVE  DeliveryInv'
<1>1. /\ UNCHANGED <<secret, w>> /\ queue \subseteq queue'
      /\ \A r \in Requests : r \in queue' \/ (SeenOffered(r)' => SeenOffered(r))
  BY SpecsInCache, SaprMoves, TombMoves DEF Informers, SeenOffered
<1>2. \A n \in SecretNames :
        \/ UNCHANGED <<seenSecret[n], tombs[n]>>
        \/ seenSecret'[n] = secret[n] /\ tombs[n] \subseteq queue'
  BY SpecsInCache, SaprMoves, TombMoves DEF Informers
<1>3. \A n \in SecretNames : CachedSecret(n)'
  BY <1>1, <1>2 DEF DeliveryInv, CachedSecret
<1>4. \A r \in Requests : Delivered(r) => r \in queue' \/ Delivered(r)'
  <2>1. \A r \in Requests : MySecret(r) \in SecretNames
    BY NamesAssumption DEF MySecret
  <2> QED
    BY <1>1, <1>2, <2>1 DEF Delivered, Owned, MySecret
<1>5. DeliveryWorker'
  <2>1. w.pc \in UpdatePcs => w.req \in Requests
    BY DEF TypeOK, UpdatePcs
  <2> QED
    BY <1>1, <1>4, <2>1 DEF DeliveryInv, DeliveryWorker, UpdatePcs
<1>6. \A r \in Requests : DeliveryDecided(r)'
  BY <1>1, <1>4 DEF DeliveryInv, DeliveryDecided, LookedAtAgain, InStep
<1> QED
  BY <1>3, <1>5, <1>6 DEF DeliveryInv

(* Every step keeps DeliveryInv.                                           *)
LEMMA DeliveryStep ==
  ASSUME TypeOK, RotationInv, DeliveryInv, [Next]_vars
  PROVE  DeliveryInv'
<1>1. CASE LateStep \/ OtherStep
  BY <1>1, LateMoves, OtherMoves, DeliveryFrame
<1>2. ASSUME NEW applied \in BOOLEAN, NEW ok \in BOOLEAN, Release(applied, ok)
      PROVE  DeliveryInv'
  <2>1. /\ w.pc = "release" /\ w'.pc = "idle" /\ queue \subseteq queue'
        /\ UNCHANGED <<secret, tombs, seenSare, seenSapr, seenSecret>>
    BY <1>2, ReleaseMoves DEF CachesKept
  <2> QED
    BY <2>1 DEF DeliveryInv, DeliveryWorker, DeliveryDecided, LookedAtAgain,
                InStep, SeenOffered, Delivered, Owned, CachedSecret, UpdatePcs
<1>3. ASSUME NEW r \in Requests,
             ApplyRequest(r) \/ ChangeRequest(r) \/ DeleteRequest(r)
      PROVE  DeliveryInv'
  <2>1. UNCHANGED <<secret, tombs, seenSare, seenSapr, seenSecret, w, queue>>
    BY <1>3, SpecMoves DEF CachesKept, Rests
  <2> QED
    BY <2>1 DEF DeliveryInv, DeliveryWorker, DeliveryDecided, LookedAtAgain,
                InStep, SeenOffered, Delivered, Owned, CachedSecret
<1>4. CASE Crash
  <2>1. /\ w'.pc = "idle" /\ seenSare' = sare
        /\ UNCHANGED secret /\ seenSecret' = secret
        /\ queue' = {r \in Requests : Present(sare[r])}
    BY <1>4, RestartMoves
  <2> QED
    BY <2>1 DEF DeliveryInv, DeliveryWorker, DeliveryDecided, LookedAtAgain,
                SeenOffered, CachedSecret, Present, UpdatePcs
<1> QED
  BY <1>1, <1>2, <1>3, <1>4, Steps, DeliveryDequeue, DeliveryEarly, DeliverySync
     DEF Informers

(* At every step: a live request with a producer has its secret, or will   *)
(* be told that it has none, or is on its way to a reconcile that stores   *)
(* one (createOrUpdate, failWithReason, the predicates of                  *)
(* SetupWithManager).                                                      *)
THEOREM DeliveryInvHolds == Spec => []DeliveryInv
<1>1. ASSUME Init
      PROVE  DeliveryInv
  <2>1. w.pc = "idle"
    BY <1>1 DEF Init, Idle
  <2>2. /\ \A r \in Requests : seenSare[r].phase = "new"
        /\ \A n \in SecretNames : seenSecret[n].owner = Nobody
    BY <1>1 DEF Init, NewSare, NoSecret
  <2> QED
    BY <2>1, <2>2, NamesAssumption
       DEF DeliveryInv, DeliveryWorker, DeliveryDecided, SeenOffered,
           CachedSecret, UpdatePcs
<1>2. TypeOK /\ RotationInv /\ DeliveryInv /\ [Next]_vars => DeliveryInv'
  BY DeliveryStep
<1> QED
  BY <1>1, <1>2, TypeCorrect, RotationInvHolds, PTL DEF Spec

(* Once settled, every live request with a producer has its secret,        *)
(* whatever was applied, deleted or lost in whatever order                 *)
(* (createOrUpdate and the predicates and map functions of                 *)
(* SetupWithManager).                                                      *)
THEOREM CredentialsAreDelivered == Spec => []CredentialDelivered
<1>1. DeliveryInv => CredentialDelivered
  <2> SUFFICES ASSUME DeliveryInv, Quiet, NEW r \in Requests, Live(r), Offered(r)
               PROVE  Owned(r)
    BY DEF CredentialDelivered
  <2>1. ~LookedAtAgain(r, UpdatePcs) /\ SeenOffered(r)
    BY DEF LookedAtAgain, InStep, UpdatePcs, SeenOffered, Quiet, Live, Offered
  <2>2. tombs[MySecret(r)] = {}
    BY NamesAssumption DEF Quiet, MySecret
  <2> QED
    BY <2>1, <2>2 DEF DeliveryInv, DeliveryDecided, Delivered
<1> QED
  BY <1>1, DeliveryInvHolds, PTL
=============================================================================
