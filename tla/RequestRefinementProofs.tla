---------------------- MODULE RequestRefinementProofs ----------------------
(***************************************************************************)
(* RequestController implements CredentialDelivery, for every set of       *)
(* requests, producers and secrets and every budget.                       *)
(***************************************************************************)
EXTENDS RequestSafetyProofs

-----------------------------------------------------------------------------
(* StoreInv is inductive.                                                  *)

(* Steps that neither change an account or a migration secret nor bring    *)
(* the worker to one of the calls StoreInv is about.                       *)
LEMMA StoreFrame ==
  ASSUME StoreInv, UNCHANGED <<account, migration>>,
         w' = w \/ w'.pc \notin DeletePcs \cup {"store"}
  PROVE  StoreInv'
BY DEF StoreInv, DeletePcs

(* The worker reaches "store" with the credential it has just obtained and *)
(* "release" with an account it has just seen gone.                        *)
LEMMA WorkerKeepsStoreInv ==
  ASSUME TypeOK, StoreInv, WorkerStep
  PROVE  StoreInv'
<1> USE DEF clusterVars, cacheVars, rotationVars, producerVars
<1>1. ASSUME NEW r \in Requests, ReconcileSkip(r)
      PROVE  StoreInv'
  BY <1>1, StoreFrame DEF ReconcileSkip
<1>2. ASSUME NEW r \in Requests, ReconcileLive(r)
      PROVE  StoreInv'
  <2>1. w'.pc = FirstStep(seenSare[r])
    BY <1>2 DEF ReconcileLive, Idle
  <2> QED
    BY <1>2, <2>1, StoreFrame DEF ReconcileLive, FirstStep, DeletePcs
<1>3. ASSUME NEW r \in Requests, ReconcileDeleting(r)
      PROVE  StoreInv'
  <2> DEFINE pc == FirstDeleteStep(r, seenSare[r])
  <2>1. /\ pc \in {"idle", "release", "dGet"}
        /\ IF pc = "idle" THEN w'.pc = "idle"
           ELSE w'.pc = pc /\ w'.obj = seenSare[r]
                /\ w'.outcome = IF pc = "release" THEN "abandoned" ELSE "none"
        /\ seenSare[r].phase = "deleting"
        /\ UNCHANGED <<account, migration>>
    BY <1>3 DEF ReconcileDeleting, FirstDeleteStep, Idle
  <2> HIDE DEF pc
  <2> QED
    BY <2>1 DEF StoreInv, DeletePcs
<1>4. ASSUME CheckSecretExists
      PROVE  StoreInv'
  <2>1. w'.pc \in {"fail", "watch"}
    BY <1>4 DEF TypeOK, WorkerState, CheckSecretExists, FailWith
  <2> QED
    BY <1>4, <2>1, StoreFrame DEF CheckSecretExists, DeletePcs
<1>5. ASSUME SetRotation
      PROVE  StoreInv'
  <2>1. w.obj.rotation \in {"off", "on", "invalid"}
    BY DEF TypeOK, WorkerState, Sare
  <2>2. w'.pc \in {"fail", "sapr"}
    BY <1>5, <2>1 DEF TypeOK, WorkerState, SetRotation, FailWith, GoTo
  <2> QED
    BY <1>5, <2>2, StoreFrame DEF SetRotation, DeletePcs
<1>6. ASSUME GetProducer
      PROVE  StoreInv'
  <2>1. w'.pc \in {"dropSecret", "put", "migrate"}
    BY <1>6 DEF TypeOK, WorkerState, GetProducer, ProducerMissing, GoTo
  <2> QED
    BY <1>6, <2>1, StoreFrame DEF GetProducer, DeletePcs
<1>7. ASSUME Migrate
      PROVE  StoreInv'
  <2>1. /\ w.req \in Requests
        /\ MigratedAttributes(w.req) # {} => w.req \in Legacy
    BY <1>7 DEF Migrate, TypeOK, StoreInv, MigratedAttributes
  <2>2. \/ w'.pc \in {"fail", "put"}
        \/ /\ w'.pc = "store" /\ w'.outcome = "migrated"
           /\ w'.req \in Legacy /\ w'.cred = V2Cred
    BY <1>7, <2>1 DEF TypeOK, WorkerState, Migrate, FailWith, GoTo
  <2> QED
    BY <1>7, <2>2 DEF Migrate, StoreInv, DeletePcs
<1>8. ASSUME FindProducer
      PROVE  StoreInv'
  <2>1. /\ w.pc = "dGet" /\ w'.obj = w.obj
        /\ \/ w'.pc = "dHead"
           \/ w'.pc = "release" /\ w'.outcome = "abandoned"
    BY <1>8 DEF TypeOK, WorkerState, FindProducer, GoTo
  <2> QED
    BY <1>8, <2>1 DEF FindProducer, StoreInv, DeletePcs
<1>9. ASSUME NEW ok \in BOOLEAN, AskForAccount(ok)
      PROVE  StoreInv'
  <2>1. /\ w.pc = "dHead" /\ w'.obj = w.obj /\ w'.req = w.req
        /\ \/ w'.pc \in {"fail", "dDelete"}
           \/ w'.pc = "release" /\ account[w.req] = NoCred
    BY <1>9 DEF TypeOK, WorkerState, AskForAccount, GoTo, FailWith
  <2> QED
    BY <1>9, <2>1 DEF AskForAccount, StoreInv, DeletePcs
<1>10. ASSUME NEW applied \in BOOLEAN, NEW ok \in BOOLEAN,
              AddFinalizer(applied, ok)
       PROVE  StoreInv'
  <2>1. w'.pc \in {"idle", "exists"}
    <3>1. CASE ok
      BY <1>10, <3>1 DEF AddFinalizer, TypeOK, WorkerState
    <3>2. CASE ~ok
      <4>1. w' = Idle
        BY <1>10, <3>2 DEF AddFinalizer, Finish
      <4> QED
        BY <4>1 DEF Idle
    <3> QED
      BY <3>1, <3>2
  <2> QED
    BY <1>10, <2>1, StoreFrame DEF AddFinalizer, DeletePcs
<1>11. ASSUME NEW applied \in BOOLEAN, NEW ok \in BOOLEAN,
              DropSecret(applied, ok)
       PROVE  StoreInv'
  <2>1. w'.pc \in {"idle", "fail", "markMissing"}
    <3>1. CASE ok
      BY <1>11, <3>1 DEF DropSecret, TypeOK, WorkerState, GoTo, FailWith
    <3>2. CASE ~ok
      <4>1. w' = Idle
        BY <1>11, <3>2 DEF DropSecret, Finish
      <4> QED
        BY <4>1 DEF Idle
    <3> QED
      BY <3>1, <3>2
  <2> QED
    BY <1>11, <2>1, StoreFrame DEF DropSecret, DeletePcs
<1>12. ASSUME NEW applied \in BOOLEAN, NEW ok \in BOOLEAN,
              \/ MarkMissing(applied, ok) \/ SetReady(applied, ok)
              \/ RecordFailure(applied, ok)
       PROVE  StoreInv'
  <2>1. ASSUME NEW new, NEW next \in {Idle, FailWith("status")},
               PatchStatus(new, applied, ok, next)
        PROVE  w'.pc \in {"idle", "fail"}
    <3>1. next.pc \in {"idle", "fail"}
      <4>1. Idle.pc = "idle" /\ FailWith("status").pc = "fail"
        BY DEF Idle, FailWith, TypeOK, WorkerState
      <4> QED
        BY <2>1, <4>1
    <3>2. \/ w' = next
          \/ w' = [next EXCEPT !.obj = AfterPatch(w.req, WObj, new, ok)]
      BY <2>1 DEF PatchStatus
    <3> QED
      <4>1. Idle \in WorkerState /\ FailWith("status") \in WorkerState
        BY IdleTypes DEF FailWith, TypeOK, WorkerState, Errors
      <4>2. next \in WorkerState
        BY <2>1, <4>1
      <4> QED
        BY <3>1, <3>2, <4>2 DEF WorkerState
  <2>2. w'.pc \in {"idle", "fail"} /\ UNCHANGED <<account, migration>>
    <3>1. CASE MarkMissing(applied, ok)
      BY <2>1, <3>1 DEF MarkMissing
    <3>2. CASE SetReady(applied, ok)
      BY <2>1, <3>2 DEF SetReady
    <3>3. CASE RecordFailure(applied, ok)
      BY <2>1, <3>3 DEF RecordFailure
    <3> QED
      BY <1>12, <3>1, <3>2, <3>3
  <2> QED
    BY <2>2, StoreFrame DEF DeletePcs
<1>13. ASSUME NEW applied \in BOOLEAN, NEW ok \in BOOLEAN, Store(applied, ok)
       PROVE  StoreInv'
  <2>1. w'.pc \in {"ready", "fail"}
    BY <1>13 DEF TypeOK, WorkerState, Store, FailWith
  <2> QED
    BY <1>13, <2>1, StoreFrame DEF Store, DeletePcs
<1>14. ASSUME NEW applied \in BOOLEAN, NEW ok \in BOOLEAN,
              DeleteAccount(applied, ok)
       PROVE  StoreInv'
  <2>1. /\ w.pc = "dDelete" /\ w.req \in Requests
        /\ ok => account'[w.req] = NoCred
        /\ UNCHANGED migration
    BY <1>14 DEF DeleteAccount, Call, TypeOK
  <2>2. /\ w'.obj = w.obj /\ w'.req = w.req
        /\ w'.pc = "fail" \/ (ok /\ w'.pc = "release")
    <3>1. w' = IF ok THEN [w EXCEPT !.pc = "release", !.outcome = "deleted"]
               ELSE [w EXCEPT !.pc = "fail", !.error = "delete"]
      BY <1>14 DEF DeleteAccount, AfterDelete, FailWith
    <3>2. CASE ok
      BY <3>1, <3>2 DEF TypeOK, WorkerState
    <3>3. CASE ~ok
      BY <3>1, <3>3 DEF TypeOK, WorkerState
    <3> QED
      BY <3>2, <3>3
  <2> QED
    BY <2>1, <2>2 DEF StoreInv, DeletePcs
<1>15. ASSUME NEW applied \in BOOLEAN, NEW ok \in BOOLEAN, Release(applied, ok)
       PROVE  StoreInv'
  <2>1. w'.pc = "idle"
    BY <1>15 DEF Release, Finish, Idle
  <2> QED
    BY <1>15, <2>1, StoreFrame DEF Release, DeletePcs
<1>16. ASSUME NEW applied \in BOOLEAN, NEW ok \in BOOLEAN,
              NEW c \in Creds \cup {NoCred}, Put(c, applied, ok)
       PROVE  StoreInv'
  <2>1. /\ w.req \in Requests
        /\ ok /\ c # NoCred => account'[w.req] = c
        /\ UNCHANGED migration
    BY <1>16 DEF Put, Call, TypeOK
  <2>2. /\ w'.req = w.req
        /\ \/ w'.pc \in {"fail", "ready"}
           \/ /\ ok /\ c # NoCred
              /\ w'.pc = "store" /\ w'.outcome = "rotated" /\ w'.cred = c
    BY <1>16 DEF TypeOK, WorkerState, Put, FailWith
  <2> QED
    BY <2>1, <2>2 DEF StoreInv, DeletePcs
<1> QED
  BY <1>1, <1>2, <1>3, <1>4, <1>5, <1>6, <1>7, <1>8, <1>9, <1>10, <1>11, <1>12,
     <1>13, <1>14, <1>15, <1>16 DEF WorkerStep

(* Every step keeps StoreInv: only the worker and legacy requests touch    *)
(* what it is about.                                                       *)
LEMMA StoreInvStep ==
  ASSUME TypeOK, StoreInv, [Next]_vars
  PROVE  StoreInv'
<1> USE DEF clusterVars, cacheVars, rotationVars, producerVars
<1>1. CASE WorkerStep
  BY <1>1, WorkerKeepsStoreInv
<1>2. ASSUME NEW r \in Requests, CronFires(r) \/ RotationJob(r)
      PROVE  StoreInv'
  BY <1>2, StoreFrame DEF CronFires, RotationJob, JobCheck, JobPatch, JobDelete
<1>3. CASE Informers
  BY <1>3, StoreFrame DEF Informers, SyncSare, SyncSecret, SyncSapr
<1>4. CASE Environment
  <2>1. ASSUME NEW r \in Requests,
               \/ ApplyRequest(r) \/ ChangeRequest(r) \/ DeleteRequest(r)
               \/ DeletionTimeout(r)
        PROVE  StoreInv'
    BY <2>1, StoreFrame
       DEF ApplyRequest, ChangeRequest, DeleteRequest, DeletionTimeout
  <2>2. ASSUME NEW r \in Requests, WriteMigrationSecret(r)
        PROVE  StoreInv'
    <3>1. /\ \A q \in Requests \ Legacy : migration'[q] = migration[q]
          /\ UNCHANGED <<account, w>>
      BY <2>2 DEF WriteMigrationSecret, TypeOK
    <3> QED
      BY <3>1 DEF StoreInv
  <2>3. ASSUME NEW n \in SecretNames,
               CollectGarbage(n) \/ DeleteSecret(n) \/ CreateForeignSecret(n)
        PROVE  StoreInv'
    BY <2>3, StoreFrame DEF CollectGarbage, DeleteSecret, CreateForeignSecret
  <2>4. ASSUME NEW p \in Producers,
               ChangeProducer(p) \/ StopService(p) \/ StartService(p)
        PROVE  StoreInv'
    BY <2>4, StoreFrame DEF ChangeProducer, StopService, StartService
  <2> QED
    BY <1>4, <2>1, <2>2, <2>3, <2>4 DEF Environment
<1>5. CASE Crash
  BY <1>5, StoreFrame DEF Crash, Restart, Idle, DeletePcs
<1>6. CASE UNCHANGED vars
  BY <1>6, StoreFrame DEF vars
<1> QED
  BY <1>1, <1>2, <1>3, <1>4, <1>5, <1>6 DEF Next, Operator

-----------------------------------------------------------------------------
(* Steps of the operator as steps of CredentialDelivery.                   *)

(* The guard is made of the phase and the finalizer.                       *)
LEMMA SameGuards ==
  ASSUME \A r \in Requests : /\ sare'[r].phase = sare[r].phase
                             /\ sare'[r].finalizer = sare[r].finalizer
  PROVE  Guards' = Guards
BY DEF Guards, GuardOf

(* A change of one SARE changes one guard.                                 *)
LEMMA OneGuard ==
  ASSUME NEW r \in Requests, \A q \in Requests \ {r} : sare'[q] = sare[q]
  PROVE  Guards' = [Guards EXCEPT ![r] = Guards'[r]]
BY DEF Guards, GuardOf

(* What consumers hold is made of the secrets.                             *)
LEMMA SameHoldings ==
  ASSUME UNCHANGED secret
  PROVE  Holdings' = Holdings
BY DEF Holdings, HeldBy, Owned

(* Bookkeeping is invisible.                                               *)
LEMMA Stutter ==
  ASSUME Guards' = Guards, Holdings' = Holdings, UNCHANGED <<account, abandoned>>
  PROVE  [Delivery!Next]_(Delivery!vars)
BY DEF Delivery!vars

(* Removing a secret withdraws the credential of its owner.                *)
LEMMA RemovalWithdraws ==
  ASSUME TypeOK, NEW n \in SecretNames, RemoveSecret(n),
         UNCHANGED <<sare, account, abandoned>>
  PROVE  [Delivery!Next]_(Delivery!vars)
<1> DEFINE q == secret[n].owner
<1>1. Guards' = Guards
  BY SameGuards
<1>2. /\ secret'[n].owner = Nobody
      /\ \A m \in SecretNames \ {n} : secret'[m] = secret[m]
  BY DEF RemoveSecret, TypeOK, NoSecret
<1>3. \A r \in Requests : MySecret(r) \in SecretNames /\ r # Nobody
  BY NamesAssumption DEF MySecret
<1>4. CASE q \in Requests /\ MySecret(q) = n
  <2>1. \A r \in Requests :
          Holdings'[r] = IF r = q THEN NoCred ELSE Holdings[r]
    BY <1>2, <1>3, <1>4 DEF Holdings, HeldBy, Owned
  <2>2. Holdings' = [Holdings EXCEPT ![q] = NoCred]
    BY <1>4, <2>1 DEF Holdings
  <2>3. Delivery!Withdraw(q)
    BY <1>1, <2>2 DEF Delivery!Withdraw
  <2> QED
    BY <1>4, <2>3 DEF Delivery!Next
<1>5. CASE ~(q \in Requests /\ MySecret(q) = n)
  <2>1. \A r \in Requests : Holdings'[r] = Holdings[r]
    BY <1>2, <1>3, <1>5 DEF Holdings, HeldBy, Owned
  <2>2. Holdings' = Holdings
    BY <2>1 DEF Holdings
  <2> QED
    BY <1>1, <2>2, Stutter
<1> QED
  BY <1>4, <1>5

(* AddFinalizer: the guard.                                                *)
LEMMA FinalizerGuards ==
  ASSUME TypeOK, AccountInv, NEW applied \in BOOLEAN, NEW ok \in BOOLEAN,
         AddFinalizer(applied, ok)
  PROVE  [Delivery!Next]_(Delivery!vars)
<1> DEFINE r == w.req
           o == [w.obj EXCEPT !.finalizer = TRUE]
<1>1. /\ w.pc = "finalizer" /\ r \in Requests
      /\ applied => sare[r] = w.obj
      /\ sare' = IF applied THEN [sare EXCEPT ![r] = o] ELSE sare
      /\ UNCHANGED <<secret, account, abandoned>>
  BY DEF AddFinalizer, Call, TypeOK, producerVars
<1>2. w.obj.phase = "live" /\ w.obj \in Sare
  BY <1>1 DEF AccountInv, WorkerInv, TypeOK, WorkerState
<1>3. Holdings' = Holdings
  BY <1>1, SameHoldings
<1>4. CASE applied /\ ~w.obj.finalizer
  <2>1. /\ sare[r].phase = "live" /\ ~sare[r].finalizer
        /\ sare'[r].phase = "live" /\ sare'[r].finalizer
        /\ \A q \in Requests \ {r} : sare'[q] = sare[q]
    BY <1>1, <1>2, <1>4 DEF TypeOK, Sare
  <2> HIDE DEF r
  <2>2. Guards[r] = "open" /\ Guards'[r] = "guarded"
    BY <1>1, <2>1 DEF Guards, GuardOf
  <2>3. Guards' = [Guards EXCEPT ![r] = "guarded"]
    BY <1>1, <2>1, <2>2, OneGuard
  <2>4. Delivery!Guard(r)
    BY <1>1, <1>3, <2>2, <2>3 DEF Delivery!Guard
  <2> QED
    BY <1>1, <2>4 DEF Delivery!Next
<1>5. CASE ~applied \/ w.obj.finalizer
  <2>1. \A q \in Requests : /\ sare'[q].phase = sare[q].phase
                            /\ sare'[q].finalizer = sare[q].finalizer
    BY <1>1, <1>2, <1>5 DEF TypeOK, Sare
  <2> QED
    BY <1>1, <1>3, <2>1, SameGuards, Stutter
<1> QED
  BY <1>4, <1>5

(* A request the worker creates or updates an account for is guarded.      *)
LEMMA UpdatesAreGuarded ==
  ASSUME TypeOK, AccountInv, w.pc \in UpdatePcs \ {"finalizer"}
  PROVE  w.req \in Requests /\ Delivery!Guarded(w.req)
<1>1. /\ w.req \in Requests
      /\ Present(sare[w.req]) /\ sare[w.req].finalizer
  BY DEF TypeOK, AccountInv, WorkerInv, UpdatePcs
<1> QED
  BY <1>1 DEF Delivery!Guarded, Guards, GuardOf, Present

(* Put: a new credential, issued to a guarded request.                     *)
LEMMA PutIssues ==
  ASSUME TypeOK, AccountInv, NEW applied \in BOOLEAN, NEW ok \in BOOLEAN,
         NEW c \in Creds \cup {NoCred}, Put(c, applied, ok)
  PROVE  [Delivery!Next]_(Delivery!vars)
<1> DEFINE r == w.req
<1>1. /\ w.pc = "put"
      /\ Answer(r, RotateNow, c)
      /\ account' = IF applied /\ c # NoCred THEN [account EXCEPT ![r] = c]
                    ELSE account
      /\ UNCHANGED <<sare, secret, abandoned>>
  BY DEF Put, clusterVars
<1>2. r \in Requests /\ Delivery!Guarded(r)
  BY <1>1, UpdatesAreGuarded DEF UpdatePcs
<1>3. Guards' = Guards /\ Holdings' = Holdings
  BY <1>1, SameGuards, SameHoldings
<1>4. CASE applied /\ NewCredential(c)
  <2>1. /\ c \in Creds \ InUse /\ c # NoCred
        /\ account' = [account EXCEPT ![r] = c]
    BY <1>1, <1>4, CredsAssumption DEF NewCredential
  <2>2. \A q \in Requests : account[q] \in InUse
    BY DEF InUse
  <2>3. \A q \in Requests : Holdings[q] \in InUse \cup {NoCred}
    BY NamesAssumption DEF Holdings, HeldBy, MySecret, InUse
  <2>4. V2Cred \in InUse
    BY DEF InUse
  <2>5. c \in Creds \ ({V2Cred} \cup {account[q] : q \in Requests}
                               \cup {Holdings[q] : q \in Requests})
    BY <2>1, <2>2, <2>3, <2>4
  <2>6. Delivery!Issue(r)
    BY <1>2, <1>1, <1>3, <2>1, <2>5 DEF Delivery!Issue
  <2> QED
    BY <1>2, <2>6 DEF Delivery!Next
<1>5. CASE ~(applied /\ NewCredential(c))
  <2>1. account' = account
    BY <1>1, <1>2, <1>5 DEF Answer, TypeOK
  <2> QED
    BY <1>1, <1>3, <2>1, Stutter
<1> QED
  BY <1>4, <1>5

(* Store: the credential reaches the consumer.                             *)
LEMMA StoreDelivers ==
  ASSUME TypeOK, AccountInv, StoreInv,
         NEW applied \in BOOLEAN, NEW ok \in BOOLEAN, Store(applied, ok)
  PROVE  [Delivery!Next]_(Delivery!vars)
<1> DEFINE r == w.req
           n == MySecret(r)
<1>1. /\ w.pc = "store"
      /\ applied => seenSecret[n] = secret[n] /\ StorePossible(seenSecret[n], r)
      /\ secret' = IF applied
                   THEN [secret EXCEPT ![n] = [owner |-> r, cred |-> w.cred]]
                   ELSE secret
      /\ UNCHANGED <<sare, account, abandoned>>
  BY DEF Store, Call, producerVars
<1>2. r \in Requests /\ Delivery!Guarded(r)
  BY <1>1, UpdatesAreGuarded DEF UpdatePcs
<1>3. Guards' = Guards
  BY <1>1, SameGuards
<1>4. \A q \in Requests : MySecret(q) \in SecretNames /\ q # Nobody
  BY NamesAssumption DEF MySecret
<1>5. CASE applied
  <2>1. /\ secret[n].owner \in {r, Nobody}
        /\ secret'[n] = [owner |-> r, cred |-> w.cred]
        /\ \A m \in SecretNames \ {n} : secret'[m] = secret[m]
    BY <1>1, <1>2, <1>4, <1>5
       DEF StorePossible, IsControlledBy, NoSecret, TypeOK
  <2>2. \A q \in Requests :
          Holdings'[q] = IF q = r THEN w.cred ELSE Holdings[q]
    BY <1>2, <1>4, <2>1 DEF Holdings, HeldBy, Owned
  <2>3. Holdings' = [Holdings EXCEPT ![r] = w.cred]
    BY <1>2, <2>2 DEF Holdings
  <2>4. \/ Delivery!Restore(r)
        \/ Delivery!Deliver(r)
    BY <1>1, <1>2, <1>3, <2>3
       DEF StoreInv, Delivery!Restore, Delivery!Deliver
  <2> QED
    BY <1>2, <2>4 DEF Delivery!Next
<1>6. CASE ~applied
  BY <1>1, <1>3, <1>6, SameHoldings, Stutter
<1> QED
  BY <1>5, <1>6

(* DeleteAccount: the account of a request that ends is revoked.           *)
LEMMA DeleteRevokes ==
  ASSUME TypeOK, AccountInv, NEW applied \in BOOLEAN, NEW ok \in BOOLEAN,
         DeleteAccount(applied, ok)
  PROVE  [Delivery!Next]_(Delivery!vars)
<1>1. /\ w.pc = "dDelete" /\ w.req \in Requests
      /\ account' = IF applied THEN [account EXCEPT ![w.req] = NoCred]
                    ELSE account
      /\ UNCHANGED <<sare, secret, abandoned>>
  BY DEF DeleteAccount, TypeOK, clusterVars
<1>2. Guards' = Guards /\ Holdings' = Holdings
  BY <1>1, SameGuards, SameHoldings
<1>3. sare[w.req].phase \in {"deleting", "gone"}
  BY <1>1 DEF AccountInv, WorkerInv, DeletionStays, DeletePcs
<1>4. Guards[w.req] \in {"ending", "gone"}
  BY <1>1, <1>3 DEF Guards, GuardOf
<1>5. CASE applied
  BY <1>1, <1>2, <1>4, <1>5 DEF Delivery!Revoke, Delivery!Next
<1>6. CASE ~applied
  BY <1>1, <1>2, <1>6, Stutter
<1> QED
  BY <1>5, <1>6

(* Release: a request ends after its account, or gives it up.              *)
LEMMA ReleaseReleases ==
  ASSUME TypeOK, StoreInv, NEW applied \in BOOLEAN, NEW ok \in BOOLEAN,
         Release(applied, ok)
  PROVE  [Delivery!Next]_(Delivery!vars)
<1> DEFINE r == w.req
<1>1. /\ w.pc = "release" /\ r \in Requests
      /\ applied => sare[r] = w.obj
      /\ sare' = IF applied
                 THEN [sare EXCEPT ![r] = [@ EXCEPT !.phase = "gone",
                                                    !.finalizer = FALSE]]
                 ELSE sare
      /\ abandoned' = IF applied /\ w.outcome = "abandoned"
                      THEN abandoned \cup {r} ELSE abandoned
      /\ UNCHANGED <<secret, account>>
  BY DEF Release, Call, TypeOK, producerVars
<1>2. w.obj.phase = "deleting" /\ (w.outcome # "abandoned" => account[r] = NoCred)
  BY <1>1 DEF StoreInv, DeletePcs
<1>3. Holdings' = Holdings
  BY <1>1, SameHoldings
<1>4. CASE applied
  <2>1. /\ sare[r].phase = "deleting" /\ sare'[r].phase = "gone"
        /\ \A q \in Requests \ {r} : sare'[q] = sare[q]
    BY <1>1, <1>2, <1>4 DEF TypeOK, Sare
  <2>2. /\ \/ account[r] = NoCred /\ UNCHANGED abandoned
           \/ abandoned' = abandoned \cup {r}
        /\ UNCHANGED account
    BY <1>1, <1>2, <1>4
  <2>3. r \in Requests
    BY <1>1
  <2> HIDE DEF r
  <2>4. Guards[r] = "ending" /\ Guards'[r] = "gone"
    BY <2>1, <2>3 DEF Guards, GuardOf
  <2>5. Guards' = [Guards EXCEPT ![r] = "gone"]
    BY <2>1, <2>3, <2>4, OneGuard
  <2>6. Delivery!Release(r)
    BY <1>3, <2>2, <2>4, <2>5 DEF Delivery!Release
  <2> QED
    BY <2>3, <2>6 DEF Delivery!Next
<1>5. CASE ~applied
  BY <1>1, <1>3, <1>5, SameGuards, Stutter
<1> QED
  BY <1>4, <1>5

-----------------------------------------------------------------------------
(* Every step is a step of CredentialDelivery or stutters.                 *)

(* Status patches are bookkeeping (setAndPersist).                         *)
LEMMA PatchStutters ==
  ASSUME TypeOK, w.pc # "idle",
         NEW new \in Status, NEW applied \in BOOLEAN, NEW ok \in BOOLEAN,
         NEW next \in WorkerState, PatchStatus(new, applied, ok, next),
         UNCHANGED <<secret, account, abandoned>>
  PROVE  [Delivery!Next]_(Delivery!vars)
<1>1. \A r \in Requests : /\ sare'[r].phase = sare[r].phase
                          /\ sare'[r].finalizer = sare[r].finalizer
  BY PatchStatusType
<1> QED
  BY <1>1, SameGuards, SameHoldings, Stutter

(* The worker.                                                             *)
LEMMA WorkerRefines ==
  ASSUME TypeOK, AccountInv, StoreInv, WorkerStep
  PROVE  [Delivery!Next]_(Delivery!vars)
<1> USE DEF clusterVars, cacheVars, rotationVars, producerVars
<1>1. ASSUME UNCHANGED <<sare, secret, account, abandoned>>
      PROVE  [Delivery!Next]_(Delivery!vars)
  BY <1>1, SameGuards, SameHoldings, Stutter
<1>2. ASSUME NEW r \in Requests,
             ReconcileSkip(r) \/ ReconcileLive(r) \/ ReconcileDeleting(r)
      PROVE  [Delivery!Next]_(Delivery!vars)
  BY <1>1, <1>2 DEF ReconcileSkip, ReconcileLive, ReconcileDeleting
<1>3. CASE CheckSecretExists
  BY <1>1, <1>3 DEF CheckSecretExists
<1>4. CASE SetRotation
  BY <1>1, <1>4 DEF SetRotation
<1>5. CASE GetProducer \/ Migrate \/ FindProducer
  BY <1>1, <1>5 DEF GetProducer, ProducerMissing, Migrate, FindProducer
<1>6. ASSUME NEW ok \in BOOLEAN, AskForAccount(ok)
      PROVE  [Delivery!Next]_(Delivery!vars)
  BY <1>1, <1>6 DEF AskForAccount
<1>7. ASSUME NEW applied \in BOOLEAN, NEW ok \in BOOLEAN,
             DropSecret(applied, ok)
      PROVE  [Delivery!Next]_(Delivery!vars)
  <2>1. MySecret(w.req) \in SecretNames
    BY <1>7, NamesAssumption DEF DropSecret, TypeOK, MySecret
  <2>2. /\ RemoveSecret(MySecret(w.req)) \/ UNCHANGED secret
        /\ UNCHANGED <<sare, account, abandoned>>
    BY <1>7 DEF DropSecret
  <2> QED
    BY <1>1, <2>1, <2>2, RemovalWithdraws
<1>8. ASSUME NEW applied \in BOOLEAN, NEW ok \in BOOLEAN,
             MarkMissing(applied, ok)
      PROVE  [Delivery!Next]_(Delivery!vars)
  <2> DEFINE next == IF ok THEN Idle ELSE FailWith("status")
  <2>1. w.pc # "idle"
    BY <1>8 DEF MarkMissing
  <2>2. next \in WorkerState
    BY IdleTypes DEF TypeOK, FailWith, WorkerState, Errors
  <2>3. producerNotFound(WObj) \in Status
    BY <2>1, WObjType, StatusWriters
  <2>4. /\ PatchStatus(producerNotFound(WObj), applied, ok, next)
        /\ UNCHANGED <<secret, account, abandoned>>
    BY <1>8 DEF MarkMissing
  <2> HIDE DEF next
  <2> QED
    BY <2>1, <2>2, <2>3, <2>4, PatchStutters
<1>9. ASSUME NEW applied \in BOOLEAN, NEW ok \in BOOLEAN, SetReady(applied, ok)
      PROVE  [Delivery!Next]_(Delivery!vars)
  <2>1. w.pc # "idle"
    BY <1>9 DEF SetReady
  <2>2. ReadyStatus \in Status
    BY <2>1, WObjType, StatusWriters DEF ReadyStatus
  <2> QED
    BY <1>9, <2>1, <2>2, IdleTypes, PatchStutters DEF SetReady
<1>10. ASSUME NEW applied \in BOOLEAN, NEW ok \in BOOLEAN,
              RecordFailure(applied, ok)
       PROVE  [Delivery!Next]_(Delivery!vars)
  <2>1. w.pc # "idle" /\ w.error \in Messages
    BY <1>10 DEF TypeOK, RecordFailure, WorkerState, Messages
  <2>2. ReasonFor(w.error) \in Reasons
    BY DEF ReasonFor, Reasons
  <2>3. serviceAccountFailed(WObj, ReasonFor(w.error), w.error) \in Status
    BY <2>1, <2>2, WObjType, StatusWriters
  <2> QED
    BY <1>10, <2>1, <2>3, IdleTypes, PatchStutters DEF RecordFailure
<1>11. ASSUME NEW applied \in BOOLEAN, NEW ok \in BOOLEAN,
              \/ AddFinalizer(applied, ok) \/ Store(applied, ok)
              \/ DeleteAccount(applied, ok) \/ Release(applied, ok)
              \/ \E c \in Creds \cup {NoCred} : Put(c, applied, ok)
       PROVE  [Delivery!Next]_(Delivery!vars)
  BY <1>11, FinalizerGuards, StoreDelivers, DeleteRevokes, ReleaseReleases,
     PutIssues
<1> QED
  BY <1>2, <1>3, <1>4, <1>5, <1>6, <1>7, <1>8, <1>9, <1>10, <1>11
     DEF WorkerStep

(* A rotation job withdraws at most a credential.                          *)
LEMMA RotationRefines ==
  ASSUME TypeOK, NEW r \in Requests, CronFires(r) \/ RotationJob(r)
  PROVE  [Delivery!Next]_(Delivery!vars)
<1> USE DEF clusterVars, cacheVars, rotationVars, producerVars
<1>1. CASE CronFires(r) \/ JobCheck(r)
  BY <1>1, SameGuards, SameHoldings, Stutter DEF CronFires, JobCheck
<1>2. ASSUME NEW applied \in BOOLEAN, NEW ok \in BOOLEAN,
             JobPatch(r, applied, ok)
      PROVE  [Delivery!Next]_(Delivery!vars)
  <2> DEFINE new == serviceAccountNotReadyForRotation(JObj(r))
             patched == Patched(r, JObj(r), new)
  <2>1. patched.phase = sare[r].phase /\ patched.finalizer = sare[r].finalizer
    BY DEF Patched, TypeOK, Sare
  <2>2. /\ sare' = IF applied THEN [sare EXCEPT ![r] = patched] ELSE sare
        /\ UNCHANGED <<secret, account, abandoned>>
    BY <1>2 DEF JobPatch
  <2> HIDE DEF patched
  <2>3. \A q \in Requests : /\ sare'[q].phase = sare[q].phase
                            /\ sare'[q].finalizer = sare[q].finalizer
    BY <2>1, <2>2 DEF TypeOK
  <2> QED
    BY <2>2, <2>3, SameGuards, SameHoldings, Stutter
<1>3. ASSUME NEW applied \in BOOLEAN, JobDelete(r, applied)
      PROVE  [Delivery!Next]_(Delivery!vars)
  <2>1. MySecret(r) \in SecretNames
    BY NamesAssumption DEF MySecret
  <2>2. /\ RemoveSecret(MySecret(r)) \/ UNCHANGED secret
        /\ UNCHANGED <<sare, account, abandoned>>
    BY <1>3 DEF JobDelete
  <2> QED
    BY <2>1, <2>2, RemovalWithdraws, SameGuards, SameHoldings, Stutter
<1> QED
  BY <1>1, <1>2, <1>3 DEF RotationJob

(* Users and the API server: requests end, secrets are removed.            *)
LEMMA EnvironmentRefines ==
  ASSUME TypeOK, Environment
  PROVE  [Delivery!Next]_(Delivery!vars)
<1> USE DEF clusterVars, cacheVars, rotationVars, producerVars
<1>1. ASSUME NEW r \in Requests, DeleteRequest(r)
      PROVE  [Delivery!Next]_(Delivery!vars)
  <2>1. /\ sare[r] \in Sare /\ sare[r].phase = "live"
        /\ \A q \in Requests \ {r} : sare'[q] = sare[q]
        /\ UNCHANGED <<secret, account, abandoned>>
        /\ sare'[r].phase = IF sare[r].finalizer THEN "deleting" ELSE "gone"
    BY <1>1 DEF DeleteRequest, TypeOK, Sare
  <2>2. /\ Guards[r] = IF sare[r].finalizer THEN "guarded" ELSE "open"
        /\ Guards'[r] = IF sare[r].finalizer THEN "ending" ELSE "gone"
    BY <2>1 DEF Guards, GuardOf
  <2>3. Guards' = [Guards EXCEPT ![r] = Guards'[r]] /\ Holdings' = Holdings
    BY <2>1, OneGuard, SameHoldings
  <2>4. Delivery!End(r)
    BY <2>1, <2>2, <2>3 DEF Delivery!End
  <2> QED
    BY <2>4 DEF Delivery!Next
<1>2. ASSUME NEW r \in Requests, ApplyRequest(r) \/ ChangeRequest(r)
      PROVE  [Delivery!Next]_(Delivery!vars)
  <2>1. /\ \A q \in Requests \ {r} : sare'[q] = sare[q]
        /\ UNCHANGED <<secret, account, abandoned>>
    BY <1>2 DEF ApplyRequest, ChangeRequest, TypeOK
  <2>2. GuardOf(r)' = GuardOf(r)
    <3>1. CASE ApplyRequest(r)
      <4>1. /\ sare[r].phase = "new"
            /\ sare'[r].phase = "live" /\ ~sare'[r].finalizer
        BY <3>1 DEF ApplyRequest, TypeOK, NewSare
      <4> QED
        BY <4>1 DEF GuardOf
    <3>2. CASE ChangeRequest(r)
      BY <3>2 DEF ChangeRequest, TypeOK, Sare, GuardOf
    <3> QED
      BY <1>2, <3>1, <3>2
  <2>3. Guards' = Guards
    BY <2>1, <2>2 DEF Guards, GuardOf
  <2> QED
    BY <2>1, <2>3, SameHoldings, Stutter
<1>3. ASSUME NEW r \in Requests,
             DeletionTimeout(r) \/ WriteMigrationSecret(r)
      PROVE  [Delivery!Next]_(Delivery!vars)
  BY <1>3, SameGuards, SameHoldings, Stutter
     DEF DeletionTimeout, WriteMigrationSecret
<1>4. ASSUME NEW n \in SecretNames, CollectGarbage(n) \/ DeleteSecret(n)
      PROVE  [Delivery!Next]_(Delivery!vars)
  BY <1>4, RemovalWithdraws DEF CollectGarbage, DeleteSecret
<1>5. ASSUME NEW n \in SecretNames, CreateForeignSecret(n)
      PROVE  [Delivery!Next]_(Delivery!vars)
  <2>1. /\ secret[n].owner = Nobody /\ secret'[n].owner = Foreign
        /\ \A m \in SecretNames \ {n} : secret'[m] = secret[m]
        /\ UNCHANGED <<sare, account, abandoned>>
    BY <1>5 DEF CreateForeignSecret, TypeOK, Secret, NoSecret
  <2>2. \A r \in Requests : MySecret(r) \in SecretNames
                            /\ r # Nobody /\ r # Foreign
    BY NamesAssumption DEF MySecret
  <2>3. \A r \in Requests : Holdings'[r] = Holdings[r]
    BY <2>1, <2>2 DEF Holdings, HeldBy, Owned
  <2>4. Holdings' = Holdings
    BY <2>3 DEF Holdings
  <2> QED
    BY <2>1, <2>4, SameGuards, Stutter
<1>6. ASSUME NEW p \in Producers,
             ChangeProducer(p) \/ StopService(p) \/ StartService(p)
      PROVE  [Delivery!Next]_(Delivery!vars)
  BY <1>6, SameGuards, SameHoldings, Stutter
     DEF ChangeProducer, StopService, StartService
<1> QED
  BY <1>1, <1>2, <1>3, <1>4, <1>5, <1>6 DEF Environment

(* Every step of the operator and its environment.                         *)
LEMMA StepRefines ==
  ASSUME TypeOK, AccountInv, StoreInv, [Next]_vars
  PROVE  [Delivery!Next]_(Delivery!vars)
<1>1. ASSUME UNCHANGED <<sare, secret, account, abandoned>>
      PROVE  [Delivery!Next]_(Delivery!vars)
  BY <1>1, SameGuards, SameHoldings, Stutter
<1>2. CASE Informers
  BY <1>1, <1>2 DEF Informers, SyncSare, SyncSecret, SyncSapr, clusterVars,
                    producerVars
<1>3. CASE Crash
  BY <1>1, <1>3 DEF Crash, Restart, clusterVars, producerVars
<1>4. CASE UNCHANGED vars
  BY <1>1, <1>4 DEF vars
<1>5. ASSUME NEW r \in Requests, CronFires(r) \/ RotationJob(r)
      PROVE  [Delivery!Next]_(Delivery!vars)
  BY <1>5, RotationRefines
<1> QED
  BY <1>2, <1>3, <1>4, <1>5, WorkerRefines, EnvironmentRefines
     DEF Next, Operator

(* The operator does what CredentialDelivery promises: whatever the caches *)
(* show and whichever calls fail, credentials reach guarded requests only, *)
(* and are what the producer accepts or accepted before the migration;     *)
(* accounts end with their request, and requests after their account.      *)
THEOREM OperatorImplementsDelivery == Spec => ImplementsDelivery
<1>1. Init => StoreInv /\ Delivery!Init
  <2> SUFFICES ASSUME Init PROVE StoreInv /\ Delivery!Init
    OBVIOUS
  <2>1. StoreInv
    BY DEF Init, Idle, StoreInv, DeletePcs
  <2>2. Guards = [r \in Requests |-> "open"]
    BY DEF Init, NewSare, Guards, GuardOf
  <2>3. Holdings = [r \in Requests |-> NoCred]
    BY NamesAssumption DEF Init, NoSecret, Holdings, HeldBy, Owned, MySecret
  <2> QED
    BY <2>1, <2>2, <2>3 DEF Init, Delivery!Init
<1>2. TypeOK /\ StoreInv /\ [Next]_vars => StoreInv'
  BY StoreInvStep
<1>3. TypeOK /\ AccountInv /\ StoreInv /\ [Next]_vars
        => [Delivery!Next]_(Delivery!vars)
  BY StepRefines
<1> QED
  BY <1>1, <1>2, <1>3, TypeCorrect, AccountInvHolds, PTL
     DEF Spec, ImplementsDelivery, Delivery!Spec
=============================================================================
