------------------------ MODULE RequestSafetyProofs ------------------------
(***************************************************************************)
(* Safety of RequestController, for every set of requests, producers and   *)
(* secrets and every budget: no orphaned account, no secret taken over, no *)
(* recorded rotation lost.                                                 *)
(***************************************************************************)
EXTENDS RequestTypeProofs

-----------------------------------------------------------------------------
(* AccountInv is inductive.                                                *)

(* Steps that touch neither accounts, nor the cached SAREs, nor the phase  *)
(* and finalizer of a SARE; the worker stays in its half of the reconcile. *)
LEMMA Frame ==
  ASSUME AccountInv,
         UNCHANGED <<account, abandoned, seenSare>>,
         \A r \in Requests : /\ sare'[r].phase = sare[r].phase
                             /\ sare'[r].finalizer = sare[r].finalizer,
         w.pc # "idle" => w.req \in Requests,
         \/ w' = w
         \/ w'.pc \in {"idle", "fail"}
         \/ /\ w'.req = w.req
            /\ w.pc \in UpdatePcs \ {"finalizer"}
            /\ w'.pc \in UpdatePcs \ {"finalizer"}
         \/ /\ w'.req = w.req
            /\ w.pc \in DeletePcs /\ w'.pc \in DeletePcs
            /\ w'.pc = "release" /\ w'.outcome # "abandoned"
                 => ~Issued(w.req)
  PROVE  AccountInv'
<1>1. \A r \in Requests : /\ Present(sare[r])' = Present(sare[r])
                          /\ Issued(r)' = Issued(r)
  BY DEF Present, Issued
<1>2. \A r \in Requests : (FinalizerStays(r) /\ DeletionStays(r))'
  BY <1>1 DEF AccountInv, FinalizerStays, DeletionStays
<1>3. WorkerInv'
  BY <1>1 DEF AccountInv, WorkerInv, UpdatePcs, DeletePcs
<1>4. NoOrphanedAccount'
  BY <1>1 DEF AccountInv, NoOrphanedAccount
<1> QED
  BY <1>2, <1>3, <1>4 DEF AccountInv

(* Statuses come and go, phases and finalizers stay (setAndPersist).       *)
LEMMA PatchFrame ==
  ASSUME TypeOK, AccountInv, w.pc # "idle",
         NEW new \in Status, NEW applied \in BOOLEAN, NEW ok \in BOOLEAN,
         NEW next \in WorkerState, next.pc \in {"idle", "fail"},
         PatchStatus(new, applied, ok, next),
         UNCHANGED <<account, abandoned, seenSare>>
  PROVE  AccountInv'
<1>1. /\ w'.pc = next.pc
      /\ \A r \in Requests : /\ sare'[r].phase = sare[r].phase
                             /\ sare'[r].finalizer = sare[r].finalizer
  BY PatchStatusType
<1>2. w.req \in Requests
  BY DEF TypeOK
<1> QED
  BY <1>1, <1>2, Frame

(* Every step of the worker keeps AccountInv.                              *)
LEMMA WorkerKeepsAccountInv ==
  ASSUME TypeOK, AccountInv, WorkerStep
  PROVE  AccountInv'
<1> USE DEF clusterVars, cacheVars, rotationVars, producerVars
<1>0. w.pc # "idle" => w.req \in Requests
  BY DEF TypeOK
<1>1. ASSUME NEW r \in Requests, ReconcileSkip(r)
      PROVE  AccountInv'
  BY <1>0, <1>1, Frame DEF ReconcileSkip
<1>2. ASSUME NEW r \in Requests, ReconcileLive(r)
      PROVE  AccountInv'
  <2>1. /\ w'.pc = FirstStep(seenSare[r]) /\ w'.req = r
        /\ w'.obj = seenSare[r]
        /\ seenSare[r].phase = "live"
        /\ UNCHANGED <<sare, seenSare, account, abandoned>>
    BY <1>2 DEF ReconcileLive, Idle
  <2>2. WorkerInv'
    BY <2>1 DEF AccountInv, FinalizerStays, WorkerInv, FirstStep, UpdatePcs,
                DeletePcs, Present
  <2> QED
    BY <2>1, <2>2 DEF AccountInv, FinalizerStays, DeletionStays,
                      NoOrphanedAccount, Issued, Present
<1>3. ASSUME NEW r \in Requests, ReconcileDeleting(r)
      PROVE  AccountInv'
  <2> DEFINE pc == FirstDeleteStep(r, seenSare[r])
  <2>1. /\ pc \in {"idle", "release", "dGet"}
        /\ IF pc = "idle" THEN w'.pc = "idle"
           ELSE w'.pc = pc /\ w'.req = r
                /\ w'.outcome = IF pc = "release" THEN "abandoned" ELSE "none"
        /\ seenSare[r].phase = "deleting"
        /\ UNCHANGED <<sare, seenSare, account, abandoned>>
    BY <1>3 DEF ReconcileDeleting, FirstDeleteStep, Idle
  <2> HIDE DEF pc
  <2>2. WorkerInv'
    BY <2>1 DEF AccountInv, WorkerInv, UpdatePcs, DeletePcs
  <2> QED
    BY <2>1, <2>2 DEF AccountInv, FinalizerStays, DeletionStays,
                      NoOrphanedAccount, Issued, Present
<1>4. ASSUME CheckSecretExists
      PROVE  AccountInv'
  <2>1. /\ w.pc = "exists"
        /\ \/ w'.pc = "fail"
           \/ w'.pc = "watch" /\ w'.req = w.req
    BY <1>4 DEF TypeOK, WorkerState, CheckSecretExists, FailWith
  <2> QED
    BY <1>0, <1>4, <2>1, Frame DEF CheckSecretExists, UpdatePcs
<1>5. ASSUME SetRotation
      PROVE  AccountInv'
  <2>1. w.obj.rotation \in {"off", "on", "invalid"}
    BY DEF TypeOK, WorkerState, Sare
  <2>2. /\ w.pc = "watch"
        /\ \/ w'.pc = "fail"
           \/ w'.pc = "sapr" /\ w'.req = w.req
    BY <1>5, <2>1 DEF TypeOK, WorkerState, SetRotation, FailWith, GoTo
  <2> QED
    BY <1>0, <1>5, <2>2, Frame DEF SetRotation, UpdatePcs
<1>6. ASSUME GetProducer
      PROVE  AccountInv'
  <2>1. /\ w.pc = "sapr" /\ w'.req = w.req
        /\ w'.pc \in {"dropSecret", "put", "migrate"}
    BY <1>6 DEF TypeOK, WorkerState, GetProducer, ProducerMissing, GoTo
  <2> QED
    BY <1>0, <1>6, <2>1, Frame DEF GetProducer, UpdatePcs
<1>7. ASSUME Migrate
      PROVE  AccountInv'
  <2>1. /\ w.pc = "migrate"
        /\ \/ w'.pc = "fail"
           \/ w'.pc \in {"put", "store"} /\ w'.req = w.req
    BY <1>7 DEF TypeOK, WorkerState, Migrate, FailWith, GoTo
  <2> QED
    BY <1>0, <1>7, <2>1, Frame DEF Migrate, UpdatePcs
<1>8. ASSUME FindProducer
      PROVE  AccountInv'
  <2>1. /\ w.pc = "dGet" /\ w'.req = w.req
        /\ \/ w'.pc = "dHead"
           \/ w'.pc = "release" /\ w'.outcome = "abandoned"
    BY <1>8 DEF TypeOK, WorkerState, FindProducer, GoTo
  <2> QED
    BY <1>0, <1>8, <2>1, Frame DEF FindProducer, DeletePcs
<1>9. ASSUME NEW ok \in BOOLEAN, AskForAccount(ok)
      PROVE  AccountInv'
  <2>1. /\ w.pc = "dHead"
        /\ \/ w'.pc = "fail"
           \/ w'.pc = "dDelete" /\ w'.req = w.req
           \/ /\ w'.pc = "release" /\ w'.req = w.req
              /\ account[w.req] = NoCred
    BY <1>9 DEF TypeOK, WorkerState, AskForAccount, GoTo, FailWith
  <2> QED
    BY <1>0, <1>9, <2>1, Frame DEF AskForAccount, DeletePcs, Issued
<1>10. ASSUME NEW applied \in BOOLEAN, NEW ok \in BOOLEAN,
              AddFinalizer(applied, ok)
       PROVE  AccountInv'
  <2> DEFINE r == w.req
             o == [w.obj EXCEPT !.finalizer = TRUE]
  <2>1. /\ w.pc = "finalizer" /\ r \in Requests
        /\ applied => sare[r] = w.obj
        /\ ok => applied
        /\ sare' = IF applied THEN [sare EXCEPT ![r] = o] ELSE sare
        /\ UNCHANGED <<seenSare, account, abandoned>>
    BY <1>0, <1>10 DEF AddFinalizer, Call
  <2>2. w.obj.phase = "live" /\ w.obj \in Sare
    BY <2>1 DEF AccountInv, WorkerInv, TypeOK, WorkerState
  <2>3. o.phase = "live" /\ o.finalizer
    BY <2>2 DEF Sare
  <2>4. \/ ~ok /\ w'.pc = "idle"
        \/ ok /\ w'.pc = "exists" /\ w'.req = r
    <3>1. CASE ok
      BY <1>10, <3>1 DEF AddFinalizer, TypeOK, WorkerState
    <3>2. CASE ~ok
      <4>1. w' = Idle
        BY <1>10, <3>2 DEF AddFinalizer, Finish
      <4> QED
        BY <3>2, <4>1 DEF Idle
    <3> QED
      BY <3>1, <3>2
  <2>5. \A q \in Requests :
          /\ sare'[q].phase = sare[q].phase
          /\ sare[q].finalizer => sare'[q].finalizer
    BY <2>1, <2>2, <2>3 DEF TypeOK, Sare
  <2>6. applied => sare'[r].phase = "live" /\ sare'[r].finalizer
    BY <2>1, <2>3 DEF TypeOK
  <2> HIDE DEF r, o
  <2>7. WorkerInv'
    BY <2>1, <2>4, <2>6 DEF WorkerInv, DeletePcs, UpdatePcs, Present
  <2> QED
    BY <2>1, <2>5, <2>7 DEF AccountInv, FinalizerStays, DeletionStays,
                            NoOrphanedAccount, Issued, Present
<1>11. ASSUME NEW applied \in BOOLEAN, NEW ok \in BOOLEAN,
              DropSecret(applied, ok)
       PROVE  AccountInv'
  <2>1. /\ w.pc = "dropSecret"
        /\ \/ w'.pc \in {"idle", "fail"}
           \/ w'.pc = "markMissing" /\ w'.req = w.req
    <3>1. CASE ok
      <4>1. /\ w.pc = "dropSecret"
            /\ w' \in {GoTo("markMissing"), FailWith("producer")}
        BY <1>11, <3>1 DEF DropSecret
      <4> QED
        BY <4>1 DEF TypeOK, WorkerState, GoTo, FailWith
    <3>2. CASE ~ok
      <4>1. w.pc = "dropSecret" /\ w' = Idle
        BY <1>11, <3>2 DEF DropSecret, Finish
      <4> QED
        BY <4>1 DEF Idle
    <3> QED
      BY <3>1, <3>2
  <2> QED
    BY <1>0, <1>11, <2>1, Frame DEF DropSecret, UpdatePcs
<1>12. ASSUME NEW applied \in BOOLEAN, NEW ok \in BOOLEAN,
              MarkMissing(applied, ok)
       PROVE  AccountInv'
  <2> DEFINE next == IF ok THEN Idle ELSE FailWith("status")
  <2>1. w.pc # "idle"
    BY <1>12 DEF MarkMissing
  <2>2. next \in WorkerState /\ next.pc \in {"idle", "fail"}
    BY IdleTypes DEF TypeOK, FailWith, WorkerState, Errors, Idle
  <2>3. producerNotFound(WObj) \in Status
    BY <2>1, WObjType, StatusWriters
  <2>4. /\ PatchStatus(producerNotFound(WObj), applied, ok, next)
        /\ UNCHANGED <<account, abandoned, seenSare>>
    BY <1>12 DEF MarkMissing
  <2> HIDE DEF next
  <2> QED
    BY <2>1, <2>2, <2>3, <2>4, PatchFrame
<1>13. ASSUME NEW applied \in BOOLEAN, NEW ok \in BOOLEAN, Store(applied, ok)
       PROVE  AccountInv'
  <2>1. /\ w.pc = "store"
        /\ \/ w'.pc = "fail"
           \/ w'.pc = "ready" /\ w'.req = w.req
    BY <1>13 DEF TypeOK, WorkerState, Store, FailWith
  <2> QED
    BY <1>0, <1>13, <2>1, Frame DEF Store, UpdatePcs
<1>14. ASSUME NEW applied \in BOOLEAN, NEW ok \in BOOLEAN,
              SetReady(applied, ok)
       PROVE  AccountInv'
  <2>1. w.pc # "idle"
    BY <1>14 DEF SetReady
  <2>2. ReadyStatus \in Status
    BY <2>1, WObjType, StatusWriters DEF ReadyStatus
  <2>3. Idle \in WorkerState /\ Idle.pc = "idle"
    BY IdleTypes DEF Idle
  <2> QED
    BY <1>14, <2>1, <2>2, <2>3, PatchFrame DEF SetReady
<1>15. ASSUME NEW applied \in BOOLEAN, NEW ok \in BOOLEAN,
              RecordFailure(applied, ok)
       PROVE  AccountInv'
  <2>1. w.pc # "idle" /\ w.error \in Messages
    BY <1>15 DEF TypeOK, RecordFailure, WorkerState, Messages
  <2>2. ReasonFor(w.error) \in Reasons
    BY DEF ReasonFor, Reasons
  <2>3. serviceAccountFailed(WObj, ReasonFor(w.error), w.error) \in Status
    BY <2>1, <2>2, WObjType, StatusWriters
  <2>4. Idle \in WorkerState /\ Idle.pc = "idle"
    BY IdleTypes DEF Idle
  <2> QED
    BY <1>15, <2>1, <2>3, <2>4, PatchFrame DEF RecordFailure
<1>16. ASSUME NEW applied \in BOOLEAN, NEW ok \in BOOLEAN,
              DeleteAccount(applied, ok)
       PROVE  AccountInv'
  <2>1. /\ w.pc = "dDelete" /\ w.req \in Requests
        /\ ok => applied
        /\ account' = IF applied THEN [account EXCEPT ![w.req] = NoCred]
                      ELSE account
        /\ UNCHANGED <<sare, seenSare, abandoned>>
    BY <1>0, <1>16 DEF DeleteAccount, Call
  <2>2. \A q \in Requests : Issued(q)' => Issued(q)
    BY <2>1 DEF TypeOK, Issued
  <2>3. \/ w'.pc = "fail"
        \/ ok /\ w'.pc = "release" /\ w'.req = w.req
    BY <1>16 DEF TypeOK, WorkerState, DeleteAccount, AfterDelete, FailWith
  <2>4. ok => account'[w.req] = NoCred
    BY <2>1 DEF TypeOK
  <2>5. WorkerInv'
    BY <2>1, <2>3, <2>4
       DEF AccountInv, WorkerInv, DeletePcs, UpdatePcs, Issued
  <2> QED
    BY <2>1, <2>2, <2>5 DEF AccountInv, FinalizerStays, DeletionStays,
                            NoOrphanedAccount, Present
<1>17. ASSUME NEW applied \in BOOLEAN, NEW ok \in BOOLEAN, Release(applied, ok)
       PROVE  AccountInv'
  <2> DEFINE r == w.req
  <2>1. /\ w.pc = "release" /\ r \in Requests
        /\ w'.pc = "idle"
        /\ UNCHANGED <<seenSare, account>>
    BY <1>0, <1>17 DEF Release, Finish, Idle
  <2>2. seenSare[r].phase \in {"deleting", "gone"}
    BY <2>1 DEF AccountInv, WorkerInv, DeletePcs
  <2>3. /\ r \in abandoned' \/ ~Issued(r) \/ ~applied
        /\ abandoned \subseteq abandoned'
    BY <1>17, <2>1 DEF Release, AccountInv, WorkerInv
  <2>4. /\ sare'[r].phase = IF applied THEN "gone" ELSE sare[r].phase
        /\ ~applied => sare' = sare
        /\ \A q \in Requests \ {r} : sare'[q] = sare[q]
    BY <1>17, <2>1 DEF Release, TypeOK, Sare
  <2> HIDE DEF r
  <2>5. \A q \in Requests : (FinalizerStays(q) /\ DeletionStays(q))'
    BY <2>1, <2>2, <2>4 DEF AccountInv, FinalizerStays, DeletionStays, Present
  <2>6. NoOrphanedAccount'
    BY <2>1, <2>3, <2>4 DEF AccountInv, NoOrphanedAccount, Issued, Present
  <2>7. WorkerInv'
    BY <2>1 DEF WorkerInv, UpdatePcs, DeletePcs
  <2> QED
    BY <2>5, <2>6, <2>7 DEF AccountInv
<1>18. ASSUME NEW applied \in BOOLEAN, NEW ok \in BOOLEAN,
              NEW c \in Creds \cup {NoCred}, Put(c, applied, ok)
       PROVE  AccountInv'
  <2>1. /\ w.pc = "put" /\ w.req \in Requests
        /\ \A q \in Requests \ {w.req} : account'[q] = account[q]
        /\ UNCHANGED <<sare, seenSare, abandoned>>
    BY <1>0, <1>18 DEF Put, TypeOK
  <2>2. Present(sare[w.req]) /\ sare[w.req].finalizer
    BY <2>1 DEF AccountInv, WorkerInv, UpdatePcs
  <2>3. \/ w'.pc = "fail"
        \/ w'.pc \in {"ready", "store"} /\ w'.req = w.req
    BY <1>18 DEF TypeOK, WorkerState, Put, FailWith
  <2>4. WorkerInv'
    BY <2>1, <2>2, <2>3 DEF WorkerInv, UpdatePcs, DeletePcs, Present
  <2>5. NoOrphanedAccount'
    BY <2>1, <2>2 DEF AccountInv, NoOrphanedAccount, Issued, Present
  <2> QED
    BY <2>1, <2>4, <2>5 DEF AccountInv, FinalizerStays, DeletionStays, Present
<1> QED
  BY <1>1, <1>2, <1>3, <1>4, <1>5, <1>6, <1>7, <1>8, <1>9, <1>10, <1>11, <1>12,
     <1>13, <1>14, <1>15, <1>16, <1>17, <1>18 DEF WorkerStep

(* Every step of a rotation job keeps AccountInv.                          *)
LEMMA RotationKeepsAccountInv ==
  ASSUME TypeOK, AccountInv, NEW r \in Requests, CronFires(r) \/ RotationJob(r)
  PROVE  AccountInv'
<1> USE DEF clusterVars, cacheVars, rotationVars, producerVars
<1>0. w.pc # "idle" => w.req \in Requests
  BY DEF TypeOK
<1>1. CASE CronFires(r) \/ JobCheck(r)
  BY <1>0, <1>1, Frame DEF CronFires, JobCheck
<1>2. ASSUME NEW applied \in BOOLEAN, NEW ok \in BOOLEAN,
             JobPatch(r, applied, ok)
      PROVE  AccountInv'
  <2> DEFINE new == serviceAccountNotReadyForRotation(JObj(r))
             patched == Patched(r, JObj(r), new)
  <2>1. patched.phase = sare[r].phase /\ patched.finalizer = sare[r].finalizer
    BY DEF Patched, TypeOK, Sare
  <2>2. sare' = IF applied THEN [sare EXCEPT ![r] = patched] ELSE sare
    BY <1>2 DEF JobPatch
  <2> HIDE DEF patched
  <2>3. \A q \in Requests : /\ sare'[q].phase = sare[q].phase
                            /\ sare'[q].finalizer = sare[q].finalizer
    BY <2>1, <2>2 DEF TypeOK
  <2> QED
    BY <1>0, <1>2, <2>3, Frame DEF JobPatch
<1>3. ASSUME NEW applied \in BOOLEAN, JobDelete(r, applied)
      PROVE  AccountInv'
  BY <1>0, <1>3, Frame DEF JobDelete
<1> QED
  BY <1>1, <1>2, <1>3 DEF RotationJob

(* Every delivery of an informer keeps AccountInv: the caches never go     *)
(* back.                                                                   *)
LEMMA InformersKeepAccountInv ==
  ASSUME TypeOK, AccountInv, Informers
  PROVE  AccountInv'
<1> USE DEF clusterVars, cacheVars, rotationVars, producerVars
<1>0. w.pc # "idle" => w.req \in Requests
  BY DEF TypeOK
<1>1. ASSUME NEW r \in Requests, SyncSare(r)
      PROVE  AccountInv'
  <2>1. /\ seenSare'[r] = sare[r]
        /\ \A q \in Requests \ {r} : seenSare'[q] = seenSare[q]
        /\ UNCHANGED <<sare, account, abandoned, w>>
    BY <1>1 DEF SyncSare, TypeOK
  <2>2. \A q \in Requests : (FinalizerStays(q) /\ DeletionStays(q))'
    BY <2>1 DEF AccountInv, FinalizerStays, DeletionStays, Present
  <2>3. WorkerInv'
    BY <1>0, <2>1
       DEF AccountInv, WorkerInv, DeletionStays, Issued, Present, DeletePcs
  <2> QED
    BY <2>1, <2>2, <2>3 DEF AccountInv, NoOrphanedAccount, Issued, Present
<1>2. ASSUME NEW n \in SecretNames, SyncSecret(n)
      PROVE  AccountInv'
  BY <1>0, <1>2, Frame DEF SyncSecret
<1>3. ASSUME NEW p \in Producers, SyncSapr(p)
      PROVE  AccountInv'
  BY <1>0, <1>3, Frame DEF SyncSapr
<1> QED
  BY <1>1, <1>2, <1>3 DEF Informers

(* Every step of the environment keeps AccountInv.                         *)
LEMMA EnvironmentKeepsAccountInv ==
  ASSUME TypeOK, AccountInv, Environment
  PROVE  AccountInv'
<1> USE DEF clusterVars, cacheVars, rotationVars, producerVars
<1>0. w.pc # "idle" => w.req \in Requests
  BY DEF TypeOK
<1>1. ASSUME NEW r \in Requests, ApplyRequest(r) \/ DeleteRequest(r)
      PROVE  AccountInv'
  <2>1. /\ \A q \in Requests \ {r} : sare'[q] = sare[q]
        /\ UNCHANGED <<seenSare, account, abandoned, w>>
    BY <1>1 DEF ApplyRequest, DeleteRequest, TypeOK
  <2>2. \/ sare[r].phase = "new"
        \/ /\ sare[r].phase = "live" /\ sare[r].finalizer
           /\ sare'[r].phase = "deleting" /\ sare'[r].finalizer
        \/ /\ sare[r].phase = "live" /\ ~sare[r].finalizer
           /\ sare'[r].phase = "gone"
    <3>1. CASE ApplyRequest(r)
      BY <3>1 DEF ApplyRequest
    <3>2. CASE DeleteRequest(r)
      <4>1. sare[r] \in Sare /\ sare[r].phase = "live"
        BY <3>2 DEF DeleteRequest, TypeOK
      <4>2. CASE sare[r].finalizer
        BY <3>2, <4>1, <4>2 DEF DeleteRequest, TypeOK, Sare
      <4>3. CASE ~sare[r].finalizer
        BY <3>2, <4>1, <4>3 DEF DeleteRequest, TypeOK, Sare
      <4> QED
        BY <4>2, <4>3
    <3> QED
      BY <1>1, <3>1, <3>2
  <2>3. \A q \in Requests : (FinalizerStays(q) /\ DeletionStays(q))'
    BY <2>1, <2>2 DEF AccountInv, FinalizerStays, DeletionStays, Present
  <2>4. WorkerInv'
    BY <1>0, <2>1, <2>2 DEF AccountInv, WorkerInv, Issued, Present, UpdatePcs
  <2>5. NoOrphanedAccount'
    BY <2>1, <2>2 DEF AccountInv, NoOrphanedAccount, Issued, Present
  <2> QED
    BY <2>3, <2>4, <2>5 DEF AccountInv
<1>2. ASSUME NEW r \in Requests, ChangeRequest(r)
      PROVE  AccountInv'
  <2>1. \A q \in Requests : /\ sare'[q].phase = sare[q].phase
                            /\ sare'[q].finalizer = sare[q].finalizer
    BY <1>2 DEF ChangeRequest, TypeOK, Sare
  <2> QED
    BY <1>0, <1>2, <2>1, Frame DEF ChangeRequest
<1>3. ASSUME NEW r \in Requests,
             DeletionTimeout(r) \/ WriteMigrationSecret(r)
      PROVE  AccountInv'
  <2>1. UNCHANGED <<account, abandoned, seenSare, sare, w>>
    BY <1>3 DEF DeletionTimeout, WriteMigrationSecret
  <2> QED
    BY <1>0, <2>1, Frame
<1>4. ASSUME NEW n \in SecretNames,
             CollectGarbage(n) \/ DeleteSecret(n) \/ CreateForeignSecret(n)
      PROVE  AccountInv'
  <2>1. UNCHANGED <<account, abandoned, seenSare, sare, w>>
    BY <1>4 DEF CollectGarbage, DeleteSecret, CreateForeignSecret
  <2> QED
    BY <1>0, <2>1, Frame
<1>5. ASSUME NEW p \in Producers,
             ChangeProducer(p) \/ StopService(p) \/ StartService(p)
      PROVE  AccountInv'
  <2>1. UNCHANGED <<account, abandoned, seenSare, sare, w>>
    BY <1>5 DEF ChangeProducer, StopService, StartService
  <2> QED
    BY <1>0, <2>1, Frame
<1> QED
  BY <1>1, <1>2, <1>3, <1>4, <1>5 DEF Environment

(* A restart keeps AccountInv: the new process knows the present.          *)
LEMMA CrashKeepsAccountInv ==
  ASSUME TypeOK, AccountInv, Crash
  PROVE  AccountInv'
<1>1. /\ w'.pc = "idle" /\ seenSare' = sare
      /\ UNCHANGED <<sare, account, abandoned>>
  BY DEF Crash, Restart, Idle, clusterVars, producerVars
<1> QED
  BY <1>1 DEF AccountInv, FinalizerStays, DeletionStays, WorkerInv,
              NoOrphanedAccount, Issued, Present, UpdatePcs, DeletePcs

(* Every step keeps AccountInv.                                            *)
LEMMA AccountInvStep ==
  ASSUME TypeOK, AccountInv, [Next]_vars
  PROVE  AccountInv'
<1>1. CASE Operator
  <2>1. ASSUME NEW r \in Requests, CronFires(r) \/ RotationJob(r)
        PROVE  AccountInv'
    BY <2>1, RotationKeepsAccountInv
  <2> QED
    BY <1>1, <2>1, WorkerKeepsAccountInv, InformersKeepAccountInv DEF Operator
<1>2. CASE Environment
  BY <1>2, EnvironmentKeepsAccountInv
<1>3. CASE Crash
  BY <1>3, CrashKeepsAccountInv
<1>4. CASE UNCHANGED vars
  BY <1>4, Frame DEF vars, TypeOK
<1> QED
  BY <1>1, <1>2, <1>3, <1>4 DEF Next

(* The strengthening holds in every state: the finalizer and the deletion  *)
(* mark of a cache are never ahead of the server.                          *)
THEOREM AccountInvHolds == Spec => []AccountInv
<1>1. Init => TypeOK /\ AccountInv
  <2> SUFFICES ASSUME Init PROVE TypeOK /\ AccountInv
    OBVIOUS
  <2>1. \A r \in Requests : ~Issued(r)
    BY DEF Init, Issued
  <2>2. \A r \in Requests : FinalizerStays(r) /\ DeletionStays(r)
    BY DEF Init, NewSare, FinalizerStays, DeletionStays
  <2>3. WorkerInv
    BY DEF Init, Idle, WorkerInv, UpdatePcs, DeletePcs
  <2> QED
    BY <2>1, <2>2, <2>3, InitTypes DEF AccountInv, NoOrphanedAccount
<1>2. TypeOK /\ AccountInv /\ [Next]_vars => (TypeOK /\ AccountInv)'
  BY TypeStep, AccountInvStep
<1> QED
  BY <1>1, <1>2, PTL DEF Spec

(* No producer account outlives its request unasked for: whatever the      *)
(* caches show, the finalizer is set before the first PUT and released     *)
(* after the account is gone.                                              *)
THEOREM AccountsAreReleased == Spec => []NoOrphanedAccount
<1>1. AccountInv => NoOrphanedAccount
  BY DEF AccountInv
<1> QED
  BY <1>1, AccountInvHolds, PTL

-----------------------------------------------------------------------------
(* Secrets.                                                                *)

(* Removing one secret leaves every secret to its owner or to nobody.      *)
LEMMA RemovalTakesNothing ==
  ASSUME TypeOK, NEW m \in SecretNames, RemoveSecret(m)
  PROVE  \A n \in SecretNames : secret'[n].owner \in {secret[n].owner, Nobody}
BY DEF TypeOK, RemoveSecret, NoSecret

(* No step hands a secret from one owner to another.                       *)
LEMMA SecretStep ==
  ASSUME TypeOK, [Next]_vars, NEW n \in SecretNames,
         secret[n].owner # Nobody
  PROVE  secret'[n].owner \in {secret[n].owner, Nobody}
<1> USE DEF clusterVars, cacheVars, rotationVars, producerVars
<1>1. CASE UNCHANGED secret
  BY <1>1
<1>2. ASSUME NEW m \in SecretNames, RemoveSecret(m)
      PROVE  secret'[n].owner \in {secret[n].owner, Nobody}
  BY <1>2, RemovalTakesNothing
<1>3. ASSUME NEW applied \in BOOLEAN, NEW ok \in BOOLEAN, Store(applied, ok)
      PROVE  secret'[n].owner \in {secret[n].owner, Nobody}
  <2> DEFINE m == MySecret(w.req)
  <2>1. /\ m \in SecretNames /\ w.req \in Requests
        /\ applied => seenSecret[m] = secret[m]
        /\ applied => StorePossible(seenSecret[m], w.req)
        /\ secret' = IF applied
             THEN [secret EXCEPT ![m] = [owner |-> w.req, cred |-> w.cred]]
             ELSE secret
    BY <1>3, NamesAssumption DEF Store, Call, TypeOK, MySecret
  <2> HIDE DEF m
  <2>2. applied => secret[m].owner \in {w.req, Nobody}
    BY <2>1 DEF StorePossible, IsControlledBy, NoSecret
  <2> QED
    BY <2>1, <2>2 DEF TypeOK
<1>4. ASSUME NEW m \in SecretNames, CreateForeignSecret(m)
      PROVE  secret'[n].owner \in {secret[n].owner, Nobody}
  <2>1. secret[m].owner = Nobody
    BY <1>4 DEF CreateForeignSecret, NoSecret
  <2>2. \A k \in SecretNames \ {m} : secret'[k] = secret[k]
    BY <1>4 DEF CreateForeignSecret, TypeOK
  <2> QED
    BY <2>1, <2>2
<1>5. CASE WorkerStep
  <2>1. ASSUME NEW applied \in BOOLEAN, NEW ok \in BOOLEAN,
               DropSecret(applied, ok)
        PROVE  secret'[n].owner \in {secret[n].owner, Nobody}
    <3>1. MySecret(w.req) \in SecretNames
      BY <2>1, NamesAssumption DEF DropSecret, TypeOK, MySecret
    <3>2. UNCHANGED secret \/ RemoveSecret(MySecret(w.req))
      BY <2>1 DEF DropSecret
    <3> QED
      BY <1>1, <1>2, <3>1, <3>2
  <2>2. ASSUME NEW r \in Requests,
               ReconcileSkip(r) \/ ReconcileLive(r) \/ ReconcileDeleting(r)
        PROVE  UNCHANGED secret
    BY <2>2 DEF ReconcileSkip, ReconcileLive, ReconcileDeleting
  <2>3. ASSUME \/ CheckSecretExists \/ SetRotation \/ GetProducer
               \/ Migrate \/ FindProducer
        PROVE  UNCHANGED secret
    <3>1. CASE CheckSecretExists
      BY <3>1 DEF CheckSecretExists
    <3>2. CASE SetRotation
      BY <3>2 DEF SetRotation
    <3>3. CASE GetProducer \/ Migrate \/ FindProducer
      BY <3>3 DEF GetProducer, ProducerMissing, Migrate, FindProducer
    <3> QED
      BY <2>3, <3>1, <3>2, <3>3
  <2>4. ASSUME NEW ok \in BOOLEAN, AskForAccount(ok)
        PROVE  UNCHANGED secret
    BY <2>4 DEF AskForAccount
  <2>5. ASSUME NEW applied \in BOOLEAN, NEW ok \in BOOLEAN,
               \/ AddFinalizer(applied, ok) \/ MarkMissing(applied, ok)
               \/ SetReady(applied, ok) \/ RecordFailure(applied, ok)
               \/ DeleteAccount(applied, ok) \/ Release(applied, ok)
        PROVE  UNCHANGED secret
    <3>1. CASE AddFinalizer(applied, ok)
      BY <3>1 DEF AddFinalizer
    <3>2. CASE MarkMissing(applied, ok)
      BY <3>2 DEF MarkMissing
    <3>3. CASE SetReady(applied, ok)
      BY <3>3 DEF SetReady
    <3>4. CASE RecordFailure(applied, ok)
      BY <3>4 DEF RecordFailure
    <3>5. CASE DeleteAccount(applied, ok)
      BY <3>5 DEF DeleteAccount
    <3>6. CASE Release(applied, ok)
      BY <3>6 DEF Release
    <3> QED
      BY <2>5, <3>1, <3>2, <3>3, <3>4, <3>5, <3>6
  <2>6. ASSUME NEW applied \in BOOLEAN, NEW ok \in BOOLEAN,
               NEW c \in Creds \cup {NoCred}, Put(c, applied, ok)
        PROVE  UNCHANGED secret
    BY <2>6 DEF Put
  <2> QED
    BY <1>1, <1>3, <1>5, <2>1, <2>2, <2>3, <2>4, <2>5, <2>6 DEF WorkerStep
<1>6. ASSUME NEW r \in Requests, CronFires(r) \/ RotationJob(r)
      PROVE  secret'[n].owner \in {secret[n].owner, Nobody}
  <2>1. MySecret(r) \in SecretNames
    BY NamesAssumption DEF MySecret
  <2>2. UNCHANGED secret \/ RemoveSecret(MySecret(r))
    BY <1>6 DEF CronFires, RotationJob, JobCheck, JobPatch, JobDelete
  <2> QED
    BY <1>1, <1>2, <2>1, <2>2
<1>7. CASE Informers
  BY <1>1, <1>7 DEF Informers, SyncSare, SyncSecret, SyncSapr
<1>8. CASE Environment
  <2>1. ASSUME NEW r \in Requests,
               \/ ApplyRequest(r) \/ ChangeRequest(r) \/ DeleteRequest(r)
               \/ DeletionTimeout(r) \/ WriteMigrationSecret(r)
        PROVE  UNCHANGED secret
    BY <2>1 DEF ApplyRequest, ChangeRequest, DeleteRequest, DeletionTimeout,
                WriteMigrationSecret
  <2>2. ASSUME NEW m \in SecretNames, CollectGarbage(m) \/ DeleteSecret(m)
        PROVE  RemoveSecret(m)
    BY <2>2 DEF CollectGarbage, DeleteSecret
  <2>3. ASSUME NEW p \in Producers,
               ChangeProducer(p) \/ StopService(p) \/ StartService(p)
        PROVE  UNCHANGED secret
    BY <2>3 DEF ChangeProducer, StopService, StartService
  <2> QED
    BY <1>1, <1>2, <1>4, <1>8, <2>1, <2>2, <2>3 DEF Environment
<1>9. CASE Crash
  BY <1>1, <1>9 DEF Crash, Restart
<1> QED
  BY <1>1, <1>5, <1>6, <1>7, <1>8, <1>9 DEF Next, Operator, vars

(* A secret changes hands only by being deleted first: requests that name  *)
(* the same secret, and users, cannot lose one to another request          *)
(* (SecretManager.CreateOrUpdate).                                         *)
THEOREM SecretsStayWithTheirOwner == Spec => SecretNeverTakenOver
<1>1. TypeOK /\ [Next]_vars =>
        [\A n \in SecretNames :
           secret[n].owner # Nobody =>
             secret'[n].owner \in {secret[n].owner, Nobody}]_vars
  BY SecretStep
<1> QED
  BY <1>1, TypeCorrect, PTL DEF Spec, SecretNeverTakenOver

-----------------------------------------------------------------------------
(* The status.                                                             *)

(* A writer that starts from a copy with a rotation recorded leaves it     *)
(* recorded (status_conditions.go).                                        *)
LEMMA WritersKeepRotation ==
  ASSUME NEW o \in Sare, o.status.lastRotation
  PROVE  /\ producerNotFound(o).lastRotation
         /\ \A b \in BOOLEAN : serviceAccountReady(o, b).lastRotation
         /\ serviceAccountMigrated(o).lastRotation
         /\ serviceAccountNotReadyForRotation(o).lastRotation
         /\ \A reason \in Reasons, error \in Messages :
              serviceAccountFailed(o, reason, error).lastRotation
<1>1. o.status \in Status
  BY DEF Sare
<1> QED
  BY <1>1 DEF Status, WithCondition, producerNotFound, serviceAccountReady,
              serviceAccountMigrated, serviceAccountNotReadyForRotation,
              serviceAccountFailed

(* What such a writer sends never takes back what the server has, however  *)
(* old its copy is (client.MergeFrom): either the copy has the rotation    *)
(* too, or the patch does not mention it.                                  *)
LEMMA PatchKeepsRotation ==
  ASSUME NEW r \in Requests, sare[r] \in Sare, sare[r].status.lastRotation,
         NEW o \in Sare, NEW new \in Status,
         o.status.lastRotation => new.lastRotation
  PROVE  Patched(r, o, new).status.lastRotation
<1> DEFINE status == MergePatch(o.status, new, sare[r].status)
<1>1. o.status \in Status
  BY DEF Sare
<1>2. status.lastRotation
  BY <1>1 DEF MergePatch, PatchField, Status
<1>3. Patched(r, o, new).status = status
  BY DEF Patched, Sare
<1> QED
  BY <1>2, <1>3

(* The patches of a reconcile.                                             *)
LEMMA ReconcileKeepsRotation ==
  ASSUME TypeOK, NEW q \in Requests, sare[q].status.lastRotation,
         NEW applied \in BOOLEAN, NEW ok \in BOOLEAN,
         \/ MarkMissing(applied, ok) \/ SetReady(applied, ok)
         \/ RecordFailure(applied, ok)
  PROVE  sare'[q].status.lastRotation
<1>1. /\ w.req \in Requests /\ WObj \in Sare /\ sare[q] \in Sare
      /\ sare \in [Requests -> Sare]
  BY WObjType DEF TypeOK, MarkMissing, SetReady, RecordFailure
<1>2. ASSUME NEW new \in Status, NEW next,
             WObj.status.lastRotation => new.lastRotation,
             PatchStatus(new, applied, ok, next)
      PROVE  sare'[q].status.lastRotation
  <2>1. sare' = IF applied
                THEN [sare EXCEPT ![w.req] = Patched(w.req, WObj, new)]
                ELSE sare
    BY <1>2 DEF PatchStatus
  <2>2. q = w.req => Patched(w.req, WObj, new).status.lastRotation
    BY <1>1, <1>2, PatchKeepsRotation
  <2> QED
    BY <1>1, <2>1, <2>2
<1>3. CASE MarkMissing(applied, ok)
  BY <1>1, <1>2, <1>3, StatusWriters, WritersKeepRotation DEF MarkMissing
<1>4. CASE SetReady(applied, ok)
  <2>1. /\ ReadyStatus \in Status
        /\ WObj.status.lastRotation => ReadyStatus.lastRotation
    BY <1>1, StatusWriters, WritersKeepRotation DEF ReadyStatus
  <2> QED
    BY <1>2, <1>4, <2>1 DEF SetReady
<1>5. CASE RecordFailure(applied, ok)
  <2>1. w.error \in Messages /\ ReasonFor(w.error) \in Reasons
    BY DEF TypeOK, WorkerState, Messages, ReasonFor, Reasons
  <2> QED
    BY <1>1, <1>2, <1>5, <2>1, StatusWriters, WritersKeepRotation
       DEF RecordFailure
<1> QED
  BY <1>3, <1>4, <1>5

(* The other writes of SAREs: the finalizer, whose update conflicts unless *)
(* the copy is current, the patch of a rotation job, and users.            *)
LEMMA WritesKeepRotation ==
  ASSUME TypeOK, NEW q \in Requests, sare[q].status.lastRotation,
         Present(sare[q]),
         \/ \E applied, ok \in BOOLEAN :
              AddFinalizer(applied, ok) \/ Release(applied, ok)
         \/ \E r \in Requests :
              \/ RotationJob(r)
              \/ ApplyRequest(r) \/ ChangeRequest(r) \/ DeleteRequest(r)
  PROVE  sare'[q].status.lastRotation
<1>1. sare[q] \in Sare /\ sare \in [Requests -> Sare]
  BY DEF TypeOK
<1>2. ASSUME NEW applied \in BOOLEAN, NEW ok \in BOOLEAN,
             AddFinalizer(applied, ok)
      PROVE  sare'[q].status.lastRotation
  <2>1. sare' = sare \/ sare' = [sare EXCEPT ![w.req] =
                                   [sare[w.req] EXCEPT !.finalizer = TRUE]]
    BY <1>2 DEF AddFinalizer, Call
  <2> QED
    BY <1>1, <2>1 DEF Sare
<1>3. ASSUME NEW applied \in BOOLEAN, NEW ok \in BOOLEAN, Release(applied, ok)
      PROVE  sare'[q].status.lastRotation
  BY <1>1, <1>3 DEF Release, Sare
<1>4. ASSUME NEW r \in Requests, RotationJob(r)
      PROVE  sare'[q].status.lastRotation
  <2>1. ASSUME NEW applied \in BOOLEAN, NEW ok \in BOOLEAN,
               JobPatch(r, applied, ok)
        PROVE  sare'[q].status.lastRotation
    <3> DEFINE o == JObj(r)
               new == serviceAccountNotReadyForRotation(o)
    <3>1. o \in Sare
      BY DEF TypeOK, JObj, Job, Watch
    <3>2. new \in Status /\ (o.status.lastRotation => new.lastRotation)
      BY <3>1, StatusWriters, WritersKeepRotation
    <3>3. sare' = IF applied THEN [sare EXCEPT ![r] = Patched(r, o, new)]
                  ELSE sare
      BY <2>1 DEF JobPatch
    <3> HIDE DEF o, new
    <3>4. q = r => Patched(r, o, new).status.lastRotation
      BY <1>1, <3>1, <3>2, PatchKeepsRotation
    <3> QED
      BY <1>1, <3>3, <3>4
  <2> QED
    BY <1>4, <2>1 DEF RotationJob, JobCheck, JobDelete, clusterVars
<1>5. ASSUME NEW r \in Requests,
             ApplyRequest(r) \/ ChangeRequest(r) \/ DeleteRequest(r)
      PROVE  sare'[q].status.lastRotation
  <2>1. CASE ApplyRequest(r)
    BY <1>1, <2>1 DEF ApplyRequest, Present
  <2>2. CASE ChangeRequest(r)
    <3>1. PICK rotation \in Rotations, optional \in Optionals :
            sare' = [sare EXCEPT ![r].gen = @ + 1, ![r].rotation = rotation,
                                 ![r].optional = optional]
      BY <2>2 DEF ChangeRequest
    <3>2. sare'[q].status = sare[q].status
      BY <1>1, <3>1 DEF Sare
    <3> QED
      BY <1>1, <3>2
  <2>3. CASE DeleteRequest(r)
    BY <1>1, <2>3 DEF DeleteRequest, Sare
  <2> QED
    BY <1>5, <2>1, <2>2, <2>3
<1> QED
  BY <1>2, <1>3, <1>4, <1>5

(* No step takes a recorded rotation back.                                 *)
LEMMA StatusStep ==
  ASSUME TypeOK, [Next]_vars, NEW q \in Requests,
         Present(sare[q]), sare[q].status.lastRotation
  PROVE  sare'[q].status.lastRotation
<1> USE DEF clusterVars
<1>1. CASE UNCHANGED sare
  BY <1>1
<1>2. CASE WorkerStep
  <2>1. ASSUME NEW r \in Requests,
               ReconcileSkip(r) \/ ReconcileLive(r) \/ ReconcileDeleting(r)
        PROVE  UNCHANGED sare
    BY <2>1 DEF ReconcileSkip, ReconcileLive, ReconcileDeleting
  <2>2. ASSUME \/ CheckSecretExists \/ SetRotation \/ GetProducer
               \/ Migrate \/ FindProducer
               \/ \E ok \in BOOLEAN : AskForAccount(ok)
        PROVE  UNCHANGED sare
    BY <2>2 DEF CheckSecretExists, SetRotation, GetProducer,
                ProducerMissing, Migrate, FindProducer, AskForAccount
  <2>3. ASSUME NEW applied \in BOOLEAN, NEW ok \in BOOLEAN,
               \/ DropSecret(applied, ok) \/ Store(applied, ok)
               \/ DeleteAccount(applied, ok)
               \/ \E c \in Creds \cup {NoCred} : Put(c, applied, ok)
        PROVE  UNCHANGED sare
    BY <2>3 DEF DropSecret, Store, DeleteAccount, Put
  <2> QED
    BY <1>1, <1>2, <2>1, <2>2, <2>3, ReconcileKeepsRotation, WritesKeepRotation
       DEF WorkerStep
<1>3. ASSUME NEW r \in Requests, CronFires(r) \/ RotationJob(r)
      PROVE  sare'[q].status.lastRotation
  <2>1. CronFires(r) => UNCHANGED sare
    BY DEF CronFires
  <2> QED
    BY <1>1, <1>3, <2>1, WritesKeepRotation
<1>4. CASE Informers
  BY <1>1, <1>4 DEF Informers, SyncSare, SyncSecret, SyncSapr
<1>5. CASE Environment
  <2>1. ASSUME NEW r \in Requests,
               DeletionTimeout(r) \/ WriteMigrationSecret(r)
        PROVE  UNCHANGED sare
    BY <2>1 DEF DeletionTimeout, WriteMigrationSecret
  <2>2. ASSUME NEW n \in SecretNames,
               CollectGarbage(n) \/ DeleteSecret(n) \/ CreateForeignSecret(n)
        PROVE  UNCHANGED sare
    BY <2>2 DEF CollectGarbage, DeleteSecret, CreateForeignSecret
  <2>3. ASSUME NEW p \in Producers,
               ChangeProducer(p) \/ StopService(p) \/ StartService(p)
        PROVE  UNCHANGED sare
    BY <2>3 DEF ChangeProducer, StopService, StartService
  <2> QED
    BY <1>1, <1>5, <2>1, <2>2, <2>3, WritesKeepRotation DEF Environment
<1>6. CASE Crash
  BY <1>1, <1>6 DEF Crash, Restart
<1> QED
  BY <1>1, <1>2, <1>3, <1>4, <1>5, <1>6 DEF Next, Operator, vars

(* A recorded rotation stays recorded, whatever copies reconciles and      *)
(* rotation jobs patch from, and whichever of their patches fail or are    *)
(* applied without an answer (setAndPersist).                              *)
THEOREM RotationsStayRecorded == Spec => LastRotationIsKept
<1>1. TypeOK /\ [Next]_vars =>
        [\A r \in Requests :
           Present(sare[r]) /\ sare[r].status.lastRotation
             => sare'[r].status.lastRotation]_vars
  BY StatusStep
<1> QED
  BY <1>1, TypeCorrect, PTL DEF Spec, LastRotationIsKept
=============================================================================
