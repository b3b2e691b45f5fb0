------------------------- MODULE RequestTypeProofs -------------------------
(***************************************************************************)
(* Type correctness of RequestController, for every set of requests,       *)
(* producers and secrets and every budget.                                 *)
(***************************************************************************)
EXTENDS RequestProperties, TLAPS

-----------------------------------------------------------------------------
(* Types of the parts the actions are built from.                          *)

(* A merge patch of statuses yields a status (setAndPersist).              *)
LEMMA MergePatchType ==
  ASSUME NEW base \in Status, NEW new \in Status, NEW server \in Status
  PROVE  MergePatch(base, new, server) \in Status
BY DEF MergePatch, PatchField, Status

(* Every status writer yields a status (status_conditions.go).             *)
LEMMA StatusWriters ==
  ASSUME NEW o \in Sare
  PROVE  /\ producerNotFound(o) \in Status
         /\ \A b \in BOOLEAN : serviceAccountReady(o, b) \in Status
         /\ serviceAccountMigrated(o) \in Status
         /\ serviceAccountNotReadyForRotation(o) \in Status
         /\ \A reason \in Reasons, error \in Messages :
              serviceAccountFailed(o, reason, error) \in Status
<1> USE DEF WithCondition, Sare, Status, Condition, Messages, Errors, Reasons
<1>1. producerNotFound(o) \in Status
  BY DEF producerNotFound
<1>2. \A b \in BOOLEAN : serviceAccountReady(o, b) \in Status
  BY DEF serviceAccountReady
<1>3. serviceAccountMigrated(o) \in Status
  BY DEF serviceAccountMigrated
<1>4. serviceAccountNotReadyForRotation(o) \in Status
  BY DEF serviceAccountNotReadyForRotation
<1>5. \A reason \in Reasons, error \in Messages :
        serviceAccountFailed(o, reason, error) \in Status
  BY DEF serviceAccountFailed
<1> QED BY <1>1, <1>2, <1>3, <1>4, <1>5

(* The idle values are values of their types.                              *)
LEMMA IdleTypes ==
  /\ NewSare \in Sare
  /\ NoSecret \in Secret
  /\ Idle \in WorkerState
  /\ NoWatch \in Watch
  /\ NoJob \in Job
<1>1. NewSare \in Sare
  BY DEF NewSare, Sare, Phases, NoStatus, Status, Condition, Reasons, Messages,
         Errors
<1> QED
  BY <1>1 DEF NoSecret, Secret, Owners, Idle, WorkerState, NoWatch, Watch, NoJob,
              Job, Outcomes

(* Spending keeps the budget a natural number.                             *)
LEMMA CallType ==
  ASSUME TypeOK, NEW possible, NEW free, NEW applied, NEW ok,
         Call(possible, free, applied, ok)
  PROVE  left' \in Nat
BY DEF Call, Spend, TypeOK

(* The object of the reconcile is a SARE.                                  *)
LEMMA WObjType ==
  ASSUME TypeOK, w.pc # "idle"
  PROVE  WObj \in Sare
BY DEF TypeOK, WObj, WorkerState, Watch

(* An object that a status patch refreshes, or fails to, is a SARE.        *)
LEMMA AfterPatchType ==
  ASSUME NEW r, NEW o \in Sare, NEW new \in Status, NEW ok,
         Patched(r, o, new) \in Sare
  PROVE  AfterPatch(r, o, new, ok) \in Sare
<1>1. Decoded(new, Patched(r, o, new).status) \in Status
  BY DEF Decoded, Sare, Status
<1> QED
  BY <1>1 DEF AfterPatch, Sare

(* A status patch of the reconcile (setAndPersist): it touches the status  *)
(* of a SARE only.                                                         *)
LEMMA PatchStatusType ==
  ASSUME TypeOK, w.pc # "idle",
         NEW new \in Status, NEW applied \in BOOLEAN, NEW ok \in BOOLEAN,
         NEW next \in WorkerState,
         PatchStatus(new, applied, ok, next)
  PROVE  /\ sare' \in [Requests -> Sare]
         /\ watch' \in [Requests -> Watch]
         /\ w' \in WorkerState
         /\ left' \in Nat
         /\ w'.pc = next.pc /\ w'.req = next.req /\ w'.outcome = next.outcome
         /\ \A r \in Requests : /\ sare'[r].phase = sare[r].phase
                                /\ sare'[r].finalizer = sare[r].finalizer
<1> DEFINE o == WObj
           r == w.req
           refreshed == AfterPatch(r, o, new, ok)
<1>1. o \in Sare /\ r \in Requests
  BY WObjType DEF TypeOK
<1>2. Patched(r, o, new) \in Sare
  <2>1. MergePatch(o.status, new, sare[r].status) \in Status
    BY <1>1, MergePatchType DEF TypeOK, Sare
  <2> QED
    BY <1>1, <2>1 DEF Patched, TypeOK, Sare
<1>3. /\ Patched(r, o, new).phase = sare[r].phase
      /\ Patched(r, o, new).finalizer = sare[r].finalizer
  BY <1>1 DEF Patched, TypeOK, Sare
<1>4. refreshed \in Sare
  BY <1>1, <1>2, AfterPatchType
<1> HIDE DEF o, refreshed
<1>5. /\ left' \in Nat
      /\ sare' = IF applied THEN [sare EXCEPT ![r] = Patched(r, WObj, new)]
                 ELSE sare
      /\ watch' = IF w.bound THEN [watch EXCEPT ![r].obj = refreshed] ELSE watch
      /\ w' = IF next.pc = "idle" \/ w.bound THEN next
              ELSE [next EXCEPT !.obj = refreshed]
  BY CallType DEF PatchStatus, o, refreshed
<1>6. /\ sare' \in [Requests -> Sare]
      /\ \A q \in Requests : /\ sare'[q].phase = sare[q].phase
                             /\ sare'[q].finalizer = sare[q].finalizer
  BY <1>1, <1>2, <1>3, <1>5 DEF TypeOK, o
<1>7. watch' \in [Requests -> Watch]
  BY <1>1, <1>4, <1>5 DEF TypeOK, Watch
<1>8. /\ w' \in WorkerState
      /\ w'.pc = next.pc /\ w'.req = next.req /\ w'.outcome = next.outcome
  BY <1>4, <1>5 DEF WorkerState
<1> QED
  BY <1>5, <1>6, <1>7, <1>8

(* Steps of the worker: GoTo, FailWith and Finish.                         *)
LEMMA WorkerValues ==
  ASSUME TypeOK, w.pc # "idle"
  PROVE  /\ w.req \in Requests
         /\ \A pc \in UpdatePcs \cup DeletePcs :
              GoTo(pc) \in WorkerState /\ GoTo(pc) = [w EXCEPT !.pc = pc]
         /\ \A e \in Errors : FailWith(e) \in WorkerState
         /\ \A retry \in BOOLEAN :
              Finish(retry) => w' = Idle /\ queue' \in SUBSET Requests
BY DEF TypeOK, GoTo, FailWith, Finish, WorkerState

(* Removing a secret and detaching a job.                                  *)
LEMMA HelperTypes ==
  ASSUME TypeOK
  PROVE  /\ \A n \in SecretNames : RemoveSecret(n) =>
              /\ secret' \in [SecretNames -> Secret]
              /\ tombs' \in [SecretNames -> SUBSET Requests]
         /\ \A r \in Requests : DetachJob(r) => job' \in [Requests -> Job]
<1>1. ASSUME NEW n \in SecretNames, RemoveSecret(n)
      PROVE  /\ secret' \in [SecretNames -> Secret]
             /\ tombs' \in [SecretNames -> SUBSET Requests]
  BY <1>1, IdleTypes DEF TypeOK, RemoveSecret
<1>2. ASSUME NEW r \in Requests, DetachJob(r)
      PROVE  job' \in [Requests -> Job]
  BY <1>2 DEF TypeOK, DetachJob, Job, Watch
<1> QED BY <1>1, <1>2

-----------------------------------------------------------------------------
(* Type correctness.                                                       *)

(* Every step of the worker keeps the types.                               *)
LEMMA WorkerTypes ==
  ASSUME TypeOK, WorkerStep
  PROVE  TypeOK'
<1> USE DEF clusterVars, cacheVars, rotationVars, producerVars
<1>1. ASSUME NEW r \in Requests, ReconcileSkip(r)
      PROVE  TypeOK'
  BY <1>1 DEF TypeOK, ReconcileSkip, Dequeue
<1>2. ASSUME NEW r \in Requests, ReconcileLive(r)
      PROVE  TypeOK'
  <2>1. w' \in WorkerState /\ w'.req \in Requests
    BY <1>2, IdleTypes DEF TypeOK, ReconcileLive, FirstStep, WorkerState,
                           UpdatePcs
  <2> QED
    BY <1>2, <2>1 DEF TypeOK, ReconcileLive, Dequeue
<1>3. ASSUME NEW r \in Requests, ReconcileDeleting(r)
      PROVE  TypeOK'
  <2>1. FirstDeleteStep(r, seenSare[r]) \in {"idle", "release", "dGet"}
    BY DEF FirstDeleteStep
  <2>2. w' \in WorkerState /\ (w'.pc # "idle" => w'.req \in Requests)
    <3> DEFINE pc == FirstDeleteStep(r, seenSare[r])
               outcome == IF pc = "release" THEN "abandoned" ELSE "none"
    <3>1. seenSare[r] \in Sare /\ outcome \in Outcomes
      BY DEF TypeOK, Outcomes
    <3>2. w' = IF pc = "idle" THEN Idle
               ELSE [Idle EXCEPT !.pc = pc, !.req = r, !.obj = seenSare[r],
                                 !.outcome = outcome]
      BY <1>3 DEF ReconcileDeleting
    <3>3. pc \in {"idle"} \cup DeletePcs
      BY <2>1 DEF DeletePcs
    <3> HIDE DEF pc, outcome
    <3>4. CASE pc = "idle"
      BY <3>2, <3>4, IdleTypes DEF Idle
    <3>5. CASE pc # "idle"
      BY <3>1, <3>2, <3>3, <3>5, IdleTypes DEF WorkerState
    <3> QED BY <3>4, <3>5
  <2>3. job' \in [Requests -> Job] /\ watch' \in [Requests -> Watch]
    BY <1>3, HelperTypes, IdleTypes DEF TypeOK, ReconcileDeleting
  <2> QED
    BY <1>3, <2>2, <2>3 DEF TypeOK, ReconcileDeleting, Dequeue
<1>4. ASSUME CheckSecretExists
      PROVE  TypeOK'
  <2>1. w' \in WorkerState /\ w'.req = w.req
    BY <1>4 DEF TypeOK, CheckSecretExists, FailWith, WorkerState, UpdatePcs,
                Errors
  <2> QED
    BY <1>4, <2>1 DEF TypeOK, CheckSecretExists
<1>5. ASSUME SetRotation
      PROVE  TypeOK'
  <2>1. w.req \in Requests /\ w.obj \in Sare
    BY <1>5 DEF TypeOK, SetRotation, WorkerState
  <2>2. w.obj.rotation \in {"off", "on", "invalid"}
    BY <2>1 DEF Sare
  <2>3. w' \in WorkerState /\ w'.req = w.req
    BY <1>5, <2>1, <2>2, IdleTypes
       DEF TypeOK, SetRotation, GoTo, FailWith, WorkerState, UpdatePcs, Errors
  <2>4. job' \in [Requests -> Job]
    BY <1>5, <2>1, HelperTypes DEF SetRotation
  <2>5. watch' \in [Requests -> Watch]
    BY <1>5, <2>1, IdleTypes DEF TypeOK, SetRotation, Watch
  <2> QED
    BY <1>5, <2>1, <2>3, <2>4, <2>5 DEF TypeOK, SetRotation
<1>6. ASSUME GetProducer
      PROVE  TypeOK'
  BY <1>6 DEF TypeOK, GetProducer, ProducerMissing, GoTo, WorkerState, UpdatePcs
<1>7. ASSUME Migrate
      PROVE  TypeOK'
  <2>1. w' \in WorkerState /\ w'.req = w.req
    BY <1>7, CredsAssumption
       DEF TypeOK, Migrate, GoTo, FailWith, WorkerState, UpdatePcs, Errors,
           Outcomes
  <2> QED
    BY <1>7, <2>1 DEF TypeOK, Migrate
<1>8. ASSUME FindProducer
      PROVE  TypeOK'
  BY <1>8 DEF TypeOK, FindProducer, GoTo, WorkerState, DeletePcs, Outcomes
<1>9. ASSUME NEW ok \in BOOLEAN, AskForAccount(ok)
      PROVE  TypeOK'
  <2>1. w' \in WorkerState /\ w'.req = w.req
    BY <1>9 DEF TypeOK, AskForAccount, GoTo, FailWith, WorkerState, DeletePcs,
                Errors, Outcomes
  <2>2. left' \in Nat
    BY <1>9, CallType DEF AskForAccount
  <2> QED
    BY <1>9, <2>1, <2>2 DEF TypeOK, AskForAccount
<1>10. ASSUME NEW applied \in BOOLEAN, NEW ok \in BOOLEAN,
              AddFinalizer(applied, ok)
       PROVE  TypeOK'
  <2>1. [w.obj EXCEPT !.finalizer = TRUE] \in Sare /\ w.req \in Requests
    BY <1>10 DEF TypeOK, AddFinalizer, WorkerState, Sare
  <2>2. sare' \in [Requests -> Sare]
    BY <1>10, <2>1 DEF TypeOK, AddFinalizer
  <2>3. /\ w' \in WorkerState
        /\ w'.pc # "idle" => w'.req \in Requests
        /\ queue' \in SUBSET Requests
    <3>1. CASE ok
      BY <1>10, <2>1, <3>1 DEF TypeOK, AddFinalizer, WorkerState, UpdatePcs
    <3>2. CASE ~ok
      <4>1. w' = Idle /\ queue' = queue \cup {w.req}
        BY <1>10, <3>2 DEF AddFinalizer, Finish
      <4> QED
        BY <2>1, <4>1, IdleTypes DEF TypeOK, Idle
    <3> QED BY <3>1, <3>2
  <2>4. left' \in Nat
    BY <1>10, CallType DEF AddFinalizer
  <2> QED
    BY <1>10, <2>2, <2>3, <2>4 DEF TypeOK, AddFinalizer
<1>11. ASSUME NEW applied \in BOOLEAN, NEW ok \in BOOLEAN,
              DropSecret(applied, ok)
       PROVE  TypeOK'
  <2>1. w.req \in Requests /\ MySecret(w.req) \in SecretNames
    BY <1>11, NamesAssumption DEF TypeOK, DropSecret, MySecret
  <2>2. /\ secret' \in [SecretNames -> Secret]
        /\ tombs' \in [SecretNames -> SUBSET Requests]
    BY <1>11, <2>1, HelperTypes DEF TypeOK, DropSecret
  <2>3. /\ w' \in WorkerState
        /\ w'.pc # "idle" => w'.req \in Requests
        /\ queue' \in SUBSET Requests
    <3>1. CASE ok
      <4>1. w' \in {GoTo("markMissing"), FailWith("producer")} /\ queue' = queue
        BY <1>11, <3>1 DEF DropSecret
      <4>2. GoTo("markMissing").req = w.req /\ FailWith("producer").req = w.req
        BY <2>1 DEF TypeOK, WorkerState, GoTo, FailWith
      <4>3. w.pc # "idle"
        BY <1>11 DEF DropSecret
      <4>4. GoTo("markMissing") \in WorkerState
        BY <4>3, WorkerValues DEF UpdatePcs
      <4>5. FailWith("producer") \in WorkerState
        BY <4>3, WorkerValues DEF Errors
      <4> QED
        BY <2>1, <4>1, <4>2, <4>4, <4>5 DEF TypeOK
    <3>2. CASE ~ok
      <4>1. w' = Idle /\ queue' = queue \cup {w.req}
        BY <1>11, <3>2 DEF DropSecret, Finish
      <4> QED
        BY <2>1, <4>1, IdleTypes DEF TypeOK, Idle
    <3> QED BY <3>1, <3>2
  <2>4. left' \in Nat
    BY <1>11, CallType DEF DropSecret
  <2> QED
    BY <1>11, <2>2, <2>3, <2>4 DEF TypeOK, DropSecret
<1>12. ASSUME NEW applied \in BOOLEAN, NEW ok \in BOOLEAN,
              MarkMissing(applied, ok)
       PROVE  TypeOK'
  <2>1. w.pc # "idle" /\ w.req \in Requests
    BY <1>12 DEF TypeOK, MarkMissing
  <2>2. producerNotFound(WObj) \in Status
    BY <2>1, WObjType, StatusWriters
  <2> DEFINE next == IF ok THEN Idle ELSE FailWith("status")
  <2>3. next \in WorkerState /\ (next.pc # "idle" => next.req \in Requests)
    BY <2>1, IdleTypes DEF TypeOK, FailWith, WorkerState, Errors, Idle
  <2>4. /\ sare' \in [Requests -> Sare]
        /\ watch' \in [Requests -> Watch]
        /\ w' \in WorkerState /\ w'.pc = next.pc /\ w'.req = next.req
        /\ left' \in Nat
    <3> HIDE DEF next
    <3>1. PatchStatus(producerNotFound(WObj), applied, ok, next)
      BY <1>12 DEF MarkMissing, next
    <3> QED
      BY <2>1, <2>2, <2>3, <3>1, PatchStatusType
  <2> QED
    BY <1>12, <2>3, <2>4 DEF TypeOK, MarkMissing
<1>13. ASSUME NEW applied \in BOOLEAN, NEW ok \in BOOLEAN, Store(applied, ok)
       PROVE  TypeOK'
  <2>1. w.req \in Requests /\ MySecret(w.req) \in SecretNames
    BY <1>13, NamesAssumption DEF TypeOK, Store, MySecret
  <2>2. secret' \in [SecretNames -> Secret]
    BY <1>13, <2>1 DEF TypeOK, Store, Secret, Owners, WorkerState
  <2>3. w' \in WorkerState /\ w'.req = w.req
    BY <1>13 DEF TypeOK, Store, StoreError, FailWith, WorkerState, UpdatePcs,
                 Errors
  <2>4. left' \in Nat
    BY <1>13, CallType DEF Store
  <2> QED
    BY <1>13, <2>1, <2>2, <2>3, <2>4 DEF TypeOK, Store
<1>14. ASSUME NEW applied \in BOOLEAN, NEW ok \in BOOLEAN,
              SetReady(applied, ok)
       PROVE  TypeOK'
  <2>1. w.pc # "idle" /\ w.req \in Requests
    BY <1>14 DEF TypeOK, SetReady
  <2>2. ReadyStatus \in Status
    BY <2>1, WObjType, StatusWriters DEF ReadyStatus
  <2>3. /\ sare' \in [Requests -> Sare]
        /\ watch' \in [Requests -> Watch]
        /\ w' \in WorkerState /\ w'.pc = "idle"
        /\ left' \in Nat
    BY <1>14, <2>1, <2>2, IdleTypes, PatchStatusType DEF SetReady, Idle
  <2> QED
    BY <1>14, <2>1, <2>3 DEF TypeOK, SetReady
<1>15. ASSUME NEW applied \in BOOLEAN, NEW ok \in BOOLEAN,
              RecordFailure(applied, ok)
       PROVE  TypeOK'
  <2>1. w.pc # "idle" /\ w.req \in Requests /\ w.error \in Messages
    BY <1>15 DEF TypeOK, RecordFailure, WorkerState, Messages
  <2>2. ReasonFor(w.error) \in Reasons
    BY DEF ReasonFor, Reasons
  <2>3. serviceAccountFailed(WObj, ReasonFor(w.error), w.error) \in Status
    BY <2>1, <2>2, WObjType, StatusWriters
  <2>4. /\ sare' \in [Requests -> Sare]
        /\ watch' \in [Requests -> Watch]
        /\ w' \in WorkerState /\ w'.pc = "idle"
        /\ left' \in Nat
    BY <1>15, <2>1, <2>3, IdleTypes, PatchStatusType DEF RecordFailure, Idle
  <2> QED
    BY <1>15, <2>1, <2>4 DEF TypeOK, RecordFailure
<1>16. ASSUME NEW applied \in BOOLEAN, NEW ok \in BOOLEAN,
              DeleteAccount(applied, ok)
       PROVE  TypeOK'
  <2>1. w' \in WorkerState /\ w'.req = w.req
    BY <1>16 DEF TypeOK, AfterDelete, DeleteAccount, FailWith, WorkerState, DeletePcs,
                 Errors, Outcomes
  <2>2. left' \in Nat
    BY <1>16, CallType DEF DeleteAccount
  <2> QED
    BY <1>16, <2>1, <2>2 DEF TypeOK, AfterDelete, DeleteAccount
<1>17. ASSUME NEW applied \in BOOLEAN, NEW ok \in BOOLEAN, Release(applied, ok)
       PROVE  TypeOK'
  <2>1. w.req \in Requests
    BY <1>17 DEF TypeOK, Release
  <2>2. sare' \in [Requests -> Sare]
    <3> DEFINE gone == [sare[w.req] EXCEPT !.phase = "gone",
                                           !.finalizer = FALSE]
    <3>1. gone \in Sare
      <4>1. sare[w.req] \in Sare
        BY <2>1 DEF TypeOK
      <4> QED
        BY <4>1 DEF Sare, Phases
    <3>2. sare' = IF applied THEN [sare EXCEPT ![w.req] = gone] ELSE sare
      BY <1>17 DEF Release
    <3> HIDE DEF gone
    <3> QED
      BY <2>1, <3>1, <3>2 DEF TypeOK
  <2>3. w' = Idle /\ queue' \in SUBSET Requests
    BY <1>17, <2>1 DEF TypeOK, Release, Finish
  <2>4. left' \in Nat
    BY <1>17, CallType DEF TypeOK, Release
  <2> QED
    BY <1>17, <2>1, <2>2, <2>3, <2>4, IdleTypes DEF TypeOK, Release, Idle
<1>18. ASSUME NEW applied \in BOOLEAN, NEW ok \in BOOLEAN,
              NEW c \in Creds \cup {NoCred}, Put(c, applied, ok)
       PROVE  TypeOK'
  <2>1. w' \in WorkerState /\ w'.req = w.req
    BY <1>18 DEF TypeOK, Put, FailWith, WorkerState, UpdatePcs, Errors, Outcomes
  <2>2. left' \in Nat
    BY <1>18, CallType DEF Put
  <2>3. SentParams \in Nat
    BY <1>18, WObjType DEF Put, SentParams, Sare
  <2>4. /\ account' \in [Requests -> Creds \cup {NoCred}]
        /\ params' \in [Requests -> Nat]
    BY <1>18, <2>3 DEF TypeOK, Put
  <2> QED
    BY <1>18, <2>1, <2>2, <2>4 DEF TypeOK, Put
<1> QED
  BY <1>1, <1>2, <1>3, <1>4, <1>5, <1>6, <1>7, <1>8, <1>9, <1>10, <1>11, <1>12,
     <1>13, <1>14, <1>15, <1>16, <1>17, <1>18 DEF WorkerStep

(* A due cron expression starts a job.                                     *)
LEMMA CronTypes ==
  ASSUME TypeOK, NEW r \in Requests, CronFires(r)
  PROVE  TypeOK'
<1> USE DEF clusterVars, cacheVars, producerVars, Spend
<1>1. job' \in [Requests -> Job] /\ left' \in Nat
  BY IdleTypes DEF TypeOK, CronFires, Job
<1> QED
  BY <1>1 DEF TypeOK, CronFires

(* Every step of a rotation job keeps the types.                           *)
LEMMA RotationTypes ==
  ASSUME TypeOK, NEW r \in Requests, RotationJob(r)
  PROVE  TypeOK'
<1> USE DEF clusterVars, cacheVars, rotationVars, producerVars
<1>1. ASSUME JobCheck(r)
      PROVE  TypeOK'
  <2>1. job' \in [Requests -> Job]
    BY <1>1, IdleTypes DEF TypeOK, JobCheck, Job
  <2> QED
    BY <1>1, <2>1 DEF TypeOK, JobCheck
<1>2. ASSUME NEW applied \in BOOLEAN, NEW ok \in BOOLEAN,
             JobPatch(r, applied, ok)
      PROVE  TypeOK'
  <2> DEFINE o == JObj(r)
             new == serviceAccountNotReadyForRotation(o)
             refreshed == AfterPatch(r, o, new, ok)
  <2>1. o \in Sare
    BY DEF TypeOK, JObj, Job, Watch
  <2>2. new \in Status
    BY <2>1, StatusWriters
  <2> HIDE DEF o, new
  <2>3. Patched(r, o, new) \in Sare
    <3>1. sare[r] \in Sare
      BY DEF TypeOK
    <3>2. MergePatch(o.status, new, sare[r].status) \in Status
      BY <2>1, <2>2, <3>1, MergePatchType DEF Sare
    <3> QED
      BY <3>1, <3>2 DEF Patched, Sare
  <2>4. refreshed \in Sare
    BY <2>1, <2>2, <2>3, AfterPatchType
  <2> HIDE DEF refreshed
  <2>5. /\ Call(Present(sare[r]), job[r].cancelled, applied, ok)
        /\ sare' = IF applied THEN [sare EXCEPT ![r] = Patched(r, o, new)]
                   ELSE sare
        /\ IF job[r].cancelled
           THEN /\ job' = [job EXCEPT ![r].pc = "delete",
                                      ![r].obj = refreshed]
                /\ UNCHANGED watch
           ELSE /\ job' = [job EXCEPT ![r].pc = "delete"]
                /\ watch' = [watch EXCEPT ![r].obj = refreshed]
    BY <1>2 DEF JobPatch, o, new, refreshed
  <2>6. sare' \in [Requests -> Sare] /\ left' \in Nat
    <3>1. sare' \in [Requests -> Sare]
      BY <2>3, <2>5 DEF TypeOK
    <3>2. left' \in Nat
      BY <2>5, CallType
    <3> QED
      BY <3>1, <3>2
  <2>7. job' \in [Requests -> Job] /\ watch' \in [Requests -> Watch]
    <3>1. /\ job \in [Requests -> Job] /\ watch \in [Requests -> Watch]
          /\ [job[r] EXCEPT !.pc = "delete", !.obj = refreshed] \in Job
          /\ [job[r] EXCEPT !.pc = "delete"] \in Job
          /\ [watch[r] EXCEPT !.obj = refreshed] \in Watch
      <4>1. /\ job \in [Requests -> Job] /\ watch \in [Requests -> Watch]
            /\ job[r] \in Job /\ watch[r] \in Watch
        BY DEF TypeOK
      <4>2. [watch[r] EXCEPT !.obj = refreshed] \in Watch
        BY <2>4, <4>1 DEF Watch
      <4>3. /\ [job[r] EXCEPT !.pc = "delete"] \in Job
            /\ [job[r] EXCEPT !.pc = "delete", !.obj = refreshed] \in Job
        BY <2>4, <4>1 DEF Job
      <4> QED
        BY <4>1, <4>2, <4>3
    <3>2. \/ /\ job' = [job EXCEPT ![r] = [job[r] EXCEPT !.pc = "delete",
                                                         !.obj = refreshed]]
             /\ watch' = watch
          \/ /\ job' = [job EXCEPT ![r] = [job[r] EXCEPT !.pc = "delete"]]
             /\ watch' = [watch EXCEPT ![r] = [watch[r] EXCEPT
                                                 !.obj = refreshed]]
      BY <2>5, <3>1 DEF Job, Watch
    <3> QED
      BY <3>1, <3>2
  <2> QED
    BY <1>2, <2>6, <2>7 DEF TypeOK, JobPatch
<1>3. ASSUME NEW applied \in BOOLEAN, JobDelete(r, applied)
      PROVE  TypeOK'
  <2>1. MySecret(r) \in SecretNames
    BY NamesAssumption DEF MySecret
  <2>2. /\ secret' \in [SecretNames -> Secret]
        /\ tombs' \in [SecretNames -> SUBSET Requests]
    BY <1>3, <2>1, HelperTypes DEF TypeOK, JobDelete
  <2>3. job' \in [Requests -> Job] /\ left' \in Nat
    BY <1>3, IdleTypes, CallType DEF TypeOK, JobDelete
  <2> QED
    BY <1>3, <2>2, <2>3 DEF TypeOK, JobDelete
<1> QED
  BY <1>1, <1>2, <1>3 DEF RotationJob

(* Every delivery of an informer keeps the types.                          *)
LEMMA InformerTypes ==
  ASSUME TypeOK, Informers
  PROVE  TypeOK'
<1> USE DEF clusterVars, cacheVars, rotationVars, producerVars
<1>1. ASSUME NEW r \in Requests, SyncSare(r)
      PROVE  TypeOK'
  BY <1>1 DEF TypeOK, SyncSare
<1>2. ASSUME NEW n \in SecretNames, SyncSecret(n)
      PROVE  TypeOK'
  BY <1>2 DEF TypeOK, SyncSecret, SecretNotifies
<1>3. ASSUME NEW p \in Producers, SyncSapr(p)
      PROVE  TypeOK'
  BY <1>3 DEF TypeOK, SyncSapr, RequestsOf
<1> QED
  BY <1>1, <1>2, <1>3 DEF Informers

(* Every step of the environment keeps the types.                          *)
LEMMA EnvironmentTypes ==
  ASSUME TypeOK, Environment
  PROVE  TypeOK'
<1> USE DEF clusterVars, cacheVars, rotationVars, producerVars, Spend
<1>1. ASSUME NEW r \in Requests, ApplyRequest(r)
      PROVE  TypeOK'
  <2>1. sare' \in [Requests -> Sare]
    <3>1. PICK rotation \in Rotations, optional \in Optionals :
            sare' = [sare EXCEPT ![r] =
                       [NewSare EXCEPT !.phase = "live", !.gen = 1,
                                       !.rotation = rotation,
                                       !.optional = optional]]
      BY <1>1 DEF ApplyRequest
    <3>2. [NewSare EXCEPT !.phase = "live", !.gen = 1, !.rotation = rotation,
                           !.optional = optional] \in Sare
      BY IdleTypes, NamesAssumption DEF Sare, Phases
    <3> QED
      BY <3>1, <3>2 DEF TypeOK
  <2> QED
    BY <1>1, <2>1 DEF TypeOK, ApplyRequest
<1>2. ASSUME NEW r \in Requests, ChangeRequest(r)
      PROVE  TypeOK'
  <2>1. sare' \in [Requests -> Sare]
    <3>1. PICK rotation \in Rotations, optional \in Optionals :
            sare' = [sare EXCEPT ![r].gen = @ + 1, ![r].rotation = rotation,
                                 ![r].optional = optional]
      BY <1>2 DEF ChangeRequest
    <3>2. sare[r] \in Sare /\ rotation \in {"off", "on", "invalid"}
          /\ optional \in BOOLEAN
      BY NamesAssumption DEF TypeOK
    <3> DEFINE gen == sare[r].gen + 1
    <3>3. gen \in Nat
      BY <3>2 DEF Sare
    <3>4. sare' = [sare EXCEPT ![r] = [sare[r] EXCEPT !.gen = gen,
                                                      !.rotation = rotation,
                                                      !.optional = optional]]
      BY <3>1, <3>2 DEF TypeOK
    <3> HIDE DEF gen
    <3>5. [sare[r] EXCEPT !.gen = gen, !.rotation = rotation,
                          !.optional = optional] \in Sare
      BY <3>2, <3>3 DEF Sare
    <3> QED
      BY <3>4, <3>5 DEF TypeOK
  <2>2. left' \in Nat
    BY <1>2 DEF TypeOK, ChangeRequest
  <2> QED
    BY <1>2, <2>1, <2>2 DEF TypeOK, ChangeRequest
<1>3. ASSUME NEW r \in Requests, DeleteRequest(r)
      PROVE  TypeOK'
  <2>1. sare' \in [Requests -> Sare]
    <3> DEFINE gen == sare[r].gen + 1
               marked == [sare[r] EXCEPT !.phase = "deleting", !.gen = gen]
               gone == [sare[r] EXCEPT !.phase = "gone"]
    <3>1. sare[r] \in Sare /\ gen \in Nat
      BY DEF TypeOK, Sare
    <3>2. \/ sare' = [sare EXCEPT ![r] = marked]
          \/ sare' = [sare EXCEPT ![r] = gone]
      BY <1>3, <3>1 DEF TypeOK, DeleteRequest
    <3> HIDE DEF gen
    <3>3. marked \in Sare /\ gone \in Sare
      BY <3>1 DEF Sare, Phases
    <3> HIDE DEF marked, gone
    <3> QED
      BY <3>2, <3>3 DEF TypeOK
  <2> QED
    BY <1>3, <2>1 DEF TypeOK, DeleteRequest
<1>4. ASSUME NEW r \in Requests, DeletionTimeout(r)
      PROVE  TypeOK'
  BY <1>4 DEF TypeOK, DeletionTimeout
<1>5. ASSUME NEW r \in Requests, WriteMigrationSecret(r)
      PROVE  TypeOK'
  BY <1>5 DEF TypeOK, WriteMigrationSecret
<1>6. ASSUME NEW n \in SecretNames, CollectGarbage(n) \/ DeleteSecret(n)
      PROVE  TypeOK'
  <2>1. /\ secret' \in [SecretNames -> Secret]
        /\ tombs' \in [SecretNames -> SUBSET Requests]
        /\ left' \in Nat
    BY <1>6, HelperTypes DEF TypeOK, CollectGarbage, DeleteSecret
  <2> QED
    BY <1>6, <2>1 DEF TypeOK, CollectGarbage, DeleteSecret
<1>7. ASSUME NEW n \in SecretNames, CreateForeignSecret(n)
      PROVE  TypeOK'
  <2>1. secret' \in [SecretNames -> Secret] /\ left' \in Nat
    BY <1>7 DEF TypeOK, CreateForeignSecret, Secret, Owners
  <2> QED
    BY <1>7, <2>1 DEF TypeOK, CreateForeignSecret
<1>8. ASSUME NEW p \in Producers,
             ChangeProducer(p) \/ StopService(p) \/ StartService(p)
      PROVE  TypeOK'
  <2>1. CASE ChangeProducer(p)
    <3>1. sapr' \in [Producers -> Sapr] /\ left' \in Nat
      BY <2>1 DEF TypeOK, ChangeProducer, Sapr
    <3> QED
      BY <2>1, <3>1 DEF TypeOK, ChangeProducer
  <2>2. CASE StopService(p)
    BY <2>2 DEF TypeOK, StopService
  <2>3. CASE StartService(p)
    BY <2>3 DEF TypeOK, StartService
  <2> QED
    BY <1>8, <2>1, <2>2, <2>3
<1> QED
  BY <1>1, <1>2, <1>3, <1>4, <1>5, <1>6, <1>7, <1>8 DEF Environment

(* A restart keeps the types.                                              *)
LEMMA CrashTypes ==
  ASSUME TypeOK, Crash
  PROVE  TypeOK'
<1> USE DEF clusterVars, producerVars, Spend
<1>1. w' \in WorkerState /\ w'.pc = "idle"
  BY IdleTypes DEF Crash, Restart, Idle
<1>2. watch' \in [Requests -> Watch] /\ job' \in [Requests -> Job]
  BY IdleTypes DEF Crash, Restart
<1>3. left' \in Nat
  BY DEF TypeOK, Crash, Restart
<1> QED
  BY <1>1, <1>2, <1>3 DEF TypeOK, Crash, Restart

(* Every step keeps the types.                                             *)
LEMMA TypeStep ==
  ASSUME TypeOK, [Next]_vars
  PROVE  TypeOK'
<1>1. CASE Operator
  <2>1. ASSUME NEW r \in Requests, CronFires(r) \/ RotationJob(r)
        PROVE  TypeOK'
    BY <2>1, CronTypes, RotationTypes
  <2> QED
    BY <1>1, <2>1, WorkerTypes, InformerTypes DEF Operator
<1>2. CASE Environment
  BY <1>2, EnvironmentTypes
<1>3. CASE Crash
  BY <1>3, CrashTypes
<1>4. CASE UNCHANGED vars
  BY <1>4 DEF TypeOK, vars
<1> QED
  BY <1>1, <1>2, <1>3, <1>4 DEF Next

(* The initial states have the types.                                      *)
LEMMA InitTypes ==
  ASSUME Init
  PROVE  TypeOK
<1>1. /\ sare \in [Requests -> Sare] /\ seenSare \in [Requests -> Sare]
      /\ secret \in [SecretNames -> Secret]
      /\ seenSecret \in [SecretNames -> Secret]
      /\ w \in WorkerState /\ w.pc = "idle"
      /\ watch \in [Requests -> Watch] /\ job \in [Requests -> Job]
  BY IdleTypes DEF Init, Idle
<1>2. sapr \in [Producers -> Sapr] /\ seenSapr \in [Producers -> Sapr]
  BY DEF Init, Sapr
<1>3. account \in [Requests -> Creds \cup {NoCred}]
  BY CredsAssumption DEF Init
<1>4. left \in Nat
  BY BudgetAssumption DEF Init
<1> QED
  BY <1>1, <1>2, <1>3, <1>4 DEF Init, TypeOK

(* Every variable keeps its type, whatever is lost, late or restarted.     *)
THEOREM TypeCorrect == Spec => []TypeOK
<1>1. Init => TypeOK
  BY InitTypes
<1>2. TypeOK /\ [Next]_vars => TypeOK'
  BY TypeStep
<1> QED
  BY <1>1, <1>2, PTL DEF Spec
=============================================================================
