------------------------- MODULE RequestProperties -------------------------
(***************************************************************************)
(* What the reconciliation of ServiceAccountRequests promises.             *)
(***************************************************************************)
EXTENDS RequestController

Live(r) == sare[r].phase = "live"
Offered(r) == sapr[ProducerOf[r]].present
Owned(r) == secret[MySecret(r)].owner = r

(* Nothing is left to do: every event is delivered, every reconcile it     *)
(* caused has succeeded (a failed one would be back in the queue) and no   *)
(* rotation is under way.                                                  *)
Quiet ==
  /\ queue = {} /\ w.pc = "idle"
  /\ seenSare = sare /\ seenSecret = secret /\ seenSapr = sapr
  /\ \A n \in SecretNames : tombs[n] = {}
  /\ \A r \in Requests : job[r].pc = "none"

(* The producer holds a credential this operator asked for.                *)
Issued(r) == account[r] # NoCred /\ ~(r \in Legacy /\ account[r] = V2Cred)

(* The finalizer is on the SARE before the producer is asked for the       *)
(* first account, and stays until the account is gone, unless the producer *)
(* is gone or the deletion timeout has passed (Reconcile, reconcileDelete). *)
NoOrphanedAccount ==
  \A r \in Requests :
    Issued(r) => \/ Present(sare[r]) /\ sare[r].finalizer
                 \/ r \in abandoned

(* Whatever was applied, deleted or lost in whatever order: once settled,  *)
(* every live request with a producer has its secret (the predicates and   *)
(* map functions of SetupWithManager together with createOrUpdate) ...     *)
CredentialDelivered ==
  Quiet => \A r \in Requests : Live(r) /\ Offered(r) => Owned(r)

(* ... and no request without a producer has one                           *)
(* (getProducerForCreateOrUpdate).                                         *)
CredentialWithdrawn ==
  Quiet => \A r \in Requests : Live(r) /\ ~Offered(r) => ~Owned(r)

(* Once settled, a rotation watcher runs for exactly the live requests     *)
(* whose current spec asks for one (handleSaRotationWatcher,               *)
(* deleteSaRotationWatcher, and the restart that recreates them).          *)
RotationFollowsSpec ==
  Quiet => \A r \in Requests :
             watch[r].armed <=> Live(r) /\ sare[r].rotation = "on"

(* Once settled, a live request's account was made with the parameters of  *)
(* its current spec, unless its credential came from the migration secret: *)
(* changes during a reconcile, lost events and retries do not swallow the  *)
(* last change (requestCredentials, GenerationChangedPredicate).           *)
ParametersReachProducer ==
  Quiet => \A r \in Requests :
             Live(r) /\ Owned(r) /\ secret[MySecret(r)].cred # V2Cred
               => params[r] = sare[r].gen

(* A secret changes hands only by being deleted first: the ownership check *)
(* and the resourceVersion of the update in SecretManager.CreateOrUpdate   *)
(* hold against requests that name the same secret and against users.      *)
SecretNeverTakenOver ==
  [][\A n \in SecretNames :
       secret[n].owner # Nobody =>
         secret'[n].owner \in {secret[n].owner, Nobody}]_vars

(* A rotation that is recorded in the status stays recorded: reconciles    *)
(* and rotation jobs patch from copies of different ages, also from one    *)
(* that a failed patch left changed, and never take back what another copy *)
(* has added (setAndPersist, client.MergeFrom).                            *)
LastRotationIsKept ==
  [][\A r \in Requests :
       Present(sare[r]) /\ sare[r].status.lastRotation
         => sare'[r].status.lastRotation]_vars

(* A SARE marked for deletion goes away, even if its producer never        *)
(* answers, and its secret goes with it (reconcileDelete and the           *)
(* controller reference).  Marked once, a SARE stays so until it is gone,  *)
(* so it suffices that in the end none is marked.                          *)
DeletionCompletes ==
  \A r \in Requests :
    <>[](sare[r].phase # "deleting" /\ (sare[r].phase = "gone" => ~Owned(r)))

(* A request whose producer stays and answers gets its secret and keeps it: *)
(* errors are retried, whatever step they happen at.                       *)
Deliverable(r) ==
  /\ Live(r) /\ Offered(r) /\ Answers(r)
  /\ sare[r].rotation # "invalid"
  /\ MigratedAttributes(r) = {} \/ MissingKeys(r) = {}
  /\ secret[MySecret(r)].owner \in {r, Nobody}

EventuallyDelivered ==
  \A r \in Requests : <>[]Deliverable(r) => <>[]Owned(r)

(* A request whose producer stays away loses its secret, required requests *)
(* included, which never settle (getProducerForCreateOrUpdate).            *)
EventuallyWithdrawn ==
  \A r \in Requests :
    <>[](Live(r) /\ ~Offered(r) /\ sare[r].rotation # "invalid")
      => <>[]~Owned(r)

-----------------------------------------------------------------------------
(* The operator implements CredentialDelivery: its finalizer is the guard, *)
(* its secrets are what consumers hold.                                    *)
GuardOf(r) ==
  CASE sare[r].phase = "gone" -> "gone"
    [] sare[r].phase = "deleting" -> "ending"
    [] sare[r].phase = "live" /\ sare[r].finalizer -> "guarded"
    [] OTHER -> "open"
HeldBy(r) == IF Owned(r) THEN secret[MySecret(r)].cred ELSE NoCred

Guards == [r \in Requests |-> GuardOf(r)]
Holdings == [r \in Requests |-> HeldBy(r)]

Delivery == INSTANCE CredentialDelivery WITH guard <- Guards, held <- Holdings

(* Late caches, lost answers, rotations, restarts and users who delete     *)
(* secrets never make the operator do more than CredentialDelivery allows: *)
(* credentials go to guarded requests only, as the producer accepts them   *)
(* in that moment, accounts end with their request, and a request ends     *)
(* after its account (createOrUpdate, deleteServiceAccount,                *)
(* removeFinalizer).                                                       *)
ImplementsDelivery == Delivery!Spec

-----------------------------------------------------------------------------
(* Why no account is orphaned: an inductive invariant.  The worker reads   *)
(* the finalizer and the deletion mark from a cache that may be late, and  *)
(* acts on the server much later; both marks are safe to act on because    *)
(* the server never goes back behind them.                                 *)

(* A finalizer the cache shows on a live SARE is still there.              *)
FinalizerStays(r) ==
  seenSare[r].phase = "live" /\ seenSare[r].finalizer
    => Present(sare[r]) /\ sare[r].finalizer

(* A SARE the cache shows as marked for deletion never comes back.         *)
DeletionStays(r) ==
  seenSare[r].phase \in {"deleting", "gone"}
    => sare[r].phase \in {"deleting", "gone"}

WorkerInv ==
  /\ w.pc = "finalizer" => w.obj.phase = "live"
  /\ w.pc \in UpdatePcs \ {"finalizer"}
       => Present(sare[w.req]) /\ sare[w.req].finalizer
  /\ w.pc \in DeletePcs => seenSare[w.req].phase \in {"deleting", "gone"}
  /\ w.pc = "release" /\ w.outcome # "abandoned" => ~Issued(w.req)

AccountInv ==
  /\ \A r \in Requests : FinalizerStays(r) /\ DeletionStays(r)
  /\ WorkerInv
  /\ NoOrphanedAccount

(* Why the operator implements CredentialDelivery: what the worker is      *)
(* about to store is what the producer accepts, or the credential from     *)
(* before the migration; and it lets a SARE go that is marked for deletion *)
(* and has no account left.                                                *)
StoreInv ==
  /\ w.pc = "store" =>
       \/ /\ w.outcome = "migrated"
          /\ w.req \in Legacy /\ w.cred = V2Cred
       \/ /\ w.outcome = "rotated"
          /\ w.cred = account[w.req] /\ account[w.req] # NoCred
  /\ w.pc \in DeletePcs => w.obj.phase = "deleting"
  /\ w.pc = "release" /\ w.outcome # "abandoned" => account[w.req] = NoCred
  /\ \A r \in Requests \ Legacy : migration[r] = {}

-----------------------------------------------------------------------------
(* Why nothing is missed when all is quiet: an inductive invariant.  The   *)
(* controller decides on what its caches show, one call after the other;   *)
(* whatever it may have decided on too early is either still to be looked  *)
(* at (the request is in the queue or about to be retried) or still to be  *)
(* decided (the reconcile has not come to the step that decides it).       *)

(* The reconcile of r is before the call of one of pcs, or about to fail.  *)
InStep(r, pcs) == w.req = r /\ w.pc \in pcs \cup {"fail"}
LookedAtAgain(r, pcs) == r \in queue \/ InStep(r, pcs)

(* A cached SARE is an earlier one; the generation tells its spec and its  *)
(* deletion mark, so an update that GenerationChangedPredicate suppresses  *)
(* shows nothing new.                                                      *)
CachedSpec(r) ==
  LET seen == seenSare[r]
  IN /\ seen.gen <= sare[r].gen
     /\ sare[r].phase = "new" => sare[r].gen = 0 /\ seen.phase = "new"
     /\ seen.phase = "gone" => sare[r].phase = "gone"
     /\ Present(seen) /\ Present(sare[r]) /\ seen.gen = sare[r].gen
          => seen.phase = sare[r].phase /\ seen.rotation = sare[r].rotation

(* The reconcile works with the spec the cache shows, or the request is    *)
(* queued again.                                                           *)
EarlyPcs == {"finalizer", "exists", "watch"}
CurrentSpec ==
  w.pc \in EarlyPcs =>
    /\ ~w.bound /\ w.obj.phase = "live" /\ seenSare[w.req].phase # "new"
    /\ \/ w.req \in queue
       \/ /\ seenSare[w.req].phase = "live"
          /\ seenSare[w.req].gen = w.obj.gen
          /\ seenSare[w.req].rotation = w.obj.rotation

(* A watcher runs only for a SARE the server still holds: deleting it      *)
(* stops the watcher before the finalizer goes (reconcileDelete).          *)
WatcherHasRequest(r) ==
  watch[r].armed => /\ Present(sare[r]) /\ sare[r].finalizer
                    /\ seenSare[r].phase # "new"
WatcherStopsFirst == w.pc \in DeletePcs => ~watch[w.req].armed
WatcherDecided(r) ==
  \/ LookedAtAgain(r, EarlyPcs)
  \/ watch[r].armed <=> seenSare[r].phase = "live"
                        /\ seenSare[r].rotation = "on"

RotationInv ==
  /\ CurrentSpec /\ WatcherStopsFirst
  /\ \A r \in Requests :
       CachedSpec(r) /\ WatcherHasRequest(r) /\ WatcherDecided(r)

(* A secret the cache shows is there, or its owner will be told that it is *)
(* gone (wasDeletedPredicate).                                             *)
CachedSecret(n) ==
  LET owner == seenSecret[n].owner
  IN owner \in Requests => secret[n].owner = owner \/ owner \in tombs[n]

(* The secret is there, or its owner will be told that it is not.          *)
Delivered(r) == Owned(r) \/ r \in tombs[MySecret(r)]
SeenOffered(r) ==
  seenSare[r].phase = "live" /\ seenSapr[ProducerOf[r]].present
SeenDropped(r) ==
  seenSare[r].phase = "live" /\ ~seenSapr[ProducerOf[r]].present

DeliveryDecided(r) ==
  LookedAtAgain(r, UpdatePcs) \/ Delivered(r) \/ ~SeenOffered(r)

(* A reconcile that found a secret, or that is done with one, leaves its   *)
(* request with it; one that found no producer is still right about that.  *)
DeliveryWorker ==
  LET r == w.req
  IN /\ w.pc \in UpdatePcs /\ (w.seen \/ w.pc = "ready")
          => r \in queue \/ Delivered(r)
     /\ w.pc \in {"dropSecret", "markMissing"}
          => r \in queue \/ ~SeenOffered(r)

DeliveryInv ==
  /\ DeliveryWorker
  /\ \A n \in SecretNames : CachedSecret(n)
  /\ \A r \in Requests : DeliveryDecided(r)

(* Without a producer the secret goes; a reconcile that found a producer   *)
(* is still right about that, or the request is queued again.              *)
WithdrawalDecided(r) ==
  \/ LookedAtAgain(r, EarlyPcs \cup {"sapr", "dropSecret"})
  \/ ~Owned(r) \/ ~SeenDropped(r)
WithdrawalWorker ==
  w.pc \in {"migrate", "put", "store", "ready"}
    => w.req \in queue \/ ~SeenDropped(w.req)
WithdrawalInv ==
  WithdrawalWorker /\ \A r \in Requests : WithdrawalDecided(r)

(* The producer is asked with the spec the cache shows or a later one,     *)
(* never with one the server does not have yet.                            *)
BeforePut == EarlyPcs \cup {"sapr", "dropSecret", "migrate", "put"}
SentInTime(r) == r \in queue \/ params[r] >= seenSare[r].gen
ParamsDecided(r) ==
  \/ LookedAtAgain(r, BeforePut \cup {"store"})
  \/ seenSare[r].phase = "live" /\ Owned(r)
       /\ secret[MySecret(r)].cred # V2Cred
     => params[r] >= seenSare[r].gen
ParamsWorker ==
  LET r == w.req
  IN /\ w.pc \in UpdatePcs => WObj.gen <= sare[r].gen
     /\ w.pc \in BeforePut => r \in queue \/ WObj.gen >= seenSare[r].gen
     /\ w.pc = "store" => w.cred = V2Cred \/ SentInTime(r)
ParamsInv ==
  /\ ParamsWorker
  /\ \A r \in Requests : /\ watch[r].obj.gen <= sare[r].gen
                         /\ params[r] <= sare[r].gen
                         /\ ParamsDecided(r)

-----------------------------------------------------------------------------
(* What the documentation and comments say and the code does not keep.     *)

(* operational_scenarios_en.md:103: deleting the secret triggers a         *)
(* rotation at the producer.  A lingering migration secret restores the    *)
(* credential of the deleted secret instead (migrateCredentials).          *)
DeletedSecretIsRotated ==
  [][\A r \in Requests :
       /\ secret[MySecret(r)] = NoSecret
       /\ sare[r].status.secretRef
       /\ secret'[MySecret(r)].owner = r
       => w.outcome = "rotated"]_vars

(* operations_en.md:45: an existing secret is never overwritten from the   *)
(* migration secret.  The check that there is none and the store read the  *)
(* cache one after the other (createOrUpdate, SecretManager).              *)
MigrationNeverOverwrites ==
  [][\A r \in Requests :
       /\ secret[MySecret(r)].owner = r
       /\ secret'[MySecret(r)].owner = r
       /\ w.outcome = "migrated"
       => secret' = secret]_vars

(* operational_scenarios_en.md:100: after a rotation the secret is         *)
(* guaranteed to be updated.  If storing the credential fails, the retry   *)
(* does not ask for a rotation any more (requestCredentials).              *)
RotatedCredentialIsStored ==
  Quiet => \A r \in Requests :
             Live(r) /\ Owned(r) => secret[MySecret(r)].cred = account[r]

(* operational_scenarios_en.md:53: a request without a producer shows it   *)
(* in its condition.  A patch relative to a stale cached status that says  *)
(* so already is empty (setAndPersist).                                    *)
MissingProducerIsShown ==
  Quiet => \A r \in Requests :
             Live(r) /\ ~Offered(r) => ~sare[r].status.cond.ready

(* controller.go:216: for a producer not found, secrets "created for this  *)
(* request" are deleted.  secretManager.Delete deletes by name, as does    *)
(* the rotation job: nobody but a user should remove a foreign secret.     *)
OnlyOwnSecretsDeleted ==
  [][\A n \in SecretNames :
       secret[n].owner = Foreign /\ left' = left
         => secret'[n] = secret[n]]_vars
=============================================================================
