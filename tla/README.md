# The service account operator in TLA+

This directory models the cloudogu service account operator: a Kubernetes
operator that turns a *ServiceAccountRequest* (SARE) of a consumer and a
*ServiceAccountProducer* (SAPR) of a producer into credentials in a secret. It
calls the producer's HTTP API for them, rotates them on a schedule, takes them
over from Dogu V2, and gives the account back when the SARE is deleted. The
modules are model-checked with TLC on small instances; the theorems are proved
with TLAPS for all instances.

## 1. The system

| Component | Source | State | Operations | Model |
|---|---|---|---|---|
| SARE controller | `internal/controller/request/controller.go` | work queue, informer caches, the reconcile it runs, `rotateCronWatcher` | `Reconcile`: `createOrUpdate`, `reconcileDelete`; watches and predicates | `RequestController` |
| SARE status | `internal/controller/request/status_conditions.go` | condition, `secretRef`, `lastRotation` on the server and in memory | five writers over `setAndPersist` | `SareStatus` |
| Secret manager | `internal/serviceaccount/secret_manager.go` | the credential secrets | `Exists`, `CreateOrUpdate`, `Delete` | in `RequestController` |
| Migration source | `internal/serviceaccount/migration.go` | none (reads `<dogu>-migration`) | `Credentials` | in `RequestController` |
| Producer client | `internal/producer/*.go` | the accounts at the producer | PUT, HEAD, DELETE; `Ready` | in `RequestController`; `Ready` in `ProducerController` |
| Rotation watcher | `internal/controller/request/cron/cron.go` and `rotateSaSecretFunc` | a cron task per SARE, with the SARE object it captured | `New`, `Run`, `Stop`, the job | in `RequestController` |
| SAPR controller | `internal/controller/producer/controller.go`, `status_conditions.go` | ready and network policy conditions | upsert policy, probe, patch, requeue | `ProducerController` |
| Network policies | `internal/controller/producer/networkpolicy.go` | one policy per SAPR | `UpsertNetworkPolicy` | in `ProducerController` |
| Manager, shutdown | `cmd/main.go` | signal, timer, manager's exit | `main`, `startManager`, `waitForGracefulShutdown` | `OperatorProcess` |
| Configuration | `internal/config` | read once | environment, flags | required settings in `OperatorProcess`; flags and logging not modelled |
| Helm chart, build | `k8s`, `build` | none | none | not modelled |

How they interact:

- The SARE controller **reads from caches and writes to the API server**. Each
  object of a cache is late on its own. What it wrote itself it sees late too.
- It is woken by changes of a SARE's generation, by **deletions** of secrets it
  owns, and by SAPRs that are created, deleted, changed, or ready again, which
  it maps to the SAREs in its cache. Status updates wake nobody.
- One worker runs one reconcile at a time; an error puts the SARE back into the
  queue. A reconcile is a sequence of remote calls; between any two of them the
  cluster, the producer and the rotation jobs go on.
- A rotation watcher runs in goroutines of its own. Its job patches the status
  and deletes the secret, and relies on that deletion to wake the controller,
  which then asks the producer to rotate *because the secret is missing*. Job
  and reconcile share the in-memory SARE object the watcher captured.
- The producer is reached over HTTP: calls and answers get lost.
- The SAPR controller writes a network policy per SAPR, probes the endpoint and
  patches the SAPR's status. It is woken by *every* change of a SAPR, its own
  patches included, and by the interval; services, auth secrets and (by an
  owner reference of the wrong kind) policies are read but wake nobody. A SAPR
  that gets ready wakes the SARE controller.
- `main` waits for the manager, which runs both controllers in goroutines of its
  own, and for SIGTERM. After the signal it stops the rotation watchers, *while
  reconciles still run*, and gives the manager 15 seconds. Whatever way the
  process ends, queue, caches and watchers are lost (`Crash` in the models of
  the controllers) and the kubelet starts it again.

What makes it hard: late reads before writes; status patches computed as a
difference to a late copy; two systems (producer and cluster) changed one after
the other with failures in between; events that are filtered or lost in a
crash; two writers (worker, rotation job) on one object.

What makes it correct, by component:

- controller: no account without a finalizer to guard it, deletion completes,
  secrets are delivered and withdrawn as SAPRs come and go, whatever was lost;
- status: it says what is the case, for the generation it names;
- secret manager: it never takes over, nor removes, what is not the SARE's;
- rotation: a watcher runs exactly if the spec asks for one; after a rotation
  the secret holds what the producer accepts;
- migration: credentials are taken over once, never undo a rotation and never
  overwrite a newer secret;
- the whole: each request goes through a life that `CredentialDelivery` allows;
- process: it ends when asked to, reports success only if everything stopped,
  and serves if its configuration can be read;
- SAPR controller: both conditions are about the current spec and agree with
  each other; what changes without an event is noticed within the interval.

## 2. The modules

    CredentialDelivery    what the whole promises, abstractly

    SareStatus            status writers and merge patches (no state)
      RequestController   the controller and everything it talks to
        RequestProperties   what it promises; the refinement mapping to
                            CredentialDelivery; the inductive invariants
          MCRequestController   instances for TLC
          RequestTypeProofs     TypeOK                  (TLAPS)
            RequestSafetyProofs   accounts, secrets,
                                  recorded rotations    (TLAPS)
              RequestSettledProofs     what a step moves;
                                       rotation watchers once quiet (TLAPS)
                RequestDeliveryProofs  secrets and parameters
                                       once quiet       (TLAPS)
              RequestRefinementProofs  the refinement   (TLAPS)

    ProducerController    the SAPR controller and everything it talks to
      ProducerProperties    what it promises; its inductive invariant
        MCProducerController  instances for TLC
      ProducerProofs        TypeOK                      (TLAPS)
        ProducerStatusProofs  the status once quiet     (TLAPS)

    OperatorProcess       the process: configuration, manager, shutdown
      MCOperatorProcess     its settings, for TLC
      ProcessProofs         its types, its success, and that it
                            serves only if configured   (TLAPS)

### RequestController

One action per remote call. `w` is the worker; `w.pc` names the call it makes
next, so that everything else may happen before that call:

| `w.pc` | Action | Code |
|---|---|---|
| idle | `ReconcileSkip`, `ReconcileLive`, `ReconcileDeleting` | `Reconcile`, `reconcileDelete` up to the first call |
| finalizer | `AddFinalizer` | `Update` with the finalizer (conflict if the cache is late) |
| exists | `CheckSecretExists` | `SecretManager.Exists` |
| watch | `SetRotation` | `handleSaRotationWatcher` |
| sapr | `GetProducer` | `getProducerForCreateOrUpdate`, the lookup |
| dropSecret, markMissing | `DropSecret`, `MarkMissing` | its branch for a missing producer |
| migrate | `Migrate` | `MigrationSource.Credentials` |
| put | `Put` | `requestCredentials`, `HttpClient.CreateOrUpdate` |
| store | `Store` | `SecretManager.CreateOrUpdate` |
| ready | `SetReady` | `reconcileCreateOrUpdate` after a success |
| fail | `RecordFailure` | `fail`, `failWithReason` |
| dGet, dHead, dDelete | `FindProducer`, `AskForAccount`, `DeleteAccount` | `deleteServiceAccount` |
| release | `Release` | `removeFinalizer` |

A rotation job is `CronFires`, `JobCheck`, `JobPatch`, `JobDelete`. The
informers are `SyncSare`, `SyncSecret`, `SyncSapr`. The environment applies,
changes and deletes SAREs, SAPRs, secrets and migration secrets, stops and
starts producer services, lets the deletion timeout pass, collects garbage, and
ends the process (`Crash`, after which `Restart` finds what the cluster holds).

A remote call has two Boolean parameters: `applied` (it took effect) and `ok`
(its caller learns that). `applied /\ ~ok` is a lost answer.

| Variable | Stands for |
|---|---|
| `sare`, `secret`, `sapr`, `migration` | objects on the API server |
| `account`, `up` | the credential each producer accepts; the producers that answer |
| `params` | the generation of the spec whose parameters a producer was last asked with |
| `seenSare`, `seenSecret`, `seenSapr`, `tombs` | informer caches; deletions of secrets still to be reported to their owners |
| `queue`, `w` | work queue and worker |
| `watch`, `job` | `rotateCronWatcher` with the captured objects; jobs in flight |
| `expired` | SAREs whose deletion timeout has passed |
| `abandoned` | observer: finalizers dropped without the producer having deleted the account |
| `left` | what is left of the budget |

A migration secret is the set of its `<producer>_<attribute>` keys:
`MigratedAttributes` are those with the SARE's prefix, `MissingKeys` those the
SAPR returns and the secret lacks. None of the former: the producer is asked;
any of the latter: the reconcile fails; otherwise the V2 credential is stored.

### CredentialDelivery

What a user may rely on, without caches, calls or failures: a request is open,
guarded, ending or gone; accounts are issued to guarded requests and revoked at
the end; a consumer holds what the producer accepts *in the moment of the
delivery*, or the credential from before the migration; a request that ends is
released after its account, or the account is given up. `RequestProperties`
maps the operator to it:

| Abstract | In `RequestController` |
|---|---|
| `guard[r]` | `GuardOf(r)`: phase and finalizer of the SARE on the server |
| `account[r]`, `abandoned` | the variables of the same names |
| `held[r]` | `HeldBy(r)`: the credential in the SARE's secret if it owns it |

Everything else is a step of the abstract specification that changes nothing.
A rotation is `Withdraw` (the job deletes the secret), `Issue`, `Deliver`.

### OperatorProcess

| `main` | Action | Code |
|---|---|---|
| config | `ReadConfig` | `NewOperatorConfig` and the getters of the five required settings |
| build | `BuildManager` | `startManager`, up to the goroutine of the manager |
| select | `TakeResult`, `SeeSignal` | the first select of `waitForGracefulShutdown` |
| cleanup | `Cleanup`, `CleanupPanics` | `sareCleanup`, which reads a map that reconciles may write |
| wait | `WaitForManager`, `GiveUp` | the second select |
| exited | `RestartContainer` | the kubelet |

`manager` is `mgr.Start` in its goroutine: it returns with an error at any time,
without one only after the signal, or never. A setting is unset, malformed or
set; the namespace is free text and cannot be malformed. SIGTERM ends a process
that has not called `NotifyContext` yet; SIGKILL comes at any time, after SIGTERM
without limit, because the grace period of the pod is as long as the timer.

### ProducerController

Built the same way; `later` says that the clock has reached another second than
the `lastExecution` of the object being patched.

| `w.pc` | Action | Code |
|---|---|---|
| idle | `Dequeue` | `Reconcile` up to `Get` |
| policy | `DropPolicy`, `GeneratePanics`, `GenerateFails`, `UpsertPolicy` | `UpsertNetworkPolicy`, `generate`, `controllerutil.CreateOrUpdate` |
| markFailed, mark | `MarkNetpolFailed`, `MarkNetpolUpserted` | both branches after the upsert |
| check | `CheckReady` | `checkReady`, `resolveAPIKey`, `HttpClient.Ready` |
| report | `Report` | `markReady`, `markNotReady`, `RequeueAfter` |

`TimerFires` ends an interval; `SyncSapr` and `SyncPolicy` are the informers.
`touched` holds the SAPRs whose `lastExecution` on the server is newer than in
the cache: the value itself does not matter, only that the update is an event.
`Persist` is `setAndPersist`; the conditions are one list and thus one field of
the merge patch. `Refreshed` is what the answer to the patch makes of the
object: the rest of the reconcile goes on with the *current* SAPR.

An endpoint URL is the service it names (an unparsable one behaves like a
service that does not exist), a service is the target a policy would allow, or
`NoTarget` (no such service or port). Services and keys are modelled as the
cache shows them. The probe gets through if pods answer, the key is right, and
the policy opens the current target (clusters that enable policies deny by
default; external). Messages of conditions are left out: a failure with another
message would patch more often, never less.

### Abstractions

- A cache jumps to the current object of the server. The intermediate updates it
  skips are not events the code tells apart; deletions are, and are kept in
  `tombs`. An update with a resourceVersion succeeds exactly if the cached
  object equals the server's. A version bump that changes nothing in the model
  would be one more conflict, and a conflict is also an ordinary lost call.
- `spec.optional` is a field of the SARE, chosen with the schedule from
  `Optionals` when the SARE is applied or changed.
- After a status patch the caller's object is the server's answer. Decoding it
  does not clear what it lacks: modelled for the status (`Decoded`). A spec that
  lost a field while the reconcile ran is taken as it is on the server; whatever
  changed it is an event, and the next reconcile starts from the cache.
- `Get` from a cache never fails. Writes, HTTP calls and the building of an HTTP
  client (reading the auth secret) may fail.
- Names, parameters and payloads are model values. `spec.secretRef` and
  `spec.producer` of a SARE do not change, and SAREs at one producer have
  different consumers. A SARE is applied once; `gone` is final. Users do not
  edit finalizers.
- Credentials are numbers; a producer issues one that is in nobody's hands.
  Values no one holds any more are reused, so that runs stay finite.
- `lastRotation` is whether it was ever set; times are not compared anywhere.
- A migration secret is what the operator's cache shows of its keys; an empty
  one is as good as none.
- One rotation job per SARE at a time (jobs take seconds, cron ticks minutes).
- SAPR readiness is not a variable: the request controller only reacts to the
  event that a SAPR *got* ready, which is one of the events of `ChangeProducer`.

## 3. What is checked

`Budget` bounds the **number of disturbances** in a behaviour and `Disturbances`
their kinds: `fault` (a lost call or answer), `crash`, `tick` (a cron expression
is due), `spec`, `secret`, `sapr`, `migration`, `outage`; for the SAPR controller
also `touch` (the SARE controller stamps a SAPR), `policy`, `service`, `key`. Applying and deleting
SAREs, the deletion timeout, the end of an outage, caches, jobs and garbage
collection are not bounded. Two disturbances at any two places are what the
races of this code need: one that opens a gap (a late read, a lost answer) and
one that goes through it; all findings need two or fewer.

| Run | Instance | Shows |
|---|---|---|
| `Lifecycle.cfg` | 1 legacy, optional SARE, 2 attributes, schedule on, off, invalid; everything but outages, budget 2 (3 million states) | `TypeOK`, `NoOrphanedAccount`, `CredentialDelivered`, `CredentialWithdrawn`, `RotationFollowsSpec`, `ParametersReachProducer`, `LastRotationIsKept` |
| `SharedSecret.cfg` | 2 required SAREs that name one secret; a user who touches it, budget 1 | `NoOrphanedAccount`, `SecretNeverTakenOver`, `ImplementsDelivery` |
| `Liveness.cfg` | 1 legacy SARE, optional or required, faults, SAPR changes, outages, budget 2 | `DeletionCompletes`, `EventuallyDelivered`, `EventuallyWithdrawn`, `ImplementsDelivery` |
| `Process.cfg` | 1 pod, any environment, 2 failures or kills, SIGTERM at any moment | `ProcessTypeOK`, `SuccessMeansStopped`, `ShutdownTerminates`, `ServesIfConfigured` |
| `MigrationUndoesRotation.cfg` | 1 legacy SARE, a deleted secret | violates `DeletedSecretIsRotated` |
| `MigrationOverwrites.cfg` | 1 legacy SARE, specs and migration secrets change, **no** fault | violates `MigrationNeverOverwrites` |
| `LostCredential.cfg` | 1 SARE, specs and secrets change, **no** fault | violates `RotatedCredentialIsStored` |
| `StaleStatus.cfg` | 1 SARE, a SAPR that comes and goes, **no** fault | violates `MissingProducerIsShown` |
| `ForeignSecret.cfg` | 1 SARE, a user creates a secret | violates `OnlyOwnSecretsDeleted` |
| `Producer.cfg` | 1 SAPR, an interval, policies on, off, or switched by a restart; all disturbances, budget 1 | `TypeOK`, `SettledStatus`, `EventuallyReady`, `OutageIsNoticed`, `InvalidSpecIsReportedWithoutPolicies` |
| `InvalidSpecPanics.cfg` | 1 SAPR, policies enabled, **no** disturbance | violates `InvalidSpecIsReported` |
| `NeverAtRest.cfg` | 1 healthy SAPR, interval 0, **no** disturbance | violates `ComesToRest` |

SAPRs share nothing but the worker and the queue, so one SAPR shows what can
happen to each; the second service target is there so that a policy can be
wrong. Every race with a late cache, the conflicts of a late policy cache and a
service or key that is wrong from the start come on top of the budget; the
invariants also hold with budget 3 and policies enabled (9 million states), the
liveness properties with budget 2 and one target.

`Lifecycle.cfg` uses that the two attributes are alike (`AlikeAttributes`, a
symmetry; the run has no liveness property). One SARE is enough for what a SARE
does alone, two for a name they share; what SAREs share otherwise is the worker
and the queue.

Most invariants are about states in which nothing is left to do (`Quiet`):
every event delivered, nothing queued, no job in flight. A failed reconcile is
back in the queue, so `Quiet` also says that the last reconcile succeeded. That
is the sharpest thing to ask of an event-driven controller: if it has stopped,
and is wrong, nothing will ever make it right. The liveness properties add that
it does get right, and they speak of states that never become quiet: a required
request without a producer fails and is retried for ever, so that only
`EventuallyWithdrawn` says its secret goes. That is why the request of
`Liveness.cfg` is optional in some behaviours and required in others; the mutant
of the property breaks the required ones only.

What the properties leave out, and why:

- `LastRotationIsKept` is the one thing two writers of a status never undo for
  each other: they patch from copies of different ages, and a field that a
  writer has not changed is not in its patch. If the whole status were written
  (its mutant) a late copy would take a rotation back. Conditions have no such
  protection, see finding 3.
- Nothing is said of `observedGeneration`: the patch of a rotation job is made
  from the object its watcher captured, possibly of an older generation, and TLC
  finds it written last.
- `ParametersReachProducer` excludes a credential from the migration secret: its
  producer is not asked.
- `ImplementsDelivery` is a safety property. That deliveries happen is said by
  the liveness properties, on the operator itself.
- A process that panics in the cleanup violates nothing: it has ended, and did
  not report success. `ServesIfConfigured` does not say that SIGTERM is followed
  by another pod; that is the deployment's.
- "A settled SARE that owns its secret is ready" does *not* hold: it fails for
  the same reason as `MissingProducerIsShown`, a patch relative to a late copy.
- `EventuallyWithdrawn` excludes an invalid cron expression: it fails the
  reconcile before the producer is looked up, so the secret of a removed
  producer stays until the expression is corrected.
- `EventuallyDelivered` excludes the specs the code cannot serve: an invalid
  expression, an incomplete migration secret, a secret of another owner.

For the SAPR controller `Quiet` leaves the timer out: that the status is about
the current spec must not depend on the interval. `SettledStatus` depends on
the missing predicate of the SAPR watch instead: with the usual
`GenerationChangedPredicate` (its mutant) a patch that came to nothing because
its base was late would last, `NetworkPolicyUpserted=False` next to
`Ready=True`. That is worth knowing for whoever repairs finding 7.

Deadlock is not checked: an operator with nothing to do stops.

### Fairness

- `WF(WorkerStep)`: the worker goroutine goes on; remote calls end (30 second
  client timeout, API server timeouts), well or badly.
- `SF(Reconcile(r))` per SARE: the work queue hands out every key it holds; a
  failed one comes back after its backoff. It must be strong because the worker
  is busy with other SAREs in between.
- `WF` of the informers, of started rotation jobs, of the deletion timeout
  (time passes) and of garbage collection.
- For the SAPR controller likewise: the worker, each SAPR in the queue (strong),
  the informers, garbage collection, and `TimerFires` (the interval passes).
- For the process: the main goroutine, the timer, the start of the manager and
  the restart of the container. The manager *need not return* after the signal:
  that is what the timer is for.
- None for users, cron ticks, crashes, or the end of an outage. Calls may fail
  only within the budget: a retry that fails for ever promises nothing.

### Findings

1. **A deleted secret is not rotated while a migration secret exists**
   (`controller.go:182`). `createOrUpdate` looks for a migration secret whenever
   the secret is missing, and restores the V2 credential.
   `docs/operations/operational_scenarios_en.md:103` promises a rotation; the
   trigger in `docs/operations/operations_en.md:36-46` ("no service account
   secret exists for the SARE yet") is what is coded, so the two documents
   disagree as well.
2. **A credential is lost** (`controller.go:291`). The rotation is only asked
   for if the secret was missing at the start of *this* reconcile. If storing
   the answer fails, the retry sees the old secret, does not ask again, and may
   mark the SARE ready with a credential the producer has replaced. The run
   needs no failed call: the spec changes during the first reconcile, the second
   one starts before the cache shows the new secret, rotates again and runs into
   AlreadyExists. `operational_scenarios_en.md:100` guarantees the update.
3. **A missing producer is not shown** (`status_conditions.go:64`). The patch is
   a difference to the cached status; if that is still an earlier
   ProducerNotFound, the patch is empty, and the Ready=True written in between
   stays, without secret and without producer (`operational_scenarios_en.md:53`).
4. **A foreign secret is deleted** (`secret_manager.go:100`). Deletion is by
   name and without precondition; the ownership check was made earlier and on a
   cache (`controller.go:216`: secrets "created for this request").
5. **A migration overwrites a rotated credential** (`controller.go:274`). The
   secret was missing in the cache when the reconcile started, the migration
   secret appeared, and the store, which reads the cache again, updates the
   secret the first reconcile has written meanwhile: the SARE is reported as
   migrated with a credential its producer has replaced.
   `docs/operations/operations_en.md:45` says "never overwritten".
6. **A SAPR without HTTP spec is never reported** (`networkpolicy.go:116`). With
   network policies enabled the upserter dereferences `Spec.HTTP` and panics in
   every reconcile, before `checkReady` would say `InvalidConfiguration`
   (`internal/controller/producer/controller_test.go:185`, where the upserter is
   a mock).
7. **The SAPR controller wakes itself** (`internal/controller/producer/controller.go:119`).
   Every reconcile stamps `lastExecution`, which has a resolution of seconds;
   the unfiltered watch makes that an event. A probe that takes long enough for
   the next second keeps it going, even with the interval 0 that "disables
   periodic reconciliation" (`config.go:47`).

Also seen, without a run:

- `controller.go:219`: if deleting the secret of a missing producer fails, the
  error message dereferences `sapr`, which is nil exactly then. The panic is
  recovered by the framework and the reconcile retried, so that the secret goes
  in the end (`EventuallyWithdrawn`), but no condition says what happened.
- `docs/operations/openapi.yaml:44-48` nests the credentials of an answer to PUT
  in an object `credentials`; `http_client.go:144` decodes a flat map of strings.
- The first select of `waitForGracefulShutdown` does not tolerate
  `context.Canceled`, the second one does; if signal and result arrive together,
  chance decides about the exit code.

## 4. What is proved

For every set of SAREs, producers and secrets, every set of credentials and
every budget (assumptions: `NamesAssumption`, `CredsAssumption`,
`BudgetAssumption`, which say what the constants are and that the owners are
different values):

- `TypeCorrect`: `Spec => []TypeOK`. One lemma per group of actions; the lemmas
  about merge patches (`MergePatchType`, `PatchStatusType`) also say that a
  status patch changes neither phase nor finalizer.
- `AccountsAreReleased`: `Spec => []NoOrphanedAccount`.
- `OperatorImplementsDelivery`: `Spec => ImplementsDelivery`, the refinement.
- `SecretsStayWithTheirOwner`: `Spec => SecretNeverTakenOver`, an action
  property. Only `Store`, the three deletions and `CreateForeignSecret` write
  secrets; `Store` takes effect only if the cached secret it checked is still
  the one on the server.
- `RotationsStayRecorded`: `Spec => LastRotationIsKept`, an action property.
  Every writer keeps or sets `lastRotation` of the copy it starts from
  (`WritersKeepRotation`), so the patch either sets the field or does not
  mention it (`PatchKeepsRotation`), whatever the server holds by then. One
  lemma about patches serves the reconcile, the rotation job and their lost
  answers; users, finalizer updates and restarts do not touch the status.

`NoOrphanedAccount` is not inductive: that the worker is about to PUT says
nothing about the finalizer on the *server*, and that it is about to release
says nothing about the account. `AccountInv` (in `RequestProperties`) adds:

- `FinalizerStays`: a finalizer the cache shows on a live SARE is still on the
  server (a user can only mark it for deletion, and the operator releases only
  after the cache has shown the mark);
- `DeletionStays`: a SARE the cache shows as deleted never comes back;
- `WorkerInv`: from `exists` on, the server's SARE has the finalizer; in the
  deletion calls the cache shows the mark; at `release` the account is gone,
  unless it is being abandoned.

The proof has one step per action. Most actions fall under the lemma `Frame`
(nothing the invariant speaks about changes, and the worker stays in its half of
the reconcile); `Put`, `DeleteAccount`, `AddFinalizer`, `Release`, `SyncSare` and
the changes of a SARE are the ones with content.

The refinement needs to know what the worker carries from one call to the next.
`StoreInv` adds to `TypeOK` and `AccountInv`: at `store` the credential in the
worker's hands is the one the producer accepts *now* (only `Put` and
`DeleteAccount` change an account, and both are the worker's), or the V2
credential of a legacy SARE; in the deletion calls the object is one that is
marked; and at `release` the account is gone or being abandoned. `StepRefines`
then takes each action to its counterpart: the writes of the API server and of
the producer to `Guard`, `End`, `Issue`, `Deliver`, `Restore`, `Withdraw`,
`Revoke`, `Release`; every other action, informers, caches, status patches and
crashes included, to a stutter.

### Once all is quiet

The four invariants about `Quiet` are the heart of an event-driven controller,
and none of them is inductive: they say nothing of the states on the way, where
almost everything may be wrong. Each has an inductive invariant in
`RequestProperties` that says *why* what is wrong now will still be looked at:

> whatever was decided too early is in the queue again, or the reconcile that
> runs has not come to the step that decides it, or a pending event will tell.

- `RotationInv`, for `WatchersFollowSpecs` (`RotationFollowsSpec`): the cache
  shows an earlier spec, and the generation tells which, so that an update that
  `GenerationChangedPredicate` suppresses shows nothing new (`CachedSpec`); up to
  `SetRotation` a reconcile works with the spec the cache shows, or its request
  is queued again; a watcher runs only for a SARE with its finalizer, and agrees
  with the cached spec unless it is still to be decided.
- `WithdrawalInv`, for `CredentialsAreWithdrawn` (`CredentialWithdrawn`): a secret
  without a producer is in the way of a reconcile that comes to `DropSecret`; one
  that found a producer is still right about that, or queued again, because the
  event that takes a producer from the cache queues every request of it.
- `ParamsInv`, for `ParametersArrive` (`ParametersReachProducer`): up to `Put` the
  object of the reconcile is at least as new as the cache, and never newer than
  the server, although the job may refresh the object they share at any time.
- `DeliveryInv`, for `CredentialsAreDelivered` (`CredentialDelivered`): a secret
  the cache or the reconcile believes in is there, or its owner has a *tomb*
  (the watch event of its deletion) pending; `tombs` only lose a name when they
  queue it.

`RotationInv` is a hypothesis of the other three: it knows what the caches show. `RequestSettledProofs` first sorts
all steps by what they move (`Steps`): a few take a request up, set a watcher,
end a SARE, change a spec, update a cache or end the process; *all others* are
`Moves`, of which it is enough to know what they leave alone and how far the
worker gets. Each invariant then has one lemma for `Moves` (its `Frame`) and one
for each kind of step it cares about.

The SAPR controller has its own (`StatusInv` in `ProducerProperties`), for
`StatusSettles` (`SettledStatus`): its patches are relative to a copy that may be
late, so a patch may come to nothing. Either the copy was what the server holds,
and the conditions are right, or cache and server still differ and an event is
on its way: the reconcile's first patch replaces its object by the server's
(`ReconcilesServer`), and only the *unfiltered* watch makes a status patch an
event at all (section 3).

### The process and the types of the SAPR controller

About the process, for every set of settings and any number of failures and
kills (`ProcessAssumption`): `ProcessTypeCorrect`; `SuccessIsEarned`,
`FairSpec => []SuccessMeansStopped`, by `ResultInv`: a manager that has returned
without an error was told to stop, and the process has an exit exactly if it has
exited; and `OnlyConfiguredServes`, the safety half of `ServesIfConfigured`, by `ConfigInv`: past `ReadConfig`, and
whenever there is a manager, every setting has been read.

About the SAPR controller also `ProducerTypeCorrect`, `Spec => []TypeOK`, with one
lemma per group of actions; `PersistTypes` and `RetryTypes` say what a status
patch and an error do to the types, for all the steps that use them.

### Only model-checked

Every safety property of the passing runs is a theorem. What is left to TLC is
liveness, because it needs fairness and ENABLED, which the prover cannot handle:
`DeletionCompletes`, `EventuallyDelivered`, `EventuallyWithdrawn`,
`ShutdownTerminates`, the second half of `ServesIfConfigured`, `EventuallyReady`,
`OutageIsNoticed` and `InvalidSpecIsReportedWithoutPolicies`. The theorems about
`Quiet` are their safety core: a run that stops has stopped in the right place;
that it stops is TLC's. The violated properties of section 3 are
counterexamples and need no proof.

## 5. Not modelled

- **Two operators at a time** (a rollout without leader election): two workers
  with caches of their own do not finish in minutes with any disturbance left.
  What two writers do to one secret is the subject of `SharedSecret.cfg`.
- **PUTs that take effect after the client timeout**: whether an account can
  come into being after the finalizer is gone depends on the producer, of which
  the repository says nothing. The client's view, a call whose answer is lost,
  is modelled.
- **Changes of `spec.secretRef` and `spec.producer`, shared consumers, finalizers
  edited by hand**: the code has no path of its own for them. What follows is
  listed as hazards. A SARE applied again under the name of one that is
  gone is not modelled either.
- **Producers that break their contract**: 204 to a rotation, 404 of a proxy,
  bodies that cannot be decoded (the last is a lost answer).
- **Flags, log level, TLS, cache and webhook options, Helm templates**: read
  once, sequential, nothing over time.
- **The composition of both controllers**: what the SAPR controller does to the
  SARE controller is one event, "got ready", which `ChangeProducer` raises at
  any time, and what the SARE controller does to the SAPR controller is one
  stamp, which `TouchProducer` sets at any time. Each model thus allows more
  than the other does; composing them could only remove behaviours.

## 6. Plan

1. **Proofs about `CredentialDelivery`**: what its promise means for users (no
   consumer holds a credential once its request is gone and its secret
   collected, an account belongs to at most one life of a request), proved there
   and carried to the operator by the refinement.
2. **Algebra of merge patches** as lemmas of `SareStatus`: when a patch is empty,
   when two commute; they say which part of finding 3 any repair must touch.
3. **Safety of network policies**: with policies enabled a `ProducerReady`
   condition follows a policy that was upserted by the same reconcile.
