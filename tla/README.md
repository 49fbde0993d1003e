# Formal model of compass-manager

compass-manager is a Kubernetes controller of the Kyma Control Plane. For every
Kyma custom resource with the module `application-connector` it registers a
runtime in the Compass Director, stores the runtime ID in a
CompassManagerMapping, and writes a Secret with the connection data into the
cluster of the Kyma. When the Kyma is deleted it deregisters the runtime and
removes the mapping.

This directory holds TLA+ modules that model that controller, configurations
with which TLC checks them on small instances, and proofs that TLAPS checks.
Line numbers below are those of `controllers/compassmanager_controller.go`
unless another file is named.

## 1. The system

| Part | State | Operations | Module |
|---|---|---|---|
| `CompassManagerReconciler` | work queue, the call in progress, metric `cm_states` | `Reconcile`, `handleKymaDeletion`, the three helpers that requeue, event filters | `CompassManager`; abstractly `RuntimeLifecycle` |
| `ControlPlaneInterface` | CompassManagerMappings; Kymas and kubeconfig Secrets are only read | `GetKyma`, `GetKubeconfig`, `Get/Create/Upsert/DeleteCompassMapping`, `SetCompassMappingStatus`, `RemoveCMFinalizer` | `ControlPlane` |
| mapping status (`controllers/status`, `api/v1beta1`) | a bit mask in memory; two Booleans and a text in the resource | `StateText`, `Number` | `MappingStatus` |
| `CompassRegistrator` (`registrator.go`) | none | `RegisterInCompass`, `DeregisterFromCompass`, with retries | `CompassManager`, `CompassDirector` |
| `RuntimeAgentConfigurator` (`configurator.go`) | the agent Secret in each Kyma's cluster | `ConfigureCompassRuntimeAgent` | `CompassManager`, `CompassDirector` |
| Director client (`internal/director`), OAuth client, GraphQL client, error types, `util.RetryOnError` | an access token | `CreateRuntime`, `GetRuntime`, `GetConnectionToken`, `DeleteRuntime` | `DirectorClient`; abstractly `DirectorCalls`, `CompassDirector` |
| `DryRunner` (`dryrun.go`) and the two switches of `main.go` | the configuration, the label `cm-dry-run` | the operations of Registrator and Configurator, without a call | `Configuration` |
| metrics (`controllers/metrics`) | gauge per Kyma, counters | `UpdateState`, `Inc...` | gauge in `CompassManager` |
| `main.go` | | start | start and restart in `CompassManager` and `Configuration` |

The parts interact through calls: `Reconcile` calls `ControlPlaneInterface`,
`Registrator` and `Configurator` one after the other; these call the API server,
the Director client and the cluster of the Kyma. Nothing in the manager holds a
lock or a transaction over two calls. The manager keeps no state of its own
between two calls of `Reconcile` but the queue and the access token; everything
else is in the mapping.

What is hard here:

* Reads come from informer caches, writes go to the API server. One call of
  `Reconcile` reads the mapping two or three times and decides on the runtime ID
  of one read and the status of another.
* Only Kymas are watched. A deletion, a label that comes late or a kubeconfig
  that is not there yet must not be forgotten, and the queue is lost in a crash.
* Four stores are written without a transaction: the Director, the mapping's
  labels, its status, and the Secret in the other cluster. Any write can fail, or
  take effect although its caller sees an error; Director calls are retried.
* Users, lifecycle-manager and Kyma Environment Broker create, relabel and delete
  Kymas at any moment of a call.
* The access token is checked before a request and can expire on the way, or be
  revoked while the client still believes in it; an answer can be lost, empty or
  later than the timeout.
* A process can be started with another configuration than the one that wrote
  what it finds: IDs made up in a dry run, mappings made with registration off.

`PROJECT.json` lists these as hazards, each at its line and with the properties
about it.

## 2. The modules

| Module | extends | implements | proofs |
|---|---|---|---|
| `Landscape` | | | |
| `MappingStatus` | | | |
| `ControlPlane` | `Landscape`, `MappingStatus` | | |
| `CompassDirector` | `Landscape` | | |
| `CompassManager` | `ControlPlane`, `CompassDirector` | `RuntimeLifecycle` | `CompassManagerProofs`; on top of it `RuntimeIdentity`, `ReadyProofs`, `LifecycleProofs`, `RequestProofs` |
| `RuntimeLifecycle` | `CompassDirector` | | |
| `Configuration` | `CompassManager` | | `ConfigurationProofs`, on top of `RequestProofs` |
| `DirectorCalls` | `CompassDirector` | | |
| `DirectorClient` | `CompassDirector` | `DirectorCalls` | `DirectorClientProofs`; on top of it `OutcomeProofs` |

* `Landscape`: the constants all modules share (Kymas, accounts, runtime IDs and
  the three "none" values), and the outcomes of a call over the network.
* `MappingStatus`: the bit mask as a set of bits, and both conversions. They are
  not inverse: every mask that is neither processing nor fully configured is
  stored as `Failed`, and read back with the bit `Failed` on.
* `ControlPlane`: variables `kyma`, `kubeconfig`, `mapping`, `mappingCache`. Its
  operations carry the names of the methods they model. `Write` is the rule for
  every write: if the API server accepts it and the outcome says so, it takes
  effect. A write whose mapping has been read before is accepted only when that
  read was up to date (resourceVersion). Delete goes by name, Create needs that
  there is none.
* `CompassDirector`: variables `runtimes` and `agent`. The Director is not in
  the repository; it is modelled from the calls and from how their answers are
  mapped. A runtime belongs to a tenant, and a call in the name of another
  tenant does not find it. A call is one step here, with one of three outcomes.
* `CompassManager`: variables `queue`, `job`, `gauge`, and the counters of the
  three bounds. One action per step of `Reconcile`; the whole of the code between
  two calls that others could observe is one action. `job.pc` says where the call
  is and the other fields of `job` are the local variables still needed.
* `RuntimeLifecycle`: what the reconciler promises, without queue, calls and
  mappings: a runtime is registered for a Kyma without one on record, recorded,
  handed to the agent, deregistered when the Kyma is gone, and then forgotten.
  `CompassManager` implements it with the recorded ID as `record` and the
  deleted Kymas as `gone`.
* `Configuration`: `CompassManager` with the configuration as a variable, read
  at a start and changed by a restart; the `DryRunner`; the label `cm-dry-run`.
  It reuses the actions of `CompassManager`, `CheckStatus` from two instances of
  it, one for each value of `APP_ENABLED_REGISTRATION`.
* `DirectorClient`: variables `token` (what the client believes), `granted` (what
  the OAuth server accepts), `call` (the operation and its loop) and `exchange`
  (the HTTP request on the way). Time passes in ticks.
* `DirectorCalls`: what the reconciler relies on when it calls the client: a call
  is one step of `CompassDirector`, with one of its outcomes. `DirectorClient`
  implements it.
* `MCCompassManager`, `MCConfiguration`, `MCDirectorClient`: the symmetry set for
  TLC and the modules TLC runs.
* `CompassManagerProofs`, `RuntimeIdentity`, `ReadyProofs`, `LifecycleProofs`,
  `RequestProofs`, `ConfigurationProofs`, `DirectorClientProofs`, `OutcomeProofs`:
  proofs, see section 5.

From code to actions:

| Code | Action |
|---|---|
| `Reconcile` up to the first write or decision on a second read (126-177), `handleKymaDeletion` up to the Director (209-231) | `Reconcile(k)` |
| `makeNewCompassMappingAndRequeue` | `makeNewCompassMappingAndRequeue` |
| second read of the mapping and what follows from its status (179-207) | `CheckStatus` |
| `setStatusAndRequeue` and the two other uses of `SetCompassMappingStatus` | `SetStatus` |
| `RegisterInCompass`, one attempt | `RegisterInCompass` |
| the rest of `registerRuntimeInCompassAndRequeue` | `UpsertMapping` |
| `fetchCompassToken`, one attempt; `upsertCompassRuntimeAgentSecret` | `FetchCompassToken`, `UpsertAgentSecret` |
| `DeregisterFromCompass`, one attempt | `DeregisterFromCompass` |
| `DeleteCompassMapping`: its read, `RemoveCMFinalizer`, its Delete | `ReadMapping`, `RemoveFinalizer`, `DeleteCompassMapping` |
| event filters | `CreateKyma`, `UpdateKyma`, `DeleteKyma` enqueue through them |
| process start (`main.go`) | `Init`, `Restart`; `ConfigInit`, `RestartWith` |
| `dryrun.go` | `DryRegisterInCompass`, `DryConfigureCompassRuntimeAgent`, `DryDeregisterFromCompass` |
| a call of the client by Registrator or Configurator, `util.RetryOnError` | `Operation`, `Wake` |
| `executeDirectorGraphQLCall` (`directorclient.go:177`) up to the request | `executeDirectorGraphQLCall` |
| `getToken`, `GetAuthorizationToken` | `getToken`, `NoTokenObtained` |
| a request at the Director | `DirectorCreates`, `DirectorDeletes`, `DirectorIssuesToken`, `DirectorRefuses` |
| what each operation makes of its answer (`directorclient.go:50-161`, 189-234) | `ReceiveAnswer` |
| `Do` (`internal/graphql/client.go`) when the connection breaks or the timeout is over | `Do` |

### Decisions of the model

* **One worker.** `MaxConcurrentReconciles` is left at its default 1.
* **Queue.** A set: controller-runtime keeps a name once, whether ready, delayed
  or failed. Delays are not modelled: a request that waits for its delay can be
  taken at any time. While a call runs, its Kyma can be put in the queue again.
* **First reads in one step.** Kymas, Secrets and mappings come from three
  caches that move independently, so reading them one after the other shows
  nothing that reading them at once cannot show. If one of these reads fails, the
  request comes back and nothing has changed: a stuttering step.
* **Read and write in one step.** `SetCompassMappingStatus`,
  `RemoveCMFinalizer`, `UpsertCompassMapping` read and then write. Between the two
  only others can change the API server's mapping, and then the write is refused,
  which is the step with a stale cache. A read that fails is the outcome "failed".
  `UpsertCompassMapping` and `CreateCompassMapping` read the Kyma first (lines 537 and
  582). What happens to the Kyma between that read and the write neither reads nor
  writes mappings, and the write does not look at the Kyma again, so the two orders
  lead to the same state, and the model has the one in which the write comes first.
* **Mappings by name.** `GetCompassMapping` lists by the label `kyma-name` and takes
  the first item (lines 446-464). The model indexes mappings by Kyma: each Kyma's
  label is its name, and two mappings for one label cannot arise, because a mapping
  is named after its Kyma, too. What would follow from other labels is not covered.
* **Label of the ID.** The comment at line 607 says that `GetCompassRuntimeID` returns
  `errNotFound` when the mapping has no such label; the code returns the empty ID, and
  so does the model. Both Create and Upsert set the label, so nothing depends on it.
* **Stale reads.** Comparing the cached mapping with the stored one stands for
  comparing resourceVersions. A mapping that has changed and changed back would be
  taken for unchanged; the write then leaves what it would have left anyway.
* **Cache.** `mappingCache` follows every write at once, or, with the
  disturbance `cacheLag`, in a step of its own that jumps to the latest mapping.
  A watch delivers the changes one by one. An update by the manager needs an
  up-to-date cache, so the cache is rarely behind by more than one change, and
  what the worker sees in an intermediate mapping it mostly sees by catching up
  before the next change. The exception is the end of a mapping (finalizer
  removed, then deleted, then perhaps created anew): reads of the intermediate
  mapping at that point are not explored. `kyma` is the Kyma as the cache shows
  it, and events are those of that cache.
* **Outcomes.** "ok", "lost" (took effect, caller sees an error) and "failed". In
  `RegisterInCompass` all attempts of a call send one random name, so after an
  effective attempt the Director may refuse the next as not unique. Across calls
  names are taken to be different. "invalid" in `FetchCompassToken` is a
  kubeconfig, token or connector URL that is refused without another attempt.
  `CompassManager` assumes these outcomes; `CallsAreOutcomes` of
  `DirectorClient` shows that the client has no others.
* **Restart.** Crash and start are one step; what happens while the manager is
  down is in the order "change, then restart": the event is lost with the queue.
* **Time in `DirectorClient`.** An instant is the number of ticks until it comes.
  A request ends after `Timeout` ticks at the latest. The client takes the time
  before it asks for a token, so what is left for it is the lifetime minus the age
  of the exchange; the server counts from the moment it issued the token.
* **The Director acts before its caller gives up, or never.** A request that is
  carried out after its client has timed out (and may already have sent the next
  one) is not explored.
* **Answers.** An answer is a result, an error of one of the twelve kinds the code
  tells apart, JSON with neither, or nothing that can be read. The Director may
  refuse anything for a reason of its own, and any answer can be spoiled or lost;
  but it answers "not found" and "not unique" only when that is so. When
  `DeleteRuntime` is refused, `Do` fails to read the error code (it expects an
  integer where JSON gives a float, `internal/graphql/client.go:69`) and joins an
  error of its own to that of the Director; the code is read again, as a float,
  by `mapDirectorErrorToProvisionerError`, so the outcome is the same.
* **GetRuntime** has no caller in the manager; it is shown in the same loop as
  the operations that have one. `RefreshCompassToken` of Registrator has none
  either; Configurator has its own copy (`fetchCompassToken`).
* **Dry run.** The made-up UUIDs are a set of IDs of their own, `DryIDs`, that
  the Director never issues. `DryRunner` makes a new one each time; in the model they
  may repeat, so that a small set never stops the worker. The label `cm-dry-run` is written with every Create
  and Upsert and never read.
* **Left out.** Namespaces, names of the broker labels, the token's text, logs,
  counters of actions, runtimes deleted in the Director by others, a Kyma whose
  label `kyma-name` is not its name, a `global-account-id` that is present and
  empty, Kubernetes finalizers of Kymas (a Kyma under deletion is present until
  it is gone).

### Bounds

`MaxFaults`, `MaxRestarts`, `MaxChanges` bound what goes wrong, how often the
manager crashes and what others do. `RuntimeIDs` bounds the registrations; when
they are used up the Director refuses. `Attempts` is 2 instead of 3, which has a
first and a last attempt; it is 1 in `deletion` and `idempotence`, where every
failure is one that the caller sees. `Timeout`, `Interval` and `Lifetime` of
`DirectorClient` are 1, 1 and 3 ticks: a request can be answered at once or
late, and a token can outlive two requests or expire on the way of one.
`Disturbances` chooses which of four complications an instance has:

| | |
|---|---|
| `cacheLag` | the mapping cache is behind |
| `accountMove` | the global account of a Kyma changes |
| `lateLabel` | a Kyma is created without the label |
| `recreate` | a Kyma is created under the name of a deleted one |

The properties do not all hold under all of them, and which of them breaks which
property is part of the result (section 4).

## 3. Properties

Safety (`CompassManager`):

* `TypeOK`: the one type invariant.
* `ReadyIsUsable`: a mapping with `configured` records a runtime of this Kyma, the
  agent has exactly that ID and the tenant of that runtime, and the runtime is
  registered while the Kyma exists. It relates three stores that are written in
  different calls of `Reconcile`.
* `RegisteredHasID`: no mapping is `registered` before it has an ID.
* `RuntimeBelongsToKyma`: no runtime is recorded for, or handed to, another Kyma.
* `FinalizerGuardsRuntime`: a mapping that records a registered runtime has its
  finalizer.
* `RecordedRuntimeReleased` (action property): an ID leaves its mapping only when
  the Director no longer has the runtime.
* `RuntimesFollowLifecycle` (refinement): every step is one of `RuntimeLifecycle`
  or changes nothing in it. A runtime is not deregistered while its Kyma lives,
  nothing is registered for a Kyma that has a runtime on record, and an agent is
  only given the recorded runtime, under the tenant it was registered for.
* `NoLostDeletion`: while a deleted Kyma has a mapping, its request is queued or
  the worker is in one of the steps that clean up after it. A worker that is busy
  with the Kyma in any other way would end without deleting the mapping, and does
  not count.
* `OnlyCrashesForget` (action property): the same for a manager that crashes. A
  restart can forget a cleanup (section 4); no other step does.
* `NoLostRegistration`: a Kyma with the module and the label is in the queue or
  being worked on until its mapping says Ready.
* `AgentsAreNotCutOff` (action property): no step deregisters a runtime that an agent
  works with, but that of a deleted Kyma. The worker holds the ID to deregister for
  any number of attempts, in which the Kyma can come back with a new cluster, and
  the ID may come from an old copy of the mapping.
* `StatusReadsBack`: a status that the worker is about to store will be read back
  as it was set. Seven of the sixteen bit masks would not be.

Safety (`Configuration`):

* `ConfigTypeOK`: the types, with the configuration and the dry-run label.
* `AgentsHaveIssuedIDs`: whatever ID a mapping holds (none while registration is
  off, one made up in a dry run), an agent is only given an ID that the Director
  has issued for its Kyma, with the tenant it was issued under.
* `DryLabelMarksDryIDs`: a mapping with an ID has the label `cm-dry-run` exactly
  if the ID was made up, whoever created the mapping.

Safety (`DirectorClient`):

* `ClientTypeOK`: the types, including the bounds of all clocks.
* `ExpiryCostsOneAttempt`: after a request that came with an expired token, the
  next one comes with a token that has not expired.
* `CallsAreOutcomes` (refinement): each attempt is, for its caller, one step of
  `DirectorCalls`. Success is reported only when the Director has done what was
  asked or had done it before.

Liveness:

* `EventuallyDeregistered` (`CompassManager`): the mapping of a Kyma that stays
  deleted goes away.
* `EventuallyReadyOnceEnabled` (`Configuration`): a Kyma that from some point on
  keeps the module, its label and its kubeconfig, under a process that registers,
  with no ID left from a dry run and a runtime ID still to be had from the
  Director of the model, becomes Ready and stays so.
* `OperationEnds` (`DirectorClient`): every operation returns. The fairness of
  the worker rests on it.
* `LockoutEnds` (`DirectorClient`): a revoked token is replaced in the end, unless
  an operation has succeeded and nothing is called again.

**Fairness.**

* `Fairness` of `CompassManager`. `WF(Worker)`: the goroutine of the worker goes
  on until `Reconcile` returns; each of its calls ends, with an error if need be
  (`OperationEnds` for those to the Director). `SF(Reconcile(k))`: between two
  requests the worker is idle again and again, and the queue gives out a request
  that is always there in the end; weak fairness would not do, since the action
  is disabled while the worker is busy with another Kyma. `WF(CatchUp(k))`: a
  watch is not behind for ever. There is no fairness on `Restart`, `ReadFails` or
  anything others do, nor on the outcome of a call beyond `MaxFaults`: only
  finitely many calls fail.
* `ConfigFairness` of `Configuration`: the same for the worker, the queue and the
  watch. A restart is never forced.
* `ClientFairness` of `DirectorClient`. Time passes (`SF(Tick)`: strong, because a
  request at its timeout stops the clock of the model until it is given up); the
  loop goes on (`WF` on the start of a request, on `Wake` and on `Do(FALSE)`, the
  timeout); an operation that failed is called again, because its request is
  requeued; of infinitely many token requests one succeeds (`SF(getToken)`).
  Nothing is assumed of the Director: it may never answer. `OperationEnds` uses
  only the first two.

## 4. Runs

Passing runs:

| Run | Instance | Shows |
|---|---|---|
| `stale_reads` | 1 Kyma, 2 accounts, 2 IDs; lag, moved and late labels; 2 faults, 1 restart, 4 changes | `TypeOK`, `ReadyIsUsable`, `RegisteredHasID`, `StatusReadsBack` |
| `two_kymas` | 2 Kymas, 2 IDs; recreate; 1 fault, 3 changes | `NoLostDeletion`, `RuntimeBelongsToKyma`, `AgentsAreNotCutOff` |
| `release` | 1 Kyma, 1 account, 2 IDs; late label; 3 faults, 1 restart, 4 changes | `FinalizerGuardsRuntime`, `RecordedRuntimeReleased`, `RuntimesFollowLifecycle`, `OnlyCrashesForget` |
| `ready` | 1 Kyma, 3 IDs and 1 made-up one; lag; any configuration at each start; 1 fault, 1 restart, 2 changes | `NoLostRegistration`, `ConfigTypeOK`, `AgentsHaveIssuedIDs`, `DryLabelMarksDryIDs`, `EventuallyReadyOnceEnabled` |
| `deletion` | 2 Kymas, 2 IDs; 1 attempt, 1 fault, 2 changes | `EventuallyDeregistered` |
| `director_client` | 1 Kyma, 2 IDs; 2 attempts; timeout 1, pause 1, lifetime 3 ticks; any number of operations, failures and revocations | `ClientTypeOK`, `ExpiryCostsOneAttempt`, `CallsAreOutcomes`, `OperationEnds`, `LockoutEnds` |

Why these bounds are enough to be interesting: two attempts with two or three
faults make a call fail for good and let a later step fail, too; two IDs allow a
second registration after a lost one (`ready` has one more than a lost answer and
a crash can use up); four changes are a late
label or a moved account, a deletion by a user, the deletion of the Kyma and its
return. `deletion` has two Kymas, because the deletion must get its turn while
the worker is busy with the other one. In `ready` the one restart leads from any
of the four configurations to any other, with whatever mapping the first process
left behind. `director_client` has no bound on operations: IDs once used up, the
Director refuses, and time is relative, so the state space is finite.

`CHECK_DEADLOCK FALSE` in the runs of the reconciler: with an empty queue and all
bounds used up the manager waits, as it should. `director_client` checks that the
client never stops.

What the passing runs do *not* claim:

* `ReadyIsUsable` and `EventuallyReadyOnceEnabled` do not hold with `recreate`: a
  mapping that is left over has the ID of a runtime that was deregistered, the ID
  is not empty, and so the new Kyma is not registered (line 196).
* For the same reason a Kyma whose mapping has an ID from a dry run is never
  connected by a later process: `EventuallyReadyOnceEnabled` supposes that there
  is none.
* `RecordedRuntimeReleased`, `RuntimesFollowLifecycle`, `NoLostDeletion` and
  `OnlyCrashesForget` need up-to-date reads, the first two a label that does not
  move; `NoLostDeletion` and `EventuallyDeregistered` need that the manager does not
  crash. The next table shows why. With `cacheLag` alone, without a failed call,
  TLC finds that `RegistrationIsIdempotent` and `RecordedRuntimeReleased` are
  violated: `CheckStatus` sees the mapping as it was before the ID was recorded, the
  Kyma is registered again, and when the cache has caught up Upsert replaces the
  first ID by the second. The first runtime stays registered and nothing refers to it.
* The type invariants catch an attempt too many, not one too few.
* The part of `AgentsHaveIssuedIDs` about moved accounts is covered by the theorem
  `AgentsGetIssuedIDs` only: `ready` has one account.
* `NoLostRegistration` does not hold with `lateLabel`, which is the run `late_label`
  below, nor with `recreate`: when the finalizer has been removed and the Delete has
  failed, a Kyma that comes back gets the mapping that is left. It becomes Ready,
  but nothing adds the finalizer again, and when a user deletes the mapping, nothing
  brings the request back.
* `EventuallyReadyOnceEnabled` is not checked with `accountMove`. With a moved account
  the Director no longer finds the runtime (lines 265 and 545 read the label at
  different times), so it does not hold.

Runs that refute what the repository says of the program:

| Run | The repository says | What happens |
|---|---|---|
| `idempotence` | "RegisterInCompass creates Runtime in the Compass system. It must be idempotent." (line 72) | the answer of an effective registration is lost; the next one has a new random name (`registrator.go:80`) and makes a second runtime |
| `late_label` | "When Kyma with the Application Connector module is created, it registers Kyma runtime in the Compass Director" (`README.md:79`) | without the label, line 171 wraps a nil error: the request ends silently, and setting the label passes no event filter |
| `missed_deletion` | "After successful runtime registration when user delete Kyma resource / the runtime should be deregister from Compass System" (`compassmanager_controller_test.go:91-92`) | the Kyma is deleted while the manager is down, or its cleanup was queued when it went down: nothing brings it back |
| `late_deletion` | the same | the Kyma is deleted between registration and Upsert: the ID is lost (lines 284, 537) |
| `stale_deletion` | the same | the ID to deregister (line 222) is read before the cache catches up and the finalizer (line 496) after: the mapping goes, the runtime stays |
| `gauge` | "Indicates the Status.state for Compass Mappings" (`metrics.go:31`) | lines 271 and 299 store `Failed` without updating the metric |

`DeregisteredBeforeForgotten`, the property of `stale_deletion`, is also violated
with `accountMove` instead of `cacheLag`: the runtime is registered for the
account read first, recorded under the one read at line 545, and the
deregistration in the name of the latter ends in NotFound, which counts as
success (`directorclient.go:143`).

The liveness runs among these are checked under `FairSpec`, so the manager does
not merely stop.

## 5. Proofs

TLAPS proves, for all values of the constants under the named assumptions of the
modules (`LandscapeAssumption`, `DisturbancesAssumption`, `ManagerAssumption`,
`ClientAssumption`, and where it is named `LifetimeAssumption`):

* `CompassManagerProofs!TypeCorrect`: `Spec => []TypeOK`. One lemma per action,
  on top of lemmas about the records and the helpers (`Return`, `GoOn`, `Write`,
  `UpdateState`, ...).
* `RuntimeIdentity!RegisteredMappingHasID`: `Spec => []RegisteredHasID`.
  `RegisteredHasID` is not inductive: that `SetStatus` stores `registered` depends
  on what the worker has read several steps before. `RecordInv` adds (a) for the
  API server's and the cached copy of each mapping (`CopyInv`): if the cached copy
  has an ID, the mapping, if it still exists, has one; and both satisfy the
  property; (b) for the job (`JobInv`): if the worker believes that there is a
  runtime, the mapping, if it exists, has an ID. (a) and (b) survive because an ID
  once recorded is only replaced by another ID, and because a mapping is created
  with an empty ID only by a worker that holds no such belief.
* `RuntimeIdentity!RuntimesAreNotShared`: `Spec => []RuntimeBelongsToKyma`. The
  invariant `OwnerInv` says the same of the cached mapping and of the ID in the
  job, and that an unused ID belongs to nobody.
* `ReadyProofs!ReadyIsBelievable`: `Spec => []ReadyIsUsable`, under `NoNameTwice`:
  registration is on and there is no `recreate`. The stores the property relates
  are written in different calls, so `ReadyInv` says, of the mapping and its copy
  in the cache (`PairFits`), that they agree on the ID once one of them claims to
  be registered, that `configured` is never without `registered` and never without
  an agent that has the recorded runtime in its own tenant, and that only the
  mapping of a deleted Kyma loses its finalizer; and of the worker (`Seen`), that
  it records an ID only while no copy claims to be registered, that the ID it
  hands to the agent is the recorded one, and that it stores `configured` only for
  an agent that works. `cacheLag` and `accountMove` do no harm, because a write on
  top of an old read is refused and because token and Secret use one read of the
  account.
* `LifecycleProofs`: `FinalizerGuards`, `ReconcilerImplementsLifecycle` and
  `RecordedRuntimesAreReleased`, that is, `Spec` implies `[]FinalizerGuardsRuntime`,
  `RuntimesFollowLifecycle` and `RecordedRuntimeReleased`, under `Undisturbed`: no
  `cacheLag`, `accountMove` or `recreate`. All three come from one invariant,
  `LifeInv`. `Recorded` says what a mapping may say of the runtime of its Kyma: a
  recorded runtime was registered for it under the recorded account, it is
  registered while the Kyma exists, and a mapping without finalizer is that of a
  deleted Kyma and records no registered runtime. `JobFits` says that what the
  worker has read some steps ago still agrees with the mapping: in particular that
  it holds an ID to record only while none is on record, and removes a finalizer
  only when the runtime is gone. The refinement then takes one lemma per step of
  the worker that `RuntimeLifecycle` sees.
* `CompassManagerProofs!StatusesThatReadBack` says which of the sixteen statuses
  survive `StateText` and `Number`: those with exactly one of `Processing` and
  `Failed`, and `Registered` with `Configured`. `StatusesAreReadBack`,
  `Spec => []StatusReadsBack`, follows: every status a step sets is one of these.
* `RequestProofs` is about the requests in the queue.
  * `RegistrationIsNotLost`: `Spec => []NoLostRegistration`, under `NamesUsedOnce` (no
    `recreate`) and `LabelsComeFirst` (no `lateLabel`). Each result of `Reconcile`
    brings the request back, is about a Kyma that is gone, or leaves the mapping
    Ready; that the worker only deletes for a Kyma that is gone (`KeyInv`) and that a
    mapping loses its finalizer only then (`WantedInv`) makes the other exits
    harmless, and keeps a Ready mapping from disappearing.
  * `AgentsKeepTheirRuntimes`: `Spec => AgentsAreNotCutOff`. The ID that the worker
    deregisters belongs to the Kyma of its request, and so does the ID each agent has
    (`OwnerInv` of `RuntimeIdentity`); and while the worker is in a deletion, that
    Kyma is gone or its cluster has no agent yet (`CutInv`). The second half is for a
    Kyma that comes back: only the worker writes agents, and it is busy. That a
    deletion starts only for a Kyma that is gone needs `AbsentIsIdle`: the worker
    has nothing to do with a Kyma that was never there.
  * `DeletionIsNotLost`: `Spec => []NoLostDeletion`, under `UpToDate` (no `cacheLag`)
    and `MaxRestarts = 0`, and `OnlyRestartsForgetDeletions`:
    `Spec => OnlyCrashesForget`, under `UpToDate`. Both come from `DeletionInv(S)`: no
    cleanup after a Kyma of the set S has been forgotten, the cache shows what is
    stored, and what the worker has seen of the mapping it removes is still so
    (`DeletionFits`: its last step ends without a requeue only when the mapping is
    gone). No step but a restart leaves it, for any S. The first theorem takes all
    Kymas for S, the second in each step those that have not been forgotten yet.
* `ConfigurationProofs` repeats nothing of this: `Configuration` takes its steps from
  `CompassManager`, so it uses the lemmas on those steps. `ConfiguredCheckStatus` says
  what the two instances of `CheckStatus` have in common, and the three steps of the
  dry run and the restart with another configuration are new.
  * `ConfigTypeCorrect`: `ConfigSpec => []ConfigTypeOK`.
  * `AgentsGetIssuedIDs`: `ConfigSpec => []AgentsHaveIssuedIDs`. Whatever ID and
    account the worker holds, at the step that writes the Secret it is a pair the
    Director has issued a token for (`IssuedInv`), and the Kyma and the tenant of a
    runtime never change.
  * `DryLabelIsRight`: `ConfigSpec => []DryLabelMarksDryIDs`. `LabelInv` follows an ID
    from where it is made to where it is written: that is within one process, so the
    label is written under the configuration that made the ID.
  * `ConfiguredRegistrationIsNotLost` and `ConfiguredAgentsKeepTheirRuntimes`:
    `ConfigSpec` implies `[]NoLostRegistration`, under the assumptions above, and
    `AgentsAreNotCutOff`, with registration switched off and dry runs included.
* `DirectorClientProofs`: `ClientTypeCorrect` (the clocks stay within their bounds
  because nothing ticks past its timeout) and `ExpiryIsSurvived`, that is,
  `ClientSpec => []ExpiryCostsOneAttempt`. The invariant `ClientInv` adds that the
  client never believes in a token for longer than the server (`NeverOverrated`)
  and follows an expired token through the loop (`ExpiredIsReplaced`): after the
  refused request the pause of at least a tick makes it expired for the client,
  too. It needs `LifetimeAssumption`: a token lives for longer than two timeouts,
  that is, 60 s; otherwise a token could expire between being obtained and used.

* `OutcomeProofs!ClientImplementsCalls`: `ClientSpec => CallsAreOutcomes`, the
  refinement on which the three outcomes of `CompassManager` rest, if there is a
  runtime ID at all. `OutcomeInv` says what the Director has done when an answer is
  on the way (`AnswerFits`: it created or deleted the runtime of this operation, or
  nothing) and that an answer which can pass for success tells so; a "not found"
  is an answer only where the Director does not find the runtime. Until its caller
  knows, the abstract Director is the one before the request, so a failure is the
  outcome "lost" where something was done and "failed" elsewhere.

The assumptions are needed. Without `Undisturbed` TLC finds the behaviours of
`stale_deletion` (with `cacheLag` or `accountMove`). Without `MaxRestarts = 0`
`NoLostDeletion` fails as `missed_deletion` does, and without `UpToDate` because a
deletion does not find a mapping that was created a moment ago. Without
`LabelsComeFirst` a Kyma is forgotten at line 171. `recreate` brings back a Kyma
whose mapping records a runtime that is gone (line 196) or has lost its finalizer
already (line 496), and with registration off an empty ID is marked as
registered (line 205); hence `NamesUsedOnce`, and `NoNameTwice` for both.
`TypeCorrect`, `ConfigTypeCorrect`, `StatusesAreReadBack`, `RuntimesAreNotShared`,
`AgentsKeepTheirRuntimes`, `ConfiguredAgentsKeepTheirRuntimes`, `AgentsGetIssuedIDs`
and `DryLabelIsRight` hold without an assumption of this kind,
`RegisteredMappingHasID` where registration is on. All hold for any number of
Kymas, attempts, faults and changes, and all but `DeletionIsNotLost` for any
number of restarts.

The runs check the properties on small instances. TLC has checked the invariants
of the proofs, too, on the instances of the runs with the disturbances that their
theorems allow.

Every safety property and action property of the passing runs is proved. Only
model-checked are the four liveness properties: liveness under fairness, and
anything with `ENABLED`, is out of reach of the prover. There is no recursion in
the modules.

## 6. Not modelled

* **Two managers at once.** `main.go:84` has leader election off by default, and
  the manifest `config/manager/manager.yaml:35` switches it on; the model has one
  manager.
* **A Kyma whose label `kyma-name` is not its name.** Mappings are found by that
  label (line 588). lifecycle-manager and the broker set it to the name; the model
  takes the two to be equal.
* **A deletion that finds no mapping because the cache is behind** is in the model
  (`cacheLag`), but no property claims that it is not lost, because it can be.
* **Counters of actions** (`metrics.go`): nothing reads them and no decision
  depends on them. The rest of `main.go` (flags, TLS, health checks) is wiring.
* **Error presenter** (`internal/apperrors/presenter.go`): wording, without a
  caller in the manager.
* **The vendored GraphQL transport** (`third_party/machinebox/graphql`): pure I/O;
  how a request ends in it is what `DirectorClient` lets happen.
* **The generated schema and deep copies** (`pkg/gqlschema`,
  `zz_generated.deepcopy.go`) and **the manifests**: data, no behaviour.

What could come next, in this order: two managers that share the control plane and
the Director; a Director that carries out a request after its client has given it
up.
