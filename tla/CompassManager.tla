---------------------------- MODULE CompassManager ----------------------------
(***************************************************************************)
(* The reconciler of compass-manager (CompassManagerReconciler) working on *)
(* the control plane and the Compass Director.                             *)
(*                                                                         *)
(* One worker takes Kyma names from a work queue.  A call of Reconcile is  *)
(* a sequence of steps, one per read of the mapping that a later decision  *)
(* depends on, per call of the Director and per write, because the rest of *)
(* the world can act between them.  The variable job holds where the call  *)
(* is and the local variables it still needs.                              *)
(***************************************************************************)
EXTENDS Naturals, ControlPlane, CompassDirector

CONSTANTS
  Attempts,             \* tries of a Director call (registrator.go: attempts)
  EnabledRegistration,  \* APP_ENABLED_REGISTRATION
  MaxFaults,            \* bound: calls that fail or whose answer is lost
  MaxRestarts,          \* bound: crashes of the manager
  MaxChanges            \* bound: what users and other controllers do

ASSUME ManagerAssumption ==
  /\ Attempts \in Nat \ {0}
  /\ EnabledRegistration \in BOOLEAN
  /\ MaxFaults   \in Nat
  /\ MaxRestarts \in Nat
  /\ MaxChanges  \in Nat

VARIABLES
  queue,     \* work queue: names that are ready or wait for their delay
  job,       \* the call of Reconcile the worker executes
  gauge,     \* metric cm_states: the state shown for each Kyma, if any
  faults,    \* counters for the three bounds
  restarts,
  changes

mgrVars   == <<queue, job, gauge>>
boundVars == <<faults, restarts, changes>>
vars == <<kyma, kubeconfig, mapping, mappingCache, runtimes, agent,
          queue, job, gauge, faults, restarts, changes>>

Steps == {"idle", "createMapping", "checkStatus", "setStatus", "register",
          "upsertMapping", "fetchToken", "writeSecret", "deregister",
          "readMapping", "removeFinalizer", "deleteMapping"}

Job ==
  [pc          : Steps,
   key         : Kymas \cup {NoKyma},  \* req.Name
   id          : RuntimeLabel,         \* compassRuntimeID
   account     : AccountLabel,         \* globalAccount
   goal        : Status,               \* the status to set
   attempt     : 0..(Attempts - 1),    \* i of RetryOnError
   taken       : BOOLEAN,              \* the Director has the random name
   terminating : BOOLEAN]              \* mapping.DeletionTimestamp # nil

Idle ==
  [pc |-> "idle", key |-> NoKyma, id |-> NoID, account |-> NoAccount,
   goal |-> Empty, attempt |-> 0, taken |-> FALSE, terminating |-> FALSE]

WorkTypeOK ==
  /\ queue \in SUBSET Kymas
  /\ job   \in Job
  /\ job.key = NoKyma <=> job = Idle

\* The one type invariant: every variable of the system has its type.
TypeOK ==
  /\ CPTypeOK
  /\ DirTypeOK
  /\ WorkTypeOK
  /\ gauge    \in [Kymas -> StateTexts]
  /\ faults   \in 0..MaxFaults
  /\ restarts \in 0..MaxRestarts
  /\ changes  \in 0..MaxChanges

-----------------------------------------------------------------------------
(***************************************************************************)
(* Event filters of SetupWithManager.                                      *)
(***************************************************************************)
CreateFunc(c) == c.phase = "present" /\ c.module

UpdateFunc(old, new) == ~old.module /\ new.module

\* Mutant: deletions are filtered out.
DeleteFuncFalse(c) == FALSE

DeleteFunc(c) == TRUE

Enqueue(k, passes) == queue' = IF passes THEN queue \cup {k} ELSE queue

\* A manager that starts sees every Kyma there is as created.
Relisted == { k \in Kymas : CreateFunc(kyma[k]) }

\* The registry of a process that starts shows nothing.
NewMetrics == [k \in Kymas |-> NoState]

Init ==
  /\ CPInit
  /\ DirInit
  /\ queue    = Relisted
  /\ job      = Idle
  /\ gauge    = NewMetrics
  /\ faults   = 0
  /\ restarts = 0
  /\ changes  = 0

-----------------------------------------------------------------------------
(***************************************************************************)
(* Helpers of the steps.                                                   *)
(***************************************************************************)
\* A call that fails, or whose answer is lost, uses up one of MaxFaults.
Spend(o) ==
  /\ o # "ok" => faults < MaxFaults
  /\ faults' = IF o = "ok" THEN faults ELSE faults + 1

\* Reconcile returns: with an error, Requeue or RequeueAfter, or for good.
Return(requeue) ==
  /\ job' = Idle
  /\ queue' = IF requeue THEN queue \cup {job.key} ELSE queue

GoOn(j) == job' = j /\ UNCHANGED queue

At(step) == job.pc = step

UpdateState(k, status) ==
  gauge' = [gauge EXCEPT ![k] = IF status = Empty THEN NoState
                                ELSE StateText(status)]

\* Mutant: one attempt more than the bound.
LastAttemptOffByOne(n) == n = Attempts

\* RetryOnError gives up after this attempt.
LastAttempt(n) == n + 1 = Attempts

\* The call failed: it is made again, or the caller goes on with the error.
RetryOnError(again, giveUp) ==
  IF LastAttempt(job.attempt)
  THEN giveUp
  ELSE GoOn([again EXCEPT !.attempt = @ + 1])

SettingStatus(status) ==
  [Idle EXCEPT !.pc = "setStatus", !.key = job.key, !.goal = status]

-----------------------------------------------------------------------------
(***************************************************************************)
(* Reconcile up to its first decision.  The reads of the Kyma, of its      *)
(* kubeconfig and of the mapping are of three independent caches, so they  *)
(* are one step.                                                           *)
(***************************************************************************)
Start(k, step, id, account) ==
  /\ job' = [Idle EXCEPT !.pc = step, !.key = k, !.id = id, !.account = account]
  /\ queue' = queue \ {k}

Drop(k) == queue' = queue \ {k} /\ UNCHANGED job

\* handleKymaDeletion, up to the call of the Director.
handleKymaDeletion(k) ==
  LET m == GetCompassMapping(k)
  IN \/ ~m.exists /\ Drop(k)
     \/ m.exists /\ m.id # NoID /\ Start(k, "deregister", m.id, m.account)
     \/ m.exists /\ m.id = NoID /\ Start(k, "readMapping", NoID, NoAccount)

\* Mutant: the request is forgotten when there is no kubeconfig yet.
ForgetKubeconfig(k) == ~kubeconfig[k] /\ Drop(k)

\* RequeueAfter requeueTimeForKubeconfig: the request stays in the queue.
AwaitKubeconfig(k) == ~kubeconfig[k] /\ UNCHANGED <<queue, job>>

\* errors.Wrap(nil, ...) is nil: the request ends without error or requeue.
NoGlobalAccount(k) ==
  kubeconfig[k] /\ kyma[k].account = NoAccount /\ Drop(k)

Reconcile(k) ==
  /\ job = Idle
  /\ k \in queue
  /\ \/ ~Present(k) /\ handleKymaDeletion(k)
     \/ Present(k) /\ AwaitKubeconfig(k)
     \/ Present(k) /\ NoGlobalAccount(k)
     \/ /\ Present(k) /\ kubeconfig[k] /\ kyma[k].account # NoAccount
        /\ ~GetCompassMapping(k).exists
        /\ Start(k, "createMapping", NoID, NoAccount)
     \/ /\ Present(k) /\ kubeconfig[k] /\ kyma[k].account # NoAccount
        /\ GetCompassMapping(k).exists
        /\ Start(k, "checkStatus", GetCompassRuntimeID(k), kyma[k].account)
  /\ UNCHANGED <<cpVars, dirVars, gauge, boundVars>>

\* An error, Requeue and RequeueAfter all bring the request back.
makeNewCompassMappingAndRequeue(o) ==
  /\ At("createMapping")
  /\ CreateCompassMapping(job.key, o)
  /\ Return(TRUE)
  /\ Spend(o)
  /\ UNCHANGED <<dirVars, gauge, restarts, changes>>

(***************************************************************************)
(* The second read of the mapping, and what its status calls for.  The     *)
(* runtime ID is still the one of the first read.                          *)
(***************************************************************************)
\* Mutant: the flag is read the wrong way round.
NeedsRegistrationInverted(id) == id = NoID /\ ~EnabledRegistration

\* Mutant: the ID on record is not looked at.
NeedsRegistrationAgain(id) == EnabledRegistration

NeedsRegistration(id) == id = NoID /\ EnabledRegistration

CheckStatus ==
  LET m      == GetCompassMapping(job.key)
      status == Number(m.status)
      inUse  == m.exists /\ status # Empty /\ ~(Failed \subseteq status)
  IN /\ At("checkStatus")
     /\ \/ /\ ~m.exists
           /\ Return(TRUE)
           /\ UNCHANGED gauge
        \/ /\ m.exists /\ status = Empty
           /\ GoOn(SettingStatus(Processing))
           /\ UNCHANGED gauge
        \/ /\ m.exists /\ Failed \subseteq status
           /\ GoOn(SettingStatus((status \ Failed) \cup Processing))
           /\ UNCHANGED gauge
        \/ /\ inUse /\ NeedsRegistration(job.id)
           /\ GoOn([job EXCEPT !.pc = "register"])
           /\ UNCHANGED gauge
        \/ /\ inUse /\ ~NeedsRegistration(job.id)
           /\ ~(Registered \cup Processing \subseteq status)
           /\ GoOn(SettingStatus(Registered \cup Processing))
           /\ UpdateState(job.key, Registered \cup Processing)
        \/ /\ inUse /\ ~NeedsRegistration(job.id)
           /\ Registered \cup Processing \subseteq status
           /\ GoOn([job EXCEPT !.pc = "fetchToken"])
           /\ UNCHANGED gauge
     /\ UNCHANGED <<cpVars, dirVars, boundVars>>

\* The call is over for good only when Ready was set.
SetStatus(o) ==
  /\ At("setStatus")
  /\ SetCompassMappingStatus(job.key, job.goal, o)
  /\ Return(~( /\ Updatable(job.key) /\ o = "ok"
               /\ job.goal = Registered \cup Configured ))
  /\ Spend(o)
  /\ UNCHANGED <<dirVars, gauge, restarts, changes>>

-----------------------------------------------------------------------------
(***************************************************************************)
(* registerRuntimeInCompassAndRequeue.  Each attempt of RegisterInCompass  *)
(* sends the same random name, so once an attempt has taken effect the     *)
(* Director may refuse the next as not unique.  When RuntimeIDs are used   *)
(* up, which is a bound of the model, the Director refuses too.            *)
(***************************************************************************)
RegisterInCompass(o, i) ==
  LET k == job.key
      refused == o = "failed" /\ (job.taken \/ \A r \in RuntimeIDs : ~Unused(r))
  IN /\ At("register")
     /\ CreateRuntime(i, k, job.account, o)
     /\ IF o = "ok"
        THEN /\ GoOn([Idle EXCEPT !.pc = "upsertMapping", !.key = k, !.id = i])
             /\ UpdateState(k, Registered \cup Processing)
        ELSE /\ RetryOnError([job EXCEPT !.taken = @ \/ TookEffect(o)],
                             GoOn(SettingStatus(Failed)))
             /\ UNCHANGED gauge
     /\ IF refused THEN UNCHANGED faults ELSE Spend(o)
     /\ UNCHANGED <<cpVars, restarts, changes>>

UpsertMapping(o) ==
  /\ At("upsertMapping")
  /\ UpsertCompassMapping(job.key, job.id, o)
  /\ Return(TRUE)
  /\ Spend(o)
  /\ UNCHANGED <<dirVars, gauge, restarts, changes>>

-----------------------------------------------------------------------------
(***************************************************************************)
(* configureRuntimeAndSetMappingStatus.  "invalid" stands for a kubeconfig *)
(* that cannot be used and for a token that is too long or has a wrong     *)
(* connector URL: there is no second attempt then.                         *)
(***************************************************************************)
\* Mutant: an error of the Configurator does not change the status.
ConfigureIgnoringErrors(ok) == Registered \cup Configured

ConfigureResult(ok) ==
  IF ok THEN Registered \cup Configured ELSE Registered \cup Failed

FetchCompassToken(o) ==
  LET answered == TokenIssued(job.id, job.account, o)
      error    == GoOn(SettingStatus(ConfigureResult(FALSE)))
  IN /\ At("fetchToken")
     /\ \/ answered /\ GoOn([job EXCEPT !.pc = "writeSecret", !.attempt = 0])
        \/ ~answered /\ o # "invalid" /\ RetryOnError(job, error)
        \/ o = "invalid" /\ error
     /\ Spend(o)
     /\ UNCHANGED <<cpVars, dirVars, gauge, restarts, changes>>

UpsertAgentSecret(o) ==
  /\ At("writeSecret")
  /\ WriteAgentSecret(job.key, job.id, job.account, o)
  /\ GoOn(SettingStatus(ConfigureResult(o = "ok")))
  /\ IF o = "ok" THEN UpdateState(job.key, Registered \cup Configured)
                 ELSE UNCHANGED gauge
  /\ Spend(o)
  /\ UNCHANGED <<cpVars, restarts, changes>>

-----------------------------------------------------------------------------
(***************************************************************************)
(* The rest of handleKymaDeletion, and DeleteCompassMapping.               *)
(***************************************************************************)
DeletingMapping == [Idle EXCEPT !.pc = "readMapping", !.key = job.key]

\* Mutant: the error of the Director ends the request.
DirectorErrorForgets == Return(FALSE)

\* Mutant: the mapping is deleted although the runtime was not.
DirectorErrorIgnored == GoOn(DeletingMapping)

\* A DirectorError: RequeueAfter requeueTime.
DirectorError == Return(TRUE)

DeregisterFromCompass(o) ==
  LET done == DeleteSucceeds(job.account, o)
  IN /\ At("deregister")
     /\ DeleteRuntime(job.id, job.account, o)
     /\ IF done
        THEN GoOn(DeletingMapping) /\ UpdateState(job.key, Empty)
        ELSE RetryOnError(job, DirectorError) /\ UNCHANGED gauge
     /\ Spend(o)
     /\ UNCHANGED <<cpVars, restarts, changes>>

ReadMapping ==
  LET m == GetCompassMapping(job.key)
  IN /\ At("readMapping")
     /\ IF m.exists
        THEN GoOn([job EXCEPT !.pc = "removeFinalizer", !.terminating = m.deleting])
        ELSE Return(TRUE)
     /\ UNCHANGED <<cpVars, dirVars, gauge, boundVars>>

RemoveFinalizer(o) ==
  /\ At("removeFinalizer")
  /\ RemoveCMFinalizer(job.key, o)
  /\ IF ~(Updatable(job.key) /\ o = "ok") THEN Return(TRUE)
     ELSE IF job.terminating THEN Return(FALSE)
     ELSE GoOn([job EXCEPT !.pc = "deleteMapping"])
  /\ Spend(o)
  /\ UNCHANGED <<dirVars, gauge, restarts, changes>>

DeleteCompassMapping(o) ==
  /\ At("deleteMapping")
  /\ DeleteMapping(job.key, o)
  /\ Return(~(mapping[job.key].exists /\ o = "ok"))
  /\ Spend(o)
  /\ UNCHANGED <<dirVars, gauge, restarts, changes>>

-----------------------------------------------------------------------------
(***************************************************************************)
(* The world around the manager.                                           *)
(***************************************************************************)
\* A List of mappings fails inside Reconcile.
ReadFails ==
  /\ At("checkStatus") \/ At("readMapping")
  /\ Return(TRUE)
  /\ Spend("failed")
  /\ UNCHANGED <<cpVars, dirVars, gauge, restarts, changes>>

\* The process ends, is started again and lists all resources anew.
Restart ==
  /\ restarts < MaxRestarts
  /\ restarts' = restarts + 1
  /\ job'   = Idle
  /\ queue' = Relisted
  /\ gauge' = NewMetrics
  /\ mappingCache' = mapping
  /\ UNCHANGED <<kyma, kubeconfig, mapping, dirVars, faults, changes>>

Change ==
  /\ changes < MaxChanges
  /\ changes' = changes + 1
  /\ UNCHANGED <<runtimes, job, gauge, faults, restarts>>

\* A Kyma comes with a cluster of its own, in which there is no Secret yet.
CreateKyma(k, m, a) ==
  /\ Change
  /\ KymaIsCreated(k, m, a)
  /\ agent' = [agent EXCEPT ![k] = NoAgent]
  /\ Enqueue(k, CreateFunc(kyma'[k]))

DeleteKyma(k) ==
  /\ Change
  /\ KymaIsDeleted(k)
  /\ Enqueue(k, DeleteFunc(kyma[k]))
  /\ UNCHANGED agent

UpdateKyma(k) ==
  /\ Change
  /\ ModuleIsToggled(k) \/ \E a \in Accounts : KymaIsLabelled(k, a)
  /\ Enqueue(k, UpdateFunc(kyma[k], kyma'[k]))
  /\ UNCHANGED agent

ToggleKubeconfig(k) ==
  /\ Change
  /\ KubeconfigIsToggled(k)
  /\ UNCHANGED <<agent, queue>>

DeleteMappingByUser(k) ==
  /\ Change
  /\ MappingIsDeletedByUser(k)
  /\ UNCHANGED <<agent, queue>>

CatchUp(k) == WatchMapping(k) /\ UNCHANGED <<dirVars, mgrVars, boundVars>>

-----------------------------------------------------------------------------
\* What the worker does next in a call of Reconcile.
Worker ==
  \/ CheckStatus
  \/ ReadMapping
  \/ \E o \in Outcomes :
       \/ makeNewCompassMappingAndRequeue(o)
       \/ SetStatus(o)
       \/ \E i \in RuntimeIDs : RegisterInCompass(o, i)
       \/ UpsertMapping(o)
       \/ UpsertAgentSecret(o)
       \/ DeregisterFromCompass(o)
       \/ RemoveFinalizer(o)
       \/ DeleteCompassMapping(o)
  \/ \E o \in {"ok", "failed", "invalid"} : FetchCompassToken(o)

Others ==
  \/ ReadFails
  \/ \E k \in Kymas :
       \/ \E m \in BOOLEAN, a \in AccountLabel : CreateKyma(k, m, a)
       \/ DeleteKyma(k)
       \/ UpdateKyma(k)
       \/ ToggleKubeconfig(k)
       \/ DeleteMappingByUser(k)

Environment == Restart \/ Others

Next ==
  \/ \E k \in Kymas : Reconcile(k)
  \/ Worker
  \/ \E k \in Kymas : CatchUp(k)
  \/ Environment

Spec == Init /\ [][Next]_vars

(***************************************************************************)
(* The worker goroutine goes on until Reconcile returns; the work queue    *)
(* hands out a request that keeps coming back again and again; a watch is  *)
(* not behind for ever.                                                    *)
(***************************************************************************)
Fairness ==
  /\ WF_vars(Worker)
  /\ \A k \in Kymas : SF_vars(Reconcile(k))
  /\ \A k \in Kymas : WF_vars(CatchUp(k))

FairSpec == Spec /\ Fairness

-----------------------------------------------------------------------------
(***************************************************************************)
(* Safety.                                                                 *)
(***************************************************************************)
\* A mapping that says Ready can be believed: the agent in the cluster of the
\* Kyma has the credentials of exactly the runtime the mapping records, under
\* the tenant it was registered for, and while the Kyma exists that runtime is
\* registered in the Director, for this Kyma.  The three were written in
\* different calls of Reconcile, each from its own cached read
\* (configureRuntimeAndSetMappingStatus).
ReadyIsUsable ==
  \A k \in Kymas :
    LET i == mapping[k].id
    IN mapping[k].status.configured =>
         /\ i # NoID
         /\ agent[k] = [id |-> i, account |-> runtimes[i].account]
         /\ runtimes[i].kyma = k
         /\ Present(k) => Live(i)

\* With registration enabled, no mapping claims to be registered before it
\* has the ID of a runtime, although the ID and the status are written by
\* different calls and checked on different reads (lines 163 and 179).
RegisteredHasID ==
  EnabledRegistration =>
    \A k \in Kymas : mapping[k].status.registered => mapping[k].id # NoID

\* Two Kymas never share a runtime: an ID is recorded, and handed to an agent,
\* only for the Kyma it was registered for, whatever the worker did in between
\* for other Kymas (registerRuntimeInCompassAndRequeue).
RuntimeBelongsToKyma ==
  \A k \in Kymas : \A i \in {mapping[k].id, agent[k].id} \ {NoID} :
    runtimes[i].kyma = k

\* A mapping that records a registered runtime is protected against deletion
\* by its finalizer, until handleKymaDeletion has deregistered the runtime.
FinalizerGuardsRuntime ==
  \A k \in Kymas : Live(mapping[k].id) => mapping[k].finalizer

\* No step loses track of a registered runtime: the ID leaves its mapping,
\* by an upsert or with the mapping, only when the Director no longer has it
\* (UpsertCompassMapping, DeleteCompassMapping).
RecordedRuntimeReleased ==
  [][\A k \in Kymas :
       Live(mapping[k].id) => mapping'[k].id = mapping[k].id]_vars

\* The cleanup of a deleted Kyma is never forgotten: as long as its mapping
\* exists, the request is in the queue or the worker is cleaning up.  Mappings are
\* not watched, so nothing else would bring it back (handleKymaDeletion and the
\* results of Reconcile).
DeletionSteps == {"deregister", "readMapping", "removeFinalizer", "deleteMapping"}

CleansUp(k) == job.key = k /\ job.pc \in DeletionSteps

Forgotten(k) ==
  kyma[k].phase = "deleted" /\ mapping[k].exists /\ k \notin queue /\ ~CleansUp(k)

NoLostDeletion == \A k \in Kymas : ~Forgotten(k)

\* With a manager that crashes this can happen, but in no other way: a process that
\* has a cleanup in its queue, or has begun it, does not drop it before the mapping
\* is gone (DeleteCompassMapping, DeregisterFromCompass and the results of
\* handleKymaDeletion).
OnlyCrashesForget ==
  [][\A k \in Kymas : Forgotten(k)' => Forgotten(k) \/ restarts' # restarts]_vars

\* The other half: a Kyma that has the module and its label is never forgotten
\* on its way to Ready, however often a call fails, a read is stale or the manager
\* starts again.  Neither the Secret with the kubeconfig nor the mapping is
\* watched, so a result of Reconcile that brings the request back is the only
\* way on (makeNewCompassMappingAndRequeue, setStatusAndRequeue and the rest).
Wanted(k) == Present(k) /\ kyma[k].module /\ kyma[k].account # NoAccount

Ready(k) == mapping[k].status = MappingStatusOf(Registered \cup Configured)

NoLostRegistration ==
  \A k \in Kymas : Wanted(k) /\ ~Ready(k) => k \in queue \/ job.key = k

\* No cluster in use is cut off.  While the worker is about to deregister a
\* runtime, which can take many attempts, its Kyma may be created again, with a
\* cluster of its own; other Kymas have runtimes, too; and the ID may come from a
\* copy of the mapping that is out of date.  Still a runtime ends only when no
\* agent works with it but that of a deleted Kyma (handleKymaDeletion,
\* DeregisterFromCompass).
AgentsAreNotCutOff ==
  [][\A i \in RuntimeIDs : Live(i) /\ ~Live(i)' =>
       \A k \in Kymas : agent[k].id = i => kyma[k].phase = "deleted"]_vars

\* What a Status says survives being stored.  StateText knows three texts, and
\* Number reads a text it does not expect as Failed: seven of the sixteen
\* combinations come back as another one, but none that a step sets.
StatusReadsBack ==
  At("setStatus") => Number(MappingStatusOf(job.goal)) = job.goal

-----------------------------------------------------------------------------
(***************************************************************************)
(* The reconciler implements RuntimeLifecycle.                             *)
(***************************************************************************)
Lifecycle ==
  INSTANCE RuntimeLifecycle
  WITH record <- [k \in Kymas |-> mapping[k].id],
       gone   <- { k \in Kymas : kyma[k].phase = "deleted" }

\* Registration, the two reads before it, the upsert, the agent's Secret and the
\* steps of the deletion happen in different calls of Reconcile, between which
\* calls fail and the manager restarts; still the runtimes of a Kyma go through
\* one life: a runtime is deregistered only after its Kyma was deleted, a
\* recorded one is never replaced, and an agent only gets the recorded one.
RuntimesFollowLifecycle == Lifecycle!LifeSpec

-----------------------------------------------------------------------------
(***************************************************************************)
(* Liveness, under FairSpec.                                               *)
(***************************************************************************)
Eligible(k) == Wanted(k) /\ kubeconfig[k]

\* When a Kyma is deleted, its mapping goes away in the end.
EventuallyDeregistered ==
  \A k \in Kymas : <>[](kyma[k].phase = "deleted") => <>[](~mapping[k].exists)

-----------------------------------------------------------------------------
(***************************************************************************)
(* What the repository says of the program and the code does not do.       *)
(***************************************************************************)
\* "RegisterInCompass creates Runtime in the Compass system. It must be
\* idempotent." (Registrator): a Kyma has at most one registered runtime.
RegistrationIsIdempotent ==
  \A i, j \in RuntimeIDs :
    Live(i) /\ Live(j) /\ runtimes[i].kyma = runtimes[j].kyma => i = j

\* "When Kyma with the Application Connector module is created, it registers
\* Kyma runtime in the Compass Director" (README): also when the global account
\* label is set after the Kyma was created.
CreatedKymaIsRegistered ==
  \A k \in Kymas : <>[]Eligible(k) => <>(mapping[k].id # NoID)

\* "After successful runtime registration when user delete Kyma resource the
\* runtime should be deregister from Compass System" (controller test): when
\* the mapping of a deleted Kyma records a runtime, that runtime goes away.
DeletedKymaIsDeregistered ==
  \A k \in Kymas :
    <>[](kyma[k].phase = "deleted") => <>[](~Live(mapping[k].id))

\* The same line, for every runtime registered for the Kyma: also one that was
\* registered while the Kyma was being deleted.
DeletedKymaLeavesNoRuntime ==
  \A k \in Kymas :
    <>[](kyma[k].phase = "deleted") =>
      <>[](\A i \in RuntimeIDs : runtimes[i].kyma = k => ~Live(i))

\* The same line, for the step that removes the mapping of a deleted Kyma: the
\* runtime recorded in it has been deregistered before.
DeregisteredBeforeForgotten ==
  [][\A k \in Kymas :
       kyma[k].phase = "deleted" /\ Live(mapping[k].id) => mapping'[k].exists]_vars

\* "Indicates the Status.state for Compass Mappings" (help text of cm_states):
\* between two calls of Reconcile the metric shows a mapping that has failed.
GaugeShowsFailed ==
  job = Idle =>
    \A k \in Kymas : mapping[k].status.state = FailedState => gauge[k] = FailedState
=============================================================================
