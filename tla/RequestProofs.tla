----------------------------- MODULE RequestProofs -----------------------------
(***************************************************************************)
(* No request is forgotten.  Neither mappings nor the Secrets with the     *)
(* kubeconfigs are watched, so the work queue and the call of Reconcile    *)
(* that is under way are the only memory of what has to be done.  A Kyma   *)
(* that is wanted is kept until it is Ready, as long as it has its label   *)
(* and no name is used twice; a Kyma that is deleted until its mapping is  *)
(* gone, as long as the process is not restarted and reads what it has     *)
(* written.  The runs late_label, missed_deletion and stale_deletion show  *)
(* what happens without.  And only a deleted Kyma loses its runtimes.      *)
(***************************************************************************)
EXTENDS RuntimeIdentity

Gone(k) == kyma[k].phase = "deleted"

NamesUsedOnce == "recreate" \notin Disturbances

LabelsComeFirst == "lateLabel" \notin Disturbances

\* For a Kyma that was never there the worker does nothing.
AbsentIsIdle ==
  \A k \in Kymas : kyma[k].phase = "absent" => k \notin queue /\ job.key # k

\* It deletes only for a Kyma that is gone.
KeyInv == AbsentIsIdle /\ (job.pc \in DeletionSteps => Gone(job.key))

\* Where names are used again, that Kyma may be back, but with a cluster of its
\* own, and the worker has not been there yet.
CutInv ==
  /\ AbsentIsIdle
  /\ job.pc \in DeletionSteps => Gone(job.key) \/ agent[job.key].id = NoID

\* No request of a Kyma on its way to Ready is lost; the finalizer goes only
\* after the Kyma.
WantedInv ==
  /\ \A k \in Kymas : Present(k) => kyma[k].account # NoAccount
  /\ \A k \in Kymas : mapping[k].exists /\ ~mapping[k].finalizer => Gone(k)
  /\ NoLostRegistration

\* How a step of the worker leaves the request for Kyma k.
Handled(k) ==
  \/ Return(TRUE)
  \/ Return(FALSE) /\ (job.pc \in DeletionSteps \/ Ready(k)')
  \/ \E j : /\ GoOn(j) /\ j.key = k
            /\ j.pc \in DeletionSteps => job.pc \in DeletionSteps

-----------------------------------------------------------------------------
(***************************************************************************)
(* KeyInv and WantedInv.                                                   *)
(***************************************************************************)
\* At first the queue holds the Kymas that are there.
LEMMA KeyInit == Init => KeyInv /\ CutInv
  BY LandscapeAssumption
  DEF Init, Relisted, CreateFunc, Idle, AbsentIsIdle, KeyInv, CutInv, DeletionSteps

\* A Kyma that is there at first is in the queue if it has the module.
LEMMA WantedInit ==
  ASSUME LabelsComeFirst
  PROVE  Init => WantedInv
<1> SUFFICES ASSUME Init
             PROVE  WantedInv
  OBVIOUS
<1>1. \A k \in Kymas : Present(k) => kyma[k].account # NoAccount
  <2>1. \A k \in Kymas : kyma[k] = AbsentKyma \/ kyma[k].account # NoAccount
    BY DEF Init, CPInit, LabelsComeFirst
  <2>2. QED
    BY <2>1 DEF AbsentKyma, Present
<1>2. \A k \in Kymas : ~mapping[k].exists
  BY DEF Init, CPInit, NoMapping
<1>3. NoLostRegistration
  BY DEF Init, Relisted, CreateFunc, NoLostRegistration, Wanted, Present
<1>4. QED
  BY <1>1, <1>2, <1>3 DEF WantedInv

\* A step of the worker that handles its request so keeps the invariants.
LEMMA HandledKeys ==
  ASSUME NEW k \in Kymas, k = job.key, UNCHANGED kyma, Handled(k)
  PROVE  /\ KeyInv => KeyInv'
         /\ CutInv /\ (job.pc \in DeletionSteps => UNCHANGED agent) => CutInv'
<1>1. job' = Idle \/ (job'.key = k /\ (job'.pc \in DeletionSteps =>
                                          job.pc \in DeletionSteps))
  BY DEF Handled, Return, GoOn
<1>2. Idle.pc \notin DeletionSteps /\ Idle.key \notin Kymas
  BY LandscapeAssumption DEF Idle, DeletionSteps
<1>3. queue' \subseteq queue \cup {k}
  BY DEF Handled, Return, GoOn
<1>4. AbsentIsIdle => AbsentIsIdle'
  BY <1>1, <1>2, <1>3 DEF AbsentIsIdle
<1>5. QED
  BY <1>1, <1>2, <1>4 DEF KeyInv, CutInv, Gone

\* The requests of the other Kymas stay where they are.
LEMMA HandledWanted ==
  ASSUME TypeOK, KeyInv, WantedInv, NEW k \in Kymas, k = job.key, UNCHANGED kyma,
         Handled(k),
         \A j \in Kymas \ {k} : mapping'[j] = mapping[j],
         mapping'[k].exists /\ ~mapping'[k].finalizer => Gone(k)
  PROVE  WantedInv'
<1>1. ASSUME NEW j \in Kymas, j # k, Wanted(j)', ~Ready(j)'
      PROVE  j \in queue'
  <2>1. Wanted(j) /\ ~Ready(j)
    BY <1>1 DEF Wanted, Present, Ready
  <2>2. j \in queue
    BY <1>1, <2>1 DEF WantedInv, NoLostRegistration
  <2>3. QED
    BY <2>2 DEF Handled, Return, GoOn
<1>2. ASSUME Wanted(k)', ~Ready(k)'
      PROVE  k \in queue' \/ job'.key = k
  BY <1>2 DEF Handled, Return, GoOn, Wanted, Present, KeyInv, Gone
<1>3. NoLostRegistration'
  BY <1>1, <1>2 DEF NoLostRegistration
<1>4. QED
  BY <1>3 DEF WantedInv, Present, Gone

\* Reconcile takes a request up, and begins a deletion only for a Kyma that is
\* gone.
LEMMA ReconcileTakes ==
  ASSUME TypeOK, AbsentIsIdle, NEW k \in Kymas, Reconcile(k)
  PROVE  /\ UNCHANGED <<kyma, agent>> /\ job = Idle /\ kyma[k].phase # "absent"
         /\ queue' \subseteq queue
         /\ \/ UNCHANGED job
            \/ job'.key = k /\ (job'.pc \in DeletionSteps => Gone(k))
<1>1. /\ UNCHANGED <<kyma, agent>> /\ job = Idle /\ kyma[k].phase # "absent"
      /\ kyma[k].phase \in {"absent", "present", "deleted"}
  BY DEF Reconcile, cpVars, dirVars, AbsentIsIdle, TypeOK, CPTypeOK, KymaCR
<1> DEFINE Taken == /\ queue' \subseteq queue
                    /\ \/ UNCHANGED job
                       \/ job'.key = k /\ (job'.pc \in DeletionSteps => Gone(k))
<1>2. ASSUME NEW p, NEW i, NEW a, Start(k, p, i, a), p \in DeletionSteps => Gone(k)
      PROVE  Taken
  BY <1>2 DEF Start, Idle
<1>3. ASSUME ~Present(k), handleKymaDeletion(k)
      PROVE  Taken
  <2>1. Gone(k)
    BY <1>1, <1>3 DEF Present, Gone
  <2>2. Drop(k) \/ \E p, i, a : Start(k, p, i, a)
    BY <1>3 DEF handleKymaDeletion
  <2>3. QED
    BY <1>2, <2>1, <2>2 DEF Drop
<1>4. ASSUME Present(k)
      PROVE  Taken
  <2>1. "createMapping" \notin DeletionSteps /\ "checkStatus" \notin DeletionSteps
    BY DEF DeletionSteps
  <2>2. \/ AwaitKubeconfig(k) \/ NoGlobalAccount(k)
        \/ \E p \in {"createMapping", "checkStatus"} : \E i, a : Start(k, p, i, a)
    BY <1>4 DEF Reconcile
  <2>3. QED
    BY <1>2, <2>1, <2>2 DEF AwaitKubeconfig, NoGlobalAccount, Drop
<1>5. Taken
  BY <1>3, <1>4 DEF Reconcile
<1>6. QED
  BY <1>1, <1>5

\* So it keeps the invariants about the job.
LEMMA KeyReconcile ==
  ASSUME TypeOK, NEW k \in Kymas, Reconcile(k)
  PROVE  (KeyInv => KeyInv') /\ (CutInv => CutInv')
<1>1. ASSUME AbsentIsIdle
      PROVE  AbsentIsIdle'
  BY <1>1, ReconcileTakes DEF AbsentIsIdle
<1>2. Idle.pc \notin DeletionSteps
  BY DEF Idle, DeletionSteps
<1>3. QED
  BY <1>1, <1>2, ReconcileTakes DEF KeyInv, CutInv, Gone

\* The same for the Kymas on their way to Ready.
LEMMA WantedReconcile ==
  ASSUME TypeOK, WantedInv, NEW k \in Kymas, Reconcile(k)
  PROVE  WantedInv'
<1>1. UNCHANGED <<kyma, mapping>> /\ job = Idle
  BY DEF Reconcile, cpVars
<1>2. \/ UNCHANGED <<queue, job>>
      \/ queue' = queue \ {k} /\ (~Present(k) \/ job'.key = k)
  <2>1. ASSUME NEW p, NEW i, NEW a, Start(k, p, i, a)
        PROVE  job'.key = k /\ queue' = queue \ {k}
    BY <2>1 DEF Start, Idle
  <2>2. CASE ~Present(k) /\ handleKymaDeletion(k)
    BY <2>1, <2>2 DEF handleKymaDeletion, Drop
  <2>3. CASE Present(k)
    BY <2>1, <2>3 DEF Reconcile, AwaitKubeconfig, NoGlobalAccount, WantedInv
  <2>4. QED
    BY <2>2, <2>3 DEF Reconcile
<1>3. job.key \notin Kymas
  BY <1>1, LandscapeAssumption DEF Idle
<1>4. NoLostRegistration'
  BY <1>1, <1>2, <1>3 DEF WantedInv, NoLostRegistration, Wanted, Present, Ready
<1>5. QED
  BY <1>1, <1>4 DEF WantedInv, Present, Gone

\* The steps that leave the control plane alone bring the request back or go on
\* with it, and none of them turns to a deletion.
LEMMA JobStepsHandle ==
  ASSUME TypeOK, NEW k \in Kymas, k = job.key, NEW o, NEW i,
         \/ CheckStatus
         \/ ReadMapping
         \/ ReadFails
         \/ RegisterInCompass(o, i)
         \/ FetchCompassToken(o)
         \/ UpsertAgentSecret(o)
         \/ DeregisterFromCompass(o)
  PROVE  /\ UNCHANGED cpVars /\ Handled(k)
         /\ job.pc \in DeletionSteps => UNCHANGED agent
<1>0. job.pc \in DeletionSteps => UNCHANGED agent
  BY DEF CheckStatus, ReadMapping, ReadFails, RegisterInCompass, FetchCompassToken,
      UpsertAgentSecret, DeregisterFromCompass, CreateRuntime, DeleteRuntime, dirVars,
      At, DeletionSteps
<1>1. job \in Job /\ job.key \in Kymas /\ UNCHANGED cpVars
  BY NotIdle
  DEF CheckStatus, ReadMapping, ReadFails, RegisterInCompass, FetchCompassToken,
      UpsertAgentSecret, DeregisterFromCompass, At, TypeOK, WorkTypeOK
<1>2. ASSUME NEW j, GoOn(j), j.key = job.key,
             j.pc \in DeletionSteps => job.pc \in DeletionSteps
      PROVE  Handled(k)
  BY <1>2 DEF Handled
<1>3. ASSUME NEW g, GoOn(SettingStatus(g))
      PROVE  Handled(k)
  <2>1. SettingStatus(g).key = job.key /\ SettingStatus(g).pc = "setStatus"
    BY DEF SettingStatus, Idle
  <2>2. QED
    BY <1>2, <1>3, <2>1 DEF DeletionSteps
<1>4. /\ [job EXCEPT !.attempt = @ + 1].key = job.key
      /\ [job EXCEPT !.attempt = @ + 1].pc = job.pc
  BY <1>1 DEF Job
<1>5. ASSUME CheckStatus
      PROVE  Handled(k)
  <2>1. /\ [job EXCEPT !.pc = "register"].key = job.key
        /\ [job EXCEPT !.pc = "register"].pc = "register"
        /\ [job EXCEPT !.pc = "fetchToken"].key = job.key
        /\ [job EXCEPT !.pc = "fetchToken"].pc = "fetchToken"
    BY <1>1 DEF Job
  <2>2. \/ Return(TRUE)
        \/ \E g : GoOn(SettingStatus(g))
        \/ GoOn([job EXCEPT !.pc = "register"])
        \/ GoOn([job EXCEPT !.pc = "fetchToken"])
    BY <1>5 DEF CheckStatus
  <2>3. QED
    BY <1>1, <1>2, <1>3, <2>1, <2>2 DEF Handled, DeletionSteps
<1>6. ASSUME ReadMapping
      PROVE  Handled(k)
  <2> DEFINE j == [job EXCEPT !.pc = "removeFinalizer",
                              !.terminating = GetCompassMapping(job.key).deleting]
  <2>1. j.key = job.key /\ job.pc = "readMapping" /\ (Return(TRUE) \/ GoOn(j))
    BY <1>1, <1>6 DEF ReadMapping, At, Job
  <2> HIDE DEF j
  <2>2. QED
    BY <1>1, <1>2, <2>1 DEF Handled, DeletionSteps
<1>7. ASSUME RegisterInCompass(o, i)
      PROVE  Handled(k)
  <2> DEFINE j == [Idle EXCEPT !.pc = "upsertMapping", !.key = job.key, !.id = i]
             t == [job EXCEPT !.taken = @ \/ TookEffect(o), !.attempt = @ + 1]
  <2>1. /\ j.key = job.key /\ j.pc = "upsertMapping"
        /\ t.key = job.key /\ t.pc = job.pc
    BY <1>1 DEF Job, Idle
  <2>2. GoOn(j) \/ GoOn(t) \/ GoOn(SettingStatus(Failed))
    BY <1>7 DEF RegisterInCompass, RetryOnError
  <2> HIDE DEF j, t
  <2>3. QED
    BY <1>1, <1>2, <1>3, <2>1, <2>2 DEF DeletionSteps
<1>8. ASSUME FetchCompassToken(o)
      PROVE  Handled(k)
  <2>1. /\ [job EXCEPT !.pc = "writeSecret", !.attempt = 0].key = job.key
        /\ [job EXCEPT !.pc = "writeSecret", !.attempt = 0].pc = "writeSecret"
    BY <1>1 DEF Job
  <2>2. \/ GoOn([job EXCEPT !.pc = "writeSecret", !.attempt = 0])
        \/ GoOn([job EXCEPT !.attempt = @ + 1])
        \/ GoOn(SettingStatus(ConfigureResult(FALSE)))
    BY <1>8 DEF FetchCompassToken, RetryOnError
  <2>3. QED
    BY <1>1, <1>2, <1>3, <1>4, <2>1, <2>2 DEF DeletionSteps
<1>9. ASSUME UpsertAgentSecret(o)
      PROVE  Handled(k)
  BY <1>1, <1>3, <1>9 DEF UpsertAgentSecret
<1>10. ASSUME DeregisterFromCompass(o)
       PROVE  Handled(k)
  <2>1. /\ job.pc = "deregister"
        /\ Return(TRUE) \/ GoOn(DeletingMapping) \/ GoOn([job EXCEPT !.attempt = @ + 1])
    BY <1>10 DEF DeregisterFromCompass, At, RetryOnError, DirectorError
  <2>2. DeletingMapping.key = job.key
    BY DEF DeletingMapping, Idle
  <2>3. QED
    BY <1>1, <1>2, <1>4, <2>1, <2>2 DEF Handled, DeletionSteps
<1>11. QED
  BY <1>0, <1>1, <1>5, <1>6, <1>7, <1>8, <1>9, <1>10 DEF ReadFails, Handled

\* What a write of a mapping leaves of it.
LEMMA WriteOutcome ==
  ASSUME CPTypeOK, NEW k \in Kymas, NEW b, NEW m, NEW o, Write(k, b, m, o)
  PROVE  /\ UNCHANGED kyma
         /\ \A j \in Kymas \ {k} : mapping'[j] = mapping[j]
         /\ \/ b /\ TookEffect(o) /\ mapping'[k] = m
            \/ ~(b /\ TookEffect(o)) /\ mapping' = mapping
  BY DEF CPTypeOK, Write, Put, cpVars

\* The steps that write mappings: a request ends for good only when Ready was set
\* or at the end of a deletion.
LEMMA WritesHandle ==
  ASSUME TypeOK, NEW k \in Kymas, k = job.key, NEW o,
         \/ makeNewCompassMappingAndRequeue(o)
         \/ UpsertMapping(o)
         \/ SetStatus(o)
         \/ RemoveFinalizer(o)
         \/ DeleteCompassMapping(o)
  PROVE  /\ UNCHANGED <<kyma, agent>> /\ Handled(k)
         /\ \A j \in Kymas \ {k} : mapping'[j] = mapping[j]
         /\ mapping'[k].exists /\ ~mapping'[k].finalizer =>
              \/ job.pc \in DeletionSteps
              \/ mapping[k].exists /\ ~mapping[k].finalizer
<1>0. UNCHANGED agent
  BY DEF makeNewCompassMappingAndRequeue, UpsertMapping, SetStatus, RemoveFinalizer,
      DeleteCompassMapping, dirVars
<1>1. /\ mapping[k] \in CompassManagerMapping /\ mappingCache[k] \in CompassManagerMapping
      /\ CPTypeOK /\ job \in Job
  BY DEF TypeOK, CPTypeOK, WorkTypeOK
<1> DEFINE Unprotected(m) == m.exists /\ ~m.finalizer
           Kept == /\ UNCHANGED kyma
                   /\ \A j \in Kymas \ {k} : mapping'[j] = mapping[j]
                   /\ Unprotected(mapping'[k]) =>
                        job.pc \in DeletionSteps \/ Unprotected(mapping[k])
<1>2. ASSUME NEW b, NEW m, Write(k, b, m, o),
             b => (Unprotected(m) =>
                     job.pc \in DeletionSteps \/ Unprotected(mapping[k]))
      PROVE  Kept
  BY <1>1, <1>2, WriteOutcome
<1>3. ASSUME makeNewCompassMappingAndRequeue(o)
      PROVE  Kept /\ Handled(k)
  <2>1. ~Unprotected(NewMapping(NoID, kyma[k].account))
    BY DEF NewMapping
  <2>2. Kept
    BY <1>2, <1>3, <2>1 DEF makeNewCompassMappingAndRequeue, CreateCompassMapping
  <2>3. QED
    BY <1>3, <2>2 DEF makeNewCompassMappingAndRequeue, Handled
<1>4. ASSUME UpsertMapping(o)
      PROVE  Kept /\ Handled(k)
  <2>1. UpsertAccepted(k) =>
          (Unprotected(Upserted(k, job.id)) => Unprotected(mapping[k]))
    BY <1>1
    DEF UpsertAccepted, Upserted, Updatable, GetCompassMapping, NewMapping,
        CompassManagerMapping
  <2>2. Kept
    BY <1>2, <1>4, <2>1 DEF UpsertMapping, UpsertCompassMapping
  <2>3. QED
    BY <1>4, <2>2 DEF UpsertMapping, Handled
<1>5. ASSUME SetStatus(o)
      PROVE  Kept /\ Handled(k)
  <2> DEFINE b == Updatable(k)
             m == [mappingCache[k] EXCEPT !.status = MappingStatusOf(job.goal)]
  <2>1. /\ Write(k, b, m, o)
        /\ b => (Unprotected(m) => Unprotected(mapping[k]))
        /\ m.status = MappingStatusOf(job.goal)
        /\ \/ Return(TRUE)
           \/ Return(FALSE) /\ b /\ o = "ok" /\ job.goal = Registered \cup Configured
    BY <1>1, <1>5
    DEF SetStatus, SetCompassMappingStatus, GetCompassMapping, Updatable,
        CompassManagerMapping
  <2> HIDE DEF b, m
  <2>2. Kept
    BY <1>2, <2>1
  <2>3. CASE Return(FALSE) /\ b /\ o = "ok" /\ job.goal = Registered \cup Configured
    <3>1. mapping'[k] = m
      BY <1>1, <2>1, <2>3, WriteOutcome DEF TookEffect
    <3>2. Ready(k)'
      BY <2>1, <2>3, <3>1 DEF Ready
    <3>3. QED
      BY <2>2, <2>3, <3>2 DEF Handled
  <2>4. QED
    BY <2>1, <2>2, <2>3 DEF Handled
<1>6. ASSUME RemoveFinalizer(o)
      PROVE  Kept /\ Handled(k)
  <2>1. job.pc \in DeletionSteps
    BY <1>6 DEF RemoveFinalizer, At, DeletionSteps
  <2>2. Kept
    BY <1>2, <1>6, <2>1 DEF RemoveFinalizer, RemoveCMFinalizer
  <2>3. [job EXCEPT !.pc = "deleteMapping"].key = job.key
    BY <1>1 DEF Job
  <2>4. Handled(k)
    BY <1>6, <2>1, <2>3 DEF RemoveFinalizer, Handled
  <2>5. QED
    BY <2>2, <2>4
<1>7. ASSUME DeleteCompassMapping(o)
      PROVE  Kept /\ Handled(k)
  <2>1. job.pc \in DeletionSteps
    BY <1>7 DEF DeleteCompassMapping, At, DeletionSteps
  <2>2. Kept
    BY <1>2, <1>7, <2>1 DEF DeleteCompassMapping, DeleteMapping
  <2>3. Return(TRUE) \/ Return(FALSE)
    BY <1>1, <1>7 DEF DeleteCompassMapping, CompassManagerMapping
  <2>4. QED
    BY <2>1, <2>2, <2>3 DEF Handled
<1>8. QED
  BY <1>0, <1>3, <1>4, <1>5, <1>6, <1>7

\* What happens to a Kyma reaches the queue: its creation with the module, the
\* module when it is added, its deletion.
LEMMA KeyEnvironment ==
  ASSUME TypeOK, NEW k \in Kymas,
         \/ \E m \in BOOLEAN, a \in AccountLabel : CreateKyma(k, m, a)
         \/ DeleteKyma(k)
         \/ UpdateKyma(k)
         \/ ToggleKubeconfig(k)
         \/ DeleteMappingByUser(k)
         \/ CatchUp(k)
  PROVE  /\ NamesUsedOnce /\ KeyInv => KeyInv'
         /\ CutInv => CutInv'
<1>1. /\ kyma \in [Kymas -> KymaCR] /\ agent \in [Kymas -> AgentSecret]
      /\ job.key \in Kymas \/ job.pc = "idle"
      /\ "idle" \notin DeletionSteps
  BY NotIdle DEF TypeOK, CPTypeOK, DirTypeOK, DeletionSteps
<1>2. CASE \E m \in BOOLEAN, a \in AccountLabel : CreateKyma(k, m, a)
  <2>1. /\ UNCHANGED job /\ queue' \subseteq queue \cup {k}
        /\ NamesUsedOnce => kyma[k].phase = "absent"
        /\ agent' = [agent EXCEPT ![k] = NoAgent]
        /\ \E m, a : kyma' = [kyma EXCEPT ![k] =
                      [phase |-> "present", module |-> m, account |-> a]]
    BY <1>2
    DEF CreateKyma, Change, KymaIsCreated, SetKyma, Enqueue, NamesUsedOnce
  <2>2. /\ kyma'[k].phase = "present" /\ agent'[k].id = NoID
        /\ \A j \in Kymas \ {k} : kyma'[j] = kyma[j] /\ agent'[j] = agent[j]
    BY <1>1, <2>1 DEF NoAgent
  <2>3. AbsentIsIdle => AbsentIsIdle'
    BY <2>1, <2>2 DEF AbsentIsIdle
  <2>4. QED
    BY <1>1, <2>1, <2>2, <2>3 DEF KeyInv, CutInv, AbsentIsIdle, Gone
<1>3. CASE DeleteKyma(k)
  <2>1. /\ UNCHANGED <<job, agent>> /\ queue' = queue \cup {k} /\ Present(k)
        /\ kyma' = [kyma EXCEPT ![k] = DeletedKyma]
    BY <1>3 DEF DeleteKyma, Change, KymaIsDeleted, SetKyma, Enqueue, DeleteFunc
  <2>2. /\ kyma'[k].phase = "deleted"
        /\ \A j \in Kymas \ {k} : kyma'[j] = kyma[j]
    BY <1>1, <2>1 DEF DeletedKyma
  <2>3. QED
    BY <1>1, <2>1, <2>2 DEF KeyInv, CutInv, AbsentIsIdle, Gone
<1>4. CASE UpdateKyma(k)
  <2>1. /\ UNCHANGED <<job, agent>> /\ queue' \subseteq queue \cup {k}
        /\ kyma'[k].phase = kyma[k].phase /\ kyma[k].phase = "present"
        /\ \A j \in Kymas \ {k} : kyma'[j] = kyma[j]
    BY <1>1, <1>4
    DEF UpdateKyma, Change, ModuleIsToggled, KymaIsLabelled, SetKyma, Enqueue, Present,
        KymaCR
  <2>2. QED
    BY <1>1, <2>1 DEF KeyInv, CutInv, AbsentIsIdle, Gone
<1>5. CASE ToggleKubeconfig(k) \/ DeleteMappingByUser(k) \/ CatchUp(k)
  BY <1>5
  DEF ToggleKubeconfig, DeleteMappingByUser, CatchUp, Change, KubeconfigIsToggled,
      MappingIsDeletedByUser, Put, WatchMapping, mgrVars, dirVars, KeyInv, CutInv,
      AbsentIsIdle, Gone
<1>6. QED
  BY <1>2, <1>3, <1>4, <1>5

\* A Kyma that becomes wanted is put into the queue; one that is wanted already
\* keeps its place there.
LEMMA WantedEnvironment ==
  ASSUME NamesUsedOnce, LabelsComeFirst, TypeOK, WantedInv, NEW k \in Kymas,
         \/ \E m \in BOOLEAN, a \in AccountLabel : CreateKyma(k, m, a)
         \/ DeleteKyma(k)
         \/ UpdateKyma(k)
         \/ ToggleKubeconfig(k)
         \/ DeleteMappingByUser(k)
         \/ CatchUp(k)
  PROVE  WantedInv'
<1>1. kyma \in [Kymas -> KymaCR] /\ mapping \in [Kymas -> CompassManagerMapping]
  BY DEF TypeOK, CPTypeOK
<1>2. CASE \E m \in BOOLEAN, a \in AccountLabel : CreateKyma(k, m, a)
  <2>1. PICK m \in BOOLEAN, a \in AccountLabel : CreateKyma(k, m, a)
    BY <1>2
  <2>2. /\ UNCHANGED <<job, mapping>> /\ queue \subseteq queue'
        /\ ~Gone(k) /\ a # NoAccount
        /\ kyma' = [kyma EXCEPT ![k] =
                     [phase |-> "present", module |-> m, account |-> a]]
        /\ m => k \in queue'
    BY <1>1, <2>1
    DEF CreateKyma, Change, KymaIsCreated, SetKyma, Enqueue, CreateFunc, NamesUsedOnce,
        LabelsComeFirst, Gone
  <2>3. QED
    BY <1>1, <2>2 DEF WantedInv, NoLostRegistration, Wanted, Ready, Present, Gone
<1>3. CASE DeleteKyma(k)
  <2>1. /\ UNCHANGED <<job, mapping>> /\ queue \subseteq queue'
        /\ kyma' = [kyma EXCEPT ![k] = DeletedKyma]
    BY <1>3 DEF DeleteKyma, Change, KymaIsDeleted, SetKyma, Enqueue
  <2>2. QED
    BY <1>1, <2>1
    DEF WantedInv, NoLostRegistration, Wanted, Ready, Present, Gone, DeletedKyma
<1>4. CASE UpdateKyma(k)
  <2>1. /\ UNCHANGED <<job, mapping>> /\ queue \subseteq queue'
        /\ \A j \in Kymas \ {k} : kyma'[j] = kyma[j]
        /\ kyma[k].phase = "present" /\ kyma'[k].phase = "present"
    BY <1>1, <1>4
    DEF UpdateKyma, Change, ModuleIsToggled, KymaIsLabelled, SetKyma, Enqueue, Present,
        KymaCR
  <2>2. kyma'[k].account # NoAccount /\ (kyma'[k].module => kyma[k].module \/ k \in queue')
    <3>1. CASE ModuleIsToggled(k)
      <4>1. /\ kyma'[k].account = kyma[k].account
            /\ kyma'[k].module = ~kyma[k].module /\ kyma[k].module \in BOOLEAN
        BY <1>1, <3>1 DEF ModuleIsToggled, SetKyma, KymaCR
      <4>2. QED
        BY <1>4, <2>1, <4>1
        DEF UpdateKyma, Enqueue, UpdateFunc, WantedInv, Present
    <3>2. CASE \E a \in Accounts : KymaIsLabelled(k, a)
      BY <1>1, <3>2 DEF KymaIsLabelled, SetKyma, KymaCR
    <3>3. QED
      BY <1>4, <3>1, <3>2 DEF UpdateKyma
  <2>3. QED
    BY <2>1, <2>2 DEF WantedInv, NoLostRegistration, Wanted, Ready, Present, Gone
<1>5. CASE DeleteMappingByUser(k)
  <2> DEFINE m == Deleted(mapping[k])
  <2>1. /\ UNCHANGED <<kyma, queue, job>> /\ mapping'[k] = m /\ mapping[k].exists
        /\ \A j \in Kymas \ {k} : mapping'[j] = mapping[j]
    BY <1>1, <1>5 DEF DeleteMappingByUser, Change, MappingIsDeletedByUser, Put
  <2>2. mapping[k].finalizer => m.exists /\ m.finalizer /\ m.status = mapping[k].status
    BY <1>1, <2>1 DEF Deleted, CompassManagerMapping
  <2>3. ~mapping[k].finalizer => ~m.exists
    BY DEF Deleted, NoMapping
  <2>4. mapping[k].finalizer \/ Gone(k)
    BY <2>1 DEF WantedInv
  <2> HIDE DEF m
  <2>5. NoLostRegistration'
    BY <2>1, <2>2, <2>4 DEF WantedInv, NoLostRegistration, Wanted, Ready, Present, Gone
  <2>6. QED
    BY <2>1, <2>2, <2>3, <2>5 DEF WantedInv, Present, Gone
<1>6. CASE ToggleKubeconfig(k) \/ CatchUp(k)
  BY <1>6
  DEF ToggleKubeconfig, CatchUp, Change, KubeconfigIsToggled, WatchMapping, mgrVars,
      WantedInv, NoLostRegistration, Wanted, Ready, Present, Gone
<1>7. QED
  BY <1>2, <1>3, <1>4, <1>5, <1>6

\* A process that starts again finds every Kyma that is wanted.
LEMMA RestartFindsWanted ==
  ASSUME TypeOK, Restart
  PROVE  /\ (KeyInv => KeyInv') /\ (CutInv => CutInv')
         /\ WantedInv => WantedInv'
<1>1. UNCHANGED <<kyma, mapping>> /\ job' = Idle /\ queue' = Relisted
  BY DEF Restart
<1>2. KeyInv' /\ CutInv'
  BY <1>1, LandscapeAssumption
  DEF Relisted, CreateFunc, Idle, AbsentIsIdle, KeyInv, CutInv, DeletionSteps
<1>3. NoLostRegistration'
  BY <1>1 DEF Relisted, CreateFunc, NoLostRegistration, Wanted, Present
<1>4. QED
  BY <1>1, <1>2, <1>3 DEF WantedInv, Present, Gone

\* So the steps of the worker keep the invariants.
LEMMA JobStepsKeep ==
  ASSUME TypeOK, NEW o, NEW i,
         \/ CheckStatus
         \/ ReadMapping
         \/ ReadFails
         \/ RegisterInCompass(o, i)
         \/ FetchCompassToken(o)
         \/ UpsertAgentSecret(o)
         \/ DeregisterFromCompass(o)
  PROVE  /\ (KeyInv => KeyInv') /\ (CutInv => CutInv')
         /\ KeyInv /\ WantedInv => WantedInv'
<1>1. PICK k \in Kymas : k = job.key
  BY NotIdle
  DEF CheckStatus, ReadMapping, ReadFails, RegisterInCompass, FetchCompassToken,
      UpsertAgentSecret, DeregisterFromCompass, At, TypeOK
<1>2. /\ UNCHANGED cpVars /\ Handled(k)
      /\ job.pc \in DeletionSteps => UNCHANGED agent
  BY <1>1, JobStepsHandle
<1>3. UNCHANGED <<kyma, mapping>>
  BY <1>2 DEF cpVars
<1>4. WantedInv => (mapping'[k].exists /\ ~mapping'[k].finalizer => Gone(k))
  BY <1>3 DEF WantedInv
<1>5. QED
  BY <1>1, <1>2, <1>3, <1>4, HandledKeys, HandledWanted

\* The steps that write mappings, likewise.
LEMMA WritesKeep ==
  ASSUME TypeOK, NEW o,
         \/ makeNewCompassMappingAndRequeue(o)
         \/ UpsertMapping(o)
         \/ SetStatus(o)
         \/ RemoveFinalizer(o)
         \/ DeleteCompassMapping(o)
  PROVE  /\ (KeyInv => KeyInv') /\ (CutInv => CutInv')
         /\ KeyInv /\ WantedInv => WantedInv'
<1>1. PICK k \in Kymas : k = job.key
  BY NotIdle
  DEF TypeOK, makeNewCompassMappingAndRequeue, UpsertMapping, SetStatus,
      RemoveFinalizer, DeleteCompassMapping, At
<1>2. /\ UNCHANGED <<kyma, agent>> /\ Handled(k)
      /\ \A j \in Kymas \ {k} : mapping'[j] = mapping[j]
      /\ mapping'[k].exists /\ ~mapping'[k].finalizer =>
           \/ job.pc \in DeletionSteps
           \/ mapping[k].exists /\ ~mapping[k].finalizer
  BY <1>1, WritesHandle
<1>3. KeyInv /\ WantedInv =>
        (mapping'[k].exists /\ ~mapping'[k].finalizer => Gone(k))
  BY <1>1, <1>2 DEF KeyInv, WantedInv
<1>4. QED
  BY <1>1, <1>2, <1>3, HandledKeys, HandledWanted

\* KeyInv is inductive where names are used once, CutInv in any case.
LEMMA KeyStep ==
  /\ NamesUsedOnce /\ TypeOK /\ KeyInv /\ [Next]_vars => KeyInv'
  /\ TypeOK /\ CutInv /\ [Next]_vars => CutInv'
<1> SUFFICES ASSUME TypeOK, [Next]_vars
             PROVE  /\ NamesUsedOnce /\ KeyInv => KeyInv'
                    /\ CutInv => CutInv'
  OBVIOUS
<1>1. CASE UNCHANGED vars
  BY <1>1 DEF vars, mgrVars, dirVars, cpVars, KeyInv, CutInv, AbsentIsIdle, Gone
<1>2. CASE Worker
  BY <1>2, JobStepsKeep, WritesKeep DEF Worker
<1>3. CASE Environment
  BY <1>3, JobStepsKeep, RestartFindsWanted, KeyEnvironment DEF Environment, Others
<1>4. QED
  BY <1>1, <1>2, <1>3, KeyReconcile, KeyEnvironment DEF Next

\* WantedInv is inductive.
LEMMA WantedStep ==
  ASSUME NamesUsedOnce, LabelsComeFirst
  PROVE  TypeOK /\ KeyInv /\ WantedInv /\ [Next]_vars => WantedInv'
<1> SUFFICES ASSUME TypeOK, KeyInv, WantedInv, [Next]_vars
             PROVE  WantedInv'
  OBVIOUS
<1>1. CASE UNCHANGED vars
  BY <1>1
  DEF vars, WantedInv, NoLostRegistration, Wanted, Ready, Present, Gone
<1>2. CASE Worker
  BY <1>2, JobStepsKeep, WritesKeep DEF Worker
<1>3. CASE Environment
  BY <1>3, JobStepsKeep, RestartFindsWanted, WantedEnvironment DEF Environment, Others
<1>4. QED
  BY <1>1, <1>2, <1>3, WantedReconcile, WantedEnvironment DEF Next

\* A Kyma that has the module and its label is never forgotten on its way to
\* Ready, with the cache behind, calls failing, Kymas losing their kubeconfigs
\* and the manager starting again: every result of Reconcile but the one after
\* Ready brings the request back, and a new process finds the Kyma anew.
THEOREM RegistrationIsNotLost ==
  ASSUME NamesUsedOnce, LabelsComeFirst
  PROVE  Spec => []NoLostRegistration
<1>1. WantedInv => NoLostRegistration
  BY DEF WantedInv
<1>2. QED
  BY <1>1, KeyInit, WantedInit, KeyStep, WantedStep, TypeCorrect, PTL DEF Spec

-----------------------------------------------------------------------------
(***************************************************************************)
(* Only a deleted Kyma loses a runtime.                                    *)
(***************************************************************************)
\* The steps other than DeregisterFromCompass leave live runtimes alone.
LEMMA LiveStaysLive ==
  ASSUME TypeOK, [Next]_vars, NEW i \in RuntimeIDs, Live(i), ~Live(i)'
  PROVE  \E o \in Outcomes : DeregisterFromCompass(o)
<1>1. runtimes'[i].state # "live" /\ runtimes[i].state = "live"
  BY DEF Live
<1>2. ASSUME NEW o, NEW j, RegisterInCompass(o, j)
      PROVE  FALSE
  <2>1. /\ runtimes \in [RuntimeIDs -> Runtime]
        /\ \/ runtimes' = runtimes
           \/ /\ Unused(j)
              /\ \E r : runtimes' = [runtimes EXCEPT ![j] = r]
    BY <1>2 DEF RegisterInCompass, CreateRuntime, TypeOK, DirTypeOK
  <2>2. QED
    BY <1>1, <2>1 DEF Unused
<1>3. runtimes' # runtimes
  BY <1>1
<1>4. CASE UNCHANGED vars
  BY <1>3, <1>4 DEF vars
<1>5. CASE Worker
  BY <1>2, <1>3, <1>5
  DEF Worker, CheckStatus, ReadMapping, makeNewCompassMappingAndRequeue, SetStatus,
      UpsertMapping, UpsertAgentSecret, WriteAgentSecret, RemoveFinalizer,
      DeleteCompassMapping, FetchCompassToken, dirVars
<1>6. CASE Environment \/ \E k \in Kymas : Reconcile(k) \/ CatchUp(k)
  BY <1>3, <1>6
  DEF Environment, Others, Restart, ReadFails, CreateKyma, DeleteKyma, UpdateKyma,
      ToggleKubeconfig, DeleteMappingByUser, Change, Reconcile, CatchUp, dirVars
<1>7. QED
  BY <1>4, <1>5, <1>6 DEF Next

\* What DeregisterFromCompass ends belongs to the Kyma of the request, so it is
\* not in use for another one, and for this one only where the Kyma is gone.
LEMMA DeregistersItsOwn ==
  ASSUME TypeOK, CutInv, Live(job.id) => runtimes[job.id].kyma = job.key,
         NEW o, DeregisterFromCompass(o), NEW i \in RuntimeIDs, Live(i), ~Live(i)',
         NEW k \in Kymas, agent[k].id = i, runtimes[i].kyma = k
  PROVE  Gone(k)
<1>1. job.pc = "deregister" /\ (Gone(job.key) \/ agent[job.key].id = NoID)
  BY DEF DeregisterFromCompass, At, CutInv, DeletionSteps
<1>2. i = job.id
  <2>1. \/ runtimes' = runtimes
        \/ runtimes' = [runtimes EXCEPT ![job.id].state = "deleted"]
    BY DEF DeregisterFromCompass, DeleteRuntime
  <2>2. QED
    BY <2>1 DEF Live, TypeOK, DirTypeOK
<1>3. k = job.key /\ i # NoID
  BY <1>2, LandscapeAssumption
<1>4. QED
  BY <1>1, <1>3

\* No cluster in use loses its runtime, whether registration is on or off,
\* however stale the ID under way is, whatever names are used again, wherever
\* accounts move and whoever has deleted the mapping: the ID under way belongs to
\* the Kyma of the request (OwnerInv), like the one its agent has, and if that
\* Kyma is there again, its new cluster has no agent before the deletion is over
\* (CutInv).
THEOREM AgentsKeepTheirRuntimes == Spec => AgentsAreNotCutOff
<1>1. /\ OwnerInv => (Live(job.id) => runtimes[job.id].kyma = job.key)
      /\ OwnerInv => \A k \in Kymas : Live(agent[k].id) => runtimes[agent[k].id].kyma = k
  BY DEF OwnerInv, Owns, Live
<1>2. TypeOK /\ CutInv /\ OwnerInv /\ [Next]_vars =>
        [\A i \in RuntimeIDs : Live(i) /\ ~Live(i)' =>
           \A k \in Kymas : agent[k].id = i => kyma[k].phase = "deleted"]_vars
  BY <1>1, LiveStaysLive, DeregistersItsOwn DEF Gone
<1>3. QED
  BY <1>2, KeyInit, KeyStep, OwnerInit, OwnerStep, TypeCorrect, PTL
  DEF Spec, AgentsAreNotCutOff

-----------------------------------------------------------------------------
(***************************************************************************)
(* The cleanup of a deleted Kyma.                                          *)
(***************************************************************************)
UpToDate == "cacheLag" \notin Disturbances

\* What the worker has seen of the mapping it deletes is still so.
DeletionFits ==
  LET m == mapping[job.key]
  IN /\ job.pc = "removeFinalizer" /\ job.terminating => ~m.exists \/ m.deleting
     /\ job.pc = "deleteMapping" => ~m.exists \/ ~m.finalizer

\* No cleanup after a Kyma of S has been forgotten.
DeletionInv(S) ==
  /\ mappingCache = mapping
  /\ \A k \in S : ~Forgotten(k)
  /\ DeletionFits

\* At first no Kyma has been deleted.
LEMMA DeletionInit ==
  ASSUME NEW S \in SUBSET Kymas
  PROVE  Init => DeletionInv(S)
  BY DEF Init, CPInit, NoMapping, Idle, DeletionInv, Forgotten, DeletionFits

\* A step of the worker that ends in one of these ways forgets no deletion: it
\* brings its request back, goes on, or was not about a deletion.
LEMMA DeletionMoves ==
  ASSUME NEW S \in SUBSET Kymas, TypeOK, DeletionInv(S),
         NEW k \in Kymas, k = job.key, UNCHANGED kyma,
         mappingCache' = mapping',
         \A j \in Kymas \ {k} : mapping'[j] = mapping[j],
         kyma[k].phase = "deleted" /\ mapping'[k].exists => mapping[k].exists,
         \/ Return(TRUE)
         \/ Return(FALSE) /\ (job.pc \notin DeletionSteps \/ ~mapping'[k].exists)
         \/ \E j : /\ GoOn(j) /\ j.key = k
                   /\ job.pc \in DeletionSteps => j.pc \in DeletionSteps,
         DeletionFits'
  PROVE  DeletionInv(S)'
<1>1. ASSUME NEW j \in S, Forgotten(j)'
      PROVE  FALSE
  <2>1. kyma[j].phase = "deleted" /\ mapping[j].exists
    BY <1>1 DEF Forgotten
  <2>2. CASE j # k
    <3>1. j \in queue
      BY <1>1, <2>1, <2>2 DEF DeletionInv, Forgotten, CleansUp
    <3>2. QED
      BY <1>1, <3>1 DEF Return, GoOn, Forgotten
  <2>3. CASE j = k
    <3>1. j \in queue \/ job.pc \in DeletionSteps
      BY <2>1 DEF DeletionInv, Forgotten, CleansUp, DeletionSteps
    <3>2. mapping'[k].exists /\ j \notin queue' /\ ~CleansUp(k)'
      BY <1>1, <2>3 DEF Forgotten
    <3>3. CASE \/ Return(TRUE)
               \/ Return(FALSE) /\ (job.pc \notin DeletionSteps \/ ~mapping'[k].exists)
      BY <2>3, <3>1, <3>2, <3>3 DEF Return
    <3>4. CASE \E n : /\ GoOn(n) /\ n.key = k
                      /\ job.pc \in DeletionSteps => n.pc \in DeletionSteps
      BY <2>3, <3>1, <3>2, <3>4 DEF GoOn, CleansUp, DeletionSteps
    <3>5. QED
      BY <3>3, <3>4
  <2>4. QED
    BY <2>2, <2>3
<1>2. QED
  BY <1>1 DEF DeletionInv

\* Reconcile drops a request of a deleted Kyma only when there is no mapping.
LEMMA DeletionReconcile ==
  ASSUME NEW S \in SUBSET Kymas, TypeOK, DeletionInv(S), NEW k \in Kymas, Reconcile(k)
  PROVE  DeletionInv(S)'
<1>1. /\ UNCHANGED <<kyma, mapping, mappingCache>> /\ job = Idle
      /\ mappingCache = mapping /\ kyma[k].phase \in {"absent", "present", "deleted"}
  BY DEF Reconcile, cpVars, DeletionInv, TypeOK, CPTypeOK, KymaCR
<1>2. /\ DeletionFits'
      /\ kyma[k].phase = "deleted" /\ mapping[k].exists => CleansUp(k)'
      /\ queue' = queue \/ queue' = queue \ {k}
  <2>1. ASSUME NEW p, NEW i, NEW a, Start(k, p, i, a),
               p \notin {"removeFinalizer", "deleteMapping"}
        PROVE  /\ DeletionFits' /\ queue' = queue \ {k}
               /\ p \in DeletionSteps => CleansUp(k)'
    BY <2>1 DEF Start, Idle, DeletionFits, CleansUp, DeletionSteps
  <2>2. UNCHANGED job => DeletionFits'
    BY <1>1 DEF Idle, DeletionFits
  <2>3. CASE ~Present(k) /\ handleKymaDeletion(k)
    BY <1>1, <2>1, <2>2, <2>3
    DEF handleKymaDeletion, GetCompassMapping, Drop, DeletionSteps
  <2>4. CASE Present(k)
    BY <2>1, <2>2, <2>4 DEF Reconcile, AwaitKubeconfig, NoGlobalAccount, Drop, Present
  <2>5. QED
    BY <2>3, <2>4 DEF Reconcile
<1>3. \A j \in S : kyma[j].phase = "deleted" /\ mapping[j].exists => j \in queue
  BY <1>1 DEF DeletionInv, Forgotten, CleansUp, DeletionSteps, Idle
<1>4. QED
  BY <1>1, <1>2, <1>3 DEF DeletionInv, Forgotten

\* The steps that leave the control plane alone.
LEMMA DeletionJobSteps ==
  ASSUME NEW S \in SUBSET Kymas, TypeOK, DeletionInv(S), NEW o, NEW i,
         \/ CheckStatus
         \/ ReadMapping
         \/ ReadFails
         \/ RegisterInCompass(o, i)
         \/ FetchCompassToken(o)
         \/ UpsertAgentSecret(o)
         \/ DeregisterFromCompass(o)
  PROVE  DeletionInv(S)'
<1>1. /\ UNCHANGED <<kyma, mapping, mappingCache>> /\ mappingCache = mapping
      /\ job \in Job /\ job.key \in Kymas
  BY NotIdle
  DEF CheckStatus, ReadMapping, ReadFails, RegisterInCompass, FetchCompassToken,
      UpsertAgentSecret, DeregisterFromCompass, At, cpVars, DeletionInv, TypeOK,
      WorkTypeOK
<1>2. ASSUME NEW g
      PROVE  SettingStatus(g).key = job.key /\ SettingStatus(g).pc = "setStatus"
  BY DEF SettingStatus, Idle
<1>3. CASE Return(TRUE)
  <2>1. DeletionFits'
    BY <1>3 DEF Return, Idle, DeletionFits
  <2>2. QED
    BY <1>1, <1>3, <2>1, DeletionMoves
<1>4. ASSUME NEW j, GoOn(j), j.key = job.key,
             \/ job.pc \in DeletionSteps /\ j.pc \in DeletionSteps
             \/ job.pc \notin DeletionSteps,
             \/ j.pc \notin {"removeFinalizer", "deleteMapping"}
             \/ /\ j.pc = "removeFinalizer"
                /\ j.terminating = mapping[job.key].deleting
      PROVE  DeletionInv(S)'
  <2>1. DeletionFits'
    BY <1>1, <1>4 DEF GoOn, DeletionFits
  <2>2. QED
    BY <1>1, <1>4, <2>1, DeletionMoves
<1>5. CASE CheckStatus \/ FetchCompassToken(o) \/ UpsertAgentSecret(o) \/ RegisterInCompass(o, i)
  <2>1. job.pc \in {"checkStatus", "fetchToken", "writeSecret", "register"}
    BY <1>5 DEF CheckStatus, FetchCompassToken, UpsertAgentSecret, RegisterInCompass, At
  <2>2. \/ Return(TRUE)
        \/ \E g : GoOn(SettingStatus(g))
        \/ \E j : /\ GoOn(j) /\ j.key = job.key
                  /\ j.pc \in {"register", "fetchToken", "writeSecret", "upsertMapping"}
    <3>1. /\ [job EXCEPT !.pc = "register"].key = job.key
          /\ [job EXCEPT !.pc = "register"].pc = "register"
          /\ [job EXCEPT !.pc = "fetchToken"].key = job.key
          /\ [job EXCEPT !.pc = "fetchToken"].pc = "fetchToken"
          /\ [job EXCEPT !.pc = "writeSecret", !.attempt = 0].key = job.key
          /\ [job EXCEPT !.pc = "writeSecret", !.attempt = 0].pc = "writeSecret"
          /\ [Idle EXCEPT !.pc = "upsertMapping", !.key = job.key, !.id = i].key = job.key
          /\ [Idle EXCEPT !.pc = "upsertMapping", !.key = job.key, !.id = i].pc
               = "upsertMapping"
          /\ [job EXCEPT !.attempt = @ + 1].key = job.key
          /\ [job EXCEPT !.attempt = @ + 1].pc = job.pc
          /\ [job EXCEPT !.taken = @ \/ TookEffect(o), !.attempt = @ + 1].key = job.key
          /\ [job EXCEPT !.taken = @ \/ TookEffect(o), !.attempt = @ + 1].pc = job.pc
      BY <1>1 DEF Job, Idle
    <3>2. CASE CheckStatus
      BY <3>1, <3>2 DEF CheckStatus
    <3>3. CASE FetchCompassToken(o)
      <4>1. At("fetchToken")
        BY <3>3 DEF FetchCompassToken
      <4>2. QED
        BY <3>1, <3>3, <4>1 DEF FetchCompassToken, RetryOnError, At
    <3>4. CASE UpsertAgentSecret(o)
      BY <3>4 DEF UpsertAgentSecret
    <3>5. CASE RegisterInCompass(o, i)
      <4>1. At("register")
        BY <3>5 DEF RegisterInCompass
      <4>2. QED
        <5>1. \/ GoOn([Idle EXCEPT !.pc = "upsertMapping", !.key = job.key, !.id = i])
              \/ GoOn([job EXCEPT !.taken = @ \/ TookEffect(o), !.attempt = @ + 1])
              \/ GoOn(SettingStatus(Failed))
          BY <3>5 DEF RegisterInCompass, RetryOnError
        <5>2. QED
          BY <3>1, <4>1, <5>1 DEF At
    <3>6. QED
      BY <1>5, <3>2, <3>3, <3>4, <3>5
  <2>3. QED
    BY <1>2, <1>3, <1>4, <2>1, <2>2 DEF DeletionSteps
<1>6. CASE ReadMapping
  <2> DEFINE j == [job EXCEPT !.pc = "removeFinalizer",
                              !.terminating = mapping[job.key].deleting]
  <2>1. /\ job.pc = "readMapping" /\ j.key = job.key /\ j.pc = "removeFinalizer"
        /\ j.terminating = mapping[job.key].deleting
        /\ GoOn(j) \/ Return(TRUE)
    BY <1>1, <1>6 DEF ReadMapping, At, GetCompassMapping, Job
  <2> HIDE DEF j
  <2>2. QED
    BY <1>3, <1>4, <2>1 DEF DeletionSteps
<1>7. CASE DeregisterFromCompass(o)
  <2>1. /\ job.pc = "deregister"
        /\ Return(TRUE) \/ GoOn(DeletingMapping) \/ GoOn([job EXCEPT !.attempt = @ + 1])
    BY <1>7 DEF DeregisterFromCompass, At, RetryOnError, DirectorError
  <2>2. /\ DeletingMapping.key = job.key /\ DeletingMapping.pc = "readMapping"
        /\ [job EXCEPT !.attempt = @ + 1].key = job.key
        /\ [job EXCEPT !.attempt = @ + 1].pc = job.pc
    BY <1>1 DEF DeletingMapping, Idle, Job
  <2>3. QED
    BY <1>3, <1>4, <2>1, <2>2 DEF DeletionSteps
<1>8. QED
  BY <1>3, <1>5, <1>6, <1>7 DEF ReadFails

\* The steps that write mappings: the worker's Return(FALSE) comes only after the
\* mapping of a deleted Kyma is gone.
LEMMA DeletionWrites ==
  ASSUME UpToDate, NEW S \in SUBSET Kymas, TypeOK, DeletionInv(S), NEW o,
         \/ makeNewCompassMappingAndRequeue(o)
         \/ UpsertMapping(o)
         \/ SetStatus(o)
         \/ RemoveFinalizer(o)
         \/ DeleteCompassMapping(o)
  PROVE  DeletionInv(S)'
<1>0. PICK k \in Kymas : k = job.key
  BY NotIdle
  DEF TypeOK, makeNewCompassMappingAndRequeue, UpsertMapping, SetStatus,
      RemoveFinalizer, DeleteCompassMapping, At
<1>1. /\ mapping[k] \in CompassManagerMapping /\ mappingCache = mapping /\ job \in Job
      /\ kyma \in [Kymas -> KymaCR]
  BY DEF TypeOK, CPTypeOK, WorkTypeOK, DeletionInv
<1>2. ASSUME NEW b, NEW m, Write(k, b, m, o)
      PROVE  /\ UNCHANGED kyma /\ mappingCache' = mapping'
             /\ \A j \in Kymas \ {k} : mapping'[j] = mapping[j]
             /\ \/ b /\ TookEffect(o) /\ mapping'[k] = m
                \/ ~(b /\ TookEffect(o)) /\ mapping' = mapping
  BY <1>1, <1>2 DEF UpToDate, TypeOK, CPTypeOK, Write, Put, cpVars
<1>3. job' = Idle => DeletionFits'
  BY DEF Idle, DeletionFits
<1>4. CASE makeNewCompassMappingAndRequeue(o)
  <2> DEFINE b == CreateAccepted(k)
             m == NewMapping(NoID, kyma[k].account)
  <2>1. Write(k, b, m, o) /\ Return(TRUE) /\ (b => kyma[k].phase = "present")
    BY <1>0, <1>4
    DEF makeNewCompassMappingAndRequeue, CreateCompassMapping, CreateAccepted, Present
  <2> HIDE DEF b, m
  <2>2. QED
    BY <1>0, <1>2, <1>3, <2>1, DeletionMoves DEF Return
<1>5. CASE UpsertMapping(o)
  <2> DEFINE b == UpsertAccepted(k)
             m == Upserted(k, job.id)
  <2>1. Write(k, b, m, o) /\ Return(TRUE) /\ (b => kyma[k].phase = "present")
    BY <1>0, <1>5 DEF UpsertMapping, UpsertCompassMapping, UpsertAccepted, Present
  <2> HIDE DEF b, m
  <2>2. QED
    BY <1>0, <1>2, <1>3, <2>1, DeletionMoves DEF Return
<1>6. CASE SetStatus(o)
  <2> DEFINE b == Updatable(k)
             m == [mapping[k] EXCEPT !.status = MappingStatusOf(job.goal)]
  <2>1. /\ Write(k, b, m, o) /\ job.pc \notin DeletionSteps
        /\ Return(TRUE) \/ Return(FALSE)
        /\ m.exists = mapping[k].exists
    BY <1>0, <1>1, <1>6
    DEF SetStatus, SetCompassMappingStatus, GetCompassMapping, At, DeletionSteps,
        CompassManagerMapping
  <2> HIDE DEF b, m
  <2>2. QED
    BY <1>0, <1>2, <1>3, <2>1, DeletionMoves DEF Return
<1>7. CASE RemoveFinalizer(o)
  <2> DEFINE b == Updatable(k)
             m == IF mapping[k].deleting THEN NoMapping
                  ELSE [mapping[k] EXCEPT !.finalizer = FALSE]
  <2>1. /\ Write(k, b, m, o) /\ job.pc = "removeFinalizer"
        /\ job.terminating => ~mapping[k].exists \/ mapping[k].deleting
        /\ b => mapping[k].exists
        /\ m.exists => mapping[k].exists /\ ~m.finalizer /\ ~mapping[k].deleting
    BY <1>0, <1>1, <1>7
    DEF RemoveFinalizer, RemoveCMFinalizer, GetCompassMapping, Updatable, At,
        DeletionInv, DeletionFits, CompassManagerMapping, NoMapping
  <2>2. \/ Return(TRUE)
        \/ b /\ o = "ok" /\ job.terminating /\ Return(FALSE)
        \/ b /\ o = "ok" /\ GoOn([job EXCEPT !.pc = "deleteMapping"])
    BY <1>0, <1>7 DEF RemoveFinalizer
  <2>3. /\ [job EXCEPT !.pc = "deleteMapping"].pc = "deleteMapping"
        /\ [job EXCEPT !.pc = "deleteMapping"].key = job.key
    BY <1>1 DEF Job
  <2> HIDE DEF b, m
  <2>4. CASE Return(TRUE)
    BY <1>0, <1>2, <1>3, <2>1, <2>4, DeletionMoves DEF Return
  <2>5. CASE b /\ o = "ok" /\ job.terminating /\ Return(FALSE)
    <3>1. ~mapping'[k].exists
      BY <1>2, <2>1, <2>5 DEF TookEffect
    <3>2. QED
      BY <1>0, <1>2, <1>3, <2>1, <2>5, <3>1, DeletionMoves DEF Return
  <2>6. CASE b /\ o = "ok" /\ GoOn([job EXCEPT !.pc = "deleteMapping"])
    <3>1. mapping'[k] = m
      BY <1>2, <2>1, <2>6 DEF TookEffect
    <3>2. job'.pc = "deleteMapping" /\ job'.key = k
      BY <1>0, <2>3, <2>6 DEF GoOn
    <3>3. DeletionFits'
      BY <2>1, <3>1, <3>2 DEF DeletionFits
    <3>4. QED
      BY <1>0, <1>2, <2>1, <2>3, <2>6, <3>3, DeletionMoves DEF DeletionSteps
  <2>7. QED
    BY <2>2, <2>4, <2>5, <2>6
<1>8. CASE DeleteCompassMapping(o)
  <2> DEFINE b == mapping[k].exists
             m == Deleted(mapping[k])
  <2>1. /\ Write(k, b, m, o)
        /\ ~m.exists \/ ~b
        /\ Return(~(b /\ o = "ok"))
    BY <1>0, <1>1, <1>8
    DEF DeleteCompassMapping, DeleteMapping, Deleted, At, DeletionInv, DeletionFits,
        NoMapping
  <2>2. Return(TRUE) \/ (Return(FALSE) /\ b /\ o = "ok")
    BY <1>1, <2>1 DEF CompassManagerMapping
  <2>3. (mapping'[k].exists => mapping[k].exists) /\ (b /\ o = "ok" => ~mapping'[k].exists)
    <3> HIDE DEF m
    <3> QED
      BY <1>2, <2>1 DEF TookEffect
  <2> HIDE DEF b, m
  <2>4. QED
    BY <1>0, <1>2, <1>3, <2>1, <2>2, <2>3, DeletionMoves DEF Return
<1>9. QED
  BY <1>4, <1>5, <1>6, <1>7, <1>8

\* A deletion is put into the queue when it happens.
LEMMA DeletionEnvironment ==
  ASSUME UpToDate, NEW S \in SUBSET Kymas, TypeOK, DeletionInv(S), NEW k \in Kymas,
         \/ \E m \in BOOLEAN, a \in AccountLabel : CreateKyma(k, m, a)
         \/ DeleteKyma(k)
         \/ UpdateKyma(k)
         \/ ToggleKubeconfig(k)
         \/ DeleteMappingByUser(k)
         \/ CatchUp(k)
  PROVE  DeletionInv(S)'
<1>1. /\ mapping[k] \in CompassManagerMapping /\ mappingCache = mapping
      /\ kyma \in [Kymas -> KymaCR]
  BY DEF TypeOK, CPTypeOK, DeletionInv
<1>2. CASE \E m \in BOOLEAN, a \in AccountLabel : CreateKyma(k, m, a)
  <2>1. /\ UNCHANGED <<mapping, mappingCache, job>> /\ queue \subseteq queue'
        /\ \E m, a : kyma' = [kyma EXCEPT ![k] =
                      [phase |-> "present", module |-> m, account |-> a]]
    BY <1>2 DEF CreateKyma, Change, KymaIsCreated, SetKyma, Enqueue
  <2>2. QED
    BY <1>1, <2>1 DEF DeletionInv, DeletionFits, Forgotten, CleansUp
<1>3. CASE DeleteKyma(k)
  <2>1. /\ UNCHANGED <<mapping, mappingCache, job>> /\ queue' = queue \cup {k}
        /\ kyma' = [kyma EXCEPT ![k] = DeletedKyma]
    BY <1>3 DEF DeleteKyma, Change, KymaIsDeleted, SetKyma, Enqueue, DeleteFunc
  <2>2. QED
    BY <1>1, <2>1 DEF DeletionInv, DeletionFits, Forgotten, CleansUp
<1>4. CASE UpdateKyma(k)
  <2>1. /\ UNCHANGED <<mapping, mappingCache, job>> /\ queue \subseteq queue'
        /\ kyma'[k].phase = "present"
        /\ \A j \in Kymas \ {k} : kyma'[j] = kyma[j]
    <3>1. UNCHANGED <<mapping, mappingCache, job>> /\ queue \subseteq queue'
      BY <1>4
      DEF UpdateKyma, Change, ModuleIsToggled, KymaIsLabelled, SetKyma, Enqueue
    <3>2. CASE ModuleIsToggled(k)
      BY <1>1, <3>1, <3>2 DEF ModuleIsToggled, SetKyma, Present, KymaCR
    <3>3. CASE \E a \in Accounts : KymaIsLabelled(k, a)
      BY <1>1, <3>1, <3>3 DEF KymaIsLabelled, SetKyma, Present, KymaCR
    <3>4. QED
      BY <1>4, <3>2, <3>3 DEF UpdateKyma
  <2>2. QED
    BY <1>1, <2>1 DEF DeletionInv, DeletionFits, Forgotten, CleansUp
<1>5. CASE ToggleKubeconfig(k)
  BY <1>5
  DEF ToggleKubeconfig, Change, KubeconfigIsToggled, DeletionInv, DeletionFits,
      Forgotten, CleansUp
<1>6. CASE DeleteMappingByUser(k)
  <2>1. /\ UNCHANGED <<kyma, queue, job>> /\ mappingCache' = mapping'
        /\ mapping'[k] = Deleted(mapping[k])
        /\ \A j \in Kymas \ {k} : mapping'[j] = mapping[j]
    BY <1>1, <1>6
    DEF DeleteMappingByUser, Change, MappingIsDeletedByUser, Put, UpToDate, TypeOK,
        CPTypeOK
  <2>2. /\ mapping'[k].exists => mapping[k].exists /\ mapping'[k].deleting
        /\ mapping'[k].exists => mapping'[k].finalizer = mapping[k].finalizer
    <3> DEFINE m == Deleted(mapping[k])
    <3>1. /\ m.exists => mapping[k].exists /\ m.deleting
          /\ m.exists => m.finalizer = mapping[k].finalizer
      BY <1>1 DEF Deleted, NoMapping, CompassManagerMapping
    <3>2. mapping'[k] = m
      BY <2>1
    <3> HIDE DEF m
    <3>3. QED
      BY <3>1, <3>2
  <2>3. DeletionFits'
    <3>1. CASE job.pc = "idle"
      BY <2>1, <3>1 DEF DeletionFits
    <3>2. CASE job.pc # "idle"
      <4>1. PICK j \in Kymas : j = job.key
        BY <3>2, NotIdle DEF TypeOK
      <4>2. mapping'[j].exists => /\ mapping[j].exists
                                  /\ mapping[j].deleting => mapping'[j].deleting
                                  /\ mapping'[j].finalizer = mapping[j].finalizer
        BY <2>1, <2>2
      <4>3. QED
        BY <2>1, <4>1, <4>2 DEF DeletionInv, DeletionFits
    <3>3. QED
      BY <3>1, <3>2
  <2>4. QED
    BY <2>1, <2>2, <2>3 DEF DeletionInv, Forgotten, CleansUp
<1>7. CASE CatchUp(k)
  BY <1>1, <1>7 DEF CatchUp, WatchMapping
<1>8. QED
  BY <1>2, <1>3, <1>4, <1>5, <1>6, <1>7

\* Every step but a restart keeps DeletionInv, for every set of Kymas.
LEMMA DeletionStep ==
  ASSUME UpToDate, NEW S \in SUBSET Kymas
  PROVE  TypeOK /\ DeletionInv(S) /\ [Next]_vars => DeletionInv(S)' \/ Restart
<1> SUFFICES ASSUME TypeOK, DeletionInv(S), [Next]_vars, ~Restart
             PROVE  DeletionInv(S)'
  OBVIOUS
<1>1. CASE UNCHANGED vars
  BY <1>1 DEF vars, DeletionInv, DeletionFits, Forgotten, CleansUp
<1>2. CASE Worker
  BY <1>2, DeletionJobSteps, DeletionWrites DEF Worker
<1>3. CASE ReadFails
  BY <1>3, DeletionJobSteps
<1>4. QED
  BY <1>1, <1>2, <1>3, DeletionReconcile, DeletionEnvironment
  DEF Next, Environment, Others

\* The cleanup of a deleted Kyma is never forgotten: mappings are not watched, so
\* the queue and the worker are the only memory of it, and every way out of
\* handleKymaDeletion leaves the request there until the mapping is gone.  The
\* manager is not restarted here; the next theorem is about one that is.
THEOREM DeletionIsNotLost ==
  ASSUME UpToDate, MaxRestarts = 0
  PROVE  Spec => []NoLostDeletion
<1>1. DeletionInv(Kymas) => NoLostDeletion
  BY DEF DeletionInv, NoLostDeletion
<1>2. TypeOK => ~Restart
  <2>1. TypeOK => ~(restarts < MaxRestarts)
    BY DEF TypeOK
  <2>2. QED
    BY <2>1 DEF Restart
<1>3. TypeOK /\ DeletionInv(Kymas) /\ [Next]_vars => DeletionInv(Kymas)'
  BY <1>2, DeletionStep
<1>4. Init => DeletionInv(Kymas)
  BY DeletionInit
<1>5. QED
  BY <1>1, <1>3, <1>4, TypeCorrect, PTL DEF Spec

\* A process that ends is the only thing that makes the manager forget a cleanup,
\* however many processes there are: what one of them has in its queue, or is
\* working on, it does not drop before the mapping is gone.
THEOREM OnlyRestartsForgetDeletions ==
  ASSUME UpToDate
  PROVE  Spec => OnlyCrashesForget
<1>1. TypeOK /\ DeletionInv({}) /\ [Next]_vars => DeletionInv({})'
  <2>1. Restart => DeletionInv({})'
    BY DEF Restart, Idle, DeletionInv, DeletionFits
  <2>2. QED
    BY <2>1, DeletionStep
<1>2. TypeOK /\ DeletionInv({}) /\ [Next]_vars =>
        [\A k \in Kymas : Forgotten(k)' => Forgotten(k) \/ restarts' # restarts]_vars
  <2> SUFFICES ASSUME TypeOK, DeletionInv({}), [Next]_vars, NEW k \in Kymas,
                      Forgotten(k)', ~Forgotten(k), restarts' = restarts
               PROVE  FALSE
    OBVIOUS
  <2>1. ~Restart
    BY DEF Restart, TypeOK
  <2>2. DeletionInv({k})
    BY DEF DeletionInv
  <2>3. DeletionInv({k})'
    BY <2>1, <2>2, DeletionStep
  <2>4. QED
    BY <2>3 DEF DeletionInv
<1>3. Init => DeletionInv({})
  BY DeletionInit
<1>4. QED
  BY <1>1, <1>2, <1>3, TypeCorrect, PTL DEF Spec, OnlyCrashesForget
=============================================================================
