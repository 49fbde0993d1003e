------------------------ MODULE CompassManagerProofs ------------------------
(***************************************************************************)
(* Type correctness of CompassManager: lemmas on the records and on the    *)
(* helpers the steps are built from, then one lemma for each action.  And  *)
(* what becomes of a Status that is stored and read back.                  *)
(***************************************************************************)
EXTENDS CompassManager, TLAPS

\* The worker without a request is a job of the right type.
LEMMA IdleIsJob == Idle \in Job
  BY ManagerAssumption DEF Idle, Job, Steps, RuntimeLabel, AccountLabel, Status, Empty

\* No mapping, and what Create sends, are mappings of the right type.
LEMMA MappingTypes ==
  /\ NoMapping \in CompassManagerMapping
  /\ \A i \in RuntimeLabel, a \in AccountLabel : NewMapping(i, a) \in CompassManagerMapping
  BY DEF NoMapping, NewMapping, CompassManagerMapping, RuntimeLabel, AccountLabel,
    EmptyMappingStatus, CompassManagerMappingStatus, StateTexts, NoState

\* The writes of the manager and of the API server keep a mapping well-formed.
LEMMA MappingUpdates ==
  ASSUME NEW m \in CompassManagerMapping
  PROVE  /\ \A i \in RuntimeLabel, a \in AccountLabel : [m EXCEPT !.id = i, !.account = a] \in CompassManagerMapping
         /\ \A s \in CompassManagerMappingStatus : [m EXCEPT !.status = s] \in CompassManagerMapping
         /\ [m EXCEPT !.finalizer = FALSE] \in CompassManagerMapping
         /\ Deleted(m) \in CompassManagerMapping
  BY MappingTypes DEF CompassManagerMapping, Deleted

\* What is stored for a Status is a status of the custom resource.
LEMMA StatusTypes ==
  ASSUME NEW s \in Status
  PROVE  StateText(s) \in StateTexts /\ MappingStatusOf(s) \in CompassManagerMappingStatus
  BY DEF StateText, MappingStatusOf, StateTexts, CompassManagerMappingStatus

\* Every job the steps make, from a job j of the right type.
LEMMA JobTypes ==
  ASSUME NEW j \in Job
  PROVE  /\ \A p \in Steps : [j EXCEPT !.pc = p] \in Job
         /\ \A k \in Kymas : [j EXCEPT !.key = k] \in Job
         /\ \A i \in RuntimeLabel : [j EXCEPT !.id = i] \in Job
         /\ \A a \in AccountLabel : [j EXCEPT !.account = a] \in Job
         /\ \A g \in Status : [j EXCEPT !.goal = g] \in Job
         /\ \A b \in BOOLEAN : [j EXCEPT !.terminating = b] \in Job
         /\ \A b \in BOOLEAN : [j EXCEPT !.taken = b] \in Job
         /\ [j EXCEPT !.attempt = 0] \in Job
         /\ j.attempt + 1 # Attempts => [j EXCEPT !.attempt = @ + 1] \in Job
<1>1. /\ \A p \in Steps : [j EXCEPT !.pc = p] \in Job
      /\ \A k \in Kymas : [j EXCEPT !.key = k] \in Job
      /\ \A i \in RuntimeLabel : [j EXCEPT !.id = i] \in Job
      /\ \A a \in AccountLabel : [j EXCEPT !.account = a] \in Job
  BY DEF Job
<1>2. /\ \A g \in Status : [j EXCEPT !.goal = g] \in Job
      /\ \A b \in BOOLEAN : [j EXCEPT !.terminating = b] \in Job
      /\ \A b \in BOOLEAN : [j EXCEPT !.taken = b] \in Job
  BY DEF Job
<1>3. 0 \in 0..(Attempts - 1)
  BY ManagerAssumption
<1>4. [j EXCEPT !.attempt = 0] \in Job
  BY <1>3 DEF Job
<1>5. j.attempt \in 0..(Attempts - 1)
  BY DEF Job
<1>6. ASSUME j.attempt + 1 # Attempts
      PROVE  [j EXCEPT !.attempt = @ + 1] \in Job
  <2>1. j.attempt + 1 \in 0..(Attempts - 1)
    BY <1>5, <1>6, ManagerAssumption
  <2>2. QED
    BY <2>1 DEF Job
<1>7. QED
  BY <1>1, <1>2, <1>4, <1>6

\* While a call of Reconcile is under way, its request names a Kyma.
LEMMA NotIdle ==
  ASSUME WorkTypeOK, job.pc # "idle"
  PROVE  job.key \in Kymas /\ job # Idle
  BY DEF WorkTypeOK, Job, Idle

\* The forms in which a step changes the queue and the job.
LEMMA ReturnTypes ==
  ASSUME WorkTypeOK, job.key \in Kymas, NEW b \in BOOLEAN, Return(b)
  PROVE  WorkTypeOK'
  BY IdleIsJob DEF WorkTypeOK, Return, Idle

\* Going on with another job of the right type.
LEMMA GoOnTypes ==
  ASSUME WorkTypeOK, NEW j \in Job, j.key \in Kymas, GoOn(j)
  PROVE  WorkTypeOK'
  BY IdleIsJob, LandscapeAssumption DEF WorkTypeOK, GoOn, Idle

\* Starting a call of Reconcile takes its request from the queue.
LEMMA StartTypes ==
  ASSUME WorkTypeOK, NEW k \in Kymas, NEW p \in Steps, NEW i \in RuntimeLabel,
         NEW a \in AccountLabel, Start(k, p, i, a)
  PROVE  WorkTypeOK'
<1>1. job' \in Job
  BY IdleIsJob, JobTypes DEF Start
<1>2. job'.key = k
  BY DEF Start, Idle
<1>3. QED
  BY <1>1, <1>2, LandscapeAssumption DEF WorkTypeOK, Start, Idle

\* Ending a request at once leaves a well-formed queue.
LEMMA DropTypes ==
  ASSUME WorkTypeOK, NEW k, Drop(k)
  PROVE  WorkTypeOK'
  BY DEF WorkTypeOK, Drop

\* The job that sets a status is well-formed and keeps its Kyma.
LEMMA SettingStatusTypes ==
  ASSUME WorkTypeOK, job.key \in Kymas, NEW g \in Status
  PROVE  SettingStatus(g) \in Job /\ SettingStatus(g).key = job.key
<1>1. "setStatus" \in Steps
  BY DEF Steps
<1>2. SettingStatus(g) \in Job
  BY <1>1, IdleIsJob, JobTypes DEF SettingStatus
<1>3. QED
  BY <1>2 DEF SettingStatus, Idle

\* UpdateState shows one of the four states.
LEMMA GaugeTypes ==
  ASSUME gauge \in [Kymas -> StateTexts], NEW k \in Kymas, NEW g \in Status,
         UpdateState(k, g)
  PROVE  gauge' \in [Kymas -> StateTexts]
<1>1. NoState \in StateTexts /\ StateText(g) \in StateTexts
  BY StatusTypes DEF StateTexts
<1>2. QED
  BY <1>1 DEF UpdateState

\* A write of a well-formed mapping, accepted or not, effective or not.
LEMMA WriteTypes ==
  ASSUME CPTypeOK, NEW k \in Kymas, NEW m \in CompassManagerMapping,
         NEW b \in BOOLEAN, NEW o, Write(k, b, m, o)
  PROVE  CPTypeOK'
  BY DEF Write, Put, CPTypeOK, cpVars

\* The counter of failed calls stays within its bound.
LEMMA SpendTypes ==
  ASSUME TypeOK, NEW o, Spend(o)
  PROVE  faults' \in 0..MaxFaults
  BY ManagerAssumption DEF TypeOK, Spend

\* Each operation of ControlPlaneInterface keeps the control plane well-formed.
LEMMA MappingStepTypes ==
  ASSUME CPTypeOK, NEW k \in Kymas
  PROVE  /\ GetCompassMapping(k) \in CompassManagerMapping
         /\ mapping[k] \in CompassManagerMapping
         /\ Updatable(k) \in BOOLEAN
         /\ \A o : CreateCompassMapping(k, o) => CPTypeOK'
         /\ \A i \in RuntimeLabel : \A o : UpsertCompassMapping(k, i, o) => CPTypeOK'
         /\ \A g \in Status : \A o : SetCompassMappingStatus(k, g, o) => CPTypeOK'
         /\ \A o : RemoveCMFinalizer(k, o) => CPTypeOK'
         /\ \A o : DeleteMapping(k, o) => CPTypeOK'
<1>1. /\ GetCompassMapping(k) \in CompassManagerMapping
      /\ mapping[k] \in CompassManagerMapping
      /\ Updatable(k) \in BOOLEAN
  BY DEF CPTypeOK, GetCompassMapping, Updatable
<1>2. kyma[k].account \in AccountLabel /\ Present(k) \in BOOLEAN
  BY DEF CPTypeOK, KymaCR, Present
<1>3. NoID \in RuntimeLabel
  BY DEF RuntimeLabel
<1>4. ASSUME NEW o, CreateCompassMapping(k, o)
      PROVE  CPTypeOK'
  <2>1. NewMapping(NoID, kyma[k].account) \in CompassManagerMapping
    BY <1>2, <1>3, MappingTypes
  <2>2. CreateAccepted(k) \in BOOLEAN
    BY <1>1, <1>2 DEF CreateAccepted, Creatable, CompassManagerMapping
  <2>3. QED
    BY <1>4, <2>1, <2>2, WriteTypes DEF CreateCompassMapping
<1>5. ASSUME NEW i \in RuntimeLabel, NEW o, UpsertCompassMapping(k, i, o)
      PROVE  CPTypeOK'
  <2>1. Upserted(k, i) \in CompassManagerMapping
    BY <1>1, <1>2, MappingTypes, MappingUpdates DEF Upserted
  <2>2. UpsertAccepted(k) \in BOOLEAN
    BY <1>1, <1>2 DEF UpsertAccepted, Creatable, CompassManagerMapping
  <2>3. QED
    BY <1>5, <2>1, <2>2, WriteTypes DEF UpsertCompassMapping
<1>6. ASSUME NEW g \in Status, NEW o, SetCompassMappingStatus(k, g, o)
      PROVE  CPTypeOK'
  <2>1. [GetCompassMapping(k) EXCEPT !.status = MappingStatusOf(g)]
          \in CompassManagerMapping
    BY <1>1, StatusTypes, MappingUpdates
  <2>2. QED
    BY <1>1, <1>6, <2>1, WriteTypes DEF SetCompassMappingStatus
<1>7. ASSUME NEW o, RemoveCMFinalizer(k, o)
      PROVE  CPTypeOK'
  <2>1. [GetCompassMapping(k) EXCEPT !.finalizer = FALSE] \in CompassManagerMapping
    BY <1>1, MappingUpdates
  <2>2. (IF GetCompassMapping(k).deleting THEN NoMapping
         ELSE [GetCompassMapping(k) EXCEPT !.finalizer = FALSE])
          \in CompassManagerMapping
    BY <2>1, MappingTypes
  <2>3. QED
    BY <1>1, <1>7, <2>2, WriteTypes DEF RemoveCMFinalizer
<1>8. ASSUME NEW o, DeleteMapping(k, o)
      PROVE  CPTypeOK'
  <2>1. mapping[k].exists \in BOOLEAN
    BY <1>1 DEF CompassManagerMapping
  <2>2. Deleted(mapping[k]) \in CompassManagerMapping
    BY <1>1, MappingUpdates
  <2>3. QED
    BY <1>8, <2>1, <2>2, WriteTypes DEF DeleteMapping
<1>9. QED
  BY <1>1, <1>4, <1>5, <1>6, <1>7, <1>8

\* Types hold when the manager starts.
LEMMA TypeInit == Init => TypeOK
<1> SUFFICES ASSUME Init
             PROVE  TypeOK
  OBVIOUS
<1>1. CPTypeOK
  <2>1. AbsentKyma \in KymaCR
    BY DEF AbsentKyma, KymaCR, AccountLabel
  <2>2. kyma \in [Kymas -> KymaCR]
    BY <2>1 DEF Init, CPInit
  <2>3. QED
    BY <2>2, MappingTypes DEF Init, CPInit, CPTypeOK
<1>2. DirTypeOK
  BY DEF Init, DirInit, DirTypeOK, Runtime, UnusedRuntime, AgentSecret, NoAgent,
         AccountLabel, RuntimeLabel
<1>3. WorkTypeOK
  BY IdleIsJob DEF Init, Relisted, WorkTypeOK, Idle
<1>4. NoState \in StateTexts
  BY DEF StateTexts
<1>5. QED
  BY <1>1, <1>2, <1>3, <1>4, ManagerAssumption DEF Init, NewMetrics, TypeOK

\* Reconcile and the steps without a call that can fail.
LEMMA ReconcileTypes ==
  ASSUME TypeOK, NEW k \in Kymas, Reconcile(k)
  PROVE  TypeOK'
<1>1. WorkTypeOK /\ CPTypeOK
  BY DEF TypeOK
<1>2. /\ GetCompassMapping(k).id \in RuntimeLabel
      /\ GetCompassMapping(k).account \in AccountLabel
      /\ kyma[k].account \in AccountLabel
  BY <1>1, MappingStepTypes DEF CompassManagerMapping, CPTypeOK, KymaCR
<1>3. /\ {"deregister", "readMapping", "createMapping", "checkStatus"} \subseteq Steps
      /\ NoID \in RuntimeLabel /\ NoAccount \in AccountLabel
  BY DEF Steps, RuntimeLabel, AccountLabel
<1>4. WorkTypeOK'
  <2>1. CASE ~Present(k) /\ handleKymaDeletion(k)
    BY <1>1, <1>2, <1>3, <2>1, StartTypes, DropTypes DEF handleKymaDeletion
  <2>2. CASE Present(k) /\ AwaitKubeconfig(k)
    BY <1>1, <2>2 DEF AwaitKubeconfig, WorkTypeOK
  <2>3. CASE Present(k) /\ NoGlobalAccount(k)
    BY <1>1, <2>3, DropTypes DEF NoGlobalAccount
  <2>4. CASE Start(k, "createMapping", NoID, NoAccount)
    BY <1>1, <1>3, <2>4, StartTypes
  <2>5. CASE Start(k, "checkStatus", GetCompassRuntimeID(k), kyma[k].account)
    BY <1>1, <1>2, <1>3, <2>5, StartTypes DEF GetCompassRuntimeID
  <2>6. QED
    BY <2>1, <2>2, <2>3, <2>4, <2>5 DEF Reconcile
<1>5. QED
  BY <1>1, <1>4 DEF Reconcile, TypeOK, CPTypeOK, DirTypeOK, cpVars, dirVars, boundVars

\* The decision on the status of the mapping (Reconcile, second read).
LEMMA CheckStatusTypes ==
  ASSUME TypeOK, CheckStatus
  PROVE  TypeOK'
<1> DEFINE status == Number(GetCompassMapping(job.key).status)
<1>1. WorkTypeOK /\ job.key \in Kymas /\ job \in Job
  BY NotIdle DEF TypeOK, WorkTypeOK, CheckStatus, At
<1>2. /\ status \in Status
      /\ Processing \in Status
      /\ (status \ Failed) \cup Processing \in Status
      /\ Registered \cup Processing \in Status
  BY DEF Status, Number, Registered, Configured, Processing, Failed
<1>3. /\ [job EXCEPT !.pc = "register"] \in Job
      /\ [job EXCEPT !.pc = "fetchToken"] \in Job
  BY <1>1, JobTypes DEF Steps
<1>4. /\ [job EXCEPT !.pc = "register"].key = job.key
      /\ [job EXCEPT !.pc = "fetchToken"].key = job.key
  BY <1>1 DEF Job
<1>5. \/ Return(TRUE)
      \/ GoOn(SettingStatus(Processing))
      \/ GoOn(SettingStatus((status \ Failed) \cup Processing))
      \/ GoOn([job EXCEPT !.pc = "register"])
      \/ GoOn(SettingStatus(Registered \cup Processing))
      \/ GoOn([job EXCEPT !.pc = "fetchToken"])
  BY DEF CheckStatus
<1>6. WorkTypeOK'
  BY <1>1, <1>2, <1>3, <1>4, <1>5, ReturnTypes, GoOnTypes, SettingStatusTypes
<1>7. gauge' \in [Kymas -> StateTexts]
  <2>1. gauge' = gauge \/ UpdateState(job.key, Registered \cup Processing)
    BY DEF CheckStatus
  <2>2. QED
    BY <1>1, <1>2, <2>1, GaugeTypes DEF TypeOK
<1>8. QED
  BY <1>6, <1>7 DEF CheckStatus, TypeOK, CPTypeOK, DirTypeOK, cpVars, dirVars, boundVars

\* The read at the start of DeleteCompassMapping.
LEMMA ReadMappingTypes ==
  ASSUME TypeOK, ReadMapping
  PROVE  TypeOK'
<1>1. WorkTypeOK /\ CPTypeOK /\ job.key \in Kymas /\ job \in Job
  BY NotIdle DEF TypeOK, WorkTypeOK, ReadMapping, At
<1>2. GetCompassMapping(job.key).deleting \in BOOLEAN
  BY <1>1, MappingStepTypes DEF CompassManagerMapping
<1> DEFINE j == [job EXCEPT !.pc = "removeFinalizer",
                            !.terminating = GetCompassMapping(job.key).deleting]
<1>3. j \in Job /\ j.key = job.key
  <2>1. [job EXCEPT !.pc = "removeFinalizer"] \in Job
    BY <1>1, JobTypes DEF Steps
  <2>2. j \in Job
    BY <1>2, <2>1, JobTypes
  <2>3. j.key = job.key
    BY <1>1 DEF Job
  <2>4. QED
    BY <2>2, <2>3
<1>4. GoOn(j) \/ Return(TRUE)
  BY DEF ReadMapping
<1>5. WorkTypeOK'
  <2> HIDE DEF j
  <2> QED
    BY <1>1, <1>3, <1>4, GoOnTypes, ReturnTypes
<1>6. QED
  BY <1>5 DEF ReadMapping, TypeOK, CPTypeOK, DirTypeOK, cpVars, dirVars, boundVars

\* The steps with a call that can fail.
LEMMA SetStatusTypes ==
  ASSUME TypeOK, NEW o, SetStatus(o)
  PROVE  TypeOK'
<1>1. WorkTypeOK /\ CPTypeOK /\ job.key \in Kymas /\ job.goal \in Status
  BY NotIdle DEF TypeOK, WorkTypeOK, SetStatus, At, Job
<1>2. CPTypeOK'
  BY <1>1, MappingStepTypes DEF SetStatus
<1>3. WorkTypeOK'
  BY <1>1, ReturnTypes DEF SetStatus
<1>4. faults' \in 0..MaxFaults
  BY SpendTypes DEF SetStatus
<1>5. QED
  BY <1>2, <1>3, <1>4 DEF SetStatus, TypeOK, DirTypeOK, dirVars

\* Creating the first mapping of a Kyma.
LEMMA MakeNewCompassMappingTypes ==
  ASSUME TypeOK, NEW o, makeNewCompassMappingAndRequeue(o)
  PROVE  TypeOK'
<1>1. WorkTypeOK /\ CPTypeOK /\ job.key \in Kymas
  BY NotIdle DEF TypeOK, makeNewCompassMappingAndRequeue, At
<1>2. CPTypeOK'
  BY <1>1, MappingStepTypes DEF makeNewCompassMappingAndRequeue
<1>3. WorkTypeOK'
  BY <1>1, ReturnTypes DEF makeNewCompassMappingAndRequeue
<1>4. faults' \in 0..MaxFaults
  BY SpendTypes DEF makeNewCompassMappingAndRequeue
<1>5. QED
  BY <1>2, <1>3, <1>4 DEF makeNewCompassMappingAndRequeue, TypeOK, DirTypeOK, dirVars

\* Recording the ID after the registration.
LEMMA UpsertMappingTypes ==
  ASSUME TypeOK, NEW o, UpsertMapping(o)
  PROVE  TypeOK'
<1>1. WorkTypeOK /\ CPTypeOK /\ job.key \in Kymas /\ job.id \in RuntimeLabel
  BY NotIdle DEF TypeOK, WorkTypeOK, UpsertMapping, At, Job
<1>2. CPTypeOK'
  BY <1>1, MappingStepTypes DEF UpsertMapping
<1>3. WorkTypeOK'
  BY <1>1, ReturnTypes DEF UpsertMapping
<1>4. faults' \in 0..MaxFaults
  BY SpendTypes DEF UpsertMapping
<1>5. QED
  BY <1>2, <1>3, <1>4 DEF UpsertMapping, TypeOK, DirTypeOK, dirVars

\* Removing the finalizer (DeleteCompassMapping).
LEMMA RemoveFinalizerTypes ==
  ASSUME TypeOK, NEW o, RemoveFinalizer(o)
  PROVE  TypeOK'
<1>1. WorkTypeOK /\ CPTypeOK /\ job.key \in Kymas /\ job \in Job
  BY NotIdle DEF TypeOK, WorkTypeOK, RemoveFinalizer, At
<1>2. CPTypeOK'
  BY <1>1, MappingStepTypes DEF RemoveFinalizer
<1>3. WorkTypeOK'
  <2>1. [job EXCEPT !.pc = "deleteMapping"] \in Job
    BY <1>1, JobTypes DEF Steps
  <2>2. [job EXCEPT !.pc = "deleteMapping"].key = job.key
    BY <1>1 DEF Job
  <2>3. \/ Return(TRUE) \/ Return(FALSE)
        \/ GoOn([job EXCEPT !.pc = "deleteMapping"])
    BY DEF RemoveFinalizer
  <2>4. QED
    BY <1>1, <2>1, <2>2, <2>3, ReturnTypes, GoOnTypes
<1>4. faults' \in 0..MaxFaults
  BY SpendTypes DEF RemoveFinalizer
<1>5. QED
  BY <1>2, <1>3, <1>4 DEF RemoveFinalizer, TypeOK, DirTypeOK, dirVars

\* The Delete call of DeleteCompassMapping.
LEMMA DeleteCompassMappingTypes ==
  ASSUME TypeOK, NEW o, DeleteCompassMapping(o)
  PROVE  TypeOK'
<1>1. WorkTypeOK /\ CPTypeOK /\ job.key \in Kymas
  BY NotIdle DEF TypeOK, DeleteCompassMapping, At
<1>2. CPTypeOK'
  BY <1>1, MappingStepTypes DEF DeleteCompassMapping
<1>3. mapping[job.key].exists \in BOOLEAN
  BY <1>1, MappingStepTypes DEF CompassManagerMapping
<1>4. WorkTypeOK'
  BY <1>1, <1>3, ReturnTypes DEF DeleteCompassMapping
<1>5. faults' \in 0..MaxFaults
  BY SpendTypes DEF DeleteCompassMapping
<1>6. QED
  BY <1>2, <1>4, <1>5 DEF DeleteCompassMapping, TypeOK, DirTypeOK, dirVars

\* Another attempt has a job of the right type, as long as it is not the last.
LEMMA AgainTypes ==
  ASSUME WorkTypeOK, job.key \in Kymas, NEW b \in BOOLEAN,
         ~LastAttempt(job.attempt)
  PROVE  /\ [job EXCEPT !.attempt = @ + 1] \in Job
         /\ [job EXCEPT !.attempt = @ + 1].key = job.key
         /\ [[job EXCEPT !.taken = b] EXCEPT !.attempt = @ + 1] \in Job
         /\ [[job EXCEPT !.taken = b] EXCEPT !.attempt = @ + 1].key = job.key
<1>1. job \in Job
  BY DEF WorkTypeOK
<1>2. [job EXCEPT !.attempt = @ + 1] \in Job
  BY <1>1, JobTypes DEF LastAttempt
<1>3. [job EXCEPT !.attempt = @ + 1].key = job.key
  BY <1>1 DEF Job
<1> DEFINE t == [job EXCEPT !.taken = b]
<1>4. t \in Job
  BY <1>1, JobTypes
<1>5. t.attempt = job.attempt /\ t.key = job.key
  BY <1>1 DEF Job
<1>6. [t EXCEPT !.attempt = @ + 1] \in Job /\ [t EXCEPT !.attempt = @ + 1].key = job.key
  <2> HIDE DEF t
  <2>1. [t EXCEPT !.attempt = @ + 1] \in Job
    BY <1>4, <1>5, JobTypes DEF LastAttempt
  <2>2. QED
    BY <1>4, <1>5, <2>1 DEF Job
<1>7. QED
  BY <1>2, <1>3, <1>6

\* The bits the steps set are Status values.
LEMMA StatusSets ==
  /\ Failed \in Status
  /\ Empty \in Status
  /\ Registered \cup Processing \in Status
  /\ Registered \cup Configured \in Status
  /\ \A b : ConfigureResult(b) \in Status
  BY DEF Status, Failed, Empty, Registered, Processing, Configured, ConfigureResult

\* One attempt to register a runtime.
LEMMA RegisterInCompassTypes ==
  ASSUME TypeOK, NEW o, NEW i \in RuntimeIDs, RegisterInCompass(o, i)
  PROVE  TypeOK'
<1>1. WorkTypeOK /\ DirTypeOK /\ job.key \in Kymas /\ job \in Job
  BY NotIdle DEF TypeOK, WorkTypeOK, RegisterInCompass, At
<1>2. job.account \in AccountLabel /\ job.taken \in BOOLEAN
  BY <1>1 DEF Job
<1>3. DirTypeOK'
  BY <1>1, <1>2 DEF RegisterInCompass, CreateRuntime, DirTypeOK, Runtime
<1> DEFINE up    == [Idle EXCEPT !.pc = "upsertMapping", !.key = job.key, !.id = i]
           taken == job.taken \/ TookEffect(o)
           again == [[job EXCEPT !.taken = taken] EXCEPT !.attempt = @ + 1]
<1>4. up \in Job /\ up.key = job.key
  <2>1. i \in RuntimeLabel /\ "upsertMapping" \in Steps
    BY DEF RuntimeLabel, Steps
  <2>2. [Idle EXCEPT !.pc = "upsertMapping"] \in Job
    BY <2>1, IdleIsJob, JobTypes
  <2>3. [Idle EXCEPT !.pc = "upsertMapping", !.key = job.key] \in Job
    BY <1>1, <2>2, JobTypes
  <2>4. up \in Job
    BY <2>1, <2>3, JobTypes
  <2>5. QED
    BY <2>4 DEF Idle
<1>5. taken \in BOOLEAN
  BY <1>2 DEF TookEffect
<1>6. ~LastAttempt(job.attempt) => again \in Job /\ again.key = job.key
  <2> HIDE DEF taken
  <2> QED
    BY <1>1, <1>5, AgainTypes
<1>7. \/ GoOn(up) /\ UpdateState(job.key, Registered \cup Processing)
      \/ GoOn(SettingStatus(Failed)) /\ UNCHANGED gauge
      \/ ~LastAttempt(job.attempt) /\ GoOn(again) /\ UNCHANGED gauge
  BY DEF RegisterInCompass, RetryOnError
<1>8. WorkTypeOK'
  <2> HIDE DEF up, again
  <2> QED
    BY <1>1, <1>4, <1>6, <1>7, StatusSets, GoOnTypes, SettingStatusTypes
<1>9. gauge' \in [Kymas -> StateTexts]
  <2>1. gauge' = gauge \/ UpdateState(job.key, Registered \cup Processing)
    BY <1>7
  <2>2. QED
    BY <1>1, <2>1, StatusSets, GaugeTypes DEF TypeOK
<1>10. faults' \in 0..MaxFaults
  BY SpendTypes DEF RegisterInCompass, TypeOK
<1>11. QED
  BY <1>3, <1>8, <1>9, <1>10 DEF RegisterInCompass, TypeOK, CPTypeOK, cpVars

\* One attempt to get a token for the agent.
LEMMA FetchCompassTokenTypes ==
  ASSUME TypeOK, NEW o, FetchCompassToken(o)
  PROVE  TypeOK'
<1>1. WorkTypeOK /\ job.key \in Kymas /\ job \in Job
  BY NotIdle DEF TypeOK, WorkTypeOK, FetchCompassToken, At
<1> DEFINE write == [job EXCEPT !.pc = "writeSecret", !.attempt = 0]
           again == [job EXCEPT !.attempt = @ + 1]
<1>2. write \in Job /\ write.key = job.key
  <2>1. [job EXCEPT !.pc = "writeSecret"] \in Job
    BY <1>1, JobTypes DEF Steps
  <2>2. write \in Job
    BY <2>1, JobTypes
  <2>3. QED
    BY <1>1, <2>2 DEF Job
<1>3. ~LastAttempt(job.attempt) => again \in Job /\ again.key = job.key
  BY <1>1, AgainTypes
<1>4. \/ GoOn(write)
      \/ ~LastAttempt(job.attempt) /\ GoOn(again)
      \/ GoOn(SettingStatus(ConfigureResult(FALSE)))
  BY DEF FetchCompassToken, RetryOnError
<1>5. WorkTypeOK'
  <2> HIDE DEF write, again
  <2> QED
    BY <1>1, <1>2, <1>3, <1>4, StatusSets, GoOnTypes, SettingStatusTypes
<1>6. faults' \in 0..MaxFaults
  BY SpendTypes DEF FetchCompassToken
<1>7. QED
  BY <1>5, <1>6
  DEF FetchCompassToken, TypeOK, CPTypeOK, DirTypeOK, cpVars, dirVars

\* Writing the Secret of the agent.
LEMMA UpsertAgentSecretTypes ==
  ASSUME TypeOK, NEW o, UpsertAgentSecret(o)
  PROVE  TypeOK'
<1>1. WorkTypeOK /\ DirTypeOK /\ job.key \in Kymas /\ job \in Job
  BY NotIdle DEF TypeOK, WorkTypeOK, UpsertAgentSecret, At
<1>2. job.account \in AccountLabel /\ job.id \in RuntimeLabel
  BY <1>1 DEF Job
<1>3. DirTypeOK'
  BY <1>1, <1>2 DEF UpsertAgentSecret, WriteAgentSecret, DirTypeOK, AgentSecret
<1>4. WorkTypeOK'
  <2>1. GoOn(SettingStatus(ConfigureResult(o = "ok")))
    BY DEF UpsertAgentSecret
  <2>2. QED
    BY <1>1, <2>1, StatusSets, GoOnTypes, SettingStatusTypes
<1>5. gauge' \in [Kymas -> StateTexts]
  <2>1. gauge' = gauge \/ UpdateState(job.key, Registered \cup Configured)
    BY DEF UpsertAgentSecret
  <2>2. QED
    BY <1>1, <2>1, StatusSets, GaugeTypes DEF TypeOK
<1>6. faults' \in 0..MaxFaults
  BY SpendTypes DEF UpsertAgentSecret
<1>7. QED
  BY <1>3, <1>4, <1>5, <1>6 DEF UpsertAgentSecret, TypeOK, CPTypeOK, cpVars

\* One attempt to deregister a runtime.
LEMMA DeregisterFromCompassTypes ==
  ASSUME TypeOK, NEW o, DeregisterFromCompass(o)
  PROVE  TypeOK'
<1>1. WorkTypeOK /\ DirTypeOK /\ job.key \in Kymas /\ job \in Job
  BY NotIdle DEF TypeOK, WorkTypeOK, DeregisterFromCompass, At
<1>2. DirTypeOK'
  BY <1>1 DEF DeregisterFromCompass, DeleteRuntime, DirTypeOK, Runtime, Knows, Live
<1>3. DeletingMapping \in Job /\ DeletingMapping.key = job.key
  <2>1. [Idle EXCEPT !.pc = "readMapping"] \in Job
    BY IdleIsJob, JobTypes DEF Steps
  <2>2. DeletingMapping \in Job
    BY <1>1, <2>1, JobTypes DEF DeletingMapping
  <2>3. QED
    BY <2>2 DEF DeletingMapping, Idle
<1> DEFINE again == [job EXCEPT !.attempt = @ + 1]
<1>4. ~LastAttempt(job.attempt) => again \in Job /\ again.key = job.key
  BY <1>1, AgainTypes
<1>5. \/ GoOn(DeletingMapping)
      \/ ~LastAttempt(job.attempt) /\ GoOn(again)
      \/ Return(TRUE)
  BY DEF DeregisterFromCompass, RetryOnError, DirectorError
<1>6. WorkTypeOK'
  <2> HIDE DEF again
  <2> QED
    BY <1>1, <1>3, <1>4, <1>5, GoOnTypes, ReturnTypes
<1>7. gauge' \in [Kymas -> StateTexts]
  <2>1. gauge' = gauge \/ UpdateState(job.key, Empty)
    BY DEF DeregisterFromCompass
  <2>2. QED
    BY <1>1, <2>1, StatusSets, GaugeTypes DEF TypeOK
<1>8. faults' \in 0..MaxFaults
  BY SpendTypes DEF DeregisterFromCompass
<1>9. QED
  BY <1>2, <1>6, <1>7, <1>8 DEF DeregisterFromCompass, TypeOK, CPTypeOK, cpVars

\* Whatever the worker does next keeps all types.
LEMMA WorkerTypes ==
  ASSUME TypeOK, Worker
  PROVE  TypeOK'
  BY CheckStatusTypes, ReadMappingTypes, MakeNewCompassMappingTypes,
     SetStatusTypes, RegisterInCompassTypes, UpsertMappingTypes,
     UpsertAgentSecretTypes, DeregisterFromCompassTypes, RemoveFinalizerTypes,
     DeleteCompassMappingTypes, FetchCompassTokenTypes
  DEF Worker

\* The manager's surroundings.
LEMMA ReadFailsTypes ==
  ASSUME TypeOK, ReadFails
  PROVE  TypeOK'
<1>1. WorkTypeOK /\ job.key \in Kymas
  BY NotIdle DEF TypeOK, ReadFails, At
<1>2. WorkTypeOK'
  BY <1>1, ReturnTypes DEF ReadFails
<1>3. faults' \in 0..MaxFaults
  BY SpendTypes DEF ReadFails
<1>4. QED
  BY <1>2, <1>3 DEF ReadFails, TypeOK, CPTypeOK, DirTypeOK, cpVars, dirVars

\* A crash and restart of the manager keeps all types.
LEMMA RestartTypes ==
  ASSUME TypeOK, Restart
  PROVE  TypeOK'
<1>1. CPTypeOK' /\ DirTypeOK'
  BY DEF Restart, TypeOK, CPTypeOK, DirTypeOK, dirVars
<1>2. WorkTypeOK'
  BY IdleIsJob DEF Restart, Relisted, WorkTypeOK, Idle
<1>3. gauge' \in [Kymas -> StateTexts]
  BY DEF Restart, NewMetrics, StateTexts
<1>4. restarts' \in 0..MaxRestarts
  BY ManagerAssumption DEF Restart, TypeOK
<1>5. QED
  BY <1>1, <1>2, <1>3, <1>4 DEF Restart, TypeOK

\* An event adds at most the name of its Kyma to the queue.
LEMMA EnqueueTypes ==
  ASSUME TypeOK, NEW k \in Kymas, NEW b \in BOOLEAN, Enqueue(k, b), UNCHANGED job
  PROVE  WorkTypeOK'
  BY DEF TypeOK, WorkTypeOK, Enqueue

\* The counter of changes by others stays within its bound.
LEMMA ChangeTypes ==
  ASSUME TypeOK, Change, CPTypeOK', agent' \in [Kymas -> AgentSecret], WorkTypeOK'
  PROVE  TypeOK'
  BY ManagerAssumption DEF TypeOK, Change, DirTypeOK

\* Replacing one Kyma by a well-formed one.
LEMMA SetKymaTypes ==
  ASSUME CPTypeOK, NEW k \in Kymas, NEW c \in KymaCR, SetKyma(k, c)
  PROVE  CPTypeOK' /\ kyma'[k] = c
  BY DEF CPTypeOK, SetKyma

\* Creation, deletion and update of a Kyma keep all types.
LEMMA KymaChangeTypes ==
  ASSUME TypeOK, NEW k \in Kymas
  PROVE  /\ \A m \in BOOLEAN, a \in AccountLabel : CreateKyma(k, m, a) => TypeOK'
         /\ DeleteKyma(k) => TypeOK'
         /\ UpdateKyma(k) => TypeOK'
<1>1. CPTypeOK /\ DirTypeOK /\ kyma[k] \in KymaCR
  BY DEF TypeOK, CPTypeOK
<1>2. ASSUME NEW m \in BOOLEAN, NEW a \in AccountLabel, CreateKyma(k, m, a)
      PROVE  TypeOK'
  <2>1. [phase |-> "present", module |-> m, account |-> a] \in KymaCR
    BY DEF KymaCR
  <2>2. CPTypeOK' /\ CreateFunc(kyma'[k]) \in BOOLEAN
    BY <1>1, <1>2, <2>1, SetKymaTypes DEF CreateKyma, KymaIsCreated, CreateFunc
  <2>3. WorkTypeOK'
    BY <1>2, <2>2, EnqueueTypes DEF CreateKyma, Change
  <2>4. agent' \in [Kymas -> AgentSecret]
    BY <1>1, <1>2
    DEF CreateKyma, DirTypeOK, AgentSecret, NoAgent, RuntimeLabel, AccountLabel
  <2>5. QED
    BY <1>2, <2>2, <2>3, <2>4, ChangeTypes DEF CreateKyma
<1>3. ASSUME DeleteKyma(k)
      PROVE  TypeOK'
  <2>1. DeletedKyma \in KymaCR
    BY DEF DeletedKyma, KymaCR, AccountLabel
  <2>2. CPTypeOK'
    BY <1>1, <1>3, <2>1, SetKymaTypes DEF DeleteKyma, KymaIsDeleted
  <2>3. WorkTypeOK'
    BY <1>3, EnqueueTypes DEF DeleteKyma, DeleteFunc, Change
  <2>4. agent' \in [Kymas -> AgentSecret]
    BY <1>1, <1>3 DEF DeleteKyma, DirTypeOK
  <2>5. QED
    BY <1>3, <2>2, <2>3, <2>4, ChangeTypes DEF DeleteKyma
<1>4. ASSUME UpdateKyma(k)
      PROVE  TypeOK'
  <2>1. /\ [kyma[k] EXCEPT !.module = ~@] \in KymaCR
        /\ \A a \in Accounts : [kyma[k] EXCEPT !.account = a] \in KymaCR
    BY <1>1 DEF KymaCR, AccountLabel
  <2>2. CPTypeOK'
    BY <1>1, <1>4, <2>1, SetKymaTypes DEF UpdateKyma, ModuleIsToggled, KymaIsLabelled
  <2>3. UpdateFunc(kyma[k], kyma'[k]) \in BOOLEAN
    BY <1>1, <2>2 DEF UpdateFunc, CPTypeOK, KymaCR
  <2>4. WorkTypeOK'
    BY <1>4, <2>3, EnqueueTypes DEF UpdateKyma, Change
  <2>5. agent' \in [Kymas -> AgentSecret]
    BY <1>1, <1>4 DEF UpdateKyma, DirTypeOK
  <2>6. QED
    BY <1>4, <2>2, <2>4, <2>5, ChangeTypes DEF UpdateKyma
<1>5. QED
  BY <1>2, <1>3, <1>4

\* So do changes of kubeconfigs and mappings, and the watch.
LEMMA OtherChangeTypes ==
  ASSUME TypeOK, NEW k \in Kymas
  PROVE  /\ ToggleKubeconfig(k) => TypeOK'
         /\ DeleteMappingByUser(k) => TypeOK'
         /\ CatchUp(k) => TypeOK'
<1>1. CPTypeOK /\ DirTypeOK /\ WorkTypeOK
  BY DEF TypeOK
<1>2. ASSUME ToggleKubeconfig(k)
      PROVE  TypeOK'
  <2>1. CPTypeOK'
    BY <1>1, <1>2 DEF ToggleKubeconfig, KubeconfigIsToggled, CPTypeOK
  <2>2. QED
    BY <1>1, <1>2, <2>1, ChangeTypes DEF ToggleKubeconfig, Change, WorkTypeOK, DirTypeOK
<1>3. ASSUME DeleteMappingByUser(k)
      PROVE  TypeOK'
  <2>1. Deleted(mapping[k]) \in CompassManagerMapping
    BY <1>1, MappingStepTypes, MappingUpdates
  <2>2. CPTypeOK'
    BY <1>1, <1>3, <2>1 DEF DeleteMappingByUser, MappingIsDeletedByUser, Put, CPTypeOK
  <2>3. QED
    BY <1>1, <1>3, <2>2, ChangeTypes
    DEF DeleteMappingByUser, Change, WorkTypeOK, DirTypeOK
<1>4. ASSUME CatchUp(k)
      PROVE  TypeOK'
  <2>1. CPTypeOK'
    BY <1>1, <1>4 DEF CatchUp, WatchMapping, CPTypeOK
  <2>2. QED
    BY <1>1, <1>4, <2>1
    DEF CatchUp, TypeOK, WorkTypeOK, DirTypeOK, dirVars, mgrVars, boundVars
<1>5. QED
  BY <1>2, <1>3, <1>4

\* No step of the system breaks a type.
LEMMA TypeStep == TypeOK /\ [Next]_vars => TypeOK'
<1> SUFFICES ASSUME TypeOK, [Next]_vars
             PROVE  TypeOK'
  OBVIOUS
<1>1. CASE UNCHANGED vars
  BY <1>1 DEF vars, TypeOK, CPTypeOK, DirTypeOK, WorkTypeOK
<1>2. CASE Environment
  BY <1>2, RestartTypes, ReadFailsTypes, KymaChangeTypes, OtherChangeTypes
  DEF Environment, Others
<1>3. CASE \E k \in Kymas : Reconcile(k) \/ CatchUp(k)
  BY <1>3, ReconcileTypes, OtherChangeTypes
<1>4. CASE Worker
  BY <1>4, WorkerTypes
<1>5. QED
  BY <1>1, <1>2, <1>3, <1>4 DEF Next

\* Type correctness of the whole system, for every value of the constants:
\* each handler of the reconciler (Reconcile and the functions it calls) only
\* leaves behind well-formed mappings, jobs, runtimes and agent Secrets.
THEOREM TypeCorrect == Spec => []TypeOK
<1>1. Init => TypeOK
  BY TypeInit
<1>2. TypeOK /\ [Next]_vars => TypeOK'
  BY TypeStep
<1>3. QED
  BY <1>1, <1>2, PTL DEF Spec

-----------------------------------------------------------------------------
(***************************************************************************)
(* The two conversions of the status: what is set, and what is read back.  *)
(***************************************************************************)
\* What a Status is read back as after it was stored: the bits Registered and
\* Configured as they were, and of the other two the one that the text names.
LEMMA StoredStatus ==
  ASSUME NEW s \in Status
  PROVE  Number(MappingStatusOf(s)) =
           (s \cap (Registered \cup Configured))
             \cup (CASE StateText(s) = ProcessingState -> Processing
                     [] StateText(s) = FailedState     -> Failed
                     [] OTHER                          -> Empty)
<1>1. StateText(s) \in {ProcessingState, FailedState, ReadyState}
  BY DEF StateText
<1>2. ProcessingState # FailedState /\ ReadyState \notin {ProcessingState, FailedState}
  BY DEF ProcessingState, FailedState, ReadyState
<1>3. \A b : b \in Number(MappingStatusOf(s)) <=>
        \/ StateText(s) = ProcessingState /\ b \in Processing
        \/ StateText(s) = FailedState /\ b \in Failed
        \/ Registered \subseteq s /\ b \in Registered
        \/ Configured \subseteq s /\ b \in Configured
  BY DEF Number, MappingStatusOf
<1>4. \A b : b \in s \cap (Registered \cup Configured) <=>
        \/ Registered \subseteq s /\ b \in Registered
        \/ Configured \subseteq s /\ b \in Configured
  BY DEF Registered, Configured
<1>5. QED
  BY <1>1, <1>2, <1>3, <1>4 DEF Empty

\* Exactly those statuses are read back as they were set that have one of
\* Processing and Failed, and besides them Registered with Configured, alone.
THEOREM StatusesThatReadBack ==
  \A s \in Status :
    Number(MappingStatusOf(s)) = s <=>
      \/ (Processing \subseteq s) # (Failed \subseteq s)
      \/ s = Registered \cup Configured
<1> SUFFICES ASSUME NEW s \in Status
             PROVE  Number(MappingStatusOf(s)) = s <=>
                      \/ (Processing \subseteq s) # (Failed \subseteq s)
                      \/ s = Registered \cup Configured
  OBVIOUS
<1> DEFINE r == Number(MappingStatusOf(s))
           bits == Registered \cup Configured
<1>1. ProcessingState # FailedState /\ ReadyState \notin {ProcessingState, FailedState}
  BY DEF ProcessingState, FailedState, ReadyState
<1>2. s \subseteq bits \cup Processing \cup Failed
  BY DEF Status, Registered, Configured, Processing, Failed
<1>3. /\ Processing \cap (bits \cup Failed) = {} /\ Failed \cap (bits \cup Processing) = {}
      /\ Processing # {} /\ Failed # {}
  BY DEF Registered, Configured, Processing, Failed
<1>4. CASE Failed \subseteq s
  <2>1. r = (s \cap bits) \cup Failed
    BY <1>1, <1>4, StoredStatus DEF StateText
  <2>2. s # bits
    BY <1>3, <1>4
  <2>3. CASE Processing \subseteq s
    <3>1. r # s
      BY <1>3, <2>1, <2>3
    <3>2. QED
      BY <1>4, <2>2, <2>3, <3>1
  <2>4. CASE ~(Processing \subseteq s)
    <3>1. s \cap Processing = {}
      BY <2>4 DEF Processing
    <3>2. r = s
      BY <1>2, <1>4, <2>1, <3>1
    <3>3. QED
      BY <1>4, <2>4, <3>2
  <2>5. QED
    BY <2>3, <2>4
<1>5. CASE ~(Failed \subseteq s) /\ Processing \subseteq s
  <2>1. r = (s \cap bits) \cup Processing
    BY <1>1, <1>5, StoredStatus DEF StateText
  <2>2. s \cap Failed = {}
    BY <1>5 DEF Failed
  <2>3. QED
    BY <1>2, <1>3, <1>5, <2>1, <2>2
<1>6. CASE ~(Failed \subseteq s) /\ ~(Processing \subseteq s)
  <2>1. s \cap Failed = {} /\ s \cap Processing = {}
    BY <1>6 DEF Failed, Processing
  <2>2. s \subseteq bits
    BY <1>2, <2>1
  <2>3. CASE bits \subseteq s
    BY <1>1, <1>3, <1>6, <2>2, <2>3, StoredStatus DEF StateText, Empty
  <2>4. CASE ~(bits \subseteq s)
    <3>1. r = (s \cap bits) \cup Failed
      BY <1>1, <1>6, <2>4, StoredStatus DEF StateText
    <3>2. QED
      BY <1>3, <1>6, <2>1, <2>2, <2>4, <3>1
  <2>5. QED
    BY <2>3, <2>4
<1>7. QED
  BY <1>4, <1>5, <1>6

ReadsBack(g) == Number(MappingStatusOf(g)) = g

\* The statuses that the steps set are among them.
LEMMA GoalsReadBack ==
  /\ ReadsBack(Processing) /\ ReadsBack(Failed) /\ ReadsBack(Registered \cup Processing)
  /\ \A b \in BOOLEAN : ReadsBack(ConfigureResult(b))
  /\ \A s \in Status : ReadsBack((s \ Failed) \cup Processing)
<1>1. ASSUME NEW s \in Status
      PROVE  ReadsBack((s \ Failed) \cup Processing)
  <2>1. /\ (s \ Failed) \cup Processing \in Status
        /\ Processing \subseteq (s \ Failed) \cup Processing
        /\ ~(Failed \subseteq (s \ Failed) \cup Processing)
    BY DEF Status, Failed, Processing
  <2>2. QED
    BY <2>1, StatusesThatReadBack DEF ReadsBack
<1>2. ReadsBack(Processing) /\ ReadsBack(Failed) /\ ReadsBack(Registered \cup Processing)
  <2>1. /\ {Processing, Failed, Registered \cup Processing} \subseteq Status
        /\ Processing \subseteq Processing /\ Processing \subseteq Registered \cup Processing
        /\ ~(Failed \subseteq Processing) /\ ~(Failed \subseteq Registered \cup Processing)
        /\ Failed \subseteq Failed /\ ~(Processing \subseteq Failed)
    BY DEF Status, Failed, Processing, Registered
  <2>2. QED
    BY <2>1, StatusesThatReadBack DEF ReadsBack
<1>3. ASSUME NEW b \in BOOLEAN
      PROVE  ReadsBack(ConfigureResult(b))
  <2>1. /\ Registered \cup Configured \in Status /\ Registered \cup Failed \in Status
        /\ Failed \subseteq Registered \cup Failed
        /\ ~(Processing \subseteq Registered \cup Failed)
    BY DEF Status, Failed, Processing, Registered, Configured
  <2>2. ReadsBack(Registered \cup Configured) /\ ReadsBack(Registered \cup Failed)
    BY <2>1, StatusesThatReadBack DEF ReadsBack
  <2>3. QED
    BY <2>2 DEF ConfigureResult
<1>4. QED
  BY <1>1, <1>2, <1>3

\* A step that is not about to set a status, or that chooses one of those.
LEMMA ReadBackMoves ==
  ASSUME \/ job'.pc # "setStatus"
         \/ (UNCHANGED job /\ StatusReadsBack)
         \/ (\E g : GoOn(SettingStatus(g)) /\ ReadsBack(g))
  PROVE  StatusReadsBack'
<1>1. ASSUME NEW g, GoOn(SettingStatus(g)), ReadsBack(g)
      PROVE  StatusReadsBack'
  <2>1. job'.goal = g
    BY <1>1 DEF GoOn, SettingStatus, Idle
  <2>2. QED
    BY <1>1, <2>1 DEF StatusReadsBack, ReadsBack
<1>2. QED
  BY <1>1 DEF StatusReadsBack, At

\* StatusReadsBack is inductive: a worker that sets a status has chosen it in the
\* step before.
LEMMA ReadBackStep == TypeOK /\ StatusReadsBack /\ [Next]_vars => StatusReadsBack'
<1> SUFFICES ASSUME TypeOK, StatusReadsBack, [Next]_vars
             PROVE  StatusReadsBack'
  OBVIOUS
<1>1. job \in Job /\ Idle.pc = "idle"
  BY DEF TypeOK, WorkTypeOK, Idle
<1>2. CASE CheckStatus
  <2>1. Number(GetCompassMapping(job.key).status) \in Status
    BY DEF Number, Status, Registered, Configured, Processing, Failed
  <2>2. /\ [job EXCEPT !.pc = "register"].pc = "register"
        /\ [job EXCEPT !.pc = "fetchToken"].pc = "fetchToken"
    BY <1>1 DEF Job
  <2>3. \/ Return(TRUE)
        \/ GoOn(SettingStatus(Processing))
        \/ GoOn(SettingStatus((Number(GetCompassMapping(job.key).status) \ Failed)
                                \cup Processing))
        \/ GoOn([job EXCEPT !.pc = "register"])
        \/ GoOn(SettingStatus(Registered \cup Processing))
        \/ GoOn([job EXCEPT !.pc = "fetchToken"])
    BY <1>2 DEF CheckStatus
  <2>4. \/ job'.pc # "setStatus"
        \/ \E g : GoOn(SettingStatus(g)) /\ ReadsBack(g)
    BY <1>1, <2>1, <2>2, <2>3, GoalsReadBack DEF Return, GoOn
  <2>5. QED
    BY <2>4, ReadBackMoves
<1>3. CASE ReadMapping \/ ReadFails
  <2>1. job'.pc # "setStatus"
    BY <1>1, <1>3 DEF ReadMapping, ReadFails, Return, GoOn, Job
  <2>2. QED
    BY <2>1, ReadBackMoves
<1>4. ASSUME NEW o, NEW i,
             \/ RegisterInCompass(o, i)
             \/ FetchCompassToken(o)
             \/ UpsertAgentSecret(o)
             \/ DeregisterFromCompass(o)
      PROVE  StatusReadsBack'
  <2> DEFINE j == [Idle EXCEPT !.pc = "upsertMapping", !.key = job.key, !.id = i]
             t == [job EXCEPT !.taken = @ \/ TookEffect(o), !.attempt = @ + 1]
             w == [job EXCEPT !.pc = "writeSecret", !.attempt = 0]
             a == [job EXCEPT !.attempt = @ + 1]
  <2>1. /\ job.pc \in {"register", "fetchToken", "writeSecret", "deregister"}
        /\ j.pc = "upsertMapping" /\ t.pc = job.pc /\ w.pc = "writeSecret"
        /\ a.pc = job.pc /\ DeletingMapping.pc = "readMapping"
    BY <1>1, <1>4
    DEF RegisterInCompass, FetchCompassToken, UpsertAgentSecret, DeregisterFromCompass,
        At, DeletingMapping, Job, Idle
  <2>2. \/ GoOn(j) \/ GoOn(t) \/ GoOn(w) \/ GoOn(a) \/ GoOn(DeletingMapping)
        \/ Return(TRUE)
        \/ GoOn(SettingStatus(Failed))
        \/ \E b \in BOOLEAN : GoOn(SettingStatus(ConfigureResult(b)))
    BY <1>4
    DEF RegisterInCompass, FetchCompassToken, UpsertAgentSecret, DeregisterFromCompass,
        RetryOnError, DirectorError
  <2> HIDE DEF j, t, w, a
  <2>3. \/ job'.pc # "setStatus"
        \/ \E g : GoOn(SettingStatus(g)) /\ ReadsBack(g)
    BY <1>1, <2>1, <2>2, GoalsReadBack DEF GoOn, Return
  <2>4. QED
    BY <2>3, ReadBackMoves
<1>5. ASSUME NEW o,
             \/ makeNewCompassMappingAndRequeue(o)
             \/ SetStatus(o)
             \/ UpsertMapping(o)
             \/ RemoveFinalizer(o)
             \/ DeleteCompassMapping(o)
      PROVE  StatusReadsBack'
  <2>1. [job EXCEPT !.pc = "deleteMapping"].pc = "deleteMapping"
    BY <1>1 DEF Job
  <2>2. job' = Idle \/ GoOn([job EXCEPT !.pc = "deleteMapping"])
    BY <1>5
    DEF makeNewCompassMappingAndRequeue, SetStatus, UpsertMapping, RemoveFinalizer,
        DeleteCompassMapping, Return
  <2>3. QED
    BY <1>1, <2>1, <2>2, ReadBackMoves DEF GoOn
<1>6. CASE Worker
  BY <1>2, <1>3, <1>4, <1>5, <1>6 DEF Worker
<1>7. CASE \E k \in Kymas : Reconcile(k)
  <2>1. UNCHANGED job \/ job'.pc # "setStatus"
    BY <1>7
    DEF Reconcile, handleKymaDeletion, AwaitKubeconfig, NoGlobalAccount, Drop, Start, Idle
  <2>2. QED
    BY <2>1, ReadBackMoves
<1>8. CASE Environment \/ (\E k \in Kymas : CatchUp(k)) \/ UNCHANGED vars
  <2>1. UNCHANGED job \/ job' = Idle
    BY <1>8
    DEF Environment, Others, Restart, ReadFails, Return, CreateKyma, DeleteKyma,
        UpdateKyma, ToggleKubeconfig, DeleteMappingByUser, Change, CatchUp, mgrVars, vars
  <2>2. QED
    BY <1>1, <2>1, ReadBackMoves
<1>9. QED
  BY <1>6, <1>7, <1>8 DEF Next

\* No status that the manager sets is read back as another one, in any state
\* that it reaches.
THEOREM StatusesAreReadBack == Spec => []StatusReadsBack
<1>1. Init => StatusReadsBack
  BY DEF Init, Idle, StatusReadsBack, At
<1>2. QED
  BY <1>1, ReadBackStep, TypeCorrect, PTL DEF Spec
=============================================================================
