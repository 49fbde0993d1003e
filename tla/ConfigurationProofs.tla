-------------------------- MODULE ConfigurationProofs --------------------------
(***************************************************************************)
(* What holds under every configuration of main.go, and however it changes *)
(* from one process to the next: with registration on or off and in a dry  *)
(* run or not.  The lemmas on the steps that Configuration takes over from *)
(* CompassManager are used as they are; CheckStatus, which reads the flag, *)
(* is first reduced to what both of its instances have in common.          *)
(***************************************************************************)
EXTENDS Configuration, RequestProofs

DrySteps ==
  \/ \E i \in DryIDs : DryRegisterInCompass(i)
  \/ DryConfigureCompassRuntimeAgent
  \/ DryDeregisterFromCompass

-----------------------------------------------------------------------------
(***************************************************************************)
(* The steps that Configuration adds or changes.                           *)
(***************************************************************************)
\* What CheckStatus does whether registration is on or off.
LEMMA ConfiguredCheckStatus ==
  ASSUME TypeOK, On!CheckStatus \/ Off!CheckStatus
  PROVE  /\ At("checkStatus") /\ UNCHANGED <<cpVars, dirVars, boundVars>>
         /\ UNCHANGED gauge \/ UpdateState(job.key, Registered \cup Processing)
         /\ \/ Return(TRUE)
            \/ \E g \in Status : GoOn(SettingStatus(g))
            \/ GoOn([job EXCEPT !.pc = "register"])
            \/ GoOn([job EXCEPT !.pc = "fetchToken"])
<1> DEFINE status == Number(GetCompassMapping(job.key).status)
<1>1. /\ Processing \in Status
      /\ (status \ Failed) \cup Processing \in Status
      /\ Registered \cup Processing \in Status
  BY DEF Status, Number, Registered, Configured, Processing, Failed
<1> HIDE DEF status
<1>2. CASE On!CheckStatus
  <2>1. /\ At("checkStatus") /\ UNCHANGED <<cpVars, dirVars, boundVars>>
        /\ UNCHANGED gauge \/ UpdateState(job.key, Registered \cup Processing)
        /\ \/ Return(TRUE)
           \/ GoOn(SettingStatus(Processing))
           \/ GoOn(SettingStatus((status \ Failed) \cup Processing))
           \/ GoOn([job EXCEPT !.pc = "register"])
           \/ GoOn(SettingStatus(Registered \cup Processing))
           \/ GoOn([job EXCEPT !.pc = "fetchToken"])
    BY <1>2
    DEF status, On!CheckStatus, CheckStatus, On!At, On!Return, On!GoOn,
        On!UpdateState, On!GetCompassMapping, On!Number, On!SettingStatus,
        On!NeedsRegistration, On!Registered, On!Configured, On!Processing,
        On!Failed, On!Empty, On!Idle, On!cpVars, On!dirVars, On!boundVars,
        On!StateText, On!NoState, On!ReadyState, On!ProcessingState,
        On!FailedState, At, Return, GoOn, UpdateState, GetCompassMapping, Number,
        SettingStatus, Registered, Configured, Processing, Failed, Empty, Idle,
        cpVars, dirVars, boundVars, StateText, NoState, ReadyState,
        ProcessingState, FailedState
  <2>2. QED
    BY <1>1, <2>1
<1>3. CASE Off!CheckStatus
  <2>1. /\ At("checkStatus") /\ UNCHANGED <<cpVars, dirVars, boundVars>>
        /\ UNCHANGED gauge \/ UpdateState(job.key, Registered \cup Processing)
        /\ \/ Return(TRUE)
           \/ GoOn(SettingStatus(Processing))
           \/ GoOn(SettingStatus((status \ Failed) \cup Processing))
           \/ GoOn([job EXCEPT !.pc = "register"])
           \/ GoOn(SettingStatus(Registered \cup Processing))
           \/ GoOn([job EXCEPT !.pc = "fetchToken"])
    BY <1>3
    DEF status, Off!CheckStatus, CheckStatus, Off!At, Off!Return, Off!GoOn,
        Off!UpdateState, Off!GetCompassMapping, Off!Number, Off!SettingStatus,
        Off!NeedsRegistration, Off!Registered, Off!Configured, Off!Processing,
        Off!Failed, Off!Empty, Off!Idle, Off!cpVars, Off!dirVars, Off!boundVars,
        Off!StateText, Off!NoState, Off!ReadyState, Off!ProcessingState,
        Off!FailedState, At, Return, GoOn, UpdateState, GetCompassMapping,
        Number, SettingStatus, Registered, Configured, Processing, Failed, Empty,
        Idle, cpVars, dirVars, boundVars, StateText, NoState, ReadyState,
        ProcessingState, FailedState
  <2>2. QED
    BY <1>1, <2>1
<1>4. QED
  BY <1>2, <1>3

\* The job that records an ID made up by the DryRunner is well-formed.
LEMMA DryJobs ==
  ASSUME job.key \in Kymas, NEW i \in RuntimeIDs
  PROVE  LET up == [Idle EXCEPT !.pc = "upsertMapping", !.key = job.key, !.id = i]
         IN up \in Job /\ up.pc = "upsertMapping" /\ up.key = job.key /\ up.id = i
  BY IdleIsJob DEF Job, Steps, RuntimeLabel

\* What the steps of the DryRunner, and CheckStatus, leave alone, and the jobs
\* they go on with.
LEMMA ConfiguredSteps ==
  ASSUME TypeOK, DrySteps \/ On!CheckStatus \/ Off!CheckStatus
  PROVE  /\ job.key \in Kymas /\ job \in Job
         /\ UNCHANGED <<cpVars, dirVars, boundVars>>
         /\ UNCHANGED gauge \/ \E g \in Status : UpdateState(job.key, g)
         /\ \/ Return(TRUE)
            \/ \E g \in Status : GoOn(SettingStatus(g))
            \/ \E p \in {"register", "fetchToken"} : GoOn([job EXCEPT !.pc = p])
            \/ \E i \in DryIDs : /\ DryRegisterInCompass(i)
                                 /\ GoOn([Idle EXCEPT !.pc = "upsertMapping",
                                                      !.key = job.key, !.id = i])
            \/ /\ DryDeregisterFromCompass
               /\ GoOn(DeletingMapping)
<1>1. ConfigureResult(TRUE) \in Status /\ Registered \cup Processing \in Status
      /\ Empty \in Status
  BY DEF ConfigureResult, Status, Registered, Configured, Processing, Empty
<1>2. ASSUME At("checkStatus") \/ At("register") \/ At("fetchToken") \/ At("deregister")
      PROVE  job.key \in Kymas /\ job \in Job
  BY <1>2, NotIdle DEF At, TypeOK, WorkTypeOK
<1>3. CASE On!CheckStatus \/ Off!CheckStatus
  BY <1>1, <1>2, <1>3, ConfiguredCheckStatus
<1>4. CASE DrySteps
  BY <1>1, <1>2, <1>4
  DEF DrySteps, DryRegisterInCompass, DryConfigureCompassRuntimeAgent,
      DryDeregisterFromCompass
<1>5. QED
  BY <1>3, <1>4

\* They keep all types.
LEMMA ConfiguredTypes ==
  ASSUME TypeOK, DrySteps \/ On!CheckStatus \/ Off!CheckStatus
  PROVE  TypeOK'
<1>1. WorkTypeOK'
  <2>1. WorkTypeOK /\ job.key \in Kymas /\ job \in Job
    BY ConfiguredSteps DEF TypeOK
  <2>2. CASE Return(TRUE) \/ \E g \in Status : GoOn(SettingStatus(g))
    BY <2>1, <2>2, ReturnTypes, GoOnTypes, SettingStatusTypes
  <2>3. ASSUME NEW p \in {"register", "fetchToken"}, GoOn([job EXCEPT !.pc = p])
        PROVE  WorkTypeOK'
    <3>1. [job EXCEPT !.pc = p] \in Job /\ [job EXCEPT !.pc = p].key = job.key
      BY <2>1 DEF Job, Steps
    <3>2. QED
      BY <2>1, <2>3, <3>1, GoOnTypes
  <2>4. ASSUME NEW i \in DryIDs,
               GoOn([Idle EXCEPT !.pc = "upsertMapping", !.key = job.key, !.id = i])
        PROVE  WorkTypeOK'
    BY <2>1, <2>4, DryIDsAssumption, DryJobs, GoOnTypes
  <2>5. CASE GoOn(DeletingMapping)
    <3>1. DeletingMapping \in Job /\ DeletingMapping.key = job.key
      BY <2>1, IdleIsJob DEF DeletingMapping, Job, Steps
    <3>2. QED
      BY <2>1, <2>5, <3>1, GoOnTypes
  <2>6. QED
    BY <2>2, <2>3, <2>4, <2>5, ConfiguredSteps
<1>2. gauge' \in [Kymas -> StateTexts]
  BY ConfiguredSteps, GaugeTypes DEF TypeOK
<1>3. QED
  BY <1>1, <1>2, ConfiguredSteps
  DEF TypeOK, CPTypeOK, DirTypeOK, cpVars, dirVars, boundVars

-----------------------------------------------------------------------------
(***************************************************************************)
(* Types.                                                                  *)
(***************************************************************************)
\* The label of a mapping is written as a whole, or not at all.
LEMMA LabelTypes ==
  ASSUME ConfigTypeOK, NEW b, NEW o, LabelsWritten(b, o)
  PROVE  dryLabel' \in [Kymas -> BOOLEAN]
  BY DEF ConfigTypeOK, Config, LabelsWritten, DryLabel

\* No step breaks a type, whatever the configuration.
LEMMA ConfigTypeStep == ConfigTypeOK /\ [ConfigNext]_configVars => ConfigTypeOK'
<1> SUFFICES ASSUME ConfigTypeOK, [ConfigNext]_configVars
             PROVE  ConfigTypeOK'
  OBVIOUS
<1>1. TypeOK /\ config \in Config /\ dryLabel \in [Kymas -> BOOLEAN]
  BY DEF ConfigTypeOK
<1>2. CASE UNCHANGED configVars
  <2>1. [Next]_vars
    BY <1>2 DEF configVars, vars
  <2>2. QED
    BY <1>1, <1>2, <2>1, TypeStep DEF ConfigTypeOK, configVars
<1>3. CASE ConfiguredWorker
  <2>1. config' = config
    BY <1>3 DEF ConfiguredWorker
  <2>2. dryLabel' \in [Kymas -> BOOLEAN]
    BY <1>1, <1>3, LabelTypes DEF ConfiguredWorker, CallsInside
  <2>3. TypeOK'
    BY <1>1, <1>3, ConfiguredTypes, ReadMappingTypes, MakeNewCompassMappingTypes,
       SetStatusTypes, RegisterInCompassTypes, UpsertMappingTypes,
       UpsertAgentSecretTypes, DeregisterFromCompassTypes, RemoveFinalizerTypes,
       DeleteCompassMappingTypes, FetchCompassTokenTypes
    DEF ConfiguredWorker, CallsInside, CallsOutside, DrySteps
  <2>4. QED
    BY <1>1, <2>1, <2>2, <2>3 DEF ConfigTypeOK
<1>4. CASE \E c \in Config : RestartWith(c)
  BY <1>1, <1>4, RestartTypes DEF RestartWith, ConfigTypeOK
<1>5. CASE \E k \in Kymas : (Reconcile(k) \/ CatchUp(k)) /\ UNCHANGED <<config, dryLabel>>
  BY <1>1, <1>5, ReconcileTypes, OtherChangeTypes DEF ConfigTypeOK
<1>6. CASE Others /\ UNCHANGED <<config, dryLabel>>
  BY <1>1, <1>6, ReadFailsTypes, KymaChangeTypes, OtherChangeTypes
  DEF Others, ConfigTypeOK
<1>7. QED
  BY <1>2, <1>3, <1>4, <1>5, <1>6 DEF ConfigNext

\* Type correctness under every configuration of main.go, dry runs included.
THEOREM ConfigTypeCorrect == ConfigSpec => []ConfigTypeOK
<1>1. ConfigInit => ConfigTypeOK
  BY TypeInit DEF ConfigInit, ConfigTypeOK
<1>2. QED
  BY <1>1, ConfigTypeStep, PTL DEF ConfigSpec

-----------------------------------------------------------------------------
(***************************************************************************)
(* The IDs in mappings, jobs and agents.                                   *)
(***************************************************************************)
\* An ID i recorded for Kyma k is empty, made up in a dry run, or issued for k.
Known(k, i) == i \in RuntimeIDs \ DryIDs => ~Unused(i) /\ runtimes[i].kyma = k

\* The ID and the tenant of s are those of a runtime that was issued for Kyma k.
Issued(k, s) ==
  /\ s.id \in RuntimeIDs /\ ~Unused(s.id)
  /\ runtimes[s.id].kyma = k /\ runtimes[s.id].account = s.account

MappingIDs(k) == Known(k, mapping[k].id) /\ Known(k, mappingCache[k].id)

JobIDs ==
  /\ Known(job.key, job.id)
  /\ At("writeSecret") => Issued(job.key, job)

AgentIDs(k) == agent[k] # NoAgent => Issued(k, agent[k])

IssuedInv ==
  /\ \A i \in DryIDs : Unused(i)
  /\ \A k \in Kymas : MappingIDs(k) /\ AgentIDs(k)
  /\ JobIDs

\* A runtime that was issued keeps its Kyma and its tenant, and the Director never
\* issues an ID that was made up.
RuntimesKept ==
  \A i \in RuntimeIDs :
    /\ ~Unused(i) => /\ ~Unused(i)'
                     /\ runtimes'[i].kyma = runtimes[i].kyma
                     /\ runtimes'[i].account = runtimes[i].account
    /\ i \in DryIDs => (Unused(i)' <=> Unused(i))

\* The job forgets its ID, or goes on with it; the two steps that store it are
\* looked at on their own.
JobFollows ==
  /\ \/ job'.id = NoID
     \/ job'.key = job.key /\ job'.id = job.id
  /\ job'.pc \notin {"upsertMapping", "writeSecret"}

\* Where a step can take the ID of a mapping of Kyma k from.
MappingFollows(k) ==
  \A i \in {mapping'[k].id, mappingCache'[k].id} :
    \/ i \in {NoID, mapping[k].id, mappingCache[k].id}
    \/ k = job.key /\ i = job.id

\* A step that takes all IDs from where they are known keeps IssuedInv.
LEMMA IDsFollow ==
  ASSUME TypeOK, IssuedInv, RuntimesKept, JobFollows \/ JobIDs',
         \A k \in Kymas : MappingFollows(k),
         \A k \in Kymas : agent'[k] \in {agent[k], NoAgent} \/ AgentIDs(k)'
  PROVE  IssuedInv'
<1>1. ASSUME NEW k, NEW i, Known(k, i) \/ i = NoID
      PROVE  i \in RuntimeIDs \ DryIDs =>
               runtimes'[i].state # "unused" /\ runtimes'[i].kyma = k
  BY <1>1, LandscapeAssumption DEF RuntimesKept, Known, Unused
<1>2. \A i \in DryIDs : Unused(i)'
  BY DryIDsAssumption DEF IssuedInv, RuntimesKept
<1>3. ASSUME NEW k \in Kymas
      PROVE  MappingIDs(k)'
  <2>1. \A i \in {mapping'[k].id, mappingCache'[k].id} : Known(k, i) \/ i = NoID
    BY DEF IssuedInv, MappingIDs, JobIDs, MappingFollows
  <2>2. QED
    BY <1>1, <2>1 DEF MappingIDs, Known, Unused
<1>4. ASSUME NEW k \in Kymas
      PROVE  AgentIDs(k)'
  BY DEF IssuedInv, AgentIDs, RuntimesKept, Issued, Unused
<1>5. JobIDs'
  <2>1. CASE JobFollows
    <3>1. Known(job'.key, job'.id) \/ job'.id = NoID
      BY <2>1 DEF JobFollows, IssuedInv, JobIDs
    <3>2. QED
      BY <1>1, <2>1, <3>1 DEF JobFollows, JobIDs, Known, Unused, At
  <2>2. QED
    BY <2>1
<1>6. QED
  BY <1>2, <1>3, <1>4, <1>5 DEF IssuedInv

\* A call that returns, sets a status or deletes the mapping forgets the ID.
LEMMA ReturnEnds ==
  ASSUME NEW b, Return(b)
  PROVE  JobFollows
  BY DEF Return, Idle, JobFollows

\* The job that sets a status.
LEMMA SettingStatusEnds ==
  ASSUME NEW g, GoOn(SettingStatus(g))
  PROVE  JobFollows
  BY DEF GoOn, SettingStatus, Idle, JobFollows

\* The job that deletes the mapping.
LEMMA DeletingEnds ==
  ASSUME GoOn(DeletingMapping)
  PROVE  JobFollows
  BY DEF GoOn, DeletingMapping, Idle, JobFollows

\* The job that makes a call once more.
LEMMA AgainFollows ==
  ASSUME TypeOK, At("register") \/ At("fetchToken") \/ At("deregister"),
         NEW b, GoOn([job EXCEPT !.attempt = @ + 1])
                \/ GoOn([job EXCEPT !.taken = b, !.attempt = @ + 1])
  PROVE  JobFollows
  BY DEF GoOn, TypeOK, WorkTypeOK, Job, At, JobFollows

\* Nothing is recorded and nothing issued at first.
LEMMA IssuedInit == Init => IssuedInv
  BY LandscapeAssumption, DryIDsAssumption
  DEF Init, CPInit, DirInit, IssuedInv, MappingIDs, AgentIDs, JobIDs, Known, Unused,
      UnusedRuntime, NoMapping, Idle, At

\* The ID of a new job is the one cached for the same Kyma.
LEMMA IssuedReconcile ==
  ASSUME TypeOK, IssuedInv, NEW k \in Kymas, Reconcile(k)
  PROVE  IssuedInv'
<1>1. UNCHANGED <<mapping, mappingCache, runtimes, agent>> /\ job = Idle
  BY DEF Reconcile, cpVars, dirVars
<1>2. \/ UNCHANGED job
      \/ /\ job'.pc \notin {"upsertMapping", "writeSecret"}
         /\ job'.id = NoID \/ (job'.key = k /\ job'.id = mappingCache[k].id)
  <2>1. ASSUME NEW p, NEW i, NEW a, Start(k, p, i, a)
        PROVE  job'.pc = p /\ job'.key = k /\ job'.id = i
    BY <2>1 DEF Start, Idle
  <2>2. CASE ~Present(k) /\ handleKymaDeletion(k)
    BY <2>1, <2>2 DEF handleKymaDeletion, Drop, GetCompassMapping
  <2>3. CASE Present(k)
    BY <2>1, <2>3
    DEF Reconcile, AwaitKubeconfig, NoGlobalAccount, Drop, GetCompassRuntimeID,
        GetCompassMapping
  <2>4. QED
    BY <2>2, <2>3 DEF Reconcile
<1>3. RuntimesKept /\ \A j \in Kymas : MappingFollows(j)
  BY <1>1 DEF RuntimesKept, Unused, MappingFollows
<1>4. JobFollows \/ JobIDs'
  <2>1. CASE UNCHANGED job \/ job'.id = NoID
    BY <1>1, <1>2, <2>1 DEF JobFollows, Idle
  <2>2. CASE job'.pc # "writeSecret" /\ job'.key = k /\ job'.id = mappingCache[k].id
    BY <1>1, <2>2 DEF IssuedInv, MappingIDs, JobIDs, Known, Unused, At
  <2>3. QED
    BY <1>1, <1>2, <2>1, <2>2 DEF Idle
<1>5. QED
  BY <1>1, <1>3, <1>4, IDsFollow

\* The steps that neither touch a mapping nor the Director, except for the step
\* that fetches the token.
LEMMA IssuedJobSteps ==
  ASSUME TypeOK, IssuedInv,
         ReadMapping \/ ReadFails \/ DrySteps \/ On!CheckStatus \/ Off!CheckStatus
  PROVE  IssuedInv'
<1>1. UNCHANGED <<mapping, mappingCache, runtimes, agent>> /\ job \in Job
  BY ConfiguredSteps DEF ReadMapping, ReadFails, cpVars, dirVars, TypeOK, WorkTypeOK
<1>2. RuntimesKept /\ \A j \in Kymas : MappingFollows(j)
  BY <1>1 DEF RuntimesKept, Unused, MappingFollows
<1>3. JobFollows \/ JobIDs'
  <2>1. CASE ReadMapping \/ ReadFails
    <3>1. ASSUME NEW b, GoOn([job EXCEPT !.pc = "removeFinalizer", !.terminating = b])
          PROVE  JobFollows
      BY <1>1, <3>1 DEF GoOn, Job, JobFollows
    <3>2. QED
      BY <2>1, <3>1, ReturnEnds DEF ReadMapping, ReadFails
  <2>2. ASSUME NEW i \in DryIDs,
               GoOn([Idle EXCEPT !.pc = "upsertMapping", !.key = job.key, !.id = i])
        PROVE  JobIDs'
    BY <2>2 DEF GoOn, Idle, JobIDs, Known, At
  <2>3. CASE DrySteps \/ On!CheckStatus \/ Off!CheckStatus
    <3>1. ASSUME NEW g, Return(TRUE) \/ GoOn(DeletingMapping) \/ GoOn(SettingStatus(g))
          PROVE  JobFollows
      BY <3>1, ReturnEnds, SettingStatusEnds, DeletingEnds
    <3>2. ASSUME NEW p \in {"register", "fetchToken"}, GoOn([job EXCEPT !.pc = p])
          PROVE  JobFollows
      BY <1>1, <3>2 DEF GoOn, Job, JobFollows
    <3>3. QED
      BY <2>2, <2>3, <3>1, <3>2, ConfiguredSteps
  <2>4. QED
    BY <2>1, <2>3
<1>4. QED
  BY <1>1, <1>2, <1>3, IDsFollow

\* The Director gives a token only for a live runtime and its tenant: of the IDs
\* that are known for a Kyma these are the ones issued for it.
LEMMA IssuedToken ==
  ASSUME TypeOK, IssuedInv, NEW o, FetchCompassToken(o)
  PROVE  IssuedInv'
<1>1. UNCHANGED <<mapping, mappingCache, runtimes, agent>> /\ job \in Job
  BY DEF FetchCompassToken, cpVars, dirVars, TypeOK, WorkTypeOK
<1>2. RuntimesKept /\ \A j \in Kymas : MappingFollows(j)
  BY <1>1 DEF RuntimesKept, Unused, MappingFollows
<1>3. CASE TokenIssued(job.id, job.account, o)
  <2>1. Issued(job.key, job)
    <3>1. job.id \in RuntimeIDs \ DryIDs /\ ~Unused(job.id)
      BY <1>1, <1>3 DEF TokenIssued, Knows, Live, Unused, IssuedInv, Job, RuntimeLabel
    <3>2. QED
      BY <1>3, <3>1 DEF TokenIssued, Knows, IssuedInv, JobIDs, Known, Issued
  <2>2. JobIDs'
    <3>1. job'.key = job.key /\ job'.id = job.id /\ job'.account = job.account
      BY <1>1, <1>3 DEF FetchCompassToken, TokenIssued, GoOn, Job
    <3>2. QED
      BY <1>1, <2>1, <3>1 DEF JobIDs, Known, Issued, Unused
  <2>3. QED
    BY <1>1, <1>2, <2>2, IDsFollow
<1>4. CASE ~TokenIssued(job.id, job.account, o)
  <2>1. JobFollows
    BY <1>1, <1>4
    DEF FetchCompassToken, RetryOnError, SettingStatus, GoOn, Idle, Job, At, JobFollows
  <2>2. QED
    BY <1>1, <1>2, <2>1, IDsFollow
<1>5. QED
  BY <1>3, <1>4

\* The Director issues an ID for the Kyma it is asked to register.
LEMMA IssuedRegister ==
  ASSUME TypeOK, IssuedInv, NEW o, NEW i \in RuntimeIDs \ DryIDs,
         RegisterInCompass(o, i)
  PROVE  IssuedInv'
<1>1. /\ UNCHANGED <<mapping, mappingCache, agent>>
      /\ job \in Job /\ DirTypeOK
      /\ \/ UNCHANGED runtimes
         \/ /\ Unused(i)
            /\ runtimes' = [runtimes EXCEPT ![i] =
                 [state |-> "live", kyma |-> job.key, account |-> job.account]]
  BY DEF RegisterInCompass, CreateRuntime, cpVars, TypeOK, WorkTypeOK
<1>2. RuntimesKept
  BY <1>1 DEF RuntimesKept, Unused, DirTypeOK
<1>3. JobFollows \/ JobIDs'
  <2>1. CASE o = "ok"
    <3>1. job'.key = job.key /\ job'.id = i /\ job'.pc = "upsertMapping"
      BY <2>1 DEF RegisterInCompass, GoOn, Idle
    <3>2. runtimes'[i].kyma = job.key /\ runtimes'[i].state = "live"
      BY <1>1, <2>1 DEF RegisterInCompass, CreateRuntime, TookEffect, DirTypeOK
    <3>3. QED
      BY <3>1, <3>2 DEF JobIDs, Known, Unused, At
  <2>2. CASE o # "ok"
    BY <2>2, AgainFollows, SettingStatusEnds DEF RegisterInCompass, RetryOnError
  <2>3. QED
    BY <2>1, <2>2
<1>4. QED
  BY <1>1, <1>2, <1>3, IDsFollow DEF MappingFollows

\* The agent gets what has been issued for its Kyma.
LEMMA IssuedAgent ==
  ASSUME TypeOK, IssuedInv, NEW o, UpsertAgentSecret(o)
  PROVE  IssuedInv'
<1>1. /\ UNCHANGED <<mapping, mappingCache, runtimes>>
      /\ Issued(job.key, job)
      /\ agent' = agent \/ agent' = [agent EXCEPT ![job.key] =
                                       [id |-> job.id, account |-> job.account]]
  BY DEF UpsertAgentSecret, WriteAgentSecret, cpVars, IssuedInv, JobIDs
<1>2. RuntimesKept /\ \A k \in Kymas : MappingFollows(k)
  BY <1>1 DEF RuntimesKept, Unused, MappingFollows
<1>3. ASSUME NEW k \in Kymas
      PROVE  agent'[k] \in {agent[k], NoAgent} \/ AgentIDs(k)'
  BY <1>1 DEF TypeOK, DirTypeOK, AgentIDs, Issued, Unused
<1>4. QED
  BY <1>2, <1>3, IDsFollow, SettingStatusEnds DEF UpsertAgentSecret

\* A deregistered runtime was issued all the same.
LEMMA IssuedDeregister ==
  ASSUME TypeOK, IssuedInv, NEW o, DeregisterFromCompass(o)
  PROVE  IssuedInv'
<1>1. /\ UNCHANGED <<mapping, mappingCache, agent>> /\ DirTypeOK
      /\ \/ UNCHANGED runtimes
         \/ /\ ~Unused(job.id)
            /\ runtimes' = [runtimes EXCEPT ![job.id].state = "deleted"]
  BY DEF DeregisterFromCompass, DeleteRuntime, Knows, Live, Unused, cpVars, TypeOK
<1>2. RuntimesKept
  BY <1>1 DEF RuntimesKept, Unused, DirTypeOK, Runtime
<1>3. JobFollows
  BY ReturnEnds, DeletingEnds, AgainFollows
  DEF DeregisterFromCompass, RetryOnError, DirectorError
<1>4. QED
  BY <1>1, <1>2, <1>3, IDsFollow DEF MappingFollows

\* The steps that write mappings write the ID of the job or keep one.
LEMMA IssuedWrites ==
  ASSUME TypeOK, IssuedInv, NEW o,
         \/ makeNewCompassMappingAndRequeue(o)
         \/ UpsertMapping(o)
         \/ SetStatus(o)
         \/ RemoveFinalizer(o)
         \/ DeleteCompassMapping(o)
  PROVE  IssuedInv'
<1> DEFINE m == mapping[job.key]
           c == mappingCache[job.key]
<1>1. /\ job.key \in Kymas /\ job \in Job /\ CPTypeOK
      /\ m \in CompassManagerMapping /\ c \in CompassManagerMapping
  BY NotIdle
  DEF TypeOK, WorkTypeOK, CPTypeOK, makeNewCompassMappingAndRequeue, UpsertMapping,
      SetStatus, RemoveFinalizer, DeleteCompassMapping, At
<1>2. UNCHANGED <<runtimes, agent>> /\ JobFollows
  BY <1>1
  DEF makeNewCompassMappingAndRequeue, UpsertMapping, SetStatus, RemoveFinalizer,
      DeleteCompassMapping, Return, GoOn, Idle, Job, JobFollows, dirVars
<1>3. ASSUME NEW b, NEW n, Write(job.key, b, n, o), n.id \in {NoID, m.id, c.id, job.id}
      PROVE  IssuedInv'
  <2>1. \A k \in Kymas : MappingFollows(k)
    BY <1>1, <1>3 DEF Write, Put, cpVars, CPTypeOK, MappingFollows
  <2>2. RuntimesKept
    BY <1>2 DEF RuntimesKept, Unused
  <2>3. QED
    BY <1>2, <2>1, <2>2, IDsFollow
<1>4. PICK b, n : Write(job.key, b, n, o) /\ n.id \in {NoID, m.id, c.id, job.id}
  BY <1>1, WrittenIDs
<1>5. QED
  BY <1>3, <1>4

\* Nobody else records an ID.
LEMMA IssuedEnvironment ==
  ASSUME TypeOK, IssuedInv, NEW k \in Kymas,
         \/ \E m \in BOOLEAN, a \in AccountLabel : CreateKyma(k, m, a)
         \/ DeleteKyma(k)
         \/ UpdateKyma(k)
         \/ ToggleKubeconfig(k)
         \/ DeleteMappingByUser(k)
         \/ CatchUp(k)
  PROVE  IssuedInv'
<1>1. /\ UNCHANGED <<runtimes, job>>
      /\ \/ UNCHANGED agent
         \/ agent' = [agent EXCEPT ![k] = NoAgent]
  BY DEF CreateKyma, DeleteKyma, UpdateKyma, ToggleKubeconfig, DeleteMappingByUser,
         CatchUp, Change, dirVars, mgrVars
<1>2. RuntimesKept /\ JobIDs'
  BY <1>1 DEF RuntimesKept, Unused, IssuedInv, JobIDs, Known, Issued, At
<1>3. \A j \in Kymas : agent'[j] \in {agent[j], NoAgent}
  BY <1>1 DEF TypeOK, DirTypeOK
<1>4. \/ UNCHANGED <<mapping, mappingCache>>
      \/ Put(k, Deleted(mapping[k]))
      \/ WatchMapping(k)
  BY DEF CreateKyma, DeleteKyma, UpdateKyma, ToggleKubeconfig, DeleteMappingByUser,
         CatchUp, SetKyma, KymaIsCreated, KymaIsDeleted, ModuleIsToggled,
         KymaIsLabelled, KubeconfigIsToggled, MappingIsDeletedByUser
<1>5. Deleted(mapping[k]).id \in {NoID, mapping[k].id}
  BY DEF Deleted, NoMapping, TypeOK, CPTypeOK, CompassManagerMapping
<1>6. \A j \in Kymas : MappingFollows(j)
  BY <1>4, <1>5 DEF Put, WatchMapping, MappingFollows, TypeOK, CPTypeOK
<1>7. QED
  BY <1>2, <1>3, <1>6, IDsFollow

\* IssuedInv is inductive, whatever the configuration.
LEMMA IssuedStep == ConfigTypeOK /\ IssuedInv /\ [ConfigNext]_configVars => IssuedInv'
<1> SUFFICES ASSUME ConfigTypeOK, IssuedInv, [ConfigNext]_configVars
             PROVE  IssuedInv'
  OBVIOUS
<1>1. TypeOK
  BY DEF ConfigTypeOK
<1>2. CASE UNCHANGED configVars
  BY <1>2
  DEF configVars, vars, IssuedInv, MappingIDs, AgentIDs, JobIDs, Known, Issued, Unused, At
<1>3. CASE ConfiguredWorker
  BY <1>1, <1>3, IssuedJobSteps, IssuedToken, IssuedRegister, IssuedAgent,
     IssuedDeregister, IssuedWrites
  DEF ConfiguredWorker, CallsInside, CallsOutside, DrySteps
<1>4. CASE \E c \in Config : RestartWith(c)
  <2>1. /\ job' = Idle /\ mapping' = mapping /\ mappingCache' = mapping
        /\ UNCHANGED <<runtimes, agent>>
    BY <1>4 DEF RestartWith, Restart, dirVars
  <2>2. QED
    BY <1>1, <2>1, IDsFollow DEF RuntimesKept, Unused, JobFollows, MappingFollows, Idle
<1>5. CASE Others
  BY <1>1, <1>5, IssuedJobSteps, IssuedEnvironment DEF Others
<1>6. QED
  BY <1>1, <1>2, <1>3, <1>4, <1>5, IssuedReconcile, IssuedEnvironment DEF ConfigNext

\* An agent only ever gets an ID and a tenant that the Director has put together
\* for its Kyma, whatever has been recorded under other configurations:
\* fetchCompassToken stands between the mapping and the agent, and the tenant of
\* a runtime never changes (ConfigureCompassRuntimeAgent).
THEOREM AgentsGetIssuedIDs == ConfigSpec => []AgentsHaveIssuedIDs
<1>1. IssuedInv => AgentsHaveIssuedIDs
  BY LandscapeAssumption
  DEF IssuedInv, AgentIDs, Issued, Unused, AgentsHaveIssuedIDs
<1>2. ConfigInit => IssuedInv
  BY IssuedInit DEF ConfigInit
<1>3. QED
  BY <1>1, <1>2, IssuedStep, ConfigTypeCorrect, PTL DEF ConfigSpec

-----------------------------------------------------------------------------
(***************************************************************************)
(* The label cm-dry-run.                                                   *)
(***************************************************************************)
\* The job that records an ID was made by the configuration that is still there.
LabelInv ==
  /\ At("upsertMapping") => (job.id \in DryIDs <=> config.dryRun)
  /\ DryLabelMarksDryIDs

\* A step that writes neither label nor ID.
LEMMA LabelStays ==
  ASSUME LabelInv, UNCHANGED dryLabel,
         \A k \in Kymas : mapping'[k].id \in {NoID, mapping[k].id},
         job'.pc # "upsertMapping" \/ UNCHANGED <<job, config>>
  PROVE  LabelInv'
  BY DEF LabelInv, DryLabelMarksDryIDs, At

\* The calls of the worker that do not write mappings: only a registration is
\* followed by the step that records an ID.
LEMMA LabelCalls ==
  ASSUME ConfigTypeOK, LabelInv, CallsOutside, UNCHANGED <<config, dryLabel>>
  PROVE  LabelInv'
<1>1. TypeOK /\ job \in Job /\ UNCHANGED mapping
  BY DEF ConfigTypeOK, TypeOK, WorkTypeOK, CallsOutside, RegisterInCompass,
         UpsertAgentSecret, DeregisterFromCompass, FetchCompassToken,
         DryRegisterInCompass, DryConfigureCompassRuntimeAgent,
         DryDeregisterFromCompass, cpVars
<1>2. ASSUME JobFollows \/ job'.pc = "writeSecret"
      PROVE  LabelInv'
  BY <1>1, <1>2, LabelStays DEF JobFollows
<1>3. ASSUME job'.pc = "upsertMapping", job'.id \in DryIDs <=> config.dryRun
      PROVE  LabelInv'
  BY <1>1, <1>3 DEF LabelInv, DryLabelMarksDryIDs, At
<1>4. ASSUME ~config.dryRun, NEW o, NEW i \in RuntimeIDs \ DryIDs, RegisterInCompass(o, i)
      PROVE  LabelInv'
  <2>1. CASE o = "ok"
    <3>1. job'.pc = "upsertMapping" /\ job'.id = i
      BY <1>4, <2>1 DEF RegisterInCompass, GoOn, Idle
    <3>2. QED
      BY <1>3, <1>4, <3>1
  <2>2. CASE o # "ok"
    BY <1>1, <1>2, <1>4, <2>2, AgainFollows, SettingStatusEnds
    DEF RegisterInCompass, RetryOnError
  <2>3. QED
    BY <2>1, <2>2
<1>5. ASSUME NEW o, UpsertAgentSecret(o) \/ DeregisterFromCompass(o)
      PROVE  LabelInv'
  BY <1>1, <1>2, <1>5, ReturnEnds, SettingStatusEnds, DeletingEnds, AgainFollows
  DEF UpsertAgentSecret, DeregisterFromCompass, RetryOnError, DirectorError
<1>6. ASSUME NEW o, FetchCompassToken(o)
      PROVE  LabelInv'
  <2>1. GoOn([job EXCEPT !.pc = "writeSecret", !.attempt = 0]) => job'.pc = "writeSecret"
    BY <1>1 DEF GoOn, Job
  <2>2. QED
    BY <1>1, <1>2, <1>6, <2>1, SettingStatusEnds, AgainFollows
    DEF FetchCompassToken, RetryOnError
<1>7. ASSUME config.dryRun, NEW i \in DryIDs, DryRegisterInCompass(i)
      PROVE  LabelInv'
  <2>1. job'.pc = "upsertMapping" /\ job'.id = i
    BY <1>7 DEF DryRegisterInCompass, GoOn, Idle
  <2>2. QED
    BY <1>3, <1>7, <2>1
<1>8. CASE DryConfigureCompassRuntimeAgent \/ DryDeregisterFromCompass
  BY <1>2, <1>8, SettingStatusEnds, DeletingEnds
  DEF DryConfigureCompassRuntimeAgent, DryDeregisterFromCompass
<1>9. QED
  BY <1>4, <1>5, <1>6, <1>7, <1>8 DEF CallsOutside

\* UpsertCompassMapping writes ID and label together; the others write no ID.
LEMMA LabelWrites ==
  ASSUME ConfigTypeOK, LabelInv, CallsInside, UNCHANGED config
  PROVE  LabelInv'
<1>1. TypeOK /\ CPTypeOK /\ job \in Job /\ dryLabel \in [Kymas -> BOOLEAN]
  BY DEF ConfigTypeOK, TypeOK, WorkTypeOK
<1>2. CASE (On!CheckStatus \/ Off!CheckStatus \/ ReadMapping) /\ UNCHANGED dryLabel
  <2>1. UNCHANGED mapping
    BY <1>1, <1>2, ConfiguredCheckStatus DEF ReadMapping, cpVars
  <2>2. JobFollows
    <3>1. ASSUME NEW p \in {"register", "fetchToken"}, NEW b,
                 \/ GoOn([job EXCEPT !.pc = p])
                 \/ GoOn([job EXCEPT !.pc = "removeFinalizer", !.terminating = b])
          PROVE  JobFollows
      BY <1>1, <3>1 DEF GoOn, Job, JobFollows
    <3>2. QED
      BY <1>1, <1>2, <3>1, ReturnEnds, SettingStatusEnds, ConfiguredCheckStatus
      DEF ReadMapping
  <2>3. QED
    BY <1>2, <2>1, <2>2, LabelStays DEF JobFollows
<1>3. ASSUME NEW o, UNCHANGED dryLabel,
             SetStatus(o) \/ RemoveFinalizer(o) \/ DeleteCompassMapping(o)
      PROVE  LabelInv'
  <2>1. job.key \in Kymas
    BY <1>1, <1>3, NotIdle DEF SetStatus, RemoveFinalizer, DeleteCompassMapping, At, TypeOK
  <2> DEFINE m == mapping[job.key]
  <2>2. m \in CompassManagerMapping
    BY <1>1, <2>1 DEF CPTypeOK
  <2>3. PICK b, n : /\ Write(job.key, b, n, o)
                    /\ b => n.id \in {NoID, m.id}
    <3>1. /\ [m EXCEPT !.status = MappingStatusOf(job.goal)].id = m.id
          /\ [m EXCEPT !.finalizer = FALSE].id = m.id
          /\ NoMapping.id = NoID
          /\ Deleted(m).id \in {NoID, m.id}
      BY <2>2 DEF CompassManagerMapping, NoMapping, Deleted
    <3>2. QED
      BY <1>3, <3>1
      DEF SetStatus, RemoveFinalizer, DeleteCompassMapping, SetCompassMappingStatus,
          RemoveCMFinalizer, DeleteMapping, Updatable
  <2>4. \A k \in Kymas : mapping'[k].id \in {NoID, mapping[k].id}
    BY <1>1, <2>1, <2>3 DEF Write, Put, cpVars, CPTypeOK
  <2>5. job'.pc # "upsertMapping"
    BY <1>1, <1>3
    DEF SetStatus, RemoveFinalizer, DeleteCompassMapping, Return, GoOn, Idle, Job
  <2>6. QED
    BY <1>3, <2>4, <2>5, LabelStays
<1>4. ASSUME NEW o, \/ /\ makeNewCompassMappingAndRequeue(o)
                       /\ LabelsWritten(CreateAccepted(job.key), o)
                    \/ /\ UpsertMapping(o)
                       /\ LabelsWritten(UpsertAccepted(job.key), o)
      PROVE  LabelInv'
  <2>1. PICK k \in Kymas : k = job.key
    BY <1>1, <1>4, NotIdle DEF makeNewCompassMappingAndRequeue, UpsertMapping, At, TypeOK
  <2>2. PICK b, n : /\ Write(k, b, n, o) /\ LabelsWritten(b, o)
                    /\ n.id # NoID => (n.id \in DryIDs <=> config.dryRun)
    <3>1. mappingCache[k] \in CompassManagerMapping
      BY <1>1 DEF CPTypeOK
    <3>2. NewMapping(NoID, kyma[k].account).id = NoID /\ Upserted(k, job.id).id = job.id
      BY <3>1 DEF Upserted, GetCompassMapping, NewMapping, CompassManagerMapping
    <3>3. QED
      BY <1>4, <2>1, <3>2
      DEF makeNewCompassMappingAndRequeue, UpsertMapping, CreateCompassMapping,
          UpsertCompassMapping, LabelInv
  <2>3. DryLabelMarksDryIDs'
    <3>1. CASE b /\ TookEffect(o)
      BY <1>1, <2>1, <2>2, <3>1
      DEF Write, Put, CPTypeOK, LabelsWritten, DryLabel, LabelInv, DryLabelMarksDryIDs
    <3>2. CASE ~(b /\ TookEffect(o))
      BY <2>2, <3>2 DEF Write, cpVars, LabelsWritten, LabelInv, DryLabelMarksDryIDs
    <3>3. QED
      BY <3>1, <3>2
  <2>4. job'.pc # "upsertMapping"
    BY <1>4 DEF makeNewCompassMappingAndRequeue, UpsertMapping, Return, Idle
  <2>5. QED
    BY <2>3, <2>4 DEF LabelInv, At
<1>5. QED
  BY <1>2, <1>3, <1>4 DEF CallsInside

\* LabelInv is inductive: the configuration changes only when no call is under way.
LEMMA LabelStep == ConfigTypeOK /\ LabelInv /\ [ConfigNext]_configVars => LabelInv'
<1> SUFFICES ASSUME ConfigTypeOK, LabelInv, [ConfigNext]_configVars
             PROVE  LabelInv'
  OBVIOUS
<1>1. TypeOK
  BY DEF ConfigTypeOK
<1>2. CASE UNCHANGED configVars
  BY <1>2, LabelStays DEF configVars, vars
<1>3. CASE ConfiguredWorker
  BY <1>3, LabelCalls, LabelWrites DEF ConfiguredWorker
<1>4. CASE \E c \in Config : RestartWith(c)
  BY <1>4, LabelStays DEF RestartWith, Restart, Idle
<1>5. ASSUME NEW k \in Kymas, Reconcile(k), UNCHANGED <<config, dryLabel>>
      PROVE  LabelInv'
  <2>1. UNCHANGED mapping /\ job = Idle
    BY <1>5 DEF Reconcile, cpVars
  <2>2. job'.pc # "upsertMapping"
    <3>1. ASSUME NEW p, NEW i, NEW a, Start(k, p, i, a)
          PROVE  job'.pc = p
      BY <3>1 DEF Start, Idle
    <3>2. QED
      BY <1>5, <2>1, <3>1
      DEF Reconcile, handleKymaDeletion, AwaitKubeconfig, NoGlobalAccount, Drop, Idle
  <2>3. QED
    BY <1>5, <2>1, <2>2, LabelStays
<1>6. ASSUME NEW k \in Kymas, UNCHANGED <<config, dryLabel>>,
             \/ \E m \in BOOLEAN, a \in AccountLabel : CreateKyma(k, m, a)
             \/ DeleteKyma(k)
             \/ UpdateKyma(k)
             \/ ToggleKubeconfig(k)
             \/ DeleteMappingByUser(k)
             \/ CatchUp(k)
      PROVE  LabelInv'
  <2>1. UNCHANGED job
    BY <1>6
    DEF CreateKyma, DeleteKyma, UpdateKyma, ToggleKubeconfig, DeleteMappingByUser,
        CatchUp, Change, mgrVars
  <2>2. mapping' = mapping \/ Put(k, Deleted(mapping[k]))
    BY <1>6
    DEF CreateKyma, DeleteKyma, UpdateKyma, ToggleKubeconfig, DeleteMappingByUser,
        CatchUp, WatchMapping, SetKyma, KymaIsCreated, KymaIsDeleted, ModuleIsToggled,
        KymaIsLabelled, KubeconfigIsToggled, MappingIsDeletedByUser
  <2>3. Deleted(mapping[k]).id \in {NoID, mapping[k].id}
    BY <1>1 DEF Deleted, NoMapping, TypeOK, CPTypeOK, CompassManagerMapping
  <2>4. \A j \in Kymas : mapping'[j].id \in {NoID, mapping[j].id}
    BY <1>1, <2>2, <2>3 DEF Put, TypeOK, CPTypeOK
  <2>5. QED
    BY <1>6, <2>1, <2>4, LabelStays
<1>7. CASE ReadFails /\ UNCHANGED <<config, dryLabel>>
  BY <1>7, ReturnEnds, LabelStays DEF ReadFails, cpVars, JobFollows
<1>8. QED
  BY <1>2, <1>3, <1>4, <1>5, <1>6, <1>7 DEF ConfigNext, Others

\* The label cm-dry-run and the ID of a mapping always come from the same
\* configuration, whichever process created the mapping and however often the
\* configuration has changed (CreateCompassMapping, UpsertCompassMapping).
THEOREM DryLabelIsRight == ConfigSpec => []DryLabelMarksDryIDs
<1>1. ConfigInit => LabelInv
  BY DEF ConfigInit, Init, CPInit, NoMapping, Idle, At, LabelInv, DryLabelMarksDryIDs
<1>2. LabelInv => DryLabelMarksDryIDs
  BY DEF LabelInv
<1>3. QED
  BY <1>1, <1>2, LabelStep, ConfigTypeCorrect, PTL DEF ConfigSpec

-----------------------------------------------------------------------------
(***************************************************************************)
(* The requests.                                                           *)
(***************************************************************************)
\* The steps that Configuration adds or changes bring the request back or go on
\* with it, like those they take the place of.
LEMMA ConfiguredKeep ==
  ASSUME TypeOK, DrySteps \/ On!CheckStatus \/ Off!CheckStatus
  PROVE  /\ (KeyInv => KeyInv') /\ (CutInv => CutInv')
         /\ KeyInv /\ WantedInv => WantedInv'
<1>1. PICK k \in Kymas : k = job.key
  BY ConfiguredSteps
<1>2. UNCHANGED <<kyma, mapping, agent>> /\ job \in Job
  BY ConfiguredSteps DEF cpVars, dirVars
<1>3. Handled(k)
  <2>1. CASE Return(TRUE)
    BY <2>1 DEF Handled
  <2>2. ASSUME NEW g, GoOn(SettingStatus(g))
        PROVE  Handled(k)
    <3>1. SettingStatus(g).key = k /\ SettingStatus(g).pc = "setStatus"
      BY <1>1 DEF SettingStatus, Idle
    <3>2. QED
      BY <2>2, <3>1 DEF Handled, DeletionSteps
  <2>3. ASSUME NEW p \in {"register", "fetchToken"}, GoOn([job EXCEPT !.pc = p])
        PROVE  Handled(k)
    <3>1. [job EXCEPT !.pc = p].key = k /\ [job EXCEPT !.pc = p].pc = p
      BY <1>1, <1>2 DEF Job
    <3>2. QED
      BY <2>3, <3>1 DEF Handled, DeletionSteps
  <2>4. ASSUME NEW i \in DryIDs,
               GoOn([Idle EXCEPT !.pc = "upsertMapping", !.key = job.key, !.id = i])
        PROVE  Handled(k)
    BY <1>1, <2>4, DryJobs, DryIDsAssumption DEF Handled, DeletionSteps
  <2>5. CASE DryDeregisterFromCompass /\ GoOn(DeletingMapping)
    <3>1. job.pc \in DeletionSteps
      BY <2>5 DEF DryDeregisterFromCompass, At, DeletionSteps
    <3>2. DeletingMapping.key = k
      BY <1>1 DEF DeletingMapping, Idle
    <3>3. QED
      BY <2>5, <3>1, <3>2 DEF Handled
  <2>6. QED
    BY <2>1, <2>2, <2>3, <2>4, <2>5, ConfiguredSteps
<1>4. WantedInv => (mapping'[k].exists /\ ~mapping'[k].finalizer => Gone(k))
  BY <1>2 DEF WantedInv
<1>5. QED
  BY <1>1, <1>2, <1>3, <1>4, HandledKeys, HandledWanted

\* KeyInv and CutInv are inductive, whatever the configuration.
LEMMA ConfigKeyStep ==
  /\ NamesUsedOnce /\ ConfigTypeOK /\ KeyInv /\ [ConfigNext]_configVars => KeyInv'
  /\ ConfigTypeOK /\ CutInv /\ [ConfigNext]_configVars => CutInv'
<1> SUFFICES ASSUME TypeOK, [ConfigNext]_configVars
             PROVE  /\ NamesUsedOnce /\ KeyInv => KeyInv'
                    /\ CutInv => CutInv'
  BY DEF ConfigTypeOK
<1>1. CASE UNCHANGED configVars
  BY <1>1 DEF configVars, vars, KeyInv, CutInv, AbsentIsIdle, Gone
<1>2. CASE ConfiguredWorker
  BY <1>2, ConfiguredKeep, JobStepsKeep, WritesKeep
  DEF ConfiguredWorker, CallsInside, CallsOutside, DrySteps
<1>3. QED
  BY <1>1, <1>2, RestartFindsWanted, KeyReconcile, JobStepsKeep, KeyEnvironment
  DEF ConfigNext, RestartWith, Others

\* So is WantedInv.
LEMMA ConfigWantedStep ==
  ASSUME NamesUsedOnce, LabelsComeFirst
  PROVE  ConfigTypeOK /\ KeyInv /\ WantedInv /\ [ConfigNext]_configVars => WantedInv'
<1> SUFFICES ASSUME ConfigTypeOK, KeyInv, WantedInv, [ConfigNext]_configVars
             PROVE  WantedInv'
  OBVIOUS
<1>1. TypeOK
  BY DEF ConfigTypeOK
<1>2. CASE UNCHANGED configVars
  BY <1>2
  DEF configVars, vars, WantedInv, NoLostRegistration, Wanted, Ready, Present, Gone
<1>3. CASE ConfiguredWorker
  BY <1>1, <1>3, ConfiguredKeep, JobStepsKeep, WritesKeep
  DEF ConfiguredWorker, CallsInside, CallsOutside, DrySteps
<1>4. QED
  BY <1>1, <1>2, <1>3, RestartFindsWanted, WantedReconcile, JobStepsKeep,
     WantedEnvironment
  DEF ConfigNext, RestartWith, Others

\* Also under every configuration, dry runs and changes of the configuration
\* included, a Kyma on its way to Ready is not forgotten.
THEOREM ConfiguredRegistrationIsNotLost ==
  ASSUME NamesUsedOnce, LabelsComeFirst
  PROVE  ConfigSpec => []NoLostRegistration
<1>1. WantedInv => NoLostRegistration
  BY DEF WantedInv
<1>2. ConfigInit => KeyInv /\ WantedInv
  BY KeyInit, WantedInit DEF ConfigInit
<1>3. QED
  BY <1>1, <1>2, ConfigKeyStep, ConfigWantedStep, ConfigTypeCorrect, PTL DEF ConfigSpec

\* Only the call of the Director ends a runtime; a dry run ends none.
LEMMA ConfiguredLiveStaysLive ==
  ASSUME ConfigTypeOK, [ConfigNext]_configVars, NEW i \in RuntimeIDs, Live(i), ~Live(i)'
  PROVE  \E o \in Outcomes : DeregisterFromCompass(o)
<1>1. TypeOK /\ runtimes' # runtimes
  BY DEF ConfigTypeOK, Live
<1>2. CASE DrySteps \/ On!CheckStatus \/ Off!CheckStatus
  BY <1>1, <1>2, ConfiguredSteps DEF dirVars
<1>3. CASE Next
  BY <1>1, <1>3, LiveStaysLive
<1>4. QED
  BY <1>1, <1>2, <1>3
  DEF configVars, vars, ConfigNext, ConfiguredWorker, CallsInside, CallsOutside, DrySteps,
      Next, Worker, RestartWith, Environment

\* Whatever the configuration is and has been, no cluster in use loses its
\* runtime: the agents only have IDs that were issued for their Kymas, also where
\* the worker has an ID from a dry run.
THEOREM ConfiguredAgentsKeepTheirRuntimes == ConfigSpec => AgentsAreNotCutOff
<1>1. TypeOK /\ IssuedInv =>
        /\ Live(job.id) => runtimes[job.id].kyma = job.key
        /\ \A k \in Kymas : Live(agent[k].id) => runtimes[agent[k].id].kyma = k
  <2>1. TypeOK /\ IssuedInv => (Live(job.id) => runtimes[job.id].kyma = job.key)
    BY DEF TypeOK, WorkTypeOK, Job, RuntimeLabel, IssuedInv, JobIDs, Known, Live, Unused
  <2>2. ASSUME IssuedInv, NEW k \in Kymas, Live(agent[k].id)
        PROVE  runtimes[agent[k].id].kyma = k
    <3>1. agent[k] # NoAgent
      BY <2>2, LandscapeAssumption DEF NoAgent, Live
    <3>2. QED
      BY <2>2, <3>1 DEF IssuedInv, AgentIDs, Issued
  <2>3. QED
    BY <2>1, <2>2
<1>2. ConfigTypeOK /\ CutInv /\ IssuedInv /\ [ConfigNext]_configVars =>
        [\A i \in RuntimeIDs : Live(i) /\ ~Live(i)' =>
           \A k \in Kymas : agent[k].id = i => kyma[k].phase = "deleted"]_vars
  BY <1>1, ConfiguredLiveStaysLive, DeregistersItsOwn DEF ConfigTypeOK, Gone
<1>3. ConfigInit => CutInv /\ IssuedInv
  BY KeyInit, IssuedInit DEF ConfigInit
<1>4. ConfigTypeOK /\ CutInv /\ [ConfigNext]_configVars => CutInv'
  BY ConfigKeyStep
<1>5. QED
  BY <1>2, <1>3, <1>4, IssuedStep, ConfigTypeCorrect, PTL
  DEF ConfigSpec, AgentsAreNotCutOff
=============================================================================
