--------------------------- MODULE LifecycleProofs ---------------------------
(***************************************************************************)
(* The reconciler implements RuntimeLifecycle, for any number of Kymas,    *)
(* accounts and runtimes, any number of failed calls, lost answers and     *)
(* restarts, and whatever users do to mappings, Kymas and kubeconfigs: as  *)
(* long as it reads what it has written, a Kyma keeps its global account   *)
(* and no name is used twice.                                              *)
(***************************************************************************)
EXTENDS CompassManagerProofs

Undisturbed == Disturbances \cap {"cacheLag", "accountMove", "recreate"} = {}

Gone(k) == kyma[k].phase = "deleted"

\* The global account of a Kyma is a and can no longer change.
Settled(k, a) == a # NoAccount /\ (Present(k) => kyma[k].account = a)

\* What a mapping may say of the runtime of its Kyma.
Recorded(k) ==
  LET m == mapping[k]
  IN /\ ~m.exists => m.id = NoID
     /\ m.id # NoID => /\ runtimes[m.id].state # "unused"
                       /\ runtimes[m.id].kyma = k
                       /\ runtimes[m.id].account = m.account
                       /\ Settled(k, m.account)
                       /\ Present(k) => Live(m.id)
     /\ m.exists /\ ~m.finalizer => Gone(k) /\ ~Live(m.id)
     /\ kyma[k].phase = "absent" => ~m.exists /\ agent[k] = NoAgent

\* What the worker holds on to still agrees with the mapping of its Kyma.
JobFits ==
  LET m == mapping[job.key]
  IN /\ job.pc # "idle" => kyma[job.key].phase # "absent"
     /\ job.pc \in {"checkStatus", "register", "fetchToken", "writeSecret", "deregister"} =>
          /\ m.id # NoID => m.id = job.id /\ m.account = job.account
          /\ Live(job.id) => m.id = job.id
     /\ job.pc \in {"checkStatus", "register"} => Settled(job.key, job.account)
     /\ job.pc = "register" => job.id = NoID
     /\ job.pc = "writeSecret" => Live(job.id)
     /\ job.pc = "upsertMapping" =>
          /\ m.id = NoID
          /\ Live(job.id)
          /\ runtimes[job.id].kyma = job.key
          /\ Settled(job.key, runtimes[job.id].account)
     /\ job.pc \in {"deregister", "readMapping", "removeFinalizer", "deleteMapping"} =>
          Gone(job.key)
     /\ job.pc \in {"readMapping", "removeFinalizer", "deleteMapping"} => ~Live(m.id)

LifeInv ==
  /\ mappingCache = mapping
  /\ \A k \in Kymas : Recorded(k)
  /\ JobFits

-----------------------------------------------------------------------------
(***************************************************************************)
(* LifeInv is inductive.                                                   *)
(***************************************************************************)
\* Nothing is recorded, connected or under way at first.
LEMMA LifeInvInit == Init => LifeInv
  BY DEF Init, CPInit, DirInit, LifeInv, Recorded, JobFits, NoMapping, NoAgent,
         Idle, AbsentKyma, KymaCR

\* A mapping that is left alone goes on to fit its Kyma.
LEMMA RecordedStays ==
  ASSUME NEW k \in Kymas, Recorded(k), UNCHANGED <<kyma, runtimes, agent>>,
         mapping'[k] = mapping[k]
  PROVE  Recorded(k)'
  BY DEF Recorded, Settled, Gone, Present, Live

\* The idle worker fits any mapping.
LEMMA IdleFits == job = Idle => JobFits
  BY DEF Idle, JobFits

\* Where only the job, the queue and the metric change, LifeInv is about the job.
LEMMA LifeMoves ==
  ASSUME LifeInv, UNCHANGED <<cpVars, dirVars>>, JobFits'
  PROVE  LifeInv'
  BY RecordedStays DEF LifeInv, cpVars, dirVars

\* The request that Reconcile starts fits what it has read.
LEMMA LifeReconcile ==
  ASSUME TypeOK, LifeInv, NEW k \in Kymas, Reconcile(k)
  PROVE  LifeInv'
<1>1. UNCHANGED <<cpVars, dirVars>> /\ Recorded(k) /\ mappingCache[k] = mapping[k]
  BY DEF Reconcile, LifeInv
<1>2. CASE ~Present(k) /\ handleKymaDeletion(k)
  <2>1. CASE Drop(k)
    BY <1>1, <2>1, LifeMoves DEF Drop, LifeInv, JobFits, Settled, Gone, Present, Live,
       cpVars, dirVars
  <2>2. CASE /\ mapping[k].exists /\ mapping[k].id # NoID
             /\ Start(k, "deregister", mapping[k].id, mapping[k].account)
    <3>1. Gone(k) /\ kyma[k].phase # "absent"
      BY <1>1, <1>2, <2>2 DEF Recorded, Gone, Present, TypeOK, CPTypeOK, KymaCR
    <3>2. JobFits'
      BY <1>1, <2>2, <3>1 DEF Start, Idle, JobFits, Gone, cpVars
    <3>3. QED
      BY <1>1, <3>2, LifeMoves
  <2>3. CASE /\ mapping[k].exists /\ mapping[k].id = NoID
             /\ Start(k, "readMapping", NoID, NoAccount)
    <3>1. Gone(k) /\ kyma[k].phase # "absent"
      BY <1>1, <1>2, <2>3 DEF Recorded, Gone, Present, TypeOK, CPTypeOK, KymaCR
    <3>2. JobFits'
      BY <1>1, <2>3, <3>1 DEF Start, Idle, JobFits, Gone, Live, cpVars
    <3>3. QED
      BY <1>1, <3>2, LifeMoves
  <2>4. QED
    BY <1>1, <1>2, <2>1, <2>2, <2>3 DEF handleKymaDeletion, GetCompassMapping
<1>3. CASE UNCHANGED job
  BY <1>1, <1>3, LifeMoves DEF LifeInv, JobFits, Settled, Gone, Present, Live,
     cpVars, dirVars
<1>4. CASE Present(k) /\ Start(k, "createMapping", NoID, NoAccount)
  <2>1. JobFits'
    BY <1>1, <1>4 DEF Start, Idle, JobFits, Present, cpVars
  <2>2. QED
    BY <1>1, <2>1, LifeMoves
<1>5. CASE /\ Present(k) /\ kyma[k].account # NoAccount
           /\ Start(k, "checkStatus", mapping[k].id, kyma[k].account)
  <2>1. mapping[k].id # NoID => mapping[k].account = kyma[k].account
    BY <1>1, <1>5 DEF Recorded, Settled
  <2>2. JobFits'
    BY <1>1, <1>5, <2>1 DEF Start, Idle, JobFits, Settled, Present, Live, cpVars, dirVars
  <2>3. QED
    BY <1>1, <2>2, LifeMoves
<1>6. QED
  BY <1>1, <1>2, <1>3, <1>4, <1>5
  DEF Reconcile, AwaitKubeconfig, NoGlobalAccount, Drop, GetCompassRuntimeID, GetCompassMapping

\* The steps that only look at what there is, and the call for a token.
LEMMA LifeJobSteps ==
  ASSUME TypeOK, LifeInv, NEW o,
         CheckStatus \/ ReadMapping \/ ReadFails \/ FetchCompassToken(o)
  PROVE  LifeInv'
<1>1. UNCHANGED <<cpVars, dirVars>> /\ job \in Job /\ JobFits
  BY DEF CheckStatus, ReadMapping, ReadFails, FetchCompassToken, TypeOK, WorkTypeOK,
         LifeInv
<1> SUFFICES JobFits'
  BY <1>1, LifeMoves
<1>2. ASSUME NEW b, Return(b)
      PROVE  JobFits'
  BY <1>2 DEF Return, Idle, JobFits
<1>3. ASSUME NEW g, GoOn(SettingStatus(g)), job.pc # "idle"
      PROVE  JobFits'
  BY <1>1, <1>3 DEF GoOn, SettingStatus, Idle, JobFits, cpVars
<1>4. CASE CheckStatus
  <2>1. CASE NeedsRegistration(job.id) /\ GoOn([job EXCEPT !.pc = "register"])
    BY <1>1, <1>4, <2>1
    DEF CheckStatus, At, GoOn, NeedsRegistration, JobFits, Settled, Present, Live, Job,
        cpVars, dirVars
  <2>2. CASE GoOn([job EXCEPT !.pc = "fetchToken"])
    BY <1>1, <1>4, <2>2
    DEF CheckStatus, At, GoOn, JobFits, Live, Job, cpVars, dirVars
  <2>3. QED
    BY <1>2, <1>3, <1>4, <2>1, <2>2 DEF CheckStatus, At
<1>5. CASE ReadMapping
  <2>1. At("readMapping") /\ Gone(job.key) /\ ~Live(mapping[job.key].id)
    BY <1>1, <1>5 DEF ReadMapping, At, JobFits
  <2>2. ASSUME NEW b, GoOn([job EXCEPT !.pc = "removeFinalizer", !.terminating = b])
        PROVE  JobFits'
    BY <1>1, <2>1, <2>2 DEF At, GoOn, JobFits, Gone, Live, Job, cpVars, dirVars
  <2>3. QED
    BY <1>2, <1>5, <2>2 DEF ReadMapping
<1>6. CASE ReadFails
  BY <1>2, <1>6 DEF ReadFails
<1>7. CASE FetchCompassToken(o)
  <2>1. At("fetchToken") /\ job.pc # "idle"
    BY <1>7 DEF FetchCompassToken, At
  <2>2. CASE TokenIssued(job.id, job.account, o)
             /\ GoOn([job EXCEPT !.pc = "writeSecret", !.attempt = 0])
    BY <1>1, <2>1, <2>2
    DEF At, GoOn, TokenIssued, Knows, JobFits, Live, Job, cpVars, dirVars
  <2>3. CASE GoOn([job EXCEPT !.attempt = @ + 1])
    BY <1>1, <2>1, <2>3 DEF At, GoOn, JobFits, Live, Job, cpVars, dirVars
  <2>4. CASE GoOn(SettingStatus(ConfigureResult(FALSE)))
    BY <1>3, <2>1, <2>4
  <2>5. \/ /\ TokenIssued(job.id, job.account, o)
           /\ GoOn([job EXCEPT !.pc = "writeSecret", !.attempt = 0])
        \/ GoOn([job EXCEPT !.attempt = @ + 1])
        \/ GoOn(SettingStatus(ConfigureResult(FALSE)))
    BY <1>7 DEF FetchCompassToken, RetryOnError
  <2>6. QED
    BY <2>2, <2>3, <2>4, <2>5
<1>8. QED
  BY <1>4, <1>5, <1>6, <1>7

\* Without a lag of its cache, the manager reads what it has written.
LEMMA WritesAreRead ==
  ASSUME Undisturbed, TypeOK, LifeInv, NEW k \in Kymas, NEW m, NEW b, NEW o,
         Write(k, b, m, o)
  PROVE  /\ mappingCache' = mapping' /\ UNCHANGED <<kyma, kubeconfig>>
         /\ \A j \in Kymas \ {k} : mapping'[j] = mapping[j]
         /\ \/ b /\ mapping'[k] = m
            \/ mapping' = mapping
  BY DEF Undisturbed, TypeOK, CPTypeOK, LifeInv, Write, Put, cpVars

\* A write of a mapping that fits its Kyma, followed by a job that fits.
LEMMA LifeWrite ==
  ASSUME Undisturbed, TypeOK, LifeInv, NEW k \in Kymas, NEW m, NEW b, NEW o,
         Write(k, b, m, o), UNCHANGED dirVars, JobFits',
         b /\ mapping'[k] = m => Recorded(k)'
  PROVE  LifeInv'
<1>1. ASSUME NEW j \in Kymas
      PROVE  Recorded(j)'
  BY WritesAreRead, RecordedStays DEF LifeInv, dirVars
<1>2. QED
  BY <1>1, WritesAreRead DEF LifeInv

\* A new mapping records no runtime.
LEMMA LifeCreateMapping ==
  ASSUME Undisturbed, TypeOK, LifeInv, NEW o, makeNewCompassMappingAndRequeue(o)
  PROVE  LifeInv'
<1>0. PICK k \in Kymas : k = job.key
  BY NotIdle DEF TypeOK, makeNewCompassMappingAndRequeue, At
<1> DEFINE b == CreateAccepted(k)
           m == NewMapping(NoID, kyma[k].account)
<1>1. Write(k, b, m, o) /\ UNCHANGED dirVars /\ job' = Idle
  BY <1>0 DEF makeNewCompassMappingAndRequeue, CreateCompassMapping, Return
<1>2. JobFits'
  BY <1>1 DEF Idle, JobFits
<1>3. b /\ mapping'[k] = m => Recorded(k)'
  BY <1>1, WritesAreRead
  DEF CreateAccepted, NewMapping, Recorded, Present
<1>4. QED
  <2> HIDE DEF b, m
  <2> QED
    BY <1>1, <1>2, <1>3, LifeWrite

\* Recording the ID: the runtime is live and belongs to the account of the Kyma.
LEMMA LifeUpsertMapping ==
  ASSUME Undisturbed, TypeOK, LifeInv, NEW o, UpsertMapping(o)
  PROVE  LifeInv'
<1>0. PICK k \in Kymas : k = job.key
  BY NotIdle DEF TypeOK, UpsertMapping, At
<1> DEFINE b == UpsertAccepted(k)
           m == Upserted(k, job.id)
<1>1. Write(k, b, m, o) /\ UNCHANGED dirVars /\ job' = Idle
  BY <1>0 DEF UpsertMapping, UpsertCompassMapping, Return
<1>2. JobFits'
  BY <1>1 DEF Idle, JobFits
<1>3. b /\ mapping'[k] = m => Recorded(k)'
  <2> SUFFICES ASSUME b, mapping'[k] = m
               PROVE  Recorded(k)'
    OBVIOUS
  <2>1. /\ Recorded(k) /\ Present(k) /\ Present(k)' /\ UNCHANGED <<kyma, runtimes>>
        /\ mapping[k] \in CompassManagerMapping /\ mappingCache[k] = mapping[k]
    BY <1>1, WritesAreRead
    DEF UpsertAccepted, LifeInv, dirVars, TypeOK, CPTypeOK, Present
  <2>2. /\ Live(job.id)
        /\ runtimes[job.id].kyma = k
        /\ Settled(k, runtimes[job.id].account)
    BY <1>0 DEF LifeInv, JobFits, UpsertMapping, At
  <2>3. /\ m.exists /\ m.finalizer
        /\ m.id = job.id
        /\ m.account = runtimes[job.id].account
    BY <2>1, <2>2
    DEF Upserted, GetCompassMapping, NewMapping, CompassManagerMapping, Recorded,
        Settled, Gone, Present
  <2> HIDE DEF m
  <2>4. QED
    BY <2>1, <2>2, <2>3 DEF Recorded, Settled, Present, Live
<1>4. QED
  <2> HIDE DEF b, m
  <2> QED
    BY <1>1, <1>2, <1>3, LifeWrite

\* Setting a status changes nothing that LifeInv speaks of.
LEMMA LifeSetStatus ==
  ASSUME Undisturbed, TypeOK, LifeInv, NEW o, SetStatus(o)
  PROVE  LifeInv'
<1>0. PICK k \in Kymas : k = job.key
  BY NotIdle DEF TypeOK, SetStatus, At
<1> DEFINE b == Updatable(k)
           m == [mapping[k] EXCEPT !.status = MappingStatusOf(job.goal)]
<1>1. /\ Write(k, b, m, o) /\ UNCHANGED dirVars /\ job' = Idle
      /\ mapping[k] \in CompassManagerMapping
  BY <1>0 DEF TypeOK, CPTypeOK, SetStatus, SetCompassMappingStatus,
              GetCompassMapping, LifeInv, Return
<1>2. JobFits'
  BY <1>1 DEF Idle, JobFits
<1>3. b /\ mapping'[k] = m => Recorded(k)'
  <2>1. /\ m.exists = mapping[k].exists /\ m.id = mapping[k].id
        /\ m.account = mapping[k].account /\ m.finalizer = mapping[k].finalizer
    BY <1>1 DEF CompassManagerMapping
  <2>2. Recorded(k) /\ UNCHANGED <<kyma, runtimes, agent>>
    BY <1>1, WritesAreRead DEF LifeInv, dirVars
  <2> HIDE DEF m
  <2>3. QED
    BY <2>1, <2>2 DEF Recorded, Settled, Gone, Present, Live
<1>4. QED
  <2> HIDE DEF b, m
  <2> QED
    BY <1>1, <1>2, <1>3, LifeWrite

\* The finalizer goes only after the runtime has been deregistered.
LEMMA LifeRemoveFinalizer ==
  ASSUME Undisturbed, TypeOK, LifeInv, NEW o, RemoveFinalizer(o)
  PROVE  LifeInv'
<1>0. PICK k \in Kymas : k = job.key
  BY NotIdle DEF TypeOK, RemoveFinalizer, At
<1> DEFINE b == Updatable(k)
           m == IF mapping[k].deleting THEN NoMapping
                ELSE [mapping[k] EXCEPT !.finalizer = FALSE]
<1>1. /\ Write(k, b, m, o) /\ UNCHANGED dirVars /\ job \in Job
      /\ mapping[k] \in CompassManagerMapping
      /\ Gone(k) /\ kyma[k].phase # "absent" /\ ~Live(mapping[k].id)
  BY <1>0 DEF TypeOK, WorkTypeOK, CPTypeOK, RemoveFinalizer, At,
              RemoveCMFinalizer, GetCompassMapping, LifeInv, JobFits
<1>2. /\ m.id # NoID => /\ m.id = mapping[k].id
                        /\ m.account = mapping[k].account
      /\ ~m.exists => m.id = NoID
      /\ ~Live(m.id)
  BY <1>1 DEF CompassManagerMapping, NoMapping, Live, LifeInv, Recorded
<1>3. ~Live(mapping[k].id)' /\ Gone(k)' /\ UNCHANGED <<kyma, runtimes, agent>>
  <2> HIDE DEF b, m
  <2> QED
    BY <1>1, <1>2, WritesAreRead DEF Gone, Live, dirVars
<1>4. JobFits'
  <2>1. CASE job' = Idle
    BY <2>1 DEF Idle, JobFits
  <2>2. CASE job' = [job EXCEPT !.pc = "deleteMapping"]
    BY <1>0, <1>1, <1>3, <2>2 DEF Job, JobFits
  <2>3. QED
    BY <2>1, <2>2 DEF RemoveFinalizer, Return, GoOn
<1>5. b /\ mapping'[k] = m => Recorded(k)'
  <2>1. Recorded(k)
    BY <1>1 DEF LifeInv
  <2> HIDE DEF m
  <2>2. QED
    BY <1>1, <1>2, <1>3, <2>1 DEF Recorded, Settled, Gone, Present, Live
<1>6. QED
  <2> HIDE DEF b, m
  <2> QED
    BY <1>1, <1>4, <1>5, LifeWrite

\* The mapping goes only after the runtime has been deregistered.
LEMMA LifeDeleteMapping ==
  ASSUME Undisturbed, TypeOK, LifeInv, NEW o, DeleteCompassMapping(o)
  PROVE  LifeInv'
<1>0. PICK k \in Kymas : k = job.key
  BY NotIdle DEF TypeOK, DeleteCompassMapping, At
<1> DEFINE b == mapping[k].exists
           m == Deleted(mapping[k])
<1>1. /\ Write(k, b, m, o)
      /\ UNCHANGED dirVars /\ job' = Idle /\ mapping[k] \in CompassManagerMapping
      /\ Gone(k) /\ Recorded(k)
  BY <1>0 DEF TypeOK, CPTypeOK, DeleteCompassMapping, At, DeleteMapping, LifeInv,
              JobFits, Return
<1>2. JobFits'
  BY <1>1 DEF Idle, JobFits
<1>3. b /\ mapping'[k] = m => Recorded(k)'
  <2>1. \/ m = NoMapping
        \/ /\ m.exists = mapping[k].exists /\ m.id = mapping[k].id
           /\ m.account = mapping[k].account /\ m.finalizer = mapping[k].finalizer
    BY <1>1 DEF Deleted, CompassManagerMapping
  <2>2. UNCHANGED <<kyma, runtimes, agent>>
    <3> HIDE DEF b, m
    <3> QED
      BY <1>1, WritesAreRead DEF dirVars
  <2>3. Gone(k)'
    BY <1>1, <2>2 DEF Gone
  <2> HIDE DEF m
  <2>4. CASE m = NoMapping
    BY <2>3, <2>4 DEF Recorded, NoMapping, Gone
  <2>5. CASE m # NoMapping
    BY <1>1, <2>1, <2>2, <2>5 DEF Recorded, Settled, Gone, Present, Live
  <2>6. QED
    BY <2>4, <2>5
<1>4. QED
  <2> HIDE DEF b, m
  <2> QED
    BY <1>1, <1>2, <1>3, LifeWrite

\* A new runtime has an ID that no mapping records.
LEMMA LifeRegister ==
  ASSUME TypeOK, LifeInv, NEW o, NEW i \in RuntimeIDs, RegisterInCompass(o, i)
  PROVE  LifeInv'
<1>0. PICK k \in Kymas : k = job.key
  BY NotIdle DEF TypeOK, RegisterInCompass, At
<1>1. /\ UNCHANGED <<cpVars, agent>> /\ job \in Job /\ DirTypeOK
      /\ kyma[k].phase # "absent" /\ mapping[k].id = NoID /\ Settled(k, job.account)
      /\ job.id = NoID /\ job.pc = "register"
  BY <1>0 DEF TypeOK, WorkTypeOK, RegisterInCompass, CreateRuntime, At, LifeInv, JobFits
<1>2. \/ UNCHANGED runtimes
      \/ /\ Unused(i)
         /\ runtimes' = [runtimes EXCEPT ![i] =
                           [state |-> "live", kyma |-> k, account |-> job.account]]
  BY <1>0 DEF RegisterInCompass, CreateRuntime
<1>3. ASSUME NEW j \in Kymas
      PROVE  Recorded(j)'
  <2>1. Recorded(j) /\ mapping[j] \in CompassManagerMapping
    BY DEF LifeInv, TypeOK, CPTypeOK
  <2>2. mapping[j].id # NoID => /\ mapping[j].id \in RuntimeIDs
                                /\ runtimes'[mapping[j].id] = runtimes[mapping[j].id]
    BY <1>1, <1>2, <2>1
    DEF Recorded, Unused, DirTypeOK, CompassManagerMapping, RuntimeLabel
  <2>3. QED
    BY <1>1, <2>1, <2>2 DEF Recorded, Settled, Gone, Present, Live, cpVars
<1>4. JobFits'
  <2>1. CASE o = "ok"
    <3>1. job' = [Idle EXCEPT !.pc = "upsertMapping", !.key = k, !.id = i]
      BY <1>0, <2>1 DEF RegisterInCompass, GoOn
    <3>2. job'.pc = "upsertMapping" /\ job'.key = k /\ job'.id = i
      BY <3>1 DEF Idle
    <3>3. runtimes'[i] = [state |-> "live", kyma |-> k, account |-> job.account]
      BY <1>0, <1>1, <2>1 DEF RegisterInCompass, CreateRuntime, TookEffect, DirTypeOK
    <3>4. UNCHANGED <<kyma, mapping>> /\ i # NoID
      BY <1>1, LandscapeAssumption DEF cpVars
    <3>5. Live(i)'
      BY <3>3, <3>4 DEF Live
    <3>6. QED
      BY <1>1, <3>2, <3>3, <3>4, <3>5 DEF JobFits, Settled, Present, Live
  <2>2. CASE GoOn([job EXCEPT !.taken = @ \/ TookEffect(o), !.attempt = @ + 1])
    <3>1. /\ job'.pc = "register" /\ job'.key = k /\ job'.id = NoID
          /\ job'.account = job.account
      BY <1>0, <1>1, <2>2 DEF GoOn, Job
    <3>2. QED
      BY <1>1, <3>1 DEF JobFits, Settled, Present, Live, cpVars
  <2>3. CASE GoOn(SettingStatus(Failed))
    BY <1>0, <1>1, <2>3 DEF GoOn, SettingStatus, Idle, JobFits, cpVars
  <2>4. QED
    BY <2>1, <2>2, <2>3 DEF RegisterInCompass, RetryOnError
<1>5. QED
  BY <1>1, <1>3, <1>4 DEF LifeInv, cpVars

\* Writing the Secret of the agent changes no record.
LEMMA LifeAgent ==
  ASSUME TypeOK, LifeInv, NEW o, UpsertAgentSecret(o)
  PROVE  LifeInv'
<1>0. PICK k \in Kymas : k = job.key
  BY NotIdle DEF TypeOK, UpsertAgentSecret, At
<1>1. /\ UNCHANGED <<cpVars, runtimes>> /\ kyma[k].phase # "absent"
      /\ \A j \in Kymas \ {k} : agent'[j] = agent[j]
  BY <1>0 DEF UpsertAgentSecret, WriteAgentSecret, At, LifeInv, JobFits, TypeOK, DirTypeOK
<1>2. ASSUME NEW j \in Kymas
      PROVE  Recorded(j)'
  BY <1>1 DEF LifeInv, Recorded, Settled, Gone, Present, Live, cpVars
<1>3. JobFits'
  BY <1>0, <1>1
  DEF UpsertAgentSecret, GoOn, SettingStatus, Idle, JobFits, cpVars
<1>4. QED
  BY <1>1, <1>2, <1>3 DEF LifeInv, cpVars

\* The runtime that is deregistered is the one recorded for the deleted Kyma.
LEMMA LifeDeregister ==
  ASSUME TypeOK, LifeInv, NEW o, DeregisterFromCompass(o)
  PROVE  LifeInv'
<1>0. PICK k \in Kymas : k = job.key
  BY NotIdle DEF TypeOK, DeregisterFromCompass, At
<1>1. /\ UNCHANGED <<cpVars, agent>> /\ job \in Job /\ DirTypeOK
      /\ job.pc = "deregister" /\ kyma[k].phase # "absent" /\ Gone(k)
      /\ mapping[k].id # NoID => mapping[k].id = job.id /\ mapping[k].account = job.account
      /\ Live(job.id) => mapping[k].id = job.id
  BY <1>0 DEF TypeOK, WorkTypeOK, DeregisterFromCompass, DeleteRuntime, At, LifeInv, JobFits
<1>2. \/ UNCHANGED runtimes
      \/ /\ Live(job.id)
         /\ runtimes' = [runtimes EXCEPT ![job.id].state = "deleted"]
  BY DEF DeregisterFromCompass, DeleteRuntime, Knows
<1>3. ASSUME NEW r \in RuntimeIDs
      PROVE  /\ runtimes'[r].kyma = runtimes[r].kyma
             /\ runtimes'[r].account = runtimes[r].account
             /\ runtimes[r].state # "unused" => runtimes'[r].state # "unused"
             /\ Live(r)' => Live(r)
             /\ r # job.id => Live(r)' = Live(r)
  BY <1>1, <1>2 DEF DirTypeOK, Runtime, Live
<1>4. ASSUME NEW j \in Kymas
      PROVE  Recorded(j)'
  <2>1. Recorded(j) /\ Recorded(k) /\ mapping[j] \in CompassManagerMapping
    BY DEF LifeInv, TypeOK, CPTypeOK
  <2>2. mapping[j].id # NoID => mapping[j].id \in RuntimeIDs
    BY <2>1 DEF CompassManagerMapping, RuntimeLabel
  <2>3. mapping[j].id # NoID /\ Present(j) => mapping[j].id # job.id
    BY <1>1, <2>1 DEF Recorded, Gone, Present
  <2>4. QED
    BY <1>1, <1>3, <2>1, <2>2, <2>3 DEF Recorded, Settled, Gone, Present, Live, cpVars
<1>5. JobFits'
  <2>1. CASE DeleteSucceeds(job.account, o) /\ GoOn(DeletingMapping)
    <3>1. ~Live(mapping[k].id)'
      <4>1. CASE mapping[k].id = NoID
        BY <1>1, <4>1 DEF Live, cpVars
      <4>2. CASE mapping[k].id # NoID
        <5>1. /\ mapping[k].id = job.id /\ runtimes[job.id].account = job.account
              /\ job.id \in RuntimeIDs
          <6>1. Recorded(k)
            BY DEF LifeInv
          <6>2. QED
            BY <1>1, <4>2, <6>1 DEF Recorded, Job, RuntimeLabel
        <5>2. runtimes' = IF Live(job.id)
                          THEN [runtimes EXCEPT ![job.id].state = "deleted"]
                          ELSE runtimes
          BY <2>1, <5>1
          DEF DeregisterFromCompass, DeleteRuntime, DeleteSucceeds, TookEffect, Knows
        <5>3. runtimes'[job.id].state # "live"
          BY <1>1, <4>2, <5>1, <5>2 DEF DirTypeOK, Runtime, Live
        <5>4. UNCHANGED mapping
          BY <1>1 DEF cpVars
        <5>5. QED
          BY <5>1, <5>3, <5>4 DEF Live
      <4>3. QED
        BY <4>1, <4>2
    <3>2. job'.pc = "readMapping" /\ job'.key = k
      BY <1>0, <2>1 DEF GoOn, DeletingMapping, Idle
    <3>3. QED
      BY <1>1, <3>1, <3>2 DEF JobFits, Gone, cpVars
  <2>2. CASE GoOn([job EXCEPT !.attempt = @ + 1])
    <3>1. /\ job'.pc = "deregister" /\ job'.key = k /\ job'.id = job.id
          /\ job'.account = job.account
      BY <1>0, <1>1, <2>2 DEF GoOn, Job
    <3>2. job.id # NoID => job.id \in RuntimeIDs
      BY <1>1 DEF Job, RuntimeLabel
    <3>3. Live(job.id)' => Live(job.id)
      BY <1>3, <3>1, <3>2 DEF Live
    <3>4. UNCHANGED <<kyma, mapping>>
      BY <1>1 DEF cpVars
    <3>5. QED
      BY <1>1, <3>1, <3>3, <3>4 DEF JobFits, Gone
  <2>3. CASE Return(TRUE)
    BY <2>3 DEF Return, Idle, JobFits
  <2>4. QED
    BY <2>1, <2>2, <2>3 DEF DeregisterFromCompass, DirectorError, RetryOnError
<1>6. QED
  BY <1>1, <1>4, <1>5 DEF LifeInv, cpVars

\* What users and other controllers do to Kymas, kubeconfigs and mappings.
LEMMA LifeEnvironment ==
  ASSUME Undisturbed, TypeOK, LifeInv, NEW k \in Kymas,
         \/ \E m \in BOOLEAN, a \in AccountLabel : CreateKyma(k, m, a)
         \/ DeleteKyma(k)
         \/ UpdateKyma(k)
         \/ ToggleKubeconfig(k)
         \/ DeleteMappingByUser(k)
         \/ CatchUp(k)
  PROVE  LifeInv'
<1>1. Recorded(k) /\ mapping[k] \in CompassManagerMapping /\ mappingCache = mapping
  BY DEF LifeInv, TypeOK, CPTypeOK
<1>2. ASSUME UNCHANGED <<mapping, mappingCache, runtimes, job>>,
             NEW c, kyma' = [kyma EXCEPT ![k] = c],
             /\ kyma[k].phase # "absent" => c.phase # "absent"
             /\ Gone(k) => c.phase = "deleted"
             /\ c.phase = "present" => kyma[k].phase # "deleted"
             /\ c.phase = "present" /\ Present(k) /\ kyma[k].account # NoAccount =>
                  c.account = kyma[k].account,
             /\ kyma[k].phase # "absent" => UNCHANGED agent
             /\ kyma[k].phase = "absent" => agent' = [agent EXCEPT ![k] = NoAgent]
      PROVE  LifeInv'
  <2>1. /\ kyma'[k] = c
        /\ \A j \in Kymas \ {k} : kyma'[j] = kyma[j] /\ agent'[j] = agent[j]
        /\ kyma[k].phase \in {"absent", "present", "deleted"}
        /\ c.phase = "absent" => agent'[k] = NoAgent
    BY <1>2 DEF TypeOK, CPTypeOK, DirTypeOK, KymaCR
  <2>2. ASSUME NEW a, Settled(k, a), kyma[k].phase # "absent"
        PROVE  Settled(k, a)'
    BY <1>2, <2>1, <2>2 DEF Settled, Present, Gone
  <2>3. ASSUME NEW j \in Kymas
        PROVE  Recorded(j)'
    <3>1. CASE j = k
      <4>1. mapping[k].id # NoID => kyma[k].phase # "absent"
        BY <1>1 DEF Recorded
      <4>2. \A i : Live(i)' = Live(i)
        BY <1>2 DEF Live
      <4>3. /\ Gone(k) => Gone(k)'
            /\ Present(k)' => Present(k) \/ kyma[k].phase = "absent"
        BY <1>2, <2>1 DEF Gone, Present
      <4>4. kyma'[k].phase = "absent" => kyma[k].phase = "absent" /\ agent'[k] = NoAgent
        BY <1>2, <2>1
      <4>5. QED
        BY <1>1, <1>2, <2>2, <3>1, <4>1, <4>2, <4>3, <4>4 DEF Recorded, Live
    <3>2. CASE j # k
      BY <1>2, <2>1, <3>2 DEF LifeInv, Recorded, Settled, Gone, Present, Live
    <3>3. QED
      BY <3>1, <3>2
  <2>4. JobFits'
    <3>1. CASE job.pc = "idle"
      BY <1>2, <3>1 DEF JobFits
    <3>2. CASE job.pc # "idle" /\ job.key # k
      <4>1. job.key \in Kymas
        BY <3>2, NotIdle DEF TypeOK
      <4>2. QED
        BY <1>2, <2>1, <3>2, <4>1 DEF LifeInv, JobFits, Settled, Gone, Present, Live
    <3>3. CASE job.pc # "idle" /\ job.key = k
      <4>1. kyma[k].phase # "absent" /\ kyma'[k].phase # "absent" /\ (Gone(k) => Gone(k)')
        BY <1>2, <2>1, <3>3 DEF LifeInv, JobFits, Gone
      <4>2. PICK a, b : a = job.account /\ b = runtimes[job.id].account
        OBVIOUS
      <4>3. (Settled(k, a) => Settled(k, a)') /\ (Settled(k, b) => Settled(k, b)')
        BY <2>2, <4>1
      <4>4. QED
        BY <1>2, <3>3, <4>1, <4>2, <4>3 DEF LifeInv, JobFits, Settled, Gone, Live
    <3>4. QED
      BY <3>1, <3>2, <3>3
  <2>5. QED
    BY <1>2, <2>3, <2>4, <1>1 DEF LifeInv
<1>3. CASE \E m \in BOOLEAN, a \in AccountLabel : CreateKyma(k, m, a)
  <2>1. PICK m \in BOOLEAN, a \in AccountLabel : CreateKyma(k, m, a)
    BY <1>3
  <2> DEFINE c == [phase |-> "present", module |-> m, account |-> a]
  <2>2. /\ UNCHANGED <<mapping, mappingCache, runtimes, job>>
        /\ kyma' = [kyma EXCEPT ![k] = c]
        /\ kyma[k].phase = "absent"
        /\ agent' = [agent EXCEPT ![k] = NoAgent]
    BY <2>1 DEF CreateKyma, Change, KymaIsCreated, SetKyma, Undisturbed
  <2>3. QED
    BY <1>2, <2>2 DEF Gone, Present
<1>4. CASE DeleteKyma(k)
  <2>1. /\ UNCHANGED <<mapping, mappingCache, runtimes, job, agent>>
        /\ kyma' = [kyma EXCEPT ![k] = DeletedKyma]
        /\ kyma[k].phase = "present"
    BY <1>4 DEF DeleteKyma, Change, KymaIsDeleted, SetKyma, Present
  <2>2. DeletedKyma.phase = "deleted"
    BY DEF DeletedKyma
  <2>3. QED
    BY <1>2, <2>1, <2>2 DEF Gone, Present
<1>5. CASE UpdateKyma(k)
  <2>1. /\ UNCHANGED <<mapping, mappingCache, runtimes, job, agent>>
        /\ kyma[k].phase = "present" /\ kyma[k] \in KymaCR
    BY <1>5 DEF UpdateKyma, Change, ModuleIsToggled, KymaIsLabelled, SetKyma, Present,
                TypeOK, CPTypeOK
  <2>2. CASE ModuleIsToggled(k)
    <3> DEFINE c == [kyma[k] EXCEPT !.module = ~@]
    <3>1. kyma' = [kyma EXCEPT ![k] = c] /\ c.phase = "present" /\ c.account = kyma[k].account
      BY <2>1, <2>2 DEF ModuleIsToggled, SetKyma, KymaCR
    <3> HIDE DEF c
    <3>2. QED
      BY <1>2, <2>1, <3>1 DEF Gone, Present
  <2>3. CASE \E a \in Accounts : KymaIsLabelled(k, a)
    <3>1. PICK a \in Accounts : KymaIsLabelled(k, a)
      BY <2>3
    <3> DEFINE c == [kyma[k] EXCEPT !.account = a]
    <3>2. kyma' = [kyma EXCEPT ![k] = c] /\ c.phase = "present" /\ kyma[k].account = NoAccount
      BY <2>1, <3>1 DEF KymaIsLabelled, SetKyma, KymaCR, Undisturbed
    <3> HIDE DEF c
    <3>3. QED
      BY <1>2, <2>1, <3>2 DEF Gone, Present
  <2>4. QED
    BY <1>5, <2>2, <2>3 DEF UpdateKyma
<1>6. CASE ToggleKubeconfig(k)
  <2>1. UNCHANGED <<kyma, mapping, mappingCache, runtimes, job, agent>>
    BY <1>6 DEF ToggleKubeconfig, Change, KubeconfigIsToggled
  <2>2. QED
    BY <2>1 DEF LifeInv, Recorded, JobFits, Settled, Gone, Present, Live
<1>7. CASE DeleteMappingByUser(k)
  <2>1. /\ UNCHANGED <<kyma, runtimes, job, agent>> /\ mapping[k].exists
        /\ mappingCache' = mapping' /\ mapping'[k] = Deleted(mapping[k])
        /\ \A j \in Kymas \ {k} : mapping'[j] = mapping[j]
    BY <1>1, <1>7
    DEF DeleteMappingByUser, Change, MappingIsDeletedByUser, Put, Undisturbed, TypeOK,
        CPTypeOK
  <2>2. \/ /\ mapping'[k].exists = mapping[k].exists /\ mapping'[k].id = mapping[k].id
           /\ mapping'[k].account = mapping[k].account
           /\ mapping'[k].finalizer = mapping[k].finalizer
        \/ mapping'[k] = NoMapping /\ Gone(k) /\ ~Live(mapping[k].id)
    BY <1>1, <2>1 DEF Deleted, CompassManagerMapping, Recorded
  <2>3. Recorded(k)'
    <3>1. CASE mapping'[k] = NoMapping /\ Gone(k)
      BY <2>1, <3>1 DEF Recorded, NoMapping, Gone
    <3>2. CASE /\ mapping'[k].exists = mapping[k].exists /\ mapping'[k].id = mapping[k].id
               /\ mapping'[k].account = mapping[k].account
               /\ mapping'[k].finalizer = mapping[k].finalizer
      BY <1>1, <2>1, <3>2 DEF Recorded, Settled, Gone, Present, Live
    <3>3. QED
      BY <2>2, <3>1, <3>2
  <2>4. \A j \in Kymas \ {k} : Recorded(j)'
    BY <2>1, RecordedStays DEF LifeInv
  <2>5. JobFits'
    <3>1. CASE job.pc = "idle"
      BY <2>1, <3>1 DEF JobFits
    <3>2. CASE job.pc # "idle"
      <4>1. job.key \in Kymas
        BY <3>2, NotIdle DEF TypeOK
      <4>2. PICK j \in Kymas : j = job.key
        BY <4>1
      <4>3. /\ mapping'[j].id # NoID => /\ mapping'[j].id = mapping[j].id
                                        /\ mapping'[j].account = mapping[j].account
            /\ Live(mapping[j].id) => mapping'[j].id = mapping[j].id
            /\ mapping[j].id = NoID => mapping'[j].id = NoID
        <5>1. CASE j # k
          BY <2>1, <5>1
        <5>2. CASE j = k /\ mapping'[k] = NoMapping /\ ~Live(mapping[k].id)
          BY <5>2 DEF NoMapping
        <5>3. CASE j = k /\ mapping'[k].id = mapping[k].id
                   /\ mapping'[k].account = mapping[k].account
          BY <5>3
        <5>4. QED
          BY <2>2, <5>1, <5>2, <5>3
      <4>4. /\ \A i : Live(i)' = Live(i)
            /\ \A a : Settled(j, a)' = Settled(j, a)
            /\ Gone(j)' = Gone(j)
        BY <2>1 DEF Settled, Gone, Present, Live
      <4>5. Live(mapping'[j].id) => mapping'[j].id = mapping[j].id
        BY <4>3 DEF Live
      <4>6. QED
        BY <2>1, <3>2, <4>2, <4>3, <4>4, <4>5 DEF LifeInv, JobFits
    <3>3. QED
      BY <3>1, <3>2
  <2>6. QED
    BY <2>1, <2>3, <2>4, <2>5 DEF LifeInv
<1>8. CASE CatchUp(k)
  BY <1>1, <1>8 DEF CatchUp, WatchMapping
<1>9. QED
  BY <1>3, <1>4, <1>5, <1>6, <1>7, <1>8

\* LifeInv is inductive.
LEMMA LifeInvStep ==
  ASSUME Undisturbed
  PROVE  TypeOK /\ LifeInv /\ [Next]_vars => LifeInv'
<1> SUFFICES ASSUME TypeOK, LifeInv, [Next]_vars
             PROVE  LifeInv'
  OBVIOUS
<1>1. CASE UNCHANGED vars
  BY <1>1 DEF vars, LifeInv, Recorded, JobFits, Settled, Gone, Present, Live
<1>2. CASE Restart
  <2>1. /\ job' = Idle /\ UNCHANGED <<kyma, mapping, runtimes, agent>>
        /\ mappingCache' = mapping'
    BY <1>2 DEF Restart, dirVars
  <2>2. JobFits'
    BY <2>1 DEF Idle, JobFits
  <2>3. QED
    BY <2>1, <2>2, RecordedStays DEF LifeInv
<1>3. CASE Worker
  BY <1>3, LifeJobSteps, LifeCreateMapping, LifeSetStatus, LifeRegister,
     LifeUpsertMapping, LifeAgent, LifeDeregister, LifeRemoveFinalizer,
     LifeDeleteMapping
  DEF Worker
<1>4. CASE ReadFails
  BY <1>4, LifeJobSteps
<1>5. QED
  BY <1>1, <1>2, <1>3, <1>4, LifeReconcile, LifeEnvironment
  DEF Next, Environment, Others

\* A mapping that records a registered runtime keeps its finalizer until that
\* runtime has been deregistered: no request to delete the mapping, of a user or
\* of the manager, can make the control plane forget the runtime before
\* (CreateCompassMapping, handleKymaDeletion, DeleteCompassMapping).
THEOREM FinalizerGuards ==
  ASSUME Undisturbed
  PROVE  Spec => []FinalizerGuardsRuntime
<1>1. TypeOK /\ LifeInv => FinalizerGuardsRuntime
  BY DEF TypeOK, CPTypeOK, CompassManagerMapping, LifeInv, Recorded, Live,
         FinalizerGuardsRuntime
<1>2. QED
  BY <1>1, LifeInvInit, LifeInvStep, TypeCorrect, PTL DEF Spec

-----------------------------------------------------------------------------
(***************************************************************************)
(* The refinement.                                                         *)
(***************************************************************************)
\* A step that changes no runtime, no agent, no recorded ID and the phase of no
\* Kyma is not seen in RuntimeLifecycle.
LEMMA Unseen ==
  ASSUME UNCHANGED <<runtimes, agent>>,
         \A k \in Kymas : mapping'[k].id = mapping[k].id,
         \A k \in Kymas : Gone(k)' = Gone(k)
  PROVE  UNCHANGED Lifecycle!lifeVars
  BY DEF Lifecycle!lifeVars, Gone

\* A write that changes at most the recorded ID of one Kyma.
LEMMA WriteIsSeen ==
  ASSUME Undisturbed, TypeOK, LifeInv, NEW k \in Kymas, NEW m, NEW b, NEW o,
         Write(k, b, m, o), UNCHANGED dirVars
  PROVE  /\ (b /\ m.id # mapping[k].id) \/ UNCHANGED Lifecycle!lifeVars
         /\ \/ UNCHANGED Lifecycle!lifeVars
            \/ /\ [j \in Kymas |-> mapping[j].id]' =
                    [[j \in Kymas |-> mapping[j].id] EXCEPT ![k] = m.id]
               /\ UNCHANGED <<kyma, runtimes, agent>>
<1>1. UNCHANGED <<kyma, runtimes, agent>>
  BY WritesAreRead DEF dirVars
<1>2. \A j \in Kymas : Gone(j)' = Gone(j)
  BY <1>1 DEF Gone
<1>3. CASE mapping' = mapping
  BY <1>1, <1>2, <1>3, Unseen
<1>4. CASE b /\ mapping'[k] = m /\ \A j \in Kymas \ {k} : mapping'[j] = mapping[j]
  <2>1. CASE m.id = mapping[k].id
    BY <1>1, <1>2, <1>4, <2>1, Unseen
  <2>2. CASE m.id # mapping[k].id
    <3>1. [j \in Kymas |-> mapping[j].id]' =
            [[j \in Kymas |-> mapping[j].id] EXCEPT ![k] = m.id]
      BY <1>4
    <3>2. QED
      BY <1>1, <1>4, <2>2, <3>1, Zenon
  <2>3. QED
    BY <2>1, <2>2
<1>5. QED
  BY <1>3, <1>4, WritesAreRead

\* RecordRuntime: the ID is recorded for a Kyma that had none.
LEMMA UpsertIsRecord ==
  ASSUME Undisturbed, TypeOK, LifeInv, NEW o, UpsertMapping(o)
  PROVE  [Lifecycle!LifeNext]_(Lifecycle!lifeVars)
<1>0. PICK k \in Kymas, i \in RuntimeIDs : k = job.key /\ i = job.id
  <2>1. job.key \in Kymas
    BY NotIdle DEF TypeOK, UpsertMapping, At
  <2>2. Live(job.id) /\ job.id \in RuntimeLabel
    BY DEF LifeInv, JobFits, UpsertMapping, At, TypeOK, WorkTypeOK, Job
  <2>3. QED
    BY <2>1, <2>2 DEF Live, RuntimeLabel
<1> DEFINE b == UpsertAccepted(k)
           m == Upserted(k, i)
<1>1. Write(k, b, m, o) /\ UNCHANGED dirVars
  BY <1>0 DEF UpsertMapping, UpsertCompassMapping
<1>2. /\ mapping[k].id = NoID /\ Live(i) /\ runtimes[i].kyma = k
      /\ mappingCache[k] \in CompassManagerMapping
  BY <1>0 DEF LifeInv, JobFits, UpsertMapping, At, TypeOK, CPTypeOK
<1>3. m.id = i
  BY <1>2 DEF Upserted, GetCompassMapping, NewMapping, CompassManagerMapping
<1>4. b => ~Gone(k)
  BY DEF UpsertAccepted, Present, Gone
<1> HIDE DEF b, m
<1>5. CASE UNCHANGED Lifecycle!lifeVars
  BY <1>5
<1>6. CASE /\ b /\ UNCHANGED <<kyma, runtimes, agent>>
           /\ [j \in Kymas |-> mapping[j].id]' =
                 [[j \in Kymas |-> mapping[j].id] EXCEPT ![k] = i]
  <2>1. Lifecycle!RecordRuntime(k, i)
    BY <1>2, <1>4, <1>6
    DEF Lifecycle!RecordRuntime, Lifecycle!Live, Lifecycle!dirVars, Live, Gone
  <2>2. QED
    BY <2>1 DEF Lifecycle!LifeNext
<1>7. QED
  BY <1>1, <1>3, <1>5, <1>6, WriteIsSeen

\* ForgetRuntime: an ID leaves its mapping only when the runtime is gone.
LEMMA WriteIsForget ==
  ASSUME Undisturbed, TypeOK, LifeInv, NEW k \in Kymas, NEW m, NEW b, NEW o,
         Write(k, b, m, o), UNCHANGED dirVars,
         m.id \in {NoID, mapping[k].id},
         b /\ m.id # mapping[k].id => Gone(k) /\ ~Live(mapping[k].id)
  PROVE  [Lifecycle!LifeNext]_(Lifecycle!lifeVars)
<1>1. CASE UNCHANGED Lifecycle!lifeVars
  BY <1>1
<1>2. CASE /\ Gone(k) /\ ~Live(mapping[k].id) /\ UNCHANGED <<kyma, runtimes, agent>>
           /\ [j \in Kymas |-> mapping[j].id]' =
                 [[j \in Kymas |-> mapping[j].id] EXCEPT ![k] = NoID]
  <2>1. Lifecycle!ForgetRuntime(k)
    BY <1>2
    DEF Lifecycle!ForgetRuntime, Lifecycle!Live, Lifecycle!dirVars, Live, Gone
  <2>2. QED
    BY <2>1 DEF Lifecycle!LifeNext
<1>3. QED
  BY <1>1, <1>2, WriteIsSeen

\* The other writes of mappings.
LEMMA WritesAreSeen ==
  ASSUME Undisturbed, TypeOK, LifeInv, NEW o,
         \/ makeNewCompassMappingAndRequeue(o)
         \/ SetStatus(o)
         \/ RemoveFinalizer(o)
         \/ DeleteCompassMapping(o)
  PROVE  [Lifecycle!LifeNext]_(Lifecycle!lifeVars)
<1>0. PICK k \in Kymas : k = job.key
  BY NotIdle
  DEF TypeOK, makeNewCompassMappingAndRequeue, SetStatus, RemoveFinalizer,
      DeleteCompassMapping, At
<1>1. mapping[k] \in CompassManagerMapping /\ mappingCache[k] = mapping[k] /\ Recorded(k)
  BY DEF LifeInv, TypeOK, CPTypeOK
<1>2. CASE makeNewCompassMappingAndRequeue(o)
  <2>1. Write(k, CreateAccepted(k), NewMapping(NoID, kyma[k].account), o) /\ UNCHANGED dirVars
    BY <1>0, <1>2 DEF makeNewCompassMappingAndRequeue, CreateCompassMapping
  <2>2. /\ NewMapping(NoID, kyma[k].account).id = NoID
        /\ CreateAccepted(k) => mapping[k].id = NoID
    BY <1>1 DEF NewMapping, CreateAccepted, Creatable, Recorded
  <2>3. QED
    BY <2>1, <2>2, WriteIsForget
<1>3. CASE SetStatus(o)
  <2> DEFINE m == [mapping[k] EXCEPT !.status = MappingStatusOf(job.goal)]
  <2>1. Write(k, Updatable(k), m, o) /\ UNCHANGED dirVars /\ m.id = mapping[k].id
    BY <1>0, <1>1, <1>3
    DEF SetStatus, SetCompassMappingStatus, GetCompassMapping, CompassManagerMapping
  <2> HIDE DEF m
  <2>2. QED
    BY <2>1, WriteIsForget
<1>4. CASE RemoveFinalizer(o)
  <2> DEFINE m == IF mapping[k].deleting THEN NoMapping
                  ELSE [mapping[k] EXCEPT !.finalizer = FALSE]
  <2>1. /\ Write(k, Updatable(k), m, o) /\ UNCHANGED dirVars
        /\ m.id \in {NoID, mapping[k].id}
        /\ Gone(k) /\ ~Live(mapping[k].id)
    BY <1>0, <1>1, <1>4
    DEF RemoveFinalizer, RemoveCMFinalizer, GetCompassMapping, CompassManagerMapping,
        NoMapping, LifeInv, JobFits, At
  <2> HIDE DEF m
  <2>2. QED
    BY <2>1, WriteIsForget
<1>5. CASE DeleteCompassMapping(o)
  <2> DEFINE m == Deleted(mapping[k])
  <2>1. /\ Write(k, mapping[k].exists, m, o) /\ UNCHANGED dirVars
        /\ m.id \in {NoID, mapping[k].id}
        /\ Gone(k) /\ ~Live(mapping[k].id)
    BY <1>0, <1>1, <1>5
    DEF DeleteCompassMapping, DeleteMapping, Deleted, CompassManagerMapping, NoMapping,
        LifeInv, JobFits, At
  <2> HIDE DEF m
  <2>2. QED
    BY <2>1, WriteIsForget
<1>6. QED
  BY <1>2, <1>3, <1>4, <1>5

\* RegisterRuntime: each attempt that takes effect adds a runtime of the Kyma.
LEMMA RegisterIsSeen ==
  ASSUME TypeOK, LifeInv, NEW o, NEW i \in RuntimeIDs, RegisterInCompass(o, i)
  PROVE  [Lifecycle!LifeNext]_(Lifecycle!lifeVars)
<1>0. PICK k \in Kymas, a \in Accounts : k = job.key /\ a = job.account
  <2>1. job.key \in Kymas
    BY NotIdle DEF TypeOK, RegisterInCompass, At
  <2>2. job.account # NoAccount /\ job.account \in AccountLabel
    BY DEF LifeInv, JobFits, Settled, RegisterInCompass, At, TypeOK, WorkTypeOK, Job
  <2>3. QED
    BY <2>1, <2>2 DEF AccountLabel
<1>1. UNCHANGED <<kyma, mapping, agent>> /\ mapping[k].id = NoID
  BY <1>0 DEF RegisterInCompass, CreateRuntime, At, LifeInv, JobFits, cpVars, Live
<1>2. CASE TookEffect(o)
  <2>1. Lifecycle!RegisterRuntime(k, i, a)
    <3>1. /\ Unused(i)
          /\ runtimes' = [runtimes EXCEPT ![i] = [state |-> "live", kyma |-> k, account |-> a]]
      BY <1>0, <1>2 DEF RegisterInCompass, CreateRuntime
    <3>2. a # NoAccount
      BY LandscapeAssumption
    <3>3. QED
      BY <1>1, <3>1, <3>2
      DEF Lifecycle!RegisterRuntime, Lifecycle!CreateRuntime, Lifecycle!TookEffect,
          Lifecycle!Unused, Unused
  <2>2. QED
    BY <2>1 DEF Lifecycle!LifeNext
<1>3. CASE ~TookEffect(o)
  <2>1. UNCHANGED runtimes
    BY <1>3 DEF RegisterInCompass, CreateRuntime
  <2>2. QED
    BY <1>1, <2>1, Unseen DEF Gone
<1>4. QED
  BY <1>2, <1>3

\* ConnectAgent: the agent gets the recorded runtime, which is live.
LEMMA AgentIsSeen ==
  ASSUME TypeOK, LifeInv, NEW o, UpsertAgentSecret(o)
  PROVE  [Lifecycle!LifeNext]_(Lifecycle!lifeVars)
<1>0. PICK k \in Kymas : k = job.key
  BY NotIdle DEF TypeOK, UpsertAgentSecret, At
<1>1. /\ UNCHANGED <<kyma, mapping, runtimes>>
      /\ mapping[k].id = job.id /\ Live(mapping[k].id)
      /\ runtimes[mapping[k].id].account = job.account
  <2>1. Recorded(k) /\ Live(job.id) /\ mapping[k].id = job.id /\ job.id # NoID
        /\ mapping[k].account = job.account
    BY <1>0 DEF UpsertAgentSecret, At, LifeInv, JobFits, Live
  <2>2. QED
    BY <2>1 DEF UpsertAgentSecret, WriteAgentSecret, Recorded, cpVars
<1>2. CASE TookEffect(o)
  <2>1. agent' = [agent EXCEPT ![k] = [id |-> mapping[k].id,
                                       account |-> runtimes[mapping[k].id].account]]
    BY <1>0, <1>1, <1>2 DEF UpsertAgentSecret, WriteAgentSecret
  <2>2. Lifecycle!ConnectAgent(k)
    BY <1>1, <2>1
    DEF Lifecycle!ConnectAgent, Lifecycle!WriteAgentSecret, Lifecycle!TookEffect,
        Lifecycle!Live, Live
  <2>3. QED
    BY <2>2 DEF Lifecycle!LifeNext
<1>3. CASE ~TookEffect(o)
  <2>1. UNCHANGED agent
    BY <1>3 DEF UpsertAgentSecret, WriteAgentSecret
  <2>2. QED
    BY <1>1, <2>1, Unseen DEF Gone
<1>4. QED
  BY <1>2, <1>3

\* DeregisterRuntime: the runtime that is deleted is the recorded one.
LEMMA DeregisterIsSeen ==
  ASSUME TypeOK, LifeInv, NEW o, DeregisterFromCompass(o)
  PROVE  [Lifecycle!LifeNext]_(Lifecycle!lifeVars)
<1>0. PICK k \in Kymas : k = job.key
  BY NotIdle DEF TypeOK, DeregisterFromCompass, At
<1>1. UNCHANGED <<kyma, mapping, agent>> /\ Gone(k) /\ (Live(job.id) => mapping[k].id = job.id)
  BY <1>0 DEF DeregisterFromCompass, DeleteRuntime, At, LifeInv, JobFits, cpVars
<1>2. CASE Knows(job.id, job.account) /\ TookEffect(o)
  <2>1. /\ Live(mapping[k].id)
        /\ runtimes' = [runtimes EXCEPT ![mapping[k].id].state = "deleted"]
    BY <1>1, <1>2 DEF DeregisterFromCompass, DeleteRuntime, Knows
  <2>2. Lifecycle!DeregisterRuntime(k)
    BY <1>1, <2>1
    DEF Lifecycle!DeregisterRuntime, Lifecycle!DeleteRuntime, Lifecycle!Knows,
        Lifecycle!TookEffect, Lifecycle!Live, Live, Gone
  <2>3. QED
    BY <2>2 DEF Lifecycle!LifeNext
<1>3. CASE ~(Knows(job.id, job.account) /\ TookEffect(o))
  <2>1. UNCHANGED runtimes
    BY <1>3 DEF DeregisterFromCompass, DeleteRuntime
  <2>2. QED
    BY <1>1, <2>1, Unseen DEF Gone
<1>4. QED
  BY <1>2, <1>3

\* KymaGoes, and what users and other controllers do unseen.
LEMMA EnvironmentIsSeen ==
  ASSUME Undisturbed, TypeOK, LifeInv, NEW k \in Kymas,
         \/ \E m \in BOOLEAN, a \in AccountLabel : CreateKyma(k, m, a)
         \/ DeleteKyma(k)
         \/ UpdateKyma(k)
         \/ ToggleKubeconfig(k)
         \/ DeleteMappingByUser(k)
         \/ CatchUp(k)
  PROVE  [Lifecycle!LifeNext]_(Lifecycle!lifeVars)
<1>1. /\ Recorded(k) /\ mapping[k] \in CompassManagerMapping /\ mappingCache = mapping
      /\ kyma \in [Kymas -> KymaCR] /\ agent \in [Kymas -> AgentSecret]
  BY DEF LifeInv, TypeOK, CPTypeOK, DirTypeOK
<1>2. CASE \E m \in BOOLEAN, a \in AccountLabel : CreateKyma(k, m, a)
  <2>1. /\ UNCHANGED <<mapping, runtimes>> /\ kyma[k].phase = "absent"
        /\ agent' = [agent EXCEPT ![k] = NoAgent]
        /\ \E m, a : kyma' = [kyma EXCEPT ![k] =
                      [phase |-> "present", module |-> m, account |-> a]]
    BY <1>2 DEF CreateKyma, Change, KymaIsCreated, SetKyma, Undisturbed
  <2>2. UNCHANGED agent
    BY <1>1, <2>1 DEF Recorded
  <2>3. \A j \in Kymas : Gone(j)' = Gone(j)
    BY <1>1, <2>1 DEF Gone
  <2>4. QED
    BY <2>1, <2>2, <2>3, Unseen
<1>3. CASE DeleteKyma(k)
  <2>1. UNCHANGED <<mapping, runtimes, agent>> /\ kyma' = [kyma EXCEPT ![k] = DeletedKyma]
    BY <1>3 DEF DeleteKyma, Change, KymaIsDeleted, SetKyma
  <2>2. { j \in Kymas : kyma'[j].phase = "deleted" } =
          { j \in Kymas : kyma[j].phase = "deleted" } \cup {k}
    BY <1>1, <2>1 DEF DeletedKyma
  <2>3. Lifecycle!KymaGoes(k)
    BY <2>1, <2>2 DEF Lifecycle!KymaGoes, Lifecycle!dirVars
  <2>4. QED
    BY <2>3 DEF Lifecycle!LifeNext
<1>4. CASE UpdateKyma(k)
  <2>1. /\ UNCHANGED <<mapping, runtimes, agent>> /\ kyma[k].phase = "present"
        /\ \E c : kyma' = [kyma EXCEPT ![k] = c] /\ c.phase = "present"
    BY <1>1, <1>4
    DEF UpdateKyma, Change, ModuleIsToggled, KymaIsLabelled, SetKyma, Present, KymaCR
  <2>2. \A j \in Kymas : Gone(j)' = Gone(j)
    BY <1>1, <2>1 DEF Gone
  <2>3. QED
    BY <2>1, <2>2, Unseen
<1>5. CASE ToggleKubeconfig(k)
  BY <1>5, Unseen DEF ToggleKubeconfig, Change, KubeconfigIsToggled, Gone
<1>6. CASE DeleteMappingByUser(k)
  <2> DEFINE m == Deleted(mapping[k])
  <2>1. Write(k, TRUE, m, "ok") /\ UNCHANGED dirVars /\ mapping[k].exists
    BY <1>6
    DEF DeleteMappingByUser, Change, MappingIsDeletedByUser, Write, TookEffect, dirVars
  <2>2. /\ m.id \in {NoID, mapping[k].id}
        /\ m.id # mapping[k].id => Gone(k) /\ ~Live(mapping[k].id)
    BY <1>1, <2>1 DEF Deleted, CompassManagerMapping, NoMapping, Recorded
  <2> HIDE DEF m
  <2>3. QED
    BY <2>1, <2>2, WriteIsForget
<1>7. CASE CatchUp(k)
  BY <1>1, <1>7 DEF CatchUp, WatchMapping
<1>8. QED
  BY <1>2, <1>3, <1>4, <1>5, <1>6, <1>7

\* Every step of the reconciler is a step of RuntimeLifecycle or is not seen there.
LEMMA LifeStep ==
  ASSUME Undisturbed
  PROVE  TypeOK /\ LifeInv /\ [Next]_vars => [Lifecycle!LifeNext]_(Lifecycle!lifeVars)
<1> SUFFICES ASSUME TypeOK, LifeInv, [Next]_vars
             PROVE  [Lifecycle!LifeNext]_(Lifecycle!lifeVars)
  OBVIOUS
<1>1. CASE UNCHANGED <<kyma, mapping, runtimes, agent>>
  BY <1>1, Unseen DEF Gone
<1>2. CASE Worker
  <2>1. ASSUME NEW o, CheckStatus \/ ReadMapping \/ FetchCompassToken(o)
        PROVE  UNCHANGED <<kyma, mapping, runtimes, agent>>
    BY <2>1 DEF CheckStatus, ReadMapping, FetchCompassToken, cpVars, dirVars
  <2>2. QED
    BY <1>1, <1>2, <2>1, WritesAreSeen, UpsertIsRecord, RegisterIsSeen, AgentIsSeen,
       DeregisterIsSeen
    DEF Worker
<1>3. CASE UNCHANGED vars \/ Restart \/ ReadFails \/ \E k \in Kymas : Reconcile(k)
  <2>1. UNCHANGED <<kyma, mapping, runtimes, agent>>
    BY <1>3 DEF vars, Restart, ReadFails, Reconcile, cpVars, dirVars
  <2>2. QED
    BY <1>1, <2>1
<1>4. QED
  BY <1>2, <1>3, EnvironmentIsSeen DEF Next, Environment, Others

\* No Kyma has been deleted at first.
LEMMA LifeStart == Init => Lifecycle!LifeInit
  BY DEF Init, CPInit, DirInit, NoMapping, AbsentKyma, UnusedRuntime, NoAgent,
         Lifecycle!LifeInit, Lifecycle!DirInit, Lifecycle!UnusedRuntime,
         Lifecycle!NoAgent

\* The reconciler implements RuntimeLifecycle: across calls of Reconcile, failed
\* calls, lost answers and restarts, the runtimes of each Kyma go through one
\* life (Reconcile, registerRuntimeInCompassAndRequeue, handleKymaDeletion).
THEOREM ReconcilerImplementsLifecycle ==
  ASSUME Undisturbed
  PROVE  Spec => RuntimesFollowLifecycle
<1>1. Spec => [](TypeOK /\ LifeInv)
  BY LifeInvInit, LifeInvStep, TypeCorrect, PTL DEF Spec
<1>2. QED
  BY <1>1, LifeStart, LifeStep, PTL DEF Spec, RuntimesFollowLifecycle, Lifecycle!LifeSpec

\* In RuntimeLifecycle a recorded runtime stays on record while it is registered.
LEMMA LifeReleases ==
  ASSUME [Lifecycle!LifeNext]_(Lifecycle!lifeVars), NEW k \in Kymas, Live(mapping[k].id)
  PROVE  mapping'[k].id = mapping[k].id
<1> DEFINE record == [j \in Kymas |-> mapping[j].id]
<1>1. CASE UNCHANGED record
  BY <1>1
<1>2. ASSUME NEW j \in Kymas, NEW i \in RuntimeIDs, Lifecycle!RecordRuntime(j, i)
      PROVE  mapping'[k].id = mapping[k].id
  <2>1. record[j] = NoID /\ record' = [record EXCEPT ![j] = i]
    BY <1>2 DEF Lifecycle!RecordRuntime
  <2>2. j # k
    BY <2>1 DEF Live
  <2>3. QED
    BY <2>1, <2>2
<1>3. ASSUME NEW j \in Kymas, Lifecycle!ForgetRuntime(j)
      PROVE  mapping'[k].id = mapping[k].id
  <2>1. ~Live(mapping[j].id) /\ record' = [record EXCEPT ![j] = NoID]
    BY <1>3 DEF Lifecycle!ForgetRuntime, Lifecycle!Live, Live
  <2>2. QED
    BY <2>1
<1>4. QED
  BY <1>1, <1>2, <1>3
  DEF Lifecycle!LifeNext, Lifecycle!lifeVars, Lifecycle!RegisterRuntime,
      Lifecycle!ConnectAgent, Lifecycle!KymaGoes, Lifecycle!DeregisterRuntime

\* No step loses track of a registered runtime: it follows from the refinement,
\* because nothing in the life of a runtime does (UpsertCompassMapping,
\* DeleteCompassMapping).
THEOREM RecordedRuntimesAreReleased ==
  ASSUME Undisturbed
  PROVE  Spec => RecordedRuntimeReleased
<1>1. TypeOK /\ LifeInv /\ [Next]_vars =>
        [\A k \in Kymas : Live(mapping[k].id) => mapping'[k].id = mapping[k].id]_vars
  BY LifeStep, LifeReleases
<1>2. QED
  BY <1>1, LifeInvInit, LifeInvStep, TypeCorrect, PTL DEF Spec, RecordedRuntimeReleased
=============================================================================
