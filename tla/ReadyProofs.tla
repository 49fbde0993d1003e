----------------------------- MODULE ReadyProofs -----------------------------
(***************************************************************************)
(* A mapping that says Ready can be believed, however far the mapping      *)
(* cache is behind, wherever a Kyma moves and whatever fails: for any      *)
(* number of Kymas, accounts, runtimes, attempts, faults and restarts, as  *)
(* long as no Kyma comes back under the name of a deleted one.             *)
(***************************************************************************)
EXTENDS RuntimeIdentity

NoNameTwice == EnabledRegistration /\ "recreate" \notin Disturbances

Gone(k) == kyma[k].phase = "deleted"

\* The agent of Kyma k works with runtime i.
Usable(k, i) ==
  /\ i # NoID
  /\ agent[k] = [id |-> i, account |-> runtimes[i].account]
  /\ runtimes[i].kyma = k
  /\ Present(k) => Live(i)

\* A copy of the mapping claims to be registered.
Claims(m, c) == m.status.registered \/ c.status.registered

\* A mapping m of Kyma k at the API server and the copy c in the cache: once
\* one of them claims to be registered, they agree on the runtime.
PairFits(k, m, c) ==
  /\ m.status.configured => m.status.registered
  /\ c.status.configured => c.status.registered
  /\ m.exists /\ Claims(m, c) => c.id = m.id
  /\ m.exists /\ (m.status.configured \/ c.status.configured) => Usable(k, m.id)
  /\ ~Gone(k) /\ c.exists => m.exists
  /\ kyma[k].phase = "absent" => ~m.exists
  /\ m.exists /\ ~m.finalizer => Gone(k)

Pair(k) == PairFits(k, mapping[k], mappingCache[k])

\* What the worker has seen of the mapping some steps ago, and still holds.
Seen(j, m, c) ==
  /\ j.pc = "checkStatus" /\ m.exists /\ Claims(m, c) => j.id = m.id
  /\ j.pc \in {"register", "upsertMapping"} /\ m.exists => ~Claims(m, c)
  /\ j.pc \in {"fetchToken", "writeSecret"} /\ m.exists => j.id = m.id
  /\ j.pc = "writeSecret" => Knows(j.id, j.account)
  /\ j.pc = "setStatus" /\ Configured \subseteq j.goal =>
       /\ Registered \subseteq j.goal
       /\ m.exists => Usable(j.key, m.id)
  /\ j.pc \in {"deregister", "readMapping", "removeFinalizer", "deleteMapping"} =>
       Gone(j.key)

JobSeen == job # Idle => Seen(job, mapping[job.key], mappingCache[job.key])

ReadyInv == (\A k \in Kymas : Pair(k)) /\ JobSeen

\* What is known from CompassManagerProofs and RuntimeIdentity.
Known == TypeOK /\ RecordInv /\ OwnerInv

-----------------------------------------------------------------------------
(***************************************************************************)
(* Steps that change only the job.                                         *)
(***************************************************************************)
\* There is no mapping at first.
LEMMA ReadyInit == Init => ReadyInv
  BY DEF Init, CPInit, ReadyInv, Pair, PairFits, Claims, JobSeen, NoMapping,
         EmptyMappingStatus, AbsentKyma

\* Where only the job changes, only the job is left to check.
LEMMA SeenMoves ==
  ASSUME ReadyInv, UNCHANGED <<cpVars, dirVars>>,
         job' = Idle \/ Seen(job', mapping[job'.key], mappingCache[job'.key])
  PROVE  ReadyInv'
<1>1. UNCHANGED <<kyma, mapping, mappingCache, runtimes, agent>>
  BY DEF cpVars, dirVars
<1>2. \A k \in Kymas : Pair(k)'
  BY <1>1 DEF ReadyInv, Pair, PairFits, Usable, Gone, Present, Live
<1>3. JobSeen'
  BY <1>1 DEF JobSeen, Seen, Usable, Gone, Present, Live, Knows
<1>4. QED
  BY <1>2, <1>3 DEF ReadyInv

\* A job that sets a status without the bit Configured promises nothing.
LEMMA ModestGoal ==
  ASSUME NEW g, ~(Configured \subseteq g), GoOn(SettingStatus(g)), NEW m, NEW c
  PROVE  Seen(job', m, c)
  BY DEF GoOn, SettingStatus, Idle, Seen

\* The first reads: what is read agrees with what a mapping claims.
LEMMA ReadyReconcile ==
  ASSUME Known, ReadyInv, NEW k \in Kymas, Reconcile(k)
  PROVE  ReadyInv'
<1> DEFINE m == mapping[k]
           c == mappingCache[k]
<1>1. /\ UNCHANGED <<cpVars, dirVars>> /\ job = Idle
      /\ PairFits(k, m, c) /\ CopyInv(m, c)
      /\ kyma[k].phase \in {"absent", "present", "deleted"}
  BY DEF Reconcile, ReadyInv, Pair, Known, RecordInv, TypeOK, CPTypeOK, KymaCR
<1>2. ASSUME NEW p, NEW i, NEW a, Start(k, p, i, a),
             p \in {"createMapping", "checkStatus", "deregister", "readMapping"},
             p = "checkStatus" => i = c.id,
             p \in {"deregister", "readMapping"} => Gone(k)
      PROVE  ReadyInv'
  <2>1. job'.key = k /\ job'.pc = p /\ job'.id = i
    BY <1>2 DEF Start, Idle
  <2>2. Seen(job', m, c)
    BY <1>1, <1>2, <2>1 DEF Seen, PairFits
  <2>3. QED
    BY <1>1, <2>1, <2>2, SeenMoves
<1>3. CASE UNCHANGED job
  BY <1>1, <1>3, SeenMoves
<1>4. CASE ~Present(k) /\ handleKymaDeletion(k)
  <2>1. c.exists => Gone(k)
    BY <1>1, <1>4 DEF PairFits, Present, Gone
  <2>2. QED
    BY <1>2, <1>3, <1>4, <2>1 DEF handleKymaDeletion, GetCompassMapping, Drop
<1>5. QED
  BY <1>2, <1>3, <1>4
  DEF Reconcile, AwaitKubeconfig, NoGlobalAccount, Drop, GetCompassRuntimeID,
      GetCompassMapping

\* The second read: the runtime of the first one is the right one wherever the
\* status claims that there is one.
LEMMA ReadyCheckStatus ==
  ASSUME NoNameTwice, Known, ReadyInv, CheckStatus
  PROVE  ReadyInv'
<1> DEFINE k      == job.key
           m      == mapping[k]
           c      == mappingCache[k]
           status == Number(c.status)
<1>1. /\ job.pc = "checkStatus" /\ job # Idle /\ k \in Kymas /\ job \in Job
      /\ UNCHANGED <<cpVars, dirVars>> /\ EnabledRegistration
  BY NotIdle DEF TypeOK, WorkTypeOK, CheckStatus, At, Known, NoNameTwice
<1>2. PairFits(k, m, c) /\ Seen(job, m, c) /\ CopyInv(m, c)
  BY <1>1 DEF ReadyInv, Pair, JobSeen, Known, RecordInv
<1>3. \/ Return(TRUE)
      \/ GoOn(SettingStatus(Processing))
      \/ c.exists /\ GoOn(SettingStatus((status \ Failed) \cup Processing))
      \/ job.id = NoID /\ GoOn([job EXCEPT !.pc = "register"])
      \/ GoOn(SettingStatus(Registered \cup Processing))
      \/ Registered \cup Processing \subseteq status /\ GoOn([job EXCEPT !.pc = "fetchToken"])
  BY <1>1 DEF CheckStatus, GetCompassMapping, NeedsRegistration
<1>4. CASE Return(TRUE)
  BY <1>1, <1>4, SeenMoves DEF Return
<1>5. ASSUME NEW g, ~(Configured \subseteq g), GoOn(SettingStatus(g))
      PROVE  ReadyInv'
  BY <1>1, <1>5, ModestGoal, SeenMoves
<1>6. ~(Configured \subseteq Processing) /\ ~(Configured \subseteq Registered \cup Processing)
  BY DEF Configured, Processing, Registered
<1>7. CASE c.exists /\ GoOn(SettingStatus((status \ Failed) \cup Processing))
  <2> DEFINE g == (status \ Failed) \cup Processing
  <2>1. /\ Configured \subseteq g => c.status.configured
        /\ c.status.registered => Registered \subseteq g
    BY DEF Number, Registered, Configured, Processing, Failed
  <2>2. job'.pc = "setStatus" /\ job'.goal = g /\ job'.key = k
    BY <1>7 DEF GoOn, SettingStatus, Idle
  <2>3. Seen(job', m, c)
    BY <1>2, <2>1, <2>2 DEF Seen, PairFits
  <2>4. QED
    BY <1>1, <2>2, <2>3, SeenMoves
<1>8. CASE job.id = NoID /\ GoOn([job EXCEPT !.pc = "register"])
  <2>1. job'.pc = "register" /\ job'.key = k
    BY <1>1, <1>8 DEF GoOn, Job
  <2>2. m.exists => ~Claims(m, c)
    BY <1>1, <1>2, <1>8 DEF Seen, PairFits, Claims, CopyInv
  <2>3. Seen(job', m, c)
    BY <2>1, <2>2 DEF Seen
  <2>4. QED
    BY <1>1, <2>1, <2>3, SeenMoves
<1>9. CASE /\ Registered \cup Processing \subseteq status
           /\ GoOn([job EXCEPT !.pc = "fetchToken"])
  <2>1. job'.pc = "fetchToken" /\ job'.key = k /\ job'.id = job.id
    BY <1>1, <1>9 DEF GoOn, Job
  <2>2. c.status.registered
    BY <1>9 DEF Number, Registered, Configured, Processing, Failed
  <2>3. Seen(job', m, c)
    BY <1>1, <1>2, <2>1, <2>2 DEF Seen, Claims
  <2>4. QED
    BY <1>1, <2>1, <2>3, SeenMoves
<1>10. QED
  BY <1>3, <1>4, <1>5, <1>6, <1>7, <1>8, <1>9

\* A token is only issued for a runtime the Director finds in that tenant.
LEMMA ReadyToken ==
  ASSUME Known, ReadyInv, NEW o, FetchCompassToken(o)
  PROVE  ReadyInv'
<1> DEFINE k == job.key
           m == mapping[k]
           c == mappingCache[k]
<1>1. /\ job.pc = "fetchToken" /\ job # Idle /\ k \in Kymas /\ job \in Job
      /\ UNCHANGED <<cpVars, dirVars>>
  BY NotIdle DEF TypeOK, WorkTypeOK, FetchCompassToken, At, Known
<1>2. Seen(job, m, c)
  BY <1>1 DEF ReadyInv, JobSeen
<1>3. \/ GoOn(SettingStatus(ConfigureResult(FALSE)))
      \/ Knows(job.id, job.account) /\ GoOn([job EXCEPT !.pc = "writeSecret", !.attempt = 0])
      \/ GoOn([job EXCEPT !.attempt = @ + 1])
  BY DEF FetchCompassToken, RetryOnError, TokenIssued
<1>4. CASE GoOn(SettingStatus(ConfigureResult(FALSE)))
  <2>1. ~(Configured \subseteq ConfigureResult(FALSE))
    BY DEF ConfigureResult, Configured, Registered, Failed
  <2>2. QED
    BY <1>1, <1>4, <2>1, ModestGoal, SeenMoves
<1>5. CASE Knows(job.id, job.account) /\ GoOn([job EXCEPT !.pc = "writeSecret", !.attempt = 0])
  <2>1. /\ job'.pc = "writeSecret" /\ job'.key = k /\ job'.id = job.id
        /\ job'.account = job.account
    BY <1>1, <1>5 DEF GoOn, Job
  <2>2. Seen(job', m, c)
    BY <1>1, <1>2, <1>5, <2>1 DEF Seen
  <2>3. QED
    BY <1>1, <2>1, <2>2, SeenMoves
<1>6. CASE GoOn([job EXCEPT !.attempt = @ + 1])
  <2>1. job'.pc = "fetchToken" /\ job'.key = k /\ job'.id = job.id
    BY <1>1, <1>6 DEF GoOn, Job
  <2>2. Seen(job', m, c)
    BY <1>1, <1>2, <2>1 DEF Seen
  <2>3. QED
    BY <1>1, <2>1, <2>2, SeenMoves
<1>7. QED
  BY <1>3, <1>4, <1>5, <1>6

\* The deletion goes on or ends.
LEMMA ReadyReads ==
  ASSUME Known, ReadyInv, ReadMapping \/ ReadFails
  PROVE  ReadyInv'
<1>1. UNCHANGED <<cpVars, dirVars>> /\ job.key \in Kymas /\ job \in Job /\ job # Idle
  BY NotIdle DEF TypeOK, WorkTypeOK, ReadMapping, ReadFails, At, Known
<1>2. \/ job' = Idle
      \/ /\ job.pc = "readMapping"
         /\ job'.pc = "removeFinalizer" /\ job'.key = job.key
  BY <1>1 DEF ReadMapping, ReadFails, Return, GoOn, At, Job
<1>3. job' = Idle \/ Seen(job', mapping[job.key], mappingCache[job.key])
  BY <1>1, <1>2 DEF ReadyInv, JobSeen, Seen
<1>4. QED
  BY <1>1, <1>2, <1>3, SeenMoves

-----------------------------------------------------------------------------
(***************************************************************************)
(* Steps that change the Director or the cluster of a Kyma.                *)
(***************************************************************************)
\* A new runtime is one that no mapping relies on.
LEMMA ReadyRegister ==
  ASSUME Known, ReadyInv, NEW o, NEW i \in RuntimeIDs, RegisterInCompass(o, i)
  PROVE  ReadyInv'
<1>1. /\ job.pc = "register" /\ job # Idle /\ job.key \in Kymas /\ job \in Job
      /\ UNCHANGED <<cpVars, agent>> /\ DirTypeOK /\ CPTypeOK
  BY NotIdle
  DEF TypeOK, WorkTypeOK, RegisterInCompass, CreateRuntime, At, Known
<1>2. \/ UNCHANGED runtimes
      \/ /\ runtimes[i].kyma = NoKyma
         /\ runtimes' = [runtimes EXCEPT ![i] =
              [state |-> "live", kyma |-> job.key, account |-> job.account]]
  BY DEF RegisterInCompass, CreateRuntime, OwnerInv, Known
<1>3. ASSUME NEW k \in Kymas, NEW r \in RuntimeLabel, Usable(k, r)
      PROVE  Usable(k, r)'
  <2>1. r \in RuntimeIDs /\ runtimes[r].kyma = k /\ k # NoKyma
    BY <1>3, LandscapeAssumption DEF Usable, RuntimeLabel
  <2>2. runtimes'[r] = runtimes[r]
    BY <1>1, <1>2, <2>1 DEF DirTypeOK
  <2>3. QED
    BY <1>1, <1>3, <2>2 DEF Usable, Present, Live, cpVars
<1>4. \A k \in Kymas : Pair(k)'
  <2> SUFFICES ASSUME NEW k \in Kymas
               PROVE  Pair(k)'
    OBVIOUS
  <2>1. PairFits(k, mapping[k], mappingCache[k]) /\ mapping[k].id \in RuntimeLabel
    BY <1>1 DEF ReadyInv, Pair, CPTypeOK, CompassManagerMapping
  <2>2. Usable(k, mapping[k].id) => Usable(k, mapping[k].id)'
    BY <1>1, <1>3, <2>1 DEF cpVars
  <2>3. QED
    BY <1>1, <2>1, <2>2 DEF Pair, PairFits, Gone, cpVars
<1>5. JobSeen'
  <2>1. \/ GoOn([Idle EXCEPT !.pc = "upsertMapping", !.key = job.key, !.id = i])
        \/ GoOn(SettingStatus(Failed))
        \/ job'.pc = "register" /\ job'.key = job.key
    BY <1>1 DEF RegisterInCompass, RetryOnError, GoOn, Job
  <2>2. CASE GoOn(SettingStatus(Failed))
    <3>1. job'.pc = "setStatus" /\ ~(Configured \subseteq job'.goal)
      BY <2>2 DEF GoOn, SettingStatus, Idle, Configured, Failed
    <3>2. QED
      BY <3>1 DEF JobSeen, Seen
  <2>3. CASE job'.pc \in {"upsertMapping", "register"} /\ job'.key = job.key
    <3>1. mapping[job.key].exists => ~Claims(mapping[job.key], mappingCache[job.key])
      BY <1>1 DEF ReadyInv, JobSeen, Seen
    <3>2. QED
      BY <1>1, <2>3, <3>1 DEF JobSeen, Seen, cpVars
  <2>4. QED
    BY <2>1, <2>2, <2>3 DEF GoOn, Idle
<1>6. QED
  BY <1>4, <1>5 DEF ReadyInv

\* The agent gets the runtime of its mapping, in the tenant of that runtime.
LEMMA ReadyAgent ==
  ASSUME Known, ReadyInv, NEW o, UpsertAgentSecret(o)
  PROVE  ReadyInv'
<1> DEFINE k == job.key
           m == mapping[k]
<1>1. /\ job.pc = "writeSecret" /\ job # Idle /\ k \in Kymas
      /\ UNCHANGED <<cpVars, runtimes>> /\ DirTypeOK
  BY NotIdle DEF TypeOK, UpsertAgentSecret, WriteAgentSecret, At, Known
<1>2. /\ Live(job.id) /\ runtimes[job.id].account = job.account
      /\ runtimes[job.id].kyma = k
      /\ m.exists => job.id = m.id
  BY <1>1 DEF ReadyInv, JobSeen, Seen, Knows, Live, Known, OwnerInv, Owns
<1>3. \/ agent' = agent /\ o = "failed"
      \/ agent' = [agent EXCEPT ![k] = [id |-> job.id, account |-> job.account]]
  BY DEF UpsertAgentSecret, WriteAgentSecret, TookEffect
<1>4. ASSUME agent' = [agent EXCEPT ![k] = [id |-> job.id, account |-> job.account]],
             NEW j \in Kymas, j = k, mapping[j].exists
      PROVE  Usable(j, mapping[j].id)'
  BY <1>1, <1>2, <1>4 DEF Usable, Live, DirTypeOK, cpVars
<1>5. \A j \in Kymas : Pair(j)'
  <2> SUFFICES ASSUME NEW j \in Kymas
               PROVE  Pair(j)'
    OBVIOUS
  <2>1. PairFits(j, mapping[j], mappingCache[j])
    BY DEF ReadyInv, Pair
  <2>2. mapping[j].exists /\ Usable(j, mapping[j].id) => Usable(j, mapping[j].id)'
    <3>1. CASE agent'[j] = agent[j]
      BY <1>1, <3>1 DEF Usable, Present, Live, cpVars
    <3>2. CASE agent'[j] # agent[j]
      BY <1>1, <1>3, <1>4, <3>2 DEF DirTypeOK
    <3>3. QED
      BY <3>1, <3>2
  <2>3. QED
    BY <1>1, <2>1, <2>2 DEF Pair, PairFits, Gone, cpVars
<1>6. JobSeen'
  <2>1. job'.pc = "setStatus" /\ job'.key = k /\ job'.goal = ConfigureResult(o = "ok")
    BY DEF UpsertAgentSecret, GoOn, SettingStatus, Idle
  <2>2. Configured \subseteq job'.goal => o = "ok" /\ Registered \subseteq job'.goal
    BY <2>1 DEF ConfigureResult, Configured, Registered, Failed
  <2>3. QED
    BY <1>1, <1>3, <1>4, <2>1, <2>2 DEF JobSeen, Seen, cpVars
<1>7. QED
  BY <1>5, <1>6 DEF ReadyInv

\* Only runtimes of deleted Kymas are deregistered.
LEMMA ReadyDeregister ==
  ASSUME Known, ReadyInv, NEW o, DeregisterFromCompass(o)
  PROVE  ReadyInv'
<1>1. /\ job.pc = "deregister" /\ job # Idle /\ job.key \in Kymas /\ job \in Job
      /\ UNCHANGED <<cpVars, agent>> /\ DirTypeOK /\ CPTypeOK
  BY NotIdle
  DEF TypeOK, WorkTypeOK, DeregisterFromCompass, DeleteRuntime, At, Known
<1>2. Gone(job.key) /\ (job.id # NoID => runtimes[job.id].kyma = job.key)
  BY <1>1 DEF ReadyInv, JobSeen, Seen, Known, OwnerInv, Owns
<1>3. \/ UNCHANGED runtimes
      \/ /\ job.id # NoID
         /\ runtimes' = [runtimes EXCEPT ![job.id].state = "deleted"]
  BY DEF DeregisterFromCompass, DeleteRuntime, Knows, Live
<1>4. ASSUME NEW k \in Kymas, NEW r \in RuntimeLabel, Usable(k, r)
      PROVE  Usable(k, r)'
  <2>1. r \in RuntimeIDs /\ runtimes[r].kyma = k
    BY <1>4 DEF Usable, RuntimeLabel
  <2>2. /\ runtimes'[r].kyma = runtimes[r].kyma
        /\ runtimes'[r].account = runtimes[r].account
        /\ Present(k) => runtimes'[r] = runtimes[r]
    BY <1>1, <1>2, <1>3, <2>1 DEF DirTypeOK, Runtime, Gone, Present
  <2>3. QED
    BY <1>1, <1>4, <2>2 DEF Usable, Present, Live, cpVars
<1>5. \A k \in Kymas : Pair(k)'
  <2> SUFFICES ASSUME NEW k \in Kymas
               PROVE  Pair(k)'
    OBVIOUS
  <2>1. PairFits(k, mapping[k], mappingCache[k]) /\ mapping[k].id \in RuntimeLabel
    BY <1>1 DEF ReadyInv, Pair, CPTypeOK, CompassManagerMapping
  <2>2. Usable(k, mapping[k].id) => Usable(k, mapping[k].id)'
    BY <1>1, <1>4, <2>1 DEF cpVars
  <2>3. QED
    BY <1>1, <2>1, <2>2 DEF Pair, PairFits, Gone, cpVars
<1>6. \/ job' = Idle
      \/ job'.pc \in {"deregister", "readMapping"} /\ job'.key = job.key
  BY <1>1 DEF DeregisterFromCompass, DirectorError, DeletingMapping, RetryOnError,
              Return, GoOn, Job, Idle
<1>7. JobSeen'
  BY <1>1, <1>2, <1>6 DEF JobSeen, Seen, Gone, cpVars
<1>8. QED
  BY <1>5, <1>7 DEF ReadyInv

-----------------------------------------------------------------------------
(***************************************************************************)
(* Steps that change a mapping.                                            *)
(***************************************************************************)
\* A write after which mapping and cache fit.
LEMMA PairWrites ==
  ASSUME CPTypeOK, \A j \in Kymas : Pair(j), NEW k \in Kymas, NEW m, NEW b, NEW o,
         Write(k, b, m, o), UNCHANGED dirVars,
         b => PairFits(k, m, mappingCache[k])
  PROVE  \A j \in Kymas : Pair(j)'
<1>1. CASE b /\ TookEffect(o)
  <2>1. Put(k, m) /\ PairFits(k, m, mappingCache[k])
    BY <1>1 DEF Write
  <2>2. PairFits(k, m, m)
    BY <2>1 DEF PairFits, Claims
  <2>3. /\ UNCHANGED <<kyma, runtimes, agent>>
        /\ mapping'[k] = m
        /\ mappingCache'[k] \in {m, mappingCache[k]}
        /\ \A j \in Kymas \ {k} : /\ mapping'[j] = mapping[j]
                                  /\ mappingCache'[j] = mappingCache[j]
    BY <2>1 DEF Put, CPTypeOK, dirVars
  <2>4. Pair(k)'
    BY <2>1, <2>2, <2>3 DEF Pair, PairFits, Usable, Gone, Present, Live
  <2>5. \A j \in Kymas \ {k} : Pair(j)'
    BY <2>3 DEF Pair, PairFits, Usable, Gone, Present, Live
  <2>6. QED
    BY <2>4, <2>5
<1>2. CASE ~(b /\ TookEffect(o))
  <2>1. UNCHANGED <<kyma, mapping, mappingCache, runtimes, agent>>
    BY <1>2 DEF Write, cpVars, dirVars
  <2>2. QED
    BY <2>1 DEF Pair, PairFits, Usable, Gone, Present, Live
<1>3. QED
  BY <1>1, <1>2

\* Each write of the worker starts from what it knows of the mapping.
LEMMA ReadyWrites ==
  ASSUME NoNameTwice, Known, ReadyInv, NEW o,
         \/ makeNewCompassMappingAndRequeue(o)
         \/ UpsertMapping(o)
         \/ SetStatus(o)
         \/ RemoveFinalizer(o)
         \/ DeleteCompassMapping(o)
  PROVE  ReadyInv'
<1> DEFINE k == job.key
           m == mapping[k]
           c == mappingCache[k]
<1>1. /\ k \in Kymas /\ job # Idle /\ job \in Job /\ CPTypeOK
      /\ UNCHANGED dirVars /\ \A j \in Kymas : Pair(j)
  BY NotIdle
  DEF TypeOK, WorkTypeOK, makeNewCompassMappingAndRequeue, UpsertMapping,
      SetStatus, RemoveFinalizer, DeleteCompassMapping, At, Known, ReadyInv
<1>2. /\ PairFits(k, m, c) /\ CopyInv(m, c) /\ Seen(job, m, c)
      /\ m \in CompassManagerMapping /\ c \in CompassManagerMapping
  BY <1>1 DEF Pair, Known, RecordInv, ReadyInv, JobSeen, CPTypeOK
<1>3. ASSUME NEW b, NEW n, Write(k, b, n, o), b => PairFits(k, n, c)
      PROVE  \A j \in Kymas : Pair(j)'
  BY <1>1, <1>3, PairWrites
<1>4. CASE makeNewCompassMappingAndRequeue(o)
  <2> DEFINE new == NewMapping(NoID, kyma[k].account)
  <2>1. CreateAccepted(k) => PairFits(k, new, c)
    BY <1>2 DEF CreateAccepted, Creatable, PairFits, Claims, CopyInv, NewMapping,
       NoMapping, EmptyMappingStatus, Gone, Present
  <2>2. Write(k, CreateAccepted(k), new, o)
    BY <1>4 DEF makeNewCompassMappingAndRequeue, CreateCompassMapping
  <2>3. \A j \in Kymas : Pair(j)'
    BY <1>3, <2>1, <2>2
  <2>4. QED
    BY <1>4, <2>3 DEF makeNewCompassMappingAndRequeue, Return, ReadyInv, JobSeen
<1>5. CASE UpsertMapping(o)
  <2> DEFINE new == Upserted(k, job.id)
  <2>1. job.pc = "upsertMapping"
    BY <1>5 DEF UpsertMapping, At
  <2>2. CASE c.exists
    <3>1. /\ new.exists /\ new.status = c.status /\ new.finalizer = c.finalizer
      BY <1>2, <2>2 DEF Upserted, GetCompassMapping, CompassManagerMapping
    <3>2. UpsertAccepted(k) => PairFits(k, new, c)
      BY <1>2, <2>1, <2>2, <3>1
      DEF UpsertAccepted, Updatable, GetCompassMapping, PairFits, Seen, Claims,
          Gone, Present
    <3>3. QED
      BY <3>2, <1>3, <1>5
      DEF UpsertMapping, UpsertCompassMapping, Return, ReadyInv, JobSeen
  <2>3. CASE ~c.exists
    <3>1. UpsertAccepted(k) => PairFits(k, new, c)
      BY <1>2, <2>3
      DEF UpsertAccepted, Creatable, Upserted, GetCompassMapping, PairFits, Claims,
          CopyInv, NewMapping, NoMapping, EmptyMappingStatus, Gone, Present
    <3>2. QED
      BY <3>1, <1>3, <1>5
      DEF UpsertMapping, UpsertCompassMapping, Return, ReadyInv, JobSeen
  <2>4. QED
    BY <2>2, <2>3
<1>6. CASE SetStatus(o)
  <2> DEFINE new == [c EXCEPT !.status = MappingStatusOf(job.goal)]
  <2>1. job.pc = "setStatus"
    BY <1>6 DEF SetStatus, At
  <2>2. /\ new.id = c.id /\ new.exists = c.exists /\ new.finalizer = c.finalizer
        /\ new.status.registered = (Registered \subseteq job.goal)
        /\ new.status.configured = (Configured \subseteq job.goal)
    BY <1>2 DEF CompassManagerMapping, MappingStatusOf
  <2>3. Updatable(k) => PairFits(k, new, c)
    BY <1>2, <2>1, <2>2
    DEF Updatable, GetCompassMapping, PairFits, Claims, Seen
  <2>4. Write(k, Updatable(k), new, o)
    BY <1>6 DEF SetStatus, SetCompassMappingStatus, GetCompassMapping
  <2>5. \A j \in Kymas : Pair(j)'
    BY <1>3, <2>3, <2>4
  <2>6. QED
    BY <1>6, <2>5 DEF SetStatus, Return, ReadyInv, JobSeen
<1>7. CASE RemoveFinalizer(o)
  <2> DEFINE new == IF c.deleting THEN NoMapping ELSE [c EXCEPT !.finalizer = FALSE]
  <2>1. job.pc = "removeFinalizer" /\ Gone(k)
    BY <1>2, <1>7 DEF RemoveFinalizer, At, Seen
  <2>2. \/ new = NoMapping
        \/ /\ new.id = c.id /\ new.exists = c.exists /\ new.status = c.status
    BY <1>2 DEF CompassManagerMapping
  <2>3. Updatable(k) => PairFits(k, new, c)
    BY <1>2, <2>1, <2>2
    DEF Updatable, GetCompassMapping, PairFits, Claims, NoMapping,
        EmptyMappingStatus, Gone
  <2>4. Write(k, Updatable(k), new, o)
    BY <1>7 DEF RemoveFinalizer, RemoveCMFinalizer, GetCompassMapping
  <2>5. \A j \in Kymas : Pair(j)'
    BY <1>3, <2>3, <2>4
  <2>6. job' = Idle \/ (job'.pc = "deleteMapping" /\ job'.key = k)
    BY <1>1, <1>7 DEF RemoveFinalizer, Return, GoOn, Job
  <2>7. kyma' = kyma
    BY <2>4 DEF Write, Put, cpVars
  <2>8. JobSeen'
    BY <2>1, <2>6, <2>7 DEF JobSeen, Seen, Gone
  <2>9. QED
    BY <2>5, <2>8 DEF ReadyInv
<1>8. CASE DeleteCompassMapping(o)
  <2>1. job.pc = "deleteMapping" /\ Gone(k)
    BY <1>2, <1>8 DEF DeleteCompassMapping, At, Seen
  <2>2. PairFits(k, Deleted(m), c)
    BY <1>2, <2>1 DEF Deleted, PairFits, Claims, CompassManagerMapping, NoMapping,
       EmptyMappingStatus, Gone
  <2>3. Write(k, m.exists, Deleted(m), o)
    BY <1>8 DEF DeleteCompassMapping, DeleteMapping
  <2>4. \A j \in Kymas : Pair(j)'
    BY <1>3, <2>2, <2>3
  <2>5. QED
    BY <1>8, <2>4 DEF DeleteCompassMapping, Return, ReadyInv, JobSeen
<1>9. QED
  BY <1>4, <1>5, <1>6, <1>7, <1>8

\* The cache of a mapping catches up.
LEMMA ReadyCatchUp ==
  ASSUME Known, ReadyInv, NEW k \in Kymas, CatchUp(k)
  PROVE  ReadyInv'
<1>1. /\ UNCHANGED <<kyma, mapping, runtimes, agent, job>>
      /\ mappingCache' = [mappingCache EXCEPT ![k] = mapping[k]]
      /\ mappingCache \in [Kymas -> CompassManagerMapping]
  BY DEF CatchUp, WatchMapping, dirVars, mgrVars, Known, TypeOK, CPTypeOK
<1>2. \A j \in Kymas : mappingCache'[j] \in {mapping[j], mappingCache[j]}
  BY <1>1
<1>3. \A j \in Kymas : Pair(j)'
  BY <1>1, <1>2 DEF ReadyInv, Pair, PairFits, Claims, Usable, Gone, Present, Live
<1>4. JobSeen'
  <2>1. job # Idle => job.key \in Kymas
    BY DEF Known, TypeOK, WorkTypeOK, Job
  <2>2. job # Idle => mappingCache'[job.key] \in {mapping[job.key], mappingCache[job.key]}
    BY <1>2, <2>1
  <2>3. QED
    BY <1>1, <2>2
    DEF ReadyInv, JobSeen, Seen, Claims, Usable, Gone, Present, Live, Knows
<1>5. QED
  BY <1>3, <1>4 DEF ReadyInv

\* A user deletes a mapping: it stays as it is until its finalizer is removed.
LEMMA ReadyUser ==
  ASSUME Known, ReadyInv, NEW k \in Kymas, DeleteMappingByUser(k)
  PROVE  ReadyInv'
<1> DEFINE new == Deleted(mapping[k])
<1>1. /\ UNCHANGED <<kyma, runtimes, agent, job>>
      /\ mapping[k].exists /\ Put(k, new) /\ CPTypeOK
      /\ mapping[k] \in CompassManagerMapping
      /\ PairFits(k, mapping[k], mappingCache[k])
      /\ TookEffect("ok")
  BY DEF DeleteMappingByUser, MappingIsDeletedByUser, Change, Put, Known, TypeOK,
         CPTypeOK, ReadyInv, Pair, TookEffect
<1>2. \/ new = NoMapping /\ Gone(k)
      \/ /\ new.id = mapping[k].id /\ new.exists
         /\ new.status = mapping[k].status /\ new.finalizer = mapping[k].finalizer
  BY <1>1 DEF Deleted, PairFits, CompassManagerMapping
<1>3. PairFits(k, new, mappingCache[k])
  BY <1>1, <1>2 DEF PairFits, Claims, NoMapping, EmptyMappingStatus, Gone
<1>4. \A j \in Kymas : Pair(j)'
  BY <1>1, <1>3, PairWrites DEF Write, dirVars, ReadyInv
<1>5. JobSeen'
  <2>1. job # Idle => job.key \in Kymas
    BY DEF Known, TypeOK, WorkTypeOK, Job
  <2>2. CASE job # Idle /\ job.key = k
    <3>1. /\ mapping'[k] = new
          /\ mappingCache'[k] \in {new, mappingCache[k]}
          /\ Seen(job, mapping[k], mappingCache[k])
      BY <1>1, <2>2 DEF Put, CPTypeOK, ReadyInv, JobSeen
    <3>2. Seen(job, mapping'[k], mappingCache'[k])
      <4>1. CASE new = NoMapping
        BY <3>1, <4>1 DEF Seen, NoMapping
      <4>2. CASE /\ new.id = mapping[k].id /\ new.exists
                 /\ new.status = mapping[k].status
        BY <1>1, <2>2, <3>1, <4>2 DEF Seen, Claims
      <4>3. QED
        BY <1>2, <4>1, <4>2
    <3>3. QED
      BY <1>1, <2>2, <3>2 DEF JobSeen, Seen, Usable, Gone, Present, Live, Knows
  <2>3. CASE job # Idle /\ job.key # k
    <3>1. /\ mapping'[job.key] = mapping[job.key]
          /\ mappingCache'[job.key] = mappingCache[job.key]
      BY <1>1, <2>1, <2>3 DEF Put, CPTypeOK
    <3>2. QED
      BY <1>1, <2>3, <3>1
      DEF ReadyInv, JobSeen, Seen, Usable, Gone, Present, Live, Knows
  <2>4. QED
    BY <1>1, <2>2, <2>3 DEF JobSeen
<1>6. QED
  BY <1>4, <1>5 DEF ReadyInv

\* Kymas and kubeconfigs come and go; a deleted Kyma does not come back.
LEMMA ReadyKymas ==
  ASSUME NoNameTwice, Known, ReadyInv, NEW k \in Kymas,
         \/ \E m \in BOOLEAN, a \in AccountLabel : CreateKyma(k, m, a)
         \/ DeleteKyma(k)
         \/ UpdateKyma(k)
         \/ ToggleKubeconfig(k)
  PROVE  ReadyInv'
<1>1. /\ UNCHANGED <<mapping, mappingCache, runtimes, job>>
      /\ kyma \in [Kymas -> KymaCR] /\ agent \in [Kymas -> AgentSecret]
  BY DEF CreateKyma, DeleteKyma, UpdateKyma, ToggleKubeconfig, Change, SetKyma,
         KymaIsCreated, KymaIsDeleted, ModuleIsToggled, KymaIsLabelled,
         KubeconfigIsToggled, Known, TypeOK, CPTypeOK, DirTypeOK
<1>2. \A j \in Kymas :
        /\ Gone(j) => Gone(j)'
        /\ kyma'[j].phase = "absent" => kyma[j].phase = "absent"
        /\ \/ kyma[j].phase = "absent"
           \/ (Present(j)' => Present(j)) /\ agent'[j] = agent[j]
  <2>1. CASE \E m \in BOOLEAN, a \in AccountLabel : CreateKyma(k, m, a)
    BY <1>1, <2>1
    DEF CreateKyma, KymaIsCreated, SetKyma, NoNameTwice, Gone, Present
  <2>2. CASE DeleteKyma(k)
    BY <1>1, <2>2 DEF DeleteKyma, KymaIsDeleted, SetKyma, DeletedKyma, Gone, Present
  <2>3. CASE UpdateKyma(k)
    BY <1>1, <2>3
    DEF UpdateKyma, ModuleIsToggled, KymaIsLabelled, SetKyma, KymaCR, Gone, Present
  <2>4. CASE ToggleKubeconfig(k)
    BY <1>1, <2>4 DEF ToggleKubeconfig, KubeconfigIsToggled, Gone, Present
  <2>5. QED
    BY <2>1, <2>2, <2>3, <2>4
<1>3. ASSUME NEW j \in Kymas
      PROVE  /\ mapping[j].exists => kyma[j].phase # "absent"
             /\ mapping[j].exists /\ Usable(j, mapping[j].id) => Usable(j, mapping[j].id)'
  <2>1. mapping[j].exists => kyma[j].phase # "absent"
    BY DEF ReadyInv, Pair, PairFits
  <2>2. QED
    BY <1>1, <1>2, <2>1 DEF Usable, Live
<1>4. \A j \in Kymas : Pair(j)'
  BY <1>1, <1>2, <1>3 DEF ReadyInv, Pair, PairFits, Claims, Gone
<1>5. JobSeen'
  <2>1. job # Idle => job.key \in Kymas
    BY DEF Known, TypeOK, WorkTypeOK, Job
  <2>2. QED
    BY <1>1, <1>2, <1>3, <2>1 DEF ReadyInv, JobSeen, Seen, Claims, Knows, Live
<1>6. QED
  BY <1>4, <1>5 DEF ReadyInv

-----------------------------------------------------------------------------
(***************************************************************************)
(* The theorem.                                                            *)
(***************************************************************************)
\* ReadyInv is inductive.
LEMMA ReadyStep ==
  ASSUME NoNameTwice
  PROVE  Known /\ ReadyInv /\ [Next]_vars => ReadyInv'
<1> SUFFICES ASSUME Known, ReadyInv, [Next]_vars
             PROVE  ReadyInv'
  OBVIOUS
<1>1. CASE UNCHANGED vars
  BY <1>1 DEF vars, ReadyInv, Pair, PairFits, JobSeen, Seen, Claims, Usable, Gone,
     Present, Live, Knows
<1>2. CASE Restart
  <2>1. /\ job' = Idle /\ mapping' = mapping /\ mappingCache' = mapping
        /\ UNCHANGED <<kyma, runtimes, agent>>
    BY <1>2 DEF Restart, dirVars
  <2>2. QED
    BY <2>1 DEF ReadyInv, JobSeen, Pair, PairFits, Claims, Usable, Gone, Present, Live
<1>3. CASE Worker
  BY <1>3, ReadyCheckStatus, ReadyRegister, ReadyToken, ReadyAgent, ReadyDeregister,
     ReadyReads, ReadyWrites
  DEF Worker
<1>4. CASE ReadFails
  BY <1>4, ReadyReads
<1>5. QED
  BY <1>1, <1>2, <1>3, <1>4, ReadyReconcile, ReadyCatchUp, ReadyUser, ReadyKymas
  DEF Next, Environment, Others

\* A mapping that says Ready can be believed: its runtime is the one the agent
\* works with, in the right tenant, and is registered while the Kyma exists;
\* with a cache that is behind, a Kyma that moves to another account, failed
\* calls, lost answers and restarts at any moment (SetCompassMappingStatus,
\* ConfigureCompassRuntimeAgent).  Where a Kyma comes back under an old name it
\* finds the mapping of a runtime that is gone.
THEOREM ReadyIsBelievable ==
  ASSUME NoNameTwice
  PROVE  Spec => []ReadyIsUsable
<1>1. Known /\ ReadyInv => ReadyIsUsable
  BY DEF Known, RecordInv, CopyInv, NoMapping, EmptyMappingStatus, ReadyInv, Pair,
         PairFits, Usable, ReadyIsUsable
<1>2. EnabledRegistration
  BY DEF NoNameTwice
<1>3. Spec => []Known
  BY <1>2, RecordInit, RecordStep, OwnerInit, OwnerStep, TypeCorrect, PTL DEF Spec, Known
<1>4. QED
  BY <1>1, <1>3, ReadyInit, ReadyStep, PTL DEF Spec
=============================================================================
