--------------------------- MODULE RuntimeIdentity ---------------------------
(***************************************************************************)
(* Why a recorded runtime ID can be trusted.  Two inductive invariants of  *)
(* CompassManager: what the worker has read still says something about the *)
(* mapping at the API server, however stale the cache is; and every ID     *)
(* that is stored or under way belongs to the Kyma it is stored for.       *)
(***************************************************************************)
EXTENDS CompassManagerProofs

\* A mapping m at the API server and the copy c that the client shows.
CopyInv(m, c) ==
  /\ ~m.exists => m = NoMapping
  /\ ~c.exists => c = NoMapping
  /\ m.status.registered => m.id # NoID
  /\ c.status.registered => c.id # NoID
  /\ m.exists /\ c.id # NoID => m.id # NoID
  /\ m.exists /\ ~c.exists => m.finalizer

\* The worker believes that the mapping of job j records a runtime.
BelievesRegistered(j) ==
  \/ j.pc \in {"checkStatus", "fetchToken", "writeSecret"} /\ j.id # NoID
  \/ j.pc = "setStatus" /\ Registered \subseteq j.goal

\* The job j of the worker and the mapping it is about.
JobInv(j, m, c) ==
  /\ j.pc = "createMapping" => \/ ~m.exists /\ ~c.exists
                               \/ m.exists /\ m.finalizer
  /\ j.pc \in {"upsertMapping", "fetchToken", "writeSecret"} => j.id # NoID
  /\ BelievesRegistered(j) /\ m.exists => m.id # NoID

RecordInv ==
  /\ \A k \in Kymas : CopyInv(mapping[k], mappingCache[k])
  /\ job # Idle => JobInv(job, mapping[job.key], mappingCache[job.key])

\* Runtime i, if there is one, was registered for Kyma k.
Owns(k, i) == i # NoID => runtimes[i].kyma = k

OwnerInv ==
  /\ \A i \in RuntimeIDs : Unused(i) => runtimes[i].kyma = NoKyma
  /\ \A k \in Kymas : /\ Owns(k, mapping[k].id)
                      /\ Owns(k, mappingCache[k].id)
                      /\ Owns(k, agent[k].id)
  /\ Owns(job.key, job.id)

-----------------------------------------------------------------------------
(***************************************************************************)
(* RecordInv.                                                              *)
(***************************************************************************)
LEMMA WriteCopies ==
  ASSUME CPTypeOK, \A j \in Kymas : CopyInv(mapping[j], mappingCache[j]),
         NEW k \in Kymas, NEW m \in CompassManagerMapping, NEW b, NEW o,
         b => CopyInv(m, mappingCache[k]), Write(k, b, m, o)
  PROVE  \A j \in Kymas : CopyInv(mapping'[j], mappingCache'[j])
<1>1. CASE b /\ TookEffect(o)
  <2>1. Put(k, m) /\ CopyInv(m, mappingCache[k])
    BY <1>1 DEF Write
  <2>2. CopyInv(m, m)
    BY <2>1 DEF CopyInv
  <2>3. QED
    BY <2>1, <2>2 DEF Put, CPTypeOK
<1>2. CASE ~(b /\ TookEffect(o))
  BY <1>2 DEF Write, cpVars
<1>3. QED
  BY <1>1, <1>2

\* A deletion by a user at the API server preserves CopyInv.
LEMMA DeletedCopies ==
  ASSUME NEW m \in CompassManagerMapping, NEW c \in CompassManagerMapping,
         m.exists, CopyInv(m, c)
  PROVE  CopyInv(Deleted(m), c)
  BY DEF CopyInv, Deleted, NoMapping, EmptyMappingStatus, CompassManagerMapping,
         CompassManagerMappingStatus

\* When a call has ended, only the copies of mappings are left to check.
LEMMA IdleIsDone ==
  ASSUME \A k \in Kymas : CopyInv(mapping'[k], mappingCache'[k]), job' = Idle
  PROVE  RecordInv'
  BY DEF RecordInv

\* A step of the job that writes no mapping: what remains is JobInv.
LEMMA JobMoves ==
  ASSUME RecordInv, UNCHANGED cpVars, job'.key \in Kymas,
         JobInv(job', mapping[job'.key], mappingCache[job'.key])
  PROVE  RecordInv'
  BY DEF RecordInv, cpVars

\* Where a failed or finished call sets a status that does not claim more than
\* the worker knows.
LEMMA StatusMoves ==
  ASSUME TypeOK, RecordInv, UNCHANGED cpVars, job.pc # "idle", NEW g \in Status,
         GoOn(SettingStatus(g)),
         Registered \subseteq g => \/ ~mapping[job.key].exists
                                   \/ mapping[job.key].id # NoID
  PROVE  RecordInv'
<1>1. job.key \in Kymas
  BY NotIdle DEF TypeOK
<1>2. /\ job'.pc = "setStatus"
      /\ job'.goal = g
      /\ job'.key = job.key
  BY DEF GoOn, SettingStatus, Idle
<1>3. JobInv(job', mapping[job.key], mappingCache[job.key])
  BY <1>2 DEF JobInv, BelievesRegistered
<1>4. QED
  BY <1>1, <1>2, <1>3, JobMoves

\* There is no mapping at first, so nothing can be claimed wrongly.
LEMMA RecordInit == Init => RecordInv
  BY DEF Init, CPInit, RecordInv, CopyInv, NoMapping, EmptyMappingStatus

\* The first reads: what the worker believes comes from the cached copy.
LEMMA RecordReconcile ==
  ASSUME TypeOK, RecordInv, NEW k \in Kymas, Reconcile(k)
  PROVE  RecordInv'
<1>1. UNCHANGED cpVars /\ CopyInv(mapping[k], mappingCache[k])
  BY DEF Reconcile, RecordInv
<1>2. CASE UNCHANGED job
  BY <1>1, <1>2 DEF RecordInv, cpVars
<1>3. ASSUME NEW p, NEW i, NEW a, Start(k, p, i, a),
             p = "createMapping" => ~mappingCache[k].exists,
             p \notin {"upsertMapping", "fetchToken", "writeSecret", "setStatus"},
             p = "checkStatus" => i = mappingCache[k].id
      PROVE  RecordInv'
  <2>1. job'.key = k /\ job'.pc = p /\ job'.id = i
    BY <1>3 DEF Start, Idle
  <2>2. mapping[k].exists \in BOOLEAN
    BY DEF TypeOK, CPTypeOK, CompassManagerMapping
  <2>3. JobInv(job', mapping[k], mappingCache[k])
    BY <1>1, <1>3, <2>1, <2>2 DEF JobInv, BelievesRegistered, CopyInv
  <2>4. QED
    BY <1>1, <2>1, <2>3, JobMoves
<1>4. CASE ~Present(k) /\ handleKymaDeletion(k)
  BY <1>2, <1>3, <1>4 DEF handleKymaDeletion, Drop
<1>5. CASE Present(k) /\ (AwaitKubeconfig(k) \/ NoGlobalAccount(k))
  BY <1>2, <1>5 DEF AwaitKubeconfig, NoGlobalAccount, Drop
<1>6. CASE /\ ~GetCompassMapping(k).exists
           /\ Start(k, "createMapping", NoID, NoAccount)
  BY <1>3, <1>6 DEF GetCompassMapping
<1>7. CASE Start(k, "checkStatus", GetCompassRuntimeID(k), kyma[k].account)
  BY <1>3, <1>7 DEF GetCompassRuntimeID, GetCompassMapping
<1>8. QED
  BY <1>4, <1>5, <1>6, <1>7 DEF Reconcile

\* The second read: the worker goes on with the ID of the first.
LEMMA RecordCheckStatus ==
  ASSUME TypeOK, RecordInv, EnabledRegistration, CheckStatus
  PROVE  RecordInv'
<1> DEFINE k      == job.key
           c      == mappingCache[k]
           status == Number(c.status)
<1>1. /\ job.pc = "checkStatus" /\ job # Idle /\ k \in Kymas /\ job \in Job
      /\ UNCHANGED cpVars
  BY NotIdle DEF TypeOK, WorkTypeOK, CheckStatus, At
<1>2. CopyInv(mapping[k], c) /\ JobInv(job, mapping[k], c)
  BY <1>1 DEF RecordInv
<1>3. \A j \in Kymas : CopyInv(mapping'[j], mappingCache'[j])
  BY <1>1 DEF RecordInv, cpVars
<1>4. \/ Return(TRUE)
      \/ GoOn(SettingStatus(Processing))
      \/ c.exists /\ GoOn(SettingStatus((status \ Failed) \cup Processing))
      \/ GoOn([job EXCEPT !.pc = "register"])
      \/ /\ job.id # NoID
         /\ \/ GoOn(SettingStatus(Registered \cup Processing))
            \/ GoOn([job EXCEPT !.pc = "fetchToken"])
  BY DEF CheckStatus, GetCompassMapping, NeedsRegistration
<1>5. CASE Return(TRUE)
  BY <1>3, <1>5, IdleIsDone DEF Return
<1>6. /\ Processing \in Status /\ (status \ Failed) \cup Processing \in Status
      /\ Registered \cup Processing \in Status
  BY DEF Status, Number, Registered, Configured, Processing, Failed
<1>7. CASE GoOn(SettingStatus(Processing))
  <2>1. ~(Registered \subseteq Processing)
    BY DEF Registered, Processing
  <2>2. QED
    BY <1>1, <1>6, <1>7, <2>1, StatusMoves
<1>8. CASE c.exists /\ GoOn(SettingStatus((status \ Failed) \cup Processing))
  <2>1. Registered \subseteq (status \ Failed) \cup Processing => c.status.registered
    BY DEF Number, Registered, Configured, Processing, Failed
  <2>2. c.status.registered => ~mapping[k].exists \/ mapping[k].id # NoID
    BY <1>2 DEF CopyInv
  <2>3. QED
    BY <1>1, <1>6, <1>8, <2>1, <2>2, StatusMoves
<1>9. CASE GoOn([job EXCEPT !.pc = "register"])
  <2>1. job'.pc = "register" /\ job'.key = k
    BY <1>1, <1>9 DEF GoOn, Job
  <2>2. QED
    BY <1>1, <2>1, JobMoves DEF JobInv, BelievesRegistered
<1>10. CASE job.id # NoID /\ GoOn(SettingStatus(Registered \cup Processing))
  <2>1. ~mapping[k].exists \/ mapping[k].id # NoID
    BY <1>1, <1>2, <1>10 DEF JobInv, BelievesRegistered
  <2>2. QED
    BY <1>1, <1>6, <1>10, <2>1, StatusMoves
<1>11. CASE job.id # NoID /\ GoOn([job EXCEPT !.pc = "fetchToken"])
  <2>1. job'.pc = "fetchToken" /\ job'.key = k /\ job'.id = job.id
    BY <1>1, <1>11 DEF GoOn, Job
  <2>2. JobInv(job', mapping[k], c)
    BY <1>1, <1>2, <1>11, <2>1 DEF JobInv, BelievesRegistered
  <2>3. QED
    BY <1>1, <2>1, <2>2, JobMoves
<1>12. QED
  BY <1>4, <1>5, <1>7, <1>8, <1>9, <1>10, <1>11

\* A registration yields an ID, or the status Failed alone.
LEMMA RecordRegister ==
  ASSUME TypeOK, RecordInv, NEW o, NEW i \in RuntimeIDs, RegisterInCompass(o, i)
  PROVE  RecordInv'
<1>1. /\ job.pc = "register" /\ job.key \in Kymas /\ job \in Job
      /\ UNCHANGED cpVars
  BY NotIdle DEF TypeOK, WorkTypeOK, RegisterInCompass, At
<1>2. \/ GoOn([Idle EXCEPT !.pc = "upsertMapping", !.key = job.key, !.id = i])
      \/ GoOn(SettingStatus(Failed))
      \/ job'.pc = "register" /\ job'.key = job.key
  BY <1>1 DEF RegisterInCompass, RetryOnError, GoOn, Job
<1>3. CASE GoOn([Idle EXCEPT !.pc = "upsertMapping", !.key = job.key, !.id = i])
  <2>1. job'.pc = "upsertMapping" /\ job'.key = job.key /\ job'.id = i
    BY <1>3 DEF GoOn, Idle
  <2>2. i # NoID
    BY LandscapeAssumption
  <2>3. QED
    BY <1>1, <2>1, <2>2, JobMoves DEF JobInv, BelievesRegistered
<1>4. CASE GoOn(SettingStatus(Failed))
  <2>1. ~(Registered \subseteq Failed)
    BY DEF Registered, Failed
  <2>2. QED
    BY <1>1, <1>4, <2>1, StatusSets, StatusMoves
<1>5. CASE job'.pc = "register" /\ job'.key = job.key
  BY <1>1, <1>5, JobMoves DEF JobInv, BelievesRegistered
<1>6. QED
  BY <1>2, <1>3, <1>4, <1>5

\* The agent is configured only for a mapping with an ID.
LEMMA RecordConfigure ==
  ASSUME TypeOK, RecordInv, NEW o, FetchCompassToken(o) \/ UpsertAgentSecret(o)
  PROVE  RecordInv'
<1>1. /\ job.pc \in {"fetchToken", "writeSecret"} /\ job # Idle
      /\ job.key \in Kymas /\ job \in Job /\ UNCHANGED cpVars
  BY NotIdle DEF TypeOK, WorkTypeOK, FetchCompassToken, UpsertAgentSecret, At
<1>2. JobInv(job, mapping[job.key], mappingCache[job.key])
  BY <1>1 DEF RecordInv
<1>3. \/ \E b \in BOOLEAN : GoOn(SettingStatus(ConfigureResult(b)))
      \/ /\ job'.pc \in {"fetchToken", "writeSecret"}
         /\ job'.key = job.key /\ job'.id = job.id
  BY <1>1 DEF FetchCompassToken, UpsertAgentSecret, RetryOnError, GoOn, At, Job
<1>4. ASSUME NEW b \in BOOLEAN, GoOn(SettingStatus(ConfigureResult(b)))
      PROVE  RecordInv'
  <2>1. ~mapping[job.key].exists \/ mapping[job.key].id # NoID
    BY <1>1, <1>2 DEF JobInv, BelievesRegistered
  <2>2. QED
    BY <1>1, <1>4, <2>1, StatusSets, StatusMoves
<1>5. CASE /\ job'.pc \in {"fetchToken", "writeSecret"}
           /\ job'.key = job.key /\ job'.id = job.id
  <2>1. JobInv(job', mapping[job.key], mappingCache[job.key])
    BY <1>1, <1>2, <1>5 DEF JobInv, BelievesRegistered
  <2>2. QED
    BY <1>1, <1>5, <2>1, JobMoves
<1>6. QED
  BY <1>3, <1>4, <1>5

\* The steps of a deletion: the job no longer believes anything.
LEMMA RecordDeregister ==
  ASSUME TypeOK, RecordInv, NEW o, DeregisterFromCompass(o) \/ ReadMapping \/ ReadFails
  PROVE  RecordInv'
<1>1. job.key \in Kymas /\ job \in Job /\ UNCHANGED cpVars
  BY NotIdle DEF TypeOK, WorkTypeOK, DeregisterFromCompass, ReadMapping, ReadFails, At
<1>2. \/ job' = Idle
      \/ job'.pc \in {"deregister", "readMapping", "removeFinalizer"} /\ job'.key = job.key
  BY <1>1 DEF DeregisterFromCompass, DirectorError, DeletingMapping, ReadMapping,
              ReadFails, RetryOnError, Return, GoOn, At, Job, Idle
<1>3. \A k \in Kymas : CopyInv(mapping'[k], mappingCache'[k])
  BY <1>1 DEF RecordInv, cpVars
<1>4. QED
  BY <1>1, <1>2, <1>3, IdleIsDone, JobMoves DEF JobInv, BelievesRegistered

\* The steps that write the mapping end the job, except for the removal of the
\* finalizer.
LEMMA RecordWrites ==
  ASSUME TypeOK, RecordInv, EnabledRegistration, NEW o,
         \/ makeNewCompassMappingAndRequeue(o)
         \/ UpsertMapping(o)
         \/ SetStatus(o)
         \/ RemoveFinalizer(o)
         \/ DeleteCompassMapping(o)
  PROVE  RecordInv'
<1> DEFINE k == job.key
           m == mapping[k]
           c == mappingCache[k]
<1>1. k \in Kymas /\ job # Idle /\ job \in Job /\ CPTypeOK
  BY NotIdle
  DEF TypeOK, WorkTypeOK, makeNewCompassMappingAndRequeue, UpsertMapping,
      SetStatus, RemoveFinalizer, DeleteCompassMapping, At
<1>2. /\ \A j \in Kymas : CopyInv(mapping[j], mappingCache[j])
      /\ CopyInv(m, c) /\ JobInv(job, m, c)
  BY <1>1 DEF RecordInv
<1>3. m \in CompassManagerMapping /\ c \in CompassManagerMapping
  BY <1>1 DEF CPTypeOK
<1>4. kyma[k].account \in AccountLabel /\ NoID \in RuntimeLabel
  BY <1>1 DEF CPTypeOK, KymaCR, RuntimeLabel
<1>5. ASSUME makeNewCompassMappingAndRequeue(o)
      PROVE  RecordInv'
  <2> DEFINE new == NewMapping(NoID, kyma[k].account)
  <2>1. new \in CompassManagerMapping
    BY <1>4, MappingTypes
  <2>2. CreateAccepted(k) => CopyInv(new, c)
    BY <1>2, <1>5
    DEF makeNewCompassMappingAndRequeue, At, CreateAccepted, Creatable, JobInv,
        CopyInv, NewMapping, NoMapping, EmptyMappingStatus
  <2>3. Write(k, CreateAccepted(k), new, o)
    BY <1>5 DEF makeNewCompassMappingAndRequeue, CreateCompassMapping
  <2>4. \A j \in Kymas : CopyInv(mapping'[j], mappingCache'[j])
    <3> HIDE DEF new, k, c
    <3> QED
      BY <1>1, <1>2, <2>1, <2>2, <2>3, WriteCopies DEF k, c
  <2>5. QED
    BY <1>5, <2>4, IdleIsDone DEF makeNewCompassMappingAndRequeue, Return
<1>6. ASSUME UpsertMapping(o)
      PROVE  RecordInv'
  <2> DEFINE new == Upserted(k, job.id)
  <2>1. job.id \in RuntimeLabel /\ job.id # NoID
    BY <1>1, <1>2, <1>6 DEF UpsertMapping, At, JobInv, Job
  <2>2. new \in CompassManagerMapping
    BY <1>3, <1>4, <2>1, MappingTypes, MappingUpdates DEF Upserted, GetCompassMapping
  <2>3. new.id = job.id /\ new.exists /\ (c.exists \/ new.finalizer)
    BY <1>3 DEF Upserted, GetCompassMapping, NewMapping, CompassManagerMapping
  <2>4. CopyInv(new, c)
    BY <1>2, <2>1, <2>3 DEF CopyInv
  <2>5. Write(k, UpsertAccepted(k), new, o)
    BY <1>6 DEF UpsertMapping, UpsertCompassMapping
  <2>6. \A j \in Kymas : CopyInv(mapping'[j], mappingCache'[j])
    <3> HIDE DEF new, k, c
    <3> QED
      BY <1>1, <1>2, <2>2, <2>4, <2>5, WriteCopies DEF k, c
  <2>7. QED
    BY <1>6, <2>6, IdleIsDone DEF UpsertMapping, Return
<1>7. ASSUME SetStatus(o)
      PROVE  RecordInv'
  <2> DEFINE new == [c EXCEPT !.status = MappingStatusOf(job.goal)]
  <2>1. new \in CompassManagerMapping
    BY <1>1, <1>3, StatusTypes, MappingUpdates DEF Job
  <2>2. /\ new.id = c.id /\ new.exists = c.exists
        /\ new.status.registered = (Registered \subseteq job.goal)
    BY <1>3 DEF CompassManagerMapping, MappingStatusOf
  <2>3. Registered \subseteq job.goal /\ m.exists => m.id # NoID
    BY <1>2, <1>7 DEF SetStatus, At, JobInv, BelievesRegistered
  <2>4. Updatable(k) => CopyInv(new, c)
    BY <1>2, <2>2, <2>3 DEF Updatable, GetCompassMapping, CopyInv
  <2>5. Write(k, Updatable(k), new, o)
    BY <1>7 DEF SetStatus, SetCompassMappingStatus, GetCompassMapping
  <2>6. \A j \in Kymas : CopyInv(mapping'[j], mappingCache'[j])
    <3> HIDE DEF new, k, c
    <3> QED
      BY <1>1, <1>2, <2>1, <2>4, <2>5, WriteCopies DEF k, c
  <2>7. QED
    BY <1>7, <2>6, IdleIsDone DEF SetStatus, Return
<1>8. ASSUME RemoveFinalizer(o)
      PROVE  RecordInv'
  <2> DEFINE new == IF c.deleting THEN NoMapping ELSE [c EXCEPT !.finalizer = FALSE]
  <2>1. new \in CompassManagerMapping
    BY <1>3, MappingTypes, MappingUpdates
  <2>2. Updatable(k) => CopyInv(new, c)
    BY <1>2, <1>3
    DEF Updatable, GetCompassMapping, CopyInv, NoMapping, EmptyMappingStatus,
        CompassManagerMapping
  <2>3. Write(k, Updatable(k), new, o)
    BY <1>8 DEF RemoveFinalizer, RemoveCMFinalizer, GetCompassMapping
  <2>4. \A j \in Kymas : CopyInv(mapping'[j], mappingCache'[j])
    <3> HIDE DEF new, k, c
    <3> QED
      BY <1>1, <1>2, <2>1, <2>2, <2>3, WriteCopies DEF k, c
  <2>5. job' = Idle \/ job'.pc = "deleteMapping"
    BY <1>1, <1>8 DEF RemoveFinalizer, Return, GoOn, Job
  <2>6. job'.pc = "deleteMapping" => JobInv(job', mapping'[job'.key], mappingCache'[job'.key])
    BY DEF JobInv, BelievesRegistered
  <2>7. QED
    BY <2>4, <2>5, <2>6, IdleIsDone DEF RecordInv
<1>9. ASSUME DeleteCompassMapping(o)
      PROVE  RecordInv'
  <2>1. Deleted(m) \in CompassManagerMapping
    BY <1>3, MappingUpdates
  <2>2. m.exists => CopyInv(Deleted(m), c)
    BY <1>2, <1>3, DeletedCopies
  <2>3. Write(k, m.exists, Deleted(m), o)
    BY <1>9 DEF DeleteCompassMapping, DeleteMapping
  <2>4. \A j \in Kymas : CopyInv(mapping'[j], mappingCache'[j])
    <3> HIDE DEF k, c, m
    <3> QED
      BY <1>1, <1>2, <2>1, <2>2, <2>3, WriteCopies DEF k, c, m
  <2>5. QED
    BY <1>9, <2>4, IdleIsDone DEF DeleteCompassMapping, Return
<1>10. QED
  BY <1>5, <1>6, <1>7, <1>8, <1>9

\* What others do while a job is under way.
LEMMA RecordEnvironment ==
  ASSUME TypeOK, RecordInv, NEW k \in Kymas, DeleteMappingByUser(k) \/ CatchUp(k)
  PROVE  RecordInv'
<1>1. /\ CopyInv(mapping[k], mappingCache[k])
      /\ mapping[k] \in CompassManagerMapping /\ mappingCache[k] \in CompassManagerMapping
      /\ Deleted(mapping[k]) \in CompassManagerMapping
      /\ CPTypeOK /\ UNCHANGED job
  BY MappingUpdates
  DEF RecordInv, TypeOK, CPTypeOK, DeleteMappingByUser, Change, CatchUp, mgrVars
<1>2. CASE DeleteMappingByUser(k)
  <2>1. mapping[k].exists /\ Put(k, Deleted(mapping[k]))
    BY <1>2 DEF DeleteMappingByUser, MappingIsDeletedByUser
  <2>2. CopyInv(Deleted(mapping[k]), mappingCache[k])
    BY <1>1, <2>1, DeletedCopies
  <2>3. CopyInv(Deleted(mapping[k]), Deleted(mapping[k]))
    BY <2>2 DEF CopyInv
  <2>4. \A j \in Kymas : CopyInv(mapping'[j], mappingCache'[j])
    BY <1>1, <2>1, <2>2, <2>3 DEF Put, CPTypeOK, RecordInv
  <2>5. ASSUME NEW j \in Job, NEW c, JobInv(j, mapping[k], mappingCache[k])
        PROVE  JobInv(j, Deleted(mapping[k]), c)
    BY <1>1, <2>1, <2>5
    DEF JobInv, BelievesRegistered, Deleted, NoMapping, CompassManagerMapping
  <2>6. job # Idle => JobInv(job, mapping'[job.key], mappingCache'[job.key])
    BY <1>1, <2>1, <2>5 DEF RecordInv, Put, TypeOK, WorkTypeOK, CPTypeOK
  <2>7. QED
    BY <1>1, <2>4, <2>6 DEF RecordInv
<1>3. CASE CatchUp(k)
  <2>1. /\ mapping' = mapping
        /\ mappingCache' = [mappingCache EXCEPT ![k] = mapping[k]]
    BY <1>3 DEF CatchUp, WatchMapping
  <2>2. \A j \in Kymas : CopyInv(mapping'[j], mappingCache'[j])
    BY <1>1, <2>1 DEF RecordInv, CopyInv, CPTypeOK
  <2>3. job # Idle => JobInv(job, mapping'[job.key], mappingCache'[job.key])
    BY <1>1, <2>1 DEF RecordInv, JobInv, TypeOK, CPTypeOK
  <2>4. QED
    BY <1>1, <2>2, <2>3 DEF RecordInv
<1>4. QED
  BY <1>2, <1>3

\* RecordInv is inductive.
LEMMA RecordStep ==
  TypeOK /\ EnabledRegistration /\ RecordInv /\ [Next]_vars => RecordInv'
<1> SUFFICES ASSUME TypeOK, EnabledRegistration, RecordInv, [Next]_vars
             PROVE  RecordInv'
  OBVIOUS
<1>1. CASE UNCHANGED vars
  BY <1>1 DEF vars, RecordInv
<1>2. CASE Restart
  <2>1. job' = Idle /\ mapping' = mapping /\ mappingCache' = mapping
    BY <1>2 DEF Restart
  <2>2. QED
    BY <2>1, IdleIsDone DEF RecordInv, CopyInv
<1>3. CASE \E k \in Kymas : \/ \E m \in BOOLEAN, a \in AccountLabel : CreateKyma(k, m, a)
                            \/ DeleteKyma(k)
                            \/ UpdateKyma(k)
                            \/ ToggleKubeconfig(k)
  <2>1. UNCHANGED <<mapping, mappingCache, job>>
    BY <1>3
    DEF CreateKyma, DeleteKyma, UpdateKyma, ToggleKubeconfig, Change, SetKyma,
        KymaIsCreated, KymaIsDeleted, ModuleIsToggled, KymaIsLabelled,
        KubeconfigIsToggled
  <2>2. QED
    BY <2>1 DEF RecordInv
<1>4. CASE Worker
  BY <1>4, RecordCheckStatus, RecordRegister, RecordConfigure, RecordDeregister,
     RecordWrites
  DEF Worker
<1>5. QED
  BY <1>1, <1>2, <1>3, <1>4, RecordReconcile, RecordDeregister, RecordEnvironment
  DEF Next, Environment, Others

\* With registration enabled, no mapping ever claims to be registered without
\* the ID of a runtime: whatever the mapping cache hides from the reconciler,
\* and whoever changes, deletes or recreates Kymas and mappings meanwhile
\* (Reconcile, SetCompassMappingStatus, UpsertCompassMapping).
THEOREM RegisteredMappingHasID == Spec => []RegisteredHasID
<1>1. CASE EnabledRegistration
  <2>1. RecordInv => RegisteredHasID
    BY DEF RecordInv, CopyInv, RegisteredHasID
  <2>2. QED
    BY <1>1, <2>1, RecordInit, RecordStep, TypeCorrect, PTL DEF Spec
<1>2. CASE ~EnabledRegistration
  <2>1. RegisteredHasID
    BY <1>2 DEF RegisteredHasID
  <2>2. QED
    BY <2>1, PTL
<1>3. QED
  BY <1>1, <1>2

-----------------------------------------------------------------------------
(***************************************************************************)
(* OwnerInv.                                                               *)
(***************************************************************************)
\* Where no runtime, no agent and no copy of a mapping changes, OwnerInv is
\* about the job alone.
LEMMA OwnerMoves ==
  ASSUME OwnerInv, UNCHANGED <<cpVars, dirVars>>, Owns(job'.key, job'.id)
  PROVE  OwnerInv'
  BY DEF OwnerInv, Owns, Unused, cpVars, dirVars

\* When a call returns, its runtime ID is gone.
LEMMA ReturnForgets ==
  ASSUME NEW b, Return(b)
  PROVE  job'.id = NoID
  BY DEF Return, Idle

\* The step that sets a status no longer holds a runtime ID.
LEMMA SettingStatusForgets ==
  ASSUME NEW g, GoOn(SettingStatus(g))
  PROVE  job'.id = NoID
  BY DEF GoOn, SettingStatus, Idle

\* The steps that delete a mapping no longer hold a runtime ID.
LEMMA DeletingForgets ==
  ASSUME GoOn(DeletingMapping)
  PROVE  job'.id = NoID
  BY DEF GoOn, DeletingMapping, Idle

\* A write of an ID that belongs to its Kyma preserves OwnerInv.
LEMMA OwnerWrite ==
  ASSUME TypeOK, OwnerInv, NEW k \in Kymas, NEW m, NEW b, NEW o, Write(k, b, m, o),
         b => Owns(k, m.id), UNCHANGED dirVars,
         job' = Idle \/ (job'.key = job.key /\ job'.id = job.id)
  PROVE  OwnerInv'
<1>1. UNCHANGED <<runtimes, agent>> /\ CPTypeOK
  BY DEF dirVars, TypeOK
<1>2. \A j \in Kymas : /\ Owns(j, mapping'[j].id)
                       /\ Owns(j, mappingCache'[j].id)
  <2>1. CASE b /\ TookEffect(o)
    BY <1>1, <2>1 DEF Write, Put, CPTypeOK, OwnerInv
  <2>2. CASE ~(b /\ TookEffect(o))
    BY <2>2 DEF Write, cpVars, OwnerInv
  <2>3. QED
    BY <2>1, <2>2
<1>3. Owns(job'.key, job'.id)
  BY DEF OwnerInv, Owns, Idle
<1>4. QED
  BY <1>1, <1>2, <1>3 DEF OwnerInv, Owns, Unused

\* No ID is stored or under way at first.
LEMMA OwnerInit == Init => OwnerInv
  BY DEF Init, CPInit, DirInit, OwnerInv, Owns, Unused, UnusedRuntime, NoMapping,
         NoAgent, Idle

\* The ID of a new job is the one cached for the same Kyma.
LEMMA OwnerReconcile ==
  ASSUME TypeOK, OwnerInv, NEW k \in Kymas, Reconcile(k)
  PROVE  OwnerInv'
<1>1. UNCHANGED <<cpVars, dirVars>>
  BY DEF Reconcile
<1>2. \/ UNCHANGED job
      \/ job'.id = NoID
      \/ job'.key = k /\ job'.id = mappingCache[k].id
  BY DEF Reconcile, handleKymaDeletion, AwaitKubeconfig, NoGlobalAccount, Drop,
         Start, GetCompassRuntimeID, GetCompassMapping, Idle
<1>3. Owns(job'.key, job'.id)
  BY <1>2 DEF OwnerInv, Owns
<1>4. QED
  BY <1>1, <1>3, OwnerMoves

\* The steps that leave all but the job, the queue and the metrics alone keep
\* the job's runtime or forget it.
LEMMA OwnerJobSteps ==
  ASSUME TypeOK, OwnerInv, NEW o,
         CheckStatus \/ ReadMapping \/ ReadFails \/ FetchCompassToken(o)
  PROVE  OwnerInv'
<1>1. UNCHANGED <<cpVars, dirVars>> /\ job \in Job
  BY DEF CheckStatus, ReadMapping, ReadFails, FetchCompassToken, TypeOK, WorkTypeOK
<1>2. job'.id = NoID \/ (job'.key = job.key /\ job'.id = job.id)
  <2>1. \/ \E b : Return(b)
        \/ \E g : GoOn(SettingStatus(g))
        \/ \E p : GoOn([job EXCEPT !.pc = p])
        \/ \E p : GoOn([job EXCEPT !.pc = p, !.attempt = 0])
        \/ GoOn([job EXCEPT !.attempt = @ + 1])
        \/ \E p, b : GoOn([job EXCEPT !.pc = p, !.terminating = b])
    <3>1. CASE CheckStatus
      BY <3>1 DEF CheckStatus
    <3>2. CASE ReadMapping
      BY <3>2 DEF ReadMapping
    <3>3. CASE ReadFails
      BY <3>3 DEF ReadFails
    <3>4. CASE FetchCompassToken(o)
      BY <3>4 DEF FetchCompassToken, RetryOnError
    <3>5. QED
      BY <3>1, <3>2, <3>3, <3>4
  <2>2. \A p, b : \/ GoOn([job EXCEPT !.pc = p])
                  \/ GoOn([job EXCEPT !.pc = p, !.attempt = 0])
                  \/ GoOn([job EXCEPT !.attempt = @ + 1])
                  \/ GoOn([job EXCEPT !.pc = p, !.terminating = b])
                  => job'.key = job.key /\ job'.id = job.id
    BY <1>1 DEF GoOn, Job
  <2>3. QED
    BY <2>1, <2>2, ReturnForgets, SettingStatusForgets
<1>3. QED
  BY <1>1, <1>2, OwnerMoves DEF OwnerInv, Owns

\* What the steps that write mappings write, in terms of the IDs at hand.
LEMMA WrittenIDs ==
  ASSUME TypeOK, job.key \in Kymas, NEW o,
         \/ makeNewCompassMappingAndRequeue(o)
         \/ UpsertMapping(o)
         \/ SetStatus(o)
         \/ RemoveFinalizer(o)
         \/ DeleteCompassMapping(o)
  PROVE  \E b, n : /\ Write(job.key, b, n, o)
                   /\ n.id \in {NoID, mapping[job.key].id, mappingCache[job.key].id,
                                job.id}
<1> DEFINE m == mapping[job.key]
           c == mappingCache[job.key]
<1>1. m \in CompassManagerMapping /\ c \in CompassManagerMapping
  BY DEF TypeOK, CPTypeOK
<1>2. CASE makeNewCompassMappingAndRequeue(o)
  BY <1>2 DEF makeNewCompassMappingAndRequeue, CreateCompassMapping, NewMapping
<1>3. CASE UpsertMapping(o)
  <2>1. Upserted(job.key, job.id).id = job.id
    BY <1>1 DEF Upserted, GetCompassMapping, NewMapping, CompassManagerMapping
  <2>2. QED
    BY <1>3, <2>1 DEF UpsertMapping, UpsertCompassMapping
<1>4. CASE SetStatus(o)
  <2>1. [c EXCEPT !.status = MappingStatusOf(job.goal)].id = c.id
    BY <1>1 DEF CompassManagerMapping
  <2>2. QED
    BY <1>4, <2>1 DEF SetStatus, SetCompassMappingStatus, GetCompassMapping
<1>5. CASE RemoveFinalizer(o)
  <2>1. (IF c.deleting THEN NoMapping ELSE [c EXCEPT !.finalizer = FALSE]).id
          \in {NoID, c.id}
    BY <1>1 DEF NoMapping, CompassManagerMapping
  <2>2. QED
    BY <1>5, <2>1 DEF RemoveFinalizer, RemoveCMFinalizer, GetCompassMapping
<1>6. CASE DeleteCompassMapping(o)
  <2>1. Deleted(m).id \in {NoID, m.id}
    BY <1>1 DEF Deleted, NoMapping, CompassManagerMapping
  <2>2. QED
    BY <1>6, <2>1 DEF DeleteCompassMapping, DeleteMapping
<1>7. QED
  BY <1>2, <1>3, <1>4, <1>5, <1>6

\* The steps that write mappings write the ID of the job or none.
LEMMA OwnerWrites ==
  ASSUME TypeOK, OwnerInv, NEW o,
         \/ makeNewCompassMappingAndRequeue(o)
         \/ UpsertMapping(o)
         \/ SetStatus(o)
         \/ RemoveFinalizer(o)
         \/ DeleteCompassMapping(o)
  PROVE  OwnerInv'
<1> DEFINE k == job.key
           m == mapping[k]
           c == mappingCache[k]
<1>1. k \in Kymas /\ job \in Job /\ CPTypeOK
  BY NotIdle
  DEF TypeOK, WorkTypeOK, makeNewCompassMappingAndRequeue, UpsertMapping,
      SetStatus, RemoveFinalizer, DeleteCompassMapping, At
<1>2. Owns(k, m.id) /\ Owns(k, c.id) /\ Owns(k, job.id) /\ Owns(k, NoID)
  BY <1>1 DEF OwnerInv, Owns
<1>3. /\ job' = Idle \/ (job'.key = job.key /\ job'.id = job.id)
      /\ UNCHANGED dirVars
  BY <1>1
  DEF makeNewCompassMappingAndRequeue, UpsertMapping, SetStatus, RemoveFinalizer,
      DeleteCompassMapping, Return, GoOn, Job
<1>4. ASSUME NEW b, NEW n, Write(k, b, n, o), n.id \in {NoID, m.id, c.id, job.id}
      PROVE  OwnerInv'
  BY <1>1, <1>2, <1>3, <1>4, OwnerWrite
<1>5. PICK b, n : Write(k, b, n, o) /\ n.id \in {NoID, m.id, c.id, job.id}
  BY <1>1, WrittenIDs
<1>6. QED
  BY <1>4, <1>5

\* A new runtime has an unused ID, so no other Kyma holds it.
LEMMA OwnerRegister ==
  ASSUME TypeOK, OwnerInv, NEW o, NEW i \in RuntimeIDs, RegisterInCompass(o, i)
  PROVE  OwnerInv'
<1>1. /\ job.key \in Kymas /\ job \in Job /\ DirTypeOK
      /\ UNCHANGED <<cpVars, agent>>
  BY NotIdle DEF TypeOK, WorkTypeOK, RegisterInCompass, CreateRuntime, At
<1>2. \/ UNCHANGED runtimes
      \/ /\ runtimes[i].kyma = NoKyma
         /\ runtimes' = [runtimes EXCEPT ![i] =
              [state |-> "live", kyma |-> job.key, account |-> job.account]]
  BY DEF RegisterInCompass, CreateRuntime, OwnerInv
<1>3. ASSUME NEW k \in Kymas, NEW r \in RuntimeLabel, Owns(k, r)
      PROVE  Owns(k, r)'
  BY <1>1, <1>2, <1>3, LandscapeAssumption DEF Owns, RuntimeLabel, DirTypeOK
<1>4. \A r \in RuntimeIDs : Unused(r)' => runtimes'[r].kyma = NoKyma
  BY <1>1, <1>2 DEF OwnerInv, Unused, DirTypeOK
<1>5. \A k \in Kymas : /\ Owns(k, mapping[k].id)'
                       /\ Owns(k, mappingCache[k].id)'
                       /\ Owns(k, agent[k].id)'
  BY <1>1, <1>3
  DEF OwnerInv, cpVars, TypeOK, CPTypeOK, DirTypeOK, AgentSecret,
      CompassManagerMapping
<1>6. Owns(job.key, job.id)'
  <2>1. CASE o = "ok"
    <3>1. job'.key = job.key /\ job'.id = i
      BY <2>1 DEF RegisterInCompass, GoOn, Idle
    <3>2. runtimes'[i].kyma = job.key
      BY <1>1, <2>1 DEF RegisterInCompass, CreateRuntime, TookEffect, DirTypeOK
    <3>3. QED
      BY <3>1, <3>2 DEF Owns
  <2>2. CASE o # "ok"
    <3>1. job'.id = NoID \/ (job'.key = job.key /\ job'.id = job.id)
      BY <1>1, <2>2 DEF RegisterInCompass, RetryOnError, SettingStatus, GoOn, Idle, Job
    <3>2. job.id \in RuntimeLabel /\ Owns(job.key, job.id)
      BY <1>1 DEF Job, OwnerInv
    <3>3. QED
      BY <1>1, <1>3, <3>1, <3>2 DEF Owns
  <2>3. QED
    BY <2>1, <2>2
<1>7. QED
  BY <1>4, <1>5, <1>6 DEF OwnerInv

\* The agent gets the ID of the job.
LEMMA OwnerAgent ==
  ASSUME TypeOK, OwnerInv, NEW o, UpsertAgentSecret(o)
  PROVE  OwnerInv'
<1>1. job.key \in Kymas /\ Owns(job.key, job.id)
  BY NotIdle DEF TypeOK, UpsertAgentSecret, At, OwnerInv
<1>2. /\ UNCHANGED <<cpVars, runtimes>>
      /\ agent' = agent \/ agent' = [agent EXCEPT ![job.key] =
                                       [id |-> job.id, account |-> job.account]]
      /\ job'.id = NoID
  BY DEF UpsertAgentSecret, WriteAgentSecret, SettingStatus, GoOn, Idle
<1>3. \A k \in Kymas : Owns(k, agent'[k].id)
  BY <1>1, <1>2 DEF OwnerInv, TypeOK, DirTypeOK
<1>4. QED
  BY <1>2, <1>3 DEF OwnerInv, Owns, Unused, cpVars

\* A deregistered runtime still belongs to the Kyma it was made for.
LEMMA OwnerDeregister ==
  ASSUME TypeOK, OwnerInv, NEW o, DeregisterFromCompass(o)
  PROVE  OwnerInv'
<1>1. UNCHANGED <<cpVars, agent>> /\ job \in Job /\ DirTypeOK
  BY DEF DeregisterFromCompass, DeleteRuntime, TypeOK, WorkTypeOK
<1>2. \/ UNCHANGED runtimes
      \/ runtimes' = [runtimes EXCEPT ![job.id].state = "deleted"]
  BY DEF DeregisterFromCompass, DeleteRuntime
<1>3. ASSUME NEW r \in RuntimeIDs
      PROVE  runtimes'[r].kyma = runtimes[r].kyma /\ (Unused(r)' => Unused(r))
  BY <1>1, <1>2 DEF DirTypeOK, Runtime, Unused
<1>4. ASSUME NEW k, NEW r \in RuntimeLabel
      PROVE  Owns(k, r) <=> Owns(k, r)'
  BY <1>3 DEF Owns, RuntimeLabel
<1>5. job'.id = NoID \/ (job'.key = job.key /\ job'.id = job.id)
  <2>1. \/ Return(TRUE)
        \/ GoOn(DeletingMapping)
        \/ GoOn([job EXCEPT !.attempt = @ + 1])
    BY DEF DeregisterFromCompass, DirectorError, RetryOnError
  <2>2. GoOn([job EXCEPT !.attempt = @ + 1]) => job'.key = job.key /\ job'.id = job.id
    BY <1>1 DEF GoOn, Job
  <2>3. QED
    BY <2>1, <2>2, ReturnForgets, DeletingForgets
<1>6. Owns(job.key, job.id)'
  BY <1>1, <1>4, <1>5 DEF OwnerInv, Owns, Job
<1>7. \A k \in Kymas : /\ Owns(k, mapping[k].id)'
                       /\ Owns(k, mappingCache[k].id)'
                       /\ Owns(k, agent[k].id)'
  BY <1>1, <1>4
  DEF OwnerInv, cpVars, TypeOK, CPTypeOK, DirTypeOK, AgentSecret,
      CompassManagerMapping
<1>8. QED
  BY <1>3, <1>6, <1>7 DEF OwnerInv

\* Nobody else moves an ID from one Kyma to another.
LEMMA OwnerEnvironment ==
  ASSUME TypeOK, OwnerInv, NEW k \in Kymas,
         \/ \E m \in BOOLEAN, a \in AccountLabel : CreateKyma(k, m, a)
         \/ DeleteKyma(k)
         \/ UpdateKyma(k)
         \/ ToggleKubeconfig(k)
         \/ DeleteMappingByUser(k)
         \/ CatchUp(k)
  PROVE  OwnerInv'
<1>1. /\ UNCHANGED <<runtimes, job>>
      /\ \/ UNCHANGED agent
         \/ agent' = [agent EXCEPT ![k] = NoAgent]
  BY DEF CreateKyma, DeleteKyma, UpdateKyma, ToggleKubeconfig, DeleteMappingByUser,
         CatchUp, Change, dirVars, mgrVars
<1>2. \A j \in Kymas : Owns(j, agent'[j].id)
  BY <1>1 DEF OwnerInv, Owns, NoAgent, TypeOK, DirTypeOK
<1>3. \/ UNCHANGED <<mapping, mappingCache>>
      \/ Put(k, Deleted(mapping[k]))
      \/ WatchMapping(k)
  BY DEF CreateKyma, DeleteKyma, UpdateKyma, ToggleKubeconfig, DeleteMappingByUser,
         CatchUp, SetKyma, KymaIsCreated, KymaIsDeleted, ModuleIsToggled,
         KymaIsLabelled, KubeconfigIsToggled, MappingIsDeletedByUser
<1>4. Owns(k, Deleted(mapping[k]).id)
  BY DEF OwnerInv, Owns, Deleted, NoMapping, TypeOK, CPTypeOK, CompassManagerMapping
<1>5. \A j \in Kymas : Owns(j, mapping'[j].id) /\ Owns(j, mappingCache'[j].id)
  BY <1>3, <1>4 DEF Put, WatchMapping, OwnerInv, TypeOK, CPTypeOK
<1>6. QED
  BY <1>1, <1>2, <1>5 DEF OwnerInv, Owns, Unused

\* OwnerInv is inductive.
LEMMA OwnerStep == TypeOK /\ OwnerInv /\ [Next]_vars => OwnerInv'
<1> SUFFICES ASSUME TypeOK, OwnerInv, [Next]_vars
             PROVE  OwnerInv'
  OBVIOUS
<1>1. CASE UNCHANGED vars
  BY <1>1, OwnerMoves DEF vars, cpVars, dirVars, OwnerInv
<1>2. CASE Restart
  <2>1. /\ job' = Idle /\ mapping' = mapping /\ mappingCache' = mapping
        /\ UNCHANGED <<runtimes, agent>>
    BY <1>2 DEF Restart, dirVars
  <2>2. QED
    BY <2>1 DEF OwnerInv, Owns, Unused, Idle
<1>3. CASE Worker
  BY <1>3, OwnerJobSteps, OwnerWrites, OwnerRegister, OwnerAgent, OwnerDeregister
  DEF Worker
<1>4. CASE ReadFails
  BY <1>4, OwnerJobSteps
<1>5. QED
  BY <1>1, <1>2, <1>3, <1>4, OwnerReconcile, OwnerEnvironment
  DEF Next, Environment, Others

\* Two Kymas never share a runtime: every ID in a mapping or in the Secret of an
\* agent belongs to the Kyma it is stored for, although one worker serves all
\* Kymas and learns the IDs from a cache (RegisterInCompass,
\* UpsertCompassMapping, ConfigureCompassRuntimeAgent).
THEOREM RuntimesAreNotShared == Spec => []RuntimeBelongsToKyma
<1>1. OwnerInv => RuntimeBelongsToKyma
  BY DEF OwnerInv, Owns, RuntimeBelongsToKyma
<1>2. QED
  BY <1>1, OwnerInit, OwnerStep, TypeCorrect, PTL DEF Spec
=============================================================================
