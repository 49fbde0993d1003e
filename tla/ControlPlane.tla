---------------------------- MODULE ControlPlane ----------------------------
(***************************************************************************)
(* The part of the Kyma Control Plane that compass-manager works on: Kyma  *)
(* custom resources and kubeconfig Secrets, which others write and it only *)
(* reads, and CompassManagerMappings, which it owns.  All reads go through *)
(* ControlPlaneInterface (controllers/compassmanager_controller.go), whose *)
(* client answers from informer caches; all writes go to the API server.   *)
(***************************************************************************)
EXTENDS Landscape, MappingStatus

CONSTANT
  Disturbances   \* which of AllDisturbances this instance allows

AllDisturbances ==
  { "cacheLag",      \* the mapping cache is behind the API server after a write
    "accountMove",   \* the global account label of a Kyma changes its value
    "lateLabel",     \* a Kyma is created before it has the label
    "recreate" }     \* a Kyma is created again under the name of a deleted one

ASSUME DisturbancesAssumption == Disturbances \subseteq AllDisturbances

VARIABLES
  kyma,         \* Kyma CRs by name, as the cache of the manager shows them
  kubeconfig,   \* is there a Secret with a kubeconfig for the Kyma?
  mapping,      \* CompassManagerMappings by Kyma name, at the API server
  mappingCache  \* the same as the manager's client reads them

cpVars == <<kyma, kubeconfig, mapping, mappingCache>>

(***************************************************************************)
(* Types.                                                                  *)
(***************************************************************************)
KymaCR ==
  [phase   : {"absent", "present", "deleted"},
   module  : BOOLEAN,          \* application-connector is in Status.Modules
   account : AccountLabel]

AbsentKyma  == [phase |-> "absent",  module |-> FALSE, account |-> NoAccount]
DeletedKyma == [phase |-> "deleted", module |-> FALSE, account |-> NoAccount]

CompassManagerMapping ==
  [exists    : BOOLEAN,
   id        : RuntimeLabel,   \* label kyma-project.io/compass-runtime-id
   account   : AccountLabel,   \* label kyma-project.io/global-account-id
   status    : CompassManagerMappingStatus,
   finalizer : BOOLEAN,        \* kyma-project.io/cm-protection is set
   deleting  : BOOLEAN]        \* DeletionTimestamp is set

NoMapping ==
  [exists |-> FALSE, id |-> NoID, account |-> NoAccount,
   status |-> EmptyMappingStatus, finalizer |-> FALSE, deleting |-> FALSE]

\* Mutant: the finalizer is forgotten.
UnprotectedMapping(id, account) ==
  [exists |-> TRUE, id |-> id, account |-> account,
   status |-> EmptyMappingStatus, finalizer |-> FALSE, deleting |-> FALSE]

\* What Create sends: all labels and the finalizer, no status.
NewMapping(id, account) ==
  [exists |-> TRUE, id |-> id, account |-> account,
   status |-> EmptyMappingStatus, finalizer |-> TRUE, deleting |-> FALSE]

CPTypeOK ==
  /\ kyma         \in [Kymas -> KymaCR]
  /\ kubeconfig   \in [Kymas -> BOOLEAN]
  /\ mapping      \in [Kymas -> CompassManagerMapping]
  /\ mappingCache \in [Kymas -> CompassManagerMapping]

(***************************************************************************)
(* The manager may start before or after the Kymas and the kubeconfigs are *)
(* there; no mapping exists before it has run.                             *)
(***************************************************************************)
CPInit ==
  /\ kyma \in [Kymas -> {AbsentKyma} \cup
                        { c \in KymaCR : /\ c.phase = "present"
                                         /\ \/ c.account # NoAccount
                                            \/ "lateLabel" \in Disturbances }]
  /\ kubeconfig   \in [Kymas -> BOOLEAN]
  /\ mapping      = [k \in Kymas |-> NoMapping]
  /\ mappingCache = [k \in Kymas |-> NoMapping]

-----------------------------------------------------------------------------
(***************************************************************************)
(* What others do to Kymas, Secrets and mappings.                          *)
(***************************************************************************)
\* Mutant: a Kyma without the module is handled like a deleted one.
PresentWithModule(k) == kyma[k].phase = "present" /\ kyma[k].module

Present(k) == kyma[k].phase = "present"

SetKyma(k, c) ==
  /\ kyma' = [kyma EXCEPT ![k] = c]
  /\ UNCHANGED <<kubeconfig, mapping, mappingCache>>

KymaIsCreated(k, m, a) ==
  /\ \/ kyma[k].phase = "absent"
     \/ kyma[k].phase = "deleted" /\ "recreate" \in Disturbances
  /\ a = NoAccount => "lateLabel" \in Disturbances
  /\ SetKyma(k, [phase |-> "present", module |-> m, account |-> a])

KymaIsDeleted(k) == Present(k) /\ SetKyma(k, DeletedKyma)

ModuleIsToggled(k) ==
  /\ Present(k)
  /\ SetKyma(k, [kyma[k] EXCEPT !.module = ~@])

KymaIsLabelled(k, a) ==
  /\ Present(k)
  /\ a \notin {NoAccount, kyma[k].account}
  /\ kyma[k].account = NoAccount \/ "accountMove" \in Disturbances
  /\ SetKyma(k, [kyma[k] EXCEPT !.account = a])

KubeconfigIsToggled(k) ==
  /\ kubeconfig' = [kubeconfig EXCEPT ![k] = ~@]
  /\ UNCHANGED <<kyma, mapping, mappingCache>>

-----------------------------------------------------------------------------
\* Mutant: the label selector is missing from the List call.
GetAnyCompassMapping(k) ==
  IF \E j \in Kymas : mappingCache[j].exists
  THEN mappingCache[CHOOSE j \in Kymas : mappingCache[j].exists]
  ELSE NoMapping

\* The mapping of a Kyma as the client shows it; ~exists stands for NotFound.
GetCompassMapping(k) == mappingCache[k]

GetCompassRuntimeID(k) == GetCompassMapping(k).id

(***************************************************************************)
(* Writing mappings.  A write that starts from a mapping the client has    *)
(* read carries its resourceVersion, and the API server refuses it when    *)
(* the mapping has changed since.                                          *)
(***************************************************************************)
Put(k, m) ==
  /\ mapping' = [mapping EXCEPT ![k] = m]
  /\ mappingCache' = IF "cacheLag" \in Disturbances THEN mappingCache
                     ELSE [mappingCache EXCEPT ![k] = m]
  /\ UNCHANGED <<kyma, kubeconfig>>

Write(k, accepted, m, o) ==
  IF accepted /\ TookEffect(o) THEN Put(k, m) ELSE UNCHANGED cpVars

Updatable(k) == GetCompassMapping(k).exists /\ GetCompassMapping(k) = mapping[k]

Creatable(k) == ~mapping[k].exists

\* The watch of the mapping cache catches up.
WatchMapping(k) ==
  /\ mappingCache[k] # mapping[k]
  /\ mappingCache' = [mappingCache EXCEPT ![k] = mapping[k]]
  /\ UNCHANGED <<kyma, kubeconfig, mapping>>

\* Delete at the API server: an object with a finalizer only gets its
\* DeletionTimestamp.
Deleted(m) == IF m.finalizer THEN [m EXCEPT !.deleting = TRUE] ELSE NoMapping

MappingIsDeletedByUser(k) ==
  /\ mapping[k].exists
  /\ ~mapping[k].deleting
  /\ Put(k, Deleted(mapping[k]))

-----------------------------------------------------------------------------
(***************************************************************************)
(* ControlPlaneInterface.  The operations that read and then write do both *)
(* in one step: between the two only the API server's copy can change, and *)
(* a write that then meets a changed mapping fails exactly as one that     *)
(* starts from a stale cache.  Create and Upsert read the Kyma before: a   *)
(* change of it in between has no effect on the write, nor the write on it,*)
(* so it is as if it came just after the write.                            *)
(***************************************************************************)
CreateAccepted(k) == Present(k) /\ Creatable(k)

CreateCompassMapping(k, o) ==
  Write(k, CreateAccepted(k), NewMapping(NoID, kyma[k].account), o)

UpsertAccepted(k) ==
  /\ Present(k)
  /\ IF GetCompassMapping(k).exists THEN Updatable(k) ELSE Creatable(k)

\* All labels are replaced; finalizers and status are left as they are.
Upserted(k, id) ==
  IF GetCompassMapping(k).exists
  THEN [GetCompassMapping(k) EXCEPT !.id = id, !.account = kyma[k].account]
  ELSE NewMapping(id, kyma[k].account)

UpsertCompassMapping(k, id, o) == Write(k, UpsertAccepted(k), Upserted(k, id), o)

SetCompassMappingStatus(k, status, o) ==
  Write(k, Updatable(k),
        [GetCompassMapping(k) EXCEPT !.status = MappingStatusOf(status)], o)

\* Removing the last finalizer of an object that is being deleted ends it.
RemoveCMFinalizer(k, o) ==
  Write(k, Updatable(k),
        IF GetCompassMapping(k).deleting THEN NoMapping
        ELSE [GetCompassMapping(k) EXCEPT !.finalizer = FALSE], o)

\* Delete of the mapping read before: by name, without a resourceVersion.
DeleteMapping(k, o) == Write(k, mapping[k].exists, Deleted(mapping[k]), o)
=============================================================================
