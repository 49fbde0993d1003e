---------------------------- MODULE Configuration ----------------------------
(***************************************************************************)
(* The manager under the two switches of main.go that change what it does: *)
(* APP_ENABLED_REGISTRATION and APP_DRYRUN.  A process reads them once, so *)
(* they change only when it is started again, and what the process before  *)
(* has written stays.  With APP_DRYRUN the DryRunner (controllers/         *)
(* dryrun.go) takes the place of Registrator and Configurator.             *)
(***************************************************************************)
EXTENDS CompassManager

CONSTANT
  DryIDs   \* UUIDs the DryRunner makes up; the Director never issues them

ASSUME DryIDsAssumption == DryIDs \subseteq RuntimeIDs

VARIABLES
  config,   \* the configuration of the running process
  dryLabel  \* is the label cm-dry-run set on the mapping of a Kyma?

configVars == <<vars, config, dryLabel>>

Config == [registration : BOOLEAN, dryRun : BOOLEAN]

On  == INSTANCE CompassManager WITH EnabledRegistration <- TRUE
Off == INSTANCE CompassManager WITH EnabledRegistration <- FALSE

ConfigTypeOK ==
  /\ TypeOK
  /\ config   \in Config
  /\ dryLabel \in [Kymas -> BOOLEAN]

ConfigInit ==
  /\ Init
  /\ config \in Config
  /\ dryLabel = [k \in Kymas |-> FALSE]

-----------------------------------------------------------------------------
\* Mutant: labels that are there already are kept.
KeptDryLabel(k) == config.dryRun \/ dryLabel[k]

\* Create and Upsert send a new set of labels, with or without cm-dry-run.
DryLabel(k) == config.dryRun

LabelsWritten(accepted, o) ==
  dryLabel' = IF accepted /\ TookEffect(o)
              THEN [dryLabel EXCEPT ![job.key] = DryLabel(job.key)]
              ELSE dryLabel

(***************************************************************************)
(* DryRunner.  It neither calls the Director nor the cluster of the Kyma,  *)
(* and none of its operations fails.                                       *)
(***************************************************************************)
DryRegisterInCompass(i) ==
  /\ At("register")
  /\ i \in DryIDs
  /\ GoOn([Idle EXCEPT !.pc = "upsertMapping", !.key = job.key, !.id = i])
  /\ UpdateState(job.key, Registered \cup Processing)
  /\ UNCHANGED <<cpVars, dirVars, boundVars>>

DryConfigureCompassRuntimeAgent ==
  /\ At("fetchToken")
  /\ GoOn(SettingStatus(ConfigureResult(TRUE)))
  /\ UpdateState(job.key, ConfigureResult(TRUE))
  /\ UNCHANGED <<cpVars, dirVars, boundVars>>

DryDeregisterFromCompass ==
  /\ At("deregister")
  /\ GoOn(DeletingMapping)
  /\ UpdateState(job.key, Empty)
  /\ UNCHANGED <<cpVars, dirVars, boundVars>>

-----------------------------------------------------------------------------
\* The steps that end in a call of Registrator or Configurator.
CallsOutside ==
  \/ ~config.dryRun /\ \E o \in Outcomes :
       \/ \E i \in RuntimeIDs \ DryIDs : RegisterInCompass(o, i)
       \/ UpsertAgentSecret(o)
       \/ DeregisterFromCompass(o)
  \/ ~config.dryRun /\ \E o \in {"ok", "failed", "invalid"} : FetchCompassToken(o)
  \/ config.dryRun /\ \E i \in DryIDs : DryRegisterInCompass(i)
  \/ config.dryRun /\ DryConfigureCompassRuntimeAgent
  \/ config.dryRun /\ DryDeregisterFromCompass

\* The steps that only work on the control plane.
CallsInside ==
  \/ config.registration /\ On!CheckStatus /\ UNCHANGED dryLabel
  \/ ~config.registration /\ Off!CheckStatus /\ UNCHANGED dryLabel
  \/ ReadMapping /\ UNCHANGED dryLabel
  \/ \E o \in Outcomes :
       \/ /\ makeNewCompassMappingAndRequeue(o)
          /\ LabelsWritten(CreateAccepted(job.key), o)
       \/ UpsertMapping(o) /\ LabelsWritten(UpsertAccepted(job.key), o)
       \/ SetStatus(o) /\ UNCHANGED dryLabel
       \/ RemoveFinalizer(o) /\ UNCHANGED dryLabel
       \/ DeleteCompassMapping(o) /\ UNCHANGED dryLabel

ConfiguredWorker ==
  /\ (CallsOutside /\ UNCHANGED dryLabel) \/ CallsInside
  /\ UNCHANGED config

\* main: the new process may have been given another configuration.
RestartWith(c) == Restart /\ config' = c /\ UNCHANGED dryLabel

ConfigNext ==
  \/ \E k \in Kymas : Reconcile(k) /\ UNCHANGED <<config, dryLabel>>
  \/ ConfiguredWorker
  \/ \E c \in Config : RestartWith(c)
  \/ \E k \in Kymas : CatchUp(k) /\ UNCHANGED <<config, dryLabel>>
  \/ Others /\ UNCHANGED <<config, dryLabel>>

ConfigSpec == ConfigInit /\ [][ConfigNext]_configVars

\* The fairness of CompassManager: the worker goes on, the queue hands out, a
\* watch is not behind for ever.
ConfigFairness ==
  /\ WF_configVars(ConfiguredWorker)
  /\ \A k \in Kymas :
       /\ SF_configVars(Reconcile(k) /\ UNCHANGED <<config, dryLabel>>)
       /\ WF_configVars(CatchUp(k) /\ UNCHANGED <<config, dryLabel>>)

FairConfigSpec == ConfigSpec /\ ConfigFairness

-----------------------------------------------------------------------------
\* An agent is only ever given an ID that the Director has issued for its Kyma,
\* together with the tenant it was issued under: neither the empty ID that is
\* there while registration is off, nor one made up in a dry run and found in the
\* mapping by a later process, nor, where accounts move, the right one under an
\* account that the Kyma has moved to since (CheckStatus hands on whatever ID is
\* recorded and the label of the Kyma; fetchCompassToken stops a wrong pair).
AgentsHaveIssuedIDs ==
  \A k \in Kymas :
    LET r == runtimes[agent[k].id]
    IN agent[k] # NoAgent =>
         /\ agent[k].id # NoID
         /\ r.state # "unused" /\ r.kyma = k /\ r.account = agent[k].account

\* The label cm-dry-run tells the IDs made up in a dry run from the others,
\* also when the mapping was created by a process with another configuration
\* than the one that wrote the ID ("CompassManagerMappings created with dry run
\* are labeled", README; UpsertCompassMapping replaces all labels).
DryLabelMarksDryIDs ==
  \A k \in Kymas :
    mapping[k].id # NoID => (dryLabel[k] <=> mapping[k].id \in DryIDs)

\* A Kyma that keeps the module, its label and its kubeconfig becomes Ready and
\* stays so, whatever the configuration was before: it suffices that the last
\* process registers, that no ID is left from a dry run, and that the model has
\* not run out of runtime IDs.
EventuallyReadyOnceEnabled ==
  \A k \in Kymas :
    <>[](/\ Eligible(k)
         /\ config = [registration |-> TRUE, dryRun |-> FALSE]
         /\ mapping[k].id \notin DryIDs
         /\ \E i \in RuntimeIDs \ DryIDs : Unused(i)) => <>[]Ready(k)
=============================================================================
