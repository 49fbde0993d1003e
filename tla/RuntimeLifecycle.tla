--------------------------- MODULE RuntimeLifecycle ---------------------------
(***************************************************************************)
(* What compass-manager promises about the runtimes of Kymas, without its  *)
(* queue, its calls and its mappings: a runtime is registered for a Kyma   *)
(* that has none on record, recorded, handed to the agent, deregistered    *)
(* when the Kyma is gone, and only then forgotten.  A runtime whose ID was *)
(* lost before it could be recorded stays as it is: nothing deregisters    *)
(* it.  The reconciler implements this as long as it reads what it has     *)
(* written, a Kyma keeps its global account and no name is used twice.     *)
(***************************************************************************)
EXTENDS CompassDirector

VARIABLES
  record,  \* the runtime ID on record for each Kyma
  gone     \* the Kymas that have been deleted

lifeVars == <<runtimes, agent, record, gone>>

LifeTypeOK ==
  /\ DirTypeOK
  /\ record \in [Kymas -> RuntimeLabel]
  /\ gone   \in SUBSET Kymas

LifeInit ==
  /\ DirInit
  /\ record = [k \in Kymas |-> NoID]
  /\ gone   = {}

RegisterRuntime(k, i, a) ==
  /\ record[k] = NoID
  /\ a # NoAccount
  /\ CreateRuntime(i, k, a, "ok")
  /\ UNCHANGED <<record, gone>>

RecordRuntime(k, i) ==
  /\ k \notin gone
  /\ record[k] = NoID
  /\ Live(i) /\ runtimes[i].kyma = k
  /\ record' = [record EXCEPT ![k] = i]
  /\ UNCHANGED <<dirVars, gone>>

ConnectAgent(k) ==
  /\ Live(record[k])
  /\ WriteAgentSecret(k, record[k], runtimes[record[k]].account, "ok")
  /\ UNCHANGED <<record, gone>>

KymaGoes(k) ==
  /\ gone' = gone \cup {k}
  /\ UNCHANGED <<dirVars, record>>

DeregisterRuntime(k) ==
  /\ k \in gone
  /\ Live(record[k])
  /\ DeleteRuntime(record[k], runtimes[record[k]].account, "ok")
  /\ UNCHANGED <<record, gone>>

ForgetRuntime(k) ==
  /\ k \in gone
  /\ ~Live(record[k])
  /\ record' = [record EXCEPT ![k] = NoID]
  /\ UNCHANGED <<dirVars, gone>>

LifeNext ==
  \E k \in Kymas :
    \/ \E i \in RuntimeIDs, a \in Accounts : RegisterRuntime(k, i, a)
    \/ \E i \in RuntimeIDs : RecordRuntime(k, i)
    \/ ConnectAgent(k)
    \/ KymaGoes(k)
    \/ DeregisterRuntime(k)
    \/ ForgetRuntime(k)

LifeSpec == LifeInit /\ [][LifeNext]_lifeVars
=============================================================================
