--------------------------- MODULE CompassDirector ---------------------------
(***************************************************************************)
(* What compass-manager works on outside the control plane: the runtimes   *)
(* that the Compass Director knows, and the Secret                         *)
(* compass-agent-configuration in the cluster of each Kyma.  The Director  *)
(* is not part of the repository; it is modelled from how                  *)
(* internal/director/directorclient.go calls it and reads its answers.     *)
(***************************************************************************)
EXTENDS Landscape

VARIABLES
  runtimes,  \* what the Director holds under each runtime ID
  agent      \* RUNTIME_ID and TENANT of the agent Secret of each Kyma

dirVars == <<runtimes, agent>>

Runtime ==
  [state   : {"unused", "live", "deleted"},
   kyma    : Kymas \cup {NoKyma},  \* the Kyma it was registered for
   account : AccountLabel]         \* the tenant it belongs to

UnusedRuntime == [state |-> "unused", kyma |-> NoKyma, account |-> NoAccount]

AgentSecret == [id : RuntimeLabel, account : AccountLabel]
NoAgent     == [id |-> NoID, account |-> NoAccount]

DirTypeOK ==
  /\ runtimes \in [RuntimeIDs -> Runtime]
  /\ agent    \in [Kymas -> AgentSecret]

DirInit ==
  /\ runtimes = [i \in RuntimeIDs |-> UnusedRuntime]
  /\ agent    = [k \in Kymas |-> NoAgent]

-----------------------------------------------------------------------------
Unused(i) == runtimes[i].state = "unused"
Live(i)   == i # NoID /\ runtimes[i].state = "live"

\* Does the Director find runtime i when asked in the name of tenant a?
Knows(i, a) == Live(i) /\ runtimes[i].account = a

(***************************************************************************)
(* CreateRuntime.  createRuntimeInput gives every registration a name of   *)
(* its own (a random suffix), so the Director never refuses it as a        *)
(* duplicate, and each call that takes effect adds a runtime.              *)
(***************************************************************************)
CreateRuntime(i, k, a, o) ==
  /\ IF TookEffect(o)
     THEN /\ Unused(i)
          /\ runtimes' = [runtimes EXCEPT
                            ![i] = [state |-> "live", kyma |-> k, account |-> a]]
     ELSE UNCHANGED runtimes
  /\ UNCHANGED agent

(***************************************************************************)
(* GetConnectionToken.  There is a one-time token only for a runtime that  *)
(* the Director finds.                                                     *)
(***************************************************************************)
\* Mutant: an error of the Director is taken for a token.
TokenIssuedForAny(i, a, o) == o = "ok"

TokenIssued(i, a, o) == o = "ok" /\ Knows(i, a)

(***************************************************************************)
(* DeleteRuntime.  The answer NotFound counts as success: the runtime was  *)
(* deleted before.  A call in the name of the wrong tenant also ends in    *)
(* NotFound; one without a tenant is an error.                             *)
(***************************************************************************)
DeleteSucceeds(a, o) == o = "ok" /\ a # NoAccount

DeleteRuntime(i, a, o) ==
  /\ runtimes' = IF Knows(i, a) /\ TookEffect(o)
                 THEN [runtimes EXCEPT ![i].state = "deleted"]
                 ELSE runtimes
  /\ UNCHANGED agent

(***************************************************************************)
(* upsertCompassRuntimeAgentSecret.  Whatever Get answers, one Create or   *)
(* one Update follows; the Secret is replaced as a whole.                  *)
(***************************************************************************)
WriteAgentSecret(k, i, a, o) ==
  /\ agent' = IF TookEffect(o)
              THEN [agent EXCEPT ![k] = [id |-> i, account |-> a]]
              ELSE agent
  /\ UNCHANGED runtimes
=============================================================================
