---------------------------- MODULE DirectorCalls ----------------------------
(***************************************************************************)
(* What the reconciler relies on when it calls director.Client             *)
(* (internal/director/directorclient.go): a call is one step with one of   *)
(* the Outcomes, and what it does to the Director is what CompassDirector  *)
(* says.  CompassManager is written in terms of these steps; the module    *)
(* DirectorClient shows the client, with its tokens, requests, answers and *)
(* timeouts, to be an implementation of them.                              *)
(***************************************************************************)
EXTENDS CompassDirector

VARIABLE call   \* the last call of the client and how it ended, if it did

callVars == <<runtimes, agent, call>>

Operations == {"none", "CreateRuntime", "GetRuntime", "GetConnectionToken",
               "DeleteRuntime"}

Call ==
  [op      : Operations,
   kyma    : Kymas \cup {NoKyma},   \* the Kyma a runtime is created for
   account : AccountLabel,          \* globalAccount
   id      : RuntimeLabel,          \* compassID; after CreateRuntime: the new ID
   result  : {"pending", "ok", "error"}]

NoCall ==
  [op |-> "none", kyma |-> NoKyma, account |-> NoAccount, id |-> NoID,
   result |-> "error"]

CallsTypeOK == DirTypeOK /\ call \in Call

CallsInit == DirInit /\ call = NoCall

Pending(op) == call.op = op /\ call.result = "pending"

\* A call, or another attempt of one, by Registrator or Configurator.
StartCall(op, k, a, i) ==
  /\ call.result # "pending"
  /\ call' = [op |-> op, kyma |-> k, account |-> a, id |-> i,
              result |-> "pending"]
  /\ UNCHANGED dirVars

EndCall(ok, i) ==
  call' = [call EXCEPT !.result = IF ok THEN "ok" ELSE "error",
                       !.id     = IF ok THEN i ELSE @]

CallCreateRuntime(i, o) ==
  /\ Pending("CreateRuntime")
  /\ CreateRuntime(i, call.kyma, call.account, o)
  /\ EndCall(o = "ok", i)

\* Nothing calls GetRuntime yet.  It needs what a connection token needs.
CallGetRuntime(o) ==
  /\ Pending("GetRuntime")
  /\ EndCall(TokenIssued(call.id, call.account, o), call.id)
  /\ UNCHANGED dirVars

CallGetConnectionToken(o) ==
  /\ Pending("GetConnectionToken")
  /\ EndCall(TokenIssued(call.id, call.account, o), call.id)
  /\ UNCHANGED dirVars

CallDeleteRuntime(o) ==
  /\ Pending("DeleteRuntime")
  /\ DeleteRuntime(call.id, call.account, o)
  /\ EndCall(DeleteSucceeds(call.account, o), call.id)

CallsNext ==
  \/ \E op \in Operations \ {"none"}, k \in Kymas \cup {NoKyma},
        a \in AccountLabel, i \in RuntimeLabel : StartCall(op, k, a, i)
  \/ \E o \in Outcomes :
       \/ \E i \in RuntimeIDs : CallCreateRuntime(i, o)
       \/ CallGetRuntime(o)
       \/ CallGetConnectionToken(o)
       \/ CallDeleteRuntime(o)

CallsSpec == CallsInit /\ [][CallsNext]_callVars
=============================================================================
