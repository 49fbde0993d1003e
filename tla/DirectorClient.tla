---------------------------- MODULE DirectorClient ----------------------------
(***************************************************************************)
(* The client of the Compass Director: directorclient.go with the OAuth    *)
(* client, the GraphQL client, the errors it returns and the loop of       *)
(* util.RetryOnError that its callers put around it.  The worker of the    *)
(* reconciler is its only user, so there is one operation at a time.       *)
(*                                                                         *)
(* Time passes in ticks.  An instant is kept as the number of ticks until  *)
(* it comes: where the code has an Expiration in seconds and asks for the  *)
(* time of day, the model has what is left.                                *)
(***************************************************************************)
EXTENDS Integers, CompassDirector

CONSTANTS
  Attempts,   \* tries of an operation (registrator.go: attempts)
  Interval,   \* ticks between two tries (registrator.go: retryTime)
  Timeout,    \* ticks until an HTTP request is given up (30 s in both clients)
  Lifetime    \* ticks an access token is accepted (expires_in)

ASSUME ClientAssumption ==
  /\ Attempts \in Nat \ {0}
  /\ Interval \in Nat \ {0}
  /\ Timeout  \in Nat
  /\ Lifetime \in Nat

\* A token lives for longer than it takes to get it and use it.
ASSUME LifetimeAssumption == Lifetime > Timeout + Timeout

VARIABLES
  token,     \* cc.token: is it empty, and the ticks until its Expiration
  granted,   \* the same token at the server: ticks until it is refused
  call,      \* the operation and where its loop is
  exchange   \* the HTTP request on the way

clientVars == <<runtimes, agent, token, granted, call, exchange>>

-----------------------------------------------------------------------------
(***************************************************************************)
(* Errors of the Director (code "error_code" of its answers) and of the    *)
(* client (internal/apperrors).  Component, reason and text of an AppError *)
(* are left out: nothing decides on them.                                  *)
(***************************************************************************)
DirectorErrorTypes ==
  {"InternalError", "UnknownError", "NotFound", "NotUnique", "InvalidData",
   "InsufficientScopes", "TenantRequired", "TenantNotFound", "Unauthorized",
   "InvalidOperation", "Unrecognized", "NoErrorCode"}

AppError ==
  [code  : {"None", "BadGateway", "Internal", "BadRequest", "NotFound"},
   cause : {"None", "Unknown", "GlobalAccountNotFound", "RuntimeNotFound"}]

NoError              == [code |-> "None",       cause |-> "None"]
Internal             == [code |-> "Internal",   cause |-> "Unknown"]
BadGateway           == [code |-> "BadGateway", cause |-> "Unknown"]
BadRequest           == [code |-> "BadRequest", cause |-> "Unknown"]
NotFound             == [code |-> "NotFound",   cause |-> "RuntimeNotFound"]
InvalidGlobalAccount == [code |-> "BadRequest", cause |-> "GlobalAccountNotFound"]

\* Append, SetReason and SetComponent return a copy with code and cause kept.
Annotated(err) == err

mapDirectorErrorToProvisionerError(type, gracefulUnregistration) ==
  CASE type \in {"InternalError", "UnknownError"}            -> Internal
    [] type \in {"InsufficientScopes", "Unauthorized"}       -> BadGateway
    [] type = "NotFound" /\ gracefulUnregistration           -> NotFound
    [] type = "NotFound" /\ ~gracefulUnregistration          -> BadRequest
    [] type \in {"NotUnique", "InvalidData", "InvalidOperation"} -> BadRequest
    [] type \in {"TenantRequired", "TenantNotFound"} -> InvalidGlobalAccount
    [] OTHER                                                 -> Internal

(***************************************************************************)
(* An answer of the Director as the GraphQL client hands it on.            *)
(***************************************************************************)
Answer == [kind : DirectorErrorTypes \cup {"none", "nil", "result"},
           id   : RuntimeLabel]

Unanswered  == [kind |-> "none",   id |-> NoID]  \* nothing, or not JSON
NilResult   == [kind |-> "nil",    id |-> NoID]  \* JSON without a result
Result(i)   == [kind |-> "result", id |-> i]     \* NoID: not a UUID
ErrorOf(t)  == [kind |-> t,        id |-> NoID]

\* What executeDirectorGraphQLCall returns once the GraphQL client is back.
GraphQLError(answer, gracefulUnregistration) ==
  IF answer.kind \in {"result", "nil"} THEN NoError
  ELSE IF answer.kind = "none" THEN Internal
  ELSE Annotated(mapDirectorErrorToProvisionerError(answer.kind,
                                                    gracefulUnregistration))

CreateRuntimeError(answer) ==
  LET err == GraphQLError(answer, FALSE)
  IN IF err # NoError THEN Annotated(err)
     ELSE IF answer.kind = "nil" \/ answer.id = NoID THEN Internal
     ELSE NoError

GetConnectionTokenError(answer) ==
  LET err == GraphQLError(answer, FALSE)
  IN IF err # NoError THEN Annotated(err)
     ELSE IF answer.kind = "nil" THEN Internal
     ELSE NoError

GetRuntimeError(compassID, answer) ==
  LET err == GraphQLError(answer, FALSE)
  IN IF err # NoError THEN Annotated(err)
     ELSE IF answer.kind = "nil" \/ answer.id # compassID THEN Internal
     ELSE NoError

\* Mutant: the check for a nil result is missing.
DeleteRuntimeErrorWithoutNilCheck(compassID, answer) ==
  LET err == GraphQLError(answer, TRUE)
  IN IF err.cause = "RuntimeNotFound" THEN NoError
     ELSE IF err # NoError THEN Annotated(err)
     ELSE IF answer.kind = "result" /\ answer.id # compassID THEN Internal
     ELSE NoError

DeleteRuntimeError(compassID, answer) ==
  LET err == GraphQLError(answer, TRUE)
  IN IF err.cause = "RuntimeNotFound" THEN NoError
     ELSE IF err # NoError THEN Annotated(err)
     ELSE IF answer.kind = "nil" \/ answer.id # compassID THEN Internal
     ELSE NoError

-----------------------------------------------------------------------------
(***************************************************************************)
(* State.                                                                  *)
(***************************************************************************)
Token   == [empty : BOOLEAN, left : -1 .. Lifetime]  \* -1: it is over
Granted == [left : 0 .. Lifetime, revoked : BOOLEAN]

ClientCall ==
  [pc      : {"idle", "try", "token", "request", "answer", "sleep"},
   op      : {"none", "CreateRuntime", "GetRuntime", "GetConnectionToken",
              "DeleteRuntime"},
   kyma    : Kymas \cup {NoKyma},
   account : AccountLabel,
   id      : RuntimeLabel,         \* compassID, or the ID CreateRuntime returns
   attempt : 0 .. (Attempts - 1),  \* i of RetryOnError
   ok      : BOOLEAN]              \* how the last operation ended

Exchange ==
  [age     : 0 .. (Timeout + Interval),  \* ticks since it began
   answer  : Answer,
   changed : RuntimeLabel,  \* the runtime the Director created or deleted
   named   : RuntimeLabel,  \* the runtime that has the name of this operation
   expired : BOOLEAN]       \* the last request came with an expired token

ClientTypeOK ==
  /\ DirTypeOK
  /\ token    \in Token
  /\ granted  \in Granted
  /\ call     \in ClientCall
  /\ exchange \in Exchange

\* NewDirectorClient: the token is empty.
ClientInit ==
  /\ DirInit
  /\ token    = [empty |-> TRUE, left |-> -1]
  /\ granted  = [left |-> 0, revoked |-> FALSE]
  /\ call     = [pc |-> "idle", op |-> "none", kyma |-> NoKyma,
                 account |-> NoAccount, id |-> NoID, attempt |-> 0,
                 ok |-> FALSE]
  /\ exchange = [age |-> 0, answer |-> Unanswered, changed |-> NoID,
                 named |-> NoID, expired |-> FALSE]

At(step) == call.pc = step

\* Mutant: expired tokens are kept.
EmptyOnly(t) == t.empty

EmptyOrExpired(t) == t.empty \/ t.left < 0

-----------------------------------------------------------------------------
(***************************************************************************)
(* The loop of RetryOnError.  It sleeps after the last attempt, too.       *)
(***************************************************************************)
Begin(op, k, a, i) ==
  /\ At("idle")
  /\ call' = [pc |-> "try", op |-> op, kyma |-> k, account |-> a, id |-> i,
              attempt |-> 0, ok |-> FALSE]
  /\ exchange' = [exchange EXCEPT !.named = NoID]
  /\ UNCHANGED <<dirVars, token, granted>>

\* RegisterInCompass, fetchCompassToken, DeregisterFromCompass.  Nothing calls
\* GetRuntime yet; it is shown in the same loop as the others.
Operation ==
  \/ \E k \in Kymas, a \in Accounts : Begin("CreateRuntime", k, a, NoID)
  \/ \E a \in AccountLabel, i \in RuntimeLabel :
       \/ Begin("GetConnectionToken", NoKyma, a, i)
       \/ Begin("GetRuntime", NoKyma, a, i)
       \/ i # NoID /\ Begin("DeleteRuntime", NoKyma, a, i)

Send(step) ==
  /\ call' = [call EXCEPT !.pc = step]
  /\ exchange' = [exchange EXCEPT !.age = 0, !.answer = Unanswered,
                                  !.changed = NoID]

AttemptSucceeds(i) ==
  /\ call' = [call EXCEPT !.pc = "idle", !.id = i, !.ok = TRUE]
  /\ exchange' = [exchange EXCEPT !.age = 0, !.answer = Unanswered,
                                  !.changed = NoID]

AttemptFails ==
  /\ call' = [call EXCEPT !.pc = "sleep"]
  /\ exchange' = [exchange EXCEPT !.age = 0, !.answer = Unanswered,
                                  !.changed = NoID,
                                  !.expired = @ /\ ~At("request")]

\* Mutant: one attempt more than the bound.
LastAttemptOffByOne(n) == n = Attempts

LastAttempt(n) == n + 1 = Attempts

Wake ==
  /\ At("sleep") /\ exchange.age >= Interval
  /\ call' = IF LastAttempt(call.attempt)
             THEN [call EXCEPT !.pc = "idle"]
             ELSE [call EXCEPT !.pc = "try", !.attempt = @ + 1]
  /\ exchange' = [exchange EXCEPT !.age = 0]
  /\ UNCHANGED <<dirVars, token, granted>>

-----------------------------------------------------------------------------
(***************************************************************************)
(* executeDirectorGraphQLCall.                                             *)
(***************************************************************************)
executeDirectorGraphQLCall ==
  /\ At("try")
  /\ Send(IF EmptyOrExpired(token) THEN "token" ELSE "request")
  /\ UNCHANGED <<dirVars, token, granted>>

\* Mutant: the time is taken when the answer is there.
ExpirationFromAnswer(age) == Lifetime

\* now is taken before the request is sent: what is left counts from there.
Expiration(age) == Lifetime - age

(***************************************************************************)
(* getToken.  The server has issued the token some ticks ago, while the    *)
(* request was on its way.  Then the call of the Director goes on.         *)
(***************************************************************************)
getToken(ago) ==
  /\ At("token") /\ ago <= exchange.age
  /\ token' = [empty |-> FALSE, left |-> Expiration(exchange.age)]
  /\ ~EmptyOrExpired(token')
  /\ granted' = [left |-> Lifetime - ago, revoked |-> FALSE]
  /\ Send("request")
  /\ UNCHANGED dirVars

\* No token, an empty one, or one whose expires_in is over.
NoTokenObtained ==
  /\ At("token")
  /\ AttemptFails
  /\ UNCHANGED <<dirVars, token, granted>>

-----------------------------------------------------------------------------
(***************************************************************************)
(* The Director, when the request reaches it.                              *)
(***************************************************************************)
Accepted == granted.left > 0 /\ ~granted.revoked

Answers(answer, changed) ==
  /\ call' = [call EXCEPT !.pc = "answer"]
  /\ exchange' = [exchange EXCEPT !.answer = answer, !.changed = changed,
                    !.named = IF call.op = "CreateRuntime" /\ changed # NoID
                              THEN changed ELSE @,
                    !.expired = granted.left = 0 /\ ~granted.revoked]
  /\ UNCHANGED <<token, granted>>

\* The answer to a request that has been carried out can be of no use.
Spoiled == {NilResult, Result(NoID), ErrorOf("InternalError")}

DirectorCreates(i) ==
  /\ At("request") /\ Accepted /\ call.op = "CreateRuntime"
  /\ exchange.named = NoID
  /\ CreateRuntime(i, call.kyma, call.account, "ok")
  /\ \E answer \in {Result(i)} \cup Spoiled : Answers(answer, i)

DirectorDeletes ==
  /\ At("request") /\ Accepted /\ call.op = "DeleteRuntime"
  /\ Knows(call.id, call.account)
  /\ DeleteRuntime(call.id, call.account, "ok")
  /\ \E answer \in {Result(call.id)} \cup Spoiled : Answers(answer, call.id)

\* A connection token is issued, or the runtime is shown.
DirectorIssuesToken ==
  /\ At("request") /\ Accepted /\ call.op \in {"GetConnectionToken", "GetRuntime"}
  /\ Knows(call.id, call.account)
  /\ \E answer \in {Result(call.id)} \cup Spoiled : Answers(answer, NoID)
  /\ UNCHANGED dirVars

\* Refusals that follow from the request, and errors of the Director itself.
Refusals ==
  CASE ~Accepted                     -> {ErrorOf("Unauthorized"), NilResult}
    [] Accepted /\ call.account = NoAccount -> {ErrorOf("TenantRequired")}
    [] Accepted /\ call.account # NoAccount /\ call.op = "CreateRuntime" ->
         IF exchange.named = NoID THEN {} ELSE {ErrorOf("NotUnique")}
    [] OTHER ->
         IF Knows(call.id, call.account) THEN {} ELSE {ErrorOf("NotFound")}

Failures ==
  {NilResult} \cup
  { ErrorOf(t) : t \in DirectorErrorTypes \ {"NotFound", "NotUnique"} }

DirectorRefuses ==
  /\ At("request")
  /\ \E answer \in Refusals \cup Failures : Answers(answer, NoID)
  /\ UNCHANGED dirVars

-----------------------------------------------------------------------------
(***************************************************************************)
(* The answer arrives, or the attempt ends without one.                    *)
(***************************************************************************)
CallError ==
  CASE call.op = "CreateRuntime"      -> CreateRuntimeError(exchange.answer)
    [] call.op = "GetRuntime"         -> GetRuntimeError(call.id, exchange.answer)
    [] call.op = "GetConnectionToken" -> GetConnectionTokenError(exchange.answer)
    [] call.op = "DeleteRuntime"      -> DeleteRuntimeError(call.id, exchange.answer)

ReceiveAnswer ==
  /\ At("answer")
  /\ IF CallError # NoError THEN AttemptFails
     ELSE AttemptSucceeds(IF call.op = "CreateRuntime" THEN exchange.answer.id
                          ELSE call.id)
  /\ UNCHANGED <<dirVars, token, granted>>

InFlight == call.pc \in {"token", "request", "answer"}

\* Mutant: the HTTP clients have no timeout.
NeverTimedOut(age) == FALSE

TimedOut(age) == age = Timeout

Do(broken) ==
  /\ InFlight
  /\ broken \/ TimedOut(exchange.age)
  /\ AttemptFails
  /\ UNCHANGED <<dirVars, token, granted>>

\* The server stops accepting the token before its time.
Revoke ==
  /\ granted.left > 0
  /\ granted' = [granted EXCEPT !.revoked = TRUE]
  /\ UNCHANGED <<dirVars, token, call, exchange>>

\* Time passes, but not beyond the timeout of a request.
Tick ==
  /\ InFlight => exchange.age < Timeout
  /\ token'   = [token EXCEPT !.left = IF @ < 0 THEN -1 ELSE @ - 1]
  /\ granted' = [granted EXCEPT !.left = IF @ = 0 THEN 0 ELSE @ - 1]
  /\ exchange' = [exchange EXCEPT !.age =
                    IF InFlight \/ (At("sleep") /\ @ < Interval)
                    THEN @ + 1 ELSE @]
  /\ UNCHANGED <<dirVars, call>>

-----------------------------------------------------------------------------
ClientNext ==
  \/ Operation
  \/ executeDirectorGraphQLCall
  \/ \E ago \in 0 .. Timeout : getToken(ago)
  \/ NoTokenObtained
  \/ \E i \in RuntimeIDs : DirectorCreates(i)
  \/ DirectorDeletes
  \/ DirectorIssuesToken
  \/ DirectorRefuses
  \/ ReceiveAnswer
  \/ \E broken \in BOOLEAN : Do(broken)
  \/ Wake
  \/ Revoke
  \/ Tick

ClientSpec == ClientInit /\ [][ClientNext]_clientVars

(***************************************************************************)
(* Time passes and the worker goes on; an operation that has failed is     *)
(* called again, because its request is requeued; the OAuth server does    *)
(* not let every request for a token fail.  Nothing is assumed of the      *)
(* Director, nor that any answer of it arrives.                            *)
(***************************************************************************)
ClientFairness ==
  /\ SF_clientVars(Tick)
  /\ WF_clientVars(executeDirectorGraphQLCall)
  /\ WF_clientVars(Wake)
  /\ WF_clientVars(Do(FALSE))
  /\ WF_clientVars(~call.ok /\ Operation)
  /\ SF_clientVars(\E ago \in 0 .. Timeout : getToken(ago))

FairClientSpec == ClientSpec /\ ClientFairness

-----------------------------------------------------------------------------
(***************************************************************************)
(* Safety.                                                                 *)
(***************************************************************************)
\* An access token that expires on its way to the Director costs one attempt
\* and no more: the request after the refused one carries a token that the
\* server does not take for expired.  It needs that the client never believes
\* in a token for longer than the server (GetAuthorizationToken takes the time
\* before its request) and that RetryOnError sleeps between two attempts.
ExpiryCostsOneAttempt == At("request") /\ exchange.expired => granted.left > 0

(***************************************************************************)
(* The client implements the calls that the reconciler is modelled with.   *)
(* A call takes place when its attempt ends: until then the Director is    *)
(* shown as it was before the request.                                     *)
(***************************************************************************)
BeforeRequest ==
  IF exchange.changed = NoID THEN runtimes
  ELSE [runtimes EXCEPT ![exchange.changed] =
          IF call.op = "CreateRuntime" THEN UnusedRuntime
          ELSE [@ EXCEPT !.state = "live"]]

CallSoFar ==
  [op |-> call.op, kyma |-> call.kyma, account |-> call.account, id |-> call.id,
   result |-> IF InFlight \/ At("try") THEN "pending"
              ELSE IF call.ok THEN "ok" ELSE "error"]

Calls == INSTANCE DirectorCalls WITH runtimes <- BeforeRequest, call <- CallSoFar

\* However tokens, requests, answers and timeouts interleave, each attempt is
\* for its caller one step with one of the three Outcomes: it reports success
\* only when the Director has done what was asked, or had done it before
\* (CreateRuntime, GetRuntime, GetConnectionToken and DeleteRuntime of
\* directorclient.go).
CallsAreOutcomes == Calls!CallsSpec

(***************************************************************************)
(* Liveness, under FairClientSpec.                                         *)
(***************************************************************************)
\* Every operation returns, also when neither the Director nor the network
\* ever answers: the timeouts of both HTTP clients and the bound of
\* RetryOnError see to it.  The fairness of the reconciler's worker rests on
\* this.
OperationEnds == ~At("idle") ~> At("idle")

\* A token that the server has stopped accepting does not lock out for ever a
\* manager whose operation fails: no answer of the Director makes the client
\* drop it, but it is replaced when its time is over (EmptyOrExpired, getToken).
LockoutEnds == granted.revoked ~> ~granted.revoked \/ call.ok
=============================================================================
