------------------------- MODULE DirectorClientProofs -------------------------
(***************************************************************************)
(* Types of the client of the Director, and what its handling of access    *)
(* tokens is worth, for any lifetime of a token, any timeout of a request, *)
(* any pause between two attempts and any number of them.                  *)
(***************************************************************************)
EXTENDS DirectorClient, TLAPS

\* The timeouts cut off what is on the way, and an operation has a kind.
PaceOK ==
  /\ InFlight => exchange.age <= Timeout
  /\ At("sleep") => exchange.age <= Interval
  /\ ~At("idle") => call.op # "none"

\* The client never believes in a token for longer than the server.
NeverOverrated == token.empty \/ token.left <= granted.left

\* Answers that do not end an operation with success.
Useless(answer) == answer.kind \notin {"result", "NotFound"}

\* After a request with an expired token there is no request with it again.
ExpiredIsReplaced ==
  exchange.expired =>
    /\ call.pc \in {"idle", "try", "token"} => EmptyOrExpired(token)
    /\ At("sleep") =>
         token.empty \/ token.left < 0 \/ (token.left <= 0 /\ exchange.age = 0)
    /\ At("answer") => granted.left = 0 /\ Useless(exchange.answer)
    /\ At("request") => granted.left >= Lifetime - Timeout - exchange.age

ClientInv == ClientTypeOK /\ PaceOK /\ NeverOverrated /\ ExpiredIsReplaced

-----------------------------------------------------------------------------
(***************************************************************************)
(* Types.                                                                  *)
(***************************************************************************)
\* The answers the Director can give are answers.
LEMMA AnswerTypes ==
  /\ {Unanswered, NilResult} \subseteq Answer
  /\ \A i \in RuntimeLabel : Result(i) \in Answer
  /\ \A t \in DirectorErrorTypes : ErrorOf(t) \in Answer
  /\ Spoiled \subseteq Answer
  /\ Refusals \subseteq Answer
  /\ Failures \subseteq Answer
<1>1. {"Unauthorized", "TenantRequired", "NotUnique", "NotFound", "InternalError"}
        \subseteq DirectorErrorTypes
  BY DEF DirectorErrorTypes
<1>2. /\ {Unanswered, NilResult} \subseteq Answer
      /\ \A i \in RuntimeLabel : Result(i) \in Answer
      /\ \A t \in DirectorErrorTypes : ErrorOf(t) \in Answer
      /\ NoID \in RuntimeLabel
  BY DEF Unanswered, NilResult, Result, ErrorOf, Answer, RuntimeLabel
<1>3. Spoiled \subseteq Answer
  BY <1>1, <1>2 DEF Spoiled
<1>4. Failures \subseteq Answer
  BY <1>2 DEF Failures
<1>5. Refusals \subseteq Answer
  BY <1>1, <1>2 DEF Refusals
<1>6. QED
  BY <1>2, <1>3, <1>4, <1>5

\* What a new request starts with.
LEMMA StartTypes ==
  /\ 0 \in 0 .. (Timeout + Interval) /\ 0 \in 0 .. (Attempts - 1)
  /\ NoID \in RuntimeLabel /\ Unanswered \in Answer
BY ClientAssumption, AnswerTypes DEF RuntimeLabel

\* The operation moves on to another step of it.
LEMMA CallMoves ==
  ASSUME call \in ClientCall, call.op # "none",
         NEW p \in {"idle", "try", "token", "request", "answer", "sleep"},
         call' = [call EXCEPT !.pc = p]
  PROVE  call' \in ClientCall /\ call'.pc = p /\ call'.op # "none"
BY DEF ClientCall

\* The request ends, or a new one begins.
LEMMA ExchangeStarts ==
  ASSUME exchange \in Exchange, NEW b \in BOOLEAN,
         exchange' = [exchange EXCEPT !.age = 0, !.answer = Unanswered,
                                      !.changed = NoID, !.expired = b]
  PROVE  exchange' \in Exchange /\ exchange'.age = 0
BY StartTypes DEF Exchange

\* What the operations of the Director do to it.
LEMMA DirectorTypes ==
  ASSUME DirTypeOK, NEW i \in RuntimeIDs
  PROVE  /\ \A k \in Kymas, a \in AccountLabel : CreateRuntime(i, k, a, "ok") => DirTypeOK'
         /\ \A a : DeleteRuntime(i, a, "ok") => DirTypeOK'
         /\ UNCHANGED dirVars => DirTypeOK'
  BY DEF DirTypeOK, CreateRuntime, DeleteRuntime, Runtime, TookEffect, dirVars

\* Types and pace, together: the types of the clocks rest on the timeouts.
ClientTypeInv == ClientTypeOK /\ PaceOK

\* The client starts with no token and no operation.
LEMMA ClientTypeInit == ClientInit => ClientTypeInv
<1> SUFFICES ASSUME ClientInit
             PROVE  ClientTypeInv
  OBVIOUS
<1>1. /\ 0 \in 0 .. (Attempts - 1) /\ 0 \in 0 .. (Timeout + Interval)
      /\ 0 \in 0 .. Lifetime /\ -1 \in -1 .. Lifetime
      /\ NoID \in RuntimeLabel /\ NoAccount \in AccountLabel
  BY ClientAssumption DEF RuntimeLabel, AccountLabel
<1>2. /\ token \in Token /\ granted \in Granted /\ call \in ClientCall
      /\ exchange \in Exchange
  BY <1>1, AnswerTypes
  DEF ClientInit, Token, Granted, ClientCall, Exchange
<1>3. DirTypeOK
  BY <1>1 DEF ClientInit, DirInit, DirTypeOK, Runtime, UnusedRuntime, AgentSecret, NoAgent
<1>4. PaceOK
  BY DEF ClientInit, PaceOK, InFlight, At
<1>5. QED
  BY <1>2, <1>3, <1>4 DEF ClientTypeInv, ClientTypeOK

\* A step that leaves the Director and the tokens alone.
LEMMA StepTypes ==
  ASSUME ClientTypeInv, UNCHANGED <<dirVars, token, granted>>,
         call' \in ClientCall, exchange' \in Exchange,
         call'.pc = "idle" \/ call'.op # "none",
         call'.pc \in {"token", "request", "answer"} => exchange'.age <= Timeout,
         call'.pc = "sleep" => exchange'.age <= Interval
  PROVE  ClientTypeInv'
<1>1. DirTypeOK' /\ token' \in Token /\ granted' \in Granted
  BY DEF ClientTypeInv, ClientTypeOK, DirTypeOK, dirVars
<1>2. PaceOK'
  BY DEF PaceOK, InFlight, At
<1>3. QED
  BY <1>1, <1>2 DEF ClientTypeInv, ClientTypeOK

\* A new operation, a new attempt of it, and its end.
LEMMA LoopTypes ==
  ASSUME ClientTypeInv, Operation \/ executeDirectorGraphQLCall \/ Wake
  PROVE  ClientTypeInv'
<1>1. /\ call \in ClientCall /\ exchange \in Exchange /\ PaceOK
      /\ NoID \in RuntimeLabel /\ 0 \in 0 .. (Timeout + Interval)
  BY ClientAssumption DEF ClientTypeInv, ClientTypeOK, RuntimeLabel
<1>2. UNCHANGED <<dirVars, token, granted>>
  BY DEF Operation, Begin, executeDirectorGraphQLCall, Wake
<1>3. CASE Operation
  <2>1. 0 \in 0 .. (Attempts - 1) /\ Accounts \subseteq AccountLabel
    BY ClientAssumption DEF AccountLabel
  <2>2. PICK op \in {"CreateRuntime", "GetRuntime", "GetConnectionToken", "DeleteRuntime"},
             k \in Kymas \cup {NoKyma}, a \in AccountLabel, i \in RuntimeLabel :
               Begin(op, k, a, i)
    BY <1>1, <1>3, <2>1 DEF Operation
  <2>3. call' \in ClientCall /\ call'.pc = "try" /\ call'.op # "none"
    BY <2>1, <2>2 DEF Begin, ClientCall
  <2>4. exchange' \in Exchange
    BY <1>1, <2>2 DEF Begin, Exchange
  <2>5. QED
    BY <1>2, <2>3, <2>4, StepTypes
<1>4. CASE executeDirectorGraphQLCall
  <2>1. PICK step \in {"token", "request"} : call' = [call EXCEPT !.pc = step]
    BY <1>4 DEF executeDirectorGraphQLCall, Send
  <2>2. /\ exchange' = [exchange EXCEPT !.age = 0, !.answer = Unanswered, !.changed = NoID]
        /\ call.op # "none"
    BY <1>1, <1>4 DEF executeDirectorGraphQLCall, Send, PaceOK, At
  <2>3. call' \in ClientCall /\ call'.pc = step /\ call'.op # "none"
    BY <1>1, <2>1, <2>2, CallMoves
  <2>4. exchange' \in Exchange /\ exchange'.age = 0
    BY <1>1, <2>2, StartTypes DEF Exchange
  <2>5. QED
    BY <1>2, <2>3, <2>4, ClientAssumption, StepTypes
<1>5. CASE Wake
  <2>1. /\ \/ call' = [call EXCEPT !.pc = "idle"]
           \/ /\ call.attempt + 1 # Attempts
              /\ call' = [call EXCEPT !.pc = "try", !.attempt = @ + 1]
        /\ exchange' = [exchange EXCEPT !.age = 0]
        /\ call.op # "none"
    BY <1>1, <1>5 DEF Wake, LastAttempt, PaceOK, At
  <2>2. exchange' \in Exchange
    BY <1>1, <2>1 DEF Exchange
  <2>3. ASSUME call.attempt + 1 # Attempts
        PROVE  call.attempt + 1 \in 0 .. (Attempts - 1)
    BY <1>1, <2>3, ClientAssumption DEF ClientCall
  <2>4. /\ call' \in ClientCall
        /\ call'.pc \in {"idle", "try"} /\ call'.op # "none"
    BY <1>1, <2>1, <2>3 DEF ClientCall
  <2>5. QED
    BY <1>2, <2>2, <2>4, StepTypes
<1>6. QED
  BY <1>3, <1>4, <1>5

\* Getting a token, or not.
LEMMA TokenTypes ==
  ASSUME ClientTypeInv, NoTokenObtained \/ \E ago \in 0 .. Timeout : getToken(ago)
  PROVE  ClientTypeInv'
<1>1. /\ call \in ClientCall /\ exchange \in Exchange /\ call.pc = "token"
      /\ call.op # "none" /\ exchange.age \in 0 .. Timeout
  BY ClientAssumption
  DEF ClientTypeInv, ClientTypeOK, PaceOK, InFlight, NoTokenObtained, getToken, At, Exchange
<1>2. CASE NoTokenObtained
  <2>1. /\ call' = [call EXCEPT !.pc = "sleep"]
        /\ exchange' = [exchange EXCEPT !.age = 0, !.answer = Unanswered,
                          !.changed = NoID, !.expired = @ /\ ~At("request")]
        /\ UNCHANGED <<dirVars, token, granted>>
    BY <1>2 DEF NoTokenObtained, AttemptFails
  <2>2. call' \in ClientCall /\ call'.pc = "sleep" /\ call'.op # "none"
    BY <1>1, <2>1, CallMoves
  <2>3. (exchange.expired /\ ~At("request")) \in BOOLEAN
    OBVIOUS
  <2>4. exchange' \in Exchange /\ exchange'.age = 0
    BY <1>1, <2>1, <2>3, ExchangeStarts
  <2>5. QED
    BY <2>1, <2>2, <2>4, ClientAssumption, StepTypes
<1>3. CASE \E ago \in 0 .. Timeout : getToken(ago)
  <2>1. PICK ago \in 0 .. Timeout : getToken(ago)
    BY <1>3
  <2>2. /\ call' = [call EXCEPT !.pc = "request"]
        /\ exchange' = [exchange EXCEPT !.age = 0, !.answer = Unanswered, !.changed = NoID]
        /\ token' = [empty |-> FALSE, left |-> Lifetime - exchange.age]
        /\ granted' = [left |-> Lifetime - ago, revoked |-> FALSE]
        /\ UNCHANGED dirVars
    BY <2>1 DEF getToken, Send, Expiration
  <2>3. /\ call' \in ClientCall /\ call'.pc = "request" /\ call'.op # "none"
        /\ exchange' \in Exchange /\ exchange'.age = 0
    <3>1. call' \in ClientCall /\ call'.pc = "request" /\ call'.op # "none"
      BY <1>1, <2>2, CallMoves
    <3>2. exchange' \in Exchange /\ exchange'.age = 0
      BY <1>1, <2>2, StartTypes DEF Exchange
    <3>3. QED
      BY <3>1, <3>2
  <2>4. token' \in Token /\ granted' \in Granted
    BY <1>1, <2>2, ClientAssumption, LifetimeAssumption DEF Token, Granted
  <2>5. DirTypeOK' /\ PaceOK'
    BY <2>2, <2>3, ClientAssumption
    DEF ClientTypeInv, ClientTypeOK, DirTypeOK, dirVars, PaceOK, InFlight, At
  <2>6. QED
    BY <2>3, <2>4, <2>5 DEF ClientTypeInv, ClientTypeOK
<1>4. QED
  BY <1>2, <1>3

\* The Director answers.
LEMMA AnswersTypes ==
  ASSUME ClientTypeInv, At("request"), NEW answer \in Answer, NEW i \in RuntimeLabel,
         Answers(answer, i), DirTypeOK'
  PROVE  ClientTypeInv'
<1>1. /\ call \in ClientCall /\ exchange \in Exchange /\ call.op # "none"
      /\ call.pc = "request" /\ exchange.age <= Timeout /\ granted \in Granted
  BY DEF ClientTypeInv, ClientTypeOK, PaceOK, InFlight, At
<1> DEFINE n == IF call.op = "CreateRuntime" /\ i # NoID THEN i ELSE exchange.named
           b == granted.left = 0 /\ ~granted.revoked
<1>2. /\ call' = [call EXCEPT !.pc = "answer"]
      /\ exchange' = [exchange EXCEPT !.answer = answer, !.changed = i, !.named = n,
                                      !.expired = b]
      /\ UNCHANGED <<token, granted>>
  BY DEF Answers
<1>3. n \in RuntimeLabel /\ b \in BOOLEAN
  BY <1>1 DEF Exchange
<1> HIDE DEF n, b
<1>4. /\ call' \in ClientCall /\ call'.pc = "answer" /\ call'.op # "none"
      /\ exchange' \in Exchange /\ exchange'.age = exchange.age
  <2>1. call' \in ClientCall /\ call'.pc = "answer" /\ call'.op # "none"
    BY <1>1, <1>2, CallMoves
  <2>2. exchange' \in Exchange /\ exchange'.age = exchange.age
    BY <1>1, <1>2, <1>3 DEF Exchange
  <2>3. QED
    BY <2>1, <2>2
<1>5. PaceOK'
  BY <1>1, <1>4 DEF PaceOK, InFlight, At
<1>6. QED
  BY <1>2, <1>4, <1>5 DEF ClientTypeInv, ClientTypeOK

\* What the Director does with a request.
LEMMA DirectorStepTypes ==
  ASSUME ClientTypeInv,
         \/ \E i \in RuntimeIDs : DirectorCreates(i)
         \/ DirectorDeletes
         \/ DirectorIssuesToken
         \/ DirectorRefuses
  PROVE  ClientTypeInv'
<1>1. DirTypeOK /\ call \in ClientCall /\ NoID \in RuntimeLabel /\ RuntimeIDs \subseteq RuntimeLabel
  BY DEF ClientTypeInv, ClientTypeOK, RuntimeLabel
<1>2. call.id \in RuntimeLabel /\ call.kyma \in Kymas \cup {NoKyma} /\ call.account \in AccountLabel
  BY <1>1 DEF ClientCall
<1>3. UNCHANGED dirVars => DirTypeOK'
  BY <1>1 DEF DirTypeOK, dirVars
<1>4. ASSUME NEW i \in RuntimeIDs, DirectorCreates(i)
      PROVE  ClientTypeInv'
  <2>1. DirTypeOK'
    BY <1>1, <1>2, <1>4 DEF DirectorCreates, CreateRuntime, DirTypeOK, Runtime, TookEffect
  <2>2. \A answer \in {Result(i)} \cup Spoiled : answer \in Answer
    BY <1>1, AnswerTypes
  <2>3. QED
    BY <1>1, <1>4, <2>1, <2>2, AnswersTypes DEF DirectorCreates
<1>5. CASE DirectorDeletes
  <2>1. call.id \in RuntimeIDs
    BY <1>2, <1>5 DEF DirectorDeletes, Knows, Live, RuntimeLabel
  <2>2. DirTypeOK'
    BY <1>1, <1>5, <2>1, DirectorTypes DEF DirectorDeletes
  <2>3. \A answer \in {Result(call.id)} \cup Spoiled : answer \in Answer
    BY <1>2, AnswerTypes
  <2>4. QED
    BY <1>2, <1>5, <2>2, <2>3, AnswersTypes DEF DirectorDeletes
<1>6. CASE DirectorIssuesToken
  <2>1. \A answer \in {Result(call.id)} \cup Spoiled : answer \in Answer
    BY <1>2, AnswerTypes
  <2>2. QED
    BY <1>1, <1>3, <1>6, <2>1, AnswersTypes DEF DirectorIssuesToken
<1>7. CASE DirectorRefuses
  BY <1>1, <1>3, <1>7, AnswerTypes, AnswersTypes DEF DirectorRefuses
<1>8. QED
  BY <1>4, <1>5, <1>6, <1>7

\* The end of an attempt, with or without an answer.
LEMMA EndTypes ==
  ASSUME ClientTypeInv, ReceiveAnswer \/ \E broken \in BOOLEAN : Do(broken)
  PROVE  ClientTypeInv'
<1>1. /\ call \in ClientCall /\ exchange \in Exchange /\ call.op # "none"
      /\ UNCHANGED <<dirVars, token, granted>>
  BY DEF ClientTypeInv, ClientTypeOK, PaceOK, ReceiveAnswer, Do, InFlight, At
<1>2. CASE AttemptFails
  <2>1. /\ call' = [call EXCEPT !.pc = "sleep"]
        /\ exchange' = [exchange EXCEPT !.age = 0, !.answer = Unanswered,
                          !.changed = NoID, !.expired = @ /\ ~At("request")]
    BY <1>2 DEF AttemptFails
  <2>2. call' \in ClientCall /\ call'.pc = "sleep" /\ call'.op # "none"
    BY <1>1, <2>1, CallMoves
  <2>3. (exchange.expired /\ ~At("request")) \in BOOLEAN
    OBVIOUS
  <2>4. exchange' \in Exchange /\ exchange'.age = 0
    BY <1>1, <2>1, <2>3, ExchangeStarts
  <2>5. QED
    BY <1>1, <2>2, <2>4, ClientAssumption, StepTypes
<1>3. ASSUME NEW i \in RuntimeLabel, AttemptSucceeds(i)
      PROVE  ClientTypeInv'
  <2>1. /\ call' = [call EXCEPT !.pc = "idle", !.id = i, !.ok = TRUE]
        /\ exchange' = [exchange EXCEPT !.age = 0, !.answer = Unanswered, !.changed = NoID]
    BY <1>3 DEF AttemptSucceeds
  <2>2. call' \in ClientCall /\ call'.pc = "idle"
    BY <1>1, <1>3, <2>1 DEF ClientCall
  <2>3. exchange' \in Exchange
    BY <1>1, <2>1, StartTypes DEF Exchange
  <2>4. QED
    BY <1>1, <2>2, <2>3, StepTypes
<1>4. exchange.answer.id \in RuntimeLabel /\ call.id \in RuntimeLabel
  BY <1>1 DEF Exchange, Answer, ClientCall
<1>5. QED
  BY <1>2, <1>3, <1>4 DEF ReceiveAnswer, Do

\* Time passes, tokens are revoked.
LEMMA TimeTypes ==
  ASSUME ClientTypeInv, Revoke \/ Tick
  PROVE  ClientTypeInv'
<1>1. /\ token \in Token /\ granted \in Granted /\ call \in ClientCall
      /\ exchange \in Exchange /\ PaceOK /\ UNCHANGED <<dirVars, call>>
  BY DEF ClientTypeInv, ClientTypeOK, Revoke, Tick
<1>2. CASE Revoke
  <2>1. granted' \in Granted /\ UNCHANGED <<token, exchange>>
    BY <1>1, <1>2 DEF Revoke, Granted
  <2>2. QED
    BY <1>1, <2>1 DEF ClientTypeInv, ClientTypeOK, DirTypeOK, dirVars, PaceOK, InFlight, At
<1>3. CASE Tick
  <2>1. token' \in Token
    <3>1. (IF token.left < 0 THEN -1 ELSE token.left - 1) \in -1 .. Lifetime
      BY <1>1, ClientAssumption DEF Token
    <3>2. QED
      BY <1>1, <1>3, <3>1 DEF Tick, Token
  <2>2. granted' \in Granted
    <3>1. (IF granted.left = 0 THEN 0 ELSE granted.left - 1) \in 0 .. Lifetime
      BY <1>1, ClientAssumption DEF Granted
    <3>2. QED
      BY <1>1, <1>3, <3>1 DEF Tick, Granted
  <2> DEFINE n == IF InFlight \/ (At("sleep") /\ exchange.age < Interval)
                  THEN exchange.age + 1 ELSE exchange.age
  <2>3. exchange' = [exchange EXCEPT !.age = n]
    BY <1>3 DEF Tick
  <2>4. /\ n \in 0 .. (Timeout + Interval)
        /\ InFlight => n <= Timeout
        /\ At("sleep") => n <= Interval
    BY <1>1, <1>3, ClientAssumption DEF Tick, Exchange, PaceOK, InFlight, At
  <2> HIDE DEF n
  <2>5. exchange' \in Exchange /\ exchange'.age = n
    BY <1>1, <2>3, <2>4 DEF Exchange
  <2>6. QED
    BY <1>1, <2>1, <2>2, <2>4, <2>5
    DEF ClientTypeInv, ClientTypeOK, DirTypeOK, dirVars, PaceOK, InFlight, At
<1>4. QED
  BY <1>2, <1>3

\* Types and pace are preserved.
LEMMA ClientTypeStep == ClientTypeInv /\ [ClientNext]_clientVars => ClientTypeInv'
<1>1. UNCHANGED clientVars /\ ClientTypeInv => ClientTypeInv'
  BY DEF clientVars, ClientTypeInv, ClientTypeOK, DirTypeOK, PaceOK, InFlight, At
<1>2. QED
  BY <1>1, LoopTypes, TokenTypes, DirectorStepTypes, EndTypes, TimeTypes DEF ClientNext

\* The type invariant of the client (directorclient.go, oauth/client.go and
\* retry.go): the clocks stay within their bounds because every request ends with
\* its timeout, every pause with its interval, and the loop with its last attempt.
THEOREM ClientTypeCorrect == ClientSpec => []ClientTypeOK
<1>1. ClientTypeInv => ClientTypeOK
  BY DEF ClientTypeInv
<1>2. QED
  BY <1>1, ClientTypeInit, ClientTypeStep, PTL DEF ClientSpec

-----------------------------------------------------------------------------
(***************************************************************************)
(* The invariant.                                                          *)
(***************************************************************************)
\* At the start there is no token and no request was refused.
LEMMA ClientInvInit == ClientInit => ClientInv
<1>1. ClientInit => NeverOverrated /\ ExpiredIsReplaced
  BY DEF ClientInit, NeverOverrated, ExpiredIsReplaced
<1>2. QED
  BY <1>1, ClientTypeInit DEF ClientInv, ClientTypeInv

\* A token is written down with what is left of it, counted from before it was
\* asked for, and from then on both sides count the same ticks.
LEMMA NeverOverratedStep ==
  ClientTypeInv /\ NeverOverrated /\ [ClientNext]_clientVars => NeverOverrated'
<1> SUFFICES ASSUME ClientTypeInv, NeverOverrated, [ClientNext]_clientVars
             PROVE  NeverOverrated'
  OBVIOUS
<1>1. token \in Token /\ granted \in Granted /\ exchange \in Exchange
  BY DEF ClientTypeInv, ClientTypeOK
<1>2. CASE UNCHANGED <<token, granted>>
  BY <1>2 DEF NeverOverrated
<1>3. CASE \E ago \in 0 .. Timeout : getToken(ago)
  <2>1. PICK ago \in 0 .. Timeout : getToken(ago)
    BY <1>3
  <2>2. /\ ago <= exchange.age
        /\ token'.left = Lifetime - exchange.age
        /\ granted'.left = Lifetime - ago
    BY <2>1 DEF getToken, Expiration
  <2>3. exchange.age \in Int
    BY <1>1, ClientAssumption DEF Exchange
  <2>4. QED
    BY <2>2, <2>3, ClientAssumption DEF NeverOverrated
<1>4. CASE Revoke
  <2>1. token' = token /\ granted'.left = granted.left
    BY <1>1, <1>4 DEF Revoke, Granted
  <2>2. QED
    BY <2>1 DEF NeverOverrated
<1>5. CASE Tick
  <2>1. /\ token'.empty = token.empty
        /\ token'.left = IF token.left < 0 THEN -1 ELSE token.left - 1
        /\ granted'.left = IF granted.left = 0 THEN 0 ELSE granted.left - 1
    BY <1>1, <1>5 DEF Tick, Token, Granted
  <2>2. token.left \in Int /\ granted.left \in Nat
    BY <1>1, ClientAssumption DEF Token, Granted
  <2>3. QED
    BY <2>1, <2>2 DEF NeverOverrated
<1>6. QED
  BY <1>2, <1>3, <1>4, <1>5
  DEF ClientNext, clientVars, Operation, Begin, executeDirectorGraphQLCall,
      NoTokenObtained, DirectorCreates, DirectorDeletes, DirectorIssuesToken,
      DirectorRefuses, Answers, ReceiveAnswer, Do, Wake

-----------------------------------------------------------------------------
(***************************************************************************)
(* After a request with an expired token.                                  *)
(***************************************************************************)
\* A token that the server takes for expired is given up by the client within a
\* tick, and a pause lasts at least that.
LEMMA LoopReplaces ==
  ASSUME ClientTypeInv, NeverOverrated, ExpiredIsReplaced,
         Operation \/ executeDirectorGraphQLCall \/ Wake
  PROVE  ExpiredIsReplaced'
<1>1. /\ exchange \in Exchange /\ token \in Token /\ granted \in Granted
      /\ call \in ClientCall
  BY DEF ClientTypeInv, ClientTypeOK
<1>2. token' = token /\ granted' = granted /\ exchange'.expired = exchange.expired
  BY <1>1 DEF Operation, Begin, executeDirectorGraphQLCall, Send, Wake, Exchange
<1>3. CASE ~exchange.expired
  BY <1>2, <1>3 DEF ExpiredIsReplaced
<1>4. CASE exchange.expired /\ (Operation \/ executeDirectorGraphQLCall)
  <2>1. EmptyOrExpired(token)
    BY <1>4 DEF ExpiredIsReplaced, Operation, Begin, executeDirectorGraphQLCall, At
  <2>2. call'.pc \in {"try", "token"}
    BY <1>1, <1>4, <2>1 DEF Operation, Begin, executeDirectorGraphQLCall, Send, ClientCall
  <2>3. QED
    BY <1>2, <2>1, <2>2 DEF ExpiredIsReplaced, EmptyOrExpired, At
<1>5. CASE exchange.expired /\ Wake
  <2>1. /\ token.empty \/ token.left < 0 \/ (token.left <= 0 /\ exchange.age = 0)
        /\ exchange.age >= Interval
    BY <1>5 DEF ExpiredIsReplaced, Wake
  <2>2. EmptyOrExpired(token)
    BY <1>1, <2>1, ClientAssumption DEF EmptyOrExpired, Exchange
  <2>3. call'.pc \in {"idle", "try"}
    BY <1>1, <1>5 DEF Wake, ClientCall
  <2>4. QED
    BY <1>2, <2>2, <2>3 DEF ExpiredIsReplaced, EmptyOrExpired, At
<1>6. QED
  BY <1>3, <1>4, <1>5

\* A new token outlives the request that is made with it.
LEMMA TokenReplaces ==
  ASSUME ClientTypeInv, ExpiredIsReplaced,
         NoTokenObtained \/ \E ago \in 0 .. Timeout : getToken(ago)
  PROVE  ExpiredIsReplaced'
<1>1. /\ exchange \in Exchange /\ call \in ClientCall /\ token \in Token
  BY DEF ClientTypeInv, ClientTypeOK
<1>2. CASE NoTokenObtained
  <2>1. /\ token' = token /\ call'.pc = "sleep" /\ At("token")
        /\ exchange'.age = 0 /\ (exchange'.expired => exchange.expired)
    BY <1>1, <1>2 DEF NoTokenObtained, AttemptFails, ClientCall, Exchange
  <2>2. exchange.expired => EmptyOrExpired(token)
    BY <2>1 DEF ExpiredIsReplaced, At
  <2>3. QED
    BY <2>1, <2>2 DEF ExpiredIsReplaced, EmptyOrExpired, At
<1>3. CASE \E ago \in 0 .. Timeout : getToken(ago)
  <2>1. PICK ago \in 0 .. Timeout : getToken(ago)
    BY <1>3
  <2>2. /\ call'.pc = "request" /\ exchange'.age = 0
        /\ granted'.left = Lifetime - ago
    BY <1>1, <2>1 DEF getToken, Send, ClientCall, Exchange
  <2>3. granted'.left >= Lifetime - Timeout - exchange'.age
    BY <2>2, ClientAssumption
  <2>4. QED
    BY <2>2, <2>3 DEF ExpiredIsReplaced, At
<1>4. QED
  BY <1>2, <1>3

\* The Director refuses a request with an expired token.
LEMMA AnswerReplaces ==
  ASSUME ClientTypeInv, At("request"), NEW answer \in Answer, NEW i \in RuntimeLabel,
         Answers(answer, i), ~Accepted => Useless(answer)
  PROVE  ExpiredIsReplaced'
<1>1. exchange \in Exchange /\ call \in ClientCall /\ granted \in Granted
  BY DEF ClientTypeInv, ClientTypeOK
<1>2. /\ granted' = granted /\ call'.pc = "answer" /\ exchange'.answer = answer
      /\ exchange'.expired = (granted.left = 0 /\ ~granted.revoked)
  BY <1>1 DEF Answers, ClientCall, Exchange
<1>3. exchange'.expired => granted.left = 0 /\ Useless(answer)
  <2>1. exchange'.expired => granted.left = 0
    BY <1>2
  <2>2. granted.left = 0 => ~Accepted
    BY DEF Accepted
  <2>3. QED
    BY <2>1, <2>2
<1>4. QED
  BY <1>2, <1>3 DEF ExpiredIsReplaced, EmptyOrExpired, At, Useless

\* What the Director does with a request.
LEMMA DirectorReplaces ==
  ASSUME ClientTypeInv,
         \/ \E i \in RuntimeIDs : DirectorCreates(i)
         \/ DirectorDeletes
         \/ DirectorIssuesToken
         \/ DirectorRefuses
  PROVE  ExpiredIsReplaced'
<1>1. PICK answer \in Answer, i \in RuntimeLabel : Answers(answer, i) /\ (~Accepted => Useless(answer))
  <2>1. call \in ClientCall /\ call.id \in RuntimeLabel /\ NoID \in RuntimeLabel
        /\ RuntimeIDs \subseteq RuntimeLabel
    BY DEF ClientTypeInv, ClientTypeOK, ClientCall, RuntimeLabel
  <2>2. CASE \E i \in RuntimeIDs : DirectorCreates(i)
    BY <2>1, <2>2, AnswerTypes DEF DirectorCreates
  <2>3. CASE DirectorDeletes
    BY <2>1, <2>3, AnswerTypes DEF DirectorDeletes
  <2>4. CASE DirectorIssuesToken
    BY <2>1, <2>4, AnswerTypes DEF DirectorIssuesToken
  <2>5. CASE DirectorRefuses
    <3>1. PICK answer \in Refusals \cup Failures : Answers(answer, NoID)
      BY <2>5 DEF DirectorRefuses
    <3>2. \A a \in Failures : Useless(a)
      BY DEF Failures, Useless, NilResult, ErrorOf, DirectorErrorTypes
    <3>3. ~Accepted => \A a \in Refusals : Useless(a)
      BY DEF Refusals, Useless, NilResult, ErrorOf
    <3>4. answer \in Answer
      BY <3>1, AnswerTypes
    <3>5. QED
      BY <2>1, <3>1, <3>2, <3>3, <3>4
  <2>6. QED
    BY <2>2, <2>3, <2>4, <2>5
<1>2. At("request")
  BY DEF DirectorCreates, DirectorDeletes, DirectorIssuesToken, DirectorRefuses
<1>3. QED
  BY <1>1, <1>2, AnswerReplaces

\* The end of an attempt: a refused one ends as a failure, in the same tick or
\* a later one.
LEMMA EndReplaces ==
  ASSUME ClientTypeInv, NeverOverrated, ExpiredIsReplaced,
         ReceiveAnswer \/ \E broken \in BOOLEAN : Do(broken)
  PROVE  ExpiredIsReplaced'
<1>1. /\ exchange \in Exchange /\ call \in ClientCall /\ token \in Token
      /\ token' = token /\ granted' = granted /\ InFlight
  BY DEF ClientTypeInv, ClientTypeOK, ReceiveAnswer, Do, InFlight, At
<1>2. ASSUME AttemptFails
      PROVE  ExpiredIsReplaced'
  <2>1. /\ call'.pc = "sleep" /\ exchange'.age = 0
        /\ exchange'.expired = (exchange.expired /\ ~At("request"))
    BY <1>1, <1>2 DEF AttemptFails, ClientCall, Exchange
  <2>2. ASSUME exchange'.expired
        PROVE  token.empty \/ token.left <= 0
    <3>1. call.pc \in {"token", "answer"} /\ exchange.expired
      BY <1>1, <2>1, <2>2 DEF InFlight, At
    <3>2. CASE call.pc = "token"
      BY <1>1, <3>1, <3>2, ClientAssumption DEF ExpiredIsReplaced, EmptyOrExpired, At, Token
    <3>3. CASE call.pc = "answer"
      BY <3>1, <3>3 DEF ExpiredIsReplaced, NeverOverrated, At
    <3>4. QED
      BY <3>1, <3>2, <3>3
  <2>3. QED
    BY <1>1, <2>1, <2>2 DEF ExpiredIsReplaced, EmptyOrExpired, At
<1>3. CASE At("answer") /\ exchange.expired
  <2>1. Useless(exchange.answer)
    BY <1>3 DEF ExpiredIsReplaced
  <2>2. CallError # NoError \/ ~ReceiveAnswer
    <3>1. exchange.answer \in Answer /\ call.op \in {"CreateRuntime", "GetRuntime", "GetConnectionToken", "DeleteRuntime"}
      BY <1>1, <1>3 DEF Exchange, ClientCall, ClientTypeInv, PaceOK, At
    <3>2. QED
      BY <2>1, <3>1
      DEF CallError, CreateRuntimeError, GetRuntimeError, GetConnectionTokenError, DeleteRuntimeError,
          GraphQLError, Annotated, mapDirectorErrorToProvisionerError, Useless, Answer,
          NoError, Internal, BadGateway, BadRequest, NotFound, InvalidGlobalAccount,
          DirectorErrorTypes
  <2>3. AttemptFails
    BY <2>2 DEF ReceiveAnswer, Do
  <2>4. QED
    BY <1>2, <2>3
<1>4. CASE ReceiveAnswer /\ ~exchange.expired
  <2>1. \/ AttemptFails
        \/ exchange'.expired = exchange.expired
    BY <1>1, <1>4 DEF ReceiveAnswer, AttemptSucceeds, Exchange
  <2>2. QED
    BY <1>2, <1>4, <2>1 DEF ExpiredIsReplaced
<1>5. CASE \E broken \in BOOLEAN : Do(broken)
  BY <1>2, <1>5 DEF Do
<1>6. QED
  BY <1>3, <1>4, <1>5 DEF ReceiveAnswer

\* Time makes tokens older, on both sides alike.
LEMMA TimeReplaces ==
  ASSUME ClientTypeInv, NeverOverrated, ExpiredIsReplaced, Revoke \/ Tick
  PROVE  ExpiredIsReplaced'
<1>1. /\ exchange \in Exchange /\ call' = call /\ token \in Token
      /\ granted \in Granted /\ PaceOK
  BY DEF ClientTypeInv, ClientTypeOK, Revoke, Tick
<1>2. CASE Revoke
  <2>1. token' = token /\ exchange' = exchange /\ granted'.left = granted.left
    BY <1>1, <1>2 DEF Revoke, Granted
  <2>2. QED
    BY <1>1, <2>1 DEF ExpiredIsReplaced, EmptyOrExpired, At, Useless
<1>3. CASE Tick
  <2>1. /\ token'.empty = token.empty
        /\ token'.left = IF token.left < 0 THEN -1 ELSE token.left - 1
        /\ granted'.left = IF granted.left = 0 THEN 0 ELSE granted.left - 1
    BY <1>1, <1>3 DEF Tick, Token, Granted
  <2>2. /\ exchange'.expired = exchange.expired /\ exchange'.answer = exchange.answer
        /\ exchange'.age = IF InFlight \/ (At("sleep") /\ exchange.age < Interval)
                          THEN exchange.age + 1 ELSE exchange.age
    BY <1>1, <1>3 DEF Tick, Exchange
  <2>3. /\ token.left \in -1 .. Lifetime /\ granted.left \in 0 .. Lifetime
        /\ exchange.age \in 0 .. (Timeout + Interval)
    BY <1>1 DEF Token, Granted, Exchange
  <2>4. CASE ~exchange.expired
    BY <2>2, <2>4 DEF ExpiredIsReplaced
  <2>5. CASE exchange.expired /\ call.pc \in {"idle", "try", "token"}
    BY <1>1, <2>1, <2>3, <2>5, ClientAssumption DEF ExpiredIsReplaced, EmptyOrExpired, At
  <2>6. CASE exchange.expired /\ At("sleep")
    <3>1. token.empty \/ token.left <= 0
      BY <2>3, <2>6, ClientAssumption DEF ExpiredIsReplaced
    <3>2. token'.empty \/ token'.left < 0
      BY <2>1, <2>3, <3>1, ClientAssumption
    <3>3. QED
      BY <1>1, <2>6, <3>2 DEF ExpiredIsReplaced, EmptyOrExpired, At
  <2>7. CASE exchange.expired /\ At("answer")
    <3>1. granted'.left = 0 /\ Useless(exchange'.answer)
      BY <2>1, <2>2, <2>7 DEF ExpiredIsReplaced
    <3>2. QED
      BY <1>1, <2>7, <3>1 DEF ExpiredIsReplaced, EmptyOrExpired, At, Useless
  <2>8. CASE exchange.expired /\ At("request")
    <3>1. exchange'.age = exchange.age + 1 /\ exchange.age < Timeout
      BY <1>3, <2>2, <2>8 DEF Tick, InFlight, At
    <3>2. granted.left >= Lifetime - Timeout - exchange.age
      BY <2>8 DEF ExpiredIsReplaced
    <3>3. granted'.left >= Lifetime - Timeout - exchange'.age
      BY <2>1, <2>3, <3>1, <3>2, ClientAssumption, LifetimeAssumption
    <3>4. QED
      BY <1>1, <2>8, <3>3 DEF ExpiredIsReplaced, EmptyOrExpired, At
  <2>9. QED
    BY <1>1, <2>4, <2>5, <2>6, <2>7, <2>8
    DEF ClientTypeInv, ClientTypeOK, ClientCall, At
<1>4. QED
  BY <1>2, <1>3

-----------------------------------------------------------------------------
\* The invariant is preserved.
LEMMA ClientInvStep == ClientInv /\ [ClientNext]_clientVars => ClientInv'
<1> SUFFICES ASSUME ClientInv, [ClientNext]_clientVars
             PROVE  ClientInv'
  OBVIOUS
<1>1. ClientTypeInv /\ NeverOverrated /\ ExpiredIsReplaced
  BY DEF ClientInv, ClientTypeInv
<1>2. ClientTypeInv' /\ NeverOverrated'
  BY <1>1, ClientTypeStep, NeverOverratedStep
<1>3. ASSUME UNCHANGED clientVars
      PROVE  ExpiredIsReplaced'
  BY <1>1, <1>3 DEF clientVars, ExpiredIsReplaced, EmptyOrExpired, Useless, At
<1>4. ASSUME ClientNext
      PROVE  ExpiredIsReplaced'
  BY <1>1, <1>4, LoopReplaces, TokenReplaces, DirectorReplaces, EndReplaces, TimeReplaces
  DEF ClientNext
<1>5. ExpiredIsReplaced'
  BY <1>3, <1>4
<1>6. QED
  BY <1>2, <1>5 DEF ClientInv, ClientTypeInv

\* An access token that expires on its way to the Director costs one attempt and no
\* more (getToken of directorclient.go, GetAuthorizationToken of oauth/client.go),
\* for every lifetime of a token that is longer than two timeouts.
THEOREM ExpiryIsSurvived == ClientSpec => []ExpiryCostsOneAttempt
<1>1. ClientInv => ExpiryCostsOneAttempt
  <2> SUFFICES ASSUME ClientInv, At("request"), exchange.expired
               PROVE  granted.left > 0
    BY DEF ExpiryCostsOneAttempt
  <2>1. /\ granted.left >= Lifetime - Timeout - exchange.age
        /\ exchange.age <= Timeout
        /\ exchange.age \in Int /\ granted.left \in Int
    BY ClientAssumption
    DEF ClientInv, ClientTypeOK, ExpiredIsReplaced, PaceOK, InFlight, At, Exchange, Granted
  <2>2. QED
    BY <2>1, ClientAssumption, LifetimeAssumption
<1>2. QED
  BY <1>1, ClientInvInit, ClientInvStep, PTL DEF ClientSpec
=============================================================================
