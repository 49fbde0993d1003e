----------------------------- MODULE OutcomeProofs -----------------------------
(***************************************************************************)
(* The client of the Director implements DirectorCalls: whatever happens   *)
(* to its tokens, requests and answers, each attempt is for its caller one *)
(* step of CompassDirector with one of the Outcomes.                       *)
(***************************************************************************)
EXTENDS DirectorClientProofs

\* What the Director holds is what it was asked to create, in some tenant.
RuntimesFit ==
  \A i \in RuntimeIDs : IF Unused(i) THEN runtimes[i] = UnusedRuntime
                                     ELSE runtimes[i].account # NoAccount

\* An operation has not succeeded before it ends.
CallFits ==
  ~At("idle") => /\ ~call.ok
                 /\ call.op = "CreateRuntime" => call.account # NoAccount

\* What the Director has done by the time its answer is on the way: created or
\* deleted the runtime that was asked for, or nothing; and what an answer that
\* can pass for success says about that.
AnswerFits(answer, changed) ==
  CASE call.op = "CreateRuntime" ->
         /\ changed # NoID =>
              runtimes[changed] = [state |-> "live", kyma |-> call.kyma,
                                   account |-> call.account]
         /\ answer.kind = "result" => changed # NoID /\ answer.id \in {changed, NoID}
    [] call.op = "DeleteRuntime" ->
         /\ changed # NoID => /\ changed = call.id
                              /\ runtimes[changed].state = "deleted"
                              /\ runtimes[changed].account = call.account
         /\ answer.kind = "result" => changed # NoID
         /\ answer.kind = "NotFound" => /\ ~Knows(call.id, call.account)
                                        /\ call.account # NoAccount
    [] OTHER ->
         /\ changed = NoID
         /\ answer.kind = "result" => Knows(call.id, call.account)

ExchangeFits ==
  /\ exchange.changed # NoID => At("answer")
  /\ At("answer") => AnswerFits(exchange.answer, exchange.changed)

OutcomeInv == RuntimesFit /\ CallFits /\ ExchangeFits

Inv == ClientTypeInv /\ OutcomeInv

-----------------------------------------------------------------------------
(***************************************************************************)
(* OutcomeInv.                                                             *)
(***************************************************************************)
\* Nothing has been done at first.
LEMMA OutcomeInit == ClientInit => OutcomeInv
  BY DEF ClientInit, DirInit, OutcomeInv, RuntimesFit, CallFits, ExchangeFits, Unused,
         UnusedRuntime, At

\* Types that are used throughout.
LEMMA Types ==
  ASSUME ClientTypeInv
  PROVE  /\ call \in ClientCall /\ exchange \in Exchange
         /\ runtimes \in [RuntimeIDs -> Runtime]
         /\ call.id \in RuntimeLabel /\ call.account \in AccountLabel
         /\ exchange.changed \in RuntimeLabel /\ exchange.answer \in Answer
         /\ ~At("idle") => call.op \in {"CreateRuntime", "GetRuntime",
                                        "GetConnectionToken", "DeleteRuntime"}
  BY DEF ClientTypeInv, ClientTypeOK, DirTypeOK, PaceOK, ClientCall, Exchange, At

\* The Director is left alone and no answer is on the way.
LEMMA QuietFits ==
  ASSUME RuntimesFit, runtimes' = runtimes, exchange'.changed = NoID,
         call'.pc # "answer",
         call'.pc # "idle" => /\ ~call'.ok
                              /\ call'.op = "CreateRuntime" => call'.account # NoAccount
  PROVE  OutcomeInv'
  BY DEF OutcomeInv, RuntimesFit, CallFits, ExchangeFits, Unused, At

\* The end of an attempt.
LEMMA EndFits ==
  ASSUME Inv, AttemptFails \/ \E i : AttemptSucceeds(i), InFlight, runtimes' = runtimes
  PROVE  OutcomeInv'
<1>1. /\ call \in ClientCall /\ exchange \in Exchange /\ RuntimesFit /\ CallFits
      /\ ~At("idle")
  BY Types DEF Inv, OutcomeInv, InFlight, At
<1>2. /\ exchange'.changed = NoID
      /\ call'.pc = "idle" \/ /\ call'.pc = "sleep" /\ call'.op = call.op
                              /\ call'.ok = call.ok /\ call'.account = call.account
  BY <1>1 DEF AttemptFails, AttemptSucceeds, ClientCall, Exchange
<1>3. QED
  BY <1>1, <1>2, QuietFits DEF CallFits

\* The loop, and a token for the next request.
LEMMA LoopFits ==
  ASSUME Inv,
         \/ Operation \/ executeDirectorGraphQLCall \/ Wake
         \/ \E ago \in 0 .. Timeout : getToken(ago)
  PROVE  OutcomeInv'
<1>1. /\ call \in ClientCall /\ exchange \in Exchange
      /\ RuntimesFit /\ CallFits /\ ExchangeFits
  BY Types DEF Inv, OutcomeInv
<1>2. CASE Operation
  <2>1. exchange.changed = NoID
    BY <1>1, <1>2 DEF Operation, Begin, ExchangeFits, At
  <2>2. /\ runtimes' = runtimes /\ exchange'.changed = NoID
        /\ call'.pc = "try" /\ call'.ok = FALSE
    BY <1>1, <1>2, <2>1 DEF Operation, Begin, dirVars, Exchange
  <2>3. call'.op = "CreateRuntime" => call'.account # NoAccount
    BY <1>2, LandscapeAssumption DEF Operation, Begin
  <2>4. QED
    BY <1>1, <2>2, <2>3, QuietFits
<1>3. CASE executeDirectorGraphQLCall \/ \E ago \in 0 .. Timeout : getToken(ago)
  <2>1. /\ ~At("idle") /\ runtimes' = runtimes /\ exchange'.changed = NoID
        /\ call'.pc \in {"token", "request"} /\ call'.op = call.op
        /\ call'.ok = call.ok /\ call'.account = call.account
    BY <1>1, <1>3
    DEF executeDirectorGraphQLCall, getToken, Send, dirVars, At, ClientCall, Exchange
  <2>2. QED
    BY <1>1, <2>1, QuietFits DEF CallFits
<1>4. CASE Wake
  <2>1. exchange.changed = NoID /\ ~At("idle")
    BY <1>1, <1>4 DEF Wake, ExchangeFits, At
  <2>2. /\ runtimes' = runtimes /\ exchange'.changed = NoID
        /\ call'.pc \in {"idle", "try"} /\ call'.op = call.op
        /\ call'.ok = call.ok /\ call'.account = call.account
    BY <1>1, <1>4, <2>1 DEF Wake, dirVars, ClientCall, Exchange
  <2>3. QED
    BY <1>1, <2>1, <2>2, QuietFits DEF CallFits
<1>5. QED
  BY <1>2, <1>3, <1>4

\* The Director sends an answer that fits what it has done.
LEMMA AnsweredFits ==
  ASSUME Inv, At("request"), NEW answer \in Answer, NEW i \in RuntimeLabel,
         Answers(answer, i), RuntimesFit', AnswerFits(answer, i)'
  PROVE  OutcomeInv'
<1>1. call \in ClientCall /\ exchange \in Exchange /\ CallFits
  BY Types DEF Inv, OutcomeInv
<1>2. /\ call'.pc = "answer" /\ call'.op = call.op /\ call'.ok = call.ok
      /\ call'.account = call.account
      /\ exchange'.answer = answer /\ exchange'.changed = i
  BY <1>1 DEF Answers, ClientCall, Exchange
<1>3. CallFits'
  BY <1>1, <1>2 DEF CallFits, At
<1>4. ExchangeFits'
  BY <1>2 DEF ExchangeFits, At
<1>5. QED
  BY <1>3, <1>4 DEF OutcomeInv

\* What an answer keeps of the operation.
LEMMA SameCall ==
  ASSUME call \in ClientCall, NEW answer, NEW i, Answers(answer, i)
  PROVE  /\ call'.op = call.op /\ call'.kyma = call.kyma
         /\ call'.account = call.account /\ call'.id = call.id
  BY DEF Answers, ClientCall

\* An answer to a request that has been carried out.
LEMMA CarriedOutKinds ==
  ASSUME NEW i \in RuntimeLabel
  PROVE  \A answer \in {Result(i)} \cup Spoiled :
           /\ answer \in Answer
           /\ answer.kind # "NotFound"
           /\ answer.kind = "result" => answer.id \in {i, NoID}
<1>1. \A answer \in {Result(i)} \cup Spoiled : answer \in Answer
  BY AnswerTypes
<1>2. QED
  BY <1>1 DEF Result, Spoiled, NilResult, ErrorOf

\* An answer to a request that has not been carried out.
LEMMA RefusalKinds ==
  ASSUME NEW answer \in Refusals \cup Failures
  PROVE  /\ answer \in Answer
         /\ answer.kind # "result"
         /\ answer.kind = "NotFound" => /\ ~Knows(call.id, call.account)
                                        /\ call.account # NoAccount
<1>1. answer \in Answer
  BY AnswerTypes
<1>2. CASE answer \in Failures
  BY <1>1, <1>2 DEF Failures, NilResult, ErrorOf, DirectorErrorTypes
<1>3. CASE answer \in Refusals
  <2>1. CASE ~Accepted
    BY <1>1, <1>3, <2>1 DEF Refusals, NilResult, ErrorOf
  <2>2. CASE Accepted /\ call.account = NoAccount
    BY <1>1, <1>3, <2>2 DEF Refusals, ErrorOf
  <2>3. CASE Accepted /\ call.account # NoAccount /\ call.op = "CreateRuntime"
    BY <1>1, <1>3, <2>3 DEF Refusals, ErrorOf
  <2>4. CASE Accepted /\ call.account # NoAccount /\ call.op # "CreateRuntime"
    BY <1>1, <1>3, <2>4 DEF Refusals, ErrorOf
  <2>5. QED
    BY <2>1, <2>2, <2>3, <2>4
<1>4. QED
  BY <1>1, <1>2, <1>3

\* A new runtime.
LEMMA CreateFits ==
  ASSUME Inv, NEW i \in RuntimeIDs, DirectorCreates(i)
  PROVE  OutcomeInv'
<1>1. /\ call \in ClientCall /\ runtimes \in [RuntimeIDs -> Runtime]
      /\ RuntimesFit /\ CallFits /\ i \in RuntimeLabel
      /\ At("request") /\ call.op = "CreateRuntime" /\ call.account # NoAccount
  BY Types DEF Inv, OutcomeInv, DirectorCreates, CallFits, At, RuntimeLabel
<1>2. runtimes' = [runtimes EXCEPT ![i] = [state |-> "live", kyma |-> call.kyma,
                                           account |-> call.account]]
  BY DEF DirectorCreates, CreateRuntime, TookEffect
<1>3. PICK answer \in {Result(i)} \cup Spoiled : Answers(answer, i)
  BY DEF DirectorCreates
<1>4. RuntimesFit'
  BY <1>1, <1>2 DEF RuntimesFit, Unused
<1>5. AnswerFits(answer, i)'
  <2>1. /\ answer.kind = "result" => answer.id \in {i, NoID}
        /\ i # NoID
    BY <1>1, CarriedOutKinds, LandscapeAssumption
  <2>2. runtimes'[i] = [state |-> "live", kyma |-> call.kyma, account |-> call.account]
    BY <1>1, <1>2
  <2>3. QED
    BY <1>1, <1>3, <2>1, <2>2, SameCall DEF AnswerFits
<1>6. QED
  BY <1>1, <1>3, <1>4, <1>5, CarriedOutKinds, AnsweredFits

\* A runtime that goes.
LEMMA DeleteFits ==
  ASSUME Inv, DirectorDeletes
  PROVE  OutcomeInv'
<1>1. /\ call \in ClientCall /\ runtimes \in [RuntimeIDs -> Runtime] /\ RuntimesFit
      /\ At("request") /\ call.op = "DeleteRuntime" /\ call.id \in RuntimeLabel
      /\ Knows(call.id, call.account)
  BY Types DEF Inv, OutcomeInv, DirectorDeletes
<1>2. PICK i \in RuntimeIDs : i = call.id
  BY <1>1 DEF Knows, Live, RuntimeLabel
<1>3. runtimes' = [runtimes EXCEPT ![i].state = "deleted"]
  BY <1>1, <1>2 DEF DirectorDeletes, DeleteRuntime, TookEffect
<1>4. PICK answer \in {Result(i)} \cup Spoiled : Answers(answer, i)
  BY <1>2 DEF DirectorDeletes
<1>5. RuntimesFit'
  <2>1. ~Unused(i)
    BY <1>1, <1>2 DEF Knows, Live, Unused
  <2>2. QED
    BY <1>1, <1>3, <2>1 DEF RuntimesFit, Unused, Runtime
<1>6. i \in RuntimeLabel /\ answer \in Answer /\ answer.kind # "NotFound" /\ i # NoID
  BY CarriedOutKinds, LandscapeAssumption DEF RuntimeLabel
<1>7. AnswerFits(answer, i)'
  <2>1. runtimes'[i].state = "deleted" /\ runtimes'[i].account = call.account
    BY <1>1, <1>2, <1>3 DEF Runtime, Knows
  <2>2. QED
    BY <1>1, <1>2, <1>4, <1>6, <2>1, SameCall DEF AnswerFits
<1>8. QED
  BY <1>1, <1>4, <1>5, <1>6, <1>7, AnsweredFits

\* A connection token, the data of a runtime, or a refusal.
LEMMA ReadFits ==
  ASSUME Inv, DirectorIssuesToken \/ DirectorRefuses
  PROVE  OutcomeInv'
<1>1. /\ call \in ClientCall /\ At("request") /\ RuntimesFit
      /\ call.id \in RuntimeLabel /\ NoID \in RuntimeLabel /\ runtimes' = runtimes
  BY Types DEF Inv, OutcomeInv, DirectorIssuesToken, DirectorRefuses, RuntimeLabel, dirVars
<1>2. RuntimesFit'
  BY <1>1 DEF RuntimesFit, Unused
<1>3. CASE DirectorIssuesToken
  <2>1. PICK answer \in {Result(call.id)} \cup Spoiled : Answers(answer, NoID)
    BY <1>3 DEF DirectorIssuesToken
  <2>2. Knows(call.id, call.account) /\ call.op \in {"GetConnectionToken", "GetRuntime"}
    BY <1>3 DEF DirectorIssuesToken
  <2>3. Knows(call.id, call.account)' /\ UNCHANGED <<call.op, call.id, call.account>>
    BY <1>1, <2>1, <2>2, SameCall DEF Knows, Live
  <2>4. AnswerFits(answer, NoID)'
    BY <2>2, <2>3 DEF AnswerFits
  <2>5. QED
    BY <1>1, <1>2, <2>1, <2>4, CarriedOutKinds, AnsweredFits
<1>4. CASE DirectorRefuses
  <2>1. PICK answer \in Refusals \cup Failures : Answers(answer, NoID)
    BY <1>4 DEF DirectorRefuses
  <2>2. AnswerFits(answer, NoID)'
    BY <1>1, <2>1, SameCall, RefusalKinds DEF AnswerFits, Knows, Live
  <2>3. QED
    BY <1>1, <1>2, <2>1, <2>2, RefusalKinds, AnsweredFits
<1>5. QED
  BY <1>3, <1>4

\* OutcomeInv is inductive.
LEMMA OutcomeStep == Inv /\ [ClientNext]_clientVars => OutcomeInv'
<1> SUFFICES ASSUME Inv, [ClientNext]_clientVars
             PROVE  OutcomeInv'
  OBVIOUS
<1>1. CASE UNCHANGED clientVars \/ Revoke \/ Tick
  <2>1. exchange \in Exchange /\ OutcomeInv
    BY Types DEF Inv
  <2>2. /\ call' = call /\ runtimes' = runtimes
        /\ exchange'.answer = exchange.answer /\ exchange'.changed = exchange.changed
    BY <1>1, <2>1 DEF clientVars, Revoke, Tick, dirVars, Exchange
  <2>3. QED
    BY <2>1, <2>2
    DEF OutcomeInv, RuntimesFit, CallFits, ExchangeFits, AnswerFits, Unused, Knows, Live, At
<1>2. CASE NoTokenObtained \/ ReceiveAnswer \/ \E broken \in BOOLEAN : Do(broken)
  <2>1. /\ AttemptFails \/ \E i : AttemptSucceeds(i)
        /\ InFlight /\ runtimes' = runtimes
    BY <1>2 DEF NoTokenObtained, ReceiveAnswer, Do, InFlight, At, dirVars
  <2>2. QED
    BY <2>1, EndFits
<1>3. QED
  BY <1>1, <1>2, LoopFits, CreateFits, DeleteFits, ReadFits DEF ClientNext

-----------------------------------------------------------------------------
(***************************************************************************)
(* The refinement.                                                         *)
(***************************************************************************)
\* No call has been made at first.
LEMMA OutcomeStart == ClientInit => Calls!CallsInit
<1> SUFFICES ASSUME ClientInit
             PROVE  Calls!CallsInit
  OBVIOUS
<1>1. BeforeRequest = runtimes
  BY DEF ClientInit, BeforeRequest
<1>2. CallSoFar = Calls!NoCall
  BY DEF ClientInit, CallSoFar, Calls!NoCall, InFlight, At
<1>3. QED
  BY <1>1, <1>2
  DEF ClientInit, DirInit, UnusedRuntime, NoAgent,
      Calls!CallsInit, Calls!DirInit, Calls!UnusedRuntime, Calls!NoAgent

\* Until an answer is on the way, the Director is shown as it is.
LEMMA ShownAsItIs == exchange.changed = NoID => BeforeRequest = runtimes
  BY DEF BeforeRequest

\* What the caller of an attempt under way sees, and when it has ended.
LEMMA UnderWay ==
  /\ InFlight \/ At("try") =>
       CallSoFar = [op |-> call.op, kyma |-> call.kyma, account |-> call.account,
                    id |-> call.id, result |-> "pending"]
  /\ ~(InFlight \/ At("try")) =>
       CallSoFar = [op |-> call.op, kyma |-> call.kyma, account |-> call.account,
                    id |-> call.id, result |-> IF call.ok THEN "ok" ELSE "error"]
  BY DEF CallSoFar

\* The last call, once it has ended.
LEMMA EndedCall ==
  \A s, j : [CallSoFar EXCEPT !.result = s, !.id = j] =
              [op |-> call.op, kyma |-> call.kyma, account |-> call.account,
               id |-> j, result |-> s]
<1> SUFFICES ASSUME NEW s, NEW j
             PROVE  [CallSoFar EXCEPT !.result = s, !.id = j] =
                      [op |-> call.op, kyma |-> call.kyma,
                       account |-> call.account, id |-> j, result |-> s]
  OBVIOUS
<1>1. PICK r : CallSoFar = [op |-> call.op, kyma |-> call.kyma,
                            account |-> call.account, id |-> call.id, result |-> r]
  BY DEF CallSoFar
<1>2. PICK d : d = [op |-> call.op, kyma |-> call.kyma, account |-> call.account,
                    id |-> call.id, result |-> s]
  OBVIOUS
<1>3. [CallSoFar EXCEPT !.result = s] = d
  BY <1>1, <1>2
<1>4. [d EXCEPT !.id = j] = [op |-> call.op, kyma |-> call.kyma,
                             account |-> call.account, id |-> j, result |-> s]
  BY <1>2
<1>5. [CallSoFar EXCEPT !.result = s, !.id = j]
        = [[CallSoFar EXCEPT !.result = s] EXCEPT !.id = j]
  OBVIOUS
<1>6. [[CallSoFar EXCEPT !.result = s] EXCEPT !.id = j] = [d EXCEPT !.id = j]
  BY <1>3
<1>7. QED
  BY <1>4, <1>5, <1>6

\* What the caller sees of the step in which an attempt ends.
Ends(ok, i) ==
  /\ CallSoFar.result = "pending" /\ CallSoFar.op = call.op
  /\ CallSoFar.kyma = call.kyma /\ CallSoFar.account = call.account
  /\ CallSoFar.id = call.id
  /\ CallSoFar' = [CallSoFar EXCEPT !.result = IF ok THEN "ok" ELSE "error",
                                    !.id     = IF ok THEN i ELSE @]
  /\ BeforeRequest' = runtimes /\ agent' = agent

\* An attempt fails.
LEMMA FailureEnds ==
  ASSUME Inv, InFlight, AttemptFails, UNCHANGED dirVars, NEW i
  PROVE  Ends(FALSE, i)
<1>1. /\ call \in ClientCall /\ exchange \in Exchange /\ ~call.ok
  BY Types DEF Inv, OutcomeInv, CallFits, InFlight, At
<1>2. /\ call' = [call EXCEPT !.pc = "sleep"] /\ exchange'.changed = NoID
      /\ runtimes' = runtimes /\ agent' = agent
  BY <1>1 DEF AttemptFails, Exchange, dirVars
<1>3. CallSoFar' = [op |-> call.op, kyma |-> call.kyma, account |-> call.account,
                    id |-> call.id, result |-> "error"]
  BY <1>1, <1>2 DEF CallSoFar, InFlight, At, ClientCall
<1>4. CallSoFar = [op |-> call.op, kyma |-> call.kyma, account |-> call.account,
                   id |-> call.id, result |-> "pending"]
  BY UnderWay
<1>5. BeforeRequest' = runtimes
  BY <1>2 DEF BeforeRequest
<1>6. CallSoFar' = [CallSoFar EXCEPT !.result = "error", !.id = CallSoFar.id]
  <2>1. [CallSoFar EXCEPT !.result = "error", !.id = CallSoFar.id] =
          [op |-> call.op, kyma |-> call.kyma, account |-> call.account,
           id |-> CallSoFar.id, result |-> "error"]
    BY EndedCall
  <2>2. QED
    BY <1>3, <1>4, <2>1
<1>7. QED
  BY <1>2, <1>4, <1>5, <1>6 DEF Ends

\* An attempt succeeds.
LEMMA SuccessEnds ==
  ASSUME Inv, InFlight, UNCHANGED dirVars, NEW i, AttemptSucceeds(i)
  PROVE  Ends(TRUE, i)
<1>1. call \in ClientCall /\ exchange \in Exchange
  BY Types DEF Inv
<1>2. /\ call' = [call EXCEPT !.pc = "idle", !.id = i, !.ok = TRUE]
      /\ exchange'.changed = NoID /\ runtimes' = runtimes /\ agent' = agent
  BY <1>1 DEF AttemptSucceeds, Exchange, dirVars
<1>3. CallSoFar' = [op |-> call.op, kyma |-> call.kyma, account |-> call.account,
                    id |-> i, result |-> "ok"]
  BY <1>1, <1>2 DEF CallSoFar, InFlight, At, ClientCall
<1>4. CallSoFar = [op |-> call.op, kyma |-> call.kyma, account |-> call.account,
                   id |-> call.id, result |-> "pending"]
  BY UnderWay
<1>5. BeforeRequest' = runtimes
  BY <1>2 DEF BeforeRequest
<1>6. CallSoFar' = [CallSoFar EXCEPT !.result = "ok", !.id = i]
  <2>1. [CallSoFar EXCEPT !.result = "ok", !.id = i] =
          [op |-> call.op, kyma |-> call.kyma, account |-> call.account,
           id |-> i, result |-> "ok"]
    BY EndedCall
  <2>2. QED
    BY <1>3, <1>4, <2>1
<1>7. QED
  BY <1>2, <1>4, <1>5, <1>6 DEF Ends

\* A runtime that was created is shown as unused until its caller has an answer.
LEMMA CreatedBefore ==
  ASSUME Inv, exchange.changed # NoID, call.op = "CreateRuntime"
  PROVE  /\ exchange.changed \in RuntimeIDs
         /\ BeforeRequest \in [RuntimeIDs -> Runtime]
         /\ BeforeRequest[exchange.changed].state = "unused"
         /\ runtimes = [BeforeRequest EXCEPT ![exchange.changed] =
                          [state |-> "live", kyma |-> call.kyma,
                           account |-> call.account]]
<1>1. /\ exchange.changed \in RuntimeIDs /\ runtimes \in [RuntimeIDs -> Runtime]
      /\ runtimes[exchange.changed] = [state |-> "live", kyma |-> call.kyma,
                                       account |-> call.account]
  BY Types DEF Inv, OutcomeInv, ExchangeFits, AnswerFits, RuntimeLabel
<1>2. BeforeRequest = [runtimes EXCEPT ![exchange.changed] = UnusedRuntime]
  BY DEF BeforeRequest
<1>3. UnusedRuntime \in Runtime /\ UnusedRuntime.state = "unused"
  BY DEF UnusedRuntime, Runtime, AccountLabel
<1>4. QED
  BY <1>1, <1>2, <1>3

\* A runtime that was deleted is shown as live until its caller has an answer.
LEMMA DeletedBefore ==
  ASSUME Inv, exchange.changed # NoID, call.op = "DeleteRuntime"
  PROVE  /\ call.id \in RuntimeIDs /\ exchange.changed = call.id
         /\ BeforeRequest[call.id].state = "live"
         /\ BeforeRequest[call.id].account = call.account
         /\ runtimes = [BeforeRequest EXCEPT ![call.id].state = "deleted"]
         /\ call.account # NoAccount
<1>1. /\ call.id \in RuntimeIDs /\ exchange.changed = call.id
      /\ runtimes \in [RuntimeIDs -> Runtime]
      /\ runtimes[call.id].state = "deleted"
      /\ runtimes[call.id].account = call.account
      /\ RuntimesFit
  BY Types DEF Inv, OutcomeInv, ExchangeFits, AnswerFits, RuntimeLabel
<1>2. BeforeRequest = [runtimes EXCEPT ![call.id] = [@ EXCEPT !.state = "live"]]
  BY <1>1 DEF BeforeRequest
<1>3. runtimes[call.id].account # NoAccount
  BY <1>1 DEF RuntimesFit, Unused
<1>4. runtimes[call.id] =
        [[runtimes[call.id] EXCEPT !.state = "live"] EXCEPT !.state = "deleted"]
  BY <1>1 DEF Runtime
<1>5. runtimes = [BeforeRequest EXCEPT ![call.id].state = "deleted"]
  BY <1>1, <1>2, <1>4
<1>6. QED
  BY <1>1, <1>2, <1>3, <1>5 DEF Runtime

\* An attempt of an operation that reads can fail at any time.
LEMMA ReadEnds ==
  ASSUME call.op \in {"GetRuntime", "GetConnectionToken"}, BeforeRequest = runtimes,
         NEW ok \in BOOLEAN, Ends(ok, call.id), ok => Knows(call.id, call.account)
  PROVE  Calls!CallsNext
<1>1. PICK o \in Outcomes : o = IF ok THEN "ok" ELSE "failed"
  BY DEF Outcomes
<1>2. Calls!TokenIssued(CallSoFar.id, CallSoFar.account, o) = ok
  BY <1>1 DEF Calls!TokenIssued, Calls!Knows, Calls!Live, Knows, Live, Ends
<1>3. /\ Calls!EndCall(Calls!TokenIssued(CallSoFar.id, CallSoFar.account, o), CallSoFar.id)
      /\ UNCHANGED Calls!dirVars
  BY <1>2 DEF Ends, Calls!EndCall, Calls!dirVars
<1>4. Calls!CallGetRuntime(o) \/ Calls!CallGetConnectionToken(o)
  BY <1>3 DEF Ends, Calls!CallGetRuntime, Calls!CallGetConnectionToken, Calls!Pending
<1>5. o \in Calls!Outcomes
  BY DEF Outcomes, Calls!Outcomes
<1>6. QED
  BY <1>4, <1>5 DEF Calls!CallsNext

\* A registration ends as if it had happened at its end, or not at all.
LEMMA CreateEnds ==
  ASSUME Inv, RuntimeIDs # {}, call.op = "CreateRuntime", NEW ok \in BOOLEAN,
         NEW i, Ends(ok, i), ok => i # NoID /\ i = exchange.changed
  PROVE  Calls!CallsNext
<1>1. CASE exchange.changed = NoID
  <2>1. PICK j \in RuntimeIDs : TRUE
    OBVIOUS
  <2>2. BeforeRequest' = BeforeRequest /\ agent' = agent /\ ~ok
    BY <1>1, ShownAsItIs DEF Ends
  <2>3. Calls!CreateRuntime(j, CallSoFar.kyma, CallSoFar.account, "failed")
    BY <2>2 DEF Calls!CreateRuntime, Calls!TookEffect
  <2>4. Calls!CallCreateRuntime(j, "failed")
    BY <2>2, <2>3 DEF Ends, Calls!CallCreateRuntime, Calls!Pending, Calls!EndCall
  <2>5. QED
    BY <2>4 DEF Calls!CallsNext, Calls!Outcomes
<1>2. CASE exchange.changed # NoID
  <2>1. PICK j \in RuntimeIDs : j = exchange.changed
    BY <1>2, CreatedBefore
  <2>2. PICK o \in {"ok", "lost"} : o = IF ok THEN "ok" ELSE "lost"
    OBVIOUS
  <2>3. Calls!CreateRuntime(j, CallSoFar.kyma, CallSoFar.account, o)
    BY <1>2, <2>1, <2>2, CreatedBefore
    DEF Ends, Calls!CreateRuntime, Calls!TookEffect, Calls!Unused
  <2>4. Calls!EndCall(o = "ok", j)
    BY <2>1, <2>2 DEF Ends, Calls!EndCall
  <2>5. Calls!CallCreateRuntime(j, o)
    BY <2>3, <2>4 DEF Ends, Calls!CallCreateRuntime, Calls!Pending
  <2>6. QED
    BY <2>5 DEF Calls!CallsNext, Calls!Outcomes
<1>3. QED
  BY <1>1, <1>2

\* So does a deregistration; one that finds no runtime has happened before.
LEMMA DeleteEnds ==
  ASSUME Inv, call.op = "DeleteRuntime", NEW ok \in BOOLEAN, Ends(ok, call.id),
         ok => \/ exchange.changed # NoID
               \/ ~Knows(call.id, call.account) /\ call.account # NoAccount
  PROVE  Calls!CallsNext
<1>1. PICK o \in Outcomes : /\ ok => o = "ok"
                            /\ ~ok /\ exchange.changed = NoID => o = "failed"
                            /\ ~ok /\ exchange.changed # NoID => o = "lost"
  BY DEF Outcomes
<1>2. Calls!DeleteRuntime(CallSoFar.id, CallSoFar.account, o)
  <2>1. CASE exchange.changed = NoID
    <3>1. BeforeRequest = runtimes /\ (o = "failed" \/ ~Knows(call.id, call.account))
      BY <1>1, <2>1, ShownAsItIs
    <3>2. QED
      BY <3>1
      DEF Ends, Calls!DeleteRuntime, Calls!TookEffect, Calls!Knows, Calls!Live, Knows, Live
  <2>2. CASE exchange.changed # NoID
    <3>1. Calls!Knows(CallSoFar.id, CallSoFar.account) /\ o # "failed"
      BY <1>1, <2>2, DeletedBefore, LandscapeAssumption DEF Ends, Calls!Knows, Calls!Live
    <3>2. QED
      BY <2>2, <3>1, DeletedBefore DEF Ends, Calls!DeleteRuntime, Calls!TookEffect
  <2>3. QED
    BY <2>1, <2>2
<1>3. Calls!DeleteSucceeds(CallSoFar.account, o) = ok
  BY <1>1, DeletedBefore DEF Ends, Calls!DeleteSucceeds
<1>4. Calls!EndCall(Calls!DeleteSucceeds(CallSoFar.account, o), CallSoFar.id)
  BY <1>3 DEF Ends, Calls!EndCall
<1>5. Calls!CallDeleteRuntime(o)
  BY <1>2, <1>4 DEF Ends, Calls!CallDeleteRuntime, Calls!Pending
<1>6. QED
  BY <1>5 DEF Calls!CallsNext, Outcomes, Calls!Outcomes

\* An attempt that fails is a call with the outcome "failed" or "lost".
LEMMA FailureIsOutcome ==
  ASSUME Inv, RuntimeIDs # {}, InFlight, AttemptFails, UNCHANGED dirVars
  PROVE  Calls!CallsNext
<1>1. call.op \in {"CreateRuntime", "GetRuntime", "GetConnectionToken", "DeleteRuntime"}
  BY Types DEF Inv, InFlight, At
<1>2. PICK i : i = call.id
  OBVIOUS
<1>3. Ends(FALSE, i) /\ Ends(FALSE, call.id)
  BY <1>2, FailureEnds
<1>4. CASE call.op = "CreateRuntime"
  BY <1>3, <1>4, CreateEnds
<1>5. CASE call.op = "DeleteRuntime"
  BY <1>3, <1>5, DeleteEnds
<1>6. CASE call.op \in {"GetRuntime", "GetConnectionToken"}
  <2>1. BeforeRequest = runtimes
    BY <1>6, ShownAsItIs DEF Inv, OutcomeInv, ExchangeFits, AnswerFits
  <2>2. QED
    BY <1>3, <1>6, <2>1, ReadEnds
<1>7. QED
  BY <1>1, <1>4, <1>5, <1>6

\* An answer that is taken for success is one.
LEMMA SuccessIsOutcome ==
  ASSUME Inv, RuntimeIDs # {}, ReceiveAnswer, CallError = NoError
  PROVE  Calls!CallsNext
<1>1. /\ At("answer") /\ InFlight /\ UNCHANGED dirVars /\ exchange.answer \in Answer
      /\ call.op \in {"CreateRuntime", "GetRuntime", "GetConnectionToken", "DeleteRuntime"}
      /\ AnswerFits(exchange.answer, exchange.changed)
  BY Types DEF Inv, OutcomeInv, ExchangeFits, ReceiveAnswer, InFlight, At
<1>2. PICK i : i = IF call.op = "CreateRuntime" THEN exchange.answer.id ELSE call.id
  OBVIOUS
<1>3. Ends(TRUE, i)
  <2>1. AttemptSucceeds(i)
    BY <1>2 DEF ReceiveAnswer
  <2>2. QED
    BY <1>1, <2>1, SuccessEnds
<1>4. CASE call.op = "CreateRuntime"
  <2>1. exchange.answer.kind = "result" /\ exchange.answer.id # NoID
    BY <1>1, <1>4
    DEF CallError, CreateRuntimeError, GraphQLError, Annotated,
        mapDirectorErrorToProvisionerError, Answer, NoError, Internal, BadGateway,
        BadRequest, NotFound, InvalidGlobalAccount, DirectorErrorTypes
  <2>2. i # NoID /\ i = exchange.changed
    BY <1>1, <1>2, <1>4, <2>1 DEF AnswerFits
  <2>3. QED
    BY <1>3, <1>4, <2>2, CreateEnds
<1>5. CASE call.op = "DeleteRuntime"
  <2>1. exchange.answer.kind \in {"result", "NotFound"}
    BY <1>1, <1>5
    DEF CallError, DeleteRuntimeError, GraphQLError, Annotated,
        mapDirectorErrorToProvisionerError, Answer, NoError, Internal, BadGateway,
        BadRequest, NotFound, InvalidGlobalAccount, DirectorErrorTypes
  <2>2. \/ exchange.changed # NoID
        \/ ~Knows(call.id, call.account) /\ call.account # NoAccount
    BY <1>1, <1>5, <2>1 DEF AnswerFits
  <2>3. Ends(TRUE, call.id)
    BY <1>2, <1>3, <1>5
  <2>4. QED
    BY <1>5, <2>2, <2>3, DeleteEnds
<1>6. CASE call.op \in {"GetRuntime", "GetConnectionToken"}
  <2>1. exchange.answer.kind = "result"
    BY <1>1, <1>6
    DEF CallError, GetRuntimeError, GetConnectionTokenError, GraphQLError, Annotated,
        mapDirectorErrorToProvisionerError, Answer, NoError, Internal, BadGateway,
        BadRequest, NotFound, InvalidGlobalAccount, DirectorErrorTypes
  <2>2. BeforeRequest = runtimes /\ Knows(call.id, call.account)
    BY <1>1, <1>6, <2>1, ShownAsItIs DEF AnswerFits
  <2>3. Ends(TRUE, call.id)
    BY <1>2, <1>3, <1>6
  <2>4. QED
    BY <1>6, <2>2, <2>3, ReadEnds
<1>7. QED
  BY <1>1, <1>4, <1>5, <1>6

\* Another operation, or another attempt of one.
LEMMA StartIsCall ==
  ASSUME Inv, Operation \/ (Wake /\ ~LastAttempt(call.attempt))
  PROVE  Calls!CallsNext
<1>1. /\ call \in ClientCall /\ exchange \in Exchange /\ exchange.changed = NoID
      /\ (At("idle") \/ At("sleep"))
  BY Types DEF Inv, OutcomeInv, ExchangeFits, Operation, Begin, Wake, At
<1>2. BeforeRequest' = BeforeRequest /\ agent' = agent
  <2>1. exchange'.changed = NoID /\ runtimes' = runtimes /\ agent' = agent
    BY <1>1 DEF Operation, Begin, Wake, dirVars, Exchange
  <2>2. BeforeRequest' = runtimes /\ BeforeRequest = runtimes
    BY <1>1, <2>1 DEF BeforeRequest
  <2>3. QED
    BY <2>1, <2>2
<1>3. CallSoFar.result # "pending"
  BY <1>1 DEF CallSoFar, InFlight, At
<1>4. PICK op \in Calls!Operations, k \in Kymas \cup {NoKyma}, a \in AccountLabel,
           i \in RuntimeLabel :
             /\ op # "none"
             /\ call'.pc = "try" /\ call'.op = op /\ call'.kyma = k
             /\ call'.account = a /\ call'.id = i
  <2>1. CASE Operation
    <3>1. Accounts \subseteq AccountLabel /\ NoID \in RuntimeLabel
      BY DEF AccountLabel, RuntimeLabel
    <3>2. PICK op \in {"CreateRuntime", "GetRuntime", "GetConnectionToken", "DeleteRuntime"},
               k \in Kymas \cup {NoKyma}, a \in AccountLabel, i \in RuntimeLabel :
                 Begin(op, k, a, i)
      BY <2>1, <3>1 DEF Operation
    <3>3. /\ call'.pc = "try" /\ call'.op = op /\ call'.kyma = k
          /\ call'.account = a /\ call'.id = i
      BY <3>2 DEF Begin
    <3>4. op \in Calls!Operations /\ op # "none"
      BY DEF Calls!Operations
    <3>5. QED
      BY <3>3, <3>4
  <2>2. CASE Wake /\ ~LastAttempt(call.attempt)
    <3>1. /\ call'.pc = "try" /\ call'.op = call.op /\ call'.kyma = call.kyma
          /\ call'.account = call.account /\ call'.id = call.id
      BY <1>1, <2>2 DEF Wake, ClientCall
    <3>2. call.op \in Calls!Operations /\ call.op # "none"
      BY <2>2, Types DEF Inv, Wake, At, Calls!Operations
    <3>3. QED
      BY <1>1, <3>1, <3>2, Types DEF Inv, ClientCall
  <2>3. QED
    BY <2>1, <2>2
<1>5. CallSoFar' = [op |-> op, kyma |-> k, account |-> a, id |-> i,
                    result |-> "pending"]
  BY <1>4 DEF CallSoFar, InFlight, At
<1>6. Calls!StartCall(op, k, a, i)
  BY <1>2, <1>3, <1>5 DEF Calls!StartCall, Calls!dirVars
<1>7. QED
  BY <1>4, <1>6
  DEF Calls!CallsNext, Calls!AccountLabel, Calls!RuntimeLabel, AccountLabel, RuntimeLabel

\* A request is prepared, or refused, or asks for something to read.
LEMMA QuietIsUnseen ==
  ASSUME Inv,
         \/ executeDirectorGraphQLCall
         \/ \E ago \in 0 .. Timeout : getToken(ago)
         \/ DirectorIssuesToken
         \/ DirectorRefuses
  PROVE  UNCHANGED Calls!callVars
<1>1. /\ call \in ClientCall /\ exchange \in Exchange /\ exchange.changed = NoID
  BY Types
  DEF Inv, OutcomeInv, ExchangeFits, executeDirectorGraphQLCall, getToken,
      DirectorIssuesToken, DirectorRefuses, At
<1>2. CASE executeDirectorGraphQLCall \/ \E ago \in 0 .. Timeout : getToken(ago)
  <2>1. /\ exchange'.changed = NoID /\ runtimes' = runtimes /\ agent' = agent
        /\ (InFlight \/ At("try")) /\ call'.pc \in {"token", "request"}
        /\ call'.op = call.op /\ call'.kyma = call.kyma
        /\ call'.account = call.account /\ call'.id = call.id
    BY <1>1, <1>2
    DEF executeDirectorGraphQLCall, getToken, Send, dirVars, Exchange, ClientCall,
        InFlight, At
  <2>2. QED
    BY <1>1, <2>1 DEF BeforeRequest, CallSoFar, InFlight, At, Calls!callVars
<1>3. CASE DirectorIssuesToken \/ DirectorRefuses
  <2>1. /\ At("request") /\ runtimes' = runtimes /\ agent' = agent
        /\ \E answer : Answers(answer, NoID)
    BY <1>3 DEF DirectorIssuesToken, DirectorRefuses, dirVars
  <2>2. /\ exchange'.changed = NoID /\ call' = [call EXCEPT !.pc = "answer"]
    BY <1>1, <2>1 DEF Answers, Exchange
  <2>3. /\ call'.pc = "answer" /\ call'.op = call.op /\ call'.kyma = call.kyma
        /\ call'.account = call.account /\ call'.id = call.id
    BY <1>1, <2>2 DEF ClientCall
  <2>4. QED
    BY <1>1, <2>1, <2>2, <2>3 DEF BeforeRequest, CallSoFar, InFlight, At, Calls!callVars
<1>4. QED
  BY <1>2, <1>3

\* Nor is a runtime that is created or deleted, until the answer is there.
LEMMA ChangeIsUnseen ==
  ASSUME Inv, DirectorDeletes \/ \E i \in RuntimeIDs : DirectorCreates(i)
  PROVE  UNCHANGED Calls!callVars
<1>1. /\ call \in ClientCall /\ exchange \in Exchange /\ exchange.changed = NoID
      /\ runtimes \in [RuntimeIDs -> Runtime] /\ RuntimesFit /\ At("request")
      /\ BeforeRequest = runtimes
  BY Types, ShownAsItIs
  DEF Inv, OutcomeInv, ExchangeFits, DirectorDeletes, DirectorCreates, At
<1>2. PICK i \in RuntimeIDs :
        /\ (\E answer : Answers(answer, i)) /\ agent' = agent
        /\ (DirectorCreates(i) \/ (DirectorDeletes /\ i = call.id))
  <2>1. CASE DirectorDeletes
    <3>1. call.id \in RuntimeIDs
      BY <2>1, Types DEF Inv, DirectorDeletes, Knows, Live, RuntimeLabel
    <3>2. QED
      BY <2>1, <3>1 DEF DirectorDeletes, DeleteRuntime
  <2>2. CASE \E i \in RuntimeIDs : DirectorCreates(i)
    BY <2>2 DEF DirectorCreates, CreateRuntime
  <2>3. QED
    BY <2>1, <2>2
<1>3. /\ exchange'.changed = i /\ i # NoID /\ call'.pc = "answer"
      /\ call'.op = call.op /\ call'.kyma = call.kyma
      /\ call'.account = call.account /\ call'.id = call.id
  BY <1>1, <1>2, LandscapeAssumption DEF Answers, Exchange, ClientCall
<1>4. CallSoFar' = CallSoFar
  BY <1>1, <1>3 DEF CallSoFar, InFlight, At
<1>5. BeforeRequest' = runtimes
  <2>1. CASE DirectorCreates(i)
    <3>1. /\ call.op = "CreateRuntime" /\ Unused(i)
          /\ runtimes' = [runtimes EXCEPT ![i] = [state |-> "live", kyma |-> call.kyma,
                                                  account |-> call.account]]
      BY <2>1 DEF DirectorCreates, CreateRuntime, TookEffect
    <3>2. BeforeRequest' = [runtimes' EXCEPT ![i] = UnusedRuntime]
      BY <1>3, <3>1 DEF BeforeRequest, UnusedRuntime
    <3>3. runtimes[i] = UnusedRuntime
      BY <1>1, <3>1 DEF RuntimesFit
    <3>4. QED
      BY <1>1, <3>1, <3>2, <3>3
  <2>2. CASE DirectorDeletes /\ i = call.id
    <3>1. /\ call.op = "DeleteRuntime" /\ runtimes[i].state = "live"
          /\ runtimes' = [runtimes EXCEPT ![i].state = "deleted"]
      BY <2>2 DEF DirectorDeletes, DeleteRuntime, TookEffect, Knows, Live
    <3>2. BeforeRequest' = [runtimes' EXCEPT ![i] = [@ EXCEPT !.state = "live"]]
      BY <1>3, <3>1 DEF BeforeRequest
    <3>3. runtimes'[i] = [runtimes[i] EXCEPT !.state = "deleted"]
      BY <1>1, <3>1
    <3>4. [[runtimes[i] EXCEPT !.state = "deleted"] EXCEPT !.state = "live"] = runtimes[i]
      BY <1>1, <3>1 DEF Runtime
    <3>5. QED
      BY <1>1, <3>1, <3>2, <3>3, <3>4
  <2>3. QED
    BY <1>2, <2>1, <2>2
<1>6. QED
  BY <1>1, <1>2, <1>4, <1>5 DEF Calls!callVars

\* Time, revoked tokens, and the end of the loop.
LEMMA TimeIsUnseen ==
  ASSUME Inv,
         \/ UNCHANGED clientVars \/ Revoke \/ Tick
         \/ Wake /\ LastAttempt(call.attempt)
  PROVE  UNCHANGED Calls!callVars
<1>1. /\ call \in ClientCall /\ exchange \in Exchange
      /\ runtimes' = runtimes /\ agent' = agent
  BY Types DEF Inv, clientVars, Revoke, Tick, Wake, dirVars
<1>2. exchange'.changed = exchange.changed
  BY <1>1 DEF clientVars, Revoke, Tick, Wake, Exchange
<1>3. call'.op = call.op
  BY <1>1 DEF clientVars, Revoke, Tick, Wake, ClientCall
<1>4. BeforeRequest' = BeforeRequest
  BY <1>1, <1>2, <1>3 DEF BeforeRequest
<1>5. CallSoFar' = CallSoFar
  <2>1. CASE call' = call
    BY <2>1 DEF CallSoFar, InFlight, At
  <2>2. CASE call' # call
    <3>1. At("sleep") /\ call' = [call EXCEPT !.pc = "idle"]
      BY <2>2 DEF clientVars, Revoke, Tick, Wake
    <3>2. QED
      BY <1>1, <3>1 DEF CallSoFar, InFlight, At, ClientCall
  <2>3. QED
    BY <2>1, <2>2
<1>6. QED
  BY <1>1, <1>4, <1>5 DEF Calls!callVars

-----------------------------------------------------------------------------
\* Every step of the client is a step of a call, or is not seen by its caller.
LEMMA ClientRefines ==
  ASSUME RuntimeIDs # {}
  PROVE  Inv /\ [ClientNext]_clientVars => [Calls!CallsNext]_(Calls!callVars)
<1> SUFFICES ASSUME Inv, [ClientNext]_clientVars
             PROVE  [Calls!CallsNext]_(Calls!callVars)
  OBVIOUS
<1>1. CASE NoTokenObtained \/ \E broken \in BOOLEAN : Do(broken)
  <2>1. InFlight /\ AttemptFails /\ UNCHANGED dirVars
    BY <1>1 DEF NoTokenObtained, Do, InFlight, At
  <2>2. QED
    BY <2>1, FailureIsOutcome
<1>2. CASE ReceiveAnswer
  <2>1. CASE CallError = NoError
    BY <1>2, <2>1, SuccessIsOutcome
  <2>2. CASE CallError # NoError
    <3>1. InFlight /\ AttemptFails /\ UNCHANGED dirVars
      BY <1>2, <2>2 DEF ReceiveAnswer, InFlight, At
    <3>2. QED
      BY <3>1, FailureIsOutcome
  <2>3. QED
    BY <2>1, <2>2
<1>3. QED
  BY <1>1, <1>2, StartIsCall, QuietIsUnseen, ChangeIsUnseen, TimeIsUnseen DEF ClientNext

\* However tokens, requests, answers and timeouts interleave, an attempt is for its
\* caller one step of the Director with one of the three Outcomes, for any number
\* of attempts, any timeout, and any lifetime of a token (directorclient.go).
THEOREM ClientImplementsCalls ==
  ASSUME RuntimeIDs # {}
  PROVE  ClientSpec => CallsAreOutcomes
<1>1. ClientSpec => []Inv
  BY ClientTypeInit, ClientTypeStep, OutcomeInit, OutcomeStep, PTL DEF ClientSpec, Inv
<1>2. QED
  BY <1>1, OutcomeStart, ClientRefines, PTL DEF ClientSpec, CallsAreOutcomes, Calls!CallsSpec
=============================================================================
