--------------------------- MODULE ThunderRequestProof --------------------------
(***************************************************************************)
(* Proofs about ThunderRequest for any number of calls and any capacity of *)
(* the queue.  One inductive invariant: the checked invariants, and what   *)
(* the transaction, the timeout and the stop of the client say of each     *)
(* other.                                                                  *)
(***************************************************************************)
EXTENDS ThunderRequest, TLAPS

\* A call is one of the batch until its pause is over.
CallInBatch == cpc \notin {"batch", "ended"} => call <= Calls

\* The permit is held from send_request to its return.
PermitHeld == cpc \in {"prepare", "wait", "join", "return"} => permits = 1

\* A transaction is complete only after its runner started, and no handler but the
\* one that completed it runs afterwards: it stops the client.
OneEnd ==
  /\ cpc = "prepare" => ~completed
  /\ runner \in Handling => ~completed
  /\ runner = "poll" /\ completed => stopped

\* A result with the id of the call completes the transaction.
ReceivedIsResult == responseReceived => completed /\ responseData = "result"

\* Success is read from a complete transaction, never after a timeout.
SuccessIsFinal ==
  /\ finalSuccess => responseReceived
  /\ timedOut => ~finalSuccess /\ cpc \notin {"prepare", "wait"}

IInv ==
  /\ TypeOK /\ CallInBatch /\ PermitHeld /\ PermitReturned
  /\ HandlersInCall /\ OneEnd /\ ReceivedIsResult /\ SuccessIsFinal /\ SuccessIsOwn

-----------------------------------------------------------------------------
\* Initially no call has been made.
LEMMA InitIInv == Init => IInv
<1> SUFFICES ASSUME Init PROVE IInv
  OBVIOUS
<1>1. TypeOK
  <2>1. call \in 1 .. Calls + 1 /\ permits \in 0..1
    BY CallsAssumption DEF Init
  <2>2. {uriSet, exitRequested, completed, sendSuccess, responseReceived, timedOut,
         finalSuccess, stopped} \subseteq BOOLEAN
    BY DEF Init
  <2>3. /\ cpc \in CallerPC /\ runner \in RunnerPC
        /\ responseData \in Payloads \cup {"none"}
        /\ answer \in [1..Calls -> Payloads \cup {"none"}]
        /\ conn \in {"none", "connecting", "open", "closed"}
    BY DEF Init, CallerPC, RunnerPC, Handling
  <2>4. QED
    BY <2>1, <2>2, <2>3 DEF TypeOK
<1>2. CallInBatch /\ PermitHeld /\ PermitReturned /\ HandlersInCall
  BY DEF Init, CallInBatch, PermitHeld, PermitReturned, HandlersInCall, Handling
<1>3. OneEnd /\ ReceivedIsResult /\ SuccessIsFinal /\ SuccessIsOwn
  BY DEF Init, OneEnd, ReceivedIsResult, SuccessIsFinal, SuccessIsOwn, Handling
<1>4. QED
  BY <1>1, <1>2, <1>3 DEF IInv

\* One permit is taken and given back, and a call of the batch is made at a time.
LEMMA NumberStep ==
  ASSUME TypeOK, CallInBatch, PermitHeld, PermitReturned, Next
  PROVE  CallInBatch' /\ PermitHeld' /\ PermitReturned'
         /\ call' \in 1 .. Calls + 1 /\ permits' \in 0..1
<1> USE DEF TypeOK, CallInBatch, PermitHeld, PermitReturned, batch, ctx, net, callerVars
<1>1. CASE NextCall
  BY <1>1, CallsAssumption DEF NextCall
<1>2. CASE SendRequest
  BY <1>2, CallsAssumption DEF SendRequest
<1>3. CASE Prepare
  BY <1>3, CallsAssumption DEF Prepare
<1>4. CASE WaitCompleted
  BY <1>4, CallsAssumption DEF WaitCompleted
<1>5. CASE WaitTimeout
  BY <1>5, CallsAssumption DEF WaitTimeout
<1>6. CASE Join
  BY <1>6, CallsAssumption DEF Join
<1>7. CASE Return
  BY <1>7, CallsAssumption DEF Return
<1>8. CASE Sleep
  BY <1>8, CallsAssumption DEF Sleep
<1>9. CASE Open
  BY <1>9, CallsAssumption DEF Open, Polling
<1>10. CASE OpenSent
  BY <1>10, CallsAssumption DEF OpenSent
<1>11. CASE Message
  BY <1>11, CallsAssumption DEF Message, Polling
<1>12. CASE FailOrClose
  BY <1>12, CallsAssumption DEF FailOrClose, Polling
<1>13. CASE \E p \in Payloads : MessageParsed(p)
  BY <1>13, CallsAssumption DEF MessageParsed
<1>14. CASE Failed
  BY <1>14, CallsAssumption DEF Failed
<1>15. CASE HandlerStops
  BY <1>15, CallsAssumption DEF HandlerStops
<1>16. CASE RunReturns
  BY <1>16, CallsAssumption DEF RunReturns
<1>17. CASE RequestExit
  BY <1>17, CallsAssumption DEF RequestExit
<1>18. QED
  BY <1>1, <1>2, <1>3, <1>4, <1>5, <1>6, <1>7, <1>8, <1>9, <1>10, <1>11, <1>12, <1>13,
     <1>14, <1>15, <1>16, <1>17
  DEF Next, Caller, Runner, RunnerContinues

\* Every step keeps the types of what is not a number.
LEMMA TypeStep ==
  ASSUME TypeOK, Next
  PROVE  /\ {uriSet', exitRequested', completed', sendSuccess', responseReceived', timedOut',
             finalSuccess', stopped'} \subseteq BOOLEAN
         /\ cpc' \in CallerPC /\ runner' \in RunnerPC
         /\ responseData' \in Payloads \cup {"none"}
         /\ answer' \in [1..Calls -> Payloads \cup {"none"}]
         /\ conn' \in {"none", "connecting", "open", "closed"}
<1> USE DEF TypeOK, CallerPC, RunnerPC, Payloads, Handling, batch, ctx, net, callerVars
<1>1. CASE NextCall
  BY <1>1 DEF NextCall
<1>2. CASE SendRequest
  BY <1>2 DEF SendRequest
<1>3. CASE Prepare
  BY <1>3 DEF Prepare
<1>4. CASE WaitCompleted
  BY <1>4 DEF WaitCompleted
<1>5. CASE WaitTimeout
  BY <1>5 DEF WaitTimeout
<1>6. CASE Join
  BY <1>6 DEF Join
<1>7. CASE Return
  BY <1>7 DEF Return
<1>8. CASE Sleep
  BY <1>8 DEF Sleep
<1>9. CASE Open
  BY <1>9 DEF Open, Polling
<1>10. CASE OpenSent
  BY <1>10 DEF OpenSent
<1>11. CASE Message
  BY <1>11 DEF Message, Polling
<1>12. CASE FailOrClose
  BY <1>12 DEF FailOrClose, Polling
<1>13. CASE \E p \in Payloads : MessageParsed(p)
  BY <1>13 DEF MessageParsed
<1>14. CASE Failed
  BY <1>14 DEF Failed
<1>15. CASE HandlerStops
  BY <1>15 DEF HandlerStops
<1>16. CASE RunReturns
  BY <1>16 DEF RunReturns
<1>17. CASE RequestExit
  BY <1>17 DEF RequestExit
<1>18. QED
  BY <1>1, <1>2, <1>3, <1>4, <1>5, <1>6, <1>7, <1>8, <1>9, <1>10, <1>11, <1>12, <1>13,
     <1>14, <1>15, <1>16, <1>17
  DEF Next, Caller, Runner, RunnerContinues

\* Handlers run in their call, the first end of a transaction is the only one, and the
\* outcome read after the wait is that of the answer.
LEMMA OutcomeStep ==
  ASSUME TypeOK, HandlersInCall, OneEnd, ReceivedIsResult, SuccessIsFinal, SuccessIsOwn, Next
  PROVE  HandlersInCall' /\ OneEnd' /\ ReceivedIsResult' /\ SuccessIsFinal' /\ SuccessIsOwn'
<1> USE DEF TypeOK, HandlersInCall, OneEnd, ReceivedIsResult, SuccessIsFinal, SuccessIsOwn,
         Handling, batch, ctx, net, callerVars
<1>1. CASE NextCall
  BY <1>1 DEF NextCall
<1>2. CASE SendRequest
  BY <1>2 DEF SendRequest
<1>3. CASE Prepare
  BY <1>3 DEF Prepare
<1>4. CASE WaitCompleted
  BY <1>4 DEF WaitCompleted
<1>5. CASE WaitTimeout
  BY <1>5 DEF WaitTimeout
<1>6. CASE Join
  BY <1>6 DEF Join
<1>7. CASE Return
  BY <1>7 DEF Return
<1>8. CASE Sleep
  BY <1>8 DEF Sleep
<1>9. CASE Open
  BY <1>9 DEF Open, Polling
<1>10. CASE OpenSent
  BY <1>10 DEF OpenSent
<1>11. CASE Message
  BY <1>11 DEF Message, Polling
<1>12. CASE FailOrClose
  BY <1>12 DEF FailOrClose, Polling
<1>13. CASE \E p \in Payloads : MessageParsed(p)
  BY <1>13 DEF MessageParsed
<1>14. CASE Failed
  BY <1>14 DEF Failed
<1>15. CASE HandlerStops
  BY <1>15 DEF HandlerStops
<1>16. CASE RunReturns
  BY <1>16 DEF RunReturns
<1>17. CASE RequestExit
  BY <1>17 DEF RequestExit
<1>18. QED
  BY <1>1, <1>2, <1>3, <1>4, <1>5, <1>6, <1>7, <1>8, <1>9, <1>10, <1>11, <1>12, <1>13,
     <1>14, <1>15, <1>16, <1>17
  DEF Next, Caller, Runner, RunnerContinues

\* A step that changes nothing keeps everything.
LEMMA StutterStep == IInv /\ UNCHANGED vars => IInv'
<1> SUFFICES ASSUME IInv, UNCHANGED vars PROVE IInv'
  OBVIOUS
<1> USE DEF IInv, vars, batch, ctx, net
<1>1. TypeOK' /\ CallInBatch' /\ PermitHeld' /\ PermitReturned'
  BY DEF TypeOK, CallInBatch, PermitHeld, PermitReturned
<1>2. HandlersInCall' /\ OneEnd' /\ ReceivedIsResult' /\ SuccessIsFinal' /\ SuccessIsOwn'
  BY DEF HandlersInCall, OneEnd, ReceivedIsResult, SuccessIsFinal, SuccessIsOwn
<1>3. QED
  BY <1>1, <1>2

\* Every step keeps the invariant.
LEMMA IInvStep == IInv /\ [Next]_vars => IInv'
<1>1. ASSUME IInv, Next PROVE IInv'
  <2>1. TypeOK'
    BY <1>1, NumberStep, TypeStep DEF IInv, TypeOK
  <2>2. QED
    BY <1>1, <2>1, NumberStep, OutcomeStep DEF IInv
<1>2. QED
  BY <1>1, StutterStep

\* The invariant of every reachable state.
THEOREM Invariance == Spec => []IInv
BY InitIInv, IInvStep, PTL DEF Spec

-----------------------------------------------------------------------------
\* Every variable keeps its type, and a call holds at most one permit.
THEOREM TypeCorrect == Spec => []TypeOK
BY Invariance, PTL DEF IInv

\* No handler runs outside the call whose client and context it uses.
THEOREM HandlersInCallCorrect == Spec => []HandlersInCall
BY Invariance, PTL DEF IInv

\* Only a result with the id of the call is returned as a success.
THEOREM SuccessIsOwnCorrect == Spec => []SuccessIsOwn
BY Invariance, PTL DEF IInv

\* Every call gives its permit back.
THEOREM PermitReturnedCorrect == Spec => []PermitReturned
BY Invariance, PTL DEF IInv

\* A call leaves neither a handler that can run nor a permit behind.
THEOREM CallContainedCorrect == Spec => []CallContained
BY Invariance, PTL DEF IInv, CallContained

\* A call that timed out returns no success, whatever comes while its runner is joined.
THEOREM TimeoutSticksCorrect == Spec => TimeoutSticks
<1>1. ASSUME IInv, [Next]_vars
      PROVE  [\A c \in 1..Calls : timedOut /\ cpc = "return" => answer'[c] = answer[c]]_vars
  <2>1. SUFFICES ASSUME timedOut, cpc = "return", Next PROVE answer' = answer
    BY <1>1
  <2>2. ~finalSuccess
    BY <1>1, <2>1 DEF IInv, SuccessIsFinal
  <2>3. CASE Return
    BY <2>2, <2>3 DEF Return
  <2>4. CASE Runner \/ RequestExit
    BY <2>4 DEF Runner, RunnerContinues, Open, OpenSent, Message, FailOrClose,
                MessageParsed, Failed, HandlerStops, RunReturns, RequestExit, callerVars, batch
  <2>5. CASE NextCall \/ SendRequest \/ Prepare \/ WaitCompleted \/ WaitTimeout \/ Join
             \/ Sleep
    BY <2>5 DEF NextCall, SendRequest, Prepare, WaitCompleted, WaitTimeout, Join, Sleep,
                batch
  <2>6. QED
    BY <2>1, <2>3, <2>4, <2>5 DEF Next, Caller
<1>2. QED
  BY <1>1, Invariance, PTL DEF Spec, TimeoutSticks
=============================================================================
